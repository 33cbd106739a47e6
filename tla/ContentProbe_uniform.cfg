\* A hash sequence whose children end in chunks that are not full.
SPECIFICATION Spec
CONSTANTS
    empty = empty short = short long = long whole = whole tiny = tiny mixed = mixed huge = huge
    Tasks = {t1}
    Blobs = {empty, short, long, whole}
    Seqs = {tiny, mixed, huge}
    Size <- BlobSizes
    Children <- SeqChildren
    ChunkLen = 2
    HashLen = 1
    MaxSeqSize = 5
    Claims = {0, 1, 2, 5, 6}
    Unknown = Unknown
    Nothing = Nothing
INVARIANT ChunksAreDrawnUniformly
CHECK_DEADLOCK FALSE
