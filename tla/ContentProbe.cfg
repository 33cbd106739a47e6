\* Two tasks, four blobs, three hash sequences, the last one too large.
SPECIFICATION Spec
CONSTANTS
    empty = empty short = short long = long whole = whole tiny = tiny mixed = mixed huge = huge
    Tasks = {t1, t2}
    Blobs = {empty, short, long, whole}
    Seqs = {tiny, mixed, huge}
    Size <- BlobSizes
    Children <- SeqChildren
    ChunkLen = 2
    HashLen = 1
    MaxSeqSize = 5
    Claims = {0, 1, 2, 5, 6}
    Unknown = Unknown
    Nothing = Nothing
INVARIANTS
    ProbesAskForRealChunks
    FullChunksAreDrawnOnce
CHECK_DEADLOCK FALSE
