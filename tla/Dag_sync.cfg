\* Requests of every kind, a false file at the sender, crashes of either node,
\* a store that may lose one blob.
SPECIFICATION FairSpec
CONSTANTS
    r = r x = x a = a z = z m = m
    Raw = Raw DagCbor = DagCbor
    Alice = Alice Bob = Bob
    NoBlock = NoBlock NoCid = NoCid
    Block = {r, x, a, z, m}
    Codec = {Raw, DagCbor}
    LinksOf <- FourBlocks
    Malformed = {m}
    Cars <- AllCars
    Requests <- AllRequests
    Window = 1
    Unsynced = {z}
INVARIANTS
    TypeOK
    FalseMappingsDoNotSpread
    MappedIsStored
    InStep
    CompleteIsComplete
    VisitsInPreOrder
PROPERTY SyncsEnd
CHECK_DEADLOCK FALSE
