\* A block that Alice knows under another codec only.
SPECIFICATION Spec
CONSTANTS
    r = r x = x a = a z = z m = m
    Raw = Raw DagCbor = DagCbor
    Alice = Alice Bob = Bob
    NoBlock = NoBlock NoCid = NoCid
    Block = {r, x, a, z, m}
    Codec = {Raw, DagCbor}
    LinksOf <- FourBlocks
    Malformed = {m}
    Cars <- OtherCodecCars
    Requests <- AllRequests
    Window = 1
    Unsynced = {z}
INVARIANT InStepAlways
CHECK_DEADLOCK FALSE
