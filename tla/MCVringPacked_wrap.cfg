CONSTANTS
    b1 = b1
    b2 = b2
    NoBuf = NoBuf
    Bufs <- MCBufs
    TotalSg <- MCFullSg
    Num = 3
    MaxBatch = 3
    Indirect = FALSE
    EventIdx = {TRUE}
    Callback = FALSE
    Calls = {"sleep"}
SPECIFICATION PackedSpec
INVARIANT NoLostKick
