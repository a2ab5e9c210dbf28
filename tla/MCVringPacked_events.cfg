CONSTANTS
    b1 = b1
    b2 = b2
    NoBuf = NoBuf
    Bufs <- MCBufs
    TotalSg <- MCShortSg
    Num = 2
    MaxBatch = 2
    Indirect = FALSE
    EventIdx = {TRUE, FALSE}
    Callback = TRUE
    Calls = {"sleep", "disable_cb", "enable_cb", "enable_cb_delayed"}
SYMMETRY MCSymmetry
SPECIFICATION PackedSpec
INVARIANTS
    NoLostKick
    NoLostInterrupt
