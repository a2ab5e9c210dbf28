CONSTANTS
    b1 = b1
    b2 = b2
    b3 = b3
    NoBuf = NoBuf
    Bufs <- MCShort
    TotalSg <- MCTotalSg
    Indirect = FALSE
    EventIdx = {TRUE, FALSE}
    Calls = {"batch", "disable_cb", "enable_cb", "enable_cb_delayed"}
    Num = 2
    Word = 4
SPECIFICATION SplitSpec
SYMMETRY MCSymmetry
INVARIANTS
    NoLostKick
    NoLostInterrupt
