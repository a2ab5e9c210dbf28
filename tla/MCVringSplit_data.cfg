CONSTANTS
    b1 = b1
    b2 = b2
    b3 = b3
    NoBuf = NoBuf
    Bufs <- MCBufs
    TotalSg <- MCTotalSg
    Indirect = TRUE
    EventIdx = {FALSE}
    Calls = {"break", "bad_id", "reset"}
    Num = 2
    Word = 4
SPECIFICATION SplitSpec
SYMMETRY MCSymmetry
INVARIANTS
    FreeListExact
    ChainsIntact
PROPERTY Virtqueue
