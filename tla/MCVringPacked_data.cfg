CONSTANTS
    b1 = b1
    b2 = b2
    NoBuf = NoBuf
    Bufs <- MCBufs
    TotalSg <- MCMixedSg
    Num = 3
    MaxBatch = 3
    Indirect = TRUE
    EventIdx = {FALSE}
    Callback = FALSE
    Calls = {"bad_id", "reset"}
SPECIFICATION PackedSpec
INVARIANTS
    FreeListExact
    PlacesAgree
    RingIntact
PROPERTY Virtqueue
