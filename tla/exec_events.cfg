CONSTANTS
    Streams = {out, err}
    Exit = exit
    MaxChunks = 1
    RetainCap = 1
    EventCap = 1
    ChanCap = 1
SPECIFICATION FairSpec
INVARIANTS TypeOK ClosedIsLast ClosingInv NothingSkipped ClosedIsComplete
PROPERTIES ConsumersEnd
