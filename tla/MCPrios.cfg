CONSTANTS
    s1 = s1
    s2 = s2
    SID = {s1, s2}
    PRIO <- MCPrio
    Cost <- MCCost
    PointsMod <- MCPointsMod
    PrioChoices <- MCPrioChoices
    Sizes = {1, 2}
    MaxMessages = 2
    FramesPerTick = 2
    NoSid = NoSid
SPECIFICATION FairSpec
INVARIANT TypeOK
INVARIANT Bookkeeping
INVARIANT FlushIsComplete
INVARIANT FlushedInFull
INVARIANT NoMixing
PROPERTY ServesInOrder
PROPERTY EveryDropFlushed
