CONSTANTS
    s1 = s1
    s2 = s2
    SID = {s1, s2}
    NoSid = NoSid
    MaxMessages = 2
    FramesPerTick = 2
    MayBreak = TRUE
SPECIFICATION FairSpec
INVARIANTS TypeOK FlushCoversDue LossIsReported NoPanic
PROPERTY ReturnsWithOneClose
CHECK_DEADLOCK FALSE
