CONSTANTS
    s1 = s1
    s2 = s2
    SID = {s1, s2}
    NoSid = NoSid
    MaxMessages = 1
    FramesPerTick = 1
    MayBreak = FALSE
SPECIFICATION FairSpec
PROPERTY DisconnectReturns
CHECK_DEADLOCK FALSE
