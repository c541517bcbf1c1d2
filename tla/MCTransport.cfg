CONSTANTS
    s1 = s1
    s2 = s2
    SID = {s1, s2}
    Opener <- OpenerA
    PrioOf <- SamePrio
    Scenes <- MCScenes
    NoSid = NoSid
SPECIFICATION FairSpec
INVARIANT TypeOK
PROPERTIES KeepsPromise NoStreamLeaks EveryMessageArrives
CHECK_DEADLOCK FALSE
