CONSTANTS
    s1 = s1
    s2 = s2
    SID = {s1, s2}
    Opener <- OpenerA
    PrioOf <- TwoPrios
    Scenes <- OneEach
    NoSid = NoSid
SPECIFICATION Spec
INVARIANT ExactlyOnceInOrder
CHECK_DEADLOCK FALSE
