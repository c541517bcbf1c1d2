CONSTANTS
    a = a
    b = b
    ACCOUNT = {a, b}
    MAX_CHARACTERS_PER_PLAYER = 1
    MaxCharacter = 3
    MaxProgress = 1
    MaxRequests = 1
    MaxSaves = 1
    MaxClient = 2
    Valid = {a}
    Scenes <- MCScenes
    MaxSent = 2
SPECIFICATION FairSpec
INVARIANTS TypeOK AccountsMatch PlaysItsCharacter CharacterLimit
PROPERTIES NoRollback ClosedIsFreed EntersOrReturns
CHECK_DEADLOCK FALSE
