CONSTANTS
    k1 = k1
    k2 = k2
    Away = Away
    Clients = {k1, k2}
    Chunks <- MCKeys
    Places <- MCPlaces
    Scenes <- MCScenes
    ViewDistance = 1
    MaxPending = 1
    Stride = 1
    MaxSent = 2
SPECIFICATION Spec
INVARIANTS TypeOK NothingSwallowed
PROPERTIES ChunksCome FarChunksGo Renewed
CHECK_DEADLOCK FALSE
