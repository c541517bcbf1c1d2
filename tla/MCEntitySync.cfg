CONSTANTS
    RegionSize = 16
    Tether = 1
    MaxId = 3
    MaxUid = 3
    Places <- MCPlaces
    Spawn <- MCSpawn
    Scenes <- MCScenes
    ChunkSize = 2
    ViewDistance = 1
    ChunkFuzz = 1
    RegionFuzz = 1
    MaxEvents = 2
SPECIFICATION Spec
INVARIANTS TypeOK RegionsAgree MirrorIsExact SeesAllInView
CHECK_DEADLOCK FALSE
