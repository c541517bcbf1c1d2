CONSTANTS
    PRIO <- MCPrio
    Cost <- MCCost
    PointsMod <- MCPointsMod
    MaxBacklog = 2
    MaxServed = 12
SPECIFICATION Spec
INVARIANT TypeOK
INVARIANT WeightedShares
CHECK_DEADLOCK FALSE
