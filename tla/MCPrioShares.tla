---------------------------- MODULE MCPrioShares ----------------------------
(* Priorities 0, 5 and 10 with their real costs and counters that cannot   *)
(* wrap within the bound on the frames served.                             *)
EXTENDS PrioShares

MCPrio == {0, 5, 10}
MCCost == [p \in MCPrio |-> CostTable[p]]
MCPointsMod == 1000000
=============================================================================
