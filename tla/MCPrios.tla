------------------------------- MODULE MCPrios -------------------------------
(***************************************************************************)
(* Two Streams of one priority, or of two; messages of one and of two data *)
(* frames; at most two iterations per fill_frames, so that a message is    *)
(* often left half sent and two messages compete for the second one.       *)
(***************************************************************************)
EXTENDS Prios, TLC

CONSTANTS s1, s2

MCPrio == {0, 5}
MCCost == [p \in MCPrio |-> CostTable[p]]
MCPointsMod == 1000000
MCPrioChoices == {(s1 :> 0) @@ (s2 :> 0), (s1 :> 0) @@ (s2 :> 5)}
=============================================================================
