------------------------------ MODULE MCGroups ------------------------------
(***************************************************************************)
(* Three players, or two and a villager, with an animal that one of them   *)
(* may tame and one entity to come back as; groups of at most three.       *)
(***************************************************************************)
EXTENDS Groups, TLC

CONSTANTS a, b, c, w, s

People == {a, b, c}
MCCasts ==
    LET cast(v) == [e \in ENTITY |-> CASE e = w -> "wild"
                                       [] e = s -> "unborn"
                                       [] e = v -> "npc"
                                       [] OTHER -> "player"]
    IN  {cast(v) : v \in People \cup {Nobody}}
Symmetry == Permutations(People)
=============================================================================
