------------------------------ MODULE PrioCosts ------------------------------
(***************************************************************************)
(* The arithmetic of PrioManager (network/src/prios.rs): what one frame of *)
(* a priority costs, which queued priority is served next, and the points  *)
(* array it is charged to.  Every points counter is an unsigned machine    *)
(* word: PointsMod stands for 2^32.                                        *)
(***************************************************************************)
EXTENDS Integers

CONSTANTS PRIO,       \* the priorities in use, a subset of 0..63
          Cost,       \* points a frame of each priority costs (PRIOS)
          PointsMod   \* number of values of a points counter

ASSUME PrioAssumption ==
    /\ PRIO \subseteq 0 .. 63
    /\ PointsMod \in Nat \ {0}
    /\ Cost \in [PRIO -> 1 .. PointsMod]

(* The rows of PrioManager::PRIOS that the configurations use. *)
CostTable ==
    [p \in {0, 1, 5, 10, 15, 20} |->
        CASE p = 0  -> 100
          [] p = 1  -> 115
          [] p = 5  -> 200
          [] p = 10 -> 400
          [] p = 15 -> 800
          [] p = 20 -> 1600]

NoPoints == [p \in PRIO |-> 0]

(* Mutant: priorities without a message are looked at as well.             *)
EligibleUnqueued(points, queued) == {p \in PRIO : points[p] < PointsMod - 1}

(* calc_next_prio starts its search at u32::MAX and only accepts a smaller *)
(* value, so a priority that holds exactly u32::MAX points is never found. *)
Eligible(points, queued) == {p \in queued : points[p] < PointsMod - 1}

(* The priority calc_next_prio returns, as a set: empty for None, otherwise *)
(* the one with the fewest points, the smaller number winning a tie.        *)
NextPrio(points, queued) ==
    LET E == Eligible(points, queued)
    IN  {p \in E : \A q \in E : \/ points[p] < points[q]
                                \/ points[p] = points[q] /\ p <= q}

(* Mutant: every frame costs the same.                                     *)
ChargeFlat(points, p) == [points EXCEPT ![p] = (@ + 1) % PointsMod]

(* points[prio] += PRIOS[prio] on a u32, without overflow checks. *)
Charge(points, p) == [points EXCEPT ![p] = (@ + Cost[p]) % PointsMod]
=============================================================================
