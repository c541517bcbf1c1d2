----------------------------- MODULE PrioShares -----------------------------
(***************************************************************************)
(* How PrioManager divides the wire between priorities.  A priority is     *)
(* reduced to the number of frames it still has to send; fill_frames takes *)
(* one frame of the cheapest queued priority at a time.  `served' counts   *)
(* the frames of each priority since the points were last cleared and      *)
(* `steady' the priorities that have had work ever since.                  *)
(***************************************************************************)
EXTENDS PrioCosts

CONSTANTS MaxBacklog,   \* bound: frames one priority may have waiting
          MaxServed     \* bound: frames counted per priority, 0 counts none

ASSUME SharesAssumption == MaxBacklog \in Nat /\ MaxServed \in Nat

VARIABLES points, backlog, served, steady

vars == <<points, backlog, served, steady>>

Queued == {p \in PRIO : backlog[p] > 0}

Init ==
    /\ points = NoPoints
    /\ backlog = [p \in PRIO |-> 0]
    /\ served = [p \in PRIO |-> 0]
    /\ steady = {}

(* A frame's worth of message reaches the queue of p (tick). *)
Arrive(p) ==
    /\ backlog[p] < MaxBacklog
    /\ backlog' = [backlog EXCEPT ![p] = @ + 1]
    /\ steady' = IF points = NoPoints THEN steady \cup {p} ELSE steady
    /\ UNCHANGED <<points, served>>

(* One iteration of the loop of fill_frames that finds a priority. *)
ServeFrame(p) ==
    /\ p \in NextPrio(points, Queued)
    /\ MaxServed > 0 => served[p] < MaxServed
    /\ points' = Charge(points, p)
    /\ backlog' = [backlog EXCEPT ![p] = @ - 1]
    /\ served' = IF MaxServed > 0 THEN [served EXCEPT ![p] = @ + 1] ELSE served
    /\ steady' = IF backlog[p] = 1 THEN steady \ {p} ELSE steady

(* The iteration that finds none: fill_frames clears every counter. *)
ClearPoints ==
    /\ NextPrio(points, Queued) = {}
    /\ points # NoPoints
    /\ points' = NoPoints
    /\ served' = [p \in PRIO |-> 0]
    /\ steady' = {}
    /\ UNCHANGED backlog

Next ==
    \/ \E p \in PRIO : Arrive(p) \/ ServeFrame(p)
    \/ ClearPoints

Spec == Init /\ [][Next]_vars
-----------------------------------------------------------------------------
TypeOK ==
    /\ points \in [PRIO -> 0 .. PointsMod - 1]
    /\ backlog \in [PRIO -> 0 .. MaxBacklog]
    /\ served \in [PRIO -> Nat]
    /\ steady \subseteq Queued

(* What fits into the counters: MaxServed frames of any priority.          *)
NoWrap == \A p \in PRIO : MaxServed * Cost[p] < PointsMod - 1

(* As long as no counter wraps, two priorities that have both had work     *)
(* since the counters were cleared have been charged the same up to one    *)
(* frame: this is the promise that five steps of priority halve the        *)
(* throughput (doc comment at the top of prios.rs).                        *)
WeightedShares ==
    \A p, q \in steady : served[p] * Cost[p] <= served[q] * Cost[q] + Cost[p]
=============================================================================
