-------------------------- MODULE PrioShares_proofs --------------------------
(***************************************************************************)
(* Proofs about the division of the wire between priorities, for any       *)
(* priorities and any costs of a frame.                                    *)
(***************************************************************************)
EXTENDS PrioShares, TLAPS

LEMMA ChargeType ==
    ASSUME NEW f \in [PRIO -> 0 .. PointsMod - 1], NEW p \in PRIO
    PROVE  Charge(f, p) \in [PRIO -> 0 .. PointsMod - 1]
<1>1. f[p] + Cost[p] \in Nat /\ PointsMod \in Nat \ {0}
  BY PrioAssumption
<1>2. (f[p] + Cost[p]) % PointsMod \in 0 .. PointsMod - 1
  BY <1>1
<1> QED
  BY <1>2 DEF Charge

LEMMA NextPrioIsQueued ==
    ASSUME NEW p \in NextPrio(points, Queued)
    PROVE  p \in Queued
  BY DEF NextPrio, Eligible

LEMMA TypeStep ==
    ASSUME TypeOK, [Next]_vars
    PROVE  TypeOK'
<1> USE DEF TypeOK
<1>1. ASSUME NEW p \in PRIO, Arrive(p)
      PROVE  TypeOK'
  <2>1. backlog' \in [PRIO -> 0 .. MaxBacklog] /\ backlog' = [backlog EXCEPT ![p] = backlog[p] + 1]
    BY <1>1, SharesAssumption DEF Arrive
  <2>2. Queued \cup {p} \subseteq Queued'
    BY <2>1 DEF Queued
  <2> QED
    BY <1>1, <2>1, <2>2 DEF Arrive
<1>2. ASSUME NEW p \in PRIO, ServeFrame(p)
      PROVE  TypeOK'
  <2>1. backlog[p] > 0
    BY <1>2, NextPrioIsQueued DEF ServeFrame, Queued
  <2>2. backlog' = [backlog EXCEPT ![p] = backlog[p] - 1]
    BY <1>2 DEF ServeFrame
  <2>3. backlog' \in [PRIO -> 0 .. MaxBacklog]
    BY <2>1, <2>2, SharesAssumption
  <2>4. points' \in [PRIO -> 0 .. PointsMod - 1]
    BY <1>2, ChargeType DEF ServeFrame
  <2>5. served' \in [PRIO -> Nat]
    BY <1>2 DEF ServeFrame
  <2>6. steady' \subseteq Queued'
    <3>1. steady' = IF backlog[p] = 1 THEN steady \ {p} ELSE steady
      BY <1>2 DEF ServeFrame
    <3> QED
      BY <2>1, <2>2, <3>1 DEF Queued
  <2> QED
    BY <2>3, <2>4, <2>5, <2>6
<1>3. CASE ClearPoints
  BY <1>3, PrioAssumption DEF ClearPoints, NoPoints, Queued
<1>4. CASE UNCHANGED vars
  BY <1>4 DEF vars, Queued
<1> QED
  BY <1>1, <1>2, <1>3, <1>4 DEF Next

(* The backlog never goes below zero and the counters stay in their word,  *)
(* also when they wrap: only a priority with work is served.               *)
THEOREM TypeCorrect == Spec => []TypeOK
<1>1. Init => TypeOK
  BY PrioAssumption, SharesAssumption DEF Init, TypeOK, NoPoints, Queued
<1>2. TypeOK /\ [Next]_vars => TypeOK'
  BY TypeStep
<1> QED
  BY <1>1, <1>2, PTL DEF Spec
-----------------------------------------------------------------------------
(* What makes WeightedShares inductive: the points tell how many frames    *)
(* were served, and the priorities with work are within one frame.         *)
PointsAreServed ==
    \A p \in PRIO : served[p] <= MaxServed /\ points[p] = served[p] * Cost[p]

PointsClose ==
    \A p, q \in steady : points[p] <= points[q] + Cost[p]

SInv == TypeOK /\ PointsAreServed /\ PointsClose

LEMMA OneMore ==
    ASSUME NEW n \in Nat, NEW c \in Nat
    PROVE  (n + 1) * c = n * c + c
  OBVIOUS

LEMMA Monotone ==
    ASSUME NEW m \in Nat, NEW n \in Nat, NEW c \in Nat, m <= n
    PROVE  m * c <= n * c
  OBVIOUS

LEMMA SharesStep ==
    ASSUME NoWrap, MaxServed > 0, SInv, [Next]_vars
    PROVE  SInv'
<1> USE DEF SInv
<1>0. TypeOK'
  BY TypeStep
<1>c. /\ Cost \in [PRIO -> Nat] /\ PointsMod \in Nat
      /\ served \in [PRIO -> Nat] /\ points \in [PRIO -> Nat]
      /\ steady \subseteq Queued /\ Queued \subseteq PRIO
  BY PrioAssumption DEF TypeOK, Queued
<1>1. ASSUME NEW p \in PRIO, Arrive(p)
      PROVE  (PointsAreServed /\ PointsClose)'
  <2>1. PointsAreServed'
    BY <1>1 DEF Arrive, PointsAreServed
  <2>2. CASE points = NoPoints
    <3>1. \A r \in PRIO : points'[r] = 0
      BY <1>1, <2>2 DEF Arrive, NoPoints
    <3>2. steady' \subseteq PRIO
      BY <1>c, <1>1 DEF Arrive
    <3> QED
      BY <1>c, <2>1, <3>1, <3>2 DEF PointsClose
  <2>3. CASE points # NoPoints
    BY <1>1, <2>1, <2>3 DEF Arrive, PointsClose
  <2> QED
    BY <2>2, <2>3
<1>2. ASSUME NEW p \in PRIO, ServeFrame(p)
      PROVE  (PointsAreServed /\ PointsClose)'
  <2>1. served' = [served EXCEPT ![p] = served[p] + 1] /\ served[p] < MaxServed
    BY <1>2 DEF ServeFrame
  <2>2. (served[p] + 1) * Cost[p] = points[p] + Cost[p]
    BY <1>c, OneMore DEF PointsAreServed
  <2>3. (served[p] + 1) * Cost[p] <= MaxServed * Cost[p]
    BY <1>c, <2>1, SharesAssumption, Monotone
  <2>4. MaxServed * Cost[p] < PointsMod - 1 /\ MaxServed * Cost[p] \in Nat
    BY <1>c, SharesAssumption DEF NoWrap
  <2>5. points[p] + Cost[p] \in 0 .. PointsMod - 1
    BY <1>c, <2>2, <2>3, <2>4
  <2>6. points' = [points EXCEPT ![p] = points[p] + Cost[p]]
    <3>1. (points[p] + Cost[p]) % PointsMod = points[p] + Cost[p]
      BY <1>c, <2>5, PrioAssumption
    <3> QED
      BY <1>2, <3>1 DEF ServeFrame, Charge
  <2>7. PointsAreServed'
    <3>1. ASSUME NEW r \in PRIO
          PROVE  served'[r] <= MaxServed /\ points'[r] = served'[r] * Cost[r]
      <4>1. CASE r = p
        BY <1>c, <2>1, <2>2, <2>6, <4>1, SharesAssumption
      <4>2. CASE r # p
        BY <1>c, <2>1, <2>6, <4>2 DEF PointsAreServed
      <4> QED
        BY <4>1, <4>2
    <3> QED
      BY <3>1 DEF PointsAreServed
  <2>8. \A q \in steady : points[p] <= points[q]
    <3>1. ASSUME NEW q \in steady
          PROVE  q \in Eligible(points, Queued)
      <4>1. points[q] <= MaxServed * Cost[q]
        BY <1>c, SharesAssumption, Monotone DEF PointsAreServed
      <4>2. MaxServed * Cost[q] < PointsMod - 1 /\ MaxServed * Cost[q] \in Nat
        BY <1>c, SharesAssumption DEF NoWrap
      <4> QED
        BY <1>c, <4>1, <4>2 DEF Eligible
    <3>2. \A q \in Eligible(points, Queued) : points[p] <= points[q]
      BY <1>c, <1>2 DEF ServeFrame, NextPrio, Eligible
    <3> QED
      BY <3>1, <3>2
  <2>9. steady' \subseteq steady
    BY <1>2 DEF ServeFrame
  <2>10. ASSUME NEW q \in steady', NEW r \in steady'
         PROVE  points'[q] <= points'[r] + Cost[q]
    <3>1. /\ q \in PRIO /\ r \in PRIO /\ q \in steady /\ r \in steady
          /\ points[q] <= points[r] + Cost[q]
      BY <1>c, <2>9 DEF PointsClose
    <3> QED
      BY <1>c, <2>6, <2>8, <3>1
  <2> QED
    BY <2>7, <2>10 DEF PointsClose
<1>3. CASE ClearPoints
  <2>1. /\ \A p \in PRIO : served'[p] = 0 /\ points'[p] = 0 /\ 0 * Cost[p] = 0
        /\ steady' = {}
    BY <1>3, <1>c DEF ClearPoints, NoPoints
  <2>2. PointsAreServed'
    BY <2>1, SharesAssumption DEF PointsAreServed
  <2>3. PointsClose'
    BY <2>1 DEF PointsClose
  <2> QED
    BY <1>0, <2>2, <2>3
<1>4. CASE UNCHANGED vars
  <2>1. PointsAreServed'
    BY <1>4 DEF vars, PointsAreServed
  <2>2. PointsClose'
    BY <1>4 DEF vars, PointsClose
  <2> QED
    BY <1>0, <2>1, <2>2
<1> QED
  BY <1>0, <1>1, <1>2, <1>3, <1>4 DEF Next

(* Whatever the costs and however frames arrive: two priorities that have  *)
(* both had work since the points were cleared were charged the same, up   *)
(* to one frame, as long as MaxServed frames fit into a points counter.    *)
THEOREM SharesAreWeighted ==
    ASSUME NoWrap, MaxServed > 0
    PROVE  Spec => []WeightedShares
<1>1. Init => SInv
  <2>1. Init => TypeOK
    BY PrioAssumption, SharesAssumption DEF Init, TypeOK, NoPoints, Queued
  <2>2. Init => PointsAreServed /\ PointsClose
    BY PrioAssumption, SharesAssumption DEF Init, NoPoints, PointsAreServed, PointsClose
  <2> QED
    BY <2>1, <2>2 DEF SInv
<1>2. SInv /\ [Next]_vars => SInv'
  BY SharesStep
<1>3. SInv => WeightedShares
  BY DEF SInv, TypeOK, Queued, PointsAreServed, PointsClose, WeightedShares
<1> QED
  BY <1>1, <1>2, <1>3, PTL DEF Spec
=============================================================================
