---------------------------- MODULE Groups_proofs ----------------------------
(***************************************************************************)
(* For any number of entities and groups: Invite and PendingInvites, two   *)
(* components kept on different entities by nothing but the handlers,      *)
(* agree; the Group components and the slab agree on who is in which       *)
(* group; and no group outgrows its limit.                                 *)
(***************************************************************************)
EXTENDS Groups, FiniteSetTheorems, FunctionTheorems, TLAPS

invitesVars == <<alive, uid, invite, pending>>

(* The part of TypeOK that invites are about.                              *)
InvitesTyped ==
    /\ alive \subseteq ENTITY
    /\ uid \in [ENTITY -> ENTITY \cup {Nobody}]
    /\ invite \in [ENTITY -> ENTITY \cup {Nobody}]
    /\ pending \in [ENTITY -> SUBSET ENTITY]

(* An entity that is gone has lost its components.                         *)
GoneIsClean == \A e \in ENTITY \ alive : invite[e] = Nobody /\ pending[e] = {}

(* An entity that was never there is named by no component: handle_exit_   *)
(* ingame creates one, and nobody must remember it.                        *)
UnbornIsUnknown ==
    \A e \in ENTITY : uid[e] = Nobody =>
        /\ e \notin alive
        /\ \A x \in ENTITY : invite[x] # e /\ e \notin pending[x]

IInv == InvitesTyped /\ GoneIsClean /\ UnbornIsUnknown /\ InvitesAgree
-----------------------------------------------------------------------------
(* The handlers seen from the invites: one is sent, one is taken back, an  *)
(* entity goes, another takes its place, or nothing changes.               *)
Sent(x, y) ==
    /\ x \in alive /\ y \in alive
    /\ invite[y] = Nobody
    /\ invite' = [invite EXCEPT ![y] = x]
    /\ pending' = [pending EXCEPT ![x] = @ \cup {y}]
    /\ UNCHANGED <<alive, uid>>

TakenBack(y) == Withdraw(y) /\ UNCHANGED <<alive, uid>>

Gone(e) ==
    /\ alive' = alive \ {e}
    /\ invite' = [invite EXCEPT ![e] = Nobody]
    /\ pending' = [pending EXCEPT ![e] = {}]
    /\ UNCHANGED uid

Replaced(x, n) ==
    /\ x \in alive
    /\ uid[n] = Nobody
    /\ alive' = (alive \ {x}) \cup {n}
    /\ uid' = [uid EXCEPT ![n] = uid[x]]
    /\ invite' = [invite EXCEPT ![x] = Nobody]
    /\ pending' = [pending EXCEPT ![x] = {}]

(* Every step of Groups is one of these.                                   *)
LEMMA StepOfInvites ==
    ASSUME [Next]_vars
    PROVE  \/ \E x, y \in ENTITY : Sent(x, y) \/ Replaced(x, y)
           \/ \E y \in ENTITY : TakenBack(y) \/ Gone(y)
           \/ UNCHANGED invitesVars
<1>1. CASE UNCHANGED vars
  BY <1>1 DEF vars, bodies, invites, invitesVars
<1>2. ASSUME NEW x \in ENTITY, NEW y \in ENTITY, Invite(x, y) PROVE Sent(x, y)
  BY <1>2 DEF Invite, InGame, Sent, bodies
<1>3. ASSUME NEW x \in ENTITY, NEW y \in ENTITY, Kick(x, y) PROVE UNCHANGED invitesVars
  BY <1>3 DEF Kick, bodies, invites, invitesVars
<1>4. ASSUME NEW x \in ENTITY, NEW y \in ENTITY, AssignLeader(x, y) PROVE UNCHANGED invitesVars
  BY <1>4 DEF AssignLeader, bodies, invites, invitesVars
<1>5. ASSUME NEW x \in ENTITY, NEW y \in ENTITY, Tame(x, y) PROVE UNCHANGED invitesVars
  BY <1>5 DEF Tame, invites, invitesVars
<1>6. ASSUME NEW x \in ENTITY, NEW y \in ENTITY, ExitIngame(x, y) PROVE Replaced(x, y)
  BY <1>6 DEF ExitIngame, InGame, Replaced
<1>7. ASSUME NEW y \in ENTITY, Accept(y) \/ Decline(y) \/ InviteTimeout(y) PROVE TakenBack(y)
  BY <1>7 DEF Accept, Decline, InviteTimeout, TakenBack, bodies
<1>8. ASSUME NEW x \in ENTITY, Leave(x) PROVE UNCHANGED invitesVars
  BY <1>8 DEF Leave, bodies, invites, invitesVars
<1>9. ASSUME NEW x \in ENTITY, Delete(x) PROVE Gone(x)
  BY <1>9 DEF Delete, Gone
<1>10. ASSUME NEW x \in ENTITY, EnterGame(x) PROVE UNCHANGED invitesVars
  BY <1>10 DEF EnterGame, invites, invitesVars
<1>11. QED
  BY <1>1, <1>2, <1>3, <1>4, <1>5, <1>6, <1>7, <1>8, <1>9, <1>10 DEF Next
-----------------------------------------------------------------------------
(* Nobody has been invited, and those who are not there have no Uid.       *)
LEMMA InvitesInit == Init => IInv
<1>1. SUFFICES ASSUME Init PROVE IInv
  OBVIOUS
<1>2. PICK cast \in Casts :
        /\ alive = {e \in ENTITY : cast[e] # "unborn"}
        /\ uid = [e \in ENTITY |-> IF e \in {d \in ENTITY : cast[d] # "unborn"}
                                   THEN e ELSE Nobody]
        /\ invite = [e \in ENTITY |-> Nobody]
        /\ pending = [e \in ENTITY |-> {}]
  BY <1>1 DEF Init
<1>3. QED
  BY <1>2, GroupsAssumption
     DEF IInv, InvitesTyped, GoneIsClean, UnbornIsUnknown, InvitesAgree, GroupsAssumption

LEMMA SentKeeps ==
    ASSUME IInv, NEW x \in ENTITY, NEW y \in ENTITY, Sent(x, y)
    PROVE  IInv'
<1> USE GroupsAssumption DEF GroupsAssumption
<1>1. /\ invite' = [invite EXCEPT ![y] = x]
      /\ pending' = [pending EXCEPT ![x] = @ \cup {y}]
      /\ alive' = alive /\ uid' = uid
      /\ x \in alive /\ y \in alive /\ invite[y] = Nobody
  BY DEF Sent
<1>2. InvitesTyped'
  BY <1>1 DEF IInv, InvitesTyped
<1>3. GoneIsClean'
  BY <1>1 DEF IInv, InvitesTyped, GoneIsClean
<1>4. UnbornIsUnknown'
  BY <1>1 DEF IInv, InvitesTyped, UnbornIsUnknown
<1>5. InvitesAgree'
  BY <1>1 DEF IInv, InvitesTyped, InvitesAgree
<1>6. QED
  BY <1>2, <1>3, <1>4, <1>5 DEF IInv

LEMMA TakenBackKeeps ==
    ASSUME IInv, NEW y \in ENTITY, TakenBack(y)
    PROVE  IInv'
<1> USE GroupsAssumption DEF GroupsAssumption
<1>1. /\ invite' = [invite EXCEPT ![y] = Nobody]
      /\ pending' = [x \in ENTITY |->
                        IF x = invite[y] THEN pending[x] \ {y} ELSE pending[x]]
      /\ alive' = alive /\ uid' = uid
  BY DEF TakenBack, Withdraw
<1>2. InvitesTyped'
  BY <1>1 DEF IInv, InvitesTyped
<1>3. GoneIsClean'
  BY <1>1 DEF IInv, InvitesTyped, GoneIsClean
<1>4. UnbornIsUnknown'
  BY <1>1 DEF IInv, InvitesTyped, UnbornIsUnknown
<1>5. InvitesAgree'
  BY <1>1 DEF IInv, InvitesTyped, GoneIsClean, InvitesAgree
<1>6. QED
  BY <1>2, <1>3, <1>4, <1>5 DEF IInv

LEMMA GoneKeeps ==
    ASSUME IInv, NEW e \in ENTITY, Gone(e)
    PROVE  IInv'
<1> USE GroupsAssumption DEF GroupsAssumption
<1>1. /\ alive' = alive \ {e}
      /\ invite' = [invite EXCEPT ![e] = Nobody]
      /\ pending' = [pending EXCEPT ![e] = {}]
      /\ uid' = uid
  BY DEF Gone
<1>2. InvitesTyped'
  BY <1>1 DEF IInv, InvitesTyped
<1>3. GoneIsClean'
  BY <1>1 DEF IInv, InvitesTyped, GoneIsClean
<1>4. UnbornIsUnknown'
  BY <1>1 DEF IInv, InvitesTyped, UnbornIsUnknown
<1>5. InvitesAgree'
  BY <1>1 DEF IInv, InvitesTyped, InvitesAgree
<1>6. QED
  BY <1>2, <1>3, <1>4, <1>5 DEF IInv

(* The new entity is unknown to all, and the old one had all that named    *)
(* its inviter or its invitees.                                            *)
LEMMA ReplacedKeeps ==
    ASSUME IInv, NEW x \in ENTITY, NEW n \in ENTITY, Replaced(x, n)
    PROVE  IInv'
<1> USE GroupsAssumption DEF GroupsAssumption
<1>1. /\ alive' = (alive \ {x}) \cup {n}
      /\ uid' = [uid EXCEPT ![n] = uid[x]]
      /\ invite' = [invite EXCEPT ![x] = Nobody]
      /\ pending' = [pending EXCEPT ![x] = {}]
      /\ x \in alive /\ uid[n] = Nobody
  BY DEF Replaced
<1>2. /\ uid[x] # Nobody /\ n # x /\ n \notin alive
      /\ invite[n] = Nobody /\ pending[n] = {}
      /\ \A e \in ENTITY : invite[e] # n /\ n \notin pending[e]
  BY <1>1 DEF IInv, InvitesTyped, GoneIsClean, UnbornIsUnknown
<1>3. InvitesTyped'
  BY <1>1 DEF IInv, InvitesTyped
<1>4. GoneIsClean'
  BY <1>1 DEF IInv, InvitesTyped, GoneIsClean
<1>5. UnbornIsUnknown'
  BY <1>1, <1>2 DEF IInv, InvitesTyped, UnbornIsUnknown
<1>6. InvitesAgree'
  BY <1>1, <1>2 DEF IInv, InvitesTyped, InvitesAgree
<1>7. QED
  BY <1>3, <1>4, <1>5, <1>6 DEF IInv

(* Whatever handler runs, the invariant of the invites stays.              *)
LEMMA InvitesNext == IInv /\ [Next]_vars => IInv'
<1>1. SUFFICES ASSUME IInv, [Next]_vars PROVE IInv'
  OBVIOUS
<1>2. CASE UNCHANGED invitesVars
  BY <1>1, <1>2 DEF invitesVars, IInv, InvitesTyped, GoneIsClean, UnbornIsUnknown, InvitesAgree
<1>3. QED
  BY <1>1, <1>2, StepOfInvites, SentKeeps, TakenBackKeeps, GoneKeeps, ReplacedKeeps

(* For any number of players, NPCs and animals: an entity has an Invite    *)
(* from another exactly if the other counts it among its PendingInvites,   *)
(* in whatever order they accept, decline, time out, leave or are deleted. *)
THEOREM InvitesAreKept == Spec => []InvitesAgree
<1>1. Init => IInv
  BY InvitesInit
<1>2. IInv /\ [Next]_vars => IInv'
  BY InvitesNext
<1>3. IInv => InvitesAgree
  BY DEF IInv
<1>4. QED
  BY <1>1, <1>2, <1>3, PTL DEF Spec
-----------------------------------------------------------------------------
(* What the operations of GroupManager do, fact by fact.  Here a state w   *)
(* of its two variables is well typed.                                     *)
MEMBERSHIP == GROUP \cup {NoGroup, NpcGroup}
ENTRY == [leader : ENTITY, num_members : Nat]

Typed(w) ==
    /\ w.groups \in [ENTITY -> MEMBERSHIP]
    /\ DOMAIN w.slab \subseteq GROUP
    /\ IsFiniteSet(DOMAIN w.slab)
    /\ w.slab \in [DOMAIN w.slab -> ENTRY]

(* The slab has at least n vacant keys among those that Vacant looks at.   *)
LEMMA VacantCount ==
    ASSUME NEW w, Typed(w), NEW n \in Nat
    PROVE  /\ Vacant(w, n) \subseteq GROUP \ DOMAIN w.slab
           /\ IsFiniteSet(Vacant(w, n))
           /\ Cardinality(Vacant(w, n)) >= n
<1> DEFINE D == DOMAIN w.slab
           d == Cardinality(D)
           V == Vacant(w, n)
<1>1. IsFiniteSet(D) /\ d \in Nat
  BY FS_CardinalityType DEF Typed
<1>2. IsFiniteSet(1 .. d + n) /\ Cardinality(1 .. d + n) = d + n
  <2>1. d + n \in Nat /\ d + n \in Int /\ 1 \in Int
    BY <1>1
  <2>2. QED
    BY <2>1, FS_Interval
<1>3. V \in SUBSET (1 .. d + n)
  BY DEF Vacant
<1>4. IsFiniteSet(V) /\ Cardinality(V) \in Nat
  BY <1>2, <1>3, FS_Subset, FS_CardinalityType
<1>5. /\ IsFiniteSet(V \cup D)
      /\ Cardinality(V \cup D) = Cardinality(V) + d - Cardinality(V \cap D)
  BY <1>1, <1>4, FS_Union
<1>6. V \cap D = {}
  BY DEF Vacant
<1>7. Cardinality(V \cap D) = 0
  BY <1>6, FS_EmptySet
<1>8. (1 .. d + n) \in SUBSET (V \cup D)
  BY DEF Vacant
<1>9. d + n <= Cardinality(V \cup D)
  BY <1>2, <1>5, <1>8, FS_Subset
<1>10. Cardinality(V) >= n
  BY <1>1, <1>4, <1>5, <1>7, <1>9
<1>11. V \subseteq GROUP \ D
  BY <1>1, <1>3 DEF Vacant, GROUP
<1>12. QED
  BY <1>4, <1>10, <1>11

(* There is always a key for a new group ...                               *)
LEMMA VacantKey ==
    ASSUME NEW w, Typed(w)
    PROVE  (CHOOSE k \in Vacant(w, 1) : TRUE) \in GROUP \ DOMAIN w.slab
<1>1. Vacant(w, 1) # {}
  BY VacantCount, FS_EmptySet
<1>2. QED
  BY <1>1, VacantCount

(* ... and one for each of several.                                        *)
LEMMA VacantKeys ==
    ASSUME NEW w, Typed(w), NEW K, IsFiniteSet(K)
    PROVE  LET V == Vacant(w, Cardinality(K))
               key == CHOOSE k \in Injection(K, V) : TRUE
           IN  /\ key \in [K -> GROUP \ DOMAIN w.slab]
               /\ \A o, p \in K : key[o] = key[p] => o = p
<1> DEFINE n == Cardinality(K)
           V == Vacant(w, n)
           v == Cardinality(V)
           id == [i \in 1 .. n |-> i]
           key == CHOOSE k \in Injection(K, V) : TRUE
<1>1. n \in Nat /\ ExistsBijection(1 .. n, K)
  BY FS_CardinalityType
<1>2. /\ V \subseteq GROUP \ DOMAIN w.slab
      /\ IsFiniteSet(V) /\ v >= n
  BY <1>1, VacantCount
<1>3. v \in Nat /\ ExistsBijection(1 .. v, V)
  BY <1>2, FS_CardinalityType
<1>4. PICK f \in Bijection(K, 1 .. n) : TRUE
  BY <1>1, Fun_ExistsBijSymmetric, Fun_ExistsBij
<1>5. PICK h \in Bijection(1 .. v, V) : TRUE
  BY <1>3, Fun_ExistsBij
<1>6. id \in Injection(1 .. n, 1 .. v)
  <2>1. id \in [1 .. n -> 1 .. v]
    BY <1>1, <1>2, <1>3
  <2>2. \A i, j \in 1 .. n : id[i] = id[j] => i = j
    OBVIOUS
  <2>3. QED
    BY <2>1, <2>2, Fun_IsInj
<1>7. f \in Injection(K, 1 .. n) /\ h \in Injection(1 .. v, V)
  BY <1>4, <1>5, Fun_BijectionProperties
<1>8. [o \in K |-> id[f[o]]] \in Injection(K, 1 .. v)
  BY <1>6, <1>7, Fun_InjTransitive
<1>9. Injection(K, V) # {}
  BY <1>7, <1>8, Fun_InjTransitive
<1>10. key \in Injection(K, V)
  BY <1>9
<1>11. key \in [K -> V] /\ \A o, p \in K : key[o] = key[p] => o = p
  BY <1>10, Fun_InjectionProperties
<1>12. QED
  BY <1>2, <1>11

(* v is w with one more group, of key k: n members, led by l, and the      *)
(* entities es have been put into it.                                      *)
Founded(w, v, l, n, es, k) ==
    /\ Typed(v)
    /\ k \in GROUP \ DOMAIN w.slab
    /\ v.groups = [e \in ENTITY |-> IF e \in es THEN k ELSE w.groups[e]]
    /\ DOMAIN v.slab = DOMAIN w.slab \cup {k}
    /\ v.slab[k] = [leader |-> l, num_members |-> n]
    /\ \A h \in DOMAIN w.slab : v.slab[h] = w.slab[h]

LEMMA CreateFounds ==
    ASSUME NEW w, Typed(w), NEW l \in ENTITY, NEW n \in Nat, NEW es
    PROVE  \E k : Founded(w, Create(w, l, n, es), l, n, es, k)
<1> DEFINE k == CHOOSE h \in Vacant(w, 1) : TRUE
           new == [h \in {k} |-> [leader |-> l, num_members |-> n]]
           v == Create(w, l, n, es)
<1>1. k \in GROUP \ DOMAIN w.slab
  BY VacantKey
<1>2. v = [groups |-> [e \in ENTITY |-> IF e \in es THEN k ELSE w.groups[e]],
           slab |-> Entered(w, new)]
  BY DEF Create, Put
<1> HIDE DEF k
<1>3. /\ DOMAIN v.slab = DOMAIN w.slab \cup {k}
      /\ v.slab[k] = [leader |-> l, num_members |-> n]
      /\ \A h \in DOMAIN w.slab : v.slab[h] = w.slab[h]
  BY <1>1, <1>2 DEF Entered
<1>4. IsFiniteSet(DOMAIN v.slab)
  BY <1>3, FS_AddElement DEF Typed
<1>5. v.slab \in [DOMAIN v.slab -> ENTRY]
  <2>1. v.slab = [h \in DOMAIN w.slab \cup {k} |-> IF h \in {k} THEN new[h] ELSE w.slab[h]]
    BY <1>2 DEF Entered
  <2>2. \A h \in DOMAIN v.slab : v.slab[h] \in ENTRY
    BY <1>3 DEF Typed, ENTRY
  <2>3. QED
    BY <2>1, <2>2
<1>6. v.groups \in [ENTITY -> MEMBERSHIP]
  BY <1>1, <1>2 DEF Typed, MEMBERSHIP
<1>7. Typed(v)
  BY <1>1, <1>3, <1>4, <1>5, <1>6 DEF Typed
<1>8. Founded(w, v, l, n, es, k)
  BY <1>1, <1>2, <1>3, <1>7 DEF Founded
<1>9. QED
  BY <1>8

LEMMA PutFacts ==
    ASSUME NEW w, Typed(w), NEW es, NEW g \in MEMBERSHIP
    PROVE  LET v == Put(w, es, g)
           IN  /\ Typed(v)
               /\ v.groups = [e \in ENTITY |-> IF e \in es THEN g ELSE w.groups[e]]
               /\ v.slab = w.slab
BY DEF Put, Typed

LEMMA FreeFacts ==
    ASSUME NEW w, Typed(w), NEW g
    PROVE  LET v == Free(w, g)
           IN  /\ Typed(v)
               /\ v.groups = w.groups
               /\ DOMAIN v.slab = DOMAIN w.slab \ {g}
               /\ \A h \in DOMAIN v.slab : v.slab[h] = w.slab[h]
<1> DEFINE v == Free(w, g)
<1>1. /\ v.groups = w.groups
      /\ v.slab = [h \in DOMAIN w.slab \ {g} |-> w.slab[h]]
  BY DEF Free, Restrict
<1>2. IsFiniteSet(DOMAIN w.slab \ {g})
  BY FS_RemoveElement DEF Typed
<1>3. QED
  BY <1>1, <1>2 DEF Typed

LEMMA CountFacts ==
    ASSUME NEW w, Typed(w), NEW g \in DOMAIN w.slab, NEW n \in Nat
    PROVE  LET v == Count(w, g, n)
           IN  /\ Typed(v)
               /\ v.groups = w.groups
               /\ DOMAIN v.slab = DOMAIN w.slab
               /\ v.slab[g] = [leader |-> w.slab[g].leader, num_members |-> n]
               /\ \A h \in DOMAIN w.slab \ {g} : v.slab[h] = w.slab[h]
<1> DEFINE v == Count(w, g, n)
<1>1. /\ v.groups = w.groups
      /\ v.slab = [w.slab EXCEPT ![g].num_members = n]
  BY DEF Count
<1>2. w.slab[g] \in ENTRY
  BY DEF Typed
<1>3. /\ DOMAIN v.slab = DOMAIN w.slab
      /\ \A h \in DOMAIN w.slab \ {g} : v.slab[h] = w.slab[h]
  BY <1>1
<1>4. v.slab[g] = [leader |-> w.slab[g].leader, num_members |-> n]
  BY <1>1, <1>2 DEF ENTRY
<1>5. \A h \in DOMAIN v.slab : v.slab[h] \in ENTRY
  BY <1>2, <1>3, <1>4 DEF Typed, ENTRY
<1>6. v.slab \in [DOMAIN v.slab -> ENTRY]
  BY <1>1, <1>5
<1>7. QED
  BY <1>1, <1>3, <1>4, <1>6 DEF Typed
-----------------------------------------------------------------------------
(* Those whose group ends when m leaves it, or is deleted.                 *)
Rest(w, m, deleted) ==
    {e \in alive : w.groups[e] = w.groups[m]} \ (IF deleted THEN {m} ELSE {})

(* A player with its pets, and the players who have any.                   *)
WithPets(rest, o) == {o} \cup {p \in rest : IsPet(p) /\ owner[p] = uid[o]}
Keepers(rest) == {o \in rest : ~IsPet(o) /\ WithPets(rest, o) # {o}}
Joins(rest, e) == {o \in Keepers(rest) : e \in WithPets(rest, o)}

(* v is w without the group g: each of the keepers K got a key for a group *)
(* of its own.                                                             *)
Split(w, v, g, rest, key) ==
    /\ Typed(v)
    /\ key \in [Keepers(rest) -> GROUP \ (DOMAIN w.slab \ {g})]
    /\ \A o, p \in Keepers(rest) : key[o] = key[p] => o = p
    /\ v.groups = [e \in ENTITY |-> IF e \notin rest THEN w.groups[e]
                                    ELSE IF Joins(rest, e) = {} THEN NoGroup
                                    ELSE key[CHOOSE o \in Joins(rest, e) : TRUE]]
    /\ DOMAIN v.slab = (DOMAIN w.slab \ {g}) \cup {key[o] : o \in Keepers(rest)}
    /\ \A o \in Keepers(rest) : v.slab[key[o]] = [leader |-> o, num_members |-> 1]
    /\ \A h \in DOMAIN w.slab \ {g} : v.slab[h] = w.slab[h]

LEMMA DisbandSplits ==
    ASSUME NEW w, Typed(w), NEW m \in ENTITY, NEW deleted \in BOOLEAN,
           alive \subseteq ENTITY, IsFiniteSet(alive)
    PROVE  \E key : Split(w, Disband(w, m, deleted), w.groups[m], Rest(w, m, deleted), key)
<1> DEFINE g     == w.groups[m]
           rest  == Rest(w, m, deleted)
           K     == Keepers(rest)
           freed == Free(w, g)
           key   == CHOOSE k \in Injection(K, Vacant(freed, Cardinality(K))) : TRUE
           new   == [k \in {key[o] : o \in K} |->
                       [leader |-> CHOOSE o \in K : key[o] = k, num_members |-> 1]]
           v     == Disband(w, m, deleted)
<1>1. v = [groups |-> [e \in ENTITY |-> IF e \notin rest THEN w.groups[e]
                                        ELSE IF Joins(rest, e) = {} THEN NoGroup
                                        ELSE key[CHOOSE o \in Joins(rest, e) : TRUE]],
           slab |-> Entered(freed, new)]
  BY DEF Disband, Rest, WithPets, Keepers, Joins
<1>2. Typed(freed) /\ DOMAIN freed.slab = DOMAIN w.slab \ {g}
      /\ \A h \in DOMAIN freed.slab : freed.slab[h] = w.slab[h]
  BY FreeFacts
<1>3. K \subseteq rest /\ rest \subseteq alive /\ IsFiniteSet(K)
  <2>1. K \in SUBSET alive /\ K \subseteq rest /\ rest \subseteq alive
    BY DEF Keepers, Rest
  <2>2. QED
    BY <2>1, FS_Subset
<1> HIDE DEF freed, K
<1>4. /\ key \in [K -> GROUP \ DOMAIN freed.slab]
      /\ \A o, p \in K : key[o] = key[p] => o = p
  BY <1>2, <1>3, VacantKeys
<1> HIDE DEF key, rest, g
<1>5. \A o \in K : (CHOOSE p \in K : key[p] = key[o]) = o
  BY <1>4
<1>6. /\ DOMAIN v.slab = DOMAIN freed.slab \cup {key[o] : o \in K}
      /\ \A o \in K : v.slab[key[o]] = [leader |-> o, num_members |-> 1]
      /\ \A h \in DOMAIN freed.slab : v.slab[h] = freed.slab[h]
  BY <1>1, <1>4, <1>5 DEF Entered
<1>7. IsFiniteSet(DOMAIN v.slab)
  <2> DEFINE keys == {key[o] : o \in K}
  <2>1. [o \in K |-> key[o]] \in Surjection(K, keys)
    BY DEF Surjection
  <2> HIDE DEF keys
  <2>2. IsFiniteSet(keys)
    BY <1>3, <2>1, FS_Surjection
  <2>3. QED
    <3>1. IsFiniteSet(DOMAIN freed.slab)
      BY <1>2 DEF Typed
    <3>2. IsFiniteSet(DOMAIN freed.slab \cup keys)
      BY <2>2, <3>1, FS_Union
    <3>3. QED
      BY <1>6, <3>2 DEF keys
<1>8. v.slab \in [DOMAIN v.slab -> ENTRY]
  <2>1. v.slab = [h \in DOMAIN v.slab |-> v.slab[h]]
    BY <1>1, <1>6 DEF Entered
  <2>2. ASSUME NEW h \in DOMAIN v.slab PROVE v.slab[h] \in ENTRY
    <3>1. CASE h \in DOMAIN freed.slab
      BY <1>2, <1>6, <3>1 DEF Typed
    <3>2. CASE h \notin DOMAIN freed.slab
      <4>1. PICK o \in K : h = key[o]
        BY <1>6, <3>2
      <4>2. o \in ENTITY /\ v.slab[h] = [leader |-> o, num_members |-> 1]
        BY <1>3, <1>6, <4>1
      <4>3. QED
        BY <4>2 DEF ENTRY
    <3>3. QED
      BY <3>1, <3>2
  <2>3. QED
    BY <2>1, <2>2
<1>9. v.groups \in [ENTITY -> MEMBERSHIP]
  <2>1. \A e \in ENTITY : Joins(rest, e) # {} => (CHOOSE o \in Joins(rest, e) : TRUE) \in K
    BY DEF Joins, K
  <2>2. \A e \in ENTITY : v.groups[e] \in MEMBERSHIP
    BY <1>1, <1>4, <2>1 DEF MEMBERSHIP, Typed
  <2>3. QED
    BY <1>1, <2>2
<1>10. Typed(v)
  BY <1>2, <1>4, <1>6, <1>7, <1>8, <1>9 DEF Typed
<1>11. Split(w, v, g, rest, key)
  BY <1>1, <1>2, <1>4, <1>6, <1>10 DEF Split, K
<1>12. QED
  BY <1>11 DEF g, rest
-----------------------------------------------------------------------------
(* Those who stay in a group that m leaves with its pets.                  *)
Stay(w, m) ==
    {e \in alive \ ({m} \cup Pets(m)) : w.groups[e] = w.groups[m] /\ kind[e] # "none"}

(* The group of m ends with its departure.                                 *)
Ends(w, m) == w.groups[m] \in DOMAIN w.slab /\ Cardinality(Stay(w, m)) = 1

(* v is w after m and its pets have left for a group of key k, or none.    *)
Departed(w, v, m, deleted, k) ==
    LET g == w.groups[m]
        P == {m} \cup Pets(m)
        leader == w.slab[g].leader
    IN  /\ Typed(v)
        /\ IF Pets(m) # {} /\ ~deleted THEN k \in GROUP \ DOMAIN w.slab ELSE k = NoGroup
        /\ v.groups = [e \in ENTITY |-> IF Ends(w, m) /\ e = leader THEN NoGroup
                                        ELSE IF e \in P THEN k ELSE w.groups[e]]
        /\ DOMAIN v.slab = (DOMAIN w.slab \cup ({k} \ {NoGroup}))
                               \ (IF Ends(w, m) THEN {g} ELSE {})
        /\ k # NoGroup => v.slab[k] = [leader |-> m, num_members |-> 1]
        /\ \A h \in DOMAIN w.slab \ {g} : v.slab[h] = w.slab[h]
        /\ g \in DOMAIN w.slab /\ ~Ends(w, m) =>
              v.slab[g] = [leader |-> leader,
                           num_members |-> LessOne(m, w.slab[g].num_members)]

LEMMA DepartDeparts ==
    ASSUME NEW w, Typed(w), NEW m \in ENTITY, NEW deleted \in BOOLEAN,
           alive \subseteq ENTITY, w.groups[m] # NoGroup
    PROVE  \E k : Departed(w, Depart(w, m, deleted), m, deleted, k)
<1> DEFINE g    == w.groups[m]
           P    == {m} \cup Pets(m)
           left == IF Pets(m) # {} /\ ~deleted THEN Create(w, m, 1, P) ELSE Put(w, P, NoGroup)
           n    == LessOne(m, left.slab[g].num_members)
           rest == Count(left, g, n)
           v    == Depart(w, m, deleted)
<1>1. v = IF g \notin DOMAIN w.slab THEN left
          ELSE IF Disbands(rest, g) THEN Put(Free(rest, g), {rest.slab[g].leader}, NoGroup)
          ELSE rest
  BY DEF Depart
<1>2. PICK k : /\ Typed(left)
               /\ IF Pets(m) # {} /\ ~deleted THEN k \in GROUP \ DOMAIN w.slab ELSE k = NoGroup
               /\ left.groups = [e \in ENTITY |-> IF e \in P THEN k ELSE w.groups[e]]
               /\ DOMAIN left.slab = DOMAIN w.slab \cup ({k} \ {NoGroup})
               /\ k # NoGroup => left.slab[k] = [leader |-> m, num_members |-> 1]
               /\ \A h \in DOMAIN w.slab : left.slab[h] = w.slab[h]
  <2>1. CASE Pets(m) # {} /\ ~deleted
    <3>1. PICK k : Founded(w, Create(w, m, 1, P), m, 1, P, k)
      BY CreateFounds
    <3>2. k # NoGroup
      BY <3>1 DEF Founded, GROUP, NoGroup
    <3>3. left = Create(w, m, 1, P)
      BY <2>1
    <3> HIDE DEF left
    <3>4. {k} \ {NoGroup} = {k}
      BY <3>2
    <3>5. /\ Typed(left) /\ k \in GROUP \ DOMAIN w.slab
          /\ left.groups = [e \in ENTITY |-> IF e \in P THEN k ELSE w.groups[e]]
          /\ DOMAIN left.slab = DOMAIN w.slab \cup {k}
          /\ left.slab[k] = [leader |-> m, num_members |-> 1]
          /\ \A h \in DOMAIN w.slab : left.slab[h] = w.slab[h]
      BY <3>1, <3>3 DEF Founded
    <3>6. QED
      BY <2>1, <3>4, <3>5
  <2>2. CASE ~(Pets(m) # {} /\ ~deleted)
    <3>1. left = Put(w, P, NoGroup)
      BY <2>2
    <3>2. NoGroup \in MEMBERSHIP
      BY DEF MEMBERSHIP
    <3> HIDE DEF left
    <3>3. /\ Typed(left) /\ left.slab = w.slab
          /\ left.groups = [e \in ENTITY |-> IF e \in P THEN NoGroup ELSE w.groups[e]]
      BY <3>1, <3>2, PutFacts
    <3>4. QED
      BY <2>2, <3>3
  <2>3. QED
    BY <2>1, <2>2
<1> HIDE DEF left, v
<1>3. CASE g \notin DOMAIN w.slab
  <2>1. v = left /\ ~Ends(w, m)
    BY <1>1, <1>3 DEF Ends
  <2>2. Departed(w, v, m, deleted, k)
    BY <1>2, <1>3, <2>1 DEF Departed
  <2>3. QED
    BY <2>2 DEF v
<1>4. CASE g \in DOMAIN w.slab
  <2>1. g \in DOMAIN left.slab /\ left.slab[g] = w.slab[g] /\ g # k
    BY <1>2, <1>4
  <2>2. w.slab[g].num_members \in Nat /\ w.slab[g].leader \in ENTITY
    BY <1>4 DEF Typed, ENTRY
  <2>3. n = LessOne(m, w.slab[g].num_members) /\ n \in Nat
    BY <2>1, <2>2 DEF LessOne
  <2> HIDE DEF n
  <2>4. /\ Typed(rest) /\ rest.groups = left.groups /\ DOMAIN rest.slab = DOMAIN left.slab
        /\ rest.slab[g] = [leader |-> w.slab[g].leader, num_members |-> n]
        /\ \A h \in DOMAIN left.slab \ {g} : rest.slab[h] = left.slab[h]
    <3>1. Typed(left)
      BY <1>2
    <3> HIDE DEF g
    <3>2. /\ Typed(rest) /\ rest.groups = left.groups /\ DOMAIN rest.slab = DOMAIN left.slab
          /\ rest.slab[g] = [leader |-> left.slab[g].leader, num_members |-> n]
          /\ \A h \in DOMAIN left.slab \ {g} : rest.slab[h] = left.slab[h]
      BY <2>1, <2>3, <3>1, CountFacts
    <3>3. QED
      BY <2>1, <3>2
  <2> HIDE DEF rest
  <2>5. Members(rest, g) = Stay(w, m)
    BY <1>2, <2>1, <2>4 DEF Members, Stay
  <2>6. Disbands(rest, g) <=> Ends(w, m)
    BY <1>4, <2>5 DEF Disbands, Ends
  <2>7. CASE ~Ends(w, m)
    <3>1. v = rest
      BY <1>1, <1>4, <2>6, <2>7
    <3>2. Departed(w, v, m, deleted, k)
      BY <1>2, <1>4, <2>1, <2>3, <2>4, <2>7, <3>1 DEF Departed
    <3>3. QED
      BY <3>2 DEF v
  <2>8. CASE Ends(w, m)
    <3> DEFINE l == w.slab[g].leader
               free == Free(rest, g)
    <3>1. v = Put(free, {l}, NoGroup)
      BY <1>1, <1>4, <2>4, <2>6, <2>8
    <3>2. /\ Typed(free) /\ free.groups = left.groups
          /\ DOMAIN free.slab = DOMAIN left.slab \ {g}
          /\ \A h \in DOMAIN free.slab : free.slab[h] = left.slab[h]
      BY <2>4, FreeFacts
    <3>3. NoGroup \in MEMBERSHIP
      BY DEF MEMBERSHIP
    <3> HIDE DEF free, l
    <3>4. /\ Typed(v) /\ v.slab = free.slab
          /\ v.groups = [e \in ENTITY |-> IF e \in {l} THEN NoGroup ELSE left.groups[e]]
      BY <3>1, <3>2, <3>3, PutFacts
    <3>5. v.groups = [e \in ENTITY |-> IF Ends(w, m) /\ e = l THEN NoGroup
                                       ELSE IF e \in P THEN k ELSE w.groups[e]]
      BY <1>2, <2>8, <3>4
    <3>6. Departed(w, v, m, deleted, k)
      BY <1>2, <1>4, <2>1, <2>8, <3>2, <3>4, <3>5 DEF Departed, l
    <3>7. QED
      BY <3>6 DEF v
  <2>9. QED
    BY <2>7, <2>8
<1>5. QED
  BY <1>3, <1>4

(* The composed operations keep the types.                                 *)
LEMMA RemoveTyped ==
    ASSUME NEW w, Typed(w), NEW m \in ENTITY, NEW deleted \in BOOLEAN,
           alive \subseteq ENTITY, IsFiniteSet(alive)
    PROVE  Typed(RemoveFromGroup(w, m, deleted))
BY DisbandSplits, DepartDeparts DEF RemoveFromGroup, Split, Departed

LEMMA LeaveTyped ==
    ASSUME NEW w, Typed(w), NEW m \in ENTITY, alive \subseteq ENTITY, IsFiniteSet(alive)
    PROVE  Typed(LeaveGroup(w, m)) /\ Typed(FreeOfGroup(w, m))
<1> DEFINE left == RemoveFromGroup(w, m, FALSE)
<1>1. Typed(left)
  BY RemoveTyped
<1> HIDE DEF left
<1>2. Typed(Put(left, {m}, NpcGroup))
  BY <1>1, PutFacts DEF MEMBERSHIP
<1>3. Typed(LeaveGroup(w, m))
  BY <1>1, <1>2 DEF LeaveGroup, left
<1>4. QED
  BY <1>3 DEF FreeOfGroup

LEMMA AddTyped ==
    ASSUME NEW w, Typed(w), NEW l \in ENTITY, NEW n \in ENTITY,
           alive \subseteq ENTITY, IsFiniteSet(alive)
    PROVE  Typed(AddGroupMember(w, l, n))
<1> DEFINE free   == FreeOfGroup(w, n)
           alone  == IF free.groups[l] = NoGroup THEN free ELSE LeaveGroup(free, l)
           size   == free.slab[free.groups[l]].num_members + 1
           joined == IF Leads(free, l) THEN Count(free, free.groups[l], size)
                     ELSE Create(alone, l, 2, {l})
<1>1. Typed(free)
  BY LeaveTyped
<1>2. Typed(alone)
  BY <1>1, LeaveTyped
<1>3. Leads(free, l) => Typed(Count(free, free.groups[l], size))
  <2>1. Leads(free, l) => free.groups[l] \in DOMAIN free.slab /\ size \in Nat
    BY <1>1 DEF Leads, Typed, ENTRY
  <2>2. QED
    BY <1>1, <2>1, CountFacts
<1>4. Typed(Create(alone, l, 2, {l}))
  <2> HIDE DEF alone
  <2>1. QED
    BY <1>2, CreateFounds DEF Founded
<1>5. Typed(joined)
  BY <1>3, <1>4
<1>6. joined.groups[l] \in MEMBERSHIP
  BY <1>5 DEF Typed
<1>7. AddGroupMember(w, l, n) = Put(joined, {n} \cup Pets(n), joined.groups[l])
  BY DEF AddGroupMember
<1>8. QED
  <2> DEFINE all == {n} \cup Pets(n)
             g == joined.groups[l]
  <2> HIDE DEF joined, all, g
  <2>1. g \in MEMBERSHIP
    BY <1>6 DEF g
  <2>2. Typed(Put(joined, all, g))
    BY <1>5, <2>1, PutFacts
  <2>3. QED
    BY <1>7, <2>2 DEF all, g

LEMMA PetTyped ==
    ASSUME NEW w, Typed(w), NEW p \in ENTITY, NEW o \in ENTITY
    PROVE  Typed(NewPet(w, p, o))
<1>1. w.groups[o] \in MEMBERSHIP
  BY DEF Typed
<1>2. QED
  BY <1>1, CreateFounds, PutFacts DEF NewPet, Founded
-----------------------------------------------------------------------------
(* TypeOK in three parts, one for each group of variables.                 *)
BodiesTyped ==
    /\ max_group_size \in GroupSizes
    /\ alive \subseteq ENTITY /\ IsFiniteSet(alive) /\ client \subseteq alive
    /\ uid \in [ENTITY -> ENTITY \cup {Nobody}]
    /\ kind \in [ENTITY -> {"owned", "npc", "wild", "none"}]
    /\ owner \in [ENTITY -> ENTITY \cup {Nobody}]

InviteSetsTyped ==
    /\ invite \in [ENTITY -> ENTITY \cup {Nobody}]
    /\ pending \in [ENTITY -> SUBSET ENTITY]
    /\ \A e \in ENTITY : IsFiniteSet(pending[e])

IrregularTyped ==
    irregular \subseteq {"pets left behind", "pet leads", "invites out", "absent member"}

LEMMA TypeParts ==
    TypeOK <=> BodiesTyped /\ Typed(Now) /\ InviteSetsTyped /\ IrregularTyped
BY DEF TypeOK, BodiesTyped, Typed, Now, InviteSetsTyped, IrregularTyped, MEMBERSHIP, ENTRY

LEMMA TypePartsNext ==
    TypeOK' <=> BodiesTyped' /\ Typed(Now)' /\ InviteSetsTyped' /\ IrregularTyped'
BY DEF TypeOK, BodiesTyped, Typed, Now, InviteSetsTyped, IrregularTyped, MEMBERSHIP, ENTRY

LEMMA TypeInit == Init => TypeOK
<1>1. SUFFICES ASSUME Init PROVE TypeOK
  OBVIOUS
<1>2. PICK cast \in Casts :
        LET players == {e \in ENTITY : cast[e] = "player"}
            born    == {e \in ENTITY : cast[e] # "unborn"}
        IN  /\ max_group_size \in GroupSizes
            /\ alive = born
            /\ client = players
            /\ uid = [e \in ENTITY |-> IF e \in born THEN e ELSE Nobody]
            /\ kind = [e \in ENTITY |-> IF e \in players THEN "owned"
                                       ELSE IF e \in born THEN cast[e] ELSE "none"]
            /\ owner = [e \in ENTITY |-> IF e \in players THEN e ELSE Nobody]
            /\ groups = [e \in ENTITY |-> IF cast[e] = "npc" THEN NpcGroup ELSE NoGroup]
            /\ slab = <<>>
            /\ invite = [e \in ENTITY |-> Nobody]
            /\ pending = [e \in ENTITY |-> {}]
            /\ irregular = {}
  BY <1>1 DEF Init
<1>3. cast \in [ENTITY -> {"player", "npc", "wild", "unborn"}]
      /\ IsFiniteSet({e \in ENTITY : cast[e] # "unborn"})
  BY GroupsAssumption DEF GroupsAssumption
<1>4. BodiesTyped
  <2>1. kind \in [ENTITY -> {"owned", "npc", "wild", "none"}]
    BY <1>2, <1>3
  <2>2. QED
    BY <1>2, <1>3, <2>1 DEF BodiesTyped
<1>5. Typed(Now)
  <2>1. slab = <<>> /\ DOMAIN slab = {} /\ IsFiniteSet(DOMAIN slab)
    BY <1>2, FS_EmptySet
  <2>2. slab \in [DOMAIN slab -> ENTRY]
    BY <2>1
  <2>3. groups \in [ENTITY -> MEMBERSHIP]
    BY <1>2 DEF MEMBERSHIP
  <2>4. QED
    BY <2>1, <2>2, <2>3 DEF Typed, Now
<1>6. InviteSetsTyped
  BY <1>2, FS_EmptySet DEF InviteSetsTyped
<1>7. QED
  BY <1>2, <1>4, <1>5, <1>6, TypeParts DEF IrregularTyped

LEMMA BecomesTyped ==
    ASSUME NEW w, Typed(w), Becomes(w)
    PROVE  Typed(Now)'
BY DEF Becomes, Typed, Now, MEMBERSHIP, ENTRY, GROUP, NoGroup, NpcGroup

(* A handler replaces the state of the manager by a well typed one.        *)
LEMMA BecomesOf ==
    ASSUME NEW STATE v, Typed(v), Becomes(v)
    PROVE  Typed(Now)'
<1>1. PICK w : w = v
  OBVIOUS
<1>2. Typed(w) /\ Becomes(w)
  BY <1>1
<1>3. QED
  BY <1>2, BecomesTyped

LEMMA WithdrawTyped ==
    ASSUME InviteSetsTyped, NEW y \in ENTITY, Withdraw(y)
    PROVE  InviteSetsTyped'
<1>1. /\ invite' = [invite EXCEPT ![y] = Nobody]
      /\ pending' = [x \in ENTITY |-> IF x = invite[y] THEN pending[x] \ {y} ELSE pending[x]]
  BY DEF Withdraw
<1>2. \A x \in ENTITY : IsFiniteSet(pending[x] \ {y})
  BY FS_RemoveElement DEF InviteSetsTyped
<1>3. QED
  BY <1>1, <1>2 DEF InviteSetsTyped

(* Every operation of the manager that a handler calls keeps the types.    *)
LEMMA TypeNext == TypeOK /\ [Next]_vars => TypeOK'
<1>1. SUFFICES ASSUME TypeOK, [Next]_vars PROVE TypeOK'
  OBVIOUS
<1>2. BodiesTyped /\ Typed(Now) /\ InviteSetsTyped /\ IrregularTyped
  BY <1>1, TypeParts
<1>3. alive \subseteq ENTITY /\ IsFiniteSet(alive)
  BY <1>2 DEF BodiesTyped
<1>4. ASSUME UNCHANGED bodies PROVE BodiesTyped'
  BY <1>2, <1>4 DEF bodies, BodiesTyped
<1>5. ASSUME UNCHANGED manager PROVE Typed(Now)'
  <2>1. groups' = groups /\ slab' = slab
    BY <1>5 DEF manager
  <2>2. QED
    BY <1>2, <2>1 DEF Typed, Now, MEMBERSHIP, ENTRY, GROUP, NoGroup, NpcGroup
<1>6. ASSUME UNCHANGED invites PROVE InviteSetsTyped'
  BY <1>2, <1>6 DEF invites, InviteSetsTyped
<1>7. ASSUME UNCHANGED irregular PROVE IrregularTyped'
  BY <1>2, <1>7 DEF IrregularTyped
<1>8. ASSUME NEW E \in SUBSET {"pets left behind", "pet leads", "invites out", "absent member"},
             Happens(E)
      PROVE  IrregularTyped'
  BY <1>2, <1>8 DEF IrregularTyped, Happens
<1>9. CASE UNCHANGED vars
  BY <1>4, <1>5, <1>6, <1>7, <1>9, TypePartsNext DEF vars
<1>10. ASSUME NEW x \in ENTITY, NEW y \in ENTITY, Invite(x, y) PROVE TypeOK'
  <2>1. InviteSetsTyped'
    <3>1. /\ invite' = [invite EXCEPT ![y] = x]
          /\ pending' = [pending EXCEPT ![x] = @ \cup {y}]
      BY <1>10 DEF Invite
    <3>2. IsFiniteSet(pending[x] \cup {y})
      BY <1>2, FS_AddElement DEF InviteSetsTyped
    <3>3. QED
      BY <1>2, <3>1, <3>2 DEF InviteSetsTyped
  <2>2. QED
    BY <1>4, <1>5, <1>7, <1>10, <2>1, TypePartsNext DEF Invite
<1>11. ASSUME NEW y \in ENTITY, Accept(y) PROVE TypeOK'
  <2>1. InviteSetsTyped' /\ BodiesTyped'
    BY <1>2, <1>4, <1>11, WithdrawTyped DEF Accept
  <2>2. CASE y \notin pending[invite[y]]
    BY <1>5, <1>7, <1>11, <2>1, <2>2, TypePartsNext DEF Accept
  <2>3. CASE y \in pending[invite[y]]
    <3>1. invite[y] \in ENTITY
      BY <1>2, <1>11 DEF Accept, InviteSetsTyped
    <3>2. Typed(AddGroupMember(Now, invite[y], y))
      BY <1>2, <1>3, <3>1, AddTyped
    <3>3. Typed(Now)'
      BY <1>11, <2>3, <3>2, BecomesOf DEF Accept
    <3>4. IrregularTyped'
      BY <1>2, <1>11, <2>3 DEF Accept, Happens, IrregularTyped
    <3>5. QED
      BY <2>1, <3>3, <3>4, TypePartsNext
  <2>4. QED
    BY <2>2, <2>3
<1>12. ASSUME NEW y \in ENTITY, Decline(y) \/ InviteTimeout(y) PROVE TypeOK'
  BY <1>2, <1>4, <1>5, <1>7, <1>12, WithdrawTyped, TypePartsNext DEF Decline, InviteTimeout
<1>13. ASSUME NEW x \in ENTITY, Leave(x) PROVE TypeOK'
  <2>1. Typed(LeaveGroup(Now, x))
    BY <1>2, <1>3, LeaveTyped
  <2>2. Typed(Now)'
    BY <1>13, <2>1, BecomesOf DEF Leave
  <2>3. QED
    BY <1>4, <1>6, <1>7, <1>13, <2>2, TypePartsNext DEF Leave
<1>14. ASSUME NEW x \in ENTITY, NEW y \in ENTITY, Kick(x, y) PROVE TypeOK'
  <2>1. Typed(LeaveGroup(Now, y))
    BY <1>2, <1>3, LeaveTyped
  <2>2. Typed(Now)'
    BY <1>14, <2>1, BecomesOf DEF Kick
  <2>3. QED
    BY <1>4, <1>6, <1>7, <1>14, <2>2, TypePartsNext DEF Kick
<1>15. ASSUME NEW x \in ENTITY, NEW y \in ENTITY, AssignLeader(x, y) PROVE TypeOK'
  <2>1. groups[y] \in DOMAIN slab /\ slab' = [slab EXCEPT ![groups[y]].leader = y]
        /\ groups' = groups
    BY <1>15 DEF AssignLeader, LedBy
  <2>2. slab[groups[y]] \in ENTRY
    BY <1>2, <2>1 DEF Typed, Now
  <2>3. DOMAIN slab' = DOMAIN slab
    BY <2>1
  <2>4. \A g \in DOMAIN slab : slab'[g] \in ENTRY
    BY <1>2, <2>1, <2>2 DEF Typed, Now, ENTRY
  <2>5. slab' \in [DOMAIN slab -> ENTRY]
    BY <2>1, <2>4
  <2>6. Typed(Now)'
    BY <1>2, <2>1, <2>3, <2>5 DEF Typed, Now, MEMBERSHIP, ENTRY, GROUP, NoGroup, NpcGroup
  <2>7. IrregularTyped'
    BY <1>2, <1>15 DEF AssignLeader, Happens, IrregularTyped
  <2>8. QED
    BY <1>4, <1>6, <1>15, <2>6, <2>7, TypePartsNext DEF AssignLeader
<1>16. ASSUME NEW x \in ENTITY, NEW y \in ENTITY, Tame(x, y) PROVE TypeOK'
  <2>1. Typed(NewPet(Now, y, x))
    BY <1>2, PetTyped
  <2>2. Typed(Now)'
    BY <1>16, <2>1, BecomesOf DEF Tame
  <2>3. BodiesTyped'
    BY <1>2, <1>16 DEF Tame, BodiesTyped
  <2>4. QED
    BY <1>6, <1>7, <1>16, <2>2, <2>3, TypePartsNext DEF Tame
<1>17. ASSUME NEW e \in ENTITY, Delete(e) PROVE TypeOK'
  <2> DEFINE w == Put(RemoveFromGroup(Now, e, TRUE), {e}, NoGroup)
  <2>1. Typed(RemoveFromGroup(Now, e, TRUE))
    BY <1>2, <1>3, RemoveTyped
  <2>2. Typed(w)
    BY <2>1, PutFacts DEF MEMBERSHIP
  <2>3. Becomes(w)
    BY <1>17 DEF Delete
  <2> HIDE DEF w
  <2>4. Typed(Now)'
    BY <2>2, <2>3, BecomesOf
  <2>5. BodiesTyped'
    <3>1. IsFiniteSet(alive \ {e})
      BY <1>3, FS_RemoveElement
    <3>2. QED
      BY <1>2, <1>17, <3>1 DEF Delete, BodiesTyped
  <2>6. InviteSetsTyped'
    BY <1>2, <1>17, FS_EmptySet DEF Delete, InviteSetsTyped
  <2>7. QED
    BY <1>7, <1>17, <2>4, <2>5, <2>6, TypePartsNext DEF Delete
<1>18. ASSUME NEW x \in ENTITY, NEW n \in ENTITY, ExitIngame(x, n) PROVE TypeOK'
  <2>1. /\ alive' = (alive \ {x}) \cup {n}
        /\ client' = (client \ {x}) \cup {n}
        /\ uid' = [uid EXCEPT ![n] = uid[x]]
        /\ kind' = [kind EXCEPT ![x] = "none"]
        /\ owner' = [owner EXCEPT ![x] = Nobody]
        /\ max_group_size' = max_group_size
    BY <1>18 DEF ExitIngame, ClientMoves
  <2>2. BodiesTyped'
    <3>1. IsFiniteSet((alive \ {x}) \cup {n})
      BY <1>3, FS_RemoveElement, FS_AddElement
    <3>2. QED
      BY <1>2, <2>1, <3>1 DEF BodiesTyped
  <2>3. InviteSetsTyped'
    BY <1>2, <1>18, FS_EmptySet DEF ExitIngame, InviteSetsTyped
  <2>4. IrregularTyped'
    BY <1>2, <1>18 DEF ExitIngame, Happens, IrregularTyped
  <2>5. Typed(Now)'
    <3>1. /\ groups' = [groups EXCEPT ![n] = groups[x], ![x] = NoGroup]
          /\ slab' = IF Leads(Now, x) THEN [slab EXCEPT ![groups[x]].leader = n] ELSE slab
      BY <1>18 DEF ExitIngame
    <3>2. groups' \in [ENTITY -> MEMBERSHIP]
      BY <1>2, <3>1 DEF Typed, Now, MEMBERSHIP
    <3>3. DOMAIN slab' = DOMAIN slab
      BY <3>1
    <3>4. Leads(Now, x) => groups[x] \in DOMAIN slab
      BY DEF Leads, Now
    <3>5. \A g \in DOMAIN slab : slab'[g] \in ENTRY
      BY <1>2, <3>1, <3>4 DEF Typed, Now, ENTRY
    <3>6. slab' \in [DOMAIN slab -> ENTRY]
      BY <1>2, <3>1, <3>5 DEF Typed, Now
    <3>7. QED
      BY <1>2, <3>2, <3>3, <3>6 DEF Typed, Now, MEMBERSHIP, ENTRY, GROUP, NoGroup, NpcGroup
  <2>6. QED
    BY <2>2, <2>3, <2>4, <2>5, TypePartsNext
<1>19. ASSUME NEW x \in ENTITY, EnterGame(x) PROVE TypeOK'
  <2>1. BodiesTyped'
    BY <1>2, <1>19 DEF EnterGame, BodiesTyped
  <2>2. QED
    BY <1>5, <1>6, <1>7, <1>19, <2>1, TypePartsNext DEF EnterGame
<1>20. QED
  BY <1>1, <1>9, <1>10, <1>11, <1>12, <1>13, <1>14, <1>15, <1>16, <1>17, <1>18, <1>19 DEF Next

(* For any number of entities, groups and events, irregular ones included: *)
(* Group components and slab keep their types; groups are led by entities  *)
(* and a client is an entity that exists.                                  *)
THEOREM TypeCorrect == Spec => []TypeOK
BY TypeInit, TypeNext, PTL DEF Spec
-----------------------------------------------------------------------------
(* What is to be known about the groups of the entities A, in a state w of *)
(* the manager.                                                            *)
CountedIn(w, A, g) == {e \in A : w.groups[e] = g /\ ~IsPet(e)}

Fine(w, A, g) ==
    /\ g \in DOMAIN w.slab
    /\ w.slab[g].leader \in CountedIn(w, A, g)
    /\ w.slab[g].num_members = Cardinality(CountedIn(w, A, g))
    /\ \E e \in A : w.groups[e] = g /\ e # w.slab[g].leader

AllFine(w, A) == \A e \in A : w.groups[e] \in GROUP => Fine(w, A, w.groups[e])

PetsFollow(w, A) ==
    \A p, o \in A : IsPet(p) /\ owner[p] = uid[o] =>
        w.groups[p] = w.groups[o] /\ w.groups[p] \in GROUP

KindsFit(w, A) ==
    \A e \in A : /\ kind[e] \in {"none", "wild"} => w.groups[e] = NoGroup
                 /\ w.groups[e] = NpcGroup => kind[e] = "npc"

Sound(w, A) == AllFine(w, A) /\ PetsFollow(w, A) /\ KindsFit(w, A)

(* Uids name one entity, and who has pets is a player in the game world.   *)
UidsDistinct == \A e, f \in alive : uid[e] = uid[f] => e = f

OwnersPlay ==
    \A p, o \in alive : IsPet(p) /\ owner[p] = uid[o] =>
        kind[o] = "owned" /\ owner[o] = uid[o]

People ==
    /\ alive \subseteq ENTITY /\ IsFiniteSet(alive)
    /\ UidsDistinct /\ OwnersPlay

LEMMA PetsAre ==
    ASSUME UidsDistinct, NEW m \in alive
    PROVE  /\ Pets(m) = {p \in alive : IsPet(p) /\ owner[p] = uid[m]}
           /\ m \notin Pets(m)
BY DEF UidsDistinct, Pets, IsPet

LEMMA OwnersAreNoPets ==
    ASSUME OwnersPlay, NEW p \in alive, NEW o \in alive, IsPet(p), owner[p] = uid[o]
    PROVE  ~IsPet(o) /\ kind[o] = "owned"
BY DEF OwnersPlay, IsPet

(* A group stays fine when its entry and those who are in it do not change.*)
LEMMA FineKept ==
    ASSUME NEW w, NEW v, NEW A, NEW B, NEW h,
           Fine(w, A, h),
           h \in DOMAIN v.slab, v.slab[h] = w.slab[h],
           \A e \in A : w.groups[e] = h => e \in B /\ v.groups[e] = h,
           \A e \in B : v.groups[e] = h => e \in A /\ w.groups[e] = h
    PROVE  Fine(v, B, h)
<1>1. CountedIn(v, B, h) = CountedIn(w, A, h)
  BY DEF CountedIn
<1>2. QED
  BY <1>1 DEF Fine

(* A new group of a player o and its pets.                                 *)
LEMMA FineFounded ==
    ASSUME NEW v, NEW B, NEW h, NEW o \in B, ~IsPet(o),
           h \in DOMAIN v.slab, v.slab[h] = [leader |-> o, num_members |-> 1],
           v.groups[o] = h,
           \A e \in B : v.groups[e] = h => e = o \/ IsPet(e),
           \E p \in B : p # o /\ v.groups[p] = h
    PROVE  Fine(v, B, h)
<1>1. CountedIn(v, B, h) = {o}
  BY DEF CountedIn
<1>2. Cardinality(CountedIn(v, B, h)) = 1
  BY <1>1, FS_Singleton
<1>3. v.slab[h].leader = o /\ v.slab[h].num_members = 1
  OBVIOUS
<1>4. QED
  BY <1>1, <1>2, <1>3 DEF Fine

(* Where everybody is after the leader's group has ended.                  *)
LEMMA SplitGroups ==
    ASSUME NEW w, NEW v, NEW g, NEW rest, NEW key, Split(w, v, g, rest, key),
           UidsDistinct, rest \subseteq alive, alive \subseteq ENTITY
    PROVE  /\ \A e \in alive \ rest : v.groups[e] = w.groups[e]
           /\ \A o \in Keepers(rest) : \A e \in WithPets(rest, o) :
                 e \in rest /\ v.groups[e] = key[o]
           /\ \A e \in rest : v.groups[e] # NoGroup =>
                 \E o \in Keepers(rest) : e \in WithPets(rest, o) /\ v.groups[e] = key[o]
<1>1. \A e \in ENTITY : v.groups[e] = IF e \notin rest THEN w.groups[e]
                                      ELSE IF Joins(rest, e) = {} THEN NoGroup
                                      ELSE key[CHOOSE o \in Joins(rest, e) : TRUE]
  BY DEF Split
<1>2. ASSUME NEW o \in Keepers(rest), NEW e \in WithPets(rest, o)
      PROVE  e \in rest /\ Joins(rest, e) = {o}
  <2>1. e \in rest /\ o \in Joins(rest, e) /\ o \in rest /\ ~IsPet(o)
    BY <1>2 DEF Keepers, WithPets, Joins
  <2>2. ASSUME NEW p \in Joins(rest, e) PROVE p = o
    <3>1. p \in rest /\ ~IsPet(p) /\ (e = p \/ (IsPet(e) /\ owner[e] = uid[p]))
      BY DEF Joins, Keepers, WithPets
    <3>2. e = o \/ (IsPet(e) /\ owner[e] = uid[o])
      BY <1>2 DEF WithPets
    <3>3. QED
      BY <2>1, <3>1, <3>2 DEF UidsDistinct
  <2>3. QED
    BY <2>1, <2>2
<1>3. ASSUME NEW o \in Keepers(rest), NEW e \in WithPets(rest, o)
      PROVE  e \in rest /\ v.groups[e] = key[o]
  <2>1. e \in ENTITY /\ e \in rest /\ Joins(rest, e) = {o}
    BY <1>2
  <2>2. (CHOOSE p \in Joins(rest, e) : TRUE) = o
    BY <2>1
  <2>3. QED
    BY <1>1, <2>1, <2>2
<1>4. ASSUME NEW e \in rest, v.groups[e] # NoGroup
      PROVE  \E o \in Keepers(rest) : e \in WithPets(rest, o) /\ v.groups[e] = key[o]
  <2>1. Joins(rest, e) # {}
    BY <1>1, <1>4
  <2>2. PICK o \in Joins(rest, e) : TRUE
    BY <2>1
  <2>3. o \in Keepers(rest) /\ e \in WithPets(rest, o)
    BY DEF Joins
  <2>4. QED
    BY <1>3, <2>3
<1>5. QED
  BY <1>1, <1>3, <1>4

(* Those a deletion leaves.                                                *)
Left(m, deleted) == IF deleted THEN alive \ {m} ELSE alive

LEMMA DisbandSound ==
    ASSUME NEW w, Typed(w), People, Sound(w, alive), NEW m \in alive, NEW deleted \in BOOLEAN,
           Leads(w, m), NEW v, NEW key,
           Split(w, v, w.groups[m], Rest(w, m, deleted), key)
    PROVE  Sound(v, Left(m, deleted))
<1> DEFINE g == w.groups[m]
           rest == Rest(w, m, deleted)
           B == Left(m, deleted)
<1>1. g \in GROUP /\ g \in DOMAIN w.slab
  BY DEF Leads, Typed
<1>2. /\ B \subseteq alive /\ rest \subseteq B
      /\ \A e \in alive : w.groups[e] # g => e \in B /\ e \notin rest
      /\ \A e \in B : w.groups[e] = g <=> e \in rest
  BY DEF Left, Rest
<1>3. rest \subseteq alive /\ alive \subseteq ENTITY
  BY <1>2 DEF People
<1>4. /\ \A e \in alive \ rest : v.groups[e] = w.groups[e]
      /\ \A o \in Keepers(rest) : \A e \in WithPets(rest, o) :
            e \in rest /\ v.groups[e] = key[o]
      /\ \A e \in rest : v.groups[e] # NoGroup =>
            \E o \in Keepers(rest) : e \in WithPets(rest, o) /\ v.groups[e] = key[o]
  <2> HIDE DEF rest, g
  <2>1. UidsDistinct
    BY DEF People
  <2>2. Split(w, v, g, rest, key)
    BY DEF rest, g
  <2>3. QED
    BY <1>3, <2>1, <2>2, SplitGroups
<1>5. /\ key \in [Keepers(rest) -> GROUP \ (DOMAIN w.slab \ {g})]
      /\ \A o, p \in Keepers(rest) : key[o] = key[p] => o = p
      /\ DOMAIN v.slab = (DOMAIN w.slab \ {g}) \cup {key[o] : o \in Keepers(rest)}
      /\ \A o \in Keepers(rest) : v.slab[key[o]] = [leader |-> o, num_members |-> 1]
      /\ \A h \in DOMAIN w.slab \ {g} : v.slab[h] = w.slab[h]
  BY DEF Split
<1>6. AllFine(w, alive) /\ PetsFollow(w, alive) /\ KindsFit(w, alive)
  BY DEF Sound
<1> HIDE DEF rest, g, B
<1>7. \A e \in B \ rest : w.groups[e] \in GROUP => w.groups[e] \in DOMAIN w.slab \ {g}
  BY <1>2, <1>6 DEF AllFine, Fine
<1>8. ASSUME NEW e \in B, v.groups[e] \in GROUP PROVE Fine(v, B, v.groups[e])
  <2>1. CASE e \notin rest
    <3> DEFINE h == w.groups[e]
    <3>1. v.groups[e] = h /\ h \in GROUP /\ h \in DOMAIN w.slab \ {g}
      BY <1>2, <1>4, <1>7, <1>8, <2>1
    <3>2. Fine(w, alive, h)
      BY <1>2, <1>6, <3>1 DEF AllFine
    <3> HIDE DEF h
    <3>3. h \in DOMAIN v.slab /\ v.slab[h] = w.slab[h]
      BY <1>5, <3>1
    <3>4. \A f \in alive : w.groups[f] = h => f \in B /\ v.groups[f] = h
      BY <1>2, <1>4, <3>1
    <3>5. ASSUME NEW f \in B, v.groups[f] = h PROVE f \in alive /\ w.groups[f] = h
      <4>1. f \notin rest
        <5>1. SUFFICES ASSUME f \in rest PROVE FALSE
          OBVIOUS
        <5>2. h # NoGroup
          BY <3>1 DEF GROUP, NoGroup
        <5>3. PICK o \in Keepers(rest) : v.groups[f] = key[o]
          BY <1>4, <3>5, <5>1, <5>2
        <5>4. QED
          BY <1>5, <3>1, <3>5, <5>3
      <4>2. QED
        BY <1>2, <1>4, <3>5, <4>1
    <3>6. QED
      BY <3>1, <3>2, <3>3, <3>4, <3>5, FineKept
  <2>2. CASE e \in rest
    <3>1. v.groups[e] # NoGroup
      BY <1>8 DEF GROUP, NoGroup
    <3>2. PICK o \in Keepers(rest) : e \in WithPets(rest, o) /\ v.groups[e] = key[o]
      BY <1>4, <2>2, <3>1
    <3> DEFINE h == key[o]
    <3>3. o \in B /\ o \in rest /\ ~IsPet(o) /\ WithPets(rest, o) # {o} /\ o \in WithPets(rest, o)
      BY <1>2 DEF Keepers, WithPets
    <3>4. /\ h \in DOMAIN v.slab /\ h \notin DOMAIN w.slab \ {g} /\ h \in GROUP
          /\ v.slab[h] = [leader |-> o, num_members |-> 1]
      BY <1>5
    <3>5. v.groups[o] = h
      BY <1>4, <3>3
    <3>6. ASSUME NEW f \in B, v.groups[f] = h PROVE f = o \/ IsPet(f)
      <4>1. f \in rest
        <5>1. SUFFICES ASSUME f \notin rest PROVE FALSE
          OBVIOUS
        <5>2. w.groups[f] = h
          BY <1>2, <1>4, <3>6, <5>1
        <5>3. QED
          BY <1>7, <3>4, <5>1, <5>2
      <4>2. h # NoGroup
        BY <3>4 DEF GROUP, NoGroup
      <4>3. PICK p \in Keepers(rest) : f \in WithPets(rest, p) /\ v.groups[f] = key[p]
        BY <1>4, <3>6, <4>1, <4>2
      <4>4. p = o
        BY <1>5, <3>6, <4>3
      <4>5. QED
        BY <4>3, <4>4 DEF WithPets
    <3>7. \E p \in B : p # o /\ v.groups[p] = h
      <4>1. PICK p \in WithPets(rest, o) : p # o
        BY <3>3
      <4>2. QED
        BY <1>2, <1>4, <4>1
    <3> HIDE DEF h
    <3>8. Fine(v, B, h)
      BY <3>3, <3>4, <3>5, <3>6, <3>7, FineFounded
    <3>9. QED
      BY <3>2, <3>8 DEF h
  <2>3. QED
    BY <2>1, <2>2
<1>9. ASSUME NEW p \in B, NEW o \in B, IsPet(p), owner[p] = uid[o]
      PROVE  v.groups[p] = v.groups[o] /\ v.groups[p] \in GROUP
  <2>1. p \in alive /\ o \in alive /\ ~IsPet(o)
    BY <1>2, <1>9, OwnersAreNoPets DEF People
  <2>2. w.groups[p] = w.groups[o] /\ w.groups[p] \in GROUP
    BY <1>6, <1>9, <2>1 DEF PetsFollow
  <2>3. CASE p \notin rest
    BY <1>2, <1>4, <2>1, <2>2, <2>3
  <2>4. CASE p \in rest
    <3>1. o \in rest
      BY <1>2, <2>2, <2>4
    <3>2. p \in WithPets(rest, o) /\ p # o /\ o \in WithPets(rest, o)
      BY <1>9, <2>1, <2>4 DEF WithPets
    <3>3. o \in Keepers(rest)
      BY <2>1, <3>1, <3>2 DEF Keepers
    <3>4. v.groups[p] = key[o] /\ v.groups[o] = key[o]
      BY <1>4, <3>2, <3>3
    <3>5. QED
      BY <1>5, <3>3, <3>4
  <2>5. QED
    BY <2>3, <2>4
<1>10. KindsFit(v, B)
  <2>1. ASSUME NEW e \in B
        PROVE  /\ kind[e] \in {"none", "wild"} => v.groups[e] = NoGroup
               /\ v.groups[e] = NpcGroup => kind[e] = "npc"
    <3>1. CASE e \notin rest
      BY <1>2, <1>4, <1>6, <3>1 DEF KindsFit
    <3>2. CASE e \in rest
      <4>1. w.groups[e] = g /\ g # NoGroup
        BY <1>1, <1>2, <3>2 DEF GROUP, NoGroup
      <4>2. kind[e] \notin {"none", "wild"}
        BY <1>2, <1>6, <4>1 DEF KindsFit
      <4>3. v.groups[e] = NoGroup \/ v.groups[e] \in GROUP
        BY <1>4, <1>5, <3>2
      <4>4. NpcGroup \notin GROUP /\ NpcGroup # NoGroup
        BY DEF NpcGroup, GROUP, NoGroup
      <4>5. QED
        BY <4>2, <4>3, <4>4
    <3>3. QED
      BY <3>1, <3>2
  <2>2. QED
    BY <2>1 DEF KindsFit
<1>11. QED
  BY <1>8, <1>9, <1>10 DEF Sound, AllFine, PetsFollow, B
-----------------------------------------------------------------------------
(* Who stays behind when m, who does not lead, goes with its pets from a   *)
(* group of players: at least the leader, and if nobody else the group     *)
(* ends.                                                                   *)
LEMMA StayingLeader ==
    ASSUME NEW w, People, Sound(w, alive), NEW m \in alive,
           w.groups[m] \in GROUP, ~Leads(w, m)
    PROVE  LET g == w.groups[m]
               l == w.slab[g].leader
           IN  /\ g \in DOMAIN w.slab
               /\ l \in Stay(w, m) /\ ~IsPet(l)
               /\ Stay(w, m) = {e \in alive : w.groups[e] = g} \ ({m} \cup Pets(m))
               /\ IsFiniteSet(Stay(w, m))
               /\ Ends(w, m) <=> Stay(w, m) = {l}
<1> DEFINE g == w.groups[m]
           l == w.slab[g].leader
           S == Stay(w, m)
<1>1. Fine(w, alive, g)
  BY DEF Sound, AllFine
<1>2. g \in DOMAIN w.slab /\ l \in alive /\ w.groups[l] = g /\ ~IsPet(l)
  BY <1>1 DEF Fine, CountedIn
<1>3. l # m
  BY <1>2 DEF Leads
<1>4. l \notin Pets(m)
  BY <1>2, PetsAre DEF People
<1>5. \A e \in alive : w.groups[e] = g => kind[e] # "none"
  BY DEF Sound, KindsFit, GROUP, NoGroup
<1>6. S = {e \in alive : w.groups[e] = g} \ ({m} \cup Pets(m))
  BY <1>5 DEF Stay
<1>7. l \in S
  BY <1>2, <1>3, <1>4, <1>6
<1>8. S \in SUBSET alive
  BY DEF Stay
<1>9. IsFiniteSet(S)
  BY <1>8, FS_Subset DEF People
<1>10. Ends(w, m) <=> S = {l}
  <2>1. Cardinality(S) = 1 <=> \E x : S = {x}
    BY <1>9, FS_Singleton
  <2>2. QED
    BY <1>2, <1>7, <2>1 DEF Ends
<1>11. QED
  BY <1>2, <1>6, <1>7, <1>9, <1>10

(* Nobody is counted any more but those who were, without m.               *)
LEMMA DepartCount ==
    ASSUME NEW w, Typed(w), People, Sound(w, alive), NEW m \in alive, NEW A,
           w.groups[m] \in GROUP, ~Leads(w, m),
           A = {e \in Stay(w, m) : ~IsPet(e)}
    PROVE  Cardinality(A) = LessOne(m, w.slab[w.groups[m]].num_members)
<1> DEFINE g == w.groups[m]
           C == CountedIn(w, alive, g)
<1>1. w.slab[g].num_members = Cardinality(C)
  BY DEF Sound, AllFine, Fine
<1>2. C \in SUBSET alive
  BY DEF CountedIn
<1>3. IsFiniteSet(C) /\ Cardinality(C) \in Nat
  BY <1>2, FS_Subset, FS_CardinalityType DEF People
<1>4. \A p \in Pets(m) : IsPet(p)
  BY PetsAre DEF People
<1>5. A = C \ {m}
  BY <1>4, StayingLeader DEF CountedIn
<1>6. CASE IsPet(m)
  <2>1. A = C
    BY <1>5, <1>6 DEF CountedIn
  <2>2. QED
    BY <1>1, <1>6, <2>1 DEF LessOne
<1>7. CASE ~IsPet(m)
  <2>1. m \in C
    BY <1>7 DEF CountedIn
  <2>2. Cardinality(C \ {m}) = Cardinality(C) - 1
    BY <1>3, <2>1, FS_RemoveElement
  <2>3. Cardinality(C) # 0
    BY <1>3, <2>1, FS_EmptySet
  <2>4. QED
    BY <1>1, <1>5, <1>7, <2>2, <2>3 DEF LessOne
<1>8. QED
  BY <1>6, <1>7

LEMMA DepartSound ==
    ASSUME NEW w, Typed(w), People, Sound(w, alive), NEW m \in alive, NEW deleted \in BOOLEAN,
           w.groups[m] # NoGroup, ~Leads(w, m), deleted \/ ~IsPet(m), NEW v, NEW k,
           Departed(w, v, m, deleted, k)
    PROVE  Sound(v, Left(m, deleted))
<1> DEFINE g == w.groups[m]
           P == {m} \cup Pets(m)
           l == w.slab[g].leader
           B == Left(m, deleted)
<1>1. /\ IF Pets(m) # {} /\ ~deleted THEN k \in GROUP \ DOMAIN w.slab ELSE k = NoGroup
      /\ v.groups = [e \in ENTITY |-> IF Ends(w, m) /\ e = l THEN NoGroup
                                      ELSE IF e \in P THEN k ELSE w.groups[e]]
      /\ DOMAIN v.slab = (DOMAIN w.slab \cup ({k} \ {NoGroup}))
                             \ (IF Ends(w, m) THEN {g} ELSE {})
      /\ k # NoGroup => v.slab[k] = [leader |-> m, num_members |-> 1]
      /\ \A h \in DOMAIN w.slab \ {g} : v.slab[h] = w.slab[h]
      /\ g \in DOMAIN w.slab /\ ~Ends(w, m) =>
            v.slab[g] = [leader |-> l, num_members |-> LessOne(m, w.slab[g].num_members)]
  BY DEF Departed
<1>2. AllFine(w, alive) /\ PetsFollow(w, alive) /\ KindsFit(w, alive)
  BY DEF Sound
<1>3. alive \subseteq ENTITY /\ B \subseteq alive
  BY DEF People, Left
<1>4. /\ Pets(m) = {p \in alive : IsPet(p) /\ owner[p] = uid[m]} /\ m \notin Pets(m)
      /\ (deleted => m \notin B) /\ (~deleted => B = alive) /\ (alive \ {m} \subseteq B)
  BY PetsAre DEF People, Left
<1>5. \A p \in Pets(m) : w.groups[p] = g /\ g \in GROUP /\ ~IsPet(m) /\ kind[m] = "owned"
  BY <1>2, <1>4, OwnersAreNoPets DEF PetsFollow, People
<1>6. g \in GROUP => /\ g \in DOMAIN w.slab /\ l \in alive /\ w.groups[l] = g
                     /\ l \notin P /\ ~IsPet(l)
                     /\ \A e \in alive : w.groups[e] = g <=> e \in Stay(w, m) \/ e \in P
                     /\ Stay(w, m) \cap P = {}
                     /\ Ends(w, m) <=> Stay(w, m) = {l}
  <2>1. SUFFICES ASSUME g \in GROUP
                 PROVE  /\ g \in DOMAIN w.slab /\ l \in alive /\ w.groups[l] = g
                        /\ l \notin P /\ ~IsPet(l)
                        /\ \A e \in alive : w.groups[e] = g <=> e \in Stay(w, m) \/ e \in P
                        /\ Stay(w, m) \cap P = {}
                        /\ Ends(w, m) <=> Stay(w, m) = {l}
    OBVIOUS
  <2>2. /\ g \in DOMAIN w.slab /\ l \in Stay(w, m) /\ ~IsPet(l)
        /\ Stay(w, m) = {e \in alive : w.groups[e] = g} \ P
        /\ Ends(w, m) <=> Stay(w, m) = {l}
    BY <2>1, StayingLeader
  <2>3. \A e \in P : w.groups[e] = g
    BY <1>5
  <2> HIDE DEF l, P, g
  <2>4. QED
    BY <2>2, <2>3
<1>7. g \notin GROUP => ~Ends(w, m) /\ g \notin DOMAIN w.slab /\ Pets(m) = {} /\ k = NoGroup
  BY <1>1, <1>5 DEF Ends, Typed
<1>8. NoGroup \notin GROUP /\ NpcGroup \notin GROUP
  BY DEF NoGroup, NpcGroup, GROUP
<1>9. \A e \in alive : w.groups[e] \in GROUP => Fine(w, alive, w.groups[e]) /\ w.groups[e] \in DOMAIN w.slab
  BY <1>2 DEF AllFine, Fine
<1>10. \A e \in alive : v.groups[e] = IF Ends(w, m) /\ e = l THEN NoGroup
                                     ELSE IF e \in P THEN k ELSE w.groups[e]
  BY <1>1, <1>3
<1> HIDE DEF l, P, g, B
<1>11. ASSUME NEW e \in B, v.groups[e] \in GROUP PROVE Fine(v, B, v.groups[e])
  <2>1. CASE e \in P
    <3>1. v.groups[e] = k /\ k \in GROUP \ DOMAIN w.slab /\ Pets(m) # {} /\ ~deleted
      BY <1>1, <1>3, <1>8, <1>10, <1>11, <2>1
    <3>2. m \in B /\ ~IsPet(m) /\ B = alive /\ g \in GROUP
      BY <1>4, <1>5, <3>1
    <3>3. k # g /\ k # NoGroup
      BY <1>6, <1>8, <3>1, <3>2
    <3>4. k \in DOMAIN v.slab /\ v.slab[k] = [leader |-> m, num_members |-> 1]
      BY <1>1, <3>1, <3>3
    <3>5. \A f \in P : f \in alive /\ v.groups[f] = k
      BY <1>4, <1>6, <1>10, <3>2 DEF P
    <3>6. ASSUME NEW f \in B, v.groups[f] = k PROVE f = m \/ IsPet(f)
      <4>1. f \in P
        BY <1>3, <1>9, <1>10, <3>1, <3>3, <3>6
      <4>2. QED
        BY <1>4, <4>1 DEF P
    <3>7. \E p \in B : p # m /\ v.groups[p] = k
      BY <1>4, <3>1, <3>2, <3>5 DEF P
    <3>8. v.groups[m] = k
      BY <3>5 DEF P
    <3>9. QED
      BY <3>1, <3>2, <3>4, <3>6, <3>7, <3>8, FineFounded
  <2>2. CASE e \notin P /\ v.groups[e] # g
    <3> DEFINE h == w.groups[e]
    <3>1. v.groups[e] = h /\ h \in GROUP /\ h # g /\ h \in DOMAIN w.slab /\ h # k /\ e \in alive
      BY <1>1, <1>3, <1>8, <1>9, <1>10, <1>11, <2>2
    <3>2. Fine(w, alive, h)
      BY <1>9, <3>1
    <3> HIDE DEF h
    <3>3. h \in DOMAIN v.slab /\ v.slab[h] = w.slab[h]
      BY <1>1, <3>1
    <3>4. ASSUME NEW f \in alive, w.groups[f] = h PROVE f \in B /\ v.groups[f] = h
      <4>1. f # m /\ f \notin P /\ (Ends(w, m) => f # l)
        BY <1>5, <1>6, <1>7, <3>1, <3>4 DEF P, g
      <4>2. QED
        BY <1>4, <1>10, <3>4, <4>1
    <3>5. \A f \in B : v.groups[f] = h => f \in alive /\ w.groups[f] = h
      BY <1>3, <1>8, <1>10, <3>1
    <3>6. QED
      BY <3>1, <3>2, <3>3, <3>4, <3>5, FineKept
  <2>3. CASE e \notin P /\ v.groups[e] = g
    <3>1. g \in GROUP /\ e \in alive /\ w.groups[e] = g /\ ~(Ends(w, m) /\ e = l)
      BY <1>3, <1>8, <1>10, <1>11, <2>3
    <3>2. ~Ends(w, m)
      BY <1>6, <2>3, <3>1
    <3>3. g \in DOMAIN v.slab
          /\ v.slab[g] = [leader |-> l, num_members |-> LessOne(m, w.slab[g].num_members)]
      BY <1>1, <1>6, <3>1, <3>2
    <3>4. k # g
      BY <1>1, <1>6, <1>8, <3>1
    <3>5. \A f \in B : v.groups[f] = g <=> f \in Stay(w, m)
      BY <1>3, <1>6, <1>10, <3>1, <3>2, <3>4
    <3>6. Stay(w, m) \subseteq B
      BY <1>4, <1>6, <3>1 DEF P, Stay
    <3>7. CountedIn(v, B, g) = {f \in Stay(w, m) : ~IsPet(f)}
      BY <3>5, <3>6 DEF CountedIn
    <3>8. Cardinality(CountedIn(v, B, g)) = LessOne(m, w.slab[g].num_members)
      BY <3>1, <3>7, DepartCount DEF g
    <3>9. l \in CountedIn(v, B, g)
      BY <1>6, <3>1, <3>7
    <3>10. \E f \in B : v.groups[f] = g /\ f # l
      BY <1>6, <3>1, <3>2, <3>5, <3>6
    <3>11. QED
      BY <2>3, <3>3, <3>8, <3>9, <3>10 DEF Fine
  <2>4. QED
    BY <2>1, <2>2, <2>3
<1>12. ASSUME NEW p \in B, NEW o \in B, IsPet(p), owner[p] = uid[o]
       PROVE  v.groups[p] = v.groups[o] /\ v.groups[p] \in GROUP
  <2>1. p \in alive /\ o \in alive /\ ~IsPet(o) /\ p # o
    BY <1>3, <1>12, OwnersAreNoPets DEF People
  <2>2. w.groups[p] = w.groups[o] /\ w.groups[p] \in GROUP
    BY <1>2, <1>12, <2>1 DEF PetsFollow
  <2>3. CASE o = m
    <3>1. p \in Pets(m) /\ ~deleted /\ k \in GROUP
      BY <1>1, <1>4, <1>12, <2>1, <2>3
    <3>2. p \in P /\ o \in P /\ g \in GROUP
      BY <1>5, <2>3, <3>1 DEF P
    <3>3. QED
      BY <1>6, <1>10, <2>1, <3>1, <3>2
  <2>4. CASE o # m
    <3>1. p # m
      BY <1>4, <1>12
    <3>2. p \notin Pets(m)
      BY <1>4, <1>12, <2>1, <2>4 DEF People, UidsDistinct
    <3>3. p \notin P /\ o \notin P
      BY <1>4, <2>1, <2>4, <3>1, <3>2 DEF P
    <3>4. ~(Ends(w, m) /\ (p = l \/ o = l))
      <4>1. SUFFICES ASSUME Ends(w, m), p = l \/ o = l PROVE FALSE
        OBVIOUS
      <4>2. g \in GROUP
        BY <1>7, <4>1
      <4>3. w.groups[p] = g /\ w.groups[o] = g
        BY <1>6, <2>2, <4>1, <4>2
      <4>4. p \in Stay(w, m) /\ o \in Stay(w, m)
        BY <1>6, <2>1, <3>3, <4>2, <4>3
      <4>5. QED
        BY <1>6, <2>1, <4>1, <4>2, <4>4
    <3>5. QED
      BY <1>10, <2>1, <2>2, <3>3, <3>4
  <2>5. QED
    BY <2>3, <2>4
<1>13. KindsFit(v, B)
  <2>1. ASSUME NEW e \in B
        PROVE  /\ kind[e] \in {"none", "wild"} => v.groups[e] = NoGroup
               /\ v.groups[e] = NpcGroup => kind[e] = "npc"
    <3>1. v.groups[e] = NoGroup \/ (v.groups[e] = k /\ e \in P) \/ v.groups[e] = w.groups[e]
      BY <1>3, <1>10
    <3>2. CASE v.groups[e] = k /\ e \in P /\ k # NoGroup
      <4>1. k \in GROUP /\ Pets(m) # {}
        BY <1>1, <3>2
      <4>2. kind[e] = "owned"
        BY <1>4, <1>5, <3>2, <4>1 DEF P, IsPet
      <4>3. QED
        BY <1>8, <3>2, <4>1, <4>2
    <3>3. CASE v.groups[e] = NoGroup
      BY <3>3 DEF NoGroup, NpcGroup
    <3>4. CASE v.groups[e] = w.groups[e]
      BY <1>2, <1>3, <3>4 DEF KindsFit
    <3>5. QED
      BY <3>1, <3>2, <3>3, <3>4
  <2>2. QED
    BY <2>1 DEF KindsFit
<1>14. QED
  BY <1>11, <1>12, <1>13 DEF Sound, AllFine, PetsFollow, B
-----------------------------------------------------------------------------
(* remove_from_group leaves all groups sound.                              *)
LEMMA RemoveSound ==
    ASSUME NEW w, Typed(w), People, Sound(w, alive), NEW m \in alive, NEW deleted \in BOOLEAN,
           deleted \/ ~IsPet(m)
    PROVE  Sound(RemoveFromGroup(w, m, deleted), Left(m, deleted))
<1> DEFINE v == RemoveFromGroup(w, m, deleted)
<1>1. alive \subseteq ENTITY /\ IsFiniteSet(alive) /\ m \in ENTITY
  BY DEF People
<1>2. CASE w.groups[m] = NoGroup
  <2>1. v = w
    BY <1>2 DEF RemoveFromGroup
  <2>2. Left(m, deleted) \subseteq alive /\ alive \ {m} \subseteq Left(m, deleted)
    BY DEF Left
  <2>3. ASSUME NEW e \in Left(m, deleted), w.groups[e] \in GROUP
        PROVE  Fine(w, Left(m, deleted), w.groups[e])
    <3>1. Fine(w, alive, w.groups[e])
      BY <2>2, <2>3 DEF Sound, AllFine
    <3>2. \A f \in alive : w.groups[f] = w.groups[e] => f \in Left(m, deleted)
      BY <1>2, <2>2, <2>3 DEF GROUP, NoGroup
    <3>3. w.groups[e] \in DOMAIN w.slab
      BY <3>1 DEF Fine
    <3>4. QED
      BY <2>2, <3>1, <3>2, <3>3, FineKept
  <2>4. QED
    BY <2>1, <2>2, <2>3 DEF Sound, AllFine, PetsFollow, KindsFit
<1>3. CASE w.groups[m] # NoGroup /\ Leads(w, m)
  <2>1. v = Disband(w, m, deleted)
    BY <1>3 DEF RemoveFromGroup
  <2>2. PICK key : Split(w, v, w.groups[m], Rest(w, m, deleted), key)
    BY <1>1, <2>1, DisbandSplits
  <2> HIDE DEF v
  <2>3. Sound(v, Left(m, deleted))
    BY <1>3, <2>2, DisbandSound
  <2>4. QED
    BY <2>3 DEF v
<1>4. CASE w.groups[m] # NoGroup /\ ~Leads(w, m)
  <2>1. v = Depart(w, m, deleted)
    BY <1>4 DEF RemoveFromGroup
  <2>2. PICK k : Departed(w, v, m, deleted, k)
    BY <1>1, <1>4, <2>1, DepartDeparts
  <2> HIDE DEF v
  <2>3. Sound(v, Left(m, deleted))
    BY <1>4, <2>2, DepartSound
  <2>4. QED
    BY <2>3 DEF v
<1>5. QED
  BY <1>2, <1>3, <1>4

(* m shares a group with nobody but its pets.                              *)
Own(v, m) ==
    v.groups[m] \in GROUP =>
        \A e \in alive : v.groups[e] = v.groups[m] => e = m \/ e \in Pets(m)

(* Nothing happens to other groups and those in them; the leader of the    *)
(* group m was in goes on leading, or has none any more.                   *)
Others(w, v, m) ==
    /\ \A e \in alive \ {m} :
          w.groups[e] # w.groups[m] \/ w.groups[e] \notin GROUP => v.groups[e] = w.groups[e]
    /\ \A h \in DOMAIN w.slab \ {w.groups[m]} :
          /\ h \in DOMAIN v.slab /\ v.slab[h] = w.slab[h]
          /\ \A e \in alive : v.groups[e] = h => w.groups[e] = h
    /\ \A e \in alive \ {m} :
          Leads(w, e) /\ ~IsPet(e) => Leads(v, e) \/ v.groups[e] = NoGroup

LEMMA RemoveParts ==
    ASSUME NEW w, Typed(w), People, Sound(w, alive), NEW m \in alive, ~IsPet(m)
    PROVE  LET v == RemoveFromGroup(w, m, FALSE)
           IN  /\ Own(v, m) /\ Others(w, v, m)
               /\ Pets(m) = {} => v.groups[m] = NoGroup
               /\ w.groups[m] \notin GROUP => v.groups[m] = NoGroup
<1> DEFINE v == RemoveFromGroup(w, m, FALSE)
           g == w.groups[m]
<1>1. alive \subseteq ENTITY /\ IsFiniteSet(alive) /\ m \in ENTITY
  BY DEF People
<1>2. NoGroup \notin GROUP /\ NpcGroup \notin GROUP
  BY DEF NoGroup, NpcGroup, GROUP
<1>3. \A e \in alive : w.groups[e] \in GROUP => w.groups[e] \in DOMAIN w.slab
  BY DEF Sound, AllFine, Fine
<1>4. Pets(m) = {p \in alive : IsPet(p) /\ owner[p] = uid[m]} /\ m \notin Pets(m)
  BY PetsAre DEF People
<1>5. CASE g = NoGroup
  <2>1. v = w
    BY <1>5 DEF RemoveFromGroup
  <2>2. QED
    BY <1>2, <1>5, <2>1 DEF Own, Others
<1>6. CASE g # NoGroup /\ Leads(w, m)
  <2>1. v = Disband(w, m, FALSE)
    BY <1>6 DEF RemoveFromGroup
  <2> DEFINE rest == Rest(w, m, FALSE)
  <2>2. PICK key : Split(w, v, g, rest, key)
    BY <1>1, <2>1, DisbandSplits
  <2>3. rest = {e \in alive : w.groups[e] = g} /\ g \in GROUP /\ m \in rest
        /\ g \in DOMAIN w.slab
    BY <1>6 DEF Rest, Leads, Typed
  <2> HIDE DEF v, rest, g
  <2>4. /\ \A e \in alive \ rest : v.groups[e] = w.groups[e]
        /\ \A o \in Keepers(rest) : \A e \in WithPets(rest, o) :
              e \in rest /\ v.groups[e] = key[o]
        /\ \A e \in rest : v.groups[e] # NoGroup =>
              \E o \in Keepers(rest) : e \in WithPets(rest, o) /\ v.groups[e] = key[o]
    <3>1. rest \subseteq alive /\ UidsDistinct
      BY <2>3 DEF People
    <3>2. QED
      BY <1>1, <2>2, <3>1, SplitGroups
  <2>5. /\ key \in [Keepers(rest) -> GROUP \ (DOMAIN w.slab \ {g})]
        /\ \A o, p \in Keepers(rest) : key[o] = key[p] => o = p
        /\ DOMAIN v.slab = (DOMAIN w.slab \ {g}) \cup {key[o] : o \in Keepers(rest)}
        /\ \A h \in DOMAIN w.slab \ {g} : v.slab[h] = w.slab[h]
    BY <2>2 DEF Split
  <2>6. ASSUME v.groups[m] # NoGroup
        PROVE  m \in Keepers(rest) /\ v.groups[m] = key[m]
    <3>1. PICK o \in Keepers(rest) : m \in WithPets(rest, o) /\ v.groups[m] = key[o]
      BY <2>3, <2>4, <2>6
    <3>2. o = m
      BY <3>1 DEF WithPets
    <3>3. QED
      BY <3>1, <3>2
  <2>7. Own(v, m)
    <3>1. SUFFICES ASSUME v.groups[m] \in GROUP, NEW e \in alive, v.groups[e] = v.groups[m]
                   PROVE  e = m \/ e \in Pets(m)
      BY DEF Own
    <3>2. m \in Keepers(rest) /\ v.groups[m] = key[m] /\ v.groups[e] # NoGroup
      BY <1>2, <2>6, <3>1
    <3>3. e \in rest
      <4>1. SUFFICES ASSUME e \notin rest PROVE FALSE
        OBVIOUS
      <4>2. w.groups[e] = key[m] /\ w.groups[e] \in GROUP
        BY <2>4, <2>5, <3>1, <3>2, <4>1
      <4>3. w.groups[e] \in DOMAIN w.slab
        BY <1>3, <4>2
      <4>4. w.groups[e] = g
        BY <2>5, <3>2, <4>2, <4>3
      <4>5. QED
        BY <2>3, <4>1, <4>4
    <3>4. PICK o \in Keepers(rest) : e \in WithPets(rest, o) /\ v.groups[e] = key[o]
      BY <2>4, <3>2, <3>3
    <3>5. o = m
      BY <2>5, <3>1, <3>2, <3>4
    <3>6. QED
      BY <1>4, <2>3, <3>4, <3>5 DEF WithPets
  <2>8. Pets(m) = {} => v.groups[m] = NoGroup
    <3>1. SUFFICES ASSUME v.groups[m] # NoGroup PROVE Pets(m) # {}
      OBVIOUS
    <3>2. WithPets(rest, m) # {m} /\ m \in WithPets(rest, m)
      BY <2>6, <3>1 DEF Keepers, WithPets
    <3>3. PICK p \in WithPets(rest, m) : p # m
      BY <3>2
    <3>4. QED
      BY <1>4, <2>3, <3>3 DEF WithPets
  <2>9. \A e \in alive \ {m} :
           w.groups[e] # g \/ w.groups[e] \notin GROUP => v.groups[e] = w.groups[e]
    BY <2>3, <2>4
  <2>10. ASSUME NEW h \in DOMAIN w.slab \ {g}
         PROVE  /\ h \in DOMAIN v.slab /\ v.slab[h] = w.slab[h]
                /\ \A e \in alive : v.groups[e] = h => w.groups[e] = h
    <3>1. h \in DOMAIN v.slab /\ v.slab[h] = w.slab[h]
      BY <2>5
    <3>2. h # NoGroup
      BY <1>2 DEF Typed
    <3>3. ASSUME NEW e \in alive, v.groups[e] = h PROVE e \notin rest
      <4>1. SUFFICES ASSUME e \in rest PROVE FALSE
        OBVIOUS
      <4>2. PICK o \in Keepers(rest) : v.groups[e] = key[o]
        BY <2>4, <3>2, <3>3, <4>1
      <4>3. QED
        BY <2>5, <3>3, <4>2
    <3>4. QED
      BY <2>4, <3>1, <3>3
  <2>11. ASSUME NEW e \in alive \ {m}, Leads(w, e)
         PROVE  Leads(v, e)
    <3>1. w.groups[e] \in DOMAIN w.slab /\ w.slab[w.groups[e]].leader = e
      BY <2>11 DEF Leads
    <3>2. w.groups[e] # g
      BY <1>6, <3>1 DEF Leads, g
    <3>3. v.groups[e] = w.groups[e]
      BY <2>9, <3>2
    <3>4. QED
      BY <2>10, <3>1, <3>2, <3>3 DEF Leads
  <2>12. Others(w, v, m)
    BY <2>9, <2>10, <2>11 DEF Others, g
  <2>13. QED
    BY <2>3, <2>7, <2>8, <2>12 DEF g, v
<1>7. CASE g # NoGroup /\ ~Leads(w, m)
  <2>1. v = Depart(w, m, FALSE)
    BY <1>7 DEF RemoveFromGroup
  <2>2. PICK k : Departed(w, v, m, FALSE, k)
    BY <1>1, <1>7, <2>1, DepartDeparts
  <2> DEFINE P == {m} \cup Pets(m)
             l == w.slab[g].leader
  <2>3. /\ IF Pets(m) # {} THEN k \in GROUP \ DOMAIN w.slab ELSE k = NoGroup
        /\ v.groups = [e \in ENTITY |-> IF Ends(w, m) /\ e = l THEN NoGroup
                                        ELSE IF e \in P THEN k ELSE w.groups[e]]
        /\ DOMAIN v.slab = (DOMAIN w.slab \cup ({k} \ {NoGroup}))
                               \ (IF Ends(w, m) THEN {g} ELSE {})
        /\ \A h \in DOMAIN w.slab \ {g} : v.slab[h] = w.slab[h]
        /\ g \in DOMAIN w.slab /\ ~Ends(w, m) =>
              v.slab[g] = [leader |-> l, num_members |-> LessOne(m, w.slab[g].num_members)]
    BY <2>2 DEF Departed
  <2>4. \A e \in alive : v.groups[e] = IF Ends(w, m) /\ e = l THEN NoGroup
                                       ELSE IF e \in P THEN k ELSE w.groups[e]
    BY <1>1, <2>3
  <2>5. \A p \in Pets(m) : w.groups[p] = g /\ g \in GROUP
    BY <1>4 DEF Sound, PetsFollow
  <2>6. Ends(w, m) => g \in GROUP /\ g \in DOMAIN w.slab
    BY DEF Ends, Typed
  <2>7. g \in GROUP => g \in DOMAIN w.slab /\ l \in alive /\ w.groups[l] = g /\ l \notin P
    BY <1>7, StayingLeader DEF Stay
  <2>8. g \notin GROUP => k = NoGroup /\ Pets(m) = {}
    BY <2>3, <2>5
  <2> HIDE DEF v, P, l, g
  <2>9. m \in P /\ \A e \in P : e = m \/ e \in Pets(m)
    BY DEF P
  <2>10. v.groups[m] = k
    BY <2>4, <2>6, <2>7, <2>9
  <2>11. \A e \in alive : v.groups[e] = k /\ k \in GROUP => e \in P
    BY <1>2, <1>3, <2>3, <2>4
  <2>12. \A e \in alive \ {m} :
            w.groups[e] # g \/ w.groups[e] \notin GROUP => v.groups[e] = w.groups[e]
    BY <2>4, <2>5, <2>6, <2>7, <2>9
  <2>13. ASSUME NEW h \in DOMAIN w.slab \ {g}
         PROVE  /\ h \in DOMAIN v.slab /\ v.slab[h] = w.slab[h]
                /\ \A e \in alive : v.groups[e] = h => w.groups[e] = h
    <3>1. h # NoGroup /\ h # k
      BY <1>2, <2>3 DEF Typed
    <3>2. QED
      BY <2>3, <2>4, <3>1
  <2>14. ASSUME NEW e \in alive \ {m}, Leads(w, e), ~IsPet(e)
         PROVE  Leads(v, e) \/ v.groups[e] = NoGroup
    <3>1. w.groups[e] \in DOMAIN w.slab /\ w.slab[w.groups[e]].leader = e
      BY <2>14 DEF Leads
    <3>2. CASE w.groups[e] # g
      <4>1. v.groups[e] = w.groups[e]
        BY <2>12, <3>2
      <4>2. QED
        BY <2>13, <3>1, <3>2, <4>1 DEF Leads
    <3>3. CASE w.groups[e] = g /\ Ends(w, m)
      BY <2>4, <3>1, <3>3 DEF l
    <3>4. CASE w.groups[e] = g /\ ~Ends(w, m)
      <4>1. e \notin P /\ v.groups[e] = g
        BY <1>4, <2>4, <2>9, <2>14, <3>4
      <4>2. g \in DOMAIN v.slab /\ v.slab[g].leader = e
        BY <2>3, <3>1, <3>4 DEF l
      <4>3. QED
        BY <4>1, <4>2 DEF Leads
    <3>5. QED
      BY <3>2, <3>3, <3>4
  <2>15. Others(w, v, m)
    BY <2>12, <2>13, <2>14 DEF Others, g
  <2>16. Own(v, m)
    BY <2>9, <2>10, <2>11 DEF Own
  <2>17. Pets(m) = {} => v.groups[m] = NoGroup
    BY <2>3, <2>10
  <2>18. QED
    BY <2>8, <2>10, <2>15, <2>16, <2>17 DEF g, v
<1>8. QED
  BY <1>5, <1>6, <1>7

(* So does leave_group, which sends an NPC back to its own.                *)
LEMMA LeaveParts ==
    ASSUME NEW w, Typed(w), People, Sound(w, alive), NEW m \in alive, ~IsPet(m)
    PROVE  LET v == LeaveGroup(w, m)
           IN  /\ Typed(v) /\ Sound(v, alive) /\ Own(v, m) /\ Others(w, v, m)
               /\ Pets(m) = {} /\ kind[m] # "npc" => v.groups[m] = NoGroup
<1> DEFINE left == RemoveFromGroup(w, m, FALSE)
           v == LeaveGroup(w, m)
<1>1. alive \subseteq ENTITY /\ IsFiniteSet(alive) /\ m \in ENTITY
  BY DEF People
<1>2. Typed(left)
  BY <1>1, RemoveTyped
<1>3. Sound(left, alive)
  <2>1. Left(m, FALSE) = alive
    BY DEF Left
  <2>2. Sound(left, Left(m, FALSE))
    BY RemoveSound
  <2>3. QED
    BY <2>1, <2>2
<1>4. /\ Own(left, m) /\ Others(w, left, m)
      /\ Pets(m) = {} => left.groups[m] = NoGroup
  BY RemoveParts
<1>5. v = IF kind[m] = "npc" THEN Put(left, {m}, NpcGroup) ELSE left
  BY DEF LeaveGroup
<1> HIDE DEF left, v
<1>6. CASE kind[m] # "npc"
  BY <1>2, <1>3, <1>4, <1>5, <1>6 DEF v
<1>7. CASE kind[m] = "npc"
  <2>1. Pets(m) = {}
    BY <1>7, PetsAre DEF People, OwnersPlay
  <2>2. left.groups[m] = NoGroup
    BY <1>4, <2>1
  <2>3. NpcGroup \in MEMBERSHIP /\ NpcGroup \notin GROUP /\ NoGroup \notin GROUP
    BY DEF MEMBERSHIP, NpcGroup, NoGroup, GROUP
  <2>4. /\ Typed(v) /\ v.slab = left.slab
        /\ v.groups = [e \in ENTITY |-> IF e \in {m} THEN NpcGroup ELSE left.groups[e]]
    BY <1>2, <1>5, <1>7, <2>3, PutFacts
  <2>5. /\ v.groups[m] = NpcGroup
        /\ \A e \in alive \ {m} : v.groups[e] = left.groups[e]
    BY <1>1, <2>4
  <2>6. ASSUME NEW e \in alive, v.groups[e] \in GROUP PROVE Fine(v, alive, v.groups[e])
    <3> DEFINE h == left.groups[e]
    <3>1. e # m /\ v.groups[e] = h /\ h \in GROUP
      BY <2>3, <2>5, <2>6
    <3>2. Fine(left, alive, h) /\ h \in DOMAIN left.slab
      BY <1>3, <3>1 DEF Sound, AllFine, Fine
    <3> HIDE DEF h
    <3>3. \A f \in alive : left.groups[f] = h <=> v.groups[f] = h
      BY <2>2, <2>3, <2>5, <3>1
    <3>4. QED
      BY <2>4, <3>1, <3>2, <3>3, FineKept
  <2>7. PetsFollow(v, alive)
    <3>1. ASSUME NEW p \in alive, NEW o \in alive, IsPet(p), owner[p] = uid[o]
          PROVE  v.groups[p] = v.groups[o] /\ v.groups[p] \in GROUP
      <4>1. p # m /\ o # m
        BY <1>7, <3>1, OwnersAreNoPets DEF People
      <4>2. QED
        BY <1>3, <2>5, <3>1, <4>1 DEF Sound, PetsFollow
    <3>2. QED
      BY <3>1 DEF PetsFollow
  <2>8. KindsFit(v, alive)
    BY <1>3, <1>7, <2>5 DEF Sound, KindsFit
  <2>9. Own(v, m)
    BY <2>3, <2>5 DEF Own
  <2>10. Others(w, v, m)
    <3>1. \A h \in DOMAIN w.slab : h # NpcGroup
      BY <2>3 DEF Typed
    <3>2. \A e \in alive \ {m} : Leads(left, e) => Leads(v, e)
      BY <2>4, <2>5 DEF Leads
    <3>3. QED
      BY <1>4, <2>4, <2>5, <3>1, <3>2 DEF Others
  <2>11. QED
    BY <1>7, <2>4, <2>6, <2>7, <2>8, <2>9, <2>10 DEF Sound, AllFine, v
<1>8. QED
  BY <1>6, <1>7

LEMMA FreeParts ==
    ASSUME NEW w, Typed(w), People, Sound(w, alive), NEW n \in alive, ~IsPet(n)
    PROVE  LET v == FreeOfGroup(w, n)
           IN  Typed(v) /\ Sound(v, alive) /\ Own(v, n) /\ Others(w, v, n)
<1>1. CASE w.groups[n] \in DOMAIN w.slab
  <2>1. FreeOfGroup(w, n) = LeaveGroup(w, n)
    BY <1>1 DEF FreeOfGroup
  <2>2. QED
    BY <2>1, LeaveParts
<1>2. CASE w.groups[n] \notin DOMAIN w.slab
  <2>1. FreeOfGroup(w, n) = w
    BY <1>2 DEF FreeOfGroup
  <2>2. w.groups[n] \notin GROUP
    BY <1>2 DEF Sound, AllFine, Fine
  <2>3. Own(w, n)
    BY <2>2 DEF Own
  <2>4. Others(w, w, n)
    BY DEF Others
  <2>5. QED
    BY <2>1, <2>3, <2>4
<1>3. QED
  BY <1>1, <1>2

(* n, in no group with others, and its pets join l in group g, which l     *)
(* leads or has just founded.                                              *)
LEMMA JoinSound ==
    ASSUME NEW w, Typed(w), People, Sound(w, alive),
           NEW l \in alive, NEW n \in alive, l # n,
           ~IsPet(l), kind[l] = "owned", ~IsPet(n), kind[n] \in {"owned", "npc"}, Own(w, n),
           NEW v, NEW g \in GROUP,
           v.groups = [e \in ENTITY |-> IF e = l \/ e = n \/ e \in Pets(n) THEN g ELSE w.groups[e]],
           \/ Leads(w, l) /\ w.groups[l] = g
           \/ w.groups[l] = NoGroup /\ g \notin DOMAIN w.slab,
           g \in DOMAIN v.slab,
           v.slab[g] = [leader |-> l,
                        num_members |-> Cardinality(CountedIn(w, alive, g) \cup {l}) + 1],
           \A h \in DOMAIN w.slab \ {g} : h \in DOMAIN v.slab /\ v.slab[h] = w.slab[h]
    PROVE  Sound(v, alive)
<1> DEFINE P == {n} \cup Pets(n)
<1>1. AllFine(w, alive) /\ PetsFollow(w, alive) /\ KindsFit(w, alive)
  BY DEF Sound
<1>2. alive \subseteq ENTITY
  BY DEF People
<1>3. Pets(n) = {p \in alive : IsPet(p) /\ owner[p] = uid[n]} /\ n \notin Pets(n) /\ l \notin Pets(n)
  BY PetsAre DEF People
<1>4. /\ n \in P /\ l \notin P /\ P \subseteq alive
      /\ \A e \in P : w.groups[e] = w.groups[n]
      /\ \A e \in P : e # n => IsPet(e)
  BY <1>1, <1>3 DEF PetsFollow
<1>5. \A e \in alive : v.groups[e] = IF e = l \/ e \in P THEN g ELSE w.groups[e]
  BY <1>2
<1>6. w.groups[n] \in GROUP => \A e \in alive : w.groups[e] = w.groups[n] => e \in P
  BY DEF Own
<1> HIDE DEF P
<1>7. NoGroup \notin GROUP /\ NpcGroup \notin GROUP
  BY DEF NoGroup, NpcGroup, GROUP
<1>8. \A e \in alive : w.groups[e] \in GROUP => w.groups[e] \in DOMAIN w.slab
  BY <1>1 DEF AllFine, Fine
<1>9. ASSUME NEW h \in GROUP, h # g, NEW e \in alive, v.groups[e] = h PROVE Fine(v, alive, h)
  <2>1. e # l /\ e \notin P /\ w.groups[e] = h
    BY <1>5, <1>9
  <2>2. Fine(w, alive, h) /\ h \in DOMAIN w.slab
    BY <1>1, <1>8, <1>9, <2>1 DEF AllFine
  <2>3. w.groups[n] # h
    BY <1>6, <1>9, <2>1
  <2>4. w.groups[l] # h
    BY <1>7, <1>9
  <2>5. \A f \in alive : w.groups[f] = h <=> v.groups[f] = h
    BY <1>4, <1>5, <1>9, <2>3, <2>4
  <2>6. h \in DOMAIN v.slab /\ v.slab[h] = w.slab[h]
    BY <1>9, <2>2
  <2>7. QED
    BY <2>2, <2>5, <2>6, FineKept
<1>10. Fine(v, alive, g)
  <2> DEFINE C == CountedIn(w, alive, g) \cup {l}
  <2>1. w.groups[n] # g
    <3>1. CASE w.groups[l] = g
      BY <1>4, <1>6, <3>1
    <3>2. CASE g \notin DOMAIN w.slab
      BY <1>8, <3>2
    <3>3. QED
      BY <3>1, <3>2
  <2>2. n \notin C
    BY <2>1 DEF CountedIn
  <2>3. CountedIn(v, alive, g) = C \cup {n}
    <3>1. \A e \in alive : v.groups[e] = g <=> e = l \/ e \in P \/ w.groups[e] = g
      BY <1>5
    <3>2. \A e \in P : ~IsPet(e) <=> e = n
      BY <1>4
    <3>3. QED
      BY <1>4, <3>1, <3>2 DEF CountedIn
  <2>4. C \in SUBSET alive
    BY DEF CountedIn
  <2>5. IsFiniteSet(C)
    BY <2>4, FS_Subset DEF People
  <2> HIDE DEF C
  <2>6. Cardinality(CountedIn(v, alive, g)) = Cardinality(C) + 1
    BY <2>2, <2>3, <2>5, FS_AddElement
  <2>7. v.slab[g].leader = l /\ v.slab[g].num_members = Cardinality(C) + 1
    BY DEF C
  <2>8. l \in CountedIn(v, alive, g)
    BY <2>3 DEF C
  <2>9. v.groups[n] = g
    BY <1>4, <1>5
  <2>10. QED
    BY <2>6, <2>7, <2>8, <2>9 DEF Fine
<1>11. ASSUME NEW p \in alive, NEW o \in alive, IsPet(p), owner[p] = uid[o]
       PROVE  v.groups[p] = v.groups[o] /\ v.groups[p] \in GROUP
  <2>1. w.groups[p] = w.groups[o] /\ w.groups[p] \in GROUP /\ ~IsPet(o)
    BY <1>1, <1>11, OwnersAreNoPets DEF PetsFollow, People
  <2>2. CASE o = n
    <3>1. p \in P
      BY <1>3, <1>11, <2>2 DEF P
    <3>2. QED
      BY <1>4, <1>5, <2>2, <3>1
  <2>3. CASE o = l
    <3>1. w.groups[p] = g
      BY <1>7, <2>1, <2>3
    <3>2. QED
      BY <1>5, <2>3, <3>1
  <2>4. CASE o # n /\ o # l
    <3>1. p \notin Pets(n)
      BY <1>3, <1>11, <2>4 DEF People, UidsDistinct
    <3>2. p \notin P /\ o \notin P /\ p # l
      BY <1>3, <1>11, <2>1, <2>4, <3>1 DEF P
    <3>3. QED
      BY <1>5, <2>1, <2>4, <3>2
  <2>5. QED
    BY <2>2, <2>3, <2>4
<1>12. KindsFit(v, alive)
  <2>1. \A e \in P : kind[e] \in {"owned", "npc"}
    BY <1>3 DEF P, IsPet
  <2>2. QED
    BY <1>1, <1>5, <1>7, <2>1 DEF KindsFit
<1>13. AllFine(v, alive)
  BY <1>9, <1>10 DEF AllFine
<1>14. QED
  BY <1>11, <1>12, <1>13 DEF Sound, PetsFollow

(* A newcomer is added: it leaves its group, and if the inviter does not   *)
(* lead one it leaves the one it is in and founds another.  This is sound  *)
(* unless pets of the inviter are left behind.                             *)
LEMMA AddSound ==
    ASSUME NEW w, Typed(w), People, Sound(w, alive),
           NEW l \in alive, NEW n \in alive, l # n,
           ~IsPet(l), kind[l] = "owned", ~IsPet(n), kind[n] \in {"owned", "npc"},
           Pets(l) = {} \/ Leads(w, l) \/ w.groups[l] = NoGroup
    PROVE  Sound(AddGroupMember(w, l, n), alive)
<1> DEFINE free   == FreeOfGroup(w, n)
           alone  == IF free.groups[l] = NoGroup THEN free ELSE LeaveGroup(free, l)
           size   == free.slab[free.groups[l]].num_members + 1
           joined == IF Leads(free, l) THEN Count(free, free.groups[l], size)
                     ELSE Create(alone, l, 2, {l})
           P      == {n} \cup Pets(n)
           v      == AddGroupMember(w, l, n)
<1>1. v = Put(joined, P, joined.groups[l])
  BY DEF AddGroupMember
<1>2. alive \subseteq ENTITY /\ l \in ENTITY /\ n \in ENTITY
  BY DEF People
<1>3. Typed(free) /\ Sound(free, alive) /\ Own(free, n) /\ Others(w, free, n)
  BY FreeParts
<1>4. l \notin Pets(n) /\ l \notin P /\ n \in P
  BY PetsAre DEF People
<1>5. NoGroup \notin GROUP /\ GROUP \subseteq MEMBERSHIP
  BY DEF NoGroup, GROUP, MEMBERSHIP
<1> HIDE DEF free, v
<1>6. CASE Leads(free, l)
  <2> DEFINE g == free.groups[l]
             j == Count(free, g, size)
  <2>1. g \in DOMAIN free.slab /\ g \in GROUP /\ free.slab[g].leader = l
    BY <1>3, <1>6 DEF Leads, Typed
  <2>2. Fine(free, alive, g)
    BY <1>3, <2>1 DEF Sound, AllFine
  <2>3. l \in CountedIn(free, alive, g)
        /\ free.slab[g].num_members = Cardinality(CountedIn(free, alive, g))
    BY <2>1, <2>2 DEF Fine
  <2>4. CountedIn(free, alive, g) \cup {l} = CountedIn(free, alive, g)
    BY <2>3
  <2>5. size \in Nat /\ size = Cardinality(CountedIn(free, alive, g) \cup {l}) + 1
    <3>1. free.slab[g] \in ENTRY
      BY <1>3, <2>1 DEF Typed
    <3>2. free.slab[g].num_members \in Nat
      BY <3>1 DEF ENTRY
    <3>3. size = free.slab[g].num_members + 1
      OBVIOUS
    <3> HIDE DEF g, size
    <3>4. Cardinality(CountedIn(free, alive, g) \cup {l}) = free.slab[g].num_members
      BY <2>3, <2>4
    <3>5. size \in Nat
      BY <3>2, <3>3
    <3>6. QED
      BY <3>3, <3>4, <3>5
  <2> HIDE DEF g, size
  <2>6. /\ Typed(j) /\ j.groups = free.groups /\ DOMAIN j.slab = DOMAIN free.slab
        /\ j.slab[g] = [leader |-> free.slab[g].leader, num_members |-> size]
        /\ \A h \in DOMAIN free.slab \ {g} : j.slab[h] = free.slab[h]
    <3>1. Typed(free) /\ g \in DOMAIN free.slab /\ size \in Nat
      BY <1>3, <2>1, <2>5
    <3>2. QED
      BY <3>1, CountFacts
  <2>7. v = Put(j, P, g)
    BY <1>1, <1>6, <2>6 DEF g
  <2> HIDE DEF j, P
  <2>8. /\ v.groups = [e \in ENTITY |-> IF e \in P THEN g ELSE j.groups[e]]
        /\ v.slab = j.slab
    BY <1>5, <2>1, <2>6, <2>7, PutFacts
  <2>9. v.groups = [e \in ENTITY |-> IF e = l \/ e = n \/ e \in Pets(n) THEN g
                                     ELSE free.groups[e]]
    BY <2>6, <2>8 DEF P, g
  <2>10. g \in DOMAIN v.slab
         /\ v.slab[g] = [leader |-> l,
                         num_members |-> Cardinality(CountedIn(free, alive, g) \cup {l}) + 1]
    BY <2>1, <2>5, <2>6, <2>8
  <2>11. \A h \in DOMAIN free.slab \ {g} : h \in DOMAIN v.slab /\ v.slab[h] = free.slab[h]
    BY <2>6, <2>8
  <2>12. Leads(free, l) /\ free.groups[l] = g
    BY <1>6 DEF g
  <2>13. Sound(v, alive)
    BY <1>3, <2>1, <2>9, <2>10, <2>11, <2>12, JoinSound
  <2>14. QED
    BY <2>13 DEF v
<1>7. CASE ~Leads(free, l)
  <2>1. /\ Typed(alone) /\ Sound(alone, alive) /\ Own(alone, n)
        /\ alone.groups[l] = NoGroup
    <3>1. CASE free.groups[l] = NoGroup
      BY <1>3, <3>1
    <3>2. CASE free.groups[l] # NoGroup
      <4>1. Pets(l) = {}
        BY <1>3, <1>5, <1>7, <3>2 DEF Others
      <4>2. alone = LeaveGroup(free, l)
        BY <3>2
      <4>3. /\ Typed(alone) /\ Sound(alone, alive) /\ Others(free, alone, l)
            /\ alone.groups[l] = NoGroup
        BY <1>3, <4>1, <4>2, LeaveParts
      <4> HIDE DEF alone
      <4>4. Own(alone, n)
        <5>1. CASE free.groups[n] \notin GROUP
          <6>1. alone.groups[n] = free.groups[n]
            BY <4>3, <5>1 DEF Others
          <6>2. QED
            BY <5>1, <6>1 DEF Own
        <5>2. CASE free.groups[n] \in GROUP
          <6>1. free.groups[l] # free.groups[n]
            BY <1>3, <1>4, <5>2 DEF Own
          <6>2. alone.groups[n] = free.groups[n]
            BY <4>3, <6>1 DEF Others
          <6>3. free.groups[n] \in DOMAIN free.slab \ {free.groups[l]}
            BY <1>3, <5>2, <6>1 DEF Sound, AllFine, Fine
          <6>4. \A e \in alive : alone.groups[e] = free.groups[n] => free.groups[e] = free.groups[n]
            BY <4>3, <6>3 DEF Others
          <6>5. QED
            BY <1>3, <5>2, <6>2, <6>4 DEF Own
        <5>3. QED
          BY <5>1, <5>2
      <4>5. QED
        BY <4>3, <4>4
    <3>3. QED
      BY <3>1, <3>2
  <2> HIDE DEF alone
  <2> DEFINE j == Create(alone, l, 2, {l})
  <2>2. PICK g : Founded(alone, j, l, 2, {l}, g)
    BY <1>2, <2>1, CreateFounds
  <2>3. v = Put(j, P, j.groups[l])
    BY <1>1, <1>7
  <2> HIDE DEF j, P
  <2>4. /\ Typed(j) /\ g \in GROUP \ DOMAIN alone.slab
        /\ j.groups = [e \in ENTITY |-> IF e \in {l} THEN g ELSE alone.groups[e]]
        /\ DOMAIN j.slab = DOMAIN alone.slab \cup {g}
        /\ j.slab[g] = [leader |-> l, num_members |-> 2]
        /\ \A h \in DOMAIN alone.slab : j.slab[h] = alone.slab[h]
    BY <2>2 DEF Founded
  <2>5. j.groups[l] = g
    BY <1>2, <2>4
  <2>6. /\ v.groups = [e \in ENTITY |-> IF e \in P THEN g ELSE j.groups[e]]
        /\ v.slab = j.slab
    BY <1>5, <2>3, <2>4, <2>5, PutFacts
  <2>7. v.groups = [e \in ENTITY |-> IF e = l \/ e = n \/ e \in Pets(n) THEN g
                                     ELSE alone.groups[e]]
    BY <2>4, <2>6 DEF P
  <2>8. Cardinality(CountedIn(alone, alive, g) \cup {l}) + 1 = 2
    <3>1. \A e \in alive : alone.groups[e] # g
      BY <2>1, <2>4 DEF Sound, AllFine, Fine
    <3> HIDE DEF alone
    <3>2. CountedIn(alone, alive, g) = {}
      BY <3>1 DEF CountedIn
    <3>3. CountedIn(alone, alive, g) \cup {l} = {l}
      BY <3>2
    <3>4. Cardinality({l}) = 1
      BY FS_Singleton
    <3>5. QED
      BY <3>3, <3>4
  <2>9. /\ g \in DOMAIN v.slab
        /\ v.slab[g] = [leader |-> l,
                        num_members |-> Cardinality(CountedIn(alone, alive, g) \cup {l}) + 1]
        /\ \A h \in DOMAIN alone.slab \ {g} : h \in DOMAIN v.slab /\ v.slab[h] = alone.slab[h]
    BY <2>4, <2>6, <2>8
  <2>10. g \in GROUP /\ alone.groups[l] = NoGroup /\ g \notin DOMAIN alone.slab
    BY <2>1, <2>4
  <2>11. Sound(v, alive)
    BY <2>1, <2>7, <2>9, <2>10, JoinSound
  <2>12. QED
    BY <2>11 DEF v
<1>8. QED
  BY <1>6, <1>7
-----------------------------------------------------------------------------
(* Who the entities are: a client is in the lobby or owns itself, those    *)
(* who were never there have no Alignment, and who has invites out is a    *)
(* player in the game world, who has not invited itself.                   *)
ClientsOwn ==
    \A e \in client : kind[e] = "none" \/ (kind[e] = "owned" /\ owner[e] = uid[e])

UnbornIsClean == \A e \in ENTITY : uid[e] = Nobody => kind[e] = "none"

InvitersPlay == \A x \in ENTITY : pending[x] # {} => InGame(x)

NobodyInvitesItself == \A x \in ENTITY : x \notin pending[x]

Cast ==
    /\ TypeOK
    /\ IInv
    /\ UidsDistinct
    /\ ClientsOwn
    /\ UnbornIsClean
    /\ InvitersPlay
    /\ NobodyInvitesItself

LEMMA CastInit == Init => Cast
<1>1. SUFFICES ASSUME Init PROVE Cast
  OBVIOUS
<1>2. PICK cast \in Casts :
        LET players == {e \in ENTITY : cast[e] = "player"}
            born    == {e \in ENTITY : cast[e] # "unborn"}
        IN  /\ alive = born
            /\ client = players
            /\ uid = [e \in ENTITY |-> IF e \in born THEN e ELSE Nobody]
            /\ kind = [e \in ENTITY |-> IF e \in players THEN "owned"
                                       ELSE IF e \in born THEN cast[e] ELSE "none"]
            /\ owner = [e \in ENTITY |-> IF e \in players THEN e ELSE Nobody]
            /\ pending = [e \in ENTITY |-> {}]
  BY <1>1 DEF Init
<1>3. Nobody \notin ENTITY
  BY GroupsAssumption DEF GroupsAssumption
<1>4. UidsDistinct
  BY <1>2, <1>3 DEF UidsDistinct
<1>5. ClientsOwn
  BY <1>2, <1>3 DEF ClientsOwn
<1>6. UnbornIsClean
  BY <1>2, <1>3 DEF UnbornIsClean
<1>7. InvitersPlay /\ NobodyInvitesItself
  BY <1>2 DEF InvitersPlay, NobodyInvitesItself
<1>8. QED
  BY <1>1, <1>4, <1>5, <1>6, <1>7, TypeInit, InvitesInit DEF Cast

(* Handlers that leave the entities alone and send no invite.              *)
LEMMA CastKept ==
    ASSUME Cast, UNCHANGED <<alive, client, uid, kind, owner>>,
           \A x \in ENTITY : pending'[x] \subseteq pending[x]
    PROVE  UidsDistinct' /\ ClientsOwn' /\ UnbornIsClean' /\ InvitersPlay' /\ NobodyInvitesItself'
<1>1. InvitersPlay' /\ NobodyInvitesItself'
  BY DEF Cast, InvitersPlay, NobodyInvitesItself, InGame
<1>2. QED
  BY <1>1 DEF Cast, UidsDistinct, ClientsOwn, UnbornIsClean

LEMMA WithdrawShrinks ==
    ASSUME TypeOK, NEW y \in ENTITY, Withdraw(y)
    PROVE  \A x \in ENTITY : pending'[x] \subseteq pending[x]
BY DEF TypeOK, Withdraw

LEMMA CastNext == Cast /\ [Next]_vars => Cast'
<1>1. SUFFICES ASSUME Cast, [Next]_vars
               PROVE  /\ UidsDistinct' /\ ClientsOwn' /\ UnbornIsClean' /\ InvitersPlay'
                      /\ NobodyInvitesItself'
  BY TypeNext, InvitesNext DEF Cast
<1> DEFINE G == /\ UidsDistinct' /\ ClientsOwn' /\ UnbornIsClean' /\ InvitersPlay'
                /\ NobodyInvitesItself'
<1>2. /\ alive \subseteq ENTITY /\ client \subseteq alive
      /\ uid \in [ENTITY -> ENTITY \cup {Nobody}]
      /\ kind \in [ENTITY -> {"owned", "npc", "wild", "none"}]
      /\ owner \in [ENTITY -> ENTITY \cup {Nobody}]
      /\ pending \in [ENTITY -> SUBSET ENTITY]
      /\ Nobody \notin ENTITY
  BY <1>1, GroupsAssumption DEF Cast, TypeOK, GroupsAssumption
<1>3. /\ UidsDistinct /\ ClientsOwn /\ UnbornIsClean /\ InvitersPlay /\ NobodyInvitesItself
      /\ \A e \in alive : uid[e] # Nobody
  BY <1>1, <1>2 DEF Cast, IInv, UnbornIsUnknown
<1>4. CASE UNCHANGED vars
  BY <1>1, <1>4, CastKept DEF vars, bodies, invites
<1>5. ASSUME NEW x \in ENTITY, NEW y \in ENTITY, Invite(x, y) PROVE G
  <2>1. /\ pending' = [pending EXCEPT ![x] = @ \cup {y}]
        /\ UNCHANGED <<alive, client, uid, kind, owner>>
        /\ InGame(x) /\ x # y
    BY <1>5 DEF Invite, bodies
  <2>2. InvitersPlay' /\ NobodyInvitesItself'
    BY <1>2, <1>3, <2>1 DEF InvitersPlay, NobodyInvitesItself, InGame
  <2>3. QED
    BY <1>3, <2>1, <2>2 DEF UidsDistinct, ClientsOwn, UnbornIsClean
<1>6. ASSUME NEW y \in ENTITY, Accept(y) \/ Decline(y) \/ InviteTimeout(y) PROVE G
  <2>1. Withdraw(y) /\ UNCHANGED bodies
    BY <1>6 DEF Accept, Decline, InviteTimeout
  <2>2. QED
    BY <1>1, <2>1, WithdrawShrinks, CastKept DEF bodies, Cast
<1>7. ASSUME NEW x \in ENTITY, NEW y \in ENTITY,
             Leave(x) \/ Kick(x, y) \/ AssignLeader(x, y)
      PROVE  G
  BY <1>1, <1>7, CastKept DEF Leave, Kick, AssignLeader, bodies, invites
<1>8. ASSUME NEW x \in ENTITY, NEW y \in ENTITY, Tame(x, y) PROVE G
  <2>1. /\ kind' = [kind EXCEPT ![y] = "owned"] /\ owner' = [owner EXCEPT ![y] = uid[x]]
        /\ kind[y] = "wild" /\ y \in alive
        /\ UNCHANGED <<alive, client, uid, pending>>
    BY <1>8 DEF Tame, invites
  <2>2. y \notin client /\ ~InGame(y)
    BY <1>3, <2>1 DEF ClientsOwn, InGame
  <2>3. InvitersPlay'
    BY <1>2, <1>3, <2>1, <2>2 DEF InvitersPlay, InGame
  <2>4. QED
    BY <1>2, <1>3, <2>1, <2>2, <2>3
       DEF UidsDistinct, ClientsOwn, UnbornIsClean, NobodyInvitesItself
<1>9. ASSUME NEW e \in ENTITY, Delete(e) PROVE G
  <2>1. /\ alive' = alive \ {e} /\ client' = client \ {e} /\ uid' = uid
        /\ kind' = [kind EXCEPT ![e] = "none"] /\ owner' = [owner EXCEPT ![e] = Nobody]
        /\ pending' = [pending EXCEPT ![e] = {}]
    BY <1>9 DEF Delete
  <2>2. InvitersPlay'
    BY <1>2, <1>3, <2>1 DEF InvitersPlay, InGame
  <2>3. QED
    BY <1>2, <1>3, <2>1, <2>2 DEF UidsDistinct, ClientsOwn, UnbornIsClean, NobodyInvitesItself
<1>10. ASSUME NEW x \in ENTITY, NEW n \in ENTITY, ExitIngame(x, n) PROVE G
  <2>1. /\ alive' = (alive \ {x}) \cup {n} /\ client' = (client \ {x}) \cup {n}
        /\ uid' = [uid EXCEPT ![n] = uid[x]]
        /\ kind' = [kind EXCEPT ![x] = "none"] /\ owner' = [owner EXCEPT ![x] = Nobody]
        /\ pending' = [pending EXCEPT ![x] = {}]
        /\ uid[n] = Nobody /\ x \in alive
    BY <1>10 DEF ExitIngame, ClientMoves, InGame
  <2>2. n \notin alive /\ n # x /\ kind[n] = "none" /\ pending[n] = {}
    BY <1>1, <1>3, <2>1 DEF UnbornIsClean, Cast, IInv, GoneIsClean
  <2>3. UidsDistinct'
    BY <1>2, <1>3, <2>1, <2>2 DEF UidsDistinct
  <2>4. ClientsOwn'
    BY <1>2, <1>3, <2>1, <2>2 DEF ClientsOwn
  <2>5. UnbornIsClean'
    BY <1>2, <1>3, <2>1, <2>2 DEF UnbornIsClean
  <2>6. InvitersPlay'
    BY <1>2, <1>3, <2>1, <2>2 DEF InvitersPlay, InGame
  <2>7. NobodyInvitesItself'
    BY <1>2, <1>3, <2>1 DEF NobodyInvitesItself
  <2>8. QED
    BY <2>3, <2>4, <2>5, <2>6, <2>7
<1>11. ASSUME NEW x \in ENTITY, EnterGame(x) PROVE G
  <2>1. /\ kind' = [kind EXCEPT ![x] = "owned"] /\ owner' = [owner EXCEPT ![x] = uid[x]]
        /\ UNCHANGED <<alive, client, uid, pending>> /\ x \in alive
    BY <1>11 DEF EnterGame, invites
  <2>2. InvitersPlay'
    BY <1>2, <1>3, <2>1 DEF InvitersPlay, InGame
  <2>3. QED
    BY <1>2, <1>3, <2>1, <2>2 DEF UidsDistinct, ClientsOwn, UnbornIsClean, NobodyInvitesItself
<1>12. QED
  BY <1>1, <1>4, <1>5, <1>6, <1>7, <1>8, <1>9, <1>10, <1>11 DEF Next
-----------------------------------------------------------------------------
(* Nothing has happened that upsets the bookkeeping.                       *)
Regular == irregular \subseteq {"invites out"}

WhenRegular == Regular => OwnersPlay /\ Sound(Now, alive)

LEMMA IntactInit == Init => WhenRegular
<1>1. SUFFICES ASSUME Init PROVE OwnersPlay /\ Sound(Now, alive)
  BY DEF WhenRegular
<1>2. PICK cast \in Casts :
        LET players == {e \in ENTITY : cast[e] = "player"}
            born    == {e \in ENTITY : cast[e] # "unborn"}
        IN  /\ alive = born
            /\ uid = [e \in ENTITY |-> IF e \in born THEN e ELSE Nobody]
            /\ kind = [e \in ENTITY |-> IF e \in players THEN "owned"
                                       ELSE IF e \in born THEN cast[e] ELSE "none"]
            /\ owner = [e \in ENTITY |-> IF e \in players THEN e ELSE Nobody]
            /\ groups = [e \in ENTITY |-> IF cast[e] = "npc" THEN NpcGroup ELSE NoGroup]
  BY <1>1 DEF Init
<1>3. cast \in [ENTITY -> {"player", "npc", "wild", "unborn"}]
  BY GroupsAssumption DEF GroupsAssumption
<1>4. \A e \in alive : ~IsPet(e)
  BY <1>2, <1>3 DEF IsPet
<1>5. \A e \in alive : groups[e] \notin GROUP
  BY <1>2 DEF GROUP, NoGroup, NpcGroup
<1>6. KindsFit(Now, alive)
  BY <1>2, <1>3 DEF KindsFit, Now, NoGroup, NpcGroup
<1>7. QED
  BY <1>4, <1>5, <1>6 DEF OwnersPlay, Sound, AllFine, PetsFollow, Now

(* The manager has become v, which is sound for the entities that are left.*)
LEMMA SoundBecomes ==
    ASSUME NEW v, NEW A, Sound(v, A), Becomes(v), alive' = A,
           \A e \in A : kind'[e] = kind[e] /\ owner'[e] = owner[e] /\ uid'[e] = uid[e]
    PROVE  Sound(Now, alive)'
<1>1. groups' = v.groups /\ slab' = v.slab
  BY DEF Becomes
<1>2. \A e \in A : IsPet(e)' <=> IsPet(e)
  BY DEF IsPet
<1>3. ASSUME NEW e \in A, v.groups[e] \in GROUP
      PROVE  Fine(Now, alive, v.groups[e])'
  <2>1. PICK h : h = v.groups[e]
    OBVIOUS
  <2>2. CountedIn(Now, alive, h)' = CountedIn(v, A, h)
    BY <1>1, <1>2 DEF CountedIn, Now
  <2>3. Fine(v, A, h)
    BY <1>3, <2>1 DEF Sound, AllFine
  <2>4. Fine(Now, alive, h)'
    BY <1>1, <2>2, <2>3 DEF Fine, Now
  <2>5. QED
    BY <2>1, <2>4
<1>4. AllFine(Now, alive)'
  BY <1>1, <1>3 DEF AllFine, Now, GROUP
<1>5. PetsFollow(Now, alive)'
  BY <1>1, <1>2 DEF Sound, PetsFollow, Now, GROUP
<1>6. KindsFit(Now, alive)'
  BY <1>1 DEF Sound, KindsFit, Now, NoGroup, NpcGroup
<1>7. QED
  BY <1>4, <1>5, <1>6 DEF Sound

(* A handler that only moves entities between groups.                      *)
LEMMA SoundHandled ==
    ASSUME OwnersPlay, UNCHANGED bodies, NEW STATE v, Sound(v, alive), Becomes(v)
    PROVE  OwnersPlay' /\ Sound(Now, alive)'
<1>1. PICK w : w = v
  OBVIOUS
<1>2. PICK A : A = alive
  OBVIOUS
<1>3. Sound(w, A) /\ Becomes(w)
  BY <1>1, <1>2
<1>4. /\ alive' = A
      /\ \A e \in A : kind'[e] = kind[e] /\ owner'[e] = owner[e] /\ uid'[e] = uid[e]
  BY <1>2 DEF bodies
<1>5. Sound(Now, alive)'
  BY <1>3, <1>4, SoundBecomes
<1>6. OwnersPlay'
  BY DEF bodies, OwnersPlay, IsPet
<1>7. QED
  BY <1>5, <1>6

(* Players and the NPCs who accept are no pets.                            *)
LEMMA PlayersAreNoPets ==
    ASSUME ClientsOwn, NEW e, InGame(e)
    PROVE  ~IsPet(e) /\ kind[e] = "owned" /\ e \in alive
BY DEF ClientsOwn, InGame, IsPet

LEMMA AcceptIntact ==
    ASSUME Cast, OwnersPlay, Sound(Now, alive), NEW y \in ENTITY, Accept(y), Regular'
    PROVE  OwnersPlay' /\ Sound(Now, alive)'
<1>1. UNCHANGED bodies /\ y \in alive /\ invite[y] \in ENTITY
  BY DEF Accept, InGame, Cast, TypeOK
<1>2. CASE y \notin pending[invite[y]]
  <2>1. Becomes(Now)
    BY <1>2 DEF Accept, manager, Becomes, Now
  <2>2. QED
    BY <1>1, <2>1, SoundHandled
<1>3. CASE y \in pending[invite[y]]
  <2> DEFINE l == invite[y]
  <2>1. InGame(l) /\ l # y
    BY <1>1, <1>3 DEF Cast, InvitersPlay, NobodyInvitesItself
  <2>2. ~IsPet(l) /\ kind[l] = "owned" /\ l \in alive
    BY <2>1, PlayersAreNoPets DEF Cast
  <2>3. ~IsPet(y) /\ kind[y] \in {"owned", "npc"}
    BY PlayersAreNoPets DEF Accept, Cast, IsPet
  <2>4. Becomes(AddGroupMember(Now, l, y))
        /\ Happens(IF LeavesPetsBehind(l) THEN {"pets left behind"} ELSE {})
    BY <1>3 DEF Accept
  <2>5. ~LeavesPetsBehind(l)
    BY <2>4 DEF Happens, Regular
  <2>6. Pets(l) = {} \/ Leads(Now, l) \/ Now.groups[l] = NoGroup
    BY <2>5 DEF LeavesPetsBehind, Now
  <2>7. Typed(Now) /\ People
    BY TypeParts DEF Cast, People, TypeOK
  <2> HIDE DEF l
  <2>8. Sound(AddGroupMember(Now, l, y), alive)
    BY <1>1, <2>1, <2>2, <2>3, <2>6, <2>7, AddSound
  <2>9. QED
    BY <1>1, <2>4, <2>8, SoundHandled
<1>4. QED
  BY <1>2, <1>3

LEMMA LeaveIntact ==
    ASSUME Cast, OwnersPlay, Sound(Now, alive), NEW y \in alive, ~IsPet(y),
           UNCHANGED bodies, Becomes(LeaveGroup(Now, y))
    PROVE  OwnersPlay' /\ Sound(Now, alive)'
<1>1. Typed(Now) /\ People
  BY TypeParts DEF Cast, People, TypeOK
<1>2. Sound(LeaveGroup(Now, y), alive)
  BY <1>1, LeaveParts
<1>3. QED
  BY <1>2, SoundHandled

LEMMA AssignIntact ==
    ASSUME Cast, OwnersPlay, Sound(Now, alive), NEW x \in ENTITY, NEW y \in ENTITY,
           AssignLeader(x, y), Regular'
    PROVE  OwnersPlay' /\ Sound(Now, alive)'
<1> DEFINE g == groups[y]
           w == [groups |-> groups, slab |-> [slab EXCEPT ![g].leader = y]]
<1>1. /\ y \in alive /\ g \in DOMAIN slab /\ slab[g].leader = x
      /\ groups' = groups /\ slab' = [slab EXCEPT ![g].leader = y] /\ UNCHANGED bodies
      /\ Happens((IF IsPet(y) THEN {"pet leads"} ELSE {}) \cup
                 (IF y # x /\ pending[y] # {} THEN {"invites out"} ELSE {}))
  BY DEF AssignLeader, LedBy
<1>2. ~IsPet(y)
  BY <1>1 DEF Happens, Regular
<1>3. Typed(Now) /\ slab[g] \in ENTRY /\ g \in GROUP
  BY <1>1, TypeParts DEF Cast, Typed, Now
<1>4. Fine(Now, alive, g)
  BY <1>1, <1>3 DEF Sound, AllFine, Now
<1> HIDE DEF g
<1>5. /\ w.groups = groups /\ DOMAIN w.slab = DOMAIN slab
      /\ w.slab[g].leader = y /\ w.slab[g].num_members = slab[g].num_members
      /\ \A h \in DOMAIN slab \ {g} : w.slab[h] = slab[h]
  BY <1>1, <1>3 DEF ENTRY
<1>6. Becomes(w)
  BY <1>1 DEF Becomes
<1> HIDE DEF w
<1>7. \A h : CountedIn(w, alive, h) = CountedIn(Now, alive, h)
  BY <1>5 DEF CountedIn, Now
<1>8. ASSUME NEW e \in alive, w.groups[e] \in GROUP
      PROVE  Fine(w, alive, w.groups[e])
  <2> DEFINE h == w.groups[e]
  <2>1. Fine(Now, alive, h)
    BY <1>5, <1>8 DEF Sound, AllFine, Now
  <2>2. CASE h # g
    <3>1. h \in DOMAIN w.slab /\ w.slab[h] = Now.slab[h]
      BY <1>5, <2>1, <2>2 DEF Fine, Now
    <3> HIDE DEF h
    <3>2. \A f \in alive : Now.groups[f] = h <=> w.groups[f] = h
      BY <1>5 DEF Now
    <3>3. Fine(w, alive, h)
      BY <2>1, <3>1, <3>2, FineKept
    <3>4. QED
      BY <3>3 DEF h
  <2>3. CASE h = g
    <3>1. y \in CountedIn(w, alive, g)
      BY <1>1, <1>2, <1>5 DEF CountedIn, g
    <3>2. w.slab[g].num_members = Cardinality(CountedIn(w, alive, g)) /\ g \in DOMAIN w.slab
      BY <1>4, <1>5, <1>7 DEF Fine, Now
    <3>3. \E f \in alive : w.groups[f] = g /\ f # y
      BY <1>1, <1>4, <1>5 DEF Fine, Now, CountedIn
    <3>4. Fine(w, alive, g)
      BY <1>5, <3>1, <3>2, <3>3 DEF Fine
    <3>5. QED
      BY <2>3, <3>4
  <2>4. QED
    BY <2>2, <2>3
<1>9. PetsFollow(w, alive) /\ KindsFit(w, alive)
  BY <1>5 DEF Sound, PetsFollow, KindsFit, Now
<1>10. Sound(w, alive)
  BY <1>8, <1>9 DEF Sound, AllFine
<1>11. QED
  BY <1>1, <1>6, <1>10, SoundHandled

LEMMA DeleteIntact ==
    ASSUME Cast, OwnersPlay, Sound(Now, alive), NEW e \in ENTITY, Delete(e)
    PROVE  OwnersPlay' /\ Sound(Now, alive)'
<1> DEFINE left == RemoveFromGroup(Now, e, TRUE)
           v == Put(left, {e}, NoGroup)
<1>1. /\ e \in alive /\ alive' = alive \ {e} /\ uid' = uid
      /\ kind' = [kind EXCEPT ![e] = "none"] /\ owner' = [owner EXCEPT ![e] = Nobody]
      /\ Becomes(v)
  BY DEF Delete
<1>2. Typed(Now) /\ People /\ NoGroup \in MEMBERSHIP
  BY TypeParts DEF Cast, People, TypeOK, MEMBERSHIP
<1>3. alive \subseteq ENTITY /\ IsFiniteSet(alive)
  BY <1>2 DEF People
<1>4. Typed(left)
  BY <1>2, <1>3, RemoveTyped
<1>5. Sound(left, alive \ {e})
  <2>1. Left(e, TRUE) = alive \ {e}
    BY DEF Left
  <2>2. Sound(left, Left(e, TRUE))
    BY <1>1, <1>2, RemoveSound
  <2>3. QED
    BY <2>1, <2>2
<1> HIDE DEF left
<1>6. v.slab = left.slab /\ \A f \in alive \ {e} : v.groups[f] = left.groups[f]
  <2>1. /\ v.slab = left.slab
        /\ v.groups = [f \in ENTITY |-> IF f \in {e} THEN NoGroup ELSE left.groups[f]]
    BY <1>2, <1>4, PutFacts
  <2>2. QED
    BY <1>3, <2>1
<1> HIDE DEF v
<1>7. Sound(v, alive \ {e})
  <2>1. ASSUME NEW f \in alive \ {e}, v.groups[f] \in GROUP
        PROVE  Fine(v, alive \ {e}, v.groups[f])
    <3> DEFINE h == left.groups[f]
               A == alive \ {e}
    <3>1. Fine(left, A, h) /\ v.groups[f] = h /\ h \in DOMAIN left.slab
      BY <1>5, <1>6, <2>1 DEF Sound, AllFine, Fine
    <3> HIDE DEF h
    <3>2. \A d \in A : left.groups[d] = h <=> v.groups[d] = h
      BY <1>6
    <3> HIDE DEF A
    <3>3. Fine(v, A, h)
      BY <1>6, <3>1, <3>2, FineKept
    <3>4. QED
      BY <3>1, <3>3 DEF A
  <2>2. QED
    BY <1>5, <1>6, <2>1 DEF Sound, AllFine, PetsFollow, KindsFit
<1>8. Sound(Now, alive)'
  <2>1. PICK w, A : w = v /\ A = alive \ {e}
    OBVIOUS
  <2>2. Sound(w, A) /\ Becomes(w) /\ alive' = A
    BY <1>1, <1>7, <2>1
  <2>3. \A f \in A : kind'[f] = kind[f] /\ owner'[f] = owner[f] /\ uid'[f] = uid[f]
    BY <1>1, <2>1 DEF Cast, TypeOK
  <2>4. QED
    BY <2>2, <2>3, SoundBecomes
<1>9. OwnersPlay'
  BY <1>1 DEF OwnersPlay, IsPet, Cast, TypeOK
<1>10. QED
  BY <1>8, <1>9

(* A group stays fine in a step that does not touch it.                    *)
LEMMA FineUntouched ==
    ASSUME NEW h, Fine(Now, alive, h),
           h \in DOMAIN slab', slab'[h] = slab[h],
           \A e \in alive : groups[e] = h =>
               e \in alive' /\ groups'[e] = h /\ (IsPet(e)' <=> IsPet(e)),
           \A e \in alive' : groups'[e] = h => e \in alive /\ groups[e] = h
    PROVE  Fine(Now, alive, h)'
<1>1. CountedIn(Now, alive, h)' = CountedIn(Now, alive, h)
  BY DEF CountedIn, Now
<1>2. QED
  BY <1>1 DEF Fine, Now

(* It is enough to look at the groups by name.                             *)
LEMMA AllFineNext ==
    ASSUME \A h \in GROUP : \A e \in alive' : groups'[e] = h => Fine(Now, alive, h)'
    PROVE  AllFine(Now, alive)'
BY DEF AllFine, Fine, CountedIn, Now, GROUP

LEMMA ExitIntact ==
    ASSUME Cast, OwnersPlay, Sound(Now, alive), NEW x \in ENTITY, NEW n \in ENTITY,
           ExitIngame(x, n), Regular'
    PROVE  OwnersPlay' /\ Sound(Now, alive)'
<1>1. /\ alive' = (alive \ {x}) \cup {n}
      /\ uid' = [uid EXCEPT ![n] = uid[x]]
      /\ kind' = [kind EXCEPT ![x] = "none"] /\ owner' = [owner EXCEPT ![x] = Nobody]
      /\ groups' = [groups EXCEPT ![n] = groups[x], ![x] = NoGroup]
      /\ slab' = IF Leads(Now, x) THEN [slab EXCEPT ![groups[x]].leader = n] ELSE slab
      /\ uid[n] = Nobody /\ x \in alive
      /\ Happens(IF groups[x] # NoGroup THEN {"absent member"} ELSE {})
  BY DEF ExitIngame, InGame
<1>2. groups[x] = NoGroup
  BY <1>1 DEF Happens, Regular
<1>3. NoGroup \notin GROUP /\ NpcGroup \notin GROUP /\ NoGroup # NpcGroup
  BY DEF NoGroup, NpcGroup, GROUP
<1>4. /\ alive \subseteq ENTITY
      /\ uid \in [ENTITY -> ENTITY \cup {Nobody}] /\ owner \in [ENTITY -> ENTITY \cup {Nobody}]
      /\ kind \in [ENTITY -> {"owned", "npc", "wild", "none"}]
      /\ groups \in [ENTITY -> MEMBERSHIP] /\ DOMAIN slab \subseteq GROUP
  BY DEF Cast, TypeOK, MEMBERSHIP
<1>5. n \notin alive /\ n # x /\ kind[n] = "none" /\ \A e \in alive : uid[e] # Nobody
  BY <1>1, <1>4, GroupsAssumption DEF UnbornIsClean, Cast, IInv, UnbornIsUnknown, GroupsAssumption
<1>6. slab' = slab
  BY <1>1, <1>2, <1>3, <1>4 DEF Leads, Now
<1>7. /\ groups'[n] = NoGroup
      /\ \A e \in alive \ {x} : groups'[e] = groups[e]
  BY <1>1, <1>2, <1>4, <1>5
<1>8. \A e \in alive \ {x} : (IsPet(e)' <=> IsPet(e)) /\ uid'[e] = uid[e]
                             /\ owner'[e] = owner[e] /\ kind'[e] = kind[e]
  BY <1>1, <1>4, <1>5 DEF IsPet
<1>9. ~IsPet(n)' /\ kind'[n] = "none" /\ uid'[n] = uid[x]
  BY <1>1, <1>4, <1>5 DEF IsPet
<1>10. \A p \in alive : IsPet(p) => owner[p] # uid[x]
  BY <1>1, <1>2, <1>3 DEF Sound, PetsFollow, Now
<1>11. ASSUME NEW p \in alive', NEW o \in alive', IsPet(p)', owner'[p] = uid'[o]
       PROVE  /\ p \in alive \ {x} /\ o \in alive \ {x} /\ IsPet(p) /\ owner[p] = uid[o]
              /\ kind'[o] = kind[o] /\ owner'[o] = owner[o] /\ uid'[o] = uid[o]
  <2>1. p \in alive \ {x} /\ IsPet(p)
    BY <1>1, <1>8, <1>9, <1>11
  <2>2. o # n
    BY <1>8, <1>9, <1>10, <1>11, <2>1
  <2>3. o \in alive \ {x}
    BY <1>1, <2>2
  <2>4. QED
    BY <1>8, <1>11, <2>1, <2>3
<1>12. OwnersPlay'
  BY <1>11 DEF OwnersPlay
<1>13. ASSUME NEW h \in GROUP, NEW e \in alive', groups'[e] = h
       PROVE  Fine(Now, alive, h)'
  <2>2. e \in alive \ {x} /\ groups[e] = h /\ h \in GROUP
    BY <1>1, <1>3, <1>7, <1>13
  <2>3. Fine(Now, alive, h) /\ h \in DOMAIN slab'
    BY <1>6, <2>2 DEF Sound, AllFine, Fine, Now
  <2>4. \A f \in alive : groups[f] = h =>
            f \in alive' /\ groups'[f] = h /\ (IsPet(f)' <=> IsPet(f))
    BY <1>1, <1>2, <1>3, <1>7, <1>8, <2>2
  <2>5. \A f \in alive' : groups'[f] = h => f \in alive /\ groups[f] = h
    BY <1>1, <1>3, <1>7, <2>2
  <2>6. QED
    BY <1>6, <2>3, <2>4, <2>5, FineUntouched
<1>14. AllFine(Now, alive)'
  BY <1>13, AllFineNext
<1>15. PetsFollow(Now, alive)'
  BY <1>7, <1>11 DEF Sound, PetsFollow, Now, GROUP
<1>16. KindsFit(Now, alive)'
  BY <1>1, <1>3, <1>7, <1>8, <1>9 DEF Sound, KindsFit, Now, NoGroup, NpcGroup
<1>17. QED
  BY <1>12, <1>14, <1>15, <1>16 DEF Sound

LEMMA EnterIntact ==
    ASSUME Cast, OwnersPlay, Sound(Now, alive), NEW x \in ENTITY, EnterGame(x)
    PROVE  OwnersPlay' /\ Sound(Now, alive)'
<1>1. /\ kind' = [kind EXCEPT ![x] = "owned"] /\ owner' = [owner EXCEPT ![x] = uid[x]]
      /\ kind[x] = "none" /\ x \in alive
      /\ UNCHANGED <<alive, uid, groups, slab>>
  BY DEF EnterGame, manager
<1>2. /\ alive \subseteq ENTITY
      /\ uid \in [ENTITY -> ENTITY \cup {Nobody}] /\ owner \in [ENTITY -> ENTITY \cup {Nobody}]
      /\ kind \in [ENTITY -> {"owned", "npc", "wild", "none"}]
  BY DEF Cast, TypeOK
<1>3. groups[x] = NoGroup
  BY <1>1 DEF Sound, KindsFit, Now
<1>4. \A e \in alive : IsPet(e)' <=> IsPet(e)
  BY <1>1, <1>2 DEF IsPet
<1>5. \A e \in alive \ {x} : kind'[e] = kind[e] /\ owner'[e] = owner[e]
  BY <1>1, <1>2
<1>6. ~IsPet(x) /\ kind'[x] = "owned" /\ owner'[x] = uid[x]
  BY <1>1, <1>2 DEF IsPet
<1>7. OwnersPlay'
  BY <1>1, <1>4, <1>5, <1>6 DEF OwnersPlay
<1>8. ASSUME NEW e \in alive, groups[e] \in GROUP PROVE Fine(Now, alive, groups[e])'
  <2>1. PICK h : h = groups[e]
    OBVIOUS
  <2>2. Fine(Now, alive, h)
    BY <1>8, <2>1 DEF Sound, AllFine, Now
  <2>3. h \in DOMAIN slab' /\ slab'[h] = slab[h]
    BY <1>1, <2>2 DEF Fine, Now
  <2>4. Fine(Now, alive, h)'
    BY <1>1, <1>4, <2>2, <2>3, FineUntouched
  <2>5. QED
    BY <1>1, <2>1, <2>4
<1>9. AllFine(Now, alive)'
  BY <1>1, <1>8 DEF AllFine, Now, GROUP
<1>10. PetsFollow(Now, alive)'
  BY <1>1, <1>4, <1>5, <1>6 DEF Sound, PetsFollow, Now, GROUP
<1>11. KindsFit(Now, alive)'
  BY <1>1, <1>3, <1>5, <1>6 DEF Sound, KindsFit, Now, NoGroup, NpcGroup
<1>12. QED
  BY <1>7, <1>9, <1>10, <1>11 DEF Sound

(* A tamed animal joins its owner, who founds a group if it has none.      *)
LEMMA TameIntact ==
    ASSUME Cast, OwnersPlay, Sound(Now, alive), NEW x \in ENTITY, NEW y \in ENTITY, Tame(x, y)
    PROVE  OwnersPlay' /\ Sound(Now, alive)'
<1>1. /\ kind' = [kind EXCEPT ![y] = "owned"] /\ owner' = [owner EXCEPT ![y] = uid[x]]
      /\ kind[y] = "wild" /\ y \in alive /\ UNCHANGED <<alive, uid>>
      /\ InGame(x) /\ Becomes(NewPet(Now, y, x))
  BY DEF Tame
<1>2. /\ alive \subseteq ENTITY /\ Typed(Now)
      /\ uid \in [ENTITY -> ENTITY \cup {Nobody}] /\ owner \in [ENTITY -> ENTITY \cup {Nobody}]
      /\ kind \in [ENTITY -> {"owned", "npc", "wild", "none"}]
  BY TypeParts DEF Cast, TypeOK
<1>3. NoGroup \notin GROUP /\ NpcGroup \notin GROUP /\ NoGroup # NpcGroup
  BY DEF NoGroup, NpcGroup, GROUP
<1>4. x \in alive /\ x # y /\ kind[x] = "owned" /\ owner[x] = uid[x] /\ ~IsPet(x) /\ uid[x] # uid[y]
  BY <1>1 DEF InGame, Cast, ClientsOwn, UidsDistinct, IsPet
<1>5. groups[y] = NoGroup /\ groups[x] # NpcGroup
  BY <1>1, <1>4 DEF Sound, KindsFit, Now
<1>6. /\ \A e \in alive \ {y} : kind'[e] = kind[e] /\ owner'[e] = owner[e]
                                /\ (IsPet(e)' <=> IsPet(e))
      /\ IsPet(y)' /\ owner'[y] = uid[x] /\ kind'[y] = "owned"
  BY <1>1, <1>2, <1>4 DEF IsPet
<1>7. \A p \in alive : IsPet(p) => owner[p] # uid[y]
  BY <1>1 DEF OwnersPlay
<1>8. ASSUME NEW p \in alive, NEW o \in alive, IsPet(p)', owner'[p] = uid[o]
      PROVE  \/ p = y /\ o = x
             \/ p # y /\ o # y /\ IsPet(p) /\ owner[p] = uid[o]
  BY <1>4, <1>6, <1>7, <1>8 DEF Cast, UidsDistinct
<1>9. OwnersPlay'
  <2>1. ASSUME NEW p \in alive, NEW o \in alive, IsPet(p)', owner'[p] = uid[o]
        PROVE  kind'[o] = "owned" /\ owner'[o] = uid[o]
    BY <1>4, <1>6, <1>8, <2>1 DEF OwnersPlay
  <2>2. QED
    BY <1>1, <2>1 DEF OwnersPlay
<1>10. PICK g \in GROUP :
         /\ groups' = [e \in ENTITY |-> IF e = x \/ e = y THEN g ELSE groups[e]]
         /\ g \in DOMAIN slab'
         /\ \A h \in DOMAIN slab : h # g => h \in DOMAIN slab' /\ slab'[h] = slab[h]
         /\ \/ groups[x] = g /\ slab'[g] = slab[g]
            \/ /\ groups[x] = NoGroup /\ g \notin DOMAIN slab
               /\ slab'[g] = [leader |-> x, num_members |-> 1]
  <2>1. CASE groups[x] = NoGroup
    <3>1. NewPet(Now, y, x) = Create(Now, x, 1, {x, y})
      BY <2>1 DEF NewPet, Now
    <3>2. PICK w : w = Create(Now, x, 1, {x, y})
      OBVIOUS
    <3>3. PICK k : Founded(Now, w, x, 1, {x, y}, k)
      BY <1>2, <3>2, CreateFounds
    <3>4. groups' = w.groups /\ slab' = w.slab
      BY <1>1, <3>1, <3>2 DEF Becomes
    <3>5. /\ k \in GROUP /\ k \notin DOMAIN slab /\ k \in DOMAIN w.slab
          /\ w.slab[k] = [leader |-> x, num_members |-> 1]
          /\ \A h \in DOMAIN slab : h \in DOMAIN w.slab /\ w.slab[h] = slab[h]
          /\ w.groups = [e \in ENTITY |-> IF e = x \/ e = y THEN k ELSE groups[e]]
      BY <3>3 DEF Founded, Now
    <3>6. /\ groups' = [e \in ENTITY |-> IF e = x \/ e = y THEN k ELSE groups[e]]
          /\ k \in DOMAIN slab'
          /\ \A h \in DOMAIN slab : h # k => h \in DOMAIN slab' /\ slab'[h] = slab[h]
          /\ groups[x] = NoGroup /\ k \notin DOMAIN slab
          /\ slab'[k] = [leader |-> x, num_members |-> 1]
      <4>1. groups' = [e \in ENTITY |-> IF e = x \/ e = y THEN k ELSE groups[e]]
        BY <3>4, <3>5
      <4>2. k \in DOMAIN slab' /\ slab'[k] = [leader |-> x, num_members |-> 1]
        BY <3>4, <3>5
      <4>3. \A h \in DOMAIN slab : h # k => h \in DOMAIN slab' /\ slab'[h] = slab[h]
        BY <3>4, <3>5
      <4>4. QED
        BY <2>1, <3>5, <4>1, <4>2, <4>3
    <3>7. QED
      BY <3>5, <3>6
  <2>2. CASE groups[x] # NoGroup
    <3>1. NewPet(Now, y, x) = Put(Now, {y}, groups[x])
      BY <2>2 DEF NewPet, Now
    <3>2. groups[x] \in GROUP /\ groups[x] \in DOMAIN slab
      BY <1>2, <1>4, <1>5, <2>2 DEF Typed, Now, MEMBERSHIP, Sound, AllFine, Fine
    <3>3. groups' = [e \in ENTITY |-> IF e = y THEN groups[x] ELSE groups[e]] /\ slab' = slab
      BY <1>1, <3>1 DEF Becomes, Put, Now
    <3>4. groups' = [e \in ENTITY |-> IF e = x \/ e = y THEN groups[x] ELSE groups[e]]
      BY <3>3
    <3>5. QED
      BY <3>2, <3>3, <3>4
  <2>3. QED
    BY <2>1, <2>2
<1>11. \A e \in alive : groups'[e] = IF e = x \/ e = y THEN g ELSE groups[e]
  BY <1>2, <1>10
<1>12. ASSUME NEW h \in GROUP, h # g, NEW e \in alive, groups'[e] = h
       PROVE  Fine(Now, alive, h)'
  <2>1. groups[e] = h /\ e # x /\ e # y
    BY <1>11, <1>12
  <2>2. Fine(Now, alive, h) /\ h \in DOMAIN slab
    BY <1>12, <2>1 DEF Sound, AllFine, Fine, Now
  <2>3. h \in DOMAIN slab' /\ slab'[h] = slab[h]
    BY <1>10, <1>12, <2>2
  <2>4. groups[x] # h /\ groups[y] # h
    BY <1>3, <1>5, <1>10, <1>12
  <2>5. \A f \in alive : groups[f] = h =>
            f \in alive' /\ groups'[f] = h /\ (IsPet(f)' <=> IsPet(f))
    BY <1>1, <1>6, <1>11, <2>4
  <2>6. \A f \in alive' : groups'[f] = h => f \in alive /\ groups[f] = h
    BY <1>1, <1>11, <1>12
  <2>7. QED
    BY <2>2, <2>3, <2>5, <2>6, FineUntouched
<1>13. Fine(Now, alive, g)'
  <2>1. groups'[x] = g /\ groups'[y] = g
    BY <1>1, <1>4, <1>11
  <2>2. CASE groups[x] = g /\ slab'[g] = slab[g]
    <3>1. Fine(Now, alive, g)
      BY <1>4, <1>10, <2>2 DEF Sound, AllFine, Now
    <3>2. groups[y] # g
      BY <1>3, <1>5, <1>10
    <3>3. CountedIn(Now, alive, g)' = CountedIn(Now, alive, g)
      BY <1>1, <1>6, <1>11, <2>2, <3>2 DEF CountedIn, Now
    <3>4. QED
      BY <1>1, <1>10, <1>11, <2>1, <2>2, <3>1, <3>2, <3>3 DEF Fine, Now, CountedIn
  <2>3. CASE /\ groups[x] = NoGroup /\ g \notin DOMAIN slab
             /\ slab'[g] = [leader |-> x, num_members |-> 1]
    <3>1. \A e \in alive : groups[e] # g
      BY <1>10, <2>3 DEF Sound, AllFine, Fine, Now
    <3>2. CountedIn(Now, alive, g)' = {x}
      BY <1>1, <1>4, <1>6, <1>11, <2>1, <3>1 DEF CountedIn, Now
    <3>3. Cardinality({x}) = 1
      BY FS_Singleton
    <3>4. slab'[g].leader = x /\ slab'[g].num_members = 1
      BY <2>3
    <3>5. QED
      BY <1>1, <1>4, <1>10, <2>1, <3>2, <3>3, <3>4 DEF Fine, Now
  <2>4. QED
    BY <1>10, <2>2, <2>3
<1>14. AllFine(Now, alive)'
  <2>1. ASSUME NEW h \in GROUP, NEW e \in alive', groups'[e] = h PROVE Fine(Now, alive, h)'
    BY <1>1, <1>12, <1>13, <2>1
  <2>2. QED
    BY <2>1, AllFineNext
<1>15. PetsFollow(Now, alive)'
  <2>1. ASSUME NEW p \in alive, NEW o \in alive, IsPet(p)', owner'[p] = uid[o]
        PROVE  groups'[p] = groups'[o] /\ groups'[p] \in GROUP
    <3>1. CASE p = y /\ o = x
      BY <1>10, <1>11, <3>1
    <3>2. CASE p # y /\ o # y /\ IsPet(p) /\ owner[p] = uid[o]
      <4>1. groups[p] = groups[o] /\ groups[p] \in GROUP /\ p # x
        BY <1>4, <3>2 DEF Sound, PetsFollow, Now
      <4>2. o = x => groups[x] = g
        BY <1>3, <1>10, <4>1
      <4>3. QED
        BY <1>10, <1>11, <3>2, <4>1, <4>2
    <3>3. QED
      BY <1>8, <2>1, <3>1, <3>2
  <2>2. QED
    BY <1>1, <2>1 DEF PetsFollow, Now, GROUP
<1>16. KindsFit(Now, alive)'
  <2>1. ASSUME NEW e \in alive
        PROVE  /\ kind'[e] \in {"none", "wild"} => groups'[e] = NoGroup
               /\ groups'[e] = NpcGroup => kind'[e] = "npc"
    <3>1. CASE e = x \/ e = y
      BY <1>3, <1>4, <1>6, <1>10, <1>11, <3>1
    <3>2. CASE e # x /\ e # y
      BY <1>6, <1>11, <3>2 DEF Sound, KindsFit, Now
    <3>3. QED
      BY <3>1, <3>2
  <2>2. QED
    BY <1>1, <2>1 DEF KindsFit, Now, NoGroup, NpcGroup
<1>17. QED
  BY <1>9, <1>14, <1>15, <1>16 DEF Sound

(* No handler takes back that something irregular has happened.            *)
LEMMA RegularBefore ==
    ASSUME [Next]_vars
    PROVE  irregular \subseteq irregular'
BY DEF Next, vars, Invite, Kick, AssignLeader, Tame, ExitIngame, Accept, Decline,
       InviteTimeout, Leave, Delete, EnterGame, Happens

LEMMA IntactNext == Cast /\ WhenRegular /\ [Next]_vars => WhenRegular'
<1>1. SUFFICES ASSUME Cast, WhenRegular, [Next]_vars, Regular'
               PROVE  OwnersPlay' /\ Sound(Now, alive)'
  BY DEF WhenRegular
<1>2. OwnersPlay /\ Sound(Now, alive)
  BY <1>1, RegularBefore DEF WhenRegular, Regular
<1>3. ASSUME UNCHANGED bodies, UNCHANGED manager
      PROVE  OwnersPlay' /\ Sound(Now, alive)'
  <2>1. Becomes(Now)
    BY <1>3 DEF Becomes, Now, manager
  <2>2. QED
    BY <1>2, <1>3, <2>1, SoundHandled
<1>4. CASE UNCHANGED vars
  BY <1>3, <1>4 DEF vars
<1>5. ASSUME NEW x \in ENTITY, NEW y \in ENTITY, Invite(x, y)
      PROVE  OwnersPlay' /\ Sound(Now, alive)'
  BY <1>3, <1>5 DEF Invite
<1>6. ASSUME NEW y \in ENTITY, Decline(y) \/ InviteTimeout(y)
      PROVE  OwnersPlay' /\ Sound(Now, alive)'
  BY <1>3, <1>6 DEF Decline, InviteTimeout
<1>7. ASSUME NEW y \in ENTITY, Accept(y) PROVE OwnersPlay' /\ Sound(Now, alive)'
  BY <1>1, <1>2, <1>7, AcceptIntact
<1>8. ASSUME NEW x \in ENTITY, Leave(x) PROVE OwnersPlay' /\ Sound(Now, alive)'
  <2>1. InGame(x) /\ Becomes(LeaveGroup(Now, x)) /\ UNCHANGED bodies
    BY <1>8 DEF Leave
  <2>2. x \in alive /\ ~IsPet(x)
    BY <1>1, <2>1, PlayersAreNoPets DEF Cast
  <2>3. QED
    BY <1>1, <1>2, <2>1, <2>2, LeaveIntact
<1>9. ASSUME NEW x \in ENTITY, NEW y \in ENTITY, Kick(x, y)
      PROVE  OwnersPlay' /\ Sound(Now, alive)'
  <2>1. y \in alive /\ ~IsPet(y) /\ Becomes(LeaveGroup(Now, y)) /\ UNCHANGED bodies
    BY <1>9 DEF Kick
  <2>2. QED
    BY <1>1, <1>2, <2>1, LeaveIntact
<1>10. ASSUME NEW x \in ENTITY, NEW y \in ENTITY, AssignLeader(x, y)
       PROVE  OwnersPlay' /\ Sound(Now, alive)'
  BY <1>1, <1>2, <1>10, AssignIntact
<1>11. ASSUME NEW x \in ENTITY, NEW y \in ENTITY, Tame(x, y)
       PROVE  OwnersPlay' /\ Sound(Now, alive)'
  BY <1>1, <1>2, <1>11, TameIntact
<1>12. ASSUME NEW x \in ENTITY, NEW n \in ENTITY, ExitIngame(x, n)
       PROVE  OwnersPlay' /\ Sound(Now, alive)'
  BY <1>1, <1>2, <1>12, ExitIntact
<1>13. ASSUME NEW e \in ENTITY, Delete(e) PROVE OwnersPlay' /\ Sound(Now, alive)'
  BY <1>1, <1>2, <1>13, DeleteIntact
<1>14. ASSUME NEW x \in ENTITY, EnterGame(x) PROVE OwnersPlay' /\ Sound(Now, alive)'
  BY <1>1, <1>2, <1>14, EnterIntact
<1>15. QED
  BY <1>1, <1>4, <1>5, <1>6, <1>7, <1>8, <1>9, <1>10, <1>11, <1>12, <1>13, <1>14 DEF Next

(* Sound is what a reader of the code would call intact, and more.         *)
LEMMA SoundAgrees ==
    ASSUME Cast, Sound(Now, alive)
    PROVE  GroupsAgree
<1>1. \A g \in LiveGroups : Fine(Now, alive, g)
  BY DEF LiveGroups, Sound, AllFine, Now
<1>2. NoneDangling
  BY <1>1 DEF NoneDangling, Fine, Now
<1>3. ASSUME NEW g \in LiveGroups
      PROVE  LET counted == {e \in Inside(g) : ~IsPet(e)}
             IN  /\ Cardinality(Inside(g)) >= 2
                 /\ slab[g].leader \in counted
                 /\ slab[g].num_members = Cardinality(counted)
  <2> DEFINE counted == {e \in Inside(g) : ~IsPet(e)}
  <2>1. counted = CountedIn(Now, alive, g)
    BY DEF CountedIn, Inside, Now
  <2>2. slab[g].leader \in counted /\ slab[g].num_members = Cardinality(counted)
    BY <1>1, <2>1 DEF Fine, Now
  <2>3. PICK e \in alive : groups[e] = g /\ e # slab[g].leader
    BY <1>1 DEF Fine, Now
  <2>4. PICK l : l = slab[g].leader
    OBVIOUS
  <2>5. {l, e} \in SUBSET Inside(g) /\ l # e
    BY <2>2, <2>3, <2>4 DEF Inside
  <2>6. Cardinality({l, e}) = 2
    <3>1. IsFiniteSet({l}) /\ Cardinality({l}) = 1
      BY FS_Singleton
    <3>2. {l, e} = {l} \cup {e} /\ e \notin {l}
      BY <2>5
    <3>3. Cardinality({l} \cup {e}) = Cardinality({l}) + 1
      BY <3>1, <3>2, FS_AddElement
    <3>4. QED
      BY <3>1, <3>2, <3>3
  <2>7. IsFiniteSet(Inside(g))
    <3>1. Inside(g) \in SUBSET alive /\ IsFiniteSet(alive)
      BY DEF Inside, Cast, TypeOK
    <3>2. QED
      BY <3>1, FS_Subset
  <2>8. Cardinality(Inside(g)) >= 2
    <3>1. Cardinality({l, e}) <= Cardinality(Inside(g))
      BY <2>5, <2>7, FS_Subset
    <3>2. Cardinality(Inside(g)) \in Nat
      BY <2>7, FS_CardinalityType
    <3>3. QED
      BY <2>6, <3>1, <3>2
  <2>9. QED
    BY <2>2, <2>8
<1>4. \A p, o \in alive : IsPet(p) /\ owner[p] = uid[o] => groups[p] = groups[o]
  BY DEF Sound, PetsFollow, Now
<1>5. QED
  BY <1>2, <1>3, <1>4 DEF GroupsAgree

(* Groups stay what the components and the slab say they are: as long as   *)
(* no member leaves the game world, no pet is made leader and no inviter's *)
(* pets are left behind, every Group names an entry of the slab, a group   *)
(* has two entities or more, one of those it counts leads it, num_members  *)
(* is the number of those who are no pets, and pets are where their owner  *)
(* is.                                                                     *)
THEOREM GroupsStayIntact == Spec => []Intact
<1>1. Init => Cast /\ WhenRegular
  BY CastInit, IntactInit
<1>2. Cast /\ WhenRegular /\ [Next]_vars => (Cast /\ WhenRegular)'
  BY CastNext, IntactNext
<1>3. Cast /\ WhenRegular => Intact
  BY SoundAgrees DEF Intact, WhenRegular, Regular
<1>4. QED
  BY <1>1, <1>2, <1>3, PTL DEF Spec
-----------------------------------------------------------------------------
(* The size of the group e leads; limits on groups, and on groups with the *)
(* invites p that are still out.                                           *)
Size(w, e) == IF Leads(w, e) THEN w.slab[w.groups[e]].num_members ELSE 1

Limited(w, max) ==
    \A h \in DOMAIN w.slab : w.slab[h].num_members > 1 => w.slab[h].num_members <= max

Fits(w, p, max) ==
    \A x \in ENTITY : p[x] # {} => Size(w, x) + Cardinality(p[x]) <= max

Limits == Limited(Now, max_group_size) /\ Fits(Now, pending, max_group_size)

WhenLimited == irregular = {} => Limits

(* From w to v no group has grown, but to a group of one.                  *)
Shrinks(w, v) ==
    \A h \in DOMAIN v.slab : v.slab[h].num_members > 1 =>
        /\ h \in DOMAIN w.slab
        /\ v.slab[h].leader = w.slab[h].leader
        /\ v.slab[h].num_members <= w.slab[h].num_members
        /\ \A e \in ENTITY : v.groups[e] = h => w.groups[e] = h

LEMMA Numbers ==
    ASSUME NEW w, Typed(w), NEW h \in DOMAIN w.slab
    PROVE  w.slab[h].num_members \in Nat /\ w.slab[h].leader \in ENTITY /\ h \in GROUP
BY DEF Typed, ENTRY

LEMMA SizeTyped ==
    ASSUME NEW w, Typed(w), NEW e
    PROVE  Size(w, e) \in Nat
BY Numbers DEF Size, Leads

LEMMA ShrinksTransitive ==
    ASSUME NEW w, NEW v, NEW u, Typed(w), Typed(v), Typed(u), Shrinks(w, v), Shrinks(v, u)
    PROVE  Shrinks(w, u)
<1>1. ASSUME NEW h \in DOMAIN u.slab, u.slab[h].num_members > 1
      PROVE  /\ h \in DOMAIN w.slab
             /\ u.slab[h].leader = w.slab[h].leader
             /\ u.slab[h].num_members <= w.slab[h].num_members
             /\ \A e \in ENTITY : u.groups[e] = h => w.groups[e] = h
  <2>1. /\ h \in DOMAIN v.slab
        /\ u.slab[h].leader = v.slab[h].leader
        /\ u.slab[h].num_members <= v.slab[h].num_members
        /\ \A e \in ENTITY : u.groups[e] = h => v.groups[e] = h
    BY <1>1 DEF Shrinks
  <2>2. u.slab[h].num_members \in Nat /\ v.slab[h].num_members \in Nat
    BY <2>1, Numbers
  <2>3. v.slab[h].num_members > 1
    BY <1>1, <2>1, <2>2
  <2>4. /\ h \in DOMAIN w.slab
        /\ v.slab[h].leader = w.slab[h].leader
        /\ v.slab[h].num_members <= w.slab[h].num_members
        /\ \A e \in ENTITY : v.groups[e] = h => w.groups[e] = h
    BY <2>1, <2>3 DEF Shrinks
  <2>5. w.slab[h].num_members \in Nat
    BY <2>4, Numbers
  <2>6. u.slab[h].num_members <= w.slab[h].num_members
    BY <2>1, <2>2, <2>4, <2>5
  <2>7. QED
    BY <2>1, <2>4, <2>6
<1>2. QED
  BY <1>1 DEF Shrinks

(* Who is put into no group, or that of the NPCs, leads none.              *)
LEMMA PutShrinks ==
    ASSUME NEW w, Typed(w), NEW es, NEW g \in {NoGroup, NpcGroup}
    PROVE  Typed(Put(w, es, g)) /\ Shrinks(w, Put(w, es, g))
<1> DEFINE v == Put(w, es, g)
<1>1. g \in MEMBERSHIP /\ g \notin GROUP
  BY DEF MEMBERSHIP, GROUP, NoGroup, NpcGroup
<1>2. /\ Typed(v) /\ v.slab = w.slab
      /\ v.groups = [e \in ENTITY |-> IF e \in es THEN g ELSE w.groups[e]]
  BY <1>1, PutFacts
<1> HIDE DEF v
<1>3. \A h \in DOMAIN v.slab : h # g /\ w.slab[h].num_members \in Nat
  BY <1>1, <1>2, Numbers
<1>4. \A h \in DOMAIN v.slab : \A e \in ENTITY : v.groups[e] = h => w.groups[e] = h
  BY <1>2, <1>3
<1>5. QED
  BY <1>2, <1>3, <1>4 DEF Shrinks, v

LEMMA DisbandShrinks ==
    ASSUME NEW w, NEW v, NEW g, NEW rest, NEW key, Typed(w), Split(w, v, g, rest, key)
    PROVE  Shrinks(w, v)
<1>1. /\ Typed(v)
      /\ key \in [Keepers(rest) -> GROUP \ (DOMAIN w.slab \ {g})]
      /\ v.groups = [e \in ENTITY |-> IF e \notin rest THEN w.groups[e]
                                      ELSE IF Joins(rest, e) = {} THEN NoGroup
                                      ELSE key[CHOOSE o \in Joins(rest, e) : TRUE]]
      /\ DOMAIN v.slab = (DOMAIN w.slab \ {g}) \cup {key[o] : o \in Keepers(rest)}
      /\ \A o \in Keepers(rest) : v.slab[key[o]] = [leader |-> o, num_members |-> 1]
      /\ \A h \in DOMAIN w.slab \ {g} : v.slab[h] = w.slab[h]
  BY DEF Split
<1>2. ASSUME NEW h \in DOMAIN v.slab, v.slab[h].num_members > 1
      PROVE  /\ h \in DOMAIN w.slab
             /\ v.slab[h].leader = w.slab[h].leader
             /\ v.slab[h].num_members <= w.slab[h].num_members
             /\ \A e \in ENTITY : v.groups[e] = h => w.groups[e] = h
  <2>1. \A o \in Keepers(rest) : key[o] # h
    <3>1. ASSUME NEW o \in Keepers(rest) PROVE v.slab[key[o]].num_members = 1
      <4>1. v.slab[key[o]] = [leader |-> o, num_members |-> 1]
        BY <1>1
      <4>2. QED
        BY <4>1
    <3>2. QED
      BY <1>2, <3>1
  <2>2. h \in DOMAIN w.slab \ {g} /\ v.slab[h] = w.slab[h]
    BY <1>1, <2>1
  <2>3. h \in GROUP /\ w.slab[h].num_members \in Nat
    BY <2>2, Numbers
  <2>4. ASSUME NEW e \in ENTITY, v.groups[e] = h PROVE w.groups[e] = h
    <3>1. CASE e \notin rest
      BY <1>1, <2>4, <3>1
    <3>2. CASE e \in rest
      <4>1. Joins(rest, e) # {}
        BY <1>1, <2>3, <2>4, <3>2 DEF NoGroup, GROUP
      <4>2. PICK o \in Joins(rest, e) : v.groups[e] = key[o]
        BY <1>1, <3>2, <4>1
      <4>3. o \in Keepers(rest)
        BY <4>2 DEF Joins
      <4>4. QED
        BY <2>1, <2>4, <4>2, <4>3
    <3>3. QED
      BY <3>1, <3>2
  <2>5. QED
    BY <2>2, <2>3, <2>4
<1>3. QED
  BY <1>2 DEF Shrinks

LEMMA DepartShrinks ==
    ASSUME NEW w, NEW v, NEW m, NEW deleted, NEW k, Typed(w), Departed(w, v, m, deleted, k)
    PROVE  Shrinks(w, v)
<1> DEFINE g == w.groups[m]
           P == {m} \cup Pets(m)
           leader == w.slab[g].leader
<1>1. /\ Typed(v)
      /\ k \in GROUP \ DOMAIN w.slab \/ k = NoGroup
      /\ v.groups = [e \in ENTITY |-> IF Ends(w, m) /\ e = leader THEN NoGroup
                                      ELSE IF e \in P THEN k ELSE w.groups[e]]
      /\ DOMAIN v.slab = (DOMAIN w.slab \cup ({k} \ {NoGroup}))
                             \ (IF Ends(w, m) THEN {g} ELSE {})
      /\ k # NoGroup => v.slab[k] = [leader |-> m, num_members |-> 1]
      /\ \A h \in DOMAIN w.slab \ {g} : v.slab[h] = w.slab[h]
      /\ g \in DOMAIN w.slab /\ ~Ends(w, m) =>
            v.slab[g] = [leader |-> leader, num_members |-> LessOne(m, w.slab[g].num_members)]
  BY DEF Departed
<1> HIDE DEF g, P, leader
<1>2. ASSUME NEW h \in DOMAIN v.slab, v.slab[h].num_members > 1
      PROVE  /\ h \in DOMAIN w.slab
             /\ v.slab[h].leader = w.slab[h].leader
             /\ v.slab[h].num_members <= w.slab[h].num_members
             /\ \A e \in ENTITY : v.groups[e] = h => w.groups[e] = h
  <2>1. h \in GROUP
    BY <1>1, Numbers
  <2>2. NoGroup # h
    BY <2>1 DEF NoGroup, GROUP
  <2>3. h # k
    BY <1>1, <1>2, <2>2
  <2>4. h \in DOMAIN w.slab /\ w.slab[h].num_members \in Nat
    BY <1>1, <2>3, Numbers
  <2>5. \A e \in ENTITY : v.groups[e] = h => w.groups[e] = h
    BY <1>1, <2>2, <2>3
  <2>6. CASE h # g
    BY <1>1, <2>4, <2>5, <2>6
  <2>7. CASE h = g
    <3>1. ~Ends(w, m)
      BY <1>1, <2>7
    <3>2. v.slab[g].leader = leader /\ v.slab[g].num_members = LessOne(m, w.slab[g].num_members)
      BY <1>1, <2>4, <2>7, <3>1
    <3>3. LessOne(m, w.slab[g].num_members) <= w.slab[g].num_members
      BY <2>4, <2>7 DEF LessOne
    <3>4. QED
      BY <2>4, <2>5, <2>7, <3>2, <3>3 DEF leader
  <2>8. QED
    BY <2>6, <2>7
<1>3. QED
  BY <1>2 DEF Shrinks

LEMMA RemoveShrinks ==
    ASSUME NEW w, Typed(w), NEW m \in ENTITY, NEW deleted \in BOOLEAN,
           alive \subseteq ENTITY, IsFiniteSet(alive)
    PROVE  Shrinks(w, RemoveFromGroup(w, m, deleted))
<1> DEFINE v == RemoveFromGroup(w, m, deleted)
<1>1. CASE w.groups[m] = NoGroup
  <2>1. v = w
    BY <1>1 DEF RemoveFromGroup
  <2>2. \A h \in DOMAIN w.slab : w.slab[h].num_members \in Nat
    BY Numbers
  <2>3. QED
    BY <2>1, <2>2 DEF Shrinks
<1>2. CASE w.groups[m] # NoGroup /\ Leads(w, m)
  <2>1. v = Disband(w, m, deleted)
    BY <1>2 DEF RemoveFromGroup
  <2>2. PICK key : Split(w, v, w.groups[m], Rest(w, m, deleted), key)
    BY <2>1, DisbandSplits
  <2>3. QED
    BY <2>2, DisbandShrinks
<1>3. CASE w.groups[m] # NoGroup /\ ~Leads(w, m)
  <2>1. v = Depart(w, m, deleted)
    BY <1>3 DEF RemoveFromGroup
  <2>2. PICK k : Departed(w, v, m, deleted, k)
    BY <1>3, <2>1, DepartDeparts
  <2>3. QED
    BY <2>2, DepartShrinks
<1>4. QED
  BY <1>1, <1>2, <1>3

LEMMA ShrinksReflexive ==
    ASSUME NEW w, Typed(w)
    PROVE  Shrinks(w, w)
<1>1. \A h \in DOMAIN w.slab : w.slab[h].num_members \in Nat
  BY Numbers
<1>2. QED
  BY <1>1 DEF Shrinks

LEMMA LeaveShrinks ==
    ASSUME NEW w, Typed(w), NEW m \in ENTITY, alive \subseteq ENTITY, IsFiniteSet(alive)
    PROVE  Shrinks(w, LeaveGroup(w, m)) /\ Shrinks(w, FreeOfGroup(w, m))
<1> DEFINE left == RemoveFromGroup(w, m, FALSE)
           put == Put(left, {m}, NpcGroup)
<1>1. Typed(left) /\ Shrinks(w, left)
  BY RemoveTyped, RemoveShrinks
<1>2. Shrinks(w, w)
  BY ShrinksReflexive
<1> HIDE DEF left
<1>3. Typed(put) /\ Shrinks(left, put)
  BY <1>1, PutShrinks
<1> HIDE DEF put
<1>4. Shrinks(w, put)
  BY <1>1, <1>3, ShrinksTransitive
<1>5. LeaveGroup(w, m) = w \/ LeaveGroup(w, m) = left \/ LeaveGroup(w, m) = put
  BY DEF LeaveGroup, left, put
<1>6. Shrinks(w, LeaveGroup(w, m))
  BY <1>1, <1>2, <1>4, <1>5
<1>7. QED
  BY <1>2, <1>6 DEF FreeOfGroup

(* What add_group_member does: it takes the group that l leads, or a new   *)
(* one, from a state u in which no group has grown.                        *)
Grown(w, v, u, l, n, g) ==
    /\ Typed(v) /\ Typed(u) /\ Shrinks(w, u) /\ g \in GROUP
    /\ v.groups = [e \in ENTITY |-> IF e = l \/ e = n \/ e \in Pets(n) THEN g ELSE u.groups[e]]
    /\ DOMAIN v.slab = DOMAIN u.slab \cup {g}
    /\ v.slab[g].leader = l
    /\ v.slab[g].num_members = Size(u, l) + 1 \/ v.slab[g].num_members = 2
    /\ \A h \in DOMAIN u.slab \ {g} : v.slab[h] = u.slab[h]

LEMMA AddGrows ==
    ASSUME NEW w, Typed(w), NEW l \in ENTITY, NEW n \in ENTITY,
           alive \subseteq ENTITY, IsFiniteSet(alive)
    PROVE  \E u, g : Grown(w, AddGroupMember(w, l, n), u, l, n, g)
<1> DEFINE free   == FreeOfGroup(w, n)
           alone  == IF free.groups[l] = NoGroup THEN free ELSE LeaveGroup(free, l)
           size   == free.slab[free.groups[l]].num_members + 1
           joined == IF Leads(free, l) THEN Count(free, free.groups[l], size)
                     ELSE Create(alone, l, 2, {l})
           P      == {n} \cup Pets(n)
           v      == AddGroupMember(w, l, n)
<1>1. v = Put(joined, P, joined.groups[l])
  BY DEF AddGroupMember
<1>2. Typed(free) /\ Shrinks(w, free) /\ Typed(v)
  BY LeaveTyped, LeaveShrinks, AddTyped
<1>3. GROUP \subseteq MEMBERSHIP
  BY DEF MEMBERSHIP
<1> HIDE DEF free, v
<1>4. CASE Leads(free, l)
  <2> DEFINE g == free.groups[l]
             j == Count(free, g, size)
  <2>1. g \in DOMAIN free.slab /\ free.slab[g].leader = l /\ size = Size(free, l) + 1
    BY <1>4 DEF Leads, Size
  <2>2. size \in Nat /\ g \in GROUP
    BY <1>2, <2>1, Numbers
  <2> HIDE DEF g, size
  <2>3. /\ Typed(j) /\ j.groups = free.groups /\ DOMAIN j.slab = DOMAIN free.slab
        /\ j.slab[g] = [leader |-> free.slab[g].leader, num_members |-> size]
        /\ \A h \in DOMAIN free.slab \ {g} : j.slab[h] = free.slab[h]
    BY <1>2, <2>1, <2>2, CountFacts
  <2>4. v = Put(j, P, g)
    BY <1>1, <1>4, <2>3 DEF g
  <2> HIDE DEF j, P
  <2>5. /\ v.groups = [e \in ENTITY |-> IF e \in P THEN g ELSE j.groups[e]]
        /\ v.slab = j.slab
    BY <1>3, <2>2, <2>3, <2>4, PutFacts
  <2>6. v.groups = [e \in ENTITY |-> IF e = l \/ e = n \/ e \in Pets(n) THEN g
                                     ELSE free.groups[e]]
    BY <2>3, <2>5 DEF P, g
  <2>7. /\ v.slab[g].leader = l /\ v.slab[g].num_members = Size(free, l) + 1
        /\ DOMAIN v.slab = DOMAIN free.slab \cup {g}
        /\ \A h \in DOMAIN free.slab \ {g} : v.slab[h] = free.slab[h]
    BY <2>1, <2>3, <2>5
  <2>8. Grown(w, v, free, l, n, g)
    BY <1>2, <2>2, <2>6, <2>7 DEF Grown
  <2>9. QED
    BY <2>8 DEF v
<1>5. CASE ~Leads(free, l)
  <2>1. Typed(alone) /\ Shrinks(w, alone)
    <3>1. Typed(LeaveGroup(free, l)) /\ Shrinks(free, LeaveGroup(free, l))
      BY <1>2, LeaveTyped, LeaveShrinks
    <3>2. Shrinks(w, LeaveGroup(free, l))
      BY <1>2, <3>1, ShrinksTransitive
    <3>3. QED
      BY <1>2, <3>1, <3>2
  <2> HIDE DEF alone
  <2> DEFINE j == Create(alone, l, 2, {l})
  <2>2. PICK g : Founded(alone, j, l, 2, {l}, g)
    BY <2>1, CreateFounds
  <2>3. v = Put(j, P, j.groups[l])
    BY <1>1, <1>5
  <2> HIDE DEF j, P
  <2>4. /\ Typed(j) /\ g \in GROUP
        /\ j.groups = [e \in ENTITY |-> IF e \in {l} THEN g ELSE alone.groups[e]]
        /\ DOMAIN j.slab = DOMAIN alone.slab \cup {g}
        /\ j.slab[g] = [leader |-> l, num_members |-> 2]
        /\ \A h \in DOMAIN alone.slab : j.slab[h] = alone.slab[h]
    BY <2>2 DEF Founded
  <2>5. j.groups[l] = g
    BY <2>4
  <2>6. /\ v.groups = [e \in ENTITY |-> IF e \in P THEN g ELSE j.groups[e]]
        /\ v.slab = j.slab
    BY <1>3, <2>3, <2>4, <2>5, PutFacts
  <2>7. v.groups = [e \in ENTITY |-> IF e = l \/ e = n \/ e \in Pets(n) THEN g
                                     ELSE alone.groups[e]]
    BY <2>4, <2>6 DEF P
  <2>8. /\ v.slab[g].leader = l /\ v.slab[g].num_members = 2
        /\ DOMAIN v.slab = DOMAIN alone.slab \cup {g}
        /\ \A h \in DOMAIN alone.slab \ {g} : v.slab[h] = alone.slab[h]
    BY <2>4, <2>6
  <2>9. Grown(w, v, alone, l, n, g)
    BY <1>2, <2>1, <2>4, <2>7, <2>8 DEF Grown
  <2>10. QED
    BY <2>9 DEF v
<1>6. QED
  BY <1>4, <1>5
-----------------------------------------------------------------------------
(* Who leads a sound group is one of those it counts.                      *)
LEMMA SizeOfSound ==
    ASSUME NEW w, Typed(w), Sound(w, alive), IsFiniteSet(alive), NEW e \in alive
    PROVE  Size(w, e) \in Nat \ {0}
<1>1. CASE ~Leads(w, e)
  BY <1>1 DEF Size
<1>2. CASE Leads(w, e)
  <2> DEFINE g == w.groups[e]
             C == CountedIn(w, alive, g)
  <2>1. Fine(w, alive, g)
    BY <1>2, Numbers DEF Leads, Sound, AllFine
  <2>2. w.slab[g].leader \in C /\ w.slab[g].num_members = Cardinality(C)
    BY <2>1 DEF Fine
  <2>3. C \in SUBSET alive
    BY DEF CountedIn
  <2>4. IsFiniteSet(C) /\ Cardinality(C) \in Nat
    BY <2>3, FS_Subset, FS_CardinalityType
  <2>5. Cardinality(C) # 0
    BY <2>2, <2>4, FS_EmptySet
  <2>6. QED
    BY <1>2, <2>2, <2>4, <2>5 DEF Size
<1>3. QED
  BY <1>1, <1>2

LEMMA SizeShrinks ==
    ASSUME NEW w, NEW v, Typed(w), Typed(v), Shrinks(w, v), NEW e \in ENTITY, Size(w, e) >= 1
    PROVE  Size(v, e) <= Size(w, e)
<1>1. Size(w, e) \in Nat /\ Size(v, e) \in Nat
  BY SizeTyped
<1>2. CASE Size(v, e) <= 1
  BY <1>1, <1>2
<1>3. CASE Size(v, e) > 1
  <2> DEFINE h == v.groups[e]
  <2>1. h \in DOMAIN v.slab /\ v.slab[h].leader = e /\ Size(v, e) = v.slab[h].num_members
    BY <1>3 DEF Size, Leads
  <2>2. /\ h \in DOMAIN w.slab /\ w.slab[h].leader = e /\ w.groups[e] = h
        /\ v.slab[h].num_members <= w.slab[h].num_members
    BY <1>3, <2>1 DEF Shrinks
  <2>3. Size(w, e) = w.slab[h].num_members
    BY <2>2 DEF Size, Leads
  <2>4. QED
    BY <2>1, <2>2, <2>3
<1>4. QED
  BY <1>1, <1>2, <1>3

LEMMA LimitedShrinks ==
    ASSUME NEW w, NEW v, Typed(w), Typed(v), Shrinks(w, v), NEW max \in Nat, Limited(w, max)
    PROVE  Limited(v, max)
<1>1. ASSUME NEW h \in DOMAIN v.slab, v.slab[h].num_members > 1
      PROVE  v.slab[h].num_members <= max
  <2>1. h \in DOMAIN w.slab /\ v.slab[h].num_members <= w.slab[h].num_members
    BY <1>1 DEF Shrinks
  <2>2. v.slab[h].num_members \in Nat /\ w.slab[h].num_members \in Nat
    BY <2>1, Numbers
  <2>3. w.slab[h].num_members > 1
    BY <1>1, <2>1, <2>2
  <2>4. w.slab[h].num_members <= max
    BY <2>1, <2>3 DEF Limited
  <2>5. QED
    BY <2>1, <2>2, <2>4
<1>2. QED
  BY <1>1 DEF Limited

(* The facts about the invites and the limit that the steps need.          *)
Inviting(w, p, max) ==
    /\ max \in Nat
    /\ p \in [ENTITY -> SUBSET ENTITY]
    /\ \A x \in ENTITY : IsFiniteSet(p[x])
    /\ \A x \in ENTITY : p[x] # {} => Size(w, x) \in Nat \ {0}

LEMMA FitsShrinks ==
    ASSUME NEW w, NEW v, NEW p, NEW q, NEW max, Typed(w), Typed(v), Shrinks(w, v),
           Inviting(w, p, max), Fits(w, p, max),
           \A x \in ENTITY : q[x] \subseteq p[x]
    PROVE  Fits(v, q, max)
<1>1. ASSUME NEW x \in ENTITY, q[x] # {} PROVE Size(v, x) + Cardinality(q[x]) <= max
  <2>1. p[x] # {} /\ IsFiniteSet(p[x]) /\ q[x] \in SUBSET p[x]
    BY <1>1 DEF Inviting
  <2>2. /\ IsFiniteSet(q[x]) /\ Cardinality(q[x]) <= Cardinality(p[x])
        /\ Cardinality(q[x]) \in Nat /\ Cardinality(p[x]) \in Nat
    BY <2>1, FS_Subset, FS_CardinalityType
  <2>3. Size(w, x) \in Nat \ {0} /\ Size(v, x) \in Nat
    BY <2>1, SizeTyped DEF Inviting
  <2>4. Size(v, x) <= Size(w, x)
    BY <2>3, SizeShrinks
  <2>5. Size(w, x) + Cardinality(p[x]) <= max /\ max \in Nat
    BY <2>1 DEF Fits, Inviting
  <2>6. QED
    BY <2>2, <2>3, <2>4, <2>5
<1>2. QED
  BY <1>1 DEF Fits

(* An invite that is accepted takes the place that was kept for it.        *)
LEMMA GrownFits ==
    ASSUME NEW w, NEW v, NEW u, NEW l \in ENTITY, NEW n \in ENTITY, NEW g, NEW p, NEW q, NEW max,
           Typed(w), Grown(w, v, u, l, n, g),
           Inviting(w, p, max), Limited(w, max), Fits(w, p, max), n \in p[l],
           q[l] = p[l] \ {n}, \A x \in ENTITY \ {l} : q[x] = p[x]
    PROVE  Limited(v, max) /\ Fits(v, q, max)
<1>1. /\ Typed(v) /\ Typed(u) /\ Shrinks(w, u)
      /\ v.groups = [e \in ENTITY |-> IF e = l \/ e = n \/ e \in Pets(n) THEN g ELSE u.groups[e]]
      /\ DOMAIN v.slab = DOMAIN u.slab \cup {g}
      /\ v.slab[g].leader = l
      /\ v.slab[g].num_members = Size(u, l) + 1 \/ v.slab[g].num_members = 2
      /\ \A h \in DOMAIN u.slab \ {g} : v.slab[h] = u.slab[h]
  BY DEF Grown
<1>2. max \in Nat /\ p[l] # {} /\ IsFiniteSet(p[l])
      /\ Size(w, l) \in Nat \ {0} /\ Size(w, l) + Cardinality(p[l]) <= max
  BY DEF Inviting, Fits
<1>3. Size(u, l) \in Nat /\ Size(u, l) <= Size(w, l)
  BY <1>1, <1>2, SizeTyped, SizeShrinks
<1>4. Cardinality(q[l]) = Cardinality(p[l]) - 1 /\ Cardinality(p[l]) \in Nat
  <2>1. Cardinality(p[l] \ {n}) = Cardinality(p[l]) - 1
    BY <1>2, FS_RemoveElement
  <2>2. Cardinality(p[l]) \in Nat
    BY <1>2, FS_CardinalityType
  <2>3. QED
    BY <2>1, <2>2
<1>5. Cardinality(q[l]) \in Nat
  <2>1. Cardinality(p[l]) # 0
    BY <1>2, FS_EmptySet
  <2>2. QED
    BY <1>4, <2>1
<1>6. /\ v.slab[g].num_members \in Nat
      /\ v.slab[g].num_members <= Size(w, l) + 1
      /\ v.slab[g].num_members + Cardinality(q[l]) <= max
  BY <1>1, <1>2, <1>3, <1>4, <1>5
<1>7. Limited(v, max)
  <2>1. Limited(u, max)
    BY <1>1, <1>2, LimitedShrinks
  <2>2. ASSUME NEW h \in DOMAIN v.slab, v.slab[h].num_members > 1
        PROVE  v.slab[h].num_members <= max
    <3>1. CASE h = g
      BY <1>2, <1>5, <1>6, <3>1
    <3>2. CASE h # g
      BY <1>1, <2>1, <2>2, <3>2 DEF Limited
    <3>3. QED
      BY <3>1, <3>2
  <2>3. QED
    BY <2>2 DEF Limited
<1>8. ASSUME NEW x \in ENTITY, q[x] # {} PROVE Size(v, x) + Cardinality(q[x]) <= max
  <2>1. CASE x = l
    <3>1. Size(v, l) = v.slab[g].num_members
      BY <1>1 DEF Size, Leads
    <3>2. QED
      BY <1>6, <2>1, <3>1
  <2>2. CASE x # l
    <3>1. q[x] = p[x] /\ p[x] # {} /\ IsFiniteSet(p[x])
      BY <1>8, <2>2 DEF Inviting
    <3>2. Size(w, x) \in Nat \ {0} /\ Size(w, x) + Cardinality(p[x]) <= max
      BY <3>1 DEF Inviting, Fits
    <3>3. Size(u, x) \in Nat /\ Size(v, x) \in Nat /\ Size(u, x) <= Size(w, x)
      BY <1>1, <3>2, SizeTyped, SizeShrinks
    <3>4. Cardinality(p[x]) \in Nat
      BY <3>1, FS_CardinalityType
    <3>5. Size(v, x) <= Size(w, x)
      <4>1. CASE ~Leads(v, x)
        BY <3>2, <4>1 DEF Size
      <4>2. CASE Leads(v, x)
        <5> DEFINE h == v.groups[x]
        <5>1. h \in DOMAIN v.slab /\ v.slab[h].leader = x
          BY <4>2 DEF Leads
        <5>2. h # g
          BY <1>1, <2>2, <5>1
        <5>3. u.groups[x] = h /\ h \in DOMAIN u.slab /\ v.slab[h] = u.slab[h]
          BY <1>1, <5>1, <5>2
        <5>4. Size(v, x) = Size(u, x)
          BY <5>1, <5>3 DEF Size, Leads
        <5>5. QED
          BY <3>3, <5>4
      <4>3. QED
        BY <4>1, <4>2
    <3>6. QED
      BY <1>2, <3>1, <3>2, <3>3, <3>4, <3>5
  <2>3. QED
    BY <2>1, <2>2
<1>9. QED
  BY <1>7, <1>8 DEF Fits
-----------------------------------------------------------------------------
LEMMA LimitsInit == Init => WhenLimited
<1>1. SUFFICES ASSUME Init PROVE Limits
  BY DEF WhenLimited
<1>2. slab = <<>> /\ pending = [e \in ENTITY |-> {}]
  BY <1>1 DEF Init
<1>3. DOMAIN slab = {}
  BY <1>2
<1>4. QED
  BY <1>2, <1>3 DEF Limits, Limited, Fits, Now

(* Only players in the game world have invites out, whose groups are       *)
(* sound.                                                                  *)
LEMMA InvitersFit ==
    ASSUME Cast, Sound(Now, alive)
    PROVE  Typed(Now) /\ Inviting(Now, pending, max_group_size)
<1>1. Typed(Now) /\ IsFiniteSet(alive) /\ InvitersPlay
  BY TypeParts DEF Cast, TypeOK
<1>2. \A x \in ENTITY : pending[x] # {} => x \in alive
  BY <1>1 DEF InvitersPlay, InGame
<1>3. \A x \in ENTITY : pending[x] # {} => Size(Now, x) \in Nat \ {0}
  BY <1>1, <1>2, SizeOfSound
<1>4. QED
  BY <1>1, <1>3, GroupsAssumption DEF Inviting, Cast, TypeOK, GroupsAssumption

(* Limits of the next state, when the manager becomes v.                   *)
LEMMA LimitsBecome ==
    ASSUME NEW v, Becomes(v), NEW p, pending' = p, max_group_size' = max_group_size,
           Limited(v, max_group_size), Fits(v, p, max_group_size)
    PROVE  Limits'
<1>1. groups' = v.groups /\ slab' = v.slab
  BY DEF Becomes
<1>2. PICK max : max = max_group_size
  OBVIOUS
<1>3. Limited(Now, max)'
  BY <1>1, <1>2 DEF Limited, Now
<1>4. Fits(Now, pending, max)'
  BY <1>1, <1>2 DEF Fits, Size, Leads, Now
<1>5. QED
  BY <1>2, <1>3, <1>4 DEF Limits, Limited, Fits

(* A handler in which no group has grown and no invite was sent.           *)
LEMMA LimitsHandled ==
    ASSUME Cast, Sound(Now, alive), Limits, NEW v, Typed(v), Shrinks(Now, v), Becomes(v),
           max_group_size' = max_group_size, NEW p, pending' = p,
           \A x \in ENTITY : p[x] \subseteq pending[x]
    PROVE  Limits'
<1>1. Typed(Now) /\ Inviting(Now, pending, max_group_size) /\ max_group_size \in Nat
  BY InvitersFit DEF Inviting
<1>2. Limited(v, max_group_size)
  BY <1>1, LimitedShrinks DEF Limits
<1>3. Fits(v, p, max_group_size)
  BY <1>1, FitsShrinks DEF Limits
<1>4. QED
  BY <1>2, <1>3, LimitsBecome

LEMMA UntouchedLimits ==
    ASSUME Cast, Sound(Now, alive), Limits, UNCHANGED manager,
           max_group_size' = max_group_size, \A x \in ENTITY : pending'[x] \subseteq pending[x]
    PROVE  Limits'
<1>1. PICK v, p : v = Now /\ p = pending'
  OBVIOUS
<1>2. Typed(v) /\ Becomes(v)
  BY <1>1, InvitersFit DEF Becomes, Now, manager
<1>3. Shrinks(Now, v)
  BY <1>1, <1>2, ShrinksReflexive
<1>4. QED
  BY <1>1, <1>2, <1>3, LimitsHandled

LEMMA InviteLimits ==
    ASSUME Cast, Sound(Now, alive), Limits, NEW x \in ENTITY, NEW y \in ENTITY, Invite(x, y)
    PROVE  Limits'
<1>1. Typed(Now) /\ Inviting(Now, pending, max_group_size)
  BY InvitersFit
<1>2. /\ InviteFits(x) /\ pending' = [pending EXCEPT ![x] = @ \cup {y}]
      /\ UNCHANGED <<bodies, manager>> /\ InGame(x)
  BY DEF Invite
<1>3. PICK p, v : p = pending' /\ v = Now
  OBVIOUS
<1>4. Becomes(v) /\ Limited(v, max_group_size)
  BY <1>2, <1>3 DEF Becomes, Now, manager, Limits
<1>5. ASSUME NEW e \in ENTITY, p[e] # {}
      PROVE  Size(Now, e) + Cardinality(p[e]) <= max_group_size
  <2>1. CASE e # x
    BY <1>1, <1>2, <1>3, <1>5, <2>1 DEF Limits, Fits, Inviting
  <2>2. CASE e = x
    <3>1. p[x] = pending[x] \cup {y} /\ IsFiniteSet(pending[x]) /\ max_group_size \in Nat
      BY <1>1, <1>2, <1>3 DEF Inviting
    <3>2. Size(Now, x) + Cardinality(pending[x]) < max_group_size
      BY <1>2 DEF InviteFits, GroupSize, Size, Now
    <3>3. Cardinality(pending[x]) \in Nat /\ Size(Now, x) \in Nat
      BY <1>1, <3>1, FS_CardinalityType, SizeTyped
    <3>4. CASE y \in pending[x]
      <4>1. p[e] = pending[x]
        BY <2>2, <3>1, <3>4
      <4>2. Cardinality(p[e]) = Cardinality(pending[x])
        BY <4>1
      <4>3. QED
        BY <2>2, <3>1, <3>2, <3>3, <4>2
    <3>5. CASE y \notin pending[x]
      <4>1. Cardinality(pending[x] \cup {y}) = Cardinality(pending[x]) + 1
        BY <3>1, <3>5, FS_AddElement
      <4>2. p[e] = pending[x] \cup {y}
        BY <2>2, <3>1
      <4>3. Cardinality(p[e]) = Cardinality(pending[x]) + 1
        BY <4>1, <4>2
      <4>4. QED
        BY <2>2, <3>1, <3>2, <3>3, <4>3
    <3>6. QED
      BY <3>4, <3>5
  <2>3. QED
    BY <2>1, <2>2
<1>6. Fits(v, p, max_group_size)
  BY <1>3, <1>5 DEF Fits
<1>7. max_group_size' = max_group_size /\ pending' = p
  BY <1>2, <1>3 DEF bodies
<1>8. QED
  BY <1>4, <1>6, <1>7, LimitsBecome

LEMMA AcceptLimits ==
    ASSUME Cast, Sound(Now, alive), Limits, NEW y \in ENTITY, Accept(y)
    PROVE  Limits'
<1>1. Withdraw(y) /\ UNCHANGED bodies /\ invite[y] # Nobody
  BY DEF Accept
<1>2. max_group_size' = max_group_size
  BY <1>1 DEF bodies
<1>3. \A x \in ENTITY : pending'[x] \subseteq pending[x]
  BY <1>1, WithdrawShrinks DEF Cast
<1>4. CASE y \notin pending[invite[y]]
  BY <1>2, <1>3, <1>4, UntouchedLimits DEF Accept
<1>5. CASE y \in pending[invite[y]]
  <2>1. PICK l : l = invite[y]
    OBVIOUS
  <2>2. l \in ENTITY /\ y \in pending[l] /\ Becomes(AddGroupMember(Now, l, y))
    BY <1>1, <1>5, <2>1 DEF Accept, Cast, TypeOK
  <2>3. Typed(Now) /\ Inviting(Now, pending, max_group_size)
    BY InvitersFit
  <2>4. PICK v, p : v = AddGroupMember(Now, l, y) /\ p = pending'
    OBVIOUS
  <2>5. alive \subseteq ENTITY /\ IsFiniteSet(alive)
    BY DEF Cast, TypeOK
  <2>6. PICK u, g : Grown(Now, v, u, l, y, g)
    BY <2>2, <2>3, <2>4, <2>5, AddGrows
  <2>7. p[l] = pending[l] \ {y} /\ \A x \in ENTITY \ {l} : p[x] = pending[x]
    BY <1>1, <2>1, <2>2, <2>4 DEF Withdraw
  <2>8. Limited(v, max_group_size) /\ Fits(v, p, max_group_size)
    BY <2>2, <2>3, <2>6, <2>7, GrownFits DEF Limits
  <2>9. QED
    BY <1>2, <2>2, <2>4, <2>8, LimitsBecome
<1>6. QED
  BY <1>4, <1>5

LEMMA LeaveLimits ==
    ASSUME Cast, Sound(Now, alive), Limits, NEW y \in ENTITY, Becomes(LeaveGroup(Now, y)),
           UNCHANGED bodies, UNCHANGED invites
    PROVE  Limits'
<1>1. PICK v, p : v = LeaveGroup(Now, y) /\ p = pending'
  OBVIOUS
<1>2. Typed(Now) /\ alive \subseteq ENTITY /\ IsFiniteSet(alive)
  BY TypeParts DEF Cast, TypeOK
<1>3. Typed(v) /\ Shrinks(Now, v)
  BY <1>1, <1>2, LeaveTyped, LeaveShrinks
<1>4. max_group_size' = max_group_size /\ p = pending /\ Becomes(v) /\ pending' = p
  BY <1>1 DEF bodies, invites
<1>5. QED
  BY <1>3, <1>4, LimitsHandled

LEMMA DeleteLimits ==
    ASSUME Cast, Sound(Now, alive), Limits, NEW e \in ENTITY, Delete(e)
    PROVE  Limits'
<1>1. PICK w, v, p : /\ w = RemoveFromGroup(Now, e, TRUE) /\ v = Put(w, {e}, NoGroup)
                     /\ p = pending'
  OBVIOUS
<1>2. Typed(Now) /\ alive \subseteq ENTITY /\ IsFiniteSet(alive)
  BY TypeParts DEF Cast, TypeOK
<1>3. Typed(w) /\ Shrinks(Now, w)
  BY <1>1, <1>2, RemoveTyped, RemoveShrinks
<1>4. Typed(v) /\ Shrinks(w, v)
  BY <1>1, <1>3, PutShrinks
<1>5. Shrinks(Now, v)
  BY <1>2, <1>3, <1>4, ShrinksTransitive
<1>6. max_group_size' = max_group_size /\ Becomes(v) /\ pending' = p
  BY <1>1 DEF Delete
<1>7. \A x \in ENTITY : p[x] \subseteq pending[x]
  BY <1>1 DEF Delete, Cast, TypeOK
<1>8. QED
  BY <1>4, <1>5, <1>6, <1>7, LimitsHandled

(* Who leaves the game world was in no group: nothing irregular happens.   *)
LEMMA ExitLimits ==
    ASSUME Cast, Sound(Now, alive), Limits, NEW x \in ENTITY, NEW n \in ENTITY,
           ExitIngame(x, n), irregular' = {}
    PROVE  Limits'
<1>1. /\ groups' = [groups EXCEPT ![n] = groups[x], ![x] = NoGroup]
      /\ slab' = IF Leads(Now, x) THEN [slab EXCEPT ![groups[x]].leader = n] ELSE slab
      /\ pending' = [pending EXCEPT ![x] = {}] /\ max_group_size' = max_group_size
      /\ Happens(IF groups[x] # NoGroup THEN {"absent member"} ELSE {})
  BY DEF ExitIngame
<1>2. groups[x] = NoGroup
  BY <1>1 DEF Happens
<1>3. Typed(Now) /\ NoGroup \notin GROUP
  BY InvitersFit DEF NoGroup, GROUP
<1>4. slab' = slab
  BY <1>1, <1>2, <1>3 DEF Leads, Now, Typed
<1>5. PICK v, p : v = Put(Now, {x, n}, NoGroup) /\ p = pending'
  OBVIOUS
<1>6. Typed(v) /\ Shrinks(Now, v)
  BY <1>3, <1>5, PutShrinks
<1>7. v.slab = slab /\ v.groups = [e \in ENTITY |-> IF e \in {x, n} THEN NoGroup ELSE groups[e]]
  BY <1>5 DEF Put, Now
<1>8. groups' = [e \in ENTITY |-> IF e \in {x, n} THEN NoGroup ELSE groups[e]]
  BY <1>1, <1>2, <1>3 DEF Typed, Now
<1>9. Becomes(v)
  BY <1>4, <1>7, <1>8 DEF Becomes
<1>10. \A e \in ENTITY : p[e] \subseteq pending[e]
  BY <1>1, <1>5 DEF Cast, TypeOK
<1>11. QED
  BY <1>1, <1>5, <1>6, <1>9, <1>10, LimitsHandled

LEMMA TameLimits ==
    ASSUME Cast, Sound(Now, alive), Limits, NEW x \in ENTITY, NEW y \in ENTITY, Tame(x, y)
    PROVE  Limits'
<1>1. /\ kind[y] = "wild" /\ Becomes(NewPet(Now, y, x))
      /\ max_group_size' = max_group_size /\ pending' = pending
  BY DEF Tame, invites
<1>2. pending[y] = {}
  BY <1>1 DEF Cast, InvitersPlay, InGame
<1>3. PICK v, p : v = NewPet(Now, y, x) /\ p = pending'
  OBVIOUS
<1>4. Typed(Now)
  BY InvitersFit
<1>5. CASE groups[x] = NoGroup
  <2>1. v = Create(Now, x, 1, {x, y})
    BY <1>3, <1>5 DEF NewPet, Now
  <2>2. PICK k : Founded(Now, v, x, 1, {x, y}, k)
    BY <1>4, <2>1, CreateFounds
  <2>3. /\ Typed(v) /\ k \notin DOMAIN slab
        /\ v.groups = [e \in ENTITY |-> IF e \in {x, y} THEN k ELSE groups[e]]
        /\ DOMAIN v.slab = DOMAIN slab \cup {k}
        /\ v.slab[k].num_members = 1
        /\ \A h \in DOMAIN slab : v.slab[h] = slab[h]
    BY <2>2 DEF Founded, Now
  <2>4. ASSUME NEW h \in DOMAIN v.slab, v.slab[h].num_members > 1
        PROVE  /\ h \in DOMAIN slab /\ v.slab[h].leader = slab[h].leader
               /\ v.slab[h].num_members <= slab[h].num_members
               /\ \A e \in ENTITY : v.groups[e] = h => groups[e] = h
    <3>1. h # k /\ h \in DOMAIN slab /\ v.slab[h] = slab[h]
      BY <2>3, <2>4
    <3>2. v.slab[h].num_members \in Nat
      BY <2>3, Numbers
    <3>3. \A e \in ENTITY : v.groups[e] = h => groups[e] = h
      BY <2>3, <3>1
    <3>4. QED
      BY <3>1, <3>2, <3>3
  <2>5. Shrinks(Now, v)
    BY <2>4 DEF Shrinks, Now
  <2>6. QED
    BY <1>1, <1>3, <2>3, <2>5, LimitsHandled
<1>6. CASE groups[x] # NoGroup
  <2>1. /\ v.slab = slab
        /\ v.groups = [e \in ENTITY |-> IF e \in {y} THEN groups[x] ELSE groups[e]]
    BY <1>3, <1>6 DEF NewPet, Put, Now
  <2>2. Limited(v, max_group_size)
    BY <2>1 DEF Limits, Limited, Now
  <2>3. ASSUME NEW e \in ENTITY, p[e] # {}
        PROVE  Size(v, e) + Cardinality(p[e]) <= max_group_size
    <3>1. p = pending /\ e # y
      BY <1>1, <1>2, <1>3, <2>3
    <3>2. Size(v, e) = Size(Now, e)
      BY <2>1, <3>1 DEF Size, Leads, Now
    <3>3. QED
      BY <2>3, <3>1, <3>2 DEF Limits, Fits
  <2>4. Fits(v, p, max_group_size)
    BY <2>3 DEF Fits
  <2>5. QED
    BY <1>1, <1>3, <2>2, <2>4, LimitsBecome
<1>7. QED
  BY <1>5, <1>6

(* The new leader has no invites out that the size of the group was not    *)
(* counted for.                                                            *)
LEMMA AssignLimits ==
    ASSUME Cast, Sound(Now, alive), Limits, NEW x \in ENTITY, NEW y \in ENTITY,
           AssignLeader(x, y), irregular' = {}
    PROVE  Limits'
<1>1. PICK g, v, p : /\ g = groups[y] /\ p = pending'
                     /\ v = [groups |-> groups, slab |-> [slab EXCEPT ![g].leader = y]]
  OBVIOUS
<1>2. /\ g \in DOMAIN slab /\ slab[g].leader = x
      /\ groups' = groups /\ slab' = [slab EXCEPT ![g].leader = y]
      /\ max_group_size' = max_group_size /\ pending' = pending
      /\ Happens((IF IsPet(y) THEN {"pet leads"} ELSE {}) \cup
                 (IF y # x /\ pending[y] # {} THEN {"invites out"} ELSE {}))
  BY <1>1 DEF AssignLeader, LedBy, bodies, invites
<1>3. y = x \/ pending[y] = {}
  BY <1>2 DEF Happens
<1>4. Typed(Now) /\ slab[g] \in ENTRY
  BY <1>2, InvitersFit DEF Typed, Now
<1>5. Inviting(Now, pending, max_group_size)
  BY InvitersFit
<1>6. /\ v.groups = groups /\ DOMAIN v.slab = DOMAIN slab
      /\ v.slab[g].leader = y /\ v.slab[g].num_members = slab[g].num_members
      /\ \A h \in DOMAIN slab \ {g} : v.slab[h] = slab[h]
  BY <1>1, <1>2, <1>4 DEF ENTRY
<1>7. Becomes(v)
  BY <1>1, <1>2 DEF Becomes
<1>8. Limited(v, max_group_size)
  BY <1>6 DEF Limits, Limited, Now
<1>9. ASSUME NEW e \in ENTITY, p[e] # {}
      PROVE  Size(v, e) + Cardinality(p[e]) <= max_group_size
  <2>1. p = pending /\ (y = x \/ e # y)
    BY <1>1, <1>2, <1>3, <1>9
  <2>2. Size(v, e) = Size(Now, e) \/ Size(v, e) = 1
    <3>1. CASE ~Leads(v, e)
      BY <3>1 DEF Size
    <3>2. CASE Leads(v, e) /\ groups[e] # g
      BY <1>6, <3>2 DEF Size, Leads, Now
    <3>3. CASE Leads(v, e) /\ groups[e] = g
      <4>1. e = y /\ y = x
        BY <1>6, <2>1, <3>3 DEF Leads
      <4>2. QED
        BY <1>2, <1>6, <3>3, <4>1 DEF Size, Leads, Now
    <3>4. QED
      BY <3>1, <3>2, <3>3
  <2>3. /\ Size(Now, e) \in Nat \ {0} /\ Size(Now, e) + Cardinality(p[e]) <= max_group_size
        /\ IsFiniteSet(p[e]) /\ max_group_size \in Nat
    BY <1>5, <1>9, <2>1 DEF Limits, Fits, Inviting
  <2>4. Cardinality(p[e]) \in Nat
    BY <2>3, FS_CardinalityType
  <2>5. QED
    BY <2>2, <2>3, <2>4
<1>10. Fits(v, p, max_group_size)
  BY <1>9 DEF Fits
<1>11. QED
  BY <1>1, <1>2, <1>7, <1>8, <1>10, LimitsBecome

LEMMA LimitsNext == Cast /\ WhenRegular /\ WhenLimited /\ [Next]_vars => WhenLimited'
<1>1. SUFFICES ASSUME Cast, WhenRegular, WhenLimited, [Next]_vars, irregular' = {}
               PROVE  Limits'
  BY DEF WhenLimited
<1>2. irregular = {}
  BY <1>1, RegularBefore
<1>3. Limits /\ Sound(Now, alive)
  BY <1>1, <1>2 DEF WhenRegular, WhenLimited, Regular
<1>4. CASE UNCHANGED vars
  BY <1>1, <1>3, <1>4, UntouchedLimits DEF vars, bodies, invites
<1>5. ASSUME NEW x \in ENTITY, NEW y \in ENTITY, Invite(x, y) PROVE Limits'
  BY <1>1, <1>3, <1>5, InviteLimits
<1>6. ASSUME NEW y \in ENTITY, Decline(y) \/ InviteTimeout(y) PROVE Limits'
  <2>1. Withdraw(y) /\ UNCHANGED manager /\ max_group_size' = max_group_size
    BY <1>6 DEF Decline, InviteTimeout, bodies
  <2>2. \A x \in ENTITY : pending'[x] \subseteq pending[x]
    BY <1>1, <2>1, WithdrawShrinks DEF Cast
  <2>3. QED
    BY <1>1, <1>3, <2>1, <2>2, UntouchedLimits
<1>7. ASSUME NEW y \in ENTITY, Accept(y) PROVE Limits'
  BY <1>1, <1>3, <1>7, AcceptLimits
<1>8. ASSUME NEW x \in ENTITY, Leave(x) PROVE Limits'
  <2>1. Becomes(LeaveGroup(Now, x)) /\ UNCHANGED bodies /\ UNCHANGED invites
    BY <1>8 DEF Leave
  <2>2. QED
    BY <1>1, <1>3, <2>1, LeaveLimits
<1>9. ASSUME NEW x \in ENTITY, NEW y \in ENTITY, Kick(x, y) PROVE Limits'
  <2>1. Becomes(LeaveGroup(Now, y)) /\ UNCHANGED bodies /\ UNCHANGED invites
    BY <1>9 DEF Kick
  <2>2. QED
    BY <1>1, <1>3, <2>1, LeaveLimits
<1>10. ASSUME NEW x \in ENTITY, NEW y \in ENTITY, AssignLeader(x, y) PROVE Limits'
  BY <1>1, <1>3, <1>10, AssignLimits
<1>11. ASSUME NEW x \in ENTITY, NEW y \in ENTITY, Tame(x, y) PROVE Limits'
  BY <1>1, <1>3, <1>11, TameLimits
<1>12. ASSUME NEW x \in ENTITY, NEW n \in ENTITY, ExitIngame(x, n) PROVE Limits'
  BY <1>1, <1>3, <1>12, ExitLimits
<1>13. ASSUME NEW e \in ENTITY, Delete(e) PROVE Limits'
  BY <1>1, <1>3, <1>13, DeleteLimits
<1>14. ASSUME NEW x \in ENTITY, EnterGame(x) PROVE Limits'
  BY <1>1, <1>3, <1>14, UntouchedLimits DEF EnterGame, invites
<1>15. QED
  BY <1>1, <1>4, <1>5, <1>6, <1>7, <1>8, <1>9, <1>10, <1>11, <1>12, <1>13, <1>14 DEF Next

(* No group outgrows max_player_group_size, whoever invites, accepts,      *)
(* leaves and is deleted in whatever order: the invites that are out and   *)
(* the members always fit together, as long as nothing irregular happens.  *)
THEOREM GroupsStayWithinLimit == Spec => []WithinLimit
<1>1. Init => Cast /\ WhenRegular /\ WhenLimited
  BY CastInit, IntactInit, LimitsInit
<1>2. Cast /\ WhenRegular /\ WhenLimited /\ [Next]_vars => (Cast /\ WhenRegular /\ WhenLimited)'
  BY CastNext, IntactNext, LimitsNext
<1>3. Cast /\ WhenRegular /\ WhenLimited => WithinLimit
  BY DEF WhenLimited, Limits, Limited, WithinLimit, Now
<1>4. QED
  BY <1>1, <1>2, <1>3, PTL DEF Spec
=============================================================================
