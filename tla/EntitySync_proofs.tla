-------------------------- MODULE EntitySync_proofs --------------------------
(***************************************************************************)
(* What holds of RegionMap and of the client's copy of the entities, for   *)
(* any number of regions, entities, players and events in a tick.          *)
(*                                                                         *)
(* First the operations of the map: the table of neighbours stays exact,   *)
(* also when removing a region moves the last one into its place, and each *)
(* entity is in one region.  Then its tick, which is made of loops: what   *)
(* each has done after k rounds is shown by the least k for which it fails.*)
(* The events that regions are left with tell where every entity was and   *)
(* is (Settled).                                                           *)
(*                                                                         *)
(* Then the server's tick.  Base is what holds of the world and the map;   *)
(* with Copied it is inductive (Inv): Copied says, for every phase of the  *)
(* tick, what the client has and what it will be told by the events, the   *)
(* trackers and the deletions that have not been sent yet.                 *)
(***************************************************************************)
EXTENDS EntitySync, FiniteSetTheorems, WellFoundedInduction, TLAPS

Key   == Int \X Int
RegionEvent == [what : {"entered", "left"}, id : Nat, key : Key \cup {NoKey}]

RegionSet == [key : Key, bitset : SUBSET Nat, neighbors : [Directions -> Nat], events : Seq(RegionEvent)]
MapSet    == [regions : Seq(RegionSet), tracked : SUBSET Nat]

KeysDiffer(rs) == \A i, j \in DOMAIN rs : rs[i].key = rs[j].key => i = j

(* NeighborsMatch without KeyIndex: a neighbour that is named is beside    *)
(* the region, and where none is named there is none.                      *)
Exact(rs) ==
    \A i \in DOMAIN rs : \A d \in Directions :
        \/ /\ rs[i].neighbors[d] \in DOMAIN rs
           /\ rs[rs[i].neighbors[d]].key = Beside(rs[i].key, d)
        \/ /\ rs[i].neighbors[d] = None
           /\ \A j \in DOMAIN rs : rs[j].key # Beside(rs[i].key, d)

(* What every operation keeps.                                             *)
Sound(m) == m \in MapSet /\ KeysDiffer(m.regions) /\ NeighborsMatch(m)
-----------------------------------------------------------------------------
(* The eight directions of NEIGHBOR_OFFSETS come in opposite pairs.        *)
LEMMA DirectionsPair ==
    ASSUME NEW d \in Directions
    PROVE  Opposite(d) \in Directions /\ Opposite(Opposite(d)) = d
  BY DEF Directions, Opposite

LEMMA OffsetsKnown ==
    ASSUME NEW d \in Directions
    PROVE  /\ Offset(d)[1] \in {-1, 0, 1} /\ Offset(d)[2] \in {-1, 0, 1}
           /\ Offset(d)[1] # 0 \/ Offset(d)[2] # 0
           /\ Offset(Opposite(d))[1] = -Offset(d)[1]
           /\ Offset(Opposite(d))[2] = -Offset(d)[2]
<1> DEFINE table == << <<0, 1>>, <<-1, 1>>, <<-1, 0>>, <<-1, -1>>,
                       <<0, -1>>, <<1, -1>>, <<1, 0>>, <<1, 1>> >>
<1>1. /\ table[1] = <<0, 1>> /\ table[2] = <<-1, 1>> /\ table[3] = <<-1, 0>> /\ table[4] = <<-1, -1>>
      /\ table[5] = <<0, -1>> /\ table[6] = <<1, -1>> /\ table[7] = <<1, 0>> /\ table[8] = <<1, 1>>
  OBVIOUS
<1>2. \A e \in Directions : Offset(e) = table[e + 1]
  BY DEF Offset
<1> HIDE DEF table
<1>3. /\ Offset(0) = <<0, 1>> /\ Offset(1) = <<-1, 1>> /\ Offset(2) = <<-1, 0>> /\ Offset(3) = <<-1, -1>>
      /\ Offset(4) = <<0, -1>> /\ Offset(5) = <<1, -1>> /\ Offset(6) = <<1, 0>> /\ Offset(7) = <<1, 1>>
  BY <1>1, <1>2 DEF Directions
<1>4. d \in {0, 1, 2, 3, 4, 5, 6, 7}
  BY DEF Directions
<1>5. Opposite(d) = IF d < 4 THEN d + 4 ELSE d - 4
  BY <1>4 DEF Opposite
<1> QED BY <1>3, <1>4, <1>5

(* Being beside each other goes both ways, and nothing is beside itself.   *)
LEMMA BesideBack ==
    ASSUME NEW k \in Key, NEW l \in Key, NEW d \in Directions
    PROVE  /\ Beside(k, d) \in Key
           /\ Beside(k, d) # k
           /\ l = Beside(k, d) <=> k = Beside(l, Opposite(d))
           /\ l = Beside(k, Opposite(d)) <=> k = Beside(l, d)
  BY OffsetsKnown DEF Beside, Key

(* A region at a place is found there, by its key.                         *)
LEMMA KeyIndexFinds ==
    ASSUME NEW m \in MapSet, KeysDiffer(m.regions), NEW k
    PROVE  \/ /\ KeyIndex(m, k) \in DOMAIN m.regions
              /\ m.regions[KeyIndex(m, k)].key = k
           \/ /\ KeyIndex(m, k) = None
              /\ \A i \in DOMAIN m.regions : m.regions[i].key # k
<1> DEFINE at == {i \in DOMAIN m.regions : m.regions[i].key = k}
<1>1. CASE at = {}
  BY <1>1 DEF KeyIndex
<1>2. CASE at # {}
  <2>1. (CHOOSE i \in at : TRUE) \in at
    BY <1>2
  <2> QED BY <1>2, <2>1 DEF KeyIndex
<1> QED BY <1>1, <1>2

LEMMA MatchIsExact ==
    ASSUME NEW m \in MapSet, KeysDiffer(m.regions)
    PROVE  NeighborsMatch(m) <=> Exact(m.regions)
<1> DEFINE rs == m.regions
<1>1. None \notin DOMAIN rs
  BY DEF None, MapSet
<1>2. ASSUME NEW i \in DOMAIN rs, NEW d \in Directions
      PROVE  rs[i].neighbors[d] = KeyIndex(m, Beside(rs[i].key, d))
             <=> \/ /\ rs[i].neighbors[d] \in DOMAIN rs
                    /\ rs[rs[i].neighbors[d]].key = Beside(rs[i].key, d)
                 \/ /\ rs[i].neighbors[d] = None
                    /\ \A j \in DOMAIN rs : rs[j].key # Beside(rs[i].key, d)
  BY <1>1, KeyIndexFinds DEF KeysDiffer
<1> QED BY <1>2 DEF NeighborsMatch, Exact
-----------------------------------------------------------------------------
(* What a region is told changes one entry of its table at most.           *)
LEMMA Told ==
    ASSUME NEW rs \in Seq(RegionSet), NEW table \in [Directions -> Nat], NEW value \in Nat
    PROVE  LET new == TellNeighbors(rs, table, value)
           IN  /\ new \in Seq(RegionSet)
               /\ DOMAIN new = DOMAIN rs /\ Len(new) = Len(rs)
               /\ \A i \in DOMAIN rs :
                     /\ new[i].key = rs[i].key
                     /\ new[i].bitset = rs[i].bitset /\ new[i].events = rs[i].events
                     /\ \A d \in Directions :
                           new[i].neighbors[d] =
                               IF table[Opposite(d)] = i THEN value ELSE rs[i].neighbors[d]
<1> DEFINE new == TellNeighbors(rs, table, value)
           other(i) == [d \in Directions |-> IF table[Opposite(d)] = i THEN value ELSE rs[i].neighbors[d]]
<1>1. ASSUME NEW i \in DOMAIN rs
      PROVE  /\ other(i) \in [Directions -> Nat]
             /\ new[i] = [rs[i] EXCEPT !.neighbors = other(i)]
             /\ rs[i] \in RegionSet
  <2>1. rs[i] \in RegionSet
    OBVIOUS
  <2>2. other(i) \in [Directions -> Nat]
    BY <2>1 DEF RegionSet
  <2>3. new[i] = [rs[i] EXCEPT !.neighbors = other(i)]
    BY DEF TellNeighbors
  <2> QED BY <2>1, <2>2, <2>3
<1>2. ASSUME NEW i \in DOMAIN rs
      PROVE  /\ new[i] \in RegionSet
             /\ new[i].key = rs[i].key
             /\ new[i].bitset = rs[i].bitset /\ new[i].events = rs[i].events
             /\ new[i].neighbors = other(i)
  BY <1>1 DEF RegionSet
<1>3. new \in Seq(RegionSet) /\ DOMAIN new = DOMAIN rs /\ Len(new) = Len(rs)
  <2>1. DOMAIN new = 1 .. Len(rs)
    BY DEF TellNeighbors
  <2>2. new = [i \in 1 .. Len(rs) |-> new[i]]
    BY DEF TellNeighbors
  <2>3. DOMAIN rs = 1 .. Len(rs) /\ Len(rs) \in Nat
    OBVIOUS
  <2> HIDE DEF new
  <2>4. new \in [1 .. Len(rs) -> RegionSet]
    BY <1>2, <2>2, <2>3
  <2> QED BY <2>1, <2>3, <2>4
<1> HIDE DEF new
<1>4. ASSUME NEW i \in DOMAIN rs, NEW d \in Directions
      PROVE  new[i].neighbors[d] = IF table[Opposite(d)] = i THEN value ELSE rs[i].neighbors[d]
  <2>1. new[i].neighbors = other(i)
    BY <1>2
  <2> QED BY <2>1
<1> QED BY <1>2, <1>3, <1>4 DEF new
-----------------------------------------------------------------------------
(* A table for a region with that key, of the places of others in rs.      *)
Located(rs, key, table) ==
    \A d \in Directions :
       \/ table[d] \in DOMAIN rs /\ rs[table[d]].key = Beside(key, d)
       \/ table[d] = None /\ \A i \in DOMAIN rs : rs[i].key # Beside(key, d)

(* Regions rs with one more, ns, whose neighbours have been told.          *)
Grown(rs, ns, key, table, index) ==
    /\ index = Len(rs) + 1 /\ Len(ns) = index
    /\ ns[index].key = key /\ ns[index].neighbors = table
    /\ \A i \in DOMAIN rs :
          /\ ns[i].key = rs[i].key
          /\ \A d \in Directions :
                ns[i].neighbors[d] = IF table[Opposite(d)] = i THEN index ELSE rs[i].neighbors[d]

LEMMA OneMore ==
    ASSUME NEW rs \in Seq(RegionSet), NEW ns \in Seq(RegionSet), NEW key \in Key,
           NEW table \in [Directions -> Nat], NEW index \in Nat,
           KeysDiffer(rs), Exact(rs), \A i \in DOMAIN rs : rs[i].key # key,
           Located(rs, key, table), Grown(rs, ns, key, table, index)
    PROVE  KeysDiffer(ns) /\ Exact(ns)
<1> USE DEF Located, Grown
<1>1. DOMAIN rs = 1 .. Len(rs) /\ DOMAIN ns = 1 .. index /\ Len(rs) \in Nat
  OBVIOUS
<1>2. DOMAIN ns = DOMAIN rs \cup {index} /\ index \notin DOMAIN rs /\ None \notin DOMAIN rs
  BY <1>1 DEF None
<1>3. KeysDiffer(ns)
  BY <1>2 DEF KeysDiffer
<1>4. ASSUME NEW d \in Directions
      PROVE  \/ /\ ns[index].neighbors[d] \in DOMAIN ns
                /\ ns[ns[index].neighbors[d]].key = Beside(ns[index].key, d)
             \/ /\ ns[index].neighbors[d] = None
                /\ \A j \in DOMAIN ns : ns[j].key # Beside(ns[index].key, d)
  <2>1. Beside(key, d) # key
    BY BesideBack
  <2> QED BY <1>2, <2>1
<1>5. ASSUME NEW i \in DOMAIN rs, NEW d \in Directions
      PROVE  \/ /\ ns[i].neighbors[d] \in DOMAIN ns
                /\ ns[ns[i].neighbors[d]].key = Beside(ns[i].key, d)
             \/ /\ ns[i].neighbors[d] = None
                /\ \A j \in DOMAIN ns : ns[j].key # Beside(ns[i].key, d)
  <2>1. rs[i].key \in Key
    <3>1. rs[i] \in RegionSet
      OBVIOUS
    <3> QED BY <3>1 DEF RegionSet
  <2>2. rs[i].key = Beside(key, Opposite(d)) <=> key = Beside(rs[i].key, d)
    BY <2>1, BesideBack
  <2>3. table[Opposite(d)] = i <=> key = Beside(rs[i].key, d)
    BY <1>2, <2>2, DirectionsPair DEF KeysDiffer
  <2>4. CASE table[Opposite(d)] = i
    BY <1>2, <2>3, <2>4
  <2>5. CASE table[Opposite(d)] # i
    BY <1>2, <2>3, <2>5 DEF Exact
  <2> QED BY <2>4, <2>5
<1> QED BY <1>2, <1>3, <1>4, <1>5 DEF Exact

(* insert: a region for a key that has none.                               *)
LEMMA InsertKeeps ==
    ASSUME NEW m, Sound(m), NEW key \in Key, KeyIndex(m, key) = None
    PROVE  LET n == InsertRegion(m, key)
           IN  /\ Sound(n)
               /\ Len(n.regions) = Len(m.regions) + 1
               /\ n.regions[Len(n.regions)].key = key
               /\ n.regions[Len(n.regions)].bitset = {} /\ n.regions[Len(n.regions)].events = <<>>
               /\ \A i \in DOMAIN m.regions : /\ n.regions[i].key = m.regions[i].key
                                               /\ n.regions[i].bitset = m.regions[i].bitset
                                               /\ n.regions[i].events = m.regions[i].events
               /\ n.tracked = m.tracked
<1> DEFINE rs    == m.regions
           index == Len(rs) + 1
           table == [d \in Directions |-> KeyIndex(m, Beside(key, d))]
           told  == TellNeighbors(rs, table, index)
           new   == [key |-> key, bitset |-> {}, neighbors |-> table, events |-> <<>>]
           ns    == Append(told, new)
           n     == InsertRegion(m, key)
<1>1. m \in MapSet /\ rs \in Seq(RegionSet) /\ DOMAIN rs = 1 .. Len(rs) /\ Len(rs) \in Nat
  BY DEF Sound, MapSet
<1>2. /\ KeysDiffer(rs)
      /\ Exact(rs)
      /\ \A i \in DOMAIN rs : rs[i].key # key
  <2>1. None \notin DOMAIN rs
    BY <1>1 DEF None
  <2> QED BY <1>1, <2>1, MatchIsExact, KeyIndexFinds DEF Sound
<1>3. Located(rs, key, table)
  BY <1>1, KeyIndexFinds DEF Sound, Located
<1>4. table \in [Directions -> Nat]
  BY <1>1, <1>3 DEF None, Located
<1>5. n = [m EXCEPT !.regions = ns]
  BY DEF InsertRegion
<1> HIDE DEF table, n
<1>6. new \in RegionSet /\ new.key = key /\ new.neighbors = table /\ new.bitset = {} /\ new.events = <<>>
  BY <1>4 DEF RegionSet
<1>7. /\ told \in Seq(RegionSet) /\ DOMAIN told = DOMAIN rs /\ Len(told) = Len(rs)
      /\ \A i \in DOMAIN rs :
            /\ told[i].key = rs[i].key
            /\ told[i].bitset = rs[i].bitset /\ told[i].events = rs[i].events
            /\ \A d \in Directions :
                  told[i].neighbors[d] = IF table[Opposite(d)] = i THEN index ELSE rs[i].neighbors[d]
  BY <1>1, <1>4, Told
<1> HIDE DEF new, told
<1>8. /\ ns \in Seq(RegionSet)
      /\ Len(ns) = index
      /\ ns[index] = new
      /\ \A i \in DOMAIN rs : ns[i] = told[i]
  BY <1>1, <1>6, <1>7
<1>9. n \in MapSet /\ n.regions = ns /\ n.tracked = m.tracked
  BY <1>1, <1>5, <1>8 DEF MapSet
<1> HIDE DEF ns
<1>10. KeysDiffer(ns) /\ Exact(ns)
  <2>1. index \in Nat
    BY <1>1
  <2>2. Grown(rs, ns, key, table, index)
    BY <1>6, <1>7, <1>8 DEF Grown
  <2> HIDE DEF rs, index
  <2> QED BY <1>1, <1>2, <1>3, <1>4, <1>8, <2>1, <2>2, OneMore
<1>11. NeighborsMatch(n)
  BY <1>9, <1>10, MatchIsExact
<1>12. \A i \in DOMAIN rs : ns[i].key = rs[i].key /\ ns[i].bitset = rs[i].bitset /\ ns[i].events = rs[i].events
  BY <1>7, <1>8
<1> QED BY <1>6, <1>8, <1>9, <1>10, <1>11, <1>12 DEF Sound, n
-----------------------------------------------------------------------------
(* In an exact table two regions name each other, and none names itself.   *)
LEMMA Mutual ==
    ASSUME NEW rs \in Seq(RegionSet), KeysDiffer(rs), Exact(rs),
           NEW i \in DOMAIN rs, NEW j \in DOMAIN rs, NEW d \in Directions
    PROVE  /\ rs[i].neighbors[d] = j <=> rs[j].neighbors[Opposite(d)] = i
           /\ rs[i].neighbors[d] # i
           /\ rs[i].neighbors[d] \in DOMAIN rs \cup {None}
<1>1. rs[i].key \in Key /\ rs[j].key \in Key
  <2>1. rs[i] \in RegionSet /\ rs[j] \in RegionSet
    OBVIOUS
  <2> QED BY <2>1 DEF RegionSet
<1>2. None \notin DOMAIN rs
  BY DEF None
<1>3. rs[i].neighbors[d] = j <=> rs[j].key = Beside(rs[i].key, d)
  BY <1>2 DEF Exact, KeysDiffer
<1>4. rs[j].neighbors[Opposite(d)] = i <=> rs[i].key = Beside(rs[j].key, Opposite(d))
  BY <1>2, DirectionsPair DEF Exact, KeysDiffer
<1>5. rs[j].key = Beside(rs[i].key, d) <=> rs[i].key = Beside(rs[j].key, Opposite(d))
  BY <1>1, BesideBack
<1>6. Beside(rs[i].key, d) # rs[i].key
  BY <1>1, BesideBack
<1>7. rs[i].neighbors[d] \in DOMAIN rs \cup {None}
  BY DEF Exact
<1>8. rs[i].neighbors[d] # i
  BY <1>2, <1>6 DEF Exact
<1> QED BY <1>3, <1>4, <1>5, <1>7, <1>8

(* Where the region at index j has been before the one at i was removed.   *)
Before(j, i, last) == IF j = i THEN last ELSE j

(* Regions rs without the one at i, whose place the last has taken.        *)
Shrunk(rs, ns, i, last) ==
    /\ last = Len(rs) /\ Len(ns) = last - 1
    /\ \A j \in DOMAIN ns :
          /\ ns[j].key = rs[Before(j, i, last)].key
          /\ \A d \in Directions :
                LET old == rs[Before(j, i, last)].neighbors[d]
                IN  ns[j].neighbors[d] = IF old = i THEN None ELSE IF old = last THEN i ELSE old

LEMMA OneLess ==
    ASSUME NEW rs \in Seq(RegionSet), NEW ns \in Seq(RegionSet),
           NEW i \in DOMAIN rs, NEW last \in Nat,
           KeysDiffer(rs), Exact(rs), Shrunk(rs, ns, i, last)
    PROVE  KeysDiffer(ns) /\ Exact(ns)
<1>1. /\ DOMAIN rs = 1 .. last /\ DOMAIN ns = 1 .. last - 1 /\ Len(rs) \in Nat /\ last \in Nat \ {0}
  BY DEF Shrunk
<1>2. ASSUME NEW j \in DOMAIN ns
      PROVE  Before(j, i, last) \in DOMAIN rs /\ Before(j, i, last) # i
  BY <1>1 DEF Before
<1>3. ASSUME NEW j \in DOMAIN ns, NEW k \in DOMAIN ns, Before(j, i, last) = Before(k, i, last)
      PROVE  j = k
  BY <1>1, <1>3 DEF Before
<1>4. ASSUME NEW o \in DOMAIN rs, o # i
      PROVE  \E j \in DOMAIN ns : Before(j, i, last) = o /\ j = IF o = last THEN i ELSE o
  BY <1>1, <1>4 DEF Before
<1>5. KeysDiffer(ns)
  BY <1>2, <1>3 DEF KeysDiffer, Shrunk
<1>6. ASSUME NEW j \in DOMAIN ns, NEW d \in Directions
      PROVE  \/ /\ ns[j].neighbors[d] \in DOMAIN ns
                /\ ns[ns[j].neighbors[d]].key = Beside(ns[j].key, d)
             \/ /\ ns[j].neighbors[d] = None
                /\ \A k \in DOMAIN ns : ns[k].key # Beside(ns[j].key, d)
  <2> DEFINE o   == Before(j, i, last)
             old == rs[o].neighbors[d]
  <2>1. /\ o \in DOMAIN rs
        /\ ns[j].key = rs[o].key
        /\ ns[j].neighbors[d] = IF old = i THEN None ELSE IF old = last THEN i ELSE old
    BY <1>2 DEF Shrunk
  <2>2. \/ old \in DOMAIN rs /\ rs[old].key = Beside(rs[o].key, d)
        \/ old = None /\ \A k \in DOMAIN rs : rs[k].key # Beside(rs[o].key, d)
    BY <2>1 DEF Exact
  <2>3. None \notin DOMAIN rs
    BY <1>1 DEF None
  <2> HIDE DEF o, old
  <2>4. CASE old = i
    <3>1. \A k \in DOMAIN ns : rs[Before(k, i, last)].key # rs[i].key
      BY <1>2 DEF KeysDiffer
    <3> QED BY <2>1, <2>2, <2>3, <2>4, <3>1 DEF Shrunk
  <2>5. CASE old # i /\ old \in DOMAIN rs
    <3>1. PICK k \in DOMAIN ns : Before(k, i, last) = old /\ k = IF old = last THEN i ELSE old
      BY <1>4, <2>5
    <3> QED BY <2>1, <2>2, <2>3, <2>5, <3>1 DEF Shrunk
  <2>6. CASE old = None
    <3>1. last # None
      BY <1>1 DEF None
    <3> QED BY <1>2, <2>1, <2>2, <2>3, <2>6, <3>1 DEF Shrunk
  <2> QED BY <2>2, <2>4, <2>5, <2>6
<1> QED BY <1>5, <1>6 DEF Exact

(* remove_index moves the last region into the place of the one removed,   *)
(* after its neighbours were told.                                         *)
LEMMA RemoveKeeps ==
    ASSUME NEW m, Sound(m), NEW i \in DOMAIN m.regions
    PROVE  LET n    == RemoveIndex(m, i)
               last == Len(m.regions)
           IN  /\ Sound(n)
               /\ Len(n.regions) = last - 1
               /\ \A j \in DOMAIN n.regions :
                     /\ n.regions[j].key = m.regions[Before(j, i, last)].key
                     /\ n.regions[j].bitset = m.regions[Before(j, i, last)].bitset
                     /\ n.regions[j].events = m.regions[Before(j, i, last)].events
               /\ n.tracked = m.tracked
<1> DEFINE old   == m.regions
           rs    == Remapped(m, i)
           last  == Len(rs)
           moved == [j \in 1 .. last - 1 |-> IF j = i THEN rs[last] ELSE rs[j]]
           ns    == TellNeighbors(moved, rs[i].neighbors, None)
           n     == RemoveIndex(m, i)
<1>1. /\ m \in MapSet /\ old \in Seq(RegionSet) /\ DOMAIN old = 1 .. Len(old) /\ Len(old) \in Nat \ {0}
      /\ KeysDiffer(old) /\ Exact(old)
  BY MatchIsExact DEF Sound, MapSet
<1>2. n = [m EXCEPT !.regions = ns]
  BY DEF RemoveIndex
<1>3. /\ rs \in Seq(RegionSet) /\ last = Len(old) /\ DOMAIN rs = DOMAIN old
      /\ \A j \in DOMAIN old :
            /\ rs[j].key = old[j].key
            /\ rs[j].bitset = old[j].bitset /\ rs[j].events = old[j].events
            /\ \A d \in Directions :
                  rs[j].neighbors[d] = IF i # last /\ old[j].neighbors[d] = last THEN i ELSE old[j].neighbors[d]
  <2>1. CASE i = Len(old)
    <3>1. rs = old
      BY <2>1 DEF Remapped
    <3> HIDE DEF old, rs
    <3> QED BY <1>1, <2>1, <3>1
  <2>2. CASE i # Len(old)
    <3> DEFINE l     == Len(old)
               table == old[l].neighbors
    <3>1. rs = TellNeighbors(old, table, i)
      BY <2>2 DEF Remapped
    <3>2. l \in DOMAIN old /\ i \in Nat
      BY <1>1
    <3>3. table \in [Directions -> Nat]
      <4>1. old[l] \in RegionSet
        BY <1>1, <3>2
      <4> QED BY <4>1 DEF RegionSet
    <3> HIDE DEF old, rs, table
    <3>4. /\ rs \in Seq(RegionSet)
          /\ DOMAIN rs = DOMAIN old /\ Len(rs) = Len(old)
          /\ \A j \in DOMAIN old :
                /\ rs[j].key = old[j].key
                /\ rs[j].bitset = old[j].bitset /\ rs[j].events = old[j].events
                /\ \A d \in Directions :
                      rs[j].neighbors[d] = IF table[Opposite(d)] = j THEN i ELSE old[j].neighbors[d]
      BY <1>1, <3>1, <3>2, <3>3, Told
    <3>5. \A j \in DOMAIN old : \A d \in Directions :
              table[Opposite(d)] = j <=> old[j].neighbors[d] = l
      BY <1>1, <3>2, Mutual DEF table
    <3> QED BY <2>2, <3>4, <3>5
  <2> QED BY <2>1, <2>2
<1> HIDE DEF rs, n
<1>4. DOMAIN old = 1 .. last /\ last \in Nat \ {0} /\ i \in 1 .. last
  BY <1>1, <1>3
<1>5. rs[i].neighbors \in [Directions -> Nat]
  <2>1. rs[i] \in RegionSet
    BY <1>3, <1>4
  <2> QED BY <2>1 DEF RegionSet
<1>6. /\ moved \in Seq(RegionSet) /\ Len(moved) = last - 1 /\ DOMAIN moved = 1 .. last - 1
      /\ \A j \in 1 .. last - 1 : moved[j] = rs[Before(j, i, last)] /\ Before(j, i, last) \in DOMAIN old
  <2>1. ASSUME NEW j \in 1 .. last - 1
        PROVE  /\ moved[j] = rs[Before(j, i, last)]
               /\ Before(j, i, last) \in DOMAIN old
               /\ moved[j] \in RegionSet
    BY <1>3, <1>4 DEF Before
  <2>2. moved \in [1 .. last - 1 -> RegionSet]
    BY <2>1
  <2>3. last - 1 \in Nat
    BY <1>4
  <2> HIDE DEF moved
  <2> QED BY <2>1, <2>2, <2>3
<1> HIDE DEF moved
<1>7. /\ ns \in Seq(RegionSet) /\ Len(ns) = last - 1 /\ DOMAIN ns = 1 .. last - 1
      /\ \A j \in 1 .. last - 1 :
            /\ ns[j].key = moved[j].key
            /\ ns[j].bitset = moved[j].bitset /\ ns[j].events = moved[j].events
            /\ \A d \in Directions :
                  ns[j].neighbors[d] =
                      IF rs[i].neighbors[Opposite(d)] = j THEN None ELSE moved[j].neighbors[d]
  <2> DEFINE table == rs[i].neighbors
  <2>1. None \in Nat
    BY DEF None
  <2>2. ns = TellNeighbors(moved, table, None) /\ table \in [Directions -> Nat]
    BY <1>5
  <2> HIDE DEF table, ns
  <2>3. /\ ns \in Seq(RegionSet) /\ DOMAIN ns = DOMAIN moved /\ Len(ns) = Len(moved)
        /\ \A j \in DOMAIN moved :
              /\ ns[j].key = moved[j].key
              /\ ns[j].bitset = moved[j].bitset /\ ns[j].events = moved[j].events
              /\ \A d \in Directions :
                    ns[j].neighbors[d] = IF table[Opposite(d)] = j THEN None ELSE moved[j].neighbors[d]
    <3>1. moved \in Seq(RegionSet)
      BY <1>6
    <3> QED BY <2>1, <2>2, <3>1, Told
  <2> QED BY <1>6, <2>3 DEF table
<1> HIDE DEF ns
<1>8. /\ Shrunk(old, ns, i, last)
      /\ \A j \in 1 .. last - 1 : /\ ns[j].key = old[Before(j, i, last)].key
                                  /\ ns[j].bitset = old[Before(j, i, last)].bitset
                                  /\ ns[j].events = old[Before(j, i, last)].events
  <2>1. ASSUME NEW j \in 1 .. last - 1, NEW d \in Directions
        PROVE  LET w == old[Before(j, i, last)].neighbors[d]
               IN  ns[j].neighbors[d] = IF w = i THEN None ELSE IF w = last THEN i ELSE w
    <3> DEFINE o == Before(j, i, last)
    <3>1. o \in DOMAIN old /\ o = (IF j = i THEN last ELSE j) /\ Opposite(d) \in Directions
      BY <1>6, DirectionsPair DEF Before
    <3>2. /\ old[o].neighbors[d] = i <=> old[i].neighbors[Opposite(d)] = o
          /\ old[o].neighbors[d] # o
          /\ old[i].neighbors[Opposite(d)] # i
      BY <1>1, <3>1, Mutual
    <3>3. moved[j].neighbors[d] =
              IF i # last /\ old[o].neighbors[d] = last THEN i ELSE old[o].neighbors[d]
      <4>1. moved[j] = rs[o]
        BY <1>6
      <4>2. rs[o].neighbors[d] =
                IF i # last /\ old[o].neighbors[d] = last THEN i ELSE old[o].neighbors[d]
        BY <1>3, <3>1
      <4> QED BY <4>1, <4>2
    <3>4. rs[i].neighbors[Opposite(d)] =
              IF i # last /\ old[i].neighbors[Opposite(d)] = last THEN i ELSE old[i].neighbors[Opposite(d)]
      BY <1>3, <3>1
    <3>5. ns[j].neighbors[d] = IF rs[i].neighbors[Opposite(d)] = j THEN None ELSE moved[j].neighbors[d]
      BY <1>7
    <3>6. rs[i].neighbors[Opposite(d)] = j <=> old[i].neighbors[Opposite(d)] = o
      BY <1>4, <3>1, <3>2, <3>4
    <3> HIDE DEF o
    <3>7. ns[j].neighbors[d] = IF old[o].neighbors[d] = i THEN None
                               ELSE IF old[o].neighbors[d] = last THEN i ELSE old[o].neighbors[d]
      BY <3>2, <3>3, <3>5, <3>6
    <3> QED BY <3>7 DEF o
  <2>2. ASSUME NEW j \in 1 .. last - 1
        PROVE  /\ ns[j].key = old[Before(j, i, last)].key
               /\ ns[j].bitset = old[Before(j, i, last)].bitset
               /\ ns[j].events = old[Before(j, i, last)].events
    <3>1. ns[j].key = moved[j].key /\ ns[j].bitset = moved[j].bitset /\ ns[j].events = moved[j].events
      BY <1>7
    <3>2. moved[j] = rs[Before(j, i, last)] /\ Before(j, i, last) \in DOMAIN old
      BY <1>6
    <3>3. \A k \in DOMAIN old : rs[k].key = old[k].key /\ rs[k].bitset = old[k].bitset /\ rs[k].events = old[k].events
      BY <1>3
    <3> HIDE DEF old
    <3> QED BY <3>1, <3>2, <3>3
  <2>3. last = Len(old) /\ Len(ns) = last - 1 /\ DOMAIN ns = 1 .. last - 1
    BY <1>3, <1>7
  <2> HIDE DEF last, old
  <2>4. Shrunk(old, ns, i, last)
    BY <2>1, <2>2, <2>3 DEF Shrunk
  <2> QED BY <2>2, <2>4
<1>9. n \in MapSet /\ n.regions = ns /\ n.tracked = m.tracked
  BY <1>1, <1>2, <1>7 DEF MapSet
<1>10. KeysDiffer(ns) /\ Exact(ns)
  <2> HIDE DEF last, old
  <2> QED BY <1>1, <1>4, <1>7, <1>8, OneLess
<1>11. NeighborsMatch(n)
  BY <1>9, <1>10, MatchIsExact
<1>12. Sound(n)
  BY <1>9, <1>10, <1>11 DEF Sound
<1> HIDE DEF old
<1>13. /\ Len(n.regions) = Len(old) - 1
       /\ \A j \in DOMAIN n.regions : /\ n.regions[j].key = old[Before(j, i, Len(old))].key
                                      /\ n.regions[j].bitset = old[Before(j, i, Len(old))].bitset
                                      /\ n.regions[j].events = old[Before(j, i, Len(old))].events
       /\ n.tracked = m.tracked
  <2>1. n.regions = ns /\ DOMAIN ns = 1 .. last - 1 /\ Len(ns) = last - 1 /\ last = Len(old)
    BY <1>3, <1>7, <1>9
  <2> HIDE DEF last
  <2>2. \A j \in 1 .. last - 1 : /\ ns[j].key = old[Before(j, i, last)].key
                                  /\ ns[j].bitset = old[Before(j, i, last)].bitset
                                  /\ ns[j].events = old[Before(j, i, last)].events
    BY <1>8
  <2> QED BY <1>9, <2>1, <2>2
<1> QED BY <1>12, <1>13 DEF n, old
-----------------------------------------------------------------------------
(* The entities of all regions; no entity is in two.                       *)
Everyone(m) == UNION {m.regions[i].bitset : i \in DOMAIN m.regions}
Apart(m)    == \A i, j \in DOMAIN m.regions : i # j => m.regions[i].bitset \cap m.regions[j].bitset = {}

LEMMA TrackedIsApart ==
    ASSUME NEW m, Sound(m)
    PROVE  TrackedOnce(m) <=> Apart(m) /\ m.tracked = Everyone(m)
  BY DEF TrackedOnce, Apart, Everyone, Sound, KeysDiffer

(* What the regions hold and say, by their keys: indices may change.       *)
Holds(m, id, key) == \E i \in DOMAIN m.regions : m.regions[i].key = key /\ id \in m.regions[i].bitset
Says(m, key, e)   == \E i \in DOMAIN m.regions : m.regions[i].key = key /\ e \in ToSet(m.regions[i].events)

(* Regions are where they have been.                                       *)
Kept(m, n) ==
    /\ DOMAIN m.regions \subseteq DOMAIN n.regions
    /\ \A i \in DOMAIN m.regions : n.regions[i].key = m.regions[i].key

LEMMA EveryoneIsHeld ==
    ASSUME NEW m, NEW id
    PROVE  id \in Everyone(m) <=> \E key : Holds(m, id, key)
  BY DEF Everyone, Holds

LEMMA HeldOnce ==
    ASSUME NEW m, Apart(m), NEW id, NEW k, NEW l, Holds(m, id, k), Holds(m, id, l)
    PROVE  k = l
  BY DEF Apart, Holds

LEMMA OneMoreEvent ==
    ASSUME NEW S, NEW s \in Seq(S), NEW e \in S
    PROVE  Append(s, e) \in Seq(S) /\ ToSet(Append(s, e)) = ToSet(s) \cup {e}
<1>1. Append(s, e) \in Seq(S)
  OBVIOUS
<1>2. /\ DOMAIN Append(s, e) = DOMAIN s \cup {Len(s) + 1} /\ Append(s, e)[Len(s) + 1] = e
      /\ \A i \in DOMAIN s : Append(s, e)[i] = s[i]
  OBVIOUS
<1> QED BY <1>1, <1>2 DEF ToSet

(* A region is given other entities and one more event.                    *)
Changed(m, at, ids, e) ==
    [m EXCEPT !.regions[at].bitset = ids, !.regions[at].events = Append(@, e)]

OnlyAt(m, n, at, ids, e) ==
    /\ Sound(n)
    /\ DOMAIN n.regions = DOMAIN m.regions
    /\ \A i \in DOMAIN m.regions :
          /\ n.regions[i].key = m.regions[i].key
          /\ n.regions[i].bitset = IF i = at THEN ids ELSE m.regions[i].bitset
          /\ ToSet(n.regions[i].events) =
                 IF i = at THEN ToSet(m.regions[i].events) \cup {e} ELSE ToSet(m.regions[i].events)
    /\ n.tracked = m.tracked

LEMMA OneRegionChanges ==
    ASSUME NEW m, Sound(m), NEW at \in DOMAIN m.regions,
           NEW ids \in SUBSET Nat, NEW e \in RegionEvent
    PROVE  OnlyAt(m, Changed(m, at, ids, e), at, ids, e)
<1> DEFINE rs  == m.regions
           evs == Append(rs[at].events, e)
           new == [rs[at] EXCEPT !.bitset = ids, !.events = evs]
           ns  == [rs EXCEPT ![at] = new]
           n   == Changed(m, at, ids, e)
<1>1. m \in MapSet /\ rs \in Seq(RegionSet) /\ KeysDiffer(rs) /\ Exact(rs)
  BY MatchIsExact DEF Sound, MapSet
<1>2. rs[at] \in RegionSet
  BY <1>1
<1>3. /\ new \in RegionSet
      /\ new.key = rs[at].key /\ new.neighbors = rs[at].neighbors /\ new.bitset = ids
      /\ ToSet(new.events) = ToSet(rs[at].events) \cup {e}
  <2>1. evs \in Seq(RegionEvent) /\ ToSet(evs) = ToSet(rs[at].events) \cup {e}
    <3>1. rs[at].events \in Seq(RegionEvent)
      BY <1>2 DEF RegionSet
    <3> QED BY <3>1, OneMoreEvent
  <2> HIDE DEF evs
  <2>2. new.events = evs
    BY <1>2 DEF RegionSet
  <2>3. /\ new \in RegionSet
        /\ new.key = rs[at].key /\ new.neighbors = rs[at].neighbors /\ new.bitset = ids
    BY <1>2, <2>1 DEF RegionSet
  <2> QED BY <2>1, <2>2, <2>3
<1>4. n = [m EXCEPT !.regions = ns]
  BY <1>1, <1>2 DEF MapSet, RegionSet, Changed
<1> HIDE DEF new, n
<1>5. /\ ns \in Seq(RegionSet) /\ DOMAIN ns = DOMAIN rs /\ ns[at] = new
      /\ \A i \in DOMAIN rs : i # at => ns[i] = rs[i]
  BY <1>1, <1>3
<1>6. n \in MapSet /\ n.regions = ns /\ n.tracked = m.tracked
  BY <1>1, <1>4, <1>5 DEF MapSet
<1> HIDE DEF ns, rs
<1>7. \A i \in DOMAIN rs : ns[i].key = rs[i].key /\ ns[i].neighbors = rs[i].neighbors
  BY <1>3, <1>5
<1>8. KeysDiffer(ns) /\ Exact(ns)
  <2>1. KeysDiffer(rs) /\ Exact(rs) /\ DOMAIN ns = DOMAIN rs
    BY <1>1, <1>5
  <2> QED BY ONLY <1>7, <2>1 DEF KeysDiffer, Exact
<1>9. Sound(n)
  BY <1>6, <1>8, MatchIsExact DEF Sound
<1>10. ASSUME NEW i \in DOMAIN rs
       PROVE  /\ ns[i].bitset = IF i = at THEN ids ELSE rs[i].bitset
              /\ ToSet(ns[i].events) = IF i = at THEN ToSet(rs[i].events) \cup {e} ELSE ToSet(rs[i].events)
  BY <1>3, <1>5
<1> QED BY <1>5, <1>6, <1>7, <1>9, <1>10 DEF n, rs, OnlyAt

(* The map n that is left of m when its region at i loses an entity.       *)
Dropped(m, n, i, id, to) ==
    /\ Sound(n) /\ Apart(n) /\ n.tracked = m.tracked
    /\ Kept(m, n)
    /\ \A x, key : Holds(n, x, key) <=> Holds(m, x, key) /\ x # id
    /\ \A key, e : Says(n, key, e) <=> Says(m, key, e) \/ (key = m.regions[i].key /\ e = Left(id, to))

(* Region::remove                                                          *)
LEMMA DropKeeps ==
    ASSUME NEW m, Sound(m), Apart(m), NEW i \in DOMAIN m.regions,
           NEW id \in m.regions[i].bitset, NEW to \in Key \cup {NoKey}
    PROVE  Dropped(m, DropEntity(m, i, id, to), i, id, to)
<1> DEFINE ids == m.regions[i].bitset \ {id}
           ev  == Left(id, to)
<1>1. m.regions \in Seq(RegionSet) /\ m.regions[i] \in RegionSet
  BY DEF Sound, MapSet
<1>2. ids \in SUBSET Nat /\ id \in Nat
  BY <1>1 DEF RegionSet
<1>3. ev \in RegionEvent
  BY <1>2 DEF RegionEvent, Left
<1>4. PICK n : n = DropEntity(m, i, id, to)
  OBVIOUS
<1>5. n = Changed(m, i, ids, ev)
  BY <1>4 DEF DropEntity, Changed
<1> HIDE DEF ids, ev
<1>6. OnlyAt(m, n, i, ids, ev)
  BY <1>2, <1>3, <1>5, OneRegionChanges
<1>7. Apart(n) /\ Kept(m, n)
  BY <1>6 DEF Apart, Kept, OnlyAt, ids
<1>8. ASSUME NEW x, NEW key
      PROVE  Holds(n, x, key) <=> Holds(m, x, key) /\ x # id
  <2>1. Holds(n, x, key) <=> \E j \in DOMAIN m.regions : n.regions[j].key = key /\ x \in n.regions[j].bitset
    BY <1>6 DEF Holds, OnlyAt
  <2>2. \A j \in DOMAIN m.regions : x \in n.regions[j].bitset <=> x \in m.regions[j].bitset /\ x # id
    BY <1>6 DEF Apart, OnlyAt, ids
  <2> QED BY <1>6, <2>1, <2>2 DEF Holds, OnlyAt
<1>9. ASSUME NEW key, NEW e
      PROVE  Says(n, key, e) <=> Says(m, key, e) \/ (key = m.regions[i].key /\ e = ev)
  BY <1>6 DEF Says, OnlyAt
<1> QED BY <1>4, <1>6, <1>7, <1>8, <1>9 DEF Dropped, OnlyAt, ev

(* The map n that m becomes when an entity is added at p.                  *)
Added(m, n, id, p, from) ==
    /\ Sound(n) /\ Apart(n) /\ n.tracked = m.tracked
    /\ Kept(m, n)
    /\ \A x, key : Holds(n, x, key) <=> Holds(m, x, key) \/ (x = id /\ key = PosKey(p))
    /\ \E source \in {from, NoKey} : \A key, e :
          Says(n, key, e) <=> Says(m, key, e) \/ (key = PosKey(p) /\ e = Entered(id, source))

LEMMA NoKeyIsNone == NoKey \notin Key
  BY DEF Key, NoKey

LEMMA PosKeyType ==
    ASSUME NEW p \in Int \X Int
    PROVE  PosKey(p) \in Key
  BY RegionsAssumption DEF PosKey, Key

(* add_entity, which inserts a region for the entity when there is none.   *)
LEMMA AddKeeps ==
    ASSUME NEW m, Sound(m), Apart(m), NEW id \in Nat, id \notin Everyone(m),
           NEW p \in Int \X Int, NEW from \in Key \cup {NoKey}
    PROVE  Added(m, AddEntity(m, id, p, from), id, p, from)
<1> DEFINE k      == PosKey(p)
           i      == KeyIndex(m, k)
           into   == IF i = None THEN InsertRegion(m, k) ELSE m
           at     == IF i = None THEN Len(into.regions) ELSE i
           source == IF i = None THEN NoKey ELSE from
           ids    == into.regions[at].bitset \cup {id}
           ev     == Entered(id, source)
<1>1. k \in Key
  BY PosKeyType
<1>2. m \in MapSet /\ KeysDiffer(m.regions)
  BY DEF Sound
<1>3. PICK n : n = AddEntity(m, id, p, from)
  OBVIOUS
<1>4. n = Changed(into, at, ids, ev)
  BY <1>3 DEF AddEntity, Changed
<1> HIDE DEF k
<1>5. /\ Sound(into) /\ Apart(into) /\ at \in DOMAIN into.regions
      /\ Kept(m, into) /\ into.regions[at].key = k
      /\ \A x, key : Holds(into, x, key) <=> Holds(m, x, key)
      /\ \A key, e : Says(into, key, e) <=> Says(m, key, e)
      /\ into.tracked = m.tracked
  <2>1. CASE i = None
    <3>1. PICK w : w = InsertRegion(m, k)
      OBVIOUS
    <3>2. /\ Sound(w)
          /\ Len(w.regions) = Len(m.regions) + 1
          /\ w.regions[Len(w.regions)].key = k
          /\ w.regions[Len(w.regions)].bitset = {} /\ w.regions[Len(w.regions)].events = <<>>
          /\ \A j \in DOMAIN m.regions : /\ w.regions[j].key = m.regions[j].key
                                          /\ w.regions[j].bitset = m.regions[j].bitset
                                          /\ w.regions[j].events = m.regions[j].events
          /\ w.tracked = m.tracked
      BY <1>1, <2>1, <3>1, InsertKeeps
    <3>3. w.regions \in Seq(RegionSet) /\ m.regions \in Seq(RegionSet)
      BY <1>2, <3>2 DEF Sound, MapSet
    <3>4. DOMAIN w.regions = DOMAIN m.regions \cup {Len(w.regions)}
      BY <3>2, <3>3
    <3>5. Apart(w) /\ Kept(m, w)
      BY <3>2, <3>4 DEF Apart, Kept
    <3>6. \A x, key : Holds(w, x, key) <=> Holds(m, x, key)
      BY <3>2, <3>4 DEF Holds
    <3>7. \A key, e : Says(w, key, e) <=> Says(m, key, e)
      <4>1. ToSet(w.regions[Len(w.regions)].events) = {}
        BY <3>2 DEF ToSet
      <4> QED BY <3>2, <3>4, <4>1 DEF Says
    <3>8. into = w /\ at = Len(w.regions)
      BY <2>1, <3>1
    <3> HIDE DEF into, at
    <3> QED BY <3>2, <3>4, <3>5, <3>6, <3>7, <3>8
  <2>2. CASE i # None
    <3>1. i \in DOMAIN m.regions /\ m.regions[i].key = k
      BY <1>2, <2>2, KeyIndexFinds
    <3>2. into = m /\ at = i
      BY <2>2
    <3> HIDE DEF into, at, i
    <3> QED BY <3>1, <3>2 DEF Kept
  <2> QED BY <2>1, <2>2
<1>6. ids \in SUBSET Nat /\ source \in Key \cup {NoKey}
  <2>1. into.regions[at] \in RegionSet
    BY <1>5 DEF Sound, MapSet
  <2> QED BY <2>1 DEF RegionSet
<1>7. ev \in RegionEvent
  BY <1>6 DEF RegionEvent, Entered
<1>8. source \in {from, NoKey}
  OBVIOUS
<1> HIDE DEF into, at, ids, source, ev
<1>9. OnlyAt(into, n, at, ids, ev)
  <2>1. Sound(into) /\ at \in DOMAIN into.regions /\ ids \in SUBSET Nat
    BY <1>5, <1>6
  <2> QED BY <1>4, <1>7, <2>1, OneRegionChanges
<1>10. \A j \in DOMAIN into.regions : id \notin into.regions[j].bitset
  <2>1. \A key : ~Holds(m, id, key)
    BY EveryoneIsHeld
  <2> QED BY <1>5, <2>1 DEF Holds
<1>11. Apart(n) /\ Kept(m, n)
  <2>1. Apart(n)
    <3>1. /\ Apart(into) /\ DOMAIN n.regions = DOMAIN into.regions
          /\ \A j \in DOMAIN into.regions :
                n.regions[j].bitset = IF j = at THEN into.regions[j].bitset \cup {id} ELSE into.regions[j].bitset
      BY <1>5, <1>9 DEF OnlyAt, ids
    <3>2. ASSUME NEW j \in DOMAIN into.regions, NEW l \in DOMAIN into.regions, j # l
          PROVE  n.regions[j].bitset \cap n.regions[l].bitset = {}
      <4>1. into.regions[j].bitset \cap into.regions[l].bitset = {}
        BY <3>1, <3>2 DEF Apart
      <4>2. id \notin into.regions[j].bitset /\ id \notin into.regions[l].bitset
        BY <1>10
      <4>3. /\ n.regions[j].bitset = IF j = at THEN into.regions[j].bitset \cup {id} ELSE into.regions[j].bitset
            /\ n.regions[l].bitset = IF l = at THEN into.regions[l].bitset \cup {id} ELSE into.regions[l].bitset
        BY <3>1
      <4> QED BY ONLY <3>2, <4>1, <4>2, <4>3
    <3> QED BY <3>1, <3>2 DEF Apart
  <2>2. Kept(m, n)
    BY <1>5, <1>9 DEF Kept, OnlyAt
  <2> QED BY <2>1, <2>2
<1>12. ASSUME NEW x, NEW key
       PROVE  Holds(n, x, key) <=> Holds(m, x, key) \/ (x = id /\ key = k)
  <2>1. Holds(n, x, key) <=> \E j \in DOMAIN into.regions : into.regions[j].key = key /\ x \in n.regions[j].bitset
    BY <1>9 DEF Holds, OnlyAt
  <2>2. \A j \in DOMAIN into.regions :
            x \in n.regions[j].bitset <=> x \in into.regions[j].bitset \/ (x = id /\ j = at)
    BY <1>5, <1>9 DEF OnlyAt, ids
  <2>3. Holds(into, x, key) <=> Holds(m, x, key)
    BY <1>5
  <2> QED BY <1>5, <2>1, <2>2, <2>3 DEF Holds
<1>13. ASSUME NEW key, NEW e
       PROVE  Says(n, key, e) <=> Says(m, key, e) \/ (key = k /\ e = ev)
  <2>1. Says(into, key, e) <=> Says(m, key, e)
    BY <1>5
  <2>2. /\ at \in DOMAIN into.regions /\ into.regions[at].key = k
        /\ DOMAIN n.regions = DOMAIN into.regions
        /\ \A j \in DOMAIN into.regions :
              /\ n.regions[j].key = into.regions[j].key
              /\ ToSet(n.regions[j].events) =
                    IF j = at THEN ToSet(into.regions[j].events) \cup {ev} ELSE ToSet(into.regions[j].events)
    BY <1>5, <1>9 DEF OnlyAt
  <2> QED BY ONLY <2>1, <2>2 DEF Says
<1>14. n.tracked = m.tracked /\ Sound(n)
  BY <1>5, <1>9 DEF OnlyAt
<1> QED BY <1>3, <1>8, <1>11, <1>12, <1>13, <1>14 DEF Added, k, ev

(* The map n that m becomes when an empty region is removed.               *)
Emptied(m, n, key) ==
    /\ Sound(n) /\ TrackedOnce(n) /\ n.tracked = m.tracked
    /\ \A l : l \in Keys(m) /\ l # key => l \in Keys(n)
    /\ \A x, l : Holds(n, x, l) <=> Holds(m, x, l)
    /\ \A l, e : Says(n, l, e) <=> Says(m, l, e)

(* A region that was found empty is removed, unless it no longer is: the   *)
(* last region moves into its place, so that indices in the tables of      *)
(* others change; they still name the regions that are beside each other,  *)
(* and no entity and no event is lost.                                     *)
THEOREM RegionGoes ==
    ASSUME NEW m, Sound(m), TrackedOnce(m), NEW key, KeyIndex(m, key) # None
    PROVE  Emptied(m, RemoveKey(m, key), key)
<1> DEFINE i    == KeyIndex(m, key)
           last == Len(m.regions)
<1>1. i \in DOMAIN m.regions
  BY KeyIndexFinds DEF Sound
<1> HIDE DEF i
<1>2. CASE ~Removable(m.regions[i])
  BY <1>2 DEF RemoveKey, Emptied, i
<1>3. CASE Removable(m.regions[i])
  <2>1. PICK n : n = RemoveIndex(m, i)
    OBVIOUS
  <2>2. /\ Sound(n)
        /\ Len(n.regions) = last - 1
        /\ \A j \in DOMAIN n.regions :
              /\ n.regions[j].key = m.regions[Before(j, i, last)].key
              /\ n.regions[j].bitset = m.regions[Before(j, i, last)].bitset
              /\ n.regions[j].events = m.regions[Before(j, i, last)].events
        /\ n.tracked = m.tracked
    BY <1>1, <2>1, RemoveKeeps
  <2>3. DOMAIN m.regions = 1 .. last /\ DOMAIN n.regions = 1 .. last - 1 /\ last \in Nat
    BY <2>2 DEF Sound, MapSet
  <2> HIDE DEF last
  <2>4. /\ \A j \in DOMAIN n.regions : Before(j, i, last) \in DOMAIN m.regions
        /\ \A j, k \in DOMAIN n.regions : j # k => Before(j, i, last) # Before(k, i, last)
        /\ \A o \in DOMAIN m.regions : o # i => \E j \in DOMAIN n.regions : Before(j, i, last) = o
    BY <1>1, <2>3 DEF Before
  <2>5. /\ Apart(m) /\ m.tracked = Everyone(m)
        /\ m.regions[i].bitset = {} /\ ToSet(m.regions[i].events) = {}
    BY <1>3, TrackedIsApart DEF Removable, ToSet
  <2>6. Apart(n)
    BY <2>2, <2>4, <2>5 DEF Apart
  <2>7. ASSUME NEW x, NEW l
        PROVE  Holds(n, x, l) <=> Holds(m, x, l)
    BY <2>2, <2>4, <2>5 DEF Holds
  <2>8. ASSUME NEW l, NEW e
        PROVE  Says(n, l, e) <=> Says(m, l, e)
    <3>1. \A o \in DOMAIN m.regions : e \in ToSet(m.regions[o].events) => o # i
      BY <2>5
    <3>2. \A j \in DOMAIN n.regions : ToSet(n.regions[j].events) = ToSet(m.regions[Before(j, i, last)].events)
      BY <2>2
    <3> QED BY <2>2, <2>4, <3>1, <3>2 DEF Says
  <2>9. Everyone(n) = Everyone(m)
    <3>1. \A x : x \in Everyone(n) <=> x \in Everyone(m)
      BY <2>7, EveryoneIsHeld
    <3> QED BY <3>1
  <2>10. TrackedOnce(n)
    BY <2>2, <2>5, <2>6, <2>9, TrackedIsApart
  <2>11. RemoveKey(m, key) = n
    BY <1>3, <2>1 DEF RemoveKey, i
  <2>12. ASSUME NEW l, l \in Keys(m), l # key
         PROVE  l \in Keys(n)
    <3>1. m.regions[i].key = key
      BY <1>1, KeyIndexFinds DEF i, Sound, None, MapSet
    <3>2. PICK o \in DOMAIN m.regions : m.regions[o].key = l
      BY <2>12 DEF Keys
    <3> QED BY <2>2, <2>4, <2>12, <3>1, <3>2 DEF Keys
  <2> QED BY <2>2, <2>7, <2>8, <2>10, <2>11, <2>12 DEF Emptied
<1> QED BY <1>2, <1>3

(* What the theorems keep holds to begin with.                             *)
LEMMA NoRegions == Sound(EmptyMap) /\ TrackedOnce(EmptyMap)
<1>1. /\ EmptyMap.regions = <<>> /\ EmptyMap.tracked = {}
      /\ EmptyMap = [regions |-> <<>>, tracked |-> {}]
  BY DEF EmptyMap
<1>2. EmptyMap \in MapSet
  BY <1>1 DEF MapSet
<1> QED BY <1>1, <1>2 DEF Sound, KeysDiffer, NeighborsMatch, TrackedOnce
-----------------------------------------------------------------------------
(* The whole story that a map tells of an entity which was in the region   *)
(* old and is in new: the one says that it has left for the other, and the *)
(* other that it has entered from the one or from nowhere.                 *)
Settled(m, id, old, new) ==
    /\ \A key : Holds(m, id, key) <=> key = new /\ new # NoKey
    /\ \A key, to : Says(m, key, Left(id, to)) <=> key = old /\ old # NoKey /\ to = new /\ new # old
    /\ \A key, from : Says(m, key, Entered(id, from)) =>
          key = new /\ new \notin {old, NoKey} /\ from \in {old, NoKey}
    /\ new \notin {old, NoKey} => \E from \in {old, NoKey} : Says(m, new, Entered(id, from))

LEMMA EventsDiffer ==
    ASSUME NEW i, NEW j, NEW k, NEW l
    PROVE  /\ Entered(i, k) # Left(j, l)
           /\ Entered(i, k) = Entered(j, l) <=> i = j /\ k = l
           /\ Left(i, k) = Left(j, l) <=> i = j /\ k = l
<1>1. /\ Entered(i, k).what = "entered" /\ Entered(i, k).id = i /\ Entered(i, k).key = k
      /\ Entered(j, l).what = "entered" /\ Entered(j, l).id = j /\ Entered(j, l).key = l
  BY DEF Entered
<1>2. /\ Left(i, k).what = "left" /\ Left(i, k).id = i /\ Left(i, k).key = k
      /\ Left(j, l).what = "left" /\ Left(j, l).id = j /\ Left(j, l).key = l
  BY DEF Left
<1> QED BY <1>1, <1>2

(* The map n is m but for one entity, which was in old and now is in new.  *)
Stepped(m, n, id, old, new) ==
    /\ Sound(n) /\ TrackedOnce(n) /\ Kept(m, n)
    /\ n.tracked = IF new = NoKey THEN m.tracked \ {id} ELSE m.tracked \cup {id}
    /\ Settled(m, id, old, old) => Settled(n, id, old, new)
    /\ \A x, k, l : x # id /\ Settled(m, x, k, l) => Settled(n, x, k, l)
    /\ \A l, e : Says(n, l, e) => Says(m, l, e) \/ e.id = id

(* An entity that is new to the map, as tick adds those that are not       *)
(* tracked: the table of neighbours stays exact, also when a region is     *)
(* inserted for it, and it is in one region.                               *)
THEOREM EntityComes ==
    ASSUME NEW m, Sound(m), TrackedOnce(m), NEW id \in Nat \ m.tracked, NEW p \in Int \X Int
    PROVE  Stepped(m, [AddEntity(m, id, p, NoKey) EXCEPT !.tracked = @ \cup {id}], id, NoKey, PosKey(p))
<1>1. PICK w : w = AddEntity(m, id, p, NoKey)
  OBVIOUS
<1>2. PICK n : n = [w EXCEPT !.tracked = @ \cup {id}]
  OBVIOUS
<1>3. Apart(m) /\ m.tracked = Everyone(m)
  BY TrackedIsApart
<1>4. Added(m, w, id, p, NoKey)
  BY <1>1, <1>3, AddKeeps
<1>5. n \in MapSet /\ n.regions = w.regions /\ n.tracked = m.tracked \cup {id}
  BY <1>2, <1>4 DEF Sound, MapSet, Added
<1>6. Sound(n)
  <2>1. KeysDiffer(n.regions) /\ Exact(n.regions)
    BY <1>4, <1>5, MatchIsExact DEF Sound, Added
  <2> QED BY <1>5, <2>1, MatchIsExact DEF Sound
<1>7. /\ \A x, key : Holds(n, x, key) <=> Holds(m, x, key) \/ (x = id /\ key = PosKey(p))
      /\ \A key, e : Says(n, key, e) <=> Says(m, key, e) \/ (key = PosKey(p) /\ e = Entered(id, NoKey))
  BY <1>4, <1>5 DEF Added, Holds, Says
<1>8. TrackedOnce(n)
  <2>1. Apart(n)
    BY <1>4, <1>5 DEF Apart, Added
  <2>2. \A x : x \in Everyone(n) <=> x \in Everyone(m) \/ x = id
    BY <1>7, EveryoneIsHeld
  <2>3. Everyone(n) = n.tracked
    BY <1>3, <1>5, <2>2
  <2> QED BY <1>6, <2>1, <2>3, TrackedIsApart
<1>9. Kept(m, n)
  BY <1>4, <1>5 DEF Kept, Added
<1>10. PosKey(p) # NoKey
  <2>1. PosKey(p) \in Key
    BY PosKeyType
  <2> QED BY <2>1 DEF Key, NoKey
<1>11. ASSUME Settled(m, id, NoKey, NoKey)
       PROVE  Settled(n, id, NoKey, PosKey(p))
  BY <1>7, <1>10, <1>11, EventsDiffer DEF Settled
<1>12. ASSUME NEW x, NEW k, NEW l, x # id, Settled(m, x, k, l)
       PROVE  Settled(n, x, k, l)
  BY <1>7, <1>12, EventsDiffer DEF Settled
<1>13. \A l, e : Says(n, l, e) => Says(m, l, e) \/ e.id = id
  BY <1>7 DEF Entered
<1> QED BY <1>1, <1>2, <1>5, <1>6, <1>8, <1>9, <1>10, <1>11, <1>12, <1>13 DEF Stepped

(* An entity that switches to another region, or back: it leaves the one   *)
(* and enters the other in one go, and is never in two or in none.         *)
THEOREM EntityMoves ==
    ASSUME NEW m, Sound(m), TrackedOnce(m), NEW i \in DOMAIN m.regions,
           NEW id \in m.regions[i].bitset, NEW p \in Int \X Int, PosKey(p) # m.regions[i].key
    PROVE  Stepped(m, AddEntity(DropEntity(m, i, id, PosKey(p)), id, p, m.regions[i].key),
                   id, m.regions[i].key, PosKey(p))
<1> DEFINE k == m.regions[i].key
<1>1. PICK w : w = DropEntity(m, i, id, PosKey(p))
  OBVIOUS
<1>2. PICK n : n = AddEntity(w, id, p, k)
  OBVIOUS
<1>3. Apart(m) /\ m.tracked = Everyone(m) /\ id \in Everyone(m)
  BY TrackedIsApart DEF Everyone
<1>4. k \in Key /\ id \in Nat /\ PosKey(p) \in Key /\ k # NoKey /\ PosKey(p) # NoKey
  <2>1. m.regions[i] \in RegionSet
    BY DEF Sound, MapSet
  <2>2. PosKey(p) \in Key
    BY PosKeyType
  <2> QED BY <2>1, <2>2 DEF RegionSet, Key, NoKey
<1> HIDE DEF k
<1>5. Dropped(m, w, i, id, PosKey(p))
  BY <1>1, <1>3, <1>4, DropKeeps
<1>6. Added(w, n, id, p, k)
  <2>1. id \notin Everyone(w)
    BY <1>5, EveryoneIsHeld DEF Dropped
  <2>2. Sound(w) /\ Apart(w)
    BY <1>5 DEF Dropped
  <2> QED BY <1>2, <1>4, <2>1, <2>2, AddKeeps
<1>7. Sound(n) /\ n.tracked = m.tracked /\ Kept(m, n)
  BY <1>5, <1>6 DEF Dropped, Added, Kept
<1>8. \A x, key : Holds(n, x, key) <=> (Holds(m, x, key) /\ x # id) \/ (x = id /\ key = PosKey(p))
  BY <1>5, <1>6 DEF Dropped, Added
<1>9. PICK source \in {k, NoKey} :
          \A key, e : Says(n, key, e) <=> \/ Says(m, key, e)
                                          \/ key = k /\ e = Left(id, PosKey(p))
                                          \/ key = PosKey(p) /\ e = Entered(id, source)
  <2>1. PICK source \in {k, NoKey} :
            \A key, e : Says(n, key, e) <=> Says(w, key, e) \/ (key = PosKey(p) /\ e = Entered(id, source))
    BY <1>6 DEF Added
  <2>2. \A key, e : Says(w, key, e) <=> Says(m, key, e) \/ (key = k /\ e = Left(id, PosKey(p)))
    BY <1>5 DEF Dropped, k
  <2> QED BY <2>1, <2>2
<1>10. TrackedOnce(n)
  <2>1. \A x : x \in Everyone(n) <=> x \in Everyone(m)
    BY <1>3, <1>8, EveryoneIsHeld
  <2>2. Apart(n) /\ Everyone(n) = Everyone(m)
    BY <1>6, <2>1 DEF Added
  <2> QED BY <1>3, <1>7, <2>2, TrackedIsApart
<1>11. PosKey(p) # k
  BY DEF k
<1>12. ASSUME Settled(m, id, k, k)
       PROVE  Settled(n, id, k, PosKey(p))
  BY <1>4, <1>8, <1>9, <1>11, <1>12, EventsDiffer DEF Settled
<1>13. ASSUME NEW x, NEW a, NEW b, x # id, Settled(m, x, a, b)
       PROVE  Settled(n, x, a, b)
  BY <1>8, <1>9, <1>13, EventsDiffer DEF Settled
<1>14. m.tracked \cup {id} = n.tracked
  BY <1>3, <1>7
<1>15. \A l, e : Says(n, l, e) => Says(m, l, e) \/ e.id = id
  BY <1>9 DEF Entered, Left
<1> QED BY <1>1, <1>2, <1>4, <1>7, <1>10, <1>12, <1>13, <1>14, <1>15 DEF Stepped, k

(* An entity that has no position any more.                                *)
THEOREM EntityGoes ==
    ASSUME NEW m, Sound(m), TrackedOnce(m), NEW i \in DOMAIN m.regions,
           NEW id \in m.regions[i].bitset
    PROVE  Stepped(m, [DropEntity(m, i, id, NoKey) EXCEPT !.tracked = @ \ {id}],
                   id, m.regions[i].key, NoKey)
<1> DEFINE k == m.regions[i].key
<1>1. PICK w : w = DropEntity(m, i, id, NoKey)
  OBVIOUS
<1>2. PICK n : n = [w EXCEPT !.tracked = @ \ {id}]
  OBVIOUS
<1>3. Apart(m) /\ m.tracked = Everyone(m) /\ id \in Everyone(m)
  BY TrackedIsApart DEF Everyone
<1>4. k # NoKey
  <2>1. m.regions[i] \in RegionSet
    BY DEF Sound, MapSet
  <2>2. k \in Key
    BY <2>1 DEF RegionSet
  <2> QED BY <2>2, NoKeyIsNone
<1>5. Dropped(m, w, i, id, NoKey)
  BY <1>1, <1>3, DropKeeps
<1>6. n \in MapSet /\ n.regions = w.regions /\ n.tracked = m.tracked \ {id}
  BY <1>2, <1>5 DEF Sound, MapSet, Dropped
<1> HIDE DEF k
<1>7. Sound(n)
  <2>1. KeysDiffer(n.regions) /\ Exact(n.regions)
    BY <1>5, <1>6, MatchIsExact DEF Sound, Dropped
  <2> QED BY <1>6, <2>1, MatchIsExact DEF Sound
<1>8. /\ \A x, key : Holds(n, x, key) <=> Holds(m, x, key) /\ x # id
      /\ \A key, e : Says(n, key, e) <=> Says(m, key, e) \/ (key = k /\ e = Left(id, NoKey))
  BY <1>5, <1>6 DEF Dropped, Holds, Says, k
<1>9. TrackedOnce(n)
  <2>1. Apart(n)
    BY <1>5, <1>6 DEF Apart, Dropped
  <2>2. \A x : x \in Everyone(n) <=> x \in Everyone(m) /\ x # id
    BY <1>8, EveryoneIsHeld
  <2>3. Everyone(n) = n.tracked
    BY <1>3, <1>6, <2>2
  <2> QED BY <1>7, <2>1, <2>3, TrackedIsApart
<1>10. Kept(m, n)
  BY <1>5, <1>6 DEF Kept, Dropped
<1>11. ASSUME Settled(m, id, k, k)
       PROVE  Settled(n, id, k, NoKey)
  BY <1>4, <1>8, <1>11, EventsDiffer DEF Settled
<1>12. ASSUME NEW x, NEW a, NEW b, x # id, Settled(m, x, a, b)
       PROVE  Settled(n, x, a, b)
  BY <1>8, <1>12, EventsDiffer DEF Settled
<1>13. \A l, e : Says(n, l, e) => Says(m, l, e) \/ e.id = id
  BY <1>8 DEF Left
<1> QED BY <1>1, <1>2, <1>6, <1>7, <1>9, <1>10, <1>11, <1>12, <1>13 DEF Stepped, k

-----------------------------------------------------------------------------
(* Sorting: a relation R that orders the elements of S strictly.           *)
Orders(R, S) ==
    /\ \A a \in S : <<a, a>> \notin R
    /\ \A a, b, c \in S : <<a, b>> \in R /\ <<b, c>> \in R => <<a, c>> \in R
    /\ \A a, b \in S : a # b => <<a, b>> \in R \/ <<b, a>> \in R

(* A sequence of all elements of S, each once.                             *)
Lists(q, S) ==
    /\ q \in [1 .. Cardinality(S) -> S]
    /\ \A i, j \in 1 .. Cardinality(S) : q[i] = q[j] => i = j
    /\ \A a \in S : \E i \in 1 .. Cardinality(S) : q[i] = a

(* What is injective from the first numbers to as many elements is onto.   *)
LEMMA OnceIsAll ==
    ASSUME NEW S, IsFiniteSet(S), NEW q \in [1 .. Cardinality(S) -> S],
           \A i, j \in 1 .. Cardinality(S) : q[i] = q[j] => i = j
    PROVE  Lists(q, S)
<1> DEFINE n == Cardinality(S)
<1>1. n \in Nat
  BY FS_CardinalityType
<1>2. IsFiniteSet(1 .. n) /\ Cardinality(1 .. n) = n
  BY <1>1, FS_Interval
<1>3. q \in Injection(1 .. n, S)
  BY DEF Injection, IsInjective
<1>4. q \in Surjection(1 .. n, S)
  BY <1>2, <1>3, FS_Injection
<1> QED BY <1>4 DEF Lists, Surjection

(* Elements are placed by how many come before them.                       *)
LEMMA CanBeSorted ==
    ASSUME NEW S, IsFiniteSet(S), NEW R, Orders(R, S)
    PROVE  \E q \in [1 .. Cardinality(S) -> S] :
               \A i, j \in 1 .. Cardinality(S) : i < j => <<q[i], q[j]>> \in R
<1> DEFINE n      == Cardinality(S)
           low(a) == {b \in S : <<b, a>> \in R}
           rank   == [a \in S |-> Cardinality(low(a)) + 1]
<1>1. n \in Nat
  BY FS_CardinalityType
<1>2. ASSUME NEW a \in S
      PROVE  IsFiniteSet(low(a)) /\ Cardinality(low(a)) \in Nat /\ rank[a] \in 1 .. n
  <2>1. a \notin low(a) /\ low(a) \in SUBSET (S \ {a})
    BY DEF Orders
  <2>2. IsFiniteSet(S \ {a}) /\ Cardinality(S \ {a}) = n - 1
    BY FS_RemoveElement
  <2>3. IsFiniteSet(low(a)) /\ Cardinality(low(a)) <= n - 1
    <3> HIDE DEF low, n
    <3> QED BY <2>1, <2>2, FS_Subset
  <2>4. Cardinality(low(a)) \in Nat
    BY <2>3, FS_CardinalityType
  <2> QED BY <1>1, <2>3, <2>4
<1>3. ASSUME NEW a \in S, NEW b \in S, <<a, b>> \in R
      PROVE  rank[a] < rank[b]
  <2>1. a \notin low(a) /\ low(a) \cup {a} \in SUBSET low(b)
    BY <1>3 DEF Orders
  <2>2. IsFiniteSet(low(a)) /\ IsFiniteSet(low(b))
    BY <1>2
  <2>3. Cardinality(low(a) \cup {a}) = Cardinality(low(a)) + 1
    <3> HIDE DEF low
    <3> QED BY <2>1, <2>2, FS_AddElement
  <2>4. Cardinality(low(a) \cup {a}) <= Cardinality(low(b))
    <3> HIDE DEF low
    <3> QED BY <2>1, <2>2, FS_Subset
  <2>5. rank[a] = Cardinality(low(a)) + 1 /\ rank[b] = Cardinality(low(b)) + 1
    OBVIOUS
  <2>6. Cardinality(low(a)) \in Nat /\ Cardinality(low(b)) \in Nat
    BY <1>2
  <2> HIDE DEF rank, low
  <2> QED BY <2>3, <2>4, <2>5, <2>6
<1>4. rank \in [S -> 1 .. n]
  BY <1>2
<1> HIDE DEF low, rank, n
<1>5. \A a, b \in S : rank[a] = rank[b] => a = b
  <2> SUFFICES ASSUME NEW a \in S, NEW b \in S, a # b
               PROVE  rank[a] # rank[b]
    OBVIOUS
  <2>1. rank[a] \in Nat /\ rank[b] \in Nat
    BY <1>1, <1>4
  <2>2. rank[a] < rank[b] \/ rank[b] < rank[a]
    BY <1>3 DEF Orders
  <2> QED BY <2>1, <2>2
<1>6. rank \in Injection(S, 1 .. n)
  BY <1>4, <1>5 DEF Injection, IsInjective
<1>7. rank \in Surjection(S, 1 .. n)
  <2>1. IsFiniteSet(1 .. n) /\ Cardinality(1 .. n) = Cardinality(S)
    BY <1>1, FS_Interval DEF n
  <2> QED BY <1>6, <2>1, FS_Injection
<1> DEFINE q == [i \in 1 .. n |-> CHOOSE a \in S : rank[a] = i]
<1>8. ASSUME NEW i \in 1 .. n
      PROVE  q[i] \in S /\ rank[q[i]] = i
  <2>1. \E a \in S : rank[a] = i
    BY <1>7 DEF Surjection
  <2> QED BY <2>1
<1>9. ASSUME NEW i \in 1 .. n, NEW j \in 1 .. n, i < j
      PROVE  <<q[i], q[j]>> \in R
  <2>1. q[i] \in S /\ q[j] \in S /\ rank[q[i]] = i /\ rank[q[j]] = j
    BY <1>8
  <2> HIDE DEF q
  <2>2. q[i] # q[j] /\ ~(j < i)
    BY <1>1, <1>9, <2>1
  <2>3. ~(<<q[j], q[i]>> \in R)
    BY <1>3, <2>1, <2>2
  <2> QED BY <2>1, <2>2, <2>3 DEF Orders
<1>10. q \in [1 .. n -> S]
  BY <1>8
<1> HIDE DEF q
<1> QED BY <1>9, <1>10 DEF n

LEMMA IdsInOrder ==
    ASSUME NEW S \in SUBSET Nat, IsFiniteSet(S)
    PROVE  Lists(InOrder(S, <), S)
<1> DEFINE n == Cardinality(S)
           R == {e \in S \X S : e[1] < e[2]}
<1>1. Orders(R, S)
  BY DEF Orders
<1>2. \E q \in [1 .. n -> S] : \A i, j \in 1 .. n : i < j => q[i] < q[j]
  <2>1. PICK q \in [1 .. n -> S] : \A i, j \in 1 .. n : i < j => <<q[i], q[j]>> \in R
    <3> HIDE DEF R
    <3> QED BY <1>1, CanBeSorted
  <2>2. \A i, j \in 1 .. n : i < j => q[i] < q[j]
    BY <2>1
  <2> QED BY <2>2
<1>3. PICK q : q = InOrder(S, <)
  OBVIOUS
<1>4. q = CHOOSE r \in [1 .. n -> S] : \A i, j \in 1 .. n : i < j => r[i] < r[j]
  BY <1>3 DEF InOrder
<1>5. q \in [1 .. n -> S] /\ \A i, j \in 1 .. n : i < j => q[i] < q[j]
  BY <1>2, <1>4
<1>6. \A i, j \in 1 .. n : q[i] = q[j] => i = j
  <2> SUFFICES ASSUME NEW i \in 1 .. n, NEW j \in 1 .. n, i # j
               PROVE  q[i] # q[j]
    OBVIOUS
  <2>0. n \in Nat
    BY FS_CardinalityType
  <2>1. q[i] \in Nat /\ q[j] \in Nat /\ (i < j \/ j < i)
    <3>1. q[i] \in S /\ q[j] \in S
      BY <1>5
    <3>2. q[i] \in Nat /\ q[j] \in Nat
      BY <3>1
    <3>3. i < j \/ j < i
      BY ONLY <2>0, i \in 1 .. n, j \in 1 .. n, i # j
    <3> QED BY <3>2, <3>3
  <2> QED BY <1>5, <2>1
<1> QED BY <1>3, <1>5, <1>6, OnceIsAll

LEMMA FoundInOrder ==
    ASSUME NEW S \in SUBSET (Nat \X Nat), IsFiniteSet(S)
    PROVE  Lists(Found(S), S)
<1> DEFINE n == Cardinality(S)
           before(e, f) == e[1] < f[1] \/ (e[1] = f[1] /\ e[2] < f[2])
           R == {g \in S \X S : before(g[1], g[2])}
<1>1. /\ \A e, f \in S : <<e, f>> \in R <=> before(e, f)
      /\ \A e \in S : ~before(e, e)
      /\ \A e, f, g \in S : before(e, f) /\ before(f, g) => before(e, g)
      /\ \A e, f \in S : e # f => before(e, f) \/ before(f, e)
  OBVIOUS
<1> HIDE DEF R
<1>2. Orders(R, S)
  <2> HIDE DEF before
  <2> QED BY <1>1 DEF Orders
<1>3. \E q \in [1 .. n -> S] : \A i, j \in 1 .. n : i < j => before(q[i], q[j])
  <2>1. PICK q \in [1 .. n -> S] : \A i, j \in 1 .. n : i < j => <<q[i], q[j]>> \in R
    BY <1>2, CanBeSorted
  <2>2. \A i, j \in 1 .. n : i < j => before(q[i], q[j])
    <3> HIDE DEF before
    <3> QED BY <1>1, <2>1
  <2> QED BY <2>2
<1>4. PICK q : q = Found(S)
  OBVIOUS
<1>5. q = CHOOSE r \in [1 .. n -> S] : \A i, j \in 1 .. n : i < j => before(r[i], r[j])
  BY <1>4 DEF Found, InOrder
<1> HIDE DEF before
<1>6. q \in [1 .. n -> S] /\ \A i, j \in 1 .. n : i < j => before(q[i], q[j])
  BY <1>3, <1>5
<1>7. \A i, j \in 1 .. n : q[i] = q[j] => i = j
  <2> SUFFICES ASSUME NEW i \in 1 .. n, NEW j \in 1 .. n, i # j
               PROVE  q[i] # q[j]
    OBVIOUS
  <2>1. q[i] \in S /\ q[j] \in S /\ (i < j \/ j < i)
    BY <1>6
  <2> QED BY <1>1, <1>6, <2>1
<1> QED BY <1>4, <1>6, <1>7, OnceIsAll

-----------------------------------------------------------------------------
(* Loops.  A fold is a recursive function on sets of indices, which exists *)
(* for every length: of those for which it would not, there would be a     *)
(* least one.                                                              *)
LEMMA Least ==
    ASSUME NEW T, T \subseteq Nat, T # {}
    PROVE  \E m \in T : \A k \in T : m <= k
<1>1. PICK m \in T : \A k \in T : ~ (<<k, m>> \in OpToRel(<, Nat))
  BY WFMin, NatLessThanWellFounded
<1>2. ASSUME NEW k \in T
      PROVE  m <= k
  <2>1. k \in Nat /\ m \in Nat
    OBVIOUS
  <2>2. ~ (k < m)
    BY <1>1, <2>1 DEF OpToRel
  <2> QED BY <2>1, <2>2
<1> QED BY <1>2

(* What holds of 0 and is passed on holds up to n.                         *)
LEMMA Climb ==
    ASSUME NEW n \in Nat, NEW S, 0 \in S, \A k \in 0 .. n : k \in S /\ k < n => k + 1 \in S
    PROVE  \A k \in 0 .. n : k \in S
<1> SUFFICES ASSUME NEW j \in 0 .. n, j \notin S
             PROVE  FALSE
  OBVIOUS
<1> DEFINE T == {k \in 0 .. n : k \notin S}
<1>1. PICK m \in T : \A k \in T : m <= k
  <2>1. T \subseteq Nat /\ T # {}
    OBVIOUS
  <2> HIDE DEF T
  <2> QED BY <2>1, Least
<1>2. m \in 1 .. n /\ m \notin S
  BY <1>1
<1>3. m - 1 \in 0 .. n /\ m - 1 < n /\ m - 1 + 1 = m /\ ~(m <= m - 1)
  BY <1>2
<1>4. m - 1 \in S
  BY <1>1, <1>3
<1> QED BY <1>2, <1>3, <1>4

(* The bodies of the loops, by name, for whatever place says.              *)
Step(c, w, e, place) ==
    CASE c = "clear" -> Append(w, [e EXCEPT !.events = <<>>])
      [] c = "comes" -> [AddEntity(w, e, place[e], NoKey) EXCEPT !.tracked = @ \cup {e}]
      [] c = "moves" -> AddEntity(DropEntity(w, e[1], e[2], PosKey(place[e[2]])),
                                  e[2], place[e[2]], w.regions[e[1]].key)
      [] c = "goes"  -> [DropEntity(w, e[1], e[2], NoKey) EXCEPT !.tracked = @ \ {e[2]}]
      [] c = "empty" -> IF Removable(e) THEN RemoveKey(w, e.key) ELSE w
      [] c = "sync"  -> IF e.key \in subscription.regions THEN SyncRegion(w, e) ELSE w

IsFold(f, c, base, q, place, n) ==
    f = [s \in SUBSET (1 .. n) |->
            IF s = {} THEN base ELSE Step(c, f[s \ {Max(s)}], q[Max(s)], place)]

(* The values that a loop goes through.                                    *)
IsRun(r, c, base, q, place, n) ==
    r[0] = base /\ \A k \in 1 .. n : r[k] = Step(c, r[k - 1], q[k], place)

LEMMA FoldExists ==
    ASSUME NEW c, NEW base, NEW q, NEW place, NEW n \in Nat
    PROVE  \E f : IsFold(f, c, base, q, place, n)
<1> DEFINE S == {k \in Nat : \E f : IsFold(f, c, base, q, place, k)}
<1>1. 0 \in S
  <2> DEFINE f == [s \in SUBSET (1 .. 0) |-> base]
  <2>1. f = [s \in SUBSET (1 .. 0) |->
                IF s = {} THEN base ELSE Step(c, f[s \ {Max(s)}], q[Max(s)], place)]
    <3>1. \A s \in SUBSET (1 .. 0) : s = {}
      OBVIOUS
    <3> QED BY <3>1
  <2> HIDE DEF f
  <2>2. IsFold(f, c, base, q, place, 0)
    BY <2>1 DEF IsFold
  <2> QED BY <2>2
<1>2. ASSUME NEW k \in Nat, k \in S
      PROVE  k + 1 \in S
  <2> DEFINE m == k + 1
  <2>1. PICK f : IsFold(f, c, base, q, place, k)
    BY <1>2
  <2> DEFINE g == [s \in SUBSET (1 .. m) |->
                      IF m \in s THEN Step(c, f[s \ {m}], q[m], place) ELSE f[s]]
  <2>2. ASSUME NEW s \in SUBSET (1 .. m)
        PROVE  g[s] = IF s = {} THEN base ELSE Step(c, g[s \ {Max(s)}], q[Max(s)], place)
    <3>1. CASE m \in s
      <4>1. Max(s) = m
        <5>1. m \in s /\ \A y \in s : m >= y /\ y \in Int
          BY <3>1
        <5>2. \A x \in s : (\A y \in s : x >= y) => x = m
          BY <5>1
        <5> HIDE DEF m
        <5> QED BY <5>1, <5>2 DEF Max
      <4>2. s \ {m} \in SUBSET (1 .. m) /\ m \notin s \ {m}
        OBVIOUS
      <4> HIDE DEF m
      <4>3. g[s \ {m}] = f[s \ {m}]
        BY <4>2
      <4> QED BY <3>1, <4>1, <4>3
    <3>2. CASE m \notin s
      <4>1. s \in SUBSET (1 .. k)
        BY <3>2
      <4>2. f[s] = IF s = {} THEN base ELSE Step(c, f[s \ {Max(s)}], q[Max(s)], place)
        BY <2>1, <4>1 DEF IsFold
      <4>3. s \ {Max(s)} \in SUBSET (1 .. m) /\ m \notin s \ {Max(s)}
        BY <3>2
      <4> HIDE DEF m
      <4>4. g[s \ {Max(s)}] = f[s \ {Max(s)}]
        BY <4>3
      <4> QED BY <3>2, <4>2, <4>4
    <3> QED BY <3>1, <3>2
  <2>3. g = [s \in SUBSET (1 .. m) |-> g[s]]
    OBVIOUS
  <2> HIDE DEF g
  <2>4. g = [s \in SUBSET (1 .. m) |->
                IF s = {} THEN base ELSE Step(c, g[s \ {Max(s)}], q[Max(s)], place)]
    BY <2>2, <2>3
  <2>5. IsFold(g, c, base, q, place, m)
    BY <2>4 DEF IsFold
  <2> QED BY <2>5
<1> HIDE DEF S
<1>3. \A k \in 0 .. n : k \in S
  BY <1>1, <1>2, Climb
<1>4. n \in S
  BY <1>3
<1> QED BY <1>4 DEF S

(* Index after index, a fold is a loop.                                    *)
LEMMA FoldIsRun ==
    ASSUME NEW c, NEW base, NEW q, NEW place, NEW n \in Nat, NEW f, IsFold(f, c, base, q, place, n)
    PROVE  \E r : IsRun(r, c, base, q, place, n) /\ r[n] = f[1 .. n]
<1> DEFINE r == [k \in 0 .. n |-> f[1 .. k]]
<1>1. \A s \in SUBSET (1 .. n) :
          f[s] = IF s = {} THEN base ELSE Step(c, f[s \ {Max(s)}], q[Max(s)], place)
  BY DEF IsFold
<1>2. r[0] = base
  <2>1. 1 .. 0 = {} /\ 1 .. 0 \in SUBSET (1 .. n) /\ 0 \in 0 .. n
    OBVIOUS
  <2>2. r[0] = f[1 .. 0]
    BY <2>1
  <2> HIDE DEF r
  <2> QED BY <1>1, <2>1, <2>2
<1>3. ASSUME NEW k \in 1 .. n
      PROVE  r[k] = Step(c, r[k - 1], q[k], place)
  <2>1. /\ 1 .. k \in SUBSET (1 .. n) /\ 1 .. k # {}
        /\ (1 .. k) \ {k} = 1 .. k - 1
        /\ k \in 0 .. n /\ k - 1 \in 0 .. n
    OBVIOUS
  <2>2. Max(1 .. k) = k
    <3>1. k \in 1 .. k /\ \A y \in 1 .. k : k >= y
      OBVIOUS
    <3>2. \A x \in 1 .. k : (\A y \in 1 .. k : x >= y) => x = k
      BY <3>1
    <3> QED BY <3>1, <3>2 DEF Max
  <2>3. r[k] = f[1 .. k] /\ r[k - 1] = f[1 .. k - 1]
    BY <2>1
  <2> HIDE DEF r
  <2>4. f[1 .. k] = Step(c, f[(1 .. k) \ {k}], q[k], place)
    BY <1>1, <2>1, <2>2
  <2> QED BY <2>1, <2>3, <2>4
<1>4. r[n] = f[1 .. n]
  OBVIOUS
<1> HIDE DEF r
<1> QED BY <1>2, <1>3, <1>4 DEF IsRun

(* Each fold of the model is the loop with that body.                      *)
ClearAll(base, q) ==
    FoldLeft(LAMBDA w, e : Append(w, [e EXCEPT !.events = <<>>]), base, q)

LEMMA ClearLoop ==
    ASSUME NEW base, NEW q, NEW n \in Nat, DOMAIN q = 1 .. n
    PROVE  \E r : IsRun(r, "clear", base, q, <<>>, n) /\ ClearAll(base, q) = r[n]
<1> DEFINE Body(w, e) == Append(w, [e EXCEPT !.events = <<>>])
           whole(f) == [s \in SUBSET DOMAIN q |->
                           IF s = {} THEN base ELSE Body(f[s \ {Max(s)}], q[Max(s)])]
           g == CHOOSE f : f = whole(f)
<1>1. ClearAll(base, q) = g[DOMAIN q]
  BY DEF ClearAll, FoldLeft, MapThenFoldSet
<1>2. \A w, e : Step("clear", w, e, <<>>) = Body(w, e)
  BY DEF Step
<1> HIDE DEF Body
<1>3. \A f : IsFold(f, "clear", base, q, <<>>, n) <=> f = whole(f)
  BY <1>2 DEF IsFold
<1>4. IsFold(g, "clear", base, q, <<>>, n)
  <2>1. \E f : f = whole(f)
    BY <1>3, FoldExists
  <2> HIDE DEF whole
  <2>2. g = whole(g)
    BY <2>1
  <2> QED BY <1>3, <2>2
<1> HIDE DEF g
<1>5. PICK r : IsRun(r, "clear", base, q, <<>>, n) /\ r[n] = g[1 .. n]
  BY <1>4, FoldIsRun
<1> QED BY <1>1, <1>5

ComesAll(place, base, q) ==
    FoldLeft(LAMBDA w, e : [AddEntity(w, e, place[e], NoKey) EXCEPT !.tracked = @ \cup {e}], base, q)

LEMMA ComesLoop ==
    ASSUME NEW base, NEW q, NEW n \in Nat, DOMAIN q = 1 .. n, NEW place
    PROVE  \E r : IsRun(r, "comes", base, q, place, n) /\ ComesAll(place, base, q) = r[n]
<1> DEFINE Body(w, e) == [AddEntity(w, e, place[e], NoKey) EXCEPT !.tracked = @ \cup {e}]
           whole(f) == [s \in SUBSET DOMAIN q |->
                           IF s = {} THEN base ELSE Body(f[s \ {Max(s)}], q[Max(s)])]
           g == CHOOSE f : f = whole(f)
<1>1. ComesAll(place, base, q) = g[DOMAIN q]
  BY DEF ComesAll, FoldLeft, MapThenFoldSet
<1>2. \A w, e : Step("comes", w, e, place) = Body(w, e)
  BY DEF Step
<1> HIDE DEF Body
<1>3. \A f : IsFold(f, "comes", base, q, place, n) <=> f = whole(f)
  BY <1>2 DEF IsFold
<1>4. IsFold(g, "comes", base, q, place, n)
  <2>1. \E f : f = whole(f)
    BY <1>3, FoldExists
  <2> HIDE DEF whole
  <2>2. g = whole(g)
    BY <2>1
  <2> QED BY <1>3, <2>2
<1> HIDE DEF g
<1>5. PICK r : IsRun(r, "comes", base, q, place, n) /\ r[n] = g[1 .. n]
  BY <1>4, FoldIsRun
<1> QED BY <1>1, <1>5

MovesAll(place, base, q) ==
    FoldLeft(LAMBDA w, e : AddEntity(DropEntity(w, e[1], e[2], PosKey(place[e[2]])), e[2], place[e[2]], w.regions[e[1]].key), base, q)

LEMMA MovesLoop ==
    ASSUME NEW base, NEW q, NEW n \in Nat, DOMAIN q = 1 .. n, NEW place
    PROVE  \E r : IsRun(r, "moves", base, q, place, n) /\ MovesAll(place, base, q) = r[n]
<1> DEFINE Body(w, e) == AddEntity(DropEntity(w, e[1], e[2], PosKey(place[e[2]])), e[2], place[e[2]], w.regions[e[1]].key)
           whole(f) == [s \in SUBSET DOMAIN q |->
                           IF s = {} THEN base ELSE Body(f[s \ {Max(s)}], q[Max(s)])]
           g == CHOOSE f : f = whole(f)
<1>1. MovesAll(place, base, q) = g[DOMAIN q]
  BY DEF MovesAll, FoldLeft, MapThenFoldSet
<1>2. \A w, e : Step("moves", w, e, place) = Body(w, e)
  BY DEF Step
<1> HIDE DEF Body
<1>3. \A f : IsFold(f, "moves", base, q, place, n) <=> f = whole(f)
  BY <1>2 DEF IsFold
<1>4. IsFold(g, "moves", base, q, place, n)
  <2>1. \E f : f = whole(f)
    BY <1>3, FoldExists
  <2> HIDE DEF whole
  <2>2. g = whole(g)
    BY <2>1
  <2> QED BY <1>3, <2>2
<1> HIDE DEF g
<1>5. PICK r : IsRun(r, "moves", base, q, place, n) /\ r[n] = g[1 .. n]
  BY <1>4, FoldIsRun
<1> QED BY <1>1, <1>5

GoesAll(base, q) ==
    FoldLeft(LAMBDA w, e : [DropEntity(w, e[1], e[2], NoKey) EXCEPT !.tracked = @ \ {e[2]}], base, q)

LEMMA GoesLoop ==
    ASSUME NEW base, NEW q, NEW n \in Nat, DOMAIN q = 1 .. n
    PROVE  \E r : IsRun(r, "goes", base, q, <<>>, n) /\ GoesAll(base, q) = r[n]
<1> DEFINE Body(w, e) == [DropEntity(w, e[1], e[2], NoKey) EXCEPT !.tracked = @ \ {e[2]}]
           whole(f) == [s \in SUBSET DOMAIN q |->
                           IF s = {} THEN base ELSE Body(f[s \ {Max(s)}], q[Max(s)])]
           g == CHOOSE f : f = whole(f)
<1>1. GoesAll(base, q) = g[DOMAIN q]
  BY DEF GoesAll, FoldLeft, MapThenFoldSet
<1>2. \A w, e : Step("goes", w, e, <<>>) = Body(w, e)
  BY DEF Step
<1> HIDE DEF Body
<1>3. \A f : IsFold(f, "goes", base, q, <<>>, n) <=> f = whole(f)
  BY <1>2 DEF IsFold
<1>4. IsFold(g, "goes", base, q, <<>>, n)
  <2>1. \E f : f = whole(f)
    BY <1>3, FoldExists
  <2> HIDE DEF whole
  <2>2. g = whole(g)
    BY <2>1
  <2> QED BY <1>3, <2>2
<1> HIDE DEF g
<1>5. PICK r : IsRun(r, "goes", base, q, <<>>, n) /\ r[n] = g[1 .. n]
  BY <1>4, FoldIsRun
<1> QED BY <1>1, <1>5

EmptyAll(base, q) ==
    FoldLeft(LAMBDA w, e : IF Removable(e) THEN RemoveKey(w, e.key) ELSE w, base, q)

LEMMA EmptyLoop ==
    ASSUME NEW base, NEW q, NEW n \in Nat, DOMAIN q = 1 .. n
    PROVE  \E r : IsRun(r, "empty", base, q, <<>>, n) /\ EmptyAll(base, q) = r[n]
<1> DEFINE Body(w, e) == IF Removable(e) THEN RemoveKey(w, e.key) ELSE w
           whole(f) == [s \in SUBSET DOMAIN q |->
                           IF s = {} THEN base ELSE Body(f[s \ {Max(s)}], q[Max(s)])]
           g == CHOOSE f : f = whole(f)
<1>1. EmptyAll(base, q) = g[DOMAIN q]
  BY DEF EmptyAll, FoldLeft, MapThenFoldSet
<1>2. \A w, e : Step("empty", w, e, <<>>) = Body(w, e)
  BY DEF Step
<1> HIDE DEF Body
<1>3. \A f : IsFold(f, "empty", base, q, <<>>, n) <=> f = whole(f)
  BY <1>2 DEF IsFold
<1>4. IsFold(g, "empty", base, q, <<>>, n)
  <2>1. \E f : f = whole(f)
    BY <1>3, FoldExists
  <2> HIDE DEF whole
  <2>2. g = whole(g)
    BY <2>1
  <2> QED BY <1>3, <2>2
<1> HIDE DEF g
<1>5. PICK r : IsRun(r, "empty", base, q, <<>>, n) /\ r[n] = g[1 .. n]
  BY <1>4, FoldIsRun
<1> QED BY <1>1, <1>5

SyncAll(base, q) ==
    FoldLeft(LAMBDA w, e : IF e.key \in subscription.regions THEN SyncRegion(w, e) ELSE w, base, q)

LEMMA SyncLoop ==
    ASSUME NEW base, NEW q, NEW n \in Nat, DOMAIN q = 1 .. n
    PROVE  \E r : IsRun(r, "sync", base, q, <<>>, n) /\ SyncAll(base, q) = r[n]
<1> DEFINE Body(w, e) == IF e.key \in subscription.regions THEN SyncRegion(w, e) ELSE w
           whole(f) == [s \in SUBSET DOMAIN q |->
                           IF s = {} THEN base ELSE Body(f[s \ {Max(s)}], q[Max(s)])]
           g == CHOOSE f : f = whole(f)
<1>1. SyncAll(base, q) = g[DOMAIN q]
  BY DEF SyncAll, FoldLeft, MapThenFoldSet
<1>2. \A w, e : Step("sync", w, e, <<>>) = Body(w, e)
  BY DEF Step
<1> HIDE DEF Body
<1>3. \A f : IsFold(f, "sync", base, q, <<>>, n) <=> f = whole(f)
  BY <1>2 DEF IsFold
<1>4. IsFold(g, "sync", base, q, <<>>, n)
  <2>1. \E f : f = whole(f)
    BY <1>3, FoldExists
  <2> HIDE DEF whole
  <2>2. g = whole(g)
    BY <2>1
  <2> QED BY <1>3, <2>2
<1> HIDE DEF g
<1>5. PICK r : IsRun(r, "sync", base, q, <<>>, n) /\ r[n] = g[1 .. n]
  BY <1>4, FoldIsRun
<1> QED BY <1>1, <1>5
-----------------------------------------------------------------------------
(* The positions that a tick looks at.                                     *)
IsPlace(place) ==
    /\ DOMAIN place \in SUBSET Nat /\ IsFiniteSet(DOMAIN place)
    /\ \A id \in DOMAIN place : place[id] # NoPos => place[id] \in Int \X Int

(* The region in which an entity that was in old is to be after a tick.    *)
Goal(old, p) ==
    IF p = NoPos THEN NoKey ELSE IF old = NoKey \/ Switches(old, p) THEN PosKey(p) ELSE old

(* In the middle of a tick: the entities that are done are where they are  *)
(* to be, the others where they were, and the map says so.                 *)
Going(w, start, old, place, done) ==
    /\ Sound(w) /\ TrackedOnce(w) /\ Kept(start, w) /\ w.tracked \subseteq DOMAIN place
    /\ \A l, e : Says(w, l, e) => e.id \in DOMAIN place
    /\ \A x \in DOMAIN place :
          Settled(w, x, old[x], IF x \in done THEN Goal(old[x], place[x]) ELSE old[x])

LEMMA OneMoreDone ==
    ASSUME NEW w, NEW n, NEW start, NEW old, NEW place, NEW done,
           Going(w, start, old, place, done),
           NEW id \in DOMAIN place \ done,
           Stepped(w, n, id, old[id], Goal(old[id], place[id]))
    PROVE  Going(n, start, old, place, done \cup {id})
<1>1. Sound(n) /\ TrackedOnce(n)
  BY DEF Stepped
<1>2. Kept(start, n)
  BY DEF Going, Stepped, Kept
<1>3. n.tracked \subseteq DOMAIN place
  BY DEF Going, Stepped
<1>4. ASSUME NEW x \in DOMAIN place
      PROVE  Settled(n, x, old[x], IF x \in done \cup {id} THEN Goal(old[x], place[x]) ELSE old[x])
  <2>1. Settled(w, x, old[x], IF x \in done THEN Goal(old[x], place[x]) ELSE old[x])
    BY DEF Going
  <2>2. CASE x = id
    BY <2>1, <2>2 DEF Stepped
  <2>3. CASE x # id
    BY <2>1, <2>3 DEF Stepped
  <2> QED BY <2>2, <2>3
<1>5. \A l, e : Says(n, l, e) => e.id \in DOMAIN place
  BY DEF Going, Stepped
<1> QED BY <1>1, <1>2, <1>3, <1>4, <1>5 DEF Going

(* The first loop of a tick: entities that are not tracked come.           *)
LEMMA AllCome ==
    ASSUME NEW start, NEW old, NEW place, IsPlace(place), Going(start, start, old, place, {}),
           NEW U \in SUBSET DOMAIN place, \A id \in U : place[id] # NoPos /\ old[id] = NoKey
    PROVE  Going(ComesAll(place, start, InOrder(U, <)), start, old, place, U)
<1> DEFINE q == InOrder(U, <)
           n == Cardinality(U)
<1>1. n \in Nat /\ Lists(q, U)
  <2>1. U \in SUBSET Nat /\ IsFiniteSet(U)
    BY FS_Subset DEF IsPlace
  <2> QED BY <2>1, IdsInOrder, FS_CardinalityType
<1>2. DOMAIN q = 1 .. n
  BY <1>1 DEF Lists
<1> HIDE DEF q, n
<1>3. PICK r : IsRun(r, "comes", start, q, place, n) /\ ComesAll(place, start, q) = r[n]
  BY <1>1, <1>2, ComesLoop
<1> DEFINE done(k) == {q[j] : j \in 1 .. k}
           S == {k \in 0 .. n : Going(r[k], start, old, place, done(k))}
<1>4. 0 \in S
  <2>1. done(0) = {} /\ 0 \in 0 .. n
    BY <1>1
  <2>2. r[0] = start
    BY <1>3 DEF IsRun
  <2> HIDE DEF done
  <2> QED BY <2>1, <2>2
<1>5. ASSUME NEW k \in 0 .. n, k \in S, k < n
      PROVE  k + 1 \in S
  <2> DEFINE id == q[k + 1]
             w  == r[k]
  <2>1. Going(w, start, old, place, done(k))
    BY <1>5
  <2>2. k + 1 \in 1 .. n /\ k + 1 - 1 = k /\ 1 .. k \in SUBSET (1 .. n) /\ k + 1 \notin 1 .. k
        /\ 1 .. k + 1 = (1 .. k) \cup {k + 1}
    BY <1>1, <1>5
  <2>3. id \in U /\ id \notin done(k)
    BY <1>1, <2>2 DEF Lists, n
  <2>4. done(k + 1) = done(k) \cup {id}
    BY <2>2
  <2>5. r[k + 1] = [AddEntity(w, id, place[id], NoKey) EXCEPT !.tracked = @ \cup {id}]
    <3>1. r[k + 1] = Step("comes", r[k + 1 - 1], q[k + 1], place)
      BY <1>3, <2>2 DEF IsRun
    <3>2. r[k + 1] = Step("comes", w, id, place)
      BY <2>2, <3>1
    <3> HIDE DEF w, id
    <3> QED BY <3>2 DEF Step
  <2> HIDE DEF done, id, w
  <2>6. Sound(w) /\ TrackedOnce(w) /\ Settled(w, id, NoKey, NoKey)
    BY <2>1, <2>3 DEF Going
  <2>7. id \in Nat \ w.tracked
    <3>1. id \notin Everyone(w)
      BY <2>6, EveryoneIsHeld DEF Settled
    <3> QED BY <2>3, <2>6, <3>1, TrackedIsApart DEF IsPlace
  <2>8. place[id] \in Int \X Int
    BY <2>3 DEF IsPlace
  <2>9. Stepped(w, r[k + 1], id, NoKey, PosKey(place[id]))
    BY <2>5, <2>6, <2>7, <2>8, EntityComes
  <2>10. old[id] = NoKey /\ Goal(old[id], place[id]) = PosKey(place[id])
    BY <2>3 DEF Goal
  <2>11. Going(r[k + 1], start, old, place, done(k) \cup {id})
    BY <2>1, <2>3, <2>9, <2>10, OneMoreDone
  <2>12. k + 1 \in 0 .. n
    BY <2>2
  <2> QED BY <2>4, <2>11, <2>12
<1>6. Going(r[n], start, old, place, done(n))
  <2> HIDE DEF S
  <2>1. \A k \in 0 .. n : k \in S
    BY <1>1, <1>4, <1>5, Climb
  <2>2. n \in S
    BY <1>1, <2>1
  <2> QED BY <2>2 DEF S
<1>7. done(n) = U
  BY <1>1 DEF Lists, n
<1> HIDE DEF done
<1> QED BY <1>3, <1>6, <1>7 DEF q

LEMMA ReverseLists ==
    ASSUME NEW q, NEW S, Cardinality(S) \in Nat, Lists(q, S)
    PROVE  Lists(Reverse(q), S)
<1> DEFINE n == Cardinality(S)
           r == Reverse(q)
<1>1. Len(q) = n /\ n \in Nat /\ q \in [1 .. n -> S]
  BY DEF Lists
<1>2. r = [i \in 1 .. n |-> q[n - i + 1]]
  BY <1>1 DEF Reverse
<1> HIDE DEF r, n
<1>3. \A i \in 1 .. n : n - i + 1 \in 1 .. n /\ n - (n - i + 1) + 1 = i
  BY <1>1
<1>4. r \in [1 .. n -> S] /\ \A i \in 1 .. n : r[i] = q[n - i + 1]
  BY <1>1, <1>2, <1>3
<1>5. \A i, j \in 1 .. n : r[i] = r[j] => i = j
  <2> SUFFICES ASSUME NEW i \in 1 .. n, NEW j \in 1 .. n, r[i] = r[j]
               PROVE  i = j
    OBVIOUS
  <2>1. n - i + 1 = n - j + 1
    BY <1>3, <1>4 DEF Lists, n
  <2> QED BY <1>1, <2>1
<1>6. ASSUME NEW a \in S
      PROVE  \E i \in 1 .. n : r[i] = a
  <2>1. PICK i \in 1 .. n : q[i] = a
    BY DEF Lists, n
  <2>2. r[n - i + 1] = q[n - (n - i + 1) + 1]
    BY <1>3, <1>4
  <2> QED BY <1>3, <2>1, <2>2
<1> QED BY <1>4, <1>5, <1>6 DEF Lists, n, r

(* A pair of a region at that index to begin with and an entity that is in *)
(* it and has not had its turn.                                            *)
Due(start, old, place, done, e) ==
    /\ e \in Nat \X Nat
    /\ e[1] \in DOMAIN start.regions
    /\ e[2] \in start.regions[e[1]].bitset
    /\ e[2] \in DOMAIN place \ done
    /\ old[e[2]] = start.regions[e[1]].key

(* The second loop: entities that have switched to another region move.    *)
LEMMA AllMove ==
    ASSUME NEW base, NEW start, NEW old, NEW place, IsPlace(place),
           NEW done, Going(base, start, old, place, done), Apart(start), NEW E, IsFiniteSet(E),
           \A e \in E : Due(start, old, place, done, e) /\ place[e[2]] # NoPos /\ Switches(start.regions[e[1]].key, place[e[2]])
    PROVE  Going(MovesAll(place, base, Reverse(Found(E))), start, old, place, done \cup {e[2] : e \in E})
<1> DEFINE q == Reverse(Found(E))
           n == Cardinality(E)
<1>1. n \in Nat /\ Lists(q, E)
  <2>1. E \in SUBSET (Nat \X Nat)
    BY DEF Due, IsPlace
  <2>2. n \in Nat
    BY FS_CardinalityType
  <2> HIDE DEF n
  <2>3. Lists(Found(E), E)
    BY <2>1, FoundInOrder
  <2> QED BY <2>2, <2>3, ReverseLists DEF n
<1>2. DOMAIN q = 1 .. n
  BY <1>1 DEF Lists
<1> HIDE DEF q, n
<1>3. PICK r : IsRun(r, "moves", base, q, place, n) /\ MovesAll(place, base, q) = r[n]
  BY <1>1, <1>2, MovesLoop
<1> DEFINE sofar(k) == done \cup {q[j][2] : j \in 1 .. k}
           S == {k \in 0 .. n : Going(r[k], start, old, place, sofar(k))}
<1>4. 0 \in S
  <2>1. sofar(0) = done /\ 0 \in 0 .. n
    BY <1>1
  <2>2. r[0] = base
    BY <1>3 DEF IsRun
  <2> HIDE DEF sofar
  <2> QED BY <2>1, <2>2
<1>5. ASSUME NEW k \in 0 .. n, k \in S, k < n
      PROVE  k + 1 \in S
  <2> DEFINE e  == q[k + 1]
             id == e[2]
             w  == r[k]
             p  == place[id]
  <2>1. Going(w, start, old, place, sofar(k))
    BY <1>5
  <2>2. k + 1 \in 1 .. n /\ k + 1 - 1 = k /\ 1 .. k \in SUBSET (1 .. n) /\ k + 1 \notin 1 .. k
        /\ 1 .. k + 1 = (1 .. k) \cup {k + 1}
    BY <1>1, <1>5
  <2>3. e \in E /\ \A j \in 1 .. k : q[j] \in E /\ q[j] # e
    BY <1>1, <2>2 DEF Lists, n
  <2>4. Due(start, old, place, done, e) /\ p # NoPos /\ Switches(start.regions[e[1]].key, p)
    BY <2>3
  <2>5. id \notin sofar(k)
    <3>1. ASSUME NEW f \in E, f[2] = id
          PROVE  f = e
      <4>1. Due(start, old, place, done, f)
        OBVIOUS
      <4> HIDE DEF e, id
      <4>2. id \in start.regions[f[1]].bitset /\ id \in start.regions[e[1]].bitset
            /\ f[1] \in DOMAIN start.regions /\ e[1] \in DOMAIN start.regions
        BY <2>4, <3>1, <4>1 DEF Due, id
      <4>3. f[1] = e[1]
        BY <4>2 DEF Apart
      <4> QED BY <2>4, <3>1, <4>1, <4>3 DEF Due, id
    <3> HIDE DEF e, id
    <3>2. id \notin done
      BY <2>4 DEF Due, id
    <3> QED BY <2>3, <3>1, <3>2
  <2>6. sofar(k + 1) = sofar(k) \cup {id}
    BY <2>2
  <2>7. r[k + 1] = AddEntity(DropEntity(w, e[1], id, PosKey(p)), id, p, w.regions[e[1]].key)
    <3>1. r[k + 1] = Step("moves", r[k + 1 - 1], q[k + 1], place)
      BY <1>3, <2>2 DEF IsRun
    <3>2. r[k + 1] = Step("moves", w, e, place)
      BY <2>2, <3>1
    <3> HIDE DEF w, e
    <3> QED BY <3>2 DEF Step
  <2>8. /\ id \in DOMAIN place /\ id \notin done /\ e[1] \in DOMAIN start.regions
        /\ id \in start.regions[e[1]].bitset /\ old[id] = start.regions[e[1]].key
    BY <2>4 DEF Due
  <2> HIDE DEF sofar, e, id, w
  <2>9. Sound(w) /\ TrackedOnce(w) /\ Kept(start, w) /\ Settled(w, id, old[id], old[id])
    BY <2>1, <2>5, <2>8 DEF Going
  <2>10. e[1] \in DOMAIN w.regions /\ w.regions[e[1]].key = old[id]
    BY <2>8, <2>9 DEF Kept
  <2>11. id \in w.regions[e[1]].bitset
    <3>1. old[id] # NoKey
      <4>1. w.regions[e[1]] \in RegionSet
        BY <2>9, <2>10 DEF Sound, MapSet
      <4>2. old[id] \in Key
        BY <2>10, <4>1 DEF RegionSet
      <4> QED BY <4>2, NoKeyIsNone
    <3>2. PICK i \in DOMAIN w.regions : w.regions[i].key = old[id] /\ id \in w.regions[i].bitset
      BY <2>9, <3>1 DEF Settled, Holds
    <3>3. i = e[1]
      BY <2>9, <2>10, <3>2 DEF Sound, KeysDiffer
    <3> QED BY <3>2, <3>3
  <2>12. p \in Int \X Int /\ PosKey(p) # old[id] /\ Goal(old[id], p) = PosKey(p)
    <3>1. p # NoPos /\ Switches(old[id], p)
      BY <2>4, <2>8
    <3>2. p \in Int \X Int
      BY <2>8, <3>1 DEF IsPlace
    <3> HIDE DEF p
    <3> QED BY <3>1, <3>2 DEF Switches, Goal
  <2>13. Stepped(w, r[k + 1], id, old[id], Goal(old[id], place[id]))
    BY <2>7, <2>9, <2>10, <2>11, <2>12, EntityMoves
  <2>14. Going(r[k + 1], start, old, place, sofar(k) \cup {id})
    BY <2>1, <2>5, <2>8, <2>13, OneMoreDone
  <2>15. k + 1 \in 0 .. n
    BY <2>2
  <2> QED BY <2>6, <2>14, <2>15
<1>6. Going(r[n], start, old, place, sofar(n))
  <2> HIDE DEF S
  <2>1. \A k \in 0 .. n : k \in S
    BY <1>1, <1>4, <1>5, Climb
  <2>2. n \in S
    BY <1>1, <2>1
  <2> QED BY <2>2 DEF S
<1>7. sofar(n) = done \cup {e[2] : e \in E}
  <2>1. \A x : x \in {q[j][2] : j \in 1 .. n} <=> x \in {e[2] : e \in E}
    BY <1>1 DEF Lists, n
  <2> QED BY <2>1
<1> HIDE DEF sofar
<1> QED BY <1>3, <1>6, <1>7 DEF q

(* The third loop: entities without a position go.                         *)
LEMMA AllGo ==
    ASSUME NEW base, NEW start, NEW old, NEW place, IsPlace(place),
           NEW done, Going(base, start, old, place, done), Apart(start), NEW E, IsFiniteSet(E),
           \A e \in E : Due(start, old, place, done, e) /\ place[e[2]] = NoPos
    PROVE  Going(GoesAll(base, Found(E)), start, old, place, done \cup {e[2] : e \in E})
<1> DEFINE q == Found(E)
           n == Cardinality(E)
<1>1. n \in Nat /\ Lists(q, E)
  <2>1. E \in SUBSET (Nat \X Nat)
    BY DEF Due, IsPlace
  <2>2. n \in Nat
    BY FS_CardinalityType
  <2> HIDE DEF n
  <2>3. Lists(Found(E), E)
    BY <2>1, FoundInOrder
  <2> QED BY <2>2, <2>3
<1>2. DOMAIN q = 1 .. n
  BY <1>1 DEF Lists
<1> HIDE DEF q, n
<1>3. PICK r : IsRun(r, "goes", base, q, <<>>, n) /\ GoesAll(base, q) = r[n]
  BY <1>1, <1>2, GoesLoop
<1> DEFINE sofar(k) == done \cup {q[j][2] : j \in 1 .. k}
           S == {k \in 0 .. n : Going(r[k], start, old, place, sofar(k))}
<1>4. 0 \in S
  <2>1. sofar(0) = done /\ 0 \in 0 .. n
    BY <1>1
  <2>2. r[0] = base
    BY <1>3 DEF IsRun
  <2> HIDE DEF sofar
  <2> QED BY <2>1, <2>2
<1>5. ASSUME NEW k \in 0 .. n, k \in S, k < n
      PROVE  k + 1 \in S
  <2> DEFINE e  == q[k + 1]
             id == e[2]
             w  == r[k]
             p  == place[id]
  <2>1. Going(w, start, old, place, sofar(k))
    BY <1>5
  <2>2. k + 1 \in 1 .. n /\ k + 1 - 1 = k /\ 1 .. k \in SUBSET (1 .. n) /\ k + 1 \notin 1 .. k
        /\ 1 .. k + 1 = (1 .. k) \cup {k + 1}
    BY <1>1, <1>5
  <2>3. e \in E /\ \A j \in 1 .. k : q[j] \in E /\ q[j] # e
    BY <1>1, <2>2 DEF Lists, n
  <2>4. Due(start, old, place, done, e) /\ p = NoPos
    BY <2>3
  <2>5. id \notin sofar(k)
    <3>1. ASSUME NEW f \in E, f[2] = id
          PROVE  f = e
      <4>1. Due(start, old, place, done, f)
        OBVIOUS
      <4> HIDE DEF e, id
      <4>2. id \in start.regions[f[1]].bitset /\ id \in start.regions[e[1]].bitset
            /\ f[1] \in DOMAIN start.regions /\ e[1] \in DOMAIN start.regions
        BY <2>4, <3>1, <4>1 DEF Due, id
      <4>3. f[1] = e[1]
        BY <4>2 DEF Apart
      <4> QED BY <2>4, <3>1, <4>1, <4>3 DEF Due, id
    <3> HIDE DEF e, id
    <3>2. id \notin done
      BY <2>4 DEF Due, id
    <3> QED BY <2>3, <3>1, <3>2
  <2>6. sofar(k + 1) = sofar(k) \cup {id}
    BY <2>2
  <2>7. r[k + 1] = [DropEntity(w, e[1], id, NoKey) EXCEPT !.tracked = @ \ {id}]
    <3>1. r[k + 1] = Step("goes", r[k + 1 - 1], q[k + 1], <<>>)
      BY <1>3, <2>2 DEF IsRun
    <3>2. r[k + 1] = Step("goes", w, e, <<>>)
      BY <2>2, <3>1
    <3> HIDE DEF w, e
    <3> QED BY <3>2 DEF Step
  <2>8. /\ id \in DOMAIN place /\ id \notin done /\ e[1] \in DOMAIN start.regions
        /\ id \in start.regions[e[1]].bitset /\ old[id] = start.regions[e[1]].key
    BY <2>4 DEF Due
  <2> HIDE DEF sofar, e, id, w
  <2>9. Sound(w) /\ TrackedOnce(w) /\ Kept(start, w) /\ Settled(w, id, old[id], old[id])
    BY <2>1, <2>5, <2>8 DEF Going
  <2>10. e[1] \in DOMAIN w.regions /\ w.regions[e[1]].key = old[id]
    BY <2>8, <2>9 DEF Kept
  <2>11. id \in w.regions[e[1]].bitset
    <3>1. old[id] # NoKey
      <4>1. w.regions[e[1]] \in RegionSet
        BY <2>9, <2>10 DEF Sound, MapSet
      <4>2. old[id] \in Key
        BY <2>10, <4>1 DEF RegionSet
      <4> QED BY <4>2, NoKeyIsNone
    <3>2. PICK i \in DOMAIN w.regions : w.regions[i].key = old[id] /\ id \in w.regions[i].bitset
      BY <2>9, <3>1 DEF Settled, Holds
    <3>3. i = e[1]
      BY <2>9, <2>10, <3>2 DEF Sound, KeysDiffer
    <3> QED BY <3>2, <3>3
  <2>12. Goal(old[id], p) = NoKey
    BY <2>4 DEF Goal
  <2>13. Stepped(w, r[k + 1], id, old[id], Goal(old[id], place[id]))
    BY <2>7, <2>9, <2>10, <2>11, <2>12, EntityGoes
  <2>14. Going(r[k + 1], start, old, place, sofar(k) \cup {id})
    BY <2>1, <2>5, <2>8, <2>13, OneMoreDone
  <2>15. k + 1 \in 0 .. n
    BY <2>2
  <2> QED BY <2>6, <2>14, <2>15
<1>6. Going(r[n], start, old, place, sofar(n))
  <2> HIDE DEF S
  <2>1. \A k \in 0 .. n : k \in S
    BY <1>1, <1>4, <1>5, Climb
  <2>2. n \in S
    BY <1>1, <2>1
  <2> QED BY <2>2 DEF S
<1>7. sofar(n) = done \cup {e[2] : e \in E}
  <2>1. \A x : x \in {q[j][2] : j \in 1 .. n} <=> x \in {e[2] : e \in E}
    BY <1>1 DEF Lists, n
  <2> QED BY <2>1
<1> HIDE DEF sofar
<1> QED BY <1>3, <1>6, <1>7 DEF q

(* The loop before them: the events of the last tick are forgotten.        *)
LEMMA AllCleared ==
    ASSUME NEW m, Sound(m), TrackedOnce(m)
    PROVE  LET n == [m EXCEPT !.regions = ClearAll(<<>>, m.regions)]
           IN  /\ Sound(n) /\ TrackedOnce(n) /\ n.tracked = m.tracked
               /\ DOMAIN n.regions = DOMAIN m.regions
               /\ \A i \in DOMAIN m.regions : /\ n.regions[i].key = m.regions[i].key
                                               /\ n.regions[i].bitset = m.regions[i].bitset
                                               /\ n.regions[i].events = <<>>
<1> DEFINE q == m.regions
           l == Len(q)
           quiet(i) == [q[i] EXCEPT !.events = <<>>]
<1>1. m \in MapSet /\ q \in Seq(RegionSet) /\ l \in Nat /\ DOMAIN q = 1 .. l /\ KeysDiffer(q) /\ Exact(q)
  BY MatchIsExact DEF Sound, MapSet
<1>2. ASSUME NEW i \in 1 .. l
      PROVE  /\ quiet(i) \in RegionSet
             /\ quiet(i).key = q[i].key /\ quiet(i).bitset = q[i].bitset
             /\ quiet(i).neighbors = q[i].neighbors /\ quiet(i).events = <<>>
  <2>1. q[i] \in RegionSet
    BY <1>1
  <2>2. PICK old : old = q[i]
    OBVIOUS
  <2>3. quiet(i) = [old EXCEPT !.events = <<>>] /\ old \in RegionSet
    BY <2>1, <2>2
  <2>4. <<>> \in Seq(RegionEvent)
    OBVIOUS
  <2> HIDE DEF quiet, q
  <2> QED BY <2>2, <2>3, <2>4 DEF RegionSet
<1> HIDE DEF l
<1>3. PICK r : IsRun(r, "clear", <<>>, q, <<>>, l) /\ ClearAll(<<>>, q) = r[l]
  <2> HIDE DEF q
  <2> QED BY <1>1, ClearLoop
<1> DEFINE S == {k \in 0 .. l : /\ r[k] \in Seq(RegionSet) /\ Len(r[k]) = k
                                /\ \A i \in 1 .. k : r[k][i] = quiet(i)}
<1>4. 0 \in S
  <2>1. r[0] = <<>> /\ 0 \in 0 .. l
    BY <1>1, <1>3 DEF IsRun
  <2>2. r[0] \in Seq(RegionSet) /\ Len(r[0]) = 0 /\ \A i \in 1 .. 0 : r[0][i] = quiet(i)
    <3> HIDE DEF quiet
    <3> QED BY <2>1
  <2> HIDE DEF quiet
  <2> QED BY <2>1, <2>2
<1>5. ASSUME NEW k \in 0 .. l, k \in S, k < l
      PROVE  k + 1 \in S
  <2>1. k + 1 \in 1 .. l /\ k + 1 - 1 = k /\ k + 1 \in 0 .. l /\ k \in Nat
        /\ \A i \in 1 .. k + 1 : i \in 1 .. k \/ i = k + 1
    BY <1>1, <1>5
  <2>2. r[k + 1] = Append(r[k], quiet(k + 1))
    <3>1. r[k + 1] = Step("clear", r[k + 1 - 1], q[k + 1], <<>>)
      BY <1>3, <2>1 DEF IsRun
    <3>2. r[k + 1] = Step("clear", r[k], q[k + 1], <<>>)
      BY <2>1, <3>1
    <3> HIDE DEF q
    <3> QED BY <3>2 DEF Step
  <2>3. r[k] \in Seq(RegionSet) /\ Len(r[k]) = k /\ \A i \in 1 .. k : r[k][i] = quiet(i)
    BY <1>5
  <2>4. quiet(k + 1) \in RegionSet
    BY <1>2, <2>1
  <2> HIDE DEF quiet
  <2>5. r[k + 1] \in Seq(RegionSet) /\ Len(r[k + 1]) = k + 1
    BY <2>2, <2>3, <2>4
  <2>6. \A i \in 1 .. k + 1 : r[k + 1][i] = quiet(i)
    <3>1. r[k + 1][k + 1] = quiet(k + 1) /\ \A i \in 1 .. k : r[k + 1][i] = r[k][i]
      BY <2>2, <2>3, <2>4
    <3> QED BY <2>1, <2>3, <3>1
  <2> QED BY <2>1, <2>5, <2>6
<1>6. r[l] \in Seq(RegionSet) /\ Len(r[l]) = l /\ \A i \in 1 .. l : r[l][i] = quiet(i)
  <2> HIDE DEF S
  <2>1. \A k \in 0 .. l : k \in S
    BY <1>1, <1>4, <1>5, Climb
  <2>2. l \in S
    BY <1>1, <2>1
  <2> QED BY <2>2 DEF S
<1>7. PICK n : n = [m EXCEPT !.regions = ClearAll(<<>>, m.regions)]
  OBVIOUS
<1>8. n \in MapSet /\ n.regions = r[l] /\ n.tracked = m.tracked
  BY <1>1, <1>3, <1>6, <1>7 DEF MapSet
<1>9. /\ DOMAIN n.regions = DOMAIN q
      /\ \A i \in DOMAIN q : /\ n.regions[i].key = q[i].key
                             /\ n.regions[i].bitset = q[i].bitset
                             /\ n.regions[i].neighbors = q[i].neighbors
                             /\ n.regions[i].events = <<>>
  <2>1. DOMAIN n.regions = 1 .. l
    BY <1>6, <1>8
  <2>2. \A i \in 1 .. l : n.regions[i] = quiet(i)
    BY <1>6, <1>8
  <2> HIDE DEF quiet
  <2> QED BY <1>1, <1>2, <2>1, <2>2
<1> HIDE DEF q
<1>10. KeysDiffer(n.regions) /\ Exact(n.regions)
  BY <1>1, <1>9 DEF KeysDiffer, Exact
<1>11. Sound(n)
  BY <1>8, <1>10, MatchIsExact DEF Sound
<1>12. TrackedOnce(n)
  BY <1>8, <1>9 DEF TrackedOnce, q
<1> QED BY <1>7, <1>8, <1>9, <1>11, <1>12 DEF q

(* The last loop: regions without entities and events are removed.         *)
LEMMA AllEmptied ==
    ASSUME NEW base, NEW start, Sound(base), TrackedOnce(base), Sound(start), Kept(start, base)
    PROVE  LET n == EmptyAll(base, start.regions)
           IN  /\ Sound(n) /\ TrackedOnce(n) /\ n.tracked = base.tracked
               /\ \A x, l : Holds(n, x, l) <=> Holds(base, x, l)
               /\ \A l, e : Says(n, l, e) <=> Says(base, l, e)
<1> DEFINE q == start.regions
           l == Len(q)
<1>1. q \in Seq(RegionSet) /\ l \in Nat /\ DOMAIN q = 1 .. l /\ KeysDiffer(q)
  BY DEF Sound, MapSet
<1> HIDE DEF q, l
<1>2. PICK r : IsRun(r, "empty", base, q, <<>>, l) /\ EmptyAll(base, q) = r[l]
  BY <1>1, EmptyLoop
<1> DEFINE good(w, k) == /\ Sound(w) /\ TrackedOnce(w) /\ w.tracked = base.tracked
                         /\ \A x, key : Holds(w, x, key) <=> Holds(base, x, key)
                         /\ \A key, e : Says(w, key, e) <=> Says(base, key, e)
                         /\ \A j \in 1 .. l : j > k => q[j].key \in Keys(w)
           S == {k \in 0 .. l : good(r[k], k)}
<1>3. 0 \in S
  <2>1. r[0] = base /\ 0 \in 0 .. l
    BY <1>1, <1>2 DEF IsRun
  <2>2. \A j \in 1 .. l : q[j].key \in Keys(base)
    BY <1>1 DEF Kept, Keys, q
  <2>3. good(base, 0)
    BY <2>2
  <2> HIDE DEF good
  <2> QED BY <2>1, <2>3
<1>4. ASSUME NEW k \in 0 .. l, k \in S, k < l
      PROVE  k + 1 \in S
  <2> DEFINE w   == r[k]
             e   == q[k + 1]
  <2>1. k + 1 \in 1 .. l /\ k + 1 - 1 = k /\ k + 1 \in 0 .. l /\ k + 1 > k
        /\ \A j \in 1 .. l : j > k + 1 => j > k /\ j # k + 1
    BY <1>1, <1>4
  <2>2. r[k + 1] = IF Removable(e) THEN RemoveKey(w, e.key) ELSE w
    <3>1. r[k + 1] = Step("empty", r[k + 1 - 1], q[k + 1], <<>>)
      BY <1>2, <2>1 DEF IsRun
    <3>2. r[k + 1] = Step("empty", w, e, <<>>)
      BY <2>1, <3>1
    <3> HIDE DEF w, e
    <3> QED BY <3>2 DEF Step
  <2>3. good(w, k)
    BY <1>4
  <2>4. \A j \in 1 .. l : j # k + 1 => q[j].key # e.key
    BY <1>1, <2>1 DEF KeysDiffer
  <2> HIDE DEF w
  <2>5. CASE ~Removable(e)
    <3>1. good(w, k + 1)
      BY <2>1, <2>3
    <3> HIDE DEF good, e
    <3> QED BY <2>1, <2>2, <2>5, <3>1
  <2>6. CASE Removable(e)
    <3>1. e.key \in Keys(w)
      BY <2>1, <2>3
    <3>2. Sound(w) /\ TrackedOnce(w)
      BY <2>3
    <3> HIDE DEF e
    <3>3. KeyIndex(w, e.key) # None
      <4>1. PICK i \in DOMAIN w.regions : w.regions[i].key = e.key
        BY <3>1 DEF Keys
      <4>2. None \notin DOMAIN w.regions
        BY <3>2 DEF Sound, MapSet, None
      <4>3. w \in MapSet /\ KeysDiffer(w.regions)
        BY <3>2 DEF Sound
      <4> QED BY <4>1, <4>2, <4>3, KeyIndexFinds
    <3>4. PICK n : n = r[k + 1]
      OBVIOUS
    <3>5. n = RemoveKey(w, e.key)
      BY <2>2, <2>6, <3>4
    <3>6. Emptied(w, n, e.key)
      BY <3>2, <3>3, <3>5, RegionGoes
    <3>7. good(n, k + 1)
      BY <2>1, <2>3, <2>4, <3>6 DEF Emptied
    <3> HIDE DEF good
    <3> QED BY <2>1, <3>4, <3>7
  <2> QED BY <2>5, <2>6
<1>5. good(r[l], l)
  <2> HIDE DEF S
  <2>1. \A k \in 0 .. l : k \in S
    BY <1>1, <1>3, <1>4, Climb
  <2>2. l \in S
    BY <1>1, <2>1
  <2> QED BY <2>2 DEF S
<1>6. EmptyAll(base, start.regions) = r[l]
  BY <1>2 DEF q
<1> QED BY <1>5, <1>6

-----------------------------------------------------------------------------
LEMMA FindIsWhere ==
    ASSUME NEW m, Sound(m), TrackedOnce(m), NEW x
    PROVE  /\ \A key : Holds(m, x, key) <=> key = FindRegion(m, x) /\ FindRegion(m, x) # NoKey
           /\ x \in m.tracked <=> FindRegion(m, x) # NoKey
           /\ FindRegion(m, x) \in Key \cup {NoKey}
<1> DEFINE at == {i \in DOMAIN m.regions : x \in m.regions[i].bitset}
<1>1. Apart(m) /\ m.tracked = Everyone(m)
  BY TrackedIsApart
<1>2. CASE at = {}
  <2>1. \A key : ~Holds(m, x, key)
    BY <1>2 DEF Holds
  <2>2. FindRegion(m, x) = NoKey
    BY <1>2 DEF FindRegion
  <2>3. x \notin m.tracked
    BY <1>1, <2>1, EveryoneIsHeld
  <2> QED BY <2>1, <2>2, <2>3
<1>3. CASE at # {}
  <2>1. PICK i : i = CHOOSE j \in at : TRUE
    OBVIOUS
  <2>2. i \in DOMAIN m.regions /\ x \in m.regions[i].bitset
    BY <1>3, <2>1
  <2>3. FindRegion(m, x) = m.regions[i].key
    BY <1>3, <2>1 DEF FindRegion
  <2>4. m.regions[i].key \in Key
    <3>1. m.regions[i] \in RegionSet
      BY <2>2 DEF Sound, MapSet
    <3> QED BY <3>1 DEF RegionSet
  <2>5. Holds(m, x, m.regions[i].key)
    BY <2>2 DEF Holds
  <2>6. \A key : Holds(m, x, key) => key = m.regions[i].key
    BY <1>1, <2>5, HeldOnce
  <2>7. x \in m.tracked
    BY <1>1, <2>5, EveryoneIsHeld
  <2> QED BY <2>3, <2>4, <2>5, <2>6, <2>7, NoKeyIsNone
<1> QED BY <1>2, <1>3

(* A tick of the region map, for any number of regions, entities and       *)
(* positions: the tables of neighbours are exact and every entity is in    *)
(* one region; it has stayed, or switched to the region it is over, or is  *)
(* gone, and the two regions have said so and no others.                   *)
Ticked(m, n, place) ==
    /\ Sound(n) /\ TrackedOnce(n) /\ n.tracked \subseteq DOMAIN place
    /\ \A l, e : Says(n, l, e) => e.id \in DOMAIN place
    /\ \A x \in DOMAIN place :
          Settled(n, x, FindRegion(m, x), Goal(FindRegion(m, x), place[x]))

THEOREM RegionsTick ==
    ASSUME NEW m, Sound(m), TrackedOnce(m), NEW place, IsPlace(place), m.tracked \subseteq DOMAIN place
    PROVE  Ticked(m, TickRegions(m, place), place)
<1> DEFINE D         == DOMAIN place
           old       == [x \in D |-> FindRegion(m, x)]
           cleared   == ClearEvents(m)
           untracked == {id \in D : place[id] # NoPos} \ m.tracked
           added     == ComesAll(place, cleared, InOrder(untracked, <))
           held      == UNION {{i} \X added.regions[i].bitset : i \in DOMAIN added.regions}
           movers    == {e \in held : place[e[2]] # NoPos /\ Switches(added.regions[e[1]].key, place[e[2]])}
           goers     == {e \in held : place[e[2]] = NoPos}
           moved     == MovesAll(place, added, Reverse(Found(movers)))
           left      == GoesAll(moved, Found(goers))
           last      == EmptyAll(left, added.regions)
           Mv        == {e[2] : e \in movers}
           Go        == {e[2] : e \in goers}
<1>1. TickRegions(m, place) = last
  BY DEF TickRegions, ComesAll, MovesAll, GoesAll, EmptyAll
<1>2. /\ Sound(cleared) /\ TrackedOnce(cleared) /\ cleared.tracked = m.tracked
      /\ DOMAIN cleared.regions = DOMAIN m.regions
      /\ \A i \in DOMAIN m.regions : /\ cleared.regions[i].key = m.regions[i].key
                                      /\ cleared.regions[i].bitset = m.regions[i].bitset
                                      /\ cleared.regions[i].events = <<>>
  <2>1. cleared = [m EXCEPT !.regions = ClearAll(<<>>, m.regions)]
    BY DEF ClearEvents, ClearAll
  <2> HIDE DEF cleared
  <2> QED BY <2>1, AllCleared
<1> HIDE DEF last, left, moved, added, cleared
<1>3. \A x \in D : old[x] = FindRegion(m, x)
  OBVIOUS
<1> HIDE DEF old
<1>4. Going(cleared, cleared, old, place, {})
  <2>1. ASSUME NEW x \in D
        PROVE  Settled(cleared, x, old[x], old[x])
    <3>1. \A key : Holds(cleared, x, key) <=> Holds(m, x, key)
      BY <1>2 DEF Holds
    <3>2. \A key, e : ~Says(cleared, key, e)
      BY <1>2 DEF Says, ToSet
    <3>3. \A key : Holds(m, x, key) <=> key = old[x] /\ old[x] # NoKey
      BY <1>3, FindIsWhere
    <3> QED BY <3>1, <3>2, <3>3 DEF Settled
  <2>2. \A l, e : ~Says(cleared, l, e)
    BY <1>2 DEF Says, ToSet
  <2> QED BY <1>2, <2>1, <2>2 DEF Going, Kept
<1>5. Going(added, cleared, old, place, untracked)
  <2>1. untracked \in SUBSET D
    OBVIOUS
  <2>2. \A id \in untracked : place[id] # NoPos /\ old[id] = NoKey
    BY <1>3, FindIsWhere
  <2> HIDE DEF untracked, D
  <2> QED BY <1>4, <2>1, <2>2, AllCome DEF added, D
<1>6. Sound(added) /\ TrackedOnce(added) /\ Apart(added) /\ added.tracked = Everyone(added) /\ Everyone(added) \subseteq D
  <2> HIDE DEF untracked
  <2> QED BY <1>5, TrackedIsApart DEF Going
<1>7. ASSUME NEW e
      PROVE  e \in held <=> /\ e = <<e[1], e[2]>> /\ e[1] \in DOMAIN added.regions
                            /\ e[2] \in added.regions[e[1]].bitset
  OBVIOUS
<1>8. held \in SUBSET (Nat \X D) /\ IsFiniteSet(held)
  <2>1. DOMAIN added.regions = 1 .. Len(added.regions) /\ Len(added.regions) \in Nat
    BY <1>6 DEF Sound, MapSet
  <2>2. \A i \in DOMAIN added.regions : added.regions[i].bitset \subseteq D
    BY <1>6 DEF Everyone
  <2>3. held \in SUBSET ((DOMAIN added.regions) \X D)
    BY <2>2
  <2>4. IsFiniteSet(DOMAIN added.regions) /\ IsFiniteSet(D)
    BY <2>1, FS_Interval DEF IsPlace
  <2> HIDE DEF held, D
  <2>5. IsFiniteSet((DOMAIN added.regions) \X D)
    BY <2>4, FS_Product
  <2>6. IsFiniteSet(held)
    BY <2>3, <2>5, FS_Subset
  <2> QED BY <2>1, <2>3, <2>6
<1>9. ASSUME NEW x \in D \ untracked, NEW i \in DOMAIN added.regions
      PROVE  x \in added.regions[i].bitset <=> old[x] # NoKey /\ added.regions[i].key = old[x]
  <2>1. Settled(added, x, old[x], old[x])
    <3> HIDE DEF untracked
    <3> QED BY <1>5 DEF Going
  <2>2. x \in added.regions[i].bitset => old[x] # NoKey /\ added.regions[i].key = old[x]
    BY <2>1 DEF Settled, Holds
  <2>3. ASSUME old[x] # NoKey, added.regions[i].key = old[x]
        PROVE  x \in added.regions[i].bitset
    <3>1. PICK j \in DOMAIN added.regions : added.regions[j].key = old[x] /\ x \in added.regions[j].bitset
      BY <2>1, <2>3 DEF Settled, Holds
    <3>2. j = i
      BY <1>6, <2>3, <3>1 DEF Sound, KeysDiffer
    <3> QED BY <3>1, <3>2
  <2> QED BY <2>2, <2>3
<1>10. ASSUME NEW x \in untracked, NEW i \in DOMAIN added.regions, x \in added.regions[i].bitset
       PROVE  added.regions[i].key = PosKey(place[x])
  <2>1. old[x] = NoKey /\ place[x] # NoPos /\ x \in D
    BY <1>3, FindIsWhere
  <2>2. Settled(added, x, old[x], PosKey(place[x]))
    <3> HIDE DEF untracked
    <3> QED BY <1>5, <2>1 DEF Going, Goal
  <2> QED BY <1>10, <2>2 DEF Settled, Holds
<1> HIDE DEF held
<1>11. ASSUME NEW e \in movers
       PROVE  /\ Due(added, old, place, untracked, e)
              /\ place[e[2]] # NoPos /\ Switches(added.regions[e[1]].key, place[e[2]])
  <2>1. e \in held /\ place[e[2]] # NoPos /\ Switches(added.regions[e[1]].key, place[e[2]])
    OBVIOUS
  <2>2. e[2] \notin untracked
    BY <1>7, <1>10, <2>1 DEF Switches
  <2>3. e \in Nat \X D
    BY <1>8, <2>1
  <2>4. e \in Nat \X Nat
    BY <2>3 DEF IsPlace
  <2> HIDE DEF untracked
  <2>5. old[e[2]] = added.regions[e[1]].key
    BY <1>7, <1>9, <2>1, <2>2, <2>3
  <2> QED BY <1>7, <2>1, <2>2, <2>3, <2>4, <2>5 DEF Due
<1>12. Going(moved, added, old, place, untracked \cup Mv)
  <2>1. IsFiniteSet(movers)
    BY <1>8, FS_Subset
  <2>2. Going(added, added, old, place, untracked)
    <3> HIDE DEF untracked
    <3> QED BY <1>5 DEF Going, Kept
  <2> HIDE DEF untracked, movers
  <2> QED BY <1>6, <1>11, <2>1, <2>2, AllMove DEF moved
<1>13. ASSUME NEW e \in goers
       PROVE  Due(added, old, place, untracked \cup Mv, e) /\ place[e[2]] = NoPos
  <2>1. e \in held /\ place[e[2]] = NoPos
    OBVIOUS
  <2>2. e[2] \notin untracked \cup Mv
    BY <2>1
  <2>3. e \in Nat \X D
    BY <1>8, <2>1
  <2>4. e \in Nat \X Nat
    BY <2>3 DEF IsPlace
  <2>5. e[2] \notin untracked
    BY <2>2
  <2> HIDE DEF untracked, movers
  <2>6. old[e[2]] = added.regions[e[1]].key
    BY <1>7, <1>9, <2>1, <2>5, <2>3
  <2> QED BY <1>7, <2>1, <2>2, <2>3, <2>4, <2>6 DEF Due
<1>14. Going(left, added, old, place, (untracked \cup Mv) \cup Go)
  <2>1. IsFiniteSet(goers)
    BY <1>8, FS_Subset
  <2> HIDE DEF untracked, movers, goers
  <2> QED BY <1>6, <1>12, <1>13, <2>1, AllGo DEF left
<1>15. ASSUME NEW x \in D, x \notin (untracked \cup Mv) \cup Go
       PROVE  Goal(old[x], place[x]) = old[x]
  <2>1. CASE old[x] = NoKey
    <3>1. x \notin m.tracked
      BY <1>3, <2>1, FindIsWhere
    <3>2. place[x] = NoPos
      BY <1>15, <3>1
    <3> QED BY <2>1, <3>2 DEF Goal
  <2>2. CASE old[x] # NoKey
    <3>1. x \notin untracked
      BY <1>15
    <3>2. Settled(added, x, old[x], old[x])
      <4> HIDE DEF untracked
      <4> QED BY <1>5, <3>1 DEF Going
    <3>3. PICK i \in DOMAIN added.regions : added.regions[i].key = old[x] /\ x \in added.regions[i].bitset
      BY <2>2, <3>2 DEF Settled, Holds
    <3> DEFINE e == <<i, x>>
    <3>4. e \in held /\ e[2] = x /\ e[1] = i
      BY <1>7, <3>3
    <3> HIDE DEF e
    <3>5. place[x] # NoPos
      BY <1>15, <3>4
    <3>6. ~Switches(old[x], place[x])
      BY <1>15, <3>3, <3>4, <3>5
    <3> QED BY <2>2, <3>5, <3>6 DEF Goal
  <2> QED BY <2>1, <2>2
<1> HIDE DEF untracked, movers, goers, Mv, Go, D
<1>16. /\ Sound(left) /\ TrackedOnce(left) /\ Kept(added, left) /\ left.tracked \subseteq DOMAIN place
       /\ \A l, e : Says(left, l, e) => e.id \in DOMAIN place
  BY <1>14 DEF Going
<1>17. \A x \in D : Settled(left, x, old[x], Goal(old[x], place[x]))
  <2> TAKE x \in D
  <2>1. Settled(left, x, old[x], IF x \in (untracked \cup Mv) \cup Go THEN Goal(old[x], place[x]) ELSE old[x])
    BY <1>14 DEF Going, D
  <2> QED BY <1>15, <2>1
<1>18. /\ Sound(last) /\ TrackedOnce(last) /\ last.tracked = left.tracked
       /\ \A x, l : Holds(last, x, l) <=> Holds(left, x, l)
       /\ \A l, e : Says(last, l, e) <=> Says(left, l, e)
  BY <1>6, <1>16, AllEmptied DEF last
<1>19. \A x \in D : Settled(last, x, old[x], Goal(old[x], place[x]))
  BY <1>17, <1>18 DEF Settled
<1>20. DOMAIN place = D
  BY DEF D
<1> QED BY <1>1, <1>3, <1>16, <1>18, <1>19, <1>20 DEF Ticked

-----------------------------------------------------------------------------
(* The state of EntitySync, as far as messages do not matter.              *)
Typed ==
    /\ scene \in Scenes
    /\ events \in 0 .. MaxEvents
    /\ phase \in {"synced", "world", "regions", "subscribed"}
    /\ uid \in [ID -> UID \cup {NoUid}]
    /\ pos \in [ID -> Places \cup {NoPos}]
    /\ clients \subseteq ID
    /\ next_uid \in 2 .. MaxUid + 1
    /\ subscription.regions \subseteq Key
    /\ inserted \subseteq ID /\ changed \subseteq ID
    /\ deleted \subseteq Key \X UID
    /\ known \subseteq UID /\ stale \subseteq known

Mapped ==
    /\ Sound(region_map) /\ TrackedOnce(region_map) /\ region_map.tracked \subseteq ID
    /\ \A l, e : Says(region_map, l, e) => e.id \in ID

(* A Uid is given out once and has one holder.  One that was noted as      *)
(* deleted has none, or a new connection's entity, which is nowhere yet.   *)
Unique ==
    /\ \A i, j \in ID : uid[i] = uid[j] /\ uid[i] # NoUid => i = j
    /\ \A i \in ID : uid[i] < next_uid
    /\ \A i \in ID : uid[i] = NoUid => pos[i] = NoPos /\ i \notin clients
    /\ \E i \in clients : uid[i] = Me
    /\ \A d \in deleted : /\ d[2] < next_uid
                          /\ \A i \in ID : uid[i] = d[2] => pos[i] = NoPos /\ i \in inserted

(* Who is subscribed to regions has a place.                               *)
Placed == Subscribed => \A i \in ID : uid[i] = Me => pos[i] # NoPos

Base == Typed /\ Mapped /\ Unique /\ Placed

LEMMA ConstantsKnown ==
    /\ ID \subseteq Nat /\ IsFiniteSet(ID) /\ 1 \in ID /\ Me \in ID /\ ID \subseteq Int
    /\ Me \in UID /\ Me = 1 /\ NoUid = 0 /\ NoUid \notin UID /\ UID \subseteq Nat /\ Me # NoUid
    /\ \A p \in Places : p \in Int \X Int /\ p # NoPos
    /\ Spawn \in Places
    /\ MaxUid \in Nat \ {0} /\ MaxId \in Nat \ {0} /\ ChunkSize \in Nat \ {0}
    /\ {ViewDistance, ChunkFuzz, RegionFuzz, MaxEvents} \subseteq Nat /\ ViewDistance # 0
<1>1. IsFiniteSet(ID)
  BY SyncAssumption, FS_Interval DEF ID
<1>2. \A p \in Places : p \in Nat \X Nat
  BY SyncAssumption
<1>3. \A p \in Places : p \in Int \X Int /\ p # NoPos
  BY <1>2 DEF NoPos
<1> QED BY <1>1, <1>3, SyncAssumption DEF ID, UID, Me, NoUid

LEMMA PosIsPlace ==
    ASSUME NEW p \in [ID -> Places \cup {NoPos}]
    PROVE  IsPlace(p) /\ DOMAIN p = ID
  BY ConstantsKnown DEF IsPlace

LEMMA ScenesKnown ==
    ASSUME scene \in Scenes
    PROVE  /\ scene.places \subseteq Places
           /\ scene.last \in 1 .. MaxUid
           /\ scene.players \subseteq 1 .. MaxUid
<1>1. scene \in [places : SUBSET Places, last : 1 .. MaxUid, players : SUBSET (1 .. MaxUid)]
  BY SyncAssumption
<1> QED BY <1>1

LEMMA InitBase == Init => Base
<1> SUFFICES ASSUME Init PROVE Base
  OBVIOUS
<1>1. /\ scene \in Scenes /\ events = MaxEvents /\ phase = "synced"
      /\ uid = [i \in ID |-> IF i = 1 THEN Me ELSE NoUid]
      /\ pos = [i \in ID |-> NoPos] /\ clients = {1} /\ next_uid = 2
      /\ region_map = EmptyMap
      /\ subscription = NotSubscribed /\ subscription.regions = {}
      /\ inserted = {} /\ changed = {} /\ deleted = {}
      /\ known = {Me} /\ stale = {Me}
  BY DEF Init, Me, NotSubscribed
<1>2. Typed
  BY <1>1, ConstantsKnown DEF Typed
<1>3. Mapped
  <2>1. EmptyMap.tracked = {} /\ EmptyMap.regions = <<>>
    BY DEF EmptyMap
  <2>2. \A l, e : ~Says(EmptyMap, l, e)
    BY <2>1 DEF Says
  <2> QED BY <1>1, <2>1, <2>2, NoRegions DEF Mapped
<1>4. Unique
  BY <1>1, ConstantsKnown DEF Unique
<1>5. Placed
  BY <1>1 DEF Placed, Subscribed
<1> QED BY <1>2, <1>3, <1>4, <1>5 DEF Base

(* The id of the watched client's entity, and what it is called.           *)
LEMMA EntityIs ==
    ASSUME Typed, Unique
    PROVE  /\ Entity \in clients /\ Entity \in ID /\ uid[Entity] = Me
           /\ \A i \in ID : uid[i] = Me => i = Entity
<1>1. Entity \in clients /\ uid[Entity] = Me
  BY DEF Unique, Entity
<1>2. Entity \in ID
  BY <1>1 DEF Typed
<1> QED BY <1>1, <1>2, ConstantsKnown DEF Unique

LEMMA BitsetIs ==
    ASSUME Mapped, NEW keys, keys \subseteq Key
    PROVE  /\ Bitset(keys) \subseteq ID
           /\ \A i : i \in Bitset(keys) <=> FindRegion(region_map, i) \in keys
<1>1. Sound(region_map) /\ TrackedOnce(region_map) /\ region_map.tracked \subseteq ID
  BY DEF Mapped
<1>2. ASSUME NEW i
      PROVE  i \in Bitset(keys) <=> \E key \in keys : Holds(region_map, i, key)
  BY DEF Bitset, Holds, ToSet
<1>3. ASSUME NEW i
      PROVE  i \in Bitset(keys) <=> FindRegion(region_map, i) \in keys
  <2>1. \A key : Holds(region_map, i, key) <=> key = FindRegion(region_map, i) /\ FindRegion(region_map, i) # NoKey
    BY <1>1, FindIsWhere
  <2> QED BY <1>2, <2>1, NoKeyIsNone
<1>4. ASSUME NEW i \in Bitset(keys)
      PROVE  i \in ID
  <2>1. FindRegion(region_map, i) # NoKey
    BY <1>3, NoKeyIsNone
  <2> QED BY <1>1, <2>1, FindIsWhere
<1> QED BY <1>3, <1>4

LEMMA UidsKnown ==
    ASSUME Typed, NEW S, S \subseteq ID
    PROVE  UidsOf(S) \subseteq UID
  BY DEF Typed, UidsOf

(* What events say, in terms of the map.                                   *)
LEMMA EventsKnown ==
    ASSUME NEW m, Sound(m), NEW key, NEW e, Says(m, key, e)
    PROVE  /\ key \in Key
           /\ e = Left(e.id, e.key) <=> e.what = "left"
           /\ e = Entered(e.id, e.key) <=> e.what = "entered"
           /\ e.key \in Key \cup {NoKey}
<1>1. PICK i \in DOMAIN m.regions : m.regions[i].key = key /\ e \in ToSet(m.regions[i].events)
  BY DEF Says
<1>2. m.regions[i] \in RegionSet
  BY DEF Sound, MapSet
<1>3. m.regions[i].events \in Seq(RegionEvent) /\ key \in Key
  BY <1>1, <1>2 DEF RegionSet
<1>4. e \in RegionEvent
  BY <1>1, <1>3 DEF ToSet
<1>5. e = [what |-> e.what, id |-> e.id, key |-> e.key] /\ e.key \in Key \cup {NoKey}
  BY <1>4 DEF RegionEvent
<1> QED BY <1>3, <1>5 DEF Left, Entered

-----------------------------------------------------------------------------
(* Base is inductive.                                                      *)
LEMMA MapStays ==
    ASSUME Mapped, UNCHANGED region_map
    PROVE  Mapped'
  BY DEF Mapped

LEMMA BaseCreate ==
    ASSUME Base, NEW i \in ID, NEW p \in scene.places \cup {NoPos}, Create(i, p)
    PROVE  Base'
<1> USE DEF Base
<1>1. /\ scene' = scene /\ events > 0 /\ events' = events - 1 /\ phase' = "world"
      /\ uid[i] = NoUid /\ next_uid <= scene.last
      /\ uid' = [uid EXCEPT ![i] = next_uid] /\ pos' = [pos EXCEPT ![i] = p]
      /\ next_uid' = next_uid + 1
      /\ clients' = IF p = NoPos THEN clients \cup {i} ELSE clients
      /\ inserted' = inserted \cup {i} /\ changed' = changed \cup {i}
      /\ region_map' = region_map /\ subscription' = subscription /\ deleted' = deleted
      /\ known' = known /\ stale' = stale
  BY DEF Create, Event, Free, Vacant, mirror
<1>2. p \in Places \cup {NoPos} /\ next_uid \in UID /\ next_uid + 1 \in 2 .. MaxUid + 1 /\ next_uid > Me
  BY <1>1, ScenesKnown, ConstantsKnown DEF Typed, UID
<1>3. Typed'
  <2>1. uid' \in [ID -> UID \cup {NoUid}] /\ pos' \in [ID -> Places \cup {NoPos}]
    BY <1>1, <1>2 DEF Typed
  <2>2. events' \in 0 .. MaxEvents
    BY <1>1, ConstantsKnown DEF Typed
  <2> QED BY <1>1, <1>2, <2>1, <2>2 DEF Typed
<1>4. Mapped'
  BY <1>1, MapStays
<1>5. \A j \in ID : uid'[j] = IF j = i THEN next_uid ELSE uid[j]
  BY <1>1 DEF Typed
<1>6. \A j \in ID : pos'[j] = IF j = i THEN p ELSE pos[j]
  BY <1>1 DEF Typed
<1>7. Unique'
  <2>1. \A j \in ID : uid[j] \in Nat /\ uid[j] < next_uid /\ next_uid \in Nat /\ next_uid < next_uid + 1
    BY <1>2, ConstantsKnown DEF Typed, Unique
  <2>2. \A j, k \in ID : uid'[j] = uid'[k] /\ uid'[j] # NoUid => j = k
    BY <1>5, <2>1 DEF Unique
  <2>3. \A j \in ID : uid'[j] < next_uid'
    BY <1>1, <1>5, <2>1
  <2>4. \A j \in ID : uid'[j] = NoUid => pos'[j] = NoPos /\ j \notin clients'
    BY <1>1, <1>2, <1>5, <1>6, ConstantsKnown DEF Unique
  <2>5. \E j \in clients' : uid'[j] = Me
    <3>1. PICK j \in clients : uid[j] = Me
      BY DEF Unique
    <3>2. j \in ID /\ j # i
      BY <1>1, <3>1, ConstantsKnown DEF Typed
    <3> QED BY <1>1, <1>5, <3>1, <3>2
  <2>6. ASSUME NEW d \in deleted'
        PROVE  d[2] < next_uid' /\ \A j \in ID : uid'[j] = d[2] => pos'[j] = NoPos /\ j \in inserted'
    <3>1. d \in deleted /\ d[2] \in Nat /\ d[2] < next_uid
      BY <1>1, ConstantsKnown DEF Unique, Typed
    <3>2. d[2] < next_uid'
      BY <1>1, <2>1, <3>1
    <3>3. ASSUME NEW j \in ID, uid'[j] = d[2]
          PROVE  pos'[j] = NoPos /\ j \in inserted'
      <4>1. j # i
        BY <1>2, <1>5, <3>1, <3>3, ConstantsKnown
      <4> QED BY <1>1, <1>5, <1>6, <3>1, <3>3, <4>1 DEF Unique
    <3> QED BY <3>2, <3>3
  <2> QED BY <2>2, <2>3, <2>4, <2>5, <2>6 DEF Unique
<1>8. Placed'
  BY <1>1, <1>2, <1>5, <1>6, ConstantsKnown DEF Placed, Subscribed
<1> QED BY <1>3, <1>4, <1>7, <1>8

LEMMA BaseMove ==
    ASSUME Base, NEW i \in ID, NEW p \in scene.places, Move(i, p)
    PROVE  Base'
<1> USE DEF Base
<1>1. /\ scene' = scene /\ events > 0 /\ events' = events - 1 /\ phase' = "world"
      /\ uid' = uid /\ pos[i] # NoPos /\ pos' = [pos EXCEPT ![i] = p]
      /\ next_uid' = next_uid /\ clients' = clients
      /\ inserted' = inserted /\ changed' = changed /\ deleted' = deleted
      /\ region_map' = region_map /\ subscription' = subscription
      /\ known' = known /\ stale' = stale
  BY DEF Move, Event, mirror, traced
<1>2. p \in Places /\ p # NoPos
  BY ScenesKnown, ConstantsKnown DEF Typed
<1>3. Typed'
  <2>1. pos' \in [ID -> Places \cup {NoPos}]
    BY <1>1, <1>2 DEF Typed
  <2>2. events' \in 0 .. MaxEvents
    BY <1>1, ConstantsKnown DEF Typed
  <2> QED BY <1>1, <2>1, <2>2 DEF Typed
<1>4. Mapped'
  BY <1>1, MapStays
<1>5. \A j \in ID : pos'[j] = IF j = i THEN p ELSE pos[j]
  BY <1>1 DEF Typed
<1>6. \A j \in ID : pos'[j] = NoPos <=> pos[j] = NoPos
  BY <1>1, <1>2, <1>5
<1>7. Unique'
  <2>1. \A d \in deleted : d[2] < next_uid /\ \A j \in ID : uid[j] = d[2] => pos'[j] = NoPos /\ j \in inserted
    BY <1>6 DEF Unique
  <2>2. \A j \in ID : uid[j] = NoUid => pos'[j] = NoPos /\ j \notin clients
    BY <1>6 DEF Unique
  <2> QED BY <1>1, <2>1, <2>2 DEF Unique
<1>8. Placed'
  BY <1>1, <1>6 DEF Placed, Subscribed
<1> QED BY <1>3, <1>4, <1>7, <1>8

LEMMA BaseChange ==
    ASSUME Base, NEW i \in ID, Change(i)
    PROVE  Base'
<1> USE DEF Base
<1>1. /\ scene' = scene /\ events > 0 /\ events' = events - 1 /\ phase' = "world"
      /\ uid' = uid /\ pos' = pos /\ next_uid' = next_uid /\ clients' = clients
      /\ inserted' = inserted /\ changed' = changed \cup {i} /\ deleted' = deleted
      /\ region_map' = region_map /\ subscription' = subscription
      /\ known' = known /\ stale' = stale
  BY DEF Change, Event, mirror, world
<1>2. Typed'
  <2>1. events' \in 0 .. MaxEvents
    BY <1>1, ConstantsKnown DEF Typed
  <2> QED BY <1>1, <2>1 DEF Typed
<1>3. Mapped'
  BY <1>1, MapStays
<1>4. Unique' /\ Placed'
  BY <1>1 DEF Unique, Placed, Subscribed
<1> QED BY <1>2, <1>3, <1>4

(* What is noted of an entity that is deleted.                             *)
LEMMA Recorded ==
    ASSUME Base, NEW i \in ID, Record(i)
    PROVE  /\ deleted' \subseteq Key \X UID
           /\ deleted \subseteq deleted'
           /\ \A d \in deleted' \ deleted : pos[i] # NoPos /\ d[2] = uid[i] /\ uid[i] # NoUid
           /\ pos[i] # NoPos /\ FindRegion(region_map, i) # NoKey =>
                 <<FindRegion(region_map, i), uid[i]>> \in deleted'
<1> DEFINE key == FindRegion(region_map, i)
<1>1. deleted' = IF pos[i] = NoPos \/ key = NoKey THEN deleted ELSE deleted \cup {<<key, uid[i]>>}
  BY DEF Record
<1>2. key \in Key \cup {NoKey}
  BY FindIsWhere DEF Base, Mapped
<1>3. pos[i] # NoPos => uid[i] # NoUid /\ uid[i] \in UID
  BY DEF Base, Typed, Unique
<1> HIDE DEF key
<1>4. deleted \subseteq Key \X UID
  BY DEF Base, Typed
<1>5. CASE pos[i] = NoPos \/ key = NoKey
  BY <1>1, <1>4, <1>5 DEF key
<1>6. CASE ~(pos[i] = NoPos \/ key = NoKey)
  BY <1>1, <1>2, <1>3, <1>4, <1>6 DEF key
<1> QED BY <1>5, <1>6

LEMMA BaseDelete ==
    ASSUME Base, NEW i \in ID, Delete(i)
    PROVE  Base'
<1> USE DEF Base
<1>1. /\ scene' = scene /\ events > 0 /\ events' = events - 1 /\ phase' = "world"
      /\ uid[i] \notin {NoUid, Me}
      /\ uid' = [uid EXCEPT ![i] = NoUid] /\ pos' = [pos EXCEPT ![i] = NoPos]
      /\ Record(i)
      /\ clients' = clients \ {i} /\ next_uid' = next_uid
      /\ inserted' = inserted \ {i} /\ changed' = changed \ {i}
      /\ region_map' = region_map /\ subscription' = subscription
      /\ known' = known /\ stale' = stale
  BY DEF Delete, Event, mirror
<1>2. /\ deleted' \subseteq Key \X UID
      /\ \A d \in deleted' \ deleted : pos[i] # NoPos /\ d[2] = uid[i] /\ uid[i] # NoUid
  BY <1>1, Recorded
<1>3. Typed'
  <2>1. uid' \in [ID -> UID \cup {NoUid}] /\ pos' \in [ID -> Places \cup {NoPos}]
    BY <1>1 DEF Typed
  <2>2. events' \in 0 .. MaxEvents
    BY <1>1, ConstantsKnown DEF Typed
  <2> QED BY <1>1, <1>2, <2>1, <2>2 DEF Typed
<1>4. Mapped'
  BY <1>1, MapStays
<1>5. \A j \in ID : uid'[j] = IF j = i THEN NoUid ELSE uid[j]
  BY <1>1 DEF Typed
<1>6. \A j \in ID : pos'[j] = IF j = i THEN NoPos ELSE pos[j]
  BY <1>1 DEF Typed
<1>7. Unique'
  <2>1. \A j, k \in ID : uid'[j] = uid'[k] /\ uid'[j] # NoUid => j = k
    BY <1>5 DEF Unique
  <2>2. \A j \in ID : uid'[j] < next_uid'
    BY <1>1, <1>5, ConstantsKnown DEF Unique, Typed
  <2>3. \A j \in ID : uid'[j] = NoUid => pos'[j] = NoPos /\ j \notin clients'
    BY <1>1, <1>5, <1>6 DEF Unique
  <2>4. \E j \in clients' : uid'[j] = Me
    <3>1. PICK j \in clients : uid[j] = Me
      BY DEF Unique
    <3> QED BY <1>1, <1>5, <3>1 DEF Typed
  <2>5. ASSUME NEW d \in deleted'
        PROVE  d[2] < next_uid' /\ \A j \in ID : uid'[j] = d[2] => pos'[j] = NoPos /\ j \in inserted'
    <3>1. d[2] # NoUid
      BY <1>2, ConstantsKnown
    <3>2. CASE d \in deleted
      BY <1>1, <1>5, <1>6, <3>1, <3>2 DEF Unique
    <3>3. CASE d \notin deleted
      <4>1. d[2] = uid[i]
        BY <1>2, <3>3
      <4>2. \A j \in ID : uid'[j] # d[2]
        BY <1>5, <3>1, <4>1 DEF Unique
      <4> QED BY <1>1, <4>1, <4>2 DEF Unique
    <3> QED BY <3>2, <3>3
  <2> QED BY <2>1, <2>2, <2>3, <2>4, <2>5 DEF Unique
<1>8. Placed'
  BY <1>1, <1>5, <1>6, ConstantsKnown DEF Placed, Subscribed
<1> QED BY <1>3, <1>4, <1>7, <1>8

LEMMA BaseEnterGame ==
    ASSUME Base, NEW i \in ID, EnterGame(i)
    PROVE  Base'
<1> USE DEF Base
<1>1. /\ scene' = scene /\ events > 0 /\ events' = events - 1 /\ phase' = "world"
      /\ i \in clients \ inserted /\ pos[i] = NoPos /\ pos' = [pos EXCEPT ![i] = Spawn]
      /\ uid' = uid /\ next_uid' = next_uid /\ clients' = clients
      /\ inserted' = inserted /\ changed' = changed \cup {i} /\ deleted' = deleted
      /\ region_map' = region_map /\ subscription' = subscription
      /\ known' = known /\ stale' = stale
  BY DEF EnterGame, Event, mirror
<1>2. Typed'
  <2>1. pos' \in [ID -> Places \cup {NoPos}]
    BY <1>1, ConstantsKnown DEF Typed
  <2>2. events' \in 0 .. MaxEvents
    BY <1>1, ConstantsKnown DEF Typed
  <2> QED BY <1>1, <2>1, <2>2 DEF Typed
<1>3. Mapped'
  BY <1>1, MapStays
<1>4. \A j \in ID : pos'[j] = IF j = i THEN Spawn ELSE pos[j]
  BY <1>1 DEF Typed
<1>5. Unique'
  <2>1. \A d \in deleted : d[2] < next_uid /\ \A j \in ID : uid[j] = d[2] => pos'[j] = NoPos /\ j \in inserted
    BY <1>1, <1>4 DEF Unique
  <2>2. \A j \in ID : uid[j] = NoUid => pos'[j] = NoPos /\ j \notin clients
    BY <1>1, <1>4 DEF Unique
  <2> QED BY <1>1, <2>1, <2>2 DEF Unique
<1>6. Placed'
  BY <1>1, <1>4, ConstantsKnown DEF Placed, Subscribed
<1> QED BY <1>2, <1>3, <1>5, <1>6

LEMMA BaseExitIngame ==
    ASSUME Base, NEW i \in ID, NEW n \in ID, ExitIngame(i, n)
    PROVE  Base'
<1> USE DEF Base
<1>1. /\ scene' = scene /\ events > 0 /\ events' = events - 1 /\ phase' = "world"
      /\ i \in clients /\ pos[i] # NoPos /\ uid[n] = NoUid
      /\ uid' = [uid EXCEPT ![n] = uid[i], ![i] = NoUid] /\ pos' = [pos EXCEPT ![i] = NoPos]
      /\ Record(i)
      /\ clients' = (clients \ {i}) \cup {n} /\ next_uid' = next_uid
      /\ inserted' = (inserted \ {i}) \cup {n} /\ changed' = (changed \ {i}) \cup {n}
      /\ region_map' = region_map
      /\ IF uid[i] = Me
         THEN known' = {Me} /\ stale' = {Me} /\ missed' = {} /\ subscription' = NotSubscribed
         ELSE UNCHANGED <<mirror, subscription>>
  BY DEF ExitIngame, Event, Free, Vacant
<1>2. i # n /\ uid[i] # NoUid
  BY <1>1 DEF Unique
<1>3. /\ deleted' \subseteq Key \X UID
      /\ \A d \in deleted' \ deleted : pos[i] # NoPos /\ d[2] = uid[i] /\ uid[i] # NoUid
  BY <1>1, Recorded
<1>4. Typed'
  <2>1. uid' \in [ID -> UID \cup {NoUid}] /\ pos' \in [ID -> Places \cup {NoPos}]
    BY <1>1 DEF Typed
  <2>2. events' \in 0 .. MaxEvents
    BY <1>1, ConstantsKnown DEF Typed
  <2>3. known' \subseteq UID /\ stale' \subseteq known' /\ subscription'.regions \subseteq Key
    <3>1. CASE uid[i] = Me
      <4>1. subscription'.regions = {}
        BY <1>1, <3>1 DEF NotSubscribed
      <4> QED BY <1>1, <3>1, <4>1, ConstantsKnown
    <3>2. CASE uid[i] # Me
      BY <1>1, <3>2 DEF Typed, mirror
    <3> QED BY <3>1, <3>2
  <2> QED BY <1>1, <1>3, <2>1, <2>2, <2>3 DEF Typed
<1>5. Mapped'
  BY <1>1, MapStays
<1>6. \A j \in ID : uid'[j] = IF j = i THEN NoUid ELSE IF j = n THEN uid[i] ELSE uid[j]
  BY <1>1, <1>2 DEF Typed
<1>7. \A j \in ID : pos'[j] = IF j = i THEN NoPos ELSE pos[j]
  BY <1>1 DEF Typed
<1>8. pos[n] = NoPos
  BY <1>1 DEF Unique
<1>9. Unique'
  <2>1. \A j, k \in ID : uid'[j] = uid'[k] /\ uid'[j] # NoUid => j = k
    BY <1>2, <1>6 DEF Unique
  <2>2. \A j \in ID : uid'[j] < next_uid'
    BY <1>1, <1>6, ConstantsKnown DEF Unique, Typed
  <2>3. \A j \in ID : uid'[j] = NoUid => pos'[j] = NoPos /\ j \notin clients'
    BY <1>1, <1>2, <1>6, <1>7 DEF Unique
  <2>4. \E j \in clients' : uid'[j] = Me
    <3>1. PICK j \in clients : uid[j] = Me
      BY DEF Unique
    <3>2. j \in ID /\ j # n
      BY <1>1, <3>1, ConstantsKnown DEF Typed
    <3>3. CASE j = i
      BY <1>1, <1>2, <1>6, <3>1, <3>3
    <3>4. CASE j # i
      BY <1>1, <1>6, <3>1, <3>2, <3>4
    <3> QED BY <3>3, <3>4
  <2>5. ASSUME NEW d \in deleted'
        PROVE  d[2] < next_uid' /\ \A j \in ID : uid'[j] = d[2] => pos'[j] = NoPos /\ j \in inserted'
    <3>1. d[2] # NoUid
      BY <1>3, ConstantsKnown
    <3>2. CASE d \in deleted
      <4>1. d[2] # uid[i]
        BY <1>1, <3>2 DEF Unique
      <4>2. d[2] < next_uid /\ \A j \in ID : uid[j] = d[2] => pos[j] = NoPos /\ j \in inserted
        BY <3>2 DEF Unique
      <4>3. \A j \in ID : uid'[j] = d[2] => j # i /\ uid[j] = d[2]
        BY <1>6, <3>1, <4>1
      <4> QED BY <1>1, <1>7, <4>2, <4>3
    <3>3. CASE d \notin deleted
      <4>1. d[2] = uid[i]
        BY <1>3, <3>3
      <4>2. \A j \in ID : uid'[j] = d[2] => j = n
        BY <1>2, <1>6, <3>1, <4>1 DEF Unique
      <4> QED BY <1>1, <1>2, <1>7, <1>8, <4>1, <4>2 DEF Unique
    <3> QED BY <3>2, <3>3
  <2> QED BY <2>1, <2>2, <2>3, <2>4, <2>5 DEF Unique
<1>10. Placed'
  <2>1. CASE uid[i] = Me
    BY <1>1, <2>1 DEF Placed, Subscribed
  <2>2. CASE uid[i] # Me
    BY <1>1, <1>2, <1>6, <1>7, <2>2, ConstantsKnown DEF Placed, Subscribed
  <2> QED BY <2>1, <2>2
<1> QED BY <1>4, <1>5, <1>9, <1>10

(* Regions in sight are regions.                                           *)
LEMMA SeenAreKeys ==
    ASSUME NEW p
    PROVE  RegionsSeen(p) \subseteq Key
<1>1. \A n, r : ((n - r) \div RegionSize .. (n + r) \div RegionSize) \subseteq Int
  OBVIOUS
<1> QED BY <1>1 DEF RegionsSeen, RegionsInRange, Key

LEMMA BaseLoaded ==
    ASSUME Base, Loaded
    PROVE  Base'
<1> USE DEF Base
<1> DEFINE regions == RegionsSeen(pos[Entity])
           told    == UidsOf({i \in Bitset(regions) : pos[i] # NoPos})
<1>1. /\ scene' = scene /\ events > 0 /\ events' = events - 1 /\ phase' = "world"
      /\ pos[Entity] # NoPos
      /\ uid' = uid /\ pos' = pos /\ next_uid' = next_uid /\ clients' = clients
      /\ inserted' = inserted /\ changed' = changed \cup {Entity} /\ deleted' = deleted
      /\ region_map' = region_map
      /\ subscription' = [regions |-> regions, fuzzy_chunk |-> Chunk(pos[Entity])]
      /\ known' = known \cup told /\ stale' = stale \ told
  BY DEF Loaded, Event, world
<1>2. regions \subseteq Key
  BY SeenAreKeys
<1>3. told \subseteq UID
  <2>1. {i \in Bitset(regions) : pos[i] # NoPos} \subseteq ID
    BY <1>2, BitsetIs
  <2> QED BY <2>1, UidsKnown
<1>4. /\ Entity \in ID /\ \A i \in ID : uid[i] = Me => i = Entity
  BY EntityIs
<1> HIDE DEF regions, told
<1>5. subscription'.regions = regions
  BY <1>1
<1>6. Typed'
  <2>1. events' \in 0 .. MaxEvents
    BY <1>1, ConstantsKnown DEF Typed
  <2> QED BY <1>1, <1>2, <1>3, <1>4, <1>5, <2>1 DEF Typed
<1>7. Mapped'
  BY <1>1, MapStays
<1>8. Unique'
  BY <1>1 DEF Unique
<1>9. Placed'
  BY <1>1, <1>4 DEF Placed
<1> QED BY <1>6, <1>7, <1>8, <1>9

LEMMA BaseUpdateRegions ==
    ASSUME Base, UpdateRegions
    PROVE  Base' /\ Ticked(region_map, region_map', pos)
<1> USE DEF Base
<1>1. /\ scene' = scene /\ events' = events /\ phase' = "regions"
      /\ uid' = uid /\ pos' = pos /\ next_uid' = next_uid /\ clients' = clients
      /\ inserted' = inserted /\ changed' = changed /\ deleted' = deleted
      /\ region_map' = TickRegions(region_map, pos) /\ subscription' = subscription
      /\ known' = known /\ stale' = stale
  BY DEF UpdateRegions, world, traced, mirror
<1>2. IsPlace(pos) /\ DOMAIN pos = ID
  BY PosIsPlace DEF Typed
<1>3. Ticked(region_map, region_map', pos)
  BY <1>1, <1>2, RegionsTick DEF Mapped
<1>4. Mapped'
  BY <1>2, <1>3 DEF Ticked, Mapped
<1>5. Typed'
  BY <1>1 DEF Typed
<1>6. Unique' /\ Placed'
  BY <1>1 DEF Unique, Placed, Subscribed
<1> QED BY <1>3, <1>4, <1>5, <1>6

LEMMA BaseSubscribe ==
    ASSUME Base, Subscribe
    PROVE  Base'
<1> USE DEF Base
<1>1. /\ scene' = scene /\ events' = events /\ phase' = "subscribed"
      /\ uid' = uid /\ pos' = pos /\ next_uid' = next_uid /\ clients' = clients
      /\ inserted' = inserted /\ changed' = changed /\ deleted' = deleted
      /\ region_map' = region_map
  BY DEF Subscribe, world, traced
<1>2. /\ subscription'.regions \subseteq Key /\ known' \subseteq UID /\ stale' \subseteq known'
      /\ Subscribed' => Subscribed
  <2>1. CASE Subscribed /\ LeftChunk(pos[Entity])
    <3> DEFINE p    == pos[Entity]
               keep == {key \in subscription.regions :
                           InRange(key, p, ViewDistance * ChunkSize,
                                   ChunkFuzz + RegionFuzz + ChunkSize)}
               lost == Forget(subscription.regions \ keep, keep) \ {Me}
               told == UidsOf({i \in Bitset(RegionsSeen(p) \ keep) : pos[i] # NoPos}) \ {Me}
    <3>1. /\ subscription' = [regions |-> keep \cup RegionsSeen(p), fuzzy_chunk |-> Chunk(p)]
          /\ known' = (known \ lost) \cup told
          /\ stale' = (stale \ lost) \ told
      BY <2>1 DEF Subscribe
    <3>2. keep \subseteq Key /\ RegionsSeen(p) \subseteq Key
      BY SeenAreKeys DEF Typed
    <3>3. told \subseteq UID
      <4> HIDE DEF keep, p
      <4>1. RegionsSeen(p) \ keep \subseteq Key
        BY <3>2
      <4>2. {i \in Bitset(RegionsSeen(p) \ keep) : pos[i] # NoPos} \subseteq ID
        BY <4>1, BitsetIs
      <4> QED BY <4>2, UidsKnown
    <3> HIDE DEF keep, p, lost, told
    <3> QED BY <2>1, <3>1, <3>2, <3>3 DEF Typed
  <2>2. CASE ~(Subscribed /\ LeftChunk(pos[Entity]))
    BY <2>2 DEF Subscribe, mirror, Typed, Subscribed
  <2> QED BY <2>1, <2>2
<1>3. Typed'
  BY <1>1, <1>2 DEF Typed
<1>4. Mapped'
  BY <1>1, MapStays
<1>5. Unique'
  BY <1>1 DEF Unique
<1>6. Placed'
  BY <1>1, <1>2 DEF Placed
<1> QED BY <1>3, <1>4, <1>5, <1>6
-----------------------------------------------------------------------------
(* What is sent of a region: Uids that the client is to have, those that   *)
(* it is to forget, and those whose components are sent.                   *)
News(r)  == ComeTo(r, subscription.regions) \cup UidsOf(r.bitset \cap inserted)
Gone(r)  == (LeftFor(r, subscription.regions) \ {Me}) \cup DeletedIn({r.key})
Fresh(r) == ComeTo(r, subscription.regions) \cup UidsOf(r.bitset \cap changed)

(* All that is synchronised, for regions up to k.                          *)
Sent(what(_), k, u) ==
    \E j \in 1 .. k : /\ region_map.regions[j].key \in subscription.regions
                      /\ u \in what(region_map.regions[j])

(* However the messages of the regions are interleaved: of Uids that are   *)
(* in no two kinds of messages the client has those that it had or is to   *)
(* have, without those that it is to forget.                               *)
LEMMA SyncIs ==
    ASSUME Mapped
    PROVE  \E after :
              /\ known' = after.known \ (DeletedIn(subscription.regions \ Keys(region_map)) \ {Me})
                 /\ stale' = (known' \cap (stale \cup UidsOf(changed))) \ after.fresh
                 <=> SyncMirror
              /\ \A u : u \in after.known => u \in known \/ Sent(News, Len(region_map.regions), u)
              /\ \A u : /\ u \in known \/ Sent(News, Len(region_map.regions), u)
                        /\ ~Sent(Gone, Len(region_map.regions), u)
                        => u \in after.known
              /\ \A u : /\ Sent(Gone, Len(region_map.regions), u)
                        /\ ~Sent(News, Len(region_map.regions), u)
                        => u \notin after.known
              /\ \A u : u \in after.fresh <=> Sent(Fresh, Len(region_map.regions), u)
<1> DEFINE q     == region_map.regions
           l     == Len(q)
           base  == [known |-> known, fresh |-> {}]
           on(j) == q[j].key \in subscription.regions
           news(k, u)  == \E j \in 1 .. k : on(j) /\ u \in News(q[j])
           gone(k, u)  == \E j \in 1 .. k : on(j) /\ u \in Gone(q[j])
           fresh(k, u) == \E j \in 1 .. k : on(j) /\ u \in Fresh(q[j])
           good(w, k) == /\ w = [known |-> w.known, fresh |-> w.fresh]
                         /\ \A u : u \in w.known => u \in known \/ news(k, u)
                         /\ \A u : (u \in known \/ news(k, u)) /\ ~gone(k, u) => u \in w.known
                         /\ \A u : gone(k, u) /\ ~news(k, u) => u \notin w.known
                         /\ \A u : u \in w.fresh <=> fresh(k, u)
<1>1. q \in Seq(RegionSet) /\ l \in Nat /\ DOMAIN q = 1 .. l
  BY DEF Mapped, Sound, MapSet
<1>2. PICK after : after = SyncAll(base, q)
  OBVIOUS
<1> HIDE DEF l
<1>3. PICK r : IsRun(r, "sync", base, q, <<>>, l) /\ after = r[l]
  <2>1. \E r : IsRun(r, "sync", base, q, <<>>, l) /\ SyncAll(base, q) = r[l]
    <3> HIDE DEF q, base
    <3> QED BY <1>1, SyncLoop
  <2> QED BY <1>2, <2>1
<1> DEFINE S == {k \in 0 .. l : good(r[k], k)}
<1>4. 0 \in S
  <2>1. r[0] = base /\ 0 \in 0 .. l /\ 1 .. 0 = {}
    BY <1>1, <1>3 DEF IsRun
  <2>2. good(base, 0)
    <3>1. \A u : ~news(0, u) /\ ~gone(0, u) /\ ~fresh(0, u)
      BY <2>1
    <3> HIDE DEF news, gone, fresh
    <3> QED BY <3>1
  <2> HIDE DEF good, base
  <2> QED BY <2>1, <2>2
<1>5. ASSUME NEW k \in 0 .. l, k \in S, k < l
      PROVE  k + 1 \in S
  <2> DEFINE w == r[k]
             e == q[k + 1]
             n == r[k + 1]
  <2>1. k + 1 \in 1 .. l /\ k + 1 - 1 = k /\ k + 1 \in 0 .. l /\ 1 .. k + 1 = (1 .. k) \cup {k + 1}
    BY <1>1, <1>5
  <2>2. n = IF e.key \in subscription.regions THEN SyncRegion(w, e) ELSE w
    <3>1. r[k + 1] = Step("sync", r[k + 1 - 1], q[k + 1], <<>>)
      BY <1>3, <2>1 DEF IsRun
    <3>2. r[k + 1] = Step("sync", w, e, <<>>)
      BY <2>1, <3>1
    <3> HIDE DEF w, e
    <3> QED BY <3>2 DEF Step
  <2>3. good(w, k)
    BY <1>5
  <2>4. \A u : /\ news(k + 1, u) <=> news(k, u) \/ (on(k + 1) /\ u \in News(e))
               /\ gone(k + 1, u) <=> gone(k, u) \/ (on(k + 1) /\ u \in Gone(e))
               /\ fresh(k + 1, u) <=> fresh(k, u) \/ (on(k + 1) /\ u \in Fresh(e))
    BY <2>1
  <2>5. on(k + 1) <=> e.key \in subscription.regions
    OBVIOUS
  <2> HIDE DEF w, n, e, on, news, gone, fresh
  <2>6. CASE on(k + 1)
    <3>1. /\ n = [known |-> n.known, fresh |-> n.fresh]
          /\ n.known = (((w.known \cup ComeTo(e, subscription.regions)) \ (LeftFor(e, subscription.regions) \ {Me}))
                           \cup UidsOf(e.bitset \cap inserted)) \ DeletedIn({e.key})
          /\ n.fresh = w.fresh \cup ComeTo(e, subscription.regions) \cup UidsOf(e.bitset \cap changed)
      BY <2>2, <2>5, <2>6 DEF SyncRegion
    <3>2. /\ \A u : u \in n.known => u \in w.known \/ u \in News(e)
          /\ \A u : (u \in w.known \/ u \in News(e)) /\ u \notin Gone(e) => u \in n.known
          /\ \A u : u \in Gone(e) /\ u \notin News(e) => u \notin n.known
          /\ \A u : u \notin w.known /\ u \notin News(e) => u \notin n.known
          /\ \A u : u \in n.fresh <=> u \in w.fresh \/ u \in Fresh(e)
      BY <3>1 DEF News, Gone, Fresh
    <3>3. good(n, k + 1)
      BY <2>3, <2>4, <2>6, <3>1, <3>2
    <3> HIDE DEF good
    <3> QED BY <2>1, <3>3 DEF n
  <2>7. CASE ~on(k + 1)
    <3>1. n = w
      BY <2>2, <2>5, <2>7
    <3>2. good(n, k + 1)
      BY <2>3, <2>4, <2>7, <3>1
    <3> HIDE DEF good
    <3> QED BY <2>1, <3>2 DEF n
  <2> QED BY <2>6, <2>7
<1>6. good(after, l)
  <2> HIDE DEF S
  <2>1. \A k \in 0 .. l : k \in S
    BY <1>1, <1>4, <1>5, Climb
  <2>2. l \in S
    BY <1>1, <2>1
  <2> QED BY <1>3, <2>2 DEF S
<1>7. known' = after.known \ (DeletedIn(subscription.regions \ Keys(region_map)) \ {Me})
      /\ stale' = (known' \cap (stale \cup UidsOf(changed))) \ after.fresh
      <=> SyncMirror
  BY <1>2 DEF SyncMirror, SyncAll
<1>8. l = Len(region_map.regions)
  BY DEF l
<1>9. \A u : /\ news(l, u) <=> Sent(News, l, u)
             /\ gone(l, u) <=> Sent(Gone, l, u)
             /\ fresh(l, u) <=> Sent(Fresh, l, u)
  BY DEF Sent
<1> HIDE DEF news, gone, fresh
<1> QED BY <1>6, <1>7, <1>8, <1>9

(* The messages of all regions, in terms of the map and of the world.      *)
Came(i, keys) ==
    /\ i \in ID /\ i \notin inserted /\ pos[i] # NoPos
    /\ \E key \in keys : \E from : from \notin keys /\ Says(region_map, key, Entered(i, from))

Went(i, keys) ==
    /\ i \in ID
    /\ \E key \in keys : \E to : to \notin keys /\ Says(region_map, key, Left(i, to))

LEMMA EventsOf ==
    ASSUME Mapped, NEW j \in DOMAIN region_map.regions, NEW e \in ToSet(region_map.regions[j].events)
    PROVE  /\ e.id \in ID
           /\ e.what = "left" => e = Left(e.id, e.key)
           /\ e.what = "entered" => e = Entered(e.id, e.key)
<1>1. PICK key : key = region_map.regions[j].key
  OBVIOUS
<1>2. Says(region_map, key, e)
  BY <1>1 DEF Says
<1>3. Sound(region_map) /\ e.id \in ID
  BY <1>2 DEF Mapped
<1> QED BY <1>2, <1>3, EventsKnown

LEMMA FieldsOf ==
    ASSUME NEW i, NEW k
    PROVE  /\ Left(i, k).what = "left" /\ Left(i, k).id = i /\ Left(i, k).key = k
           /\ Entered(i, k).what = "entered" /\ Entered(i, k).id = i /\ Entered(i, k).key = k
  BY DEF Left, Entered

LEMMA ComeToIs ==
    ASSUME Mapped, NEW j \in DOMAIN region_map.regions, NEW keys, NEW u
    PROVE  u \in ComeTo(region_map.regions[j], keys) <=>
              \E i \in ID : /\ i \notin inserted /\ pos[i] # NoPos /\ uid[i] = u /\ u \notin {NoUid, Me}
                            /\ \E from : from \notin keys /\ Entered(i, from) \in ToSet(region_map.regions[j].events)
<1> DEFINE E == ToSet(region_map.regions[j].events)
           X == {x \in E : /\ x.what = "entered" /\ x.key \notin keys
                           /\ x.id \notin inserted /\ pos[x.id] # NoPos}
<1>1. u \in ComeTo(region_map.regions[j], keys) <=> u \notin {NoUid, Me} /\ \E e \in X : uid[e.id] = u
  BY DEF ComeTo, UidsOf
<1>2. ASSUME NEW e \in X, uid[e.id] = u
      PROVE  \E i \in ID : /\ i \notin inserted /\ pos[i] # NoPos /\ uid[i] = u
                           /\ \E from : from \notin keys /\ Entered(i, from) \in E
  <2>1. e \in E /\ e.what = "entered" /\ e.key \notin keys /\ e.id \notin inserted /\ pos[e.id] # NoPos
    OBVIOUS
  <2>2. e.id \in ID /\ e = Entered(e.id, e.key)
    BY <2>1, EventsOf
  <2> HIDE DEF E
  <2> QED BY <1>2, <2>1, <2>2
<1>3. ASSUME NEW i \in ID, i \notin inserted, pos[i] # NoPos, uid[i] = u,
             NEW from, from \notin keys, Entered(i, from) \in E
      PROVE  \E e \in X : uid[e.id] = u
  BY <1>3, FieldsOf
<1> HIDE DEF X, E
<1>4. (\E e \in X : uid[e.id] = u) <=>
         \E i \in ID : /\ i \notin inserted /\ pos[i] # NoPos /\ uid[i] = u
                       /\ \E from : from \notin keys /\ Entered(i, from) \in E
  BY <1>2, <1>3
<1> QED BY <1>1, <1>4 DEF E

LEMMA LeftForIs ==
    ASSUME Mapped, NEW j \in DOMAIN region_map.regions, NEW keys, NEW u
    PROVE  u \in LeftFor(region_map.regions[j], keys) <=>
              \E i \in ID : /\ uid[i] = u /\ u # NoUid
                            /\ \E to : to \notin keys /\ Left(i, to) \in ToSet(region_map.regions[j].events)
<1> DEFINE E == ToSet(region_map.regions[j].events)
           X == {x \in E : x.what = "left" /\ x.key \notin keys}
<1>1. u \in LeftFor(region_map.regions[j], keys) <=> u # NoUid /\ \E e \in X : uid[e.id] = u
  BY DEF LeftFor, UidsOf
<1>2. ASSUME NEW e \in X, uid[e.id] = u
      PROVE  \E i \in ID : uid[i] = u /\ \E to : to \notin keys /\ Left(i, to) \in E
  <2>1. e \in E /\ e.what = "left" /\ e.key \notin keys
    OBVIOUS
  <2>2. e.id \in ID /\ e = Left(e.id, e.key)
    BY <2>1, EventsOf
  <2> HIDE DEF E
  <2> QED BY <1>2, <2>1, <2>2
<1>3. ASSUME NEW i \in ID, uid[i] = u, NEW to, to \notin keys, Left(i, to) \in E
      PROVE  \E e \in X : uid[e.id] = u
  BY <1>3, FieldsOf
<1> HIDE DEF X, E
<1>4. (\E e \in X : uid[e.id] = u) <=>
         \E i \in ID : uid[i] = u /\ \E to : to \notin keys /\ Left(i, to) \in E
  BY <1>2, <1>3
<1> QED BY <1>1, <1>4 DEF E

LEMMA SentIs ==
    ASSUME Base, NEW u
    PROVE  /\ Sent(News, Len(region_map.regions), u) <=>
                 /\ u # NoUid
                 /\ \E i \in ID : /\ uid[i] = u
                                  /\ \/ u # Me /\ Came(i, subscription.regions)
                                     \/ i \in inserted /\ FindRegion(region_map, i) \in subscription.regions
           /\ Sent(Gone, Len(region_map.regions), u) <=>
                 \/ u \notin {NoUid, Me} /\ \E i \in ID : uid[i] = u /\ Went(i, subscription.regions)
                 \/ u \in DeletedIn(subscription.regions \cap Keys(region_map))
           /\ Sent(Fresh, Len(region_map.regions), u) <=>
                 /\ u # NoUid
                 /\ \E i \in ID : /\ uid[i] = u
                                  /\ \/ u # Me /\ Came(i, subscription.regions)
                                     \/ i \in changed /\ FindRegion(region_map, i) \in subscription.regions
<1> DEFINE q == region_map.regions
           K == subscription.regions
           on(j) == q[j].key \in K
<1>1. DOMAIN q = 1 .. Len(q) /\ \A j \in DOMAIN q : q[j].bitset \subseteq ID
  <2>1. q \in Seq(RegionSet)
    BY DEF Base, Mapped, Sound, MapSet
  <2>2. ASSUME NEW j \in DOMAIN q
        PROVE  q[j].bitset \subseteq ID
    BY DEF Base, Mapped, TrackedOnce
  <2> QED BY <2>1, <2>2
<1>2. Mapped /\ inserted \subseteq ID /\ changed \subseteq ID /\ K \subseteq Key
  BY DEF Base, Typed
<1>3. (\E j \in DOMAIN q : on(j) /\ u \in ComeTo(q[j], K)) <=>
         u \notin {NoUid, Me} /\ \E i \in ID : uid[i] = u /\ Came(i, K)
  <2>1. ASSUME NEW j \in DOMAIN q, on(j), u \in ComeTo(q[j], K)
        PROVE  u \notin {NoUid, Me} /\ \E i \in ID : uid[i] = u /\ Came(i, K)
    <3>1. PICK i \in ID : /\ i \notin inserted /\ pos[i] # NoPos /\ uid[i] = u /\ u \notin {NoUid, Me}
                          /\ \E from : from \notin K /\ Entered(i, from) \in ToSet(q[j].events)
      <4>1. PICK keys : keys = K
        OBVIOUS
      <4>2. Mapped /\ j \in DOMAIN region_map.regions /\ u \in ComeTo(region_map.regions[j], keys)
        BY <1>2, <2>1, <4>1
      <4>3. \E i \in ID : /\ i \notin inserted /\ pos[i] # NoPos /\ uid[i] = u /\ u \notin {NoUid, Me}
                          /\ \E from : from \notin keys /\ Entered(i, from) \in ToSet(region_map.regions[j].events)
        BY ONLY <4>2, ComeToIs
      <4> QED BY <4>1, <4>3
    <3> QED BY <2>1, <3>1 DEF Came, Says
  <2>2. ASSUME u \notin {NoUid, Me}, NEW i \in ID, uid[i] = u, Came(i, K)
        PROVE  \E j \in DOMAIN q : on(j) /\ u \in ComeTo(q[j], K)
    <3>1. PICK key \in K : \E from : from \notin K /\ Says(region_map, key, Entered(i, from))
      BY <2>2 DEF Came
    <3>2. PICK from : from \notin K /\ Says(region_map, key, Entered(i, from))
      BY <3>1
    <3>3. PICK j \in DOMAIN q : q[j].key = key /\ Entered(i, from) \in ToSet(q[j].events)
      BY <3>2 DEF Says
    <3>4. i \notin inserted /\ pos[i] # NoPos
      BY <2>2 DEF Came
    <3>5. u \in ComeTo(q[j], K)
      <4>1. PICK keys : keys = K
        OBVIOUS
      <4>2. /\ Mapped /\ j \in DOMAIN region_map.regions
            /\ i \in ID /\ i \notin inserted /\ pos[i] # NoPos /\ uid[i] = u /\ u \notin {NoUid, Me}
            /\ from \notin keys /\ Entered(i, from) \in ToSet(region_map.regions[j].events)
        BY <1>2, <2>2, <3>2, <3>3, <3>4, <4>1
      <4>3. u \in ComeTo(region_map.regions[j], keys)
        BY ONLY <4>2, ComeToIs
      <4> QED BY <4>1, <4>3
    <3> QED BY <3>1, <3>3, <3>5
  <2> QED BY <2>1, <2>2
<1>4. (\E j \in DOMAIN q : on(j) /\ u \in LeftFor(q[j], K)) <=>
         u # NoUid /\ \E i \in ID : uid[i] = u /\ Went(i, K)
  <2>1. ASSUME NEW j \in DOMAIN q, on(j), u \in LeftFor(q[j], K)
        PROVE  u # NoUid /\ \E i \in ID : uid[i] = u /\ Went(i, K)
    <3>1. PICK i \in ID : /\ uid[i] = u /\ u # NoUid
                          /\ \E to : to \notin K /\ Left(i, to) \in ToSet(q[j].events)
      <4>1. PICK keys : keys = K
        OBVIOUS
      <4>2. Mapped /\ j \in DOMAIN region_map.regions /\ u \in LeftFor(region_map.regions[j], keys)
        BY <1>2, <2>1, <4>1
      <4>3. \E i \in ID : /\ uid[i] = u /\ u # NoUid
                          /\ \E to : to \notin keys /\ Left(i, to) \in ToSet(region_map.regions[j].events)
        BY ONLY <4>2, LeftForIs
      <4> QED BY <4>1, <4>3
    <3> QED BY <2>1, <3>1 DEF Went, Says
  <2>2. ASSUME u # NoUid, NEW i \in ID, uid[i] = u, Went(i, K)
        PROVE  \E j \in DOMAIN q : on(j) /\ u \in LeftFor(q[j], K)
    <3>1. PICK key \in K : \E to : to \notin K /\ Says(region_map, key, Left(i, to))
      BY <2>2 DEF Went
    <3>2. PICK to : to \notin K /\ Says(region_map, key, Left(i, to))
      BY <3>1
    <3>3. PICK j \in DOMAIN q : q[j].key = key /\ Left(i, to) \in ToSet(q[j].events)
      BY <3>2 DEF Says
    <3>4. u \in LeftFor(q[j], K)
      BY <1>2, <2>2, <3>2, <3>3, LeftForIs
    <3> QED BY <3>1, <3>3, <3>4
  <2> QED BY <2>1, <2>2
<1>5. ASSUME NEW S, S \subseteq ID
      PROVE  (\E j \in DOMAIN q : on(j) /\ u \in UidsOf(q[j].bitset \cap S)) <=>
                u # NoUid /\ \E i \in ID : uid[i] = u /\ i \in S /\ FindRegion(region_map, i) \in K
  <2>1. \A i : i \in Bitset(K) <=> FindRegion(region_map, i) \in K
    BY <1>2, BitsetIs
  <2>2. \A i : i \in Bitset(K) <=> \E j \in DOMAIN q : on(j) /\ i \in q[j].bitset
    BY DEF Bitset, ToSet
  <2>3. \A j \in DOMAIN q : u \in UidsOf(q[j].bitset \cap S) <=>
           u # NoUid /\ \E i \in S : uid[i] = u /\ i \in q[j].bitset
    BY DEF UidsOf
  <2> HIDE DEF q, on, K
  <2> QED BY <1>5, <2>1, <2>2, <2>3
<1>6. (\E j \in DOMAIN q : on(j) /\ u \in DeletedIn({q[j].key})) <=> u \in DeletedIn(K \cap Keys(region_map))
  BY DEF DeletedIn, Keys
<1>7. /\ Sent(News, Len(q), u) <=> \/ \E j \in DOMAIN q : on(j) /\ u \in ComeTo(q[j], K)
                                   \/ \E j \in DOMAIN q : on(j) /\ u \in UidsOf(q[j].bitset \cap inserted)
      /\ Sent(Gone, Len(q), u) <=> \/ u # Me /\ \E j \in DOMAIN q : on(j) /\ u \in LeftFor(q[j], K)
                                   \/ \E j \in DOMAIN q : on(j) /\ u \in DeletedIn({q[j].key})
      /\ Sent(Fresh, Len(q), u) <=> \/ \E j \in DOMAIN q : on(j) /\ u \in ComeTo(q[j], K)
                                    \/ \E j \in DOMAIN q : on(j) /\ u \in UidsOf(q[j].bitset \cap changed)
  BY <1>1 DEF Sent, News, Gone, Fresh
<1>8. /\ (\E j \in DOMAIN q : on(j) /\ u \in UidsOf(q[j].bitset \cap inserted)) <=>
                u # NoUid /\ \E i \in ID : uid[i] = u /\ i \in inserted /\ FindRegion(region_map, i) \in K
      /\ (\E j \in DOMAIN q : on(j) /\ u \in UidsOf(q[j].bitset \cap changed)) <=>
                u # NoUid /\ \E i \in ID : uid[i] = u /\ i \in changed /\ FindRegion(region_map, i) \in K
  BY <1>2, <1>5
<1>9. q = region_map.regions /\ K = subscription.regions
  OBVIOUS
<1> HIDE DEF q, on, K
<1>10. /\ Sent(News, Len(q), u) <=>
                 /\ u # NoUid
                 /\ \E i \in ID : /\ uid[i] = u
                                  /\ \/ u # Me /\ Came(i, K)
                                     \/ i \in inserted /\ FindRegion(region_map, i) \in K
       /\ Sent(Gone, Len(q), u) <=>
                 \/ u \notin {NoUid, Me} /\ \E i \in ID : uid[i] = u /\ Went(i, K)
                 \/ u \in DeletedIn(K \cap Keys(region_map))
       /\ Sent(Fresh, Len(q), u) <=>
                 /\ u # NoUid
                 /\ \E i \in ID : /\ uid[i] = u
                                  /\ \/ u # Me /\ Came(i, K)
                                     \/ i \in changed /\ FindRegion(region_map, i) \in K
  BY <1>3, <1>4, <1>6, <1>7, <1>8
<1> QED BY <1>9, <1>10

(* ClearEvents leaves the entities where they are.                         *)
LEMMA Silent ==
    ASSUME Mapped
    PROVE  /\ Sound(ClearEvents(region_map)) /\ TrackedOnce(ClearEvents(region_map))
           /\ ClearEvents(region_map).tracked = region_map.tracked
           /\ \A l, e : ~Says(ClearEvents(region_map), l, e)
           /\ \A i : FindRegion(ClearEvents(region_map), i) = FindRegion(region_map, i)
<1>1. PICK n : n = ClearEvents(region_map)
  OBVIOUS
<1>2. Sound(region_map) /\ TrackedOnce(region_map)
  BY DEF Mapped
<1>3. n = [region_map EXCEPT !.regions = ClearAll(<<>>, region_map.regions)]
  BY <1>1 DEF ClearEvents, ClearAll
<1>4. /\ Sound(n) /\ TrackedOnce(n) /\ n.tracked = region_map.tracked
      /\ DOMAIN n.regions = DOMAIN region_map.regions
      /\ \A i \in DOMAIN region_map.regions : /\ n.regions[i].key = region_map.regions[i].key
                                               /\ n.regions[i].bitset = region_map.regions[i].bitset
                                               /\ n.regions[i].events = <<>>
  BY <1>2, <1>3, AllCleared
<1>5. \A l, e : ~Says(n, l, e)
  BY <1>4 DEF Says, ToSet
<1>6. ASSUME NEW i
      PROVE  FindRegion(n, i) = FindRegion(region_map, i)
  <2>1. \A key : Holds(n, i, key) <=> Holds(region_map, i, key)
    BY <1>4 DEF Holds
  <2>2. \A key : Holds(n, i, key) <=> key = FindRegion(n, i) /\ FindRegion(n, i) # NoKey
    BY <1>4, FindIsWhere
  <2>3. \A key : Holds(region_map, i, key) <=> key = FindRegion(region_map, i) /\ FindRegion(region_map, i) # NoKey
    BY <1>2, FindIsWhere
  <2> QED BY <2>1, <2>2, <2>3
<1> QED BY <1>1, <1>4, <1>5, <1>6

LEMMA BaseSync ==
    ASSUME Base, Sync
    PROVE  Base'
<1>1. /\ scene' = scene /\ events' = MaxEvents /\ phase' = "synced"
      /\ uid' = uid /\ pos' = pos /\ next_uid' = next_uid /\ clients' = clients
      /\ inserted' = {} /\ changed' = {} /\ deleted' = {}
      /\ region_map' = ClearEvents(region_map) /\ subscription' = subscription
      /\ SyncMirror
  BY DEF Sync, world
<1>2. Typed /\ Mapped /\ Unique /\ Placed
  BY DEF Base
<1>3. known' \subseteq UID /\ stale' \subseteq known'
  <2>1. PICK after :
           /\ known' = after.known \ (DeletedIn(subscription.regions \ Keys(region_map)) \ {Me})
           /\ stale' = (known' \cap (stale \cup UidsOf(changed))) \ after.fresh
           /\ \A u : u \in after.known => u \in known \/ Sent(News, Len(region_map.regions), u)
    <3>1. SyncMirror /\ Mapped
      BY <1>1, <1>2
    <3> QED BY <3>1, SyncIs
  <2>2. ASSUME NEW u, Sent(News, Len(region_map.regions), u)
        PROVE  u \in UID
    BY <1>2, <2>2, SentIs DEF Base, Typed
  <2> QED BY <1>2, <2>1, <2>2 DEF Typed
<1>4. Typed'
  <2>1. events' \in 0 .. MaxEvents
    BY <1>1, ConstantsKnown
  <2> QED BY <1>1, <1>2, <1>3, <2>1 DEF Typed
<1>5. Mapped'
  BY <1>1, <1>2, Silent DEF Mapped
<1>6. Unique' /\ Placed'
  BY <1>1, <1>2 DEF Unique, Placed, Subscribed
<1> QED BY <1>4, <1>5, <1>6 DEF Base

LEMMA BaseNext ==
    ASSUME Base, [Next]_vars
    PROVE  Base'
<1>1. ASSUME NEW i \in ID, NEW p \in scene.places, Create(i, p) \/ Move(i, p)
      PROVE  Base'
  BY <1>1, BaseCreate, BaseMove
<1>2. ASSUME NEW i \in ID, Create(i, NoPos) \/ Change(i) \/ Delete(i) \/ EnterGame(i)
      PROVE  Base'
  BY <1>2, BaseCreate, BaseChange, BaseDelete, BaseEnterGame
<1>3. ASSUME NEW i \in ID, NEW n \in ID, ExitIngame(i, n)
      PROVE  Base'
  BY <1>3, BaseExitIngame
<1>4. CASE Loaded
  BY <1>4, BaseLoaded
<1>5. CASE UpdateRegions
  BY <1>5, BaseUpdateRegions
<1>6. CASE Subscribe
  BY <1>6, BaseSubscribe
<1>7. CASE Sync
  BY <1>7, BaseSync
<1>8. CASE UNCHANGED vars
  BY <1>8 DEF vars, world, traced, mirror, Base, Typed, Mapped, Unique, Placed, Subscribed
<1> QED BY <1>1, <1>2, <1>3, <1>4, <1>5, <1>6, <1>7, <1>8 DEF Next

LEMMA BaseAlways == Spec => []Base
<1>1. Init => Base
  BY InitBase
<1>2. Base /\ [Next]_vars => Base'
  BY BaseNext
<1> QED BY <1>1, <1>2, PTL DEF Spec

(* The whole state has its type: in particular the indices in the tables   *)
(* of neighbours are those of regions, regions hold ids of entities, and   *)
(* the client has only Uids that were given out.                           *)
THEOREM TypeCorrect == Spec => []TypeOK
<1>1. Base => TypeOK
  <2> SUFFICES ASSUME Base PROVE TypeOK
    OBVIOUS
  <2>1. Typed /\ Sound(region_map) /\ TrackedOnce(region_map) /\ region_map.tracked \subseteq ID
    BY DEF Base, Mapped
  <2>2. region_map.regions \in Seq(RegionSet) /\ Exact(region_map.regions)
    BY <2>1, MatchIsExact DEF Sound, MapSet
  <2>3. DOMAIN region_map.regions = 1 .. Len(region_map.regions)
    BY <2>2
  <2>4. ASSUME NEW i \in DOMAIN region_map.regions
        PROVE  /\ region_map.regions[i].bitset \subseteq ID
               /\ region_map.regions[i].neighbors \in [Directions -> 0 .. Len(region_map.regions)]
    <3>1. region_map.regions[i].bitset \subseteq ID
      BY <2>1 DEF TrackedOnce
    <3>2. region_map.regions[i].neighbors \in [Directions -> Nat]
      <4>1. region_map.regions[i] \in RegionSet
        BY <2>2, <2>3
      <4> QED BY <4>1 DEF RegionSet
    <3>3. \A d \in Directions : region_map.regions[i].neighbors[d] \in 0 .. Len(region_map.regions)
      BY <2>2, <2>3 DEF Exact, None
    <3> QED BY <3>1, <3>2, <3>3
  <2>5. \A r \in ToSet(region_map.regions) :
           r.bitset \subseteq ID /\ r.neighbors \in [Directions -> 0 .. Len(region_map.regions)]
    BY <2>4 DEF ToSet
  <2>6. next_uid \in 1 .. MaxUid + 1 /\ \A d \in deleted : d[2] \in UID
    BY <2>1 DEF Typed
  <2> QED BY <2>1, <2>5, <2>6 DEF Typed, TypeOK
<1> QED BY <1>1, BaseAlways, PTL

(* RegionMap keeps its promise in every tick, whatever the world does in   *)
(* between: each table of neighbours names exactly the regions that are    *)
(* beside, and every entity that is tracked is in exactly one region.      *)
THEOREM RegionsStayInAgreement == Spec => []RegionsAgree
<1>1. Base => RegionsAgree
  BY DEF Base, Mapped, Sound, RegionsAgree
<1> QED BY <1>1, BaseAlways, PTL

-----------------------------------------------------------------------------
(* Distances.  A client that has not left its chunk is close to where it   *)
(* has subscribed; an entity is in its region or close to it.  Whatever is *)
(* in view is then in a region that came into sight at that place.         *)
LEMMA DivisionIs ==
    ASSUME NEW n \in Int, NEW d \in Nat \ {0}
    PROVE  /\ n \div d \in Int
           /\ (n \div d) * d <= n
           /\ n < (n \div d) * d + d
  OBVIOUS

LEMMA MoreSquared ==
    ASSUME NEW a \in Nat, NEW b \in Nat
    PROVE  (a < b => a * a < b * b) /\ (a <= b => a * a <= b * b)
  OBVIOUS

(* The square root of two is not a fraction.                               *)
LEMMA NoRootOfTwo ==
    ASSUME NEW a \in Nat, NEW b \in Nat, a * a = 2 * (b * b)
    PROVE  b = 0
<1> DEFINE T == {n \in Nat : n > 0 /\ \E m \in Nat : m * m = 2 * (n * n)}
<1> SUFFICES ASSUME b # 0
             PROVE  FALSE
  OBVIOUS
<1>1. PICK n \in T : \A k \in T : n <= k
  <2>1. T \subseteq Nat /\ b \in T
    OBVIOUS
  <2> HIDE DEF T
  <2> QED BY <2>1, Least
<1>2. PICK m \in Nat : m * m = 2 * (n * n)
  OBVIOUS
<1>3. n \in Nat /\ n > 0
  OBVIOUS
<1>4. PICK c \in Nat : m = 2 * c
  <2>1. PICK c : c = m \div 2
    OBVIOUS
  <2>2. c \in Nat /\ (m = 2 * c \/ m = 2 * c + 1)
    BY <2>1
  <2>3. CASE m = 2 * c + 1
    <3>1. m * m = 2 * (2 * (c * c) + 2 * c) + 1
      BY <2>2, <2>3
    <3>2. PICK x : x = 2 * (c * c) + 2 * c
      OBVIOUS
    <3>3. PICK y : y = n * n
      OBVIOUS
    <3>4. x \in Int /\ y \in Int
      BY <1>3, <2>2, <3>2, <3>3
    <3>5. 2 * y = 2 * x + 1
      BY <1>2, <3>1, <3>2, <3>3
    <3> QED BY <3>4, <3>5
  <2> QED BY <2>2, <2>3
<1>5. n * n = 2 * (c * c)
  <2>1. m * m = 4 * (c * c)
    BY <1>4
  <2>2. c * c \in Int /\ n * n \in Int
    BY <1>3
  <2> QED BY <1>2, <2>1, <2>2
<1>6. c > 0
  <2>1. n * n > 0
    BY <1>3, MoreSquared
  <2> QED BY <1>5, <2>1
<1>7. c \in T
  BY <1>3, <1>5, <1>6
<1>8. n <= c
  BY <1>1, <1>7
<1>9. n * n <= c * c /\ c * c > 0 /\ c * c \in Int
  BY <1>3, <1>6, <1>8, MoreSquared
<1> QED BY <1>3, <1>5, <1>9

(* On one axis: n is close to low or in the region that begins there.      *)
LEMMA NearAxis ==
    ASSUME NEW n0 \in Int, NEW n \in Int, NEW q \in Int, NEW low \in Int, NEW g \in Nat,
           Absolute(n0 - n) <= g,
           \/ low <= q /\ q <= low + RegionSize
           \/ Absolute(q - low) <= Tether
    PROVE  /\ Outside(n0, low) \in Nat
           /\ Outside(n0, low) <= g + Tether + Absolute(q - n)
           /\ low - n0 <= Outside(n0, low) /\ n0 - (low + RegionSize) <= Outside(n0, low)
  BY RegionsAssumption DEF Absolute, Outside

(* Of two sides the squares of which add up to no more than that of vd.    *)
LEMMA Diagonals ==
    ASSUME NEW a \in Nat, NEW b \in Nat, NEW vd \in Nat \ {0}, NEW k \in Nat \ {0},
           a * a + b * b <= vd * vd,
           NEW dx \in Nat, NEW dy \in Nat, dx <= k + a, dy <= k + b
    PROVE  LET over == dx * dx + dy * dy - vd * vd - 2 * k * k
           IN  over < 0 \/ over * over < 8 * vd * vd * k * k
<1> DEFINE over == dx * dx + dy * dy - vd * vd - 2 * k * k
           s == a + b
<1>1. s * s < 2 * (vd * vd)
  <2>1. s * s <= 2 * (a * a + b * b)
    <3>1. (a - b) * (a - b) >= 0
      OBVIOUS
    <3> QED BY <3>1
  <2>2. s * s # 2 * (vd * vd)
    <3>1. s \in Nat /\ vd \in Nat
      OBVIOUS
    <3> QED BY <3>1, NoRootOfTwo
  <2>3. s * s \in Int /\ vd * vd \in Int /\ a * a + b * b \in Int
    OBVIOUS
  <2> QED BY <2>1, <2>2, <2>3
<1>2. over <= 2 * (k * s)
  <2>1. dx * dx <= (k + a) * (k + a) /\ dy * dy <= (k + b) * (k + b)
    BY MoreSquared
  <2>2. (k + a) * (k + a) = k * k + 2 * (k * a) + a * a /\ (k + b) * (k + b) = k * k + 2 * (k * b) + b * b
    OBVIOUS
  <2>3. k * s = k * a + k * b
    OBVIOUS
  <2> QED BY <2>1, <2>2, <2>3
<1>3. SUFFICES ASSUME over >= 0
               PROVE  over * over < 8 * vd * vd * k * k
  OBVIOUS
<1>4. over * over <= (2 * (k * s)) * (2 * (k * s))
  <2>1. over \in Nat /\ 2 * (k * s) \in Nat
    BY <1>3
  <2> HIDE DEF over, s
  <2> QED BY <1>2, <2>1, MoreSquared
<1>5. (2 * (k * s)) * (2 * (k * s)) = 4 * ((k * k) * (s * s))
  OBVIOUS
<1>6. (k * k) * (s * s) < (k * k) * (2 * (vd * vd))
  <2>1. k * k \in Int /\ k * k > 0 /\ s * s \in Int /\ 2 * (vd * vd) \in Int
    BY MoreSquared
  <2>2. \A x, y, z \in Int : z > 0 /\ x < y => z * x < z * y
    OBVIOUS
  <2> HIDE DEF s
  <2> QED BY <1>1, <2>1, <2>2
<1>7. 8 * vd * vd * k * k = 4 * ((k * k) * (2 * (vd * vd)))
  OBVIOUS
<1>8. over * over \in Int /\ (k * k) * (s * s) \in Int /\ (k * k) * (2 * (vd * vd)) \in Int
  OBVIOUS
<1> HIDE DEF over, s
<1> QED BY <1>4, <1>5, <1>6, <1>7, <1>8

(* How far a client is from where it has subscribed to regions, before     *)
(* subscription looks for others.                                          *)
Close(p0, p) == \A d \in {1, 2} : Absolute(p0[d] - p[d]) <= ChunkSize + ChunkFuzz

LEMMA StaysClose ==
    ASSUME NEW p0 \in Nat \X Nat, NEW p \in Nat \X Nat,
           subscription.fuzzy_chunk = Chunk(p0), ~LeftChunk(p)
    PROVE  Close(p0, p)
<1> DEFINE off(d) == Absolute((2 * subscription.fuzzy_chunk[d] + 1) * ChunkSize - 2 * p[d])
<1>1. /\ p0[1] \in Nat /\ p0[2] \in Nat /\ p[1] \in Nat /\ p[2] \in Nat
      /\ ChunkSize \in Nat \ {0} /\ ChunkFuzz \in Nat
  BY ConstantsKnown
<1>2. ASSUME NEW d \in {1, 2}
      PROVE  Absolute(p0[d] - p[d]) <= ChunkSize + ChunkFuzz
  <2>1. PICK n0, n, c, C, F : /\ n0 = p0[d] /\ n = p[d] /\ c = p0[d] \div ChunkSize
                              /\ C = ChunkSize /\ F = ChunkFuzz
    OBVIOUS
  <2>2. n0 \in Nat /\ n \in Nat /\ C \in Nat \ {0} /\ F \in Nat /\ c = n0 \div C
    BY <1>1, <2>1
  <2>3. c \in Int /\ c * C <= n0 /\ n0 < c * C + C
    BY <2>2, DivisionIs
  <2>4. subscription.fuzzy_chunk[d] = c
    BY <2>1 DEF Chunk
  <2>5. CASE Chunk(p) = subscription.fuzzy_chunk
    <3>1. n \div C = c
      BY <2>1, <2>5 DEF Chunk
    <3>2. c * C <= n /\ n < c * C + C
      BY <2>2, <3>1, DivisionIs
    <3>3. Absolute(n0 - n) <= C + F
      <4>1. c * C \in Int
        BY <2>2, <2>3
      <4> QED BY <2>2, <2>3, <3>2, <4>1 DEF Absolute
    <3> QED BY <2>1, <3>3
  <2>6. CASE Chunk(p) # subscription.fuzzy_chunk
    <3>1. ~(off(d) > 2 * (ChunkSize \div 2 + ChunkFuzz))
      BY <2>6 DEF LeftChunk
    <3>2. ~(Absolute((2 * c + 1) * C - 2 * n) > 2 * (C \div 2 + F))
      BY <2>1, <2>4, <3>1
    <3>3. PICK h : h = C \div 2
      OBVIOUS
    <3>4. h \in Int /\ h * 2 <= C
      BY <2>2, <3>3, DivisionIs
    <3>5. (2 * c + 1) * C = 2 * (c * C) + C /\ c * C \in Int
      BY <2>2, <2>3
    <3>6. Absolute(n0 - n) <= C + F
      BY <2>2, <2>3, <3>2, <3>3, <3>4, <3>5 DEF Absolute
    <3> QED BY <2>1, <3>6
  <2> QED BY <2>5, <2>6
<1> QED BY <1>2 DEF Close

LEMMA InSight ==
    ASSUME NEW p0 \in Nat \X Nat, NEW p \in Nat \X Nat, NEW q \in Nat \X Nat, Close(p0, p),
           Distance2(q, p) <= (ViewDistance * ChunkSize) * (ViewDistance * ChunkSize),
           NEW key \in Key, ~Switches(key, q)
    PROVE  key \in RegionsSeen(p0)
<1> DEFINE g  == ChunkSize + ChunkFuzz
           k  == ChunkFuzz + ChunkSize + Tether
           vd == ViewDistance * ChunkSize
           a(d) == Absolute(q[d] - p[d])
           low(d) == key[d] * RegionSize
           out(d) == Outside(p0[d], low(d))
<1>1. /\ ChunkSize \in Nat \ {0} /\ ChunkFuzz \in Nat /\ ViewDistance \in Nat \ {0}
      /\ RegionSize \in Nat \ {0} /\ Tether \in Nat
  BY ConstantsKnown, RegionsAssumption
<1>2. g \in Nat /\ k \in Nat \ {0} /\ vd \in Nat \ {0} /\ k = g + Tether
  <2>1. \A x, y \in Nat \ {0} : x * y \in Nat \ {0}
    OBVIOUS
  <2> QED BY <1>1, <2>1
<1>3. ASSUME NEW d \in {1, 2}
      PROVE  /\ p0[d] \in Int /\ p[d] \in Int /\ q[d] \in Int /\ key[d] \in Int /\ low(d) \in Int
             /\ a(d) \in Nat
             /\ out(d) \in Nat /\ out(d) <= k + a(d)
             /\ low(d) - p0[d] <= out(d) /\ p0[d] - (low(d) + RegionSize) <= out(d)
  <2>1. p0[d] \in Int /\ p[d] \in Int /\ q[d] \in Int /\ key[d] \in Int /\ low(d) \in Int
    BY <1>1 DEF Key
  <2>2. a(d) \in Nat
    BY <2>1 DEF Absolute
  <2>3. \/ low(d) <= q[d] /\ q[d] <= low(d) + RegionSize
        \/ Absolute(q[d] - low(d)) <= Tether
    <3>1. CASE PosKey(q) = key
      <4>1. q[d] \div RegionSize = key[d]
        BY <3>1 DEF PosKey
      <4>2. low(d) <= q[d] /\ q[d] < low(d) + RegionSize
        BY <1>1, <2>1, <4>1, DivisionIs
      <4> QED BY <1>1, <2>1, <4>2
    <3>2. CASE PosKey(q) # key
      <4>1. ~(Absolute(q[d] - low(d)) > Tether)
        BY <3>2 DEF Switches, KeyPos
      <4>2. Absolute(q[d] - low(d)) \in Nat
        BY <2>1 DEF Absolute
      <4> HIDE DEF low
      <4> QED BY <1>1, <4>1, <4>2
    <3> QED BY <3>1, <3>2
  <2>4. Absolute(p0[d] - p[d]) <= g
    BY DEF Close
  <2> HIDE DEF low, g
  <2>5. /\ Outside(p0[d], low(d)) \in Nat
        /\ Outside(p0[d], low(d)) <= g + Tether + Absolute(q[d] - p[d])
        /\ low(d) - p0[d] <= Outside(p0[d], low(d)) /\ p0[d] - (low(d) + RegionSize) <= Outside(p0[d], low(d))
    BY <1>2, <2>1, <2>3, <2>4, NearAxis
  <2> HIDE DEF k
  <2> QED BY <1>2, <2>1, <2>2, <2>5
<1>4. a(1) * a(1) + a(2) * a(2) <= vd * vd
  <2>1. ASSUME NEW d \in {1, 2}
        PROVE  a(d) * a(d) = (q[d] - p[d]) * (q[d] - p[d])
    BY <1>3 DEF Absolute
  <2> QED BY <2>1 DEF Distance2
<1>5. /\ a(1) \in Nat /\ a(2) \in Nat /\ out(1) \in Nat /\ out(2) \in Nat
      /\ out(1) <= k + a(1) /\ out(2) <= k + a(2)
  BY <1>3
<1>6. InRange(key, p0, vd, ChunkFuzz + ChunkSize)
  <2>1. LET over == out(1) * out(1) + out(2) * out(2) - vd * vd - 2 * k * k
        IN  over < 0 \/ over * over < 8 * vd * vd * k * k
    <3> HIDE DEF a, out, k, vd
    <3> QED BY <1>2, <1>4, <1>5, Diagonals
  <2>2. KeyPos(key)[1] = low(1) /\ KeyPos(key)[2] = low(2)
    BY DEF KeyPos
  <2> QED BY <2>1, <2>2 DEF InRange
<1>7. ASSUME NEW d \in {1, 2}
      PROVE  /\ (p0[d] - (vd + 2 * k)) \div RegionSize <= key[d]
             /\ key[d] <= (p0[d] + (vd + 2 * k)) \div RegionSize
  <2>1. a(d) <= vd
    <3>1. a(d) * a(d) <= vd * vd
      <4>1. /\ a(1) * a(1) \in Nat /\ a(2) * a(2) \in Nat /\ vd * vd \in Nat
        <5>1. \A x \in Nat : x * x \in Nat
          OBVIOUS
        <5> HIDE DEF a, vd
        <5> QED BY <1>2, <1>5, <5>1
      <4> HIDE DEF a, vd
      <4> QED BY <1>4, <4>1
    <3>2. a(d) \in Nat /\ vd \in Nat
      BY <1>2, <1>3
    <3> HIDE DEF a, vd
    <3>3. ~(vd < a(d))
      <4>1. vd < a(d) => vd * vd < a(d) * a(d)
        BY <3>2, MoreSquared
      <4>2. vd * vd \in Int /\ a(d) * a(d) \in Int
        BY <3>2
      <4> QED BY <3>1, <4>1, <4>2
    <3> QED BY <3>2, <3>3
  <2>2. PICK n, r, y, R : n = p0[d] /\ r = vd + 2 * k /\ y = key[d] /\ R = RegionSize
    OBVIOUS
  <2>3. n \in Int /\ r \in Nat /\ y \in Int /\ R \in Nat \ {0} /\ y * R \in Int
    BY <1>1, <1>2, <1>3, <2>2
  <2>4. y * R - n <= r /\ n - (y * R + R) < r
    <3>1. low(d) - p0[d] <= k + vd /\ p0[d] - (low(d) + RegionSize) <= k + vd
      <4>1. /\ a(d) <= vd /\ vd \in Nat /\ k \in Nat /\ RegionSize \in Nat
            /\ p0[d] \in Int /\ low(d) \in Int /\ a(d) \in Nat
            /\ out(d) \in Nat /\ out(d) <= k + a(d)
            /\ low(d) - p0[d] <= out(d) /\ p0[d] - (low(d) + RegionSize) <= out(d)
        BY <1>1, <1>2, <1>3, <2>1
      <4> HIDE DEF a, out, low, k, vd
      <4> QED BY <4>1
    <3>2. low(d) = y * R /\ low(d) \in Int
      BY <1>3, <2>2
    <3>3. k \in Nat \ {0} /\ vd \in Nat
      BY <1>2
    <3> HIDE DEF low, k, vd
    <3> QED BY <2>2, <2>3, <3>1, <3>2, <3>3
  <2>5. (n - r) \div R <= y
    <3>1. PICK z : z = (n - r) \div R
      OBVIOUS
    <3>2. z \in Int /\ z * R <= n - r
      BY <2>3, <3>1, DivisionIs
    <3>3. z * R < (y + 1) * R
      BY <2>3, <2>4, <3>2
    <3>4. \A u, v \in Int : u * R < v * R => u < v
      BY <2>3
    <3>5. z < y + 1
      BY <2>3, <3>2, <3>3, <3>4
    <3> QED BY <2>3, <3>1, <3>2, <3>5
  <2>6. y <= (n + r) \div R
    <3>1. PICK z : z = (n + r) \div R
      OBVIOUS
    <3>2. z \in Int /\ n + r < z * R + R
      BY <2>3, <3>1, DivisionIs
    <3>3. y * R < (z + 1) * R
      BY <2>3, <2>4, <3>2
    <3>4. \A u, v \in Int : u * R < v * R => u < v
      BY <2>3
    <3>5. y < z + 1
      BY <2>3, <3>2, <3>3, <3>4
    <3> QED BY <2>3, <3>1, <3>2, <3>5
  <2> QED BY <2>2, <2>5, <2>6
<1>8. key = <<key[1], key[2]>> /\ key[1] \in Int /\ key[2] \in Int
  BY DEF Key
<1>9. \A d \in {1, 2} : (p0[d] - (vd + 2 * k)) \div RegionSize \in Int /\ (p0[d] + (vd + 2 * k)) \div RegionSize \in Int
  <2>1. \A d \in {1, 2} : p0[d] - (vd + 2 * k) \in Int /\ p0[d] + (vd + 2 * k) \in Int
    BY <1>2, <1>3
  <2> HIDE DEF vd, k
  <2> QED BY <1>1, <2>1, DivisionIs
<1>10. key[1] \in ((p0[1] - (vd + 2 * k)) \div RegionSize) .. ((p0[1] + (vd + 2 * k)) \div RegionSize)
  BY <1>7, <1>8, <1>9
<1>11. key[2] \in ((p0[2] - (vd + 2 * k)) \div RegionSize) .. ((p0[2] + (vd + 2 * k)) \div RegionSize)
  BY <1>7, <1>8, <1>9
<1> QED BY <1>6, <1>8, <1>10, <1>11 DEF RegionsSeen, RegionsInRange

-----------------------------------------------------------------------------
(* The copy that the client has, in the course of a tick.                  *)
At(i) == FindRegion(region_map, i)
Seen  == subscription.regions

(* The trackers are empty when all has been synchronised.                  *)
Quiet == phase = "synced" => inserted = {} /\ changed = {} /\ deleted = {}

(* The map agrees with the positions, once it has been updated.            *)
InPlace ==
    phase \in {"regions", "subscribed", "synced"} =>
        \A i \in ID : IF pos[i] = NoPos THEN At(i) = NoKey
                                        ELSE At(i) # NoKey /\ ~Switches(At(i), pos[i])

(* An entity that is tracked but nowhere is a new one with an id that is   *)
(* used again.                                                             *)
Aground ==
    phase \in {"synced", "world"} =>
        \A i \in ID : At(i) # NoKey /\ uid[i] # NoUid /\ i \notin inserted => pos[i] # NoPos

Out == ~Subscribed => Seen = {} /\ known = {Me} /\ stale \subseteq {Me} /\ missed = {}

(* A client that is subscribed sees the regions around the place where it  *)
(* subscribed and is close to it.                                          *)
In ==
    Subscribed =>
        /\ Me \in known
        /\ \E p \in Places : Chunk(p) = subscription.fuzzy_chunk /\ RegionsSeen(p) \subseteq Seen
        /\ phase \in {"subscribed", "synced"} => ~LeftChunk(pos[Entity])
        /\ \A u \in stale : u \in UidsOf(changed) \/ u \in DeletedIn(Seen)

(* Between ticks it has what is tracked in regions that it sees, but for   *)
(* deletions that it has yet to be told of and entities that are new.      *)
Mirrored ==
    phase \in {"synced", "world"} /\ Subscribed =>
        /\ \A u \in known : \/ u = Me \/ u \in DeletedIn(Seen)
                            \/ \E i \in ID : uid[i] = u /\ At(i) \in Seen /\ pos[i] # NoPos
        /\ \A i \in ID : At(i) \in Seen /\ i \notin inserted /\ uid[i] # NoUid => uid[i] \in known \cup missed

(* Once the regions are updated, it has what was there before.             *)
Updated ==
    phase = "regions" /\ Subscribed =>
        \E old :
            /\ \A i \in ID : Settled(region_map, i, old[i], At(i))
            /\ \A u \in known : \/ u = Me \/ u \in DeletedIn(Seen)
                                \/ \E i \in ID : uid[i] = u /\ old[i] \in Seen
            /\ \A i \in ID : old[i] \in Seen /\ i \notin inserted /\ uid[i] # NoUid => uid[i] \in known \cup missed

(* Once it is subscribed to others, it may have more than it is to have,   *)
(* and of what it lacks it will be told that it has entered.               *)
Awaiting ==
    phase = "subscribed" /\ Subscribed =>
        \E old :
            /\ \A i \in ID : Settled(region_map, i, old[i], At(i))
            /\ \A u \in known : \/ u = Me \/ u \in DeletedIn(Seen)
                                \/ \E i \in ID : uid[i] = u /\ (old[i] \in Seen \/ At(i) \in Seen)
            /\ \A i \in ID : At(i) \in Seen /\ i \notin inserted /\ uid[i] # NoUid =>
                  \/ uid[i] \in known \cup missed
                  \/ \E from : from \notin Seen /\ Says(region_map, At(i), Entered(i, from))

Copied == Quiet /\ InPlace /\ Aground /\ Out /\ In /\ Mirrored /\ Updated /\ Awaiting

Inv == Base /\ Copied

LEMMA DeletedIs ==
    ASSUME NEW keys, NEW u
    PROVE  u \in DeletedIn(keys) <=> \E d \in deleted : d[1] \in keys /\ d[2] = u
  BY DEF DeletedIn

LEMMA InitInv == Init => Inv
<1> SUFFICES ASSUME Init PROVE Inv
  OBVIOUS
<1>1. /\ phase = "synced" /\ pos = [i \in ID |-> NoPos] /\ region_map = EmptyMap
      /\ subscription = NotSubscribed /\ subscription.regions = {} /\ ~Subscribed
      /\ inserted = {} /\ changed = {} /\ deleted = {}
      /\ known = {Me} /\ stale = {Me} /\ missed = {}
  BY DEF Init, NotSubscribed, Subscribed
<1>2. \A i : At(i) = NoKey
  <2>1. \A i : i \notin region_map.tracked
    BY <1>1 DEF EmptyMap
  <2>2. Sound(region_map) /\ TrackedOnce(region_map)
    BY InitBase DEF Base, Mapped
  <2> QED BY <2>1, <2>2, FindIsWhere DEF At
<1>3. Quiet /\ InPlace /\ Aground /\ Out /\ In /\ Mirrored /\ Updated /\ Awaiting
  BY <1>1, <1>2 DEF Quiet, InPlace, Aground, Out, In, Mirrored, Updated, Awaiting, Seen
<1> QED BY <1>3, InitBase DEF Inv, Copied

(* What events of the world have in common: entities that go are noted as  *)
(* deleted where they are tracked, and who has a Uid and is not new had it *)
(* before.                                                                 *)
LEMMA EventKeeps ==
    ASSUME Inv, Base', phase \in {"synced", "world"}, phase' = "world",
           region_map' = region_map, subscription' = subscription,
           known' = known, stale' = stale, missed' = missed, deleted \subseteq deleted',
           \A i \in ID : /\ pos[i] # NoPos /\ uid[i] # Me /\ At(i) # NoKey
                            => (uid'[i] = uid[i] /\ pos'[i] # NoPos) \/ <<At(i), uid[i]>> \in deleted'
                         /\ i \notin inserted' /\ uid'[i] # NoUid
                            => i \notin inserted /\ uid[i] = uid'[i] /\ (pos[i] # NoPos => pos'[i] # NoPos)
                         /\ i \in changed /\ uid[i] # NoUid
                            => \/ \E j \in changed' : uid'[j] = uid[i]
                               \/ uid[i] # Me /\ uid'[i] # uid[i]
    PROVE  Inv'
<1> USE DEF Inv, Copied
<1>1. /\ \A i : At(i)' = At(i)
      /\ Seen' = Seen /\ (Subscribed' <=> Subscribed)
  BY DEF At, Seen, Subscribed
<1>2. \A u : u \in DeletedIn(Seen) => u \in DeletedIn(Seen)'
  BY <1>1 DEF DeletedIn
<1>3. Quiet' /\ InPlace' /\ Updated' /\ Awaiting'
  BY DEF Quiet, InPlace, Updated, Awaiting
<1>4. Aground'
  BY <1>1 DEF Aground
<1>5. Out'
  BY <1>1 DEF Out
<1>6. NoKey \notin Seen
  BY NoKeyIsNone DEF Base, Typed, Seen
<1>7. ASSUME NEW i \in ID, pos[i] # NoPos, uid[i] # Me, At(i) \in Seen, uid'[i] # uid[i] \/ pos'[i] = NoPos
      PROVE  uid[i] \in DeletedIn(Seen)'
  <2>1. <<At(i), uid[i]>> \in deleted'
    BY <1>6, <1>7
  <2> QED BY <1>1, <1>7, <2>1 DEF DeletedIn
<1>8. Mirrored'
  <2> SUFFICES ASSUME Subscribed
               PROVE  /\ \A u \in known : \/ u = Me \/ u \in DeletedIn(Seen)'
                                          \/ \E i \in ID : uid'[i] = u /\ At(i) \in Seen /\ pos'[i] # NoPos
                      /\ \A i \in ID : At(i) \in Seen /\ i \notin inserted' /\ uid'[i] # NoUid => uid'[i] \in known \cup missed
    BY <1>1 DEF Mirrored
  <2>1. ASSUME NEW u \in known
        PROVE  \/ u = Me \/ u \in DeletedIn(Seen)'
               \/ \E i \in ID : uid'[i] = u /\ At(i) \in Seen /\ pos'[i] # NoPos
    <3>1. \/ u = Me \/ u \in DeletedIn(Seen)
          \/ \E i \in ID : uid[i] = u /\ At(i) \in Seen /\ pos[i] # NoPos
      BY DEF Mirrored
    <3> QED BY <1>2, <1>7, <3>1
  <2>2. ASSUME NEW i \in ID, At(i) \in Seen, i \notin inserted', uid'[i] # NoUid
        PROVE  uid'[i] \in known \cup missed
    BY <2>2 DEF Mirrored
  <2> QED BY <2>1, <2>2
<1>9. In'
  <2> SUFFICES ASSUME Subscribed
               PROVE  /\ Me \in known
                      /\ \E p \in Places : Chunk(p) = subscription.fuzzy_chunk /\ RegionsSeen(p) \subseteq Seen
                      /\ \A u \in stale : u \in UidsOf(changed)' \/ u \in DeletedIn(Seen)'
    BY <1>1 DEF In
  <2>1. ASSUME NEW u \in stale, u \notin DeletedIn(Seen)'
        PROVE  u \in UidsOf(changed)'
    <3>1. u \in UidsOf(changed) /\ u \in known
      BY <1>2, <2>1 DEF In, Base, Typed
    <3>2. PICK i \in changed : uid[i] = u /\ u # NoUid
      BY <3>1 DEF UidsOf
    <3>3. i \in ID
      BY <3>2 DEF Base, Typed
    <3>4. CASE \E j \in changed' : uid'[j] = u
      BY <3>2, <3>4 DEF UidsOf
    <3>5. CASE ~ \E j \in changed' : uid'[j] = u
      <4>1. u # Me /\ uid'[i] # u
        BY <3>2, <3>3, <3>5
      <4>2. u \notin DeletedIn(Seen)
        BY <1>2, <2>1
      <4>3. PICK j \in ID : uid[j] = u /\ At(j) \in Seen /\ pos[j] # NoPos
        BY <3>1, <4>1, <4>2 DEF Mirrored
      <4>4. j = i
        BY <3>2, <3>3, <4>3 DEF Base, Unique
      <4> QED BY <1>7, <2>1, <3>2, <3>3, <4>1, <4>3, <4>4
    <3> QED BY <3>4, <3>5
  <2> QED BY <2>1 DEF In
<1> QED BY <1>3, <1>4, <1>5, <1>8, <1>9

LEMMA InvCreate ==
    ASSUME Inv, NEW i \in ID, NEW p \in scene.places \cup {NoPos}, Create(i, p)
    PROVE  Inv'
<1>1. /\ phase \in {"synced", "world"} /\ phase' = "world" /\ uid[i] = NoUid
      /\ uid' = [uid EXCEPT ![i] = next_uid] /\ pos' = [pos EXCEPT ![i] = p]
      /\ inserted' = inserted \cup {i} /\ changed' = changed \cup {i}
      /\ region_map' = region_map /\ subscription' = subscription /\ deleted' = deleted
      /\ known' = known /\ stale' = stale /\ missed' = missed
  BY DEF Create, Event, Free, Vacant, mirror
<1>2. Base' /\ Typed /\ Unique
  BY BaseCreate DEF Inv, Base
<1>3. pos[i] = NoPos /\ changed \subseteq ID
  BY <1>1, <1>2 DEF Unique, Typed
<1>4. \A j \in ID : j # i => uid'[j] = uid[j] /\ pos'[j] = pos[j]
  BY <1>1, <1>2 DEF Typed
<1>5. ASSUME NEW j \in ID
      PROVE  /\ pos[j] # NoPos /\ uid[j] # Me /\ At(j) # NoKey
                => (uid'[j] = uid[j] /\ pos'[j] # NoPos) \/ <<At(j), uid[j]>> \in deleted'
             /\ j \notin inserted' /\ uid'[j] # NoUid
                => j \notin inserted /\ uid[j] = uid'[j] /\ (pos[j] # NoPos => pos'[j] # NoPos)
             /\ j \in changed /\ uid[j] # NoUid
                => \/ \E k \in changed' : uid'[k] = uid[j]
                   \/ uid[j] # Me /\ uid'[j] # uid[j]
  BY <1>1, <1>3, <1>4
<1> QED BY <1>1, <1>2, <1>5, EventKeeps

LEMMA InvMove ==
    ASSUME Inv, NEW i \in ID, NEW p \in scene.places, Move(i, p)
    PROVE  Inv'
<1>1. /\ phase \in {"synced", "world"} /\ phase' = "world"
      /\ uid' = uid /\ pos' = [pos EXCEPT ![i] = p]
      /\ inserted' = inserted /\ changed' = changed
      /\ region_map' = region_map /\ subscription' = subscription /\ deleted' = deleted
      /\ known' = known /\ stale' = stale /\ missed' = missed
  BY DEF Move, Event, mirror, traced
<1>2. Base' /\ Typed
  BY BaseMove DEF Inv, Base
<1>3. p # NoPos
  BY <1>2, ScenesKnown, ConstantsKnown DEF Typed
<1>4. \A j \in ID : pos'[j] = IF j = i THEN p ELSE pos[j]
  BY <1>1, <1>2 DEF Typed
<1>5. ASSUME NEW j \in ID
      PROVE  /\ pos[j] # NoPos /\ uid[j] # Me /\ At(j) # NoKey
                => (uid'[j] = uid[j] /\ pos'[j] # NoPos) \/ <<At(j), uid[j]>> \in deleted'
             /\ j \notin inserted' /\ uid'[j] # NoUid
                => j \notin inserted /\ uid[j] = uid'[j] /\ (pos[j] # NoPos => pos'[j] # NoPos)
             /\ j \in changed /\ uid[j] # NoUid
                => \/ \E k \in changed' : uid'[k] = uid[j]
                   \/ uid[j] # Me /\ uid'[j] # uid[j]
  BY <1>1, <1>3, <1>4
<1> QED BY <1>1, <1>2, <1>5, EventKeeps

LEMMA InvChange ==
    ASSUME Inv, NEW i \in ID, Change(i)
    PROVE  Inv'
<1>1. /\ phase \in {"synced", "world"} /\ phase' = "world"
      /\ uid' = uid /\ pos' = pos
      /\ inserted' = inserted /\ changed' = changed \cup {i}
      /\ region_map' = region_map /\ subscription' = subscription /\ deleted' = deleted
      /\ known' = known /\ stale' = stale /\ missed' = missed
  BY DEF Change, Event, mirror, world
<1>2. Base'
  BY BaseChange DEF Inv
<1>3. ASSUME NEW j \in ID
      PROVE  /\ pos[j] # NoPos /\ uid[j] # Me /\ At(j) # NoKey
                => (uid'[j] = uid[j] /\ pos'[j] # NoPos) \/ <<At(j), uid[j]>> \in deleted'
             /\ j \notin inserted' /\ uid'[j] # NoUid
                => j \notin inserted /\ uid[j] = uid'[j] /\ (pos[j] # NoPos => pos'[j] # NoPos)
             /\ j \in changed /\ uid[j] # NoUid
                => \/ \E k \in changed' : uid'[k] = uid[j]
                   \/ uid[j] # Me /\ uid'[j] # uid[j]
  BY <1>1
<1> QED BY <1>1, <1>2, <1>3, EventKeeps

LEMMA InvDelete ==
    ASSUME Inv, NEW i \in ID, Delete(i)
    PROVE  Inv'
<1>1. /\ phase \in {"synced", "world"} /\ phase' = "world" /\ uid[i] \notin {NoUid, Me}
      /\ uid' = [uid EXCEPT ![i] = NoUid] /\ pos' = [pos EXCEPT ![i] = NoPos] /\ Record(i)
      /\ inserted' = inserted \ {i} /\ changed' = changed \ {i}
      /\ region_map' = region_map /\ subscription' = subscription
      /\ known' = known /\ stale' = stale /\ missed' = missed
  BY DEF Delete, Event, mirror
<1>2. Base' /\ Base /\ Typed
  BY BaseDelete DEF Inv, Base
<1>3. /\ deleted \subseteq deleted'
      /\ pos[i] # NoPos /\ At(i) # NoKey => <<At(i), uid[i]>> \in deleted'
  BY <1>1, <1>2, Recorded DEF At
<1>4. \A j \in ID : /\ uid'[j] = IF j = i THEN NoUid ELSE uid[j]
                    /\ pos'[j] = IF j = i THEN NoPos ELSE pos[j]
  BY <1>1, <1>2 DEF Typed
<1>5. ASSUME NEW j \in ID
      PROVE  /\ pos[j] # NoPos /\ uid[j] # Me /\ At(j) # NoKey
                => (uid'[j] = uid[j] /\ pos'[j] # NoPos) \/ <<At(j), uid[j]>> \in deleted'
             /\ j \notin inserted' /\ uid'[j] # NoUid
                => j \notin inserted /\ uid[j] = uid'[j] /\ (pos[j] # NoPos => pos'[j] # NoPos)
             /\ j \in changed /\ uid[j] # NoUid
                => \/ \E k \in changed' : uid'[k] = uid[j]
                   \/ uid[j] # Me /\ uid'[j] # uid[j]
  <2>1. CASE j = i
    BY <1>1, <1>3, <1>4, <2>1
  <2>2. CASE j # i
    BY <1>1, <1>4, <2>2
  <2> QED BY <2>1, <2>2
<1> QED BY <1>1, <1>2, <1>3, <1>5, EventKeeps

LEMMA InvEnterGame ==
    ASSUME Inv, NEW i \in ID, EnterGame(i)
    PROVE  Inv'
<1>1. /\ phase \in {"synced", "world"} /\ phase' = "world"
      /\ uid' = uid /\ pos' = [pos EXCEPT ![i] = Spawn]
      /\ inserted' = inserted /\ changed' = changed \cup {i}
      /\ region_map' = region_map /\ subscription' = subscription /\ deleted' = deleted
      /\ known' = known /\ stale' = stale /\ missed' = missed
  BY DEF EnterGame, Event, mirror
<1>2. Base' /\ Typed
  BY BaseEnterGame DEF Inv, Base
<1>3. \A j \in ID : pos'[j] = IF j = i THEN Spawn ELSE pos[j]
  BY <1>1, <1>2 DEF Typed
<1>4. Spawn # NoPos
  BY ConstantsKnown
<1>5. ASSUME NEW j \in ID
      PROVE  /\ pos[j] # NoPos /\ uid[j] # Me /\ At(j) # NoKey
                => (uid'[j] = uid[j] /\ pos'[j] # NoPos) \/ <<At(j), uid[j]>> \in deleted'
             /\ j \notin inserted' /\ uid'[j] # NoUid
                => j \notin inserted /\ uid[j] = uid'[j] /\ (pos[j] # NoPos => pos'[j] # NoPos)
             /\ j \in changed /\ uid[j] # NoUid
                => \/ \E k \in changed' : uid'[k] = uid[j]
                   \/ uid[j] # Me /\ uid'[j] # uid[j]
  BY <1>1, <1>3, <1>4
<1> QED BY <1>1, <1>2, <1>5, EventKeeps

LEMMA InvExitIngame ==
    ASSUME Inv, NEW i \in ID, NEW n \in ID, ExitIngame(i, n)
    PROVE  Inv'
<1>1. /\ phase \in {"synced", "world"} /\ phase' = "world"
      /\ i \in clients /\ uid[n] = NoUid
      /\ uid' = [uid EXCEPT ![n] = uid[i], ![i] = NoUid] /\ pos' = [pos EXCEPT ![i] = NoPos] /\ Record(i)
      /\ inserted' = (inserted \ {i}) \cup {n} /\ changed' = (changed \ {i}) \cup {n}
      /\ region_map' = region_map
      /\ IF uid[i] = Me
         THEN known' = {Me} /\ stale' = {Me} /\ missed' = {} /\ subscription' = NotSubscribed
         ELSE known' = known /\ stale' = stale /\ missed' = missed /\ subscription' = subscription
  BY DEF ExitIngame, Event, Free, Vacant, mirror
<1>2. Base' /\ Base /\ Typed /\ Unique
  BY BaseExitIngame DEF Inv, Base
<1>3. /\ deleted \subseteq deleted'
      /\ pos[i] # NoPos /\ At(i) # NoKey => <<At(i), uid[i]>> \in deleted'
  BY <1>1, <1>2, Recorded DEF At
<1>4. i # n /\ uid[i] # NoUid /\ pos[n] = NoPos
  BY <1>1, <1>2 DEF Unique
<1>5. \A j \in ID : /\ uid'[j] = IF j = i THEN NoUid ELSE IF j = n THEN uid[i] ELSE uid[j]
                    /\ pos'[j] = IF j = i THEN NoPos ELSE pos[j]
  BY <1>1, <1>2, <1>4 DEF Typed
<1>6. CASE uid[i] = Me
  <2>1. ~Subscribed' /\ Seen' = {} /\ known' = {Me} /\ stale' = {Me} /\ missed' = {}
    BY <1>1, <1>6 DEF Subscribed, Seen, NotSubscribed
  <2>2. Quiet' /\ InPlace' /\ Out' /\ In' /\ Mirrored' /\ Updated' /\ Awaiting'
    BY <1>1, <2>1 DEF Quiet, InPlace, Out, In, Mirrored, Updated, Awaiting
  <2>3. Aground'
    <3>1. \A j : At(j)' = At(j)
      BY <1>1 DEF At
    <3>2. Aground
      BY DEF Inv, Copied
    <3> QED BY <1>1, <1>4, <1>5, <3>1, <3>2 DEF Aground
  <2> QED BY <1>2, <2>2, <2>3 DEF Inv, Copied
<1>7. CASE uid[i] # Me
  <2>1. ASSUME NEW j \in ID
        PROVE  /\ pos[j] # NoPos /\ uid[j] # Me /\ At(j) # NoKey
                  => (uid'[j] = uid[j] /\ pos'[j] # NoPos) \/ <<At(j), uid[j]>> \in deleted'
               /\ j \notin inserted' /\ uid'[j] # NoUid
                  => j \notin inserted /\ uid[j] = uid'[j] /\ (pos[j] # NoPos => pos'[j] # NoPos)
               /\ j \in changed /\ uid[j] # NoUid
                  => \/ \E k \in changed' : uid'[k] = uid[j]
                     \/ uid[j] # Me /\ uid'[j] # uid[j]
    <3>1. CASE j = i
      BY <1>1, <1>3, <1>4, <1>5, <3>1
    <3>2. CASE j = n
      BY <1>1, <1>4, <1>5, <3>2
    <3>3. CASE j # i /\ j # n
      BY <1>1, <1>5, <3>3
    <3> QED BY <3>1, <3>2, <3>3
  <2> QED BY <1>1, <1>2, <1>3, <1>7, <2>1, EventKeeps
<1> QED BY <1>6, <1>7

LEMMA InvLoaded ==
    ASSUME Inv, Loaded
    PROVE  Inv'
<1> DEFINE regions == RegionsSeen(pos[Entity])
           told    == UidsOf({i \in Bitset(regions) : pos[i] # NoPos})
<1>1. /\ phase \in {"synced", "world"} /\ phase' = "world" /\ ~Subscribed /\ pos[Entity] # NoPos
      /\ uid' = uid /\ pos' = pos
      /\ inserted' = inserted /\ changed' = changed \cup {Entity} /\ deleted' = deleted
      /\ region_map' = region_map
      /\ subscription' = [regions |-> regions, fuzzy_chunk |-> Chunk(pos[Entity])]
      /\ known' = known \cup told /\ stale' = stale \ told /\ missed' = missed
  BY DEF Loaded, Event, world
<1>2. Base' /\ Base /\ Typed /\ Unique /\ Mapped /\ Out /\ Aground
  BY BaseLoaded DEF Inv, Base, Copied
<1>3. known = {Me} /\ stale \subseteq {Me}
  BY <1>1, <1>2 DEF Out
<1>4. regions \subseteq Key
  BY SeenAreKeys
<1>5. /\ \A i : i \in Bitset(regions) <=> At(i) \in regions
      /\ Bitset(regions) \subseteq ID
  <2> HIDE DEF regions
  <2> QED BY <1>2, <1>4, BitsetIs DEF At
<1>6. \A u : u \in told <=> u # NoUid /\ \E i \in ID : uid[i] = u /\ At(i) \in regions /\ pos[i] # NoPos
  <2> HIDE DEF regions
  <2> QED BY <1>5 DEF UidsOf
<1>7. /\ Seen' = regions /\ subscription'.fuzzy_chunk = Chunk(pos[Entity])
      /\ \A i : At(i)' = At(i)
  BY <1>1 DEF Seen, At
<1>8. Entity \in ID /\ uid[Entity] = Me
  BY <1>2, EntityIs
<1> HIDE DEF regions, told
<1>9. Subscribed'
  <2>1. Chunk(pos[Entity]) # <<>>
    BY DEF Chunk
  <2>2. subscription'.fuzzy_chunk # NotSubscribed.fuzzy_chunk
    BY <1>7, <2>1 DEF NotSubscribed
  <2> QED BY <2>2 DEF Subscribed
<1>10. Quiet' /\ InPlace' /\ Out' /\ Updated' /\ Awaiting'
  BY <1>1, <1>9 DEF Quiet, InPlace, Out, Updated, Awaiting
<1>11. Aground'
  BY <1>1, <1>2, <1>7 DEF Aground
<1>12. In'
  <2>1. \E p \in Places : Chunk(p) = subscription'.fuzzy_chunk /\ RegionsSeen(p) \subseteq Seen'
    <3>1. pos[Entity] \in Places
      BY <1>1, <1>2, <1>8 DEF Typed
    <3> QED BY <1>7, <3>1 DEF regions
  <2>2. ASSUME NEW u \in stale'
        PROVE  u \in UidsOf(changed)'
    <3>1. u = Me
      BY <1>1, <1>3
    <3>2. Entity \in changed' /\ uid'[Entity] = Me
      BY <1>1, <1>8
    <3> QED BY <3>1, <3>2, ConstantsKnown DEF UidsOf
  <2> QED BY <1>1, <1>3, <2>1, <2>2 DEF In
<1>13. Mirrored'
  <2>1. ASSUME NEW u \in known'
        PROVE  u = Me \/ \E i \in ID : uid'[i] = u /\ At(i)' \in Seen' /\ pos'[i] # NoPos
    BY <1>1, <1>3, <1>6, <1>7
  <2>2. ASSUME NEW i \in ID, At(i)' \in Seen', i \notin inserted', uid'[i] # NoUid
        PROVE  uid'[i] \in known' \cup missed'
    <3>1. At(i) \in regions /\ At(i) # NoKey
      BY <1>4, <1>7, <2>2, NoKeyIsNone
    <3>2. pos[i] # NoPos
      BY <1>1, <1>2, <2>2, <3>1 DEF Aground
    <3> QED BY <1>1, <1>6, <2>2, <3>1, <3>2
  <2> QED BY <2>1, <2>2 DEF Mirrored
<1> QED BY <1>2, <1>10, <1>11, <1>12, <1>13 DEF Inv, Copied

LEMMA InvUpdateRegions ==
    ASSUME Inv, UpdateRegions
    PROVE  Inv'
<1>1. /\ phase \in {"synced", "world"} /\ phase' = "regions"
      /\ uid' = uid /\ pos' = pos
      /\ inserted' = inserted /\ changed' = changed /\ deleted' = deleted
      /\ subscription' = subscription
      /\ known' = known /\ stale' = stale /\ missed' = missed
  BY DEF UpdateRegions, world, traced, mirror
<1>2. /\ Base /\ Base' /\ Ticked(region_map, region_map', pos)
      /\ Typed /\ Mapped /\ Mapped' /\ Out /\ In /\ Mirrored
  BY BaseUpdateRegions DEF Inv, Base, Copied
<1>3. /\ Sound(region_map') /\ TrackedOnce(region_map') /\ DOMAIN pos = ID
      /\ \A i \in ID : Settled(region_map', i, At(i), Goal(At(i), pos[i]))
  BY <1>2 DEF Ticked, At, Typed
<1>4. \A i \in ID : At(i)' = Goal(At(i), pos[i]) /\ At(i) \in Key \cup {NoKey}
  <2> TAKE i \in ID
  <2>1. PICK n : n = region_map'
    OBVIOUS
  <2>2. \A key : Holds(n, i, key) <=> key = FindRegion(n, i) /\ FindRegion(n, i) # NoKey
    BY <1>3, <2>1, FindIsWhere
  <2>3. \A key : Holds(n, i, key) <=> key = Goal(At(i), pos[i]) /\ Goal(At(i), pos[i]) # NoKey
    BY <1>3, <2>1 DEF Settled
  <2>4. FindRegion(n, i) = Goal(At(i), pos[i])
    BY <2>2, <2>3
  <2>5. At(i) \in Key \cup {NoKey}
    BY <1>2, FindIsWhere DEF Mapped, At
  <2> QED BY <2>1, <2>4, <2>5 DEF At
<1>5. InPlace'
  <2>1. ASSUME NEW i \in ID
        PROVE  IF pos[i] = NoPos THEN At(i)' = NoKey ELSE At(i)' # NoKey /\ ~Switches(At(i)', pos[i])
    <3>1. CASE pos[i] = NoPos
      BY <1>4, <3>1 DEF Goal
    <3>2. CASE pos[i] # NoPos /\ (At(i) = NoKey \/ Switches(At(i), pos[i]))
      <4>1. At(i)' = PosKey(pos[i])
        BY <1>4, <3>2 DEF Goal
      <4>2. PosKey(pos[i]) # NoKey /\ ~Switches(PosKey(pos[i]), pos[i])
        BY DEF PosKey, NoKey, Switches
      <4> QED BY <3>2, <4>1, <4>2
    <3>3. CASE pos[i] # NoPos /\ At(i) # NoKey /\ ~Switches(At(i), pos[i])
      BY <1>4, <3>3 DEF Goal
    <3> QED BY <3>1, <3>2, <3>3
  <2> QED BY <1>1, <2>1 DEF InPlace
<1>6. Subscribed' = Subscribed /\ Seen' = Seen /\ DeletedIn(Seen)' = DeletedIn(Seen) /\ UidsOf(changed)' = UidsOf(changed)
  BY <1>1 DEF Subscribed, Seen, DeletedIn, UidsOf
<1>7. Updated'
  <2> SUFFICES ASSUME Subscribed
               PROVE  \E old :
                         /\ \A i \in ID : Settled(region_map', i, old[i], At(i)')
                         /\ \A u \in known : \/ u = Me \/ u \in DeletedIn(Seen)
                                             \/ \E i \in ID : uid[i] = u /\ old[i] \in Seen
                         /\ \A i \in ID : old[i] \in Seen /\ i \notin inserted /\ uid[i] # NoUid => uid[i] \in known \cup missed
    BY <1>1, <1>6 DEF Updated
  <2>1. PICK old : old = [i \in ID |-> At(i)]
    OBVIOUS
  <2>2. \A i \in ID : old[i] = At(i)
    BY <2>1
  <2>3. \A i \in ID : Settled(region_map', i, old[i], At(i)')
    BY <1>3, <1>4, <2>2
  <2>4. /\ \A u \in known : \/ u = Me \/ u \in DeletedIn(Seen)
                            \/ \E i \in ID : uid[i] = u /\ At(i) \in Seen
        /\ \A i \in ID : At(i) \in Seen /\ i \notin inserted /\ uid[i] # NoUid => uid[i] \in known \cup missed
    BY <1>1, <1>2 DEF Mirrored
  <2> QED BY <2>2, <2>3, <2>4
<1>8. Quiet' /\ Aground' /\ Out' /\ Mirrored' /\ Awaiting'
  BY <1>1, <1>2, <1>6 DEF Quiet, Aground, Out, Mirrored, Awaiting
<1>9. In'
  BY <1>1, <1>2, <1>6 DEF In
<1> QED BY <1>2, <1>5, <1>7, <1>8, <1>9 DEF Inv, Copied

(* The Uids that a client forgets, in terms of the map.                    *)
LEMMA ForgetIs ==
    ASSUME Base, NEW out, out \subseteq Key, NEW keep, NEW u
    PROVE  u \in Forget(out, keep) <=>
              \/ /\ u # NoUid
                 /\ \E i \in ID : /\ uid[i] = u
                                  /\ \/ At(i) \in out
                                     \/ \E key \in out : \E to : to \notin keep /\ Says(region_map, key, Left(i, to))
              \/ u \in DeletedIn(out)
<1> DEFINE q == region_map.regions
<1>1. Mapped
  BY DEF Base
<1>2. /\ Bitset(out) \subseteq ID
      /\ \A i : i \in Bitset(out) <=> At(i) \in out
  BY <1>1, BitsetIs DEF At
<1>3. u \in UidsOf(Bitset(out)) <=> u # NoUid /\ \E i \in ID : uid[i] = u /\ At(i) \in out
  BY <1>2 DEF UidsOf
<1>4. u \in UNION {LeftFor(r, keep) : r \in {s \in ToSet(q) : s.key \in out}}
         <=> \E j \in DOMAIN q : q[j].key \in out /\ u \in LeftFor(q[j], keep)
  BY DEF ToSet
<1>5. \A j \in DOMAIN q : u \in LeftFor(q[j], keep) <=>
              \E i \in ID : /\ uid[i] = u /\ u # NoUid
                            /\ \E to : to \notin keep /\ Left(i, to) \in ToSet(q[j].events)
  <2> TAKE j \in DOMAIN q
  <2>1. Mapped /\ j \in DOMAIN region_map.regions
    BY <1>1
  <2>2. u \in LeftFor(region_map.regions[j], keep) <=>
              \E i \in ID : /\ uid[i] = u /\ u # NoUid
                            /\ \E to : to \notin keep /\ Left(i, to) \in ToSet(region_map.regions[j].events)
    BY ONLY <2>1, LeftForIs
  <2> QED BY <2>2
<1>6. (\E j \in DOMAIN q : q[j].key \in out /\ u \in LeftFor(q[j], keep)) <=>
         u # NoUid /\ \E i \in ID : uid[i] = u /\ \E key \in out : \E to : to \notin keep /\ Says(region_map, key, Left(i, to))
  BY <1>5 DEF Says
<1>7. u \in Forget(out, keep) <=> \/ u \in UNION {LeftFor(r, keep) : r \in {s \in ToSet(q) : s.key \in out}}
                                  \/ u \in UidsOf(Bitset(out))
                                  \/ u \in DeletedIn(out)
  <2>1. PICK A, B, C : /\ A = UNION {LeftFor(r, keep) : r \in {s \in ToSet(q) : s.key \in out}}
                       /\ B = UidsOf(Bitset(out)) /\ C = DeletedIn(out)
    OBVIOUS
  <2>2. Forget(out, keep) = A \cup B \cup C
    BY <2>1 DEF Forget
  <2> QED BY <2>1, <2>2
<1> HIDE DEF q
<1> QED BY <1>3, <1>4, <1>6, <1>7

LEMMA CameFromIs ==
    ASSUME Base, NEW keys, NEW kept, NEW i \in ID, uid[i] # NoUid,
           NEW key \in kept, NEW from \in keys, Says(region_map, key, Entered(i, from))
    PROVE  uid[i] \in CameFrom(keys, kept)
<1> DEFINE q == region_map.regions
           X == {x \in UNION {ToSet(r.events) : r \in {s \in ToSet(q) : s.key \in kept}} :
                             x.what = "entered" /\ x.key \in keys}
<1>1. PICK j \in DOMAIN q : q[j].key = key /\ Entered(i, from) \in ToSet(q[j].events)
  BY DEF Says
<1>2. q[j] \in ToSet(q)
  BY <1>1 DEF ToSet
<1>3. Entered(i, from) \in UNION {ToSet(r.events) : r \in {s \in ToSet(q) : s.key \in kept}}
  BY <1>1, <1>2
<1>4. Entered(i, from) \in X /\ Entered(i, from).id = i
  BY <1>3, FieldsOf
<1>5. i \in {e.id : e \in X}
  BY <1>4
<1>6. CameFrom(keys, kept) = UidsOf({e.id : e \in X})
  BY DEF CameFrom
<1> HIDE DEF X
<1> QED BY <1>5, <1>6 DEF UidsOf

(* Where the map says that an entity has left a region or entered one, or  *)
(* that it is there, is all of a piece.                                    *)
LEMMA StoryIs ==
    ASSUME Base, NEW i \in ID, NEW old, Settled(region_map, i, old, At(i))
    PROVE  /\ \A key, to : Says(region_map, key, Left(i, to)) => key = old /\ to = At(i)
           /\ old # NoKey /\ At(i) # old => Says(region_map, old, Left(i, At(i)))
           /\ \A key, from : Says(region_map, key, Entered(i, from)) => key = At(i)
           /\ At(i) \notin {old, NoKey} =>
                 \E from : from \in {old, NoKey} /\ Says(region_map, At(i), Entered(i, from))
  BY DEF Settled

(* Who is noted as deleted is tracked nowhere, and the watched client is   *)
(* not among them.                                                         *)
LEMMA DeletedAreGone ==
    ASSUME Inv, phase \in {"regions", "subscribed"}, NEW keys, NEW u \in DeletedIn(keys)
    PROVE  /\ \A i \in ID : uid[i] = u => pos[i] = NoPos /\ At(i) = NoKey /\ i \in inserted
           /\ Subscribed => u # Me
           /\ u \in UID
<1>1. PICK d \in deleted : d[1] \in keys /\ d[2] = u
  BY DeletedIs
<1>2. /\ \A i \in ID : uid[i] = d[2] => pos[i] = NoPos /\ i \in inserted
      /\ d[2] \in UID
  BY DEF Inv, Base, Unique, Typed
<1>3. \A i \in ID : uid[i] = u => pos[i] = NoPos /\ At(i) = NoKey /\ i \in inserted
  BY <1>1, <1>2 DEF Inv, Copied, InPlace
<1>4. Subscribed => u # Me
  <2>1. Entity \in ID /\ uid[Entity] = Me
    BY EntityIs DEF Inv, Base
  <2>2. Subscribed => pos[Entity] # NoPos
    BY <2>1 DEF Inv, Base, Placed
  <2> QED BY <1>3, <2>1, <2>2
<1> QED BY <1>1, <1>2, <1>3, <1>4

LEMMA InvSubscribe ==
    ASSUME Inv, Subscribe
    PROVE  Inv'
<1>1. /\ phase = "regions" /\ phase' = "subscribed"
      /\ uid' = uid /\ pos' = pos /\ clients' = clients
      /\ inserted' = inserted /\ changed' = changed /\ deleted' = deleted
      /\ region_map' = region_map
  BY DEF Subscribe, world, traced
<1>2. /\ Base /\ Base' /\ Typed /\ Unique /\ InPlace /\ Out /\ In /\ Updated /\ Placed
  BY BaseSubscribe DEF Inv, Base, Copied
<1>3. /\ \A i : At(i)' = At(i)
      /\ UidsOf(changed)' = UidsOf(changed)
      /\ Entity' = Entity /\ Entity \in ID /\ uid[Entity] = Me
  BY <1>1, <1>2, EntityIs DEF At, UidsOf, Entity
<1>4. Quiet' /\ Aground' /\ Mirrored' /\ Updated'
  BY <1>1 DEF Quiet, Aground, Mirrored, Updated
<1>5. InPlace'
  BY <1>1, <1>2, <1>3 DEF InPlace
<1>6. \A i \in ID : At(i) # NoKey <=> pos[i] # NoPos
  BY <1>1, <1>2 DEF InPlace
<1>7. NoKey \notin Seen /\ Seen \subseteq Key
  BY <1>2, NoKeyIsNone DEF Typed, Seen
<1>8. CASE ~(Subscribed /\ LeftChunk(pos[Entity]))
  <2>1. subscription' = subscription /\ known' = known /\ stale' = stale /\ missed' = missed
    BY <1>8 DEF Subscribe, mirror
  <2>2. /\ Subscribed' = Subscribed /\ Seen' = Seen /\ DeletedIn(Seen)' = DeletedIn(Seen)
        /\ LeftChunk(pos[Entity])' = LeftChunk(pos[Entity])
    BY <1>1, <1>3, <2>1 DEF Subscribed, Seen, DeletedIn, LeftChunk
  <2>3. Out'
    BY <1>2, <2>1, <2>2 DEF Out
  <2>4. In'
    BY <1>2, <1>3, <1>8, <2>1, <2>2 DEF In
  <2>5. Awaiting'
    <3> SUFFICES ASSUME Subscribed
                 PROVE  \E old :
            /\ \A i \in ID : Settled(region_map, i, old[i], At(i))
            /\ \A u \in known : \/ u = Me \/ u \in DeletedIn(Seen)
                                \/ \E i \in ID : uid[i] = u /\ (old[i] \in Seen \/ At(i) \in Seen)
            /\ \A i \in ID : At(i) \in Seen /\ i \notin inserted /\ uid[i] # NoUid =>
                  \/ uid[i] \in known \cup missed
                  \/ \E from : from \notin Seen /\ Says(region_map, At(i), Entered(i, from))
      BY <1>1, <1>3, <2>1, <2>2 DEF Awaiting
    <3>1. PICK old :
            /\ \A i \in ID : Settled(region_map, i, old[i], At(i))
            /\ \A u \in known : \/ u = Me \/ u \in DeletedIn(Seen)
                                \/ \E i \in ID : uid[i] = u /\ old[i] \in Seen
            /\ \A i \in ID : old[i] \in Seen /\ i \notin inserted /\ uid[i] # NoUid => uid[i] \in known \cup missed
      BY <1>1, <1>2 DEF Updated
    <3>2. ASSUME NEW i \in ID, At(i) \in Seen, i \notin inserted, uid[i] # NoUid
          PROVE  \/ uid[i] \in known \cup missed
                 \/ \E from : from \notin Seen /\ Says(region_map, At(i), Entered(i, from))
      <4>1. CASE old[i] \in Seen
        BY <3>1, <3>2, <4>1
      <4>2. CASE old[i] \notin Seen
        <5>1. At(i) \notin {old[i], NoKey}
          BY <1>7, <3>2, <4>2
        <5>2. \E from : from \in {old[i], NoKey} /\ Says(region_map, At(i), Entered(i, from))
          BY <1>2, <3>1, <5>1, StoryIs
        <5> QED BY <1>7, <4>2, <5>2
      <4> QED BY <4>1, <4>2
    <3> QED BY <3>1, <3>2
  <2> QED BY <1>2, <1>4, <1>5, <2>3, <2>4, <2>5 DEF Inv, Copied
<1>9. CASE Subscribed /\ LeftChunk(pos[Entity])
  <2> DEFINE p    == pos[Entity]
             near == RegionsSeen(p)
             keep == {key \in subscription.regions :
                         InRange(key, p, ViewDistance * ChunkSize,
                                 ChunkFuzz + RegionFuzz + ChunkSize)}
             out  == subscription.regions \ keep
             lost == Forget(out, keep) \ {Me}
             told == UidsOf({i \in Bitset(near \ keep) : pos[i] # NoPos}) \ {Me}
  <2>1. /\ subscription' = [regions |-> keep \cup near, fuzzy_chunk |-> Chunk(p)]
        /\ known' = (known \ lost) \cup told
        /\ stale' = (stale \ lost) \ told
        /\ missed' = missed \cup CameFrom(near \ keep, keep)
    BY <1>9 DEF Subscribe
  <2>2. keep \subseteq Key /\ near \subseteq Key /\ out \subseteq Key /\ keep \subseteq Seen
    BY <1>2, SeenAreKeys DEF Typed, Seen
  <2>3. out = Seen \ keep
    BY DEF Seen
  <2>4. p \in Places
    BY <1>2, <1>3, <1>9 DEF Typed, Placed
  <2>5. p = pos[Entity] /\ near = RegionsSeen(p)
    OBVIOUS
  <2> HIDE DEF p, near, keep, out
  <2>6. \A u : u \in told <=> u \notin {NoUid, Me} /\ \E i \in ID : uid[i] = u /\ At(i) \in near \ keep
    <3>1. near \ keep \subseteq Key
      BY <2>2
    <3>2. /\ \A i : i \in Bitset(near \ keep) <=> At(i) \in near \ keep
          /\ Bitset(near \ keep) \subseteq ID
      BY <1>2, <3>1, BitsetIs DEF At, Base
    <3>3. \A i \in ID : At(i) \in near \ keep => pos[i] # NoPos
      BY <1>6, <3>1, NoKeyIsNone
    <3> QED BY <3>2, <3>3 DEF UidsOf
  <2>7. \A u : u \in lost <=>
              /\ u # Me
              /\ \/ /\ u # NoUid
                    /\ \E i \in ID : /\ uid[i] = u
                                     /\ \/ At(i) \in out
                                        \/ \E key \in out : \E to : to \notin keep /\ Says(region_map, key, Left(i, to))
                 \/ u \in DeletedIn(out)
    BY <1>2, <2>2, ForgetIs
  <2> HIDE DEF lost, told
  <2>8. Subscribed' /\ Seen' = keep \cup near
    <3>1. Seen' = keep \cup near
      BY <2>1 DEF Seen
    <3>2. subscription'.fuzzy_chunk # NotSubscribed.fuzzy_chunk
      <4>1. Chunk(p) # <<>>
        BY DEF Chunk
      <4> QED BY <2>1, <4>1 DEF NotSubscribed
    <3> QED BY <3>1, <3>2 DEF Subscribed
  <2>9. \A u : u \in DeletedIn(Seen)' <=> \E d \in deleted : d[1] \in keep \cup near /\ d[2] = u
    BY <1>1, <2>8 DEF DeletedIn
  <2>10. \A u \in DeletedIn(Seen) : u \notin lost => u \in DeletedIn(Seen)'
    <3> TAKE u \in DeletedIn(Seen)
    <3> HAVE u \notin lost
    <3>1. PICK d \in deleted : d[1] \in Seen /\ d[2] = u
      BY DeletedIs
    <3>2. u # Me
      BY <1>1, <1>9, DeletedAreGone
    <3>3. d[1] \notin out
      <4>1. u \notin DeletedIn(out)
        BY <2>7, <3>2
      <4> QED BY <3>1, <4>1, DeletedIs
    <3> QED BY <2>3, <2>9, <3>1, <3>3
  <2>11. Out'
    BY <2>8 DEF Out
  <2>12. In'
    <3>1. Me \in known'
      BY <1>2, <1>9, <2>1, <2>7 DEF In
    <3>2. \E x \in Places : Chunk(x) = subscription'.fuzzy_chunk /\ RegionsSeen(x) \subseteq Seen'
      BY <2>1, <2>4, <2>5, <2>8
    <3>3. ~LeftChunk(pos[Entity])'
      BY <1>1, <1>3, <2>1, <2>5 DEF LeftChunk
    <3>4. \A u \in stale' : u \in UidsOf(changed)' \/ u \in DeletedIn(Seen)'
      <4> TAKE u \in stale'
      <4>1. u \in stale /\ u \notin lost
        BY <2>1
      <4>2. u \in UidsOf(changed) \/ u \in DeletedIn(Seen)
        BY <1>2, <1>9, <4>1 DEF In
      <4> QED BY <1>3, <2>10, <4>1, <4>2
    <3> QED BY <3>1, <3>2, <3>3, <3>4 DEF In
  <2>13. PICK old :
            /\ \A i \in ID : Settled(region_map, i, old[i], At(i))
            /\ \A u \in known : \/ u = Me \/ u \in DeletedIn(Seen)
                                \/ \E i \in ID : uid[i] = u /\ old[i] \in Seen
            /\ \A i \in ID : old[i] \in Seen /\ i \notin inserted /\ uid[i] # NoUid => uid[i] \in known \cup missed
    BY <1>1, <1>2, <1>9 DEF Updated
  <2>14. ASSUME NEW u \in known'
         PROVE  \/ u = Me \/ u \in DeletedIn(Seen)'
                \/ \E i \in ID : uid[i] = u /\ (old[i] \in keep \cup near \/ At(i) \in keep \cup near)
    <3>1. CASE u \in told
      BY <2>6, <3>1
    <3>2. CASE u \in known /\ u \notin lost
      <4>1. CASE u = Me
        BY <4>1
      <4>2. CASE u \in DeletedIn(Seen)
        BY <2>10, <3>2, <4>2
      <4>3. CASE u # Me /\ \E i \in ID : uid[i] = u /\ old[i] \in Seen
        <5>1. PICK i \in ID : uid[i] = u /\ old[i] \in Seen
          BY <4>3
        <5>2. u # NoUid
          BY <1>2, <3>2, ConstantsKnown DEF Typed
        <5>3. CASE old[i] \in keep
          BY <5>1, <5>3
        <5>4. CASE old[i] \in out
          <6>1. At(i) \notin out /\ ~ \E to : to \notin keep /\ Says(region_map, old[i], Left(i, to))
            BY <2>7, <3>2, <4>3, <5>1, <5>2, <5>4
          <6>2. old[i] # NoKey /\ At(i) # old[i]
            BY <1>7, <5>1, <5>4, <6>1
          <6>3. Says(region_map, old[i], Left(i, At(i)))
            BY <1>2, <2>13, <6>2, StoryIs
          <6> QED BY <5>1, <6>1, <6>3
        <5> QED BY <2>3, <5>1, <5>3, <5>4
      <4> QED BY <2>13, <3>2, <4>1, <4>2, <4>3
    <3> QED BY <2>1, <3>1, <3>2
  <2>15. ASSUME NEW i \in ID, At(i) \in keep \cup near, i \notin inserted, uid[i] # NoUid
         PROVE  \/ uid[i] \in known' \cup missed'
                \/ \E from : from \notin keep \cup near /\ Says(region_map, At(i), Entered(i, from))
    <3>1. CASE uid[i] = Me
      BY <1>2, <1>9, <2>1, <2>7, <3>1 DEF In
    <3>2. CASE uid[i] # Me /\ At(i) \notin keep
      BY <2>1, <2>6, <2>15, <3>2
    <3>3. CASE uid[i] # Me /\ At(i) \in keep
      <4>1. uid[i] \notin lost
        <5> SUFFICES ASSUME uid[i] \in lost PROVE FALSE
          OBVIOUS
        <5>1. CASE uid[i] \in DeletedIn(out)
          BY <1>1, <2>15, <5>1, DeletedAreGone
        <5>2. CASE uid[i] \notin DeletedIn(out)
          <6>1. PICK j \in ID : /\ uid[j] = uid[i]
                                /\ \/ At(j) \in out
                                   \/ \E key \in out : \E to : to \notin keep /\ Says(region_map, key, Left(j, to))
            BY <2>7, <5>2
          <6>2. j = i
            BY <1>2, <2>15, <6>1 DEF Unique
          <6>3. \A key, to : Says(region_map, key, Left(i, to)) => to = At(i)
            BY <1>2, <2>13, StoryIs
          <6> QED BY <2>3, <3>3, <6>1, <6>2, <6>3
        <5> QED BY <5>1, <5>2
      <4>2. CASE old[i] \in Seen
        <5>1. uid[i] \in known \cup missed
          BY <2>13, <2>15, <4>2
        <5> QED BY <2>1, <4>1, <5>1
      <4>3. CASE old[i] \notin Seen
        <5>1. At(i) \notin {old[i], NoKey}
          BY <1>7, <2>2, <3>3, <4>3
        <5>2. PICK from : from \in {old[i], NoKey} /\ Says(region_map, At(i), Entered(i, from))
          BY <1>2, <2>13, <5>1, StoryIs
        <5>3. from \notin Seen
          BY <1>7, <4>3, <5>2
        <5>4. CASE from \notin keep \cup near
          BY <5>2, <5>4
        <5>5. CASE from \in keep \cup near
          <6>1. from \in near \ keep
            BY <2>2, <5>3, <5>5
          <6>2. uid[i] \in CameFrom(near \ keep, keep)
            BY <1>2, <2>15, <3>3, <5>2, <6>1, CameFromIs
          <6> QED BY <2>1, <6>2
        <5> QED BY <5>4, <5>5
      <4> QED BY <4>2, <4>3
    <3> QED BY <3>1, <3>2, <3>3
  <2>16. Awaiting'
    <3>1. \A i \in ID : Settled(region_map', i, old[i], At(i)')
      BY <1>1, <1>3, <2>13
    <3>2. \A u \in known' : \/ u = Me \/ u \in DeletedIn(Seen)'
                            \/ \E i \in ID : uid'[i] = u /\ (old[i] \in Seen' \/ At(i)' \in Seen')
      BY <1>1, <1>3, <2>8, <2>14
    <3>3. \A i \in ID : At(i)' \in Seen' /\ i \notin inserted' /\ uid'[i] # NoUid =>
                  \/ uid'[i] \in known' \cup missed'
                  \/ \E from : from \notin Seen' /\ Says(region_map', At(i)', Entered(i, from))
      BY <1>1, <1>3, <2>8, <2>15
    <3> QED BY <3>1, <3>2, <3>3 DEF Awaiting
  <2> QED BY <1>2, <1>4, <1>5, <2>11, <2>12, <2>16 DEF Inv, Copied
<1> QED BY <1>8, <1>9

(* A client is in a region that it sees, and so is all in its view.        *)
LEMMA ViewIsSeen ==
    ASSUME Inv, Subscribed, phase \in {"subscribed", "synced"},
           NEW i \in ID, pos[i] # NoPos,
           Distance2(pos[i], pos[Entity]) <= (ViewDistance * ChunkSize) * (ViewDistance * ChunkSize)
    PROVE  At(i) \in Seen
<1>1. Typed /\ Unique /\ Mapped /\ Placed /\ InPlace /\ In
  BY DEF Inv, Base, Copied
<1>2. Entity \in ID /\ pos[Entity] # NoPos
  BY <1>1, EntityIs DEF Placed
<1>3. PICK p \in Places : Chunk(p) = subscription.fuzzy_chunk /\ RegionsSeen(p) \subseteq Seen
  BY <1>1 DEF In
<1>4. pos[i] \in Nat \X Nat /\ pos[Entity] \in Nat \X Nat /\ p \in Nat \X Nat
  BY <1>1, <1>2, SyncAssumption DEF Typed
<1>5. Close(p, pos[Entity])
  <2>1. ~LeftChunk(pos[Entity])
    BY <1>1 DEF In
  <2> QED BY <1>3, <1>4, <2>1, StaysClose
<1>6. At(i) # NoKey /\ ~Switches(At(i), pos[i])
  BY <1>1 DEF InPlace
<1>7. At(i) \in Key
  BY <1>1, <1>6, FindIsWhere DEF At, Mapped
<1>8. At(i) \in RegionsSeen(p)
  BY <1>4, <1>5, <1>6, <1>7, InSight
<1> QED BY <1>3, <1>8

LEMMA SelfIsSeen ==
    ASSUME Inv, Subscribed, phase \in {"subscribed", "synced"}
    PROVE  At(Entity) \in Seen
<1>1. Typed /\ Unique /\ Placed
  BY DEF Inv, Base
<1>2. Entity \in ID /\ pos[Entity] # NoPos
  BY <1>1, EntityIs DEF Placed
<1>3. pos[Entity] \in Nat \X Nat
  BY <1>1, <1>2, SyncAssumption DEF Typed
<1>4. Distance2(pos[Entity], pos[Entity]) <= (ViewDistance * ChunkSize) * (ViewDistance * ChunkSize)
  <2>1. Distance2(pos[Entity], pos[Entity]) = 0
    BY <1>3 DEF Distance2
  <2>2. ViewDistance * ChunkSize \in Nat
    BY ConstantsKnown
  <2>3. \A x \in Nat : 0 <= x * x
    OBVIOUS
  <2> QED BY <2>1, <2>2, <2>3
<1> QED BY <1>2, <1>4, ViewIsSeen

LEMMA InvSync ==
    ASSUME Inv, Sync
    PROVE  Inv'
<1> DEFINE l == Len(region_map.regions)
<1>1. /\ phase = "subscribed" /\ phase' = "synced"
      /\ uid' = uid /\ pos' = pos /\ clients' = clients
      /\ inserted' = {} /\ changed' = {} /\ deleted' = {}
      /\ region_map' = ClearEvents(region_map) /\ subscription' = subscription
      /\ missed' = (missed \ known') \cap UidsOf(Bitset(subscription.regions))
      /\ SyncMirror
  BY DEF Sync, world
<1>2. /\ Base /\ Base' /\ Typed /\ Typed' /\ Unique /\ Mapped /\ Placed
      /\ InPlace /\ Out /\ In /\ Awaiting
  BY BaseSync DEF Inv, Base, Copied
<1>3. /\ \A i : At(i)' = At(i)
      /\ Seen' = Seen /\ (Subscribed' <=> Subscribed)
      /\ Entity' = Entity /\ Entity \in ID /\ uid[Entity] = Me
  BY <1>1, <1>2, Silent, EntityIs DEF At, Seen, Subscribed, Entity
<1>4. \A i \in ID : At(i) # NoKey <=> pos[i] # NoPos
  BY <1>1, <1>2 DEF InPlace
<1>5. NoKey \notin Seen /\ Seen \subseteq Key
  BY <1>2, NoKeyIsNone DEF Typed, Seen
<1>6. Quiet' /\ InPlace' /\ Updated' /\ Awaiting'
  BY <1>1, <1>2, <1>3 DEF Quiet, InPlace, Updated, Awaiting
<1>7. Aground'
  BY <1>1, <1>3, <1>4 DEF Aground
<1>8. \A u : u \in UidsOf(Bitset(Seen)) <=> u # NoUid /\ \E i \in ID : uid[i] = u /\ At(i) \in Seen
  <2>1. /\ Bitset(Seen) \subseteq ID
        /\ \A i : i \in Bitset(Seen) <=> At(i) \in Seen
    BY <1>2, <1>5, BitsetIs DEF At
  <2> QED BY <2>1 DEF UidsOf
<1>9. PICK after :
           /\ known' = after.known \ (DeletedIn(subscription.regions \ Keys(region_map)) \ {Me})
           /\ stale' = (known' \cap (stale \cup UidsOf(changed))) \ after.fresh
           /\ \A u : u \in after.known => u \in known \/ Sent(News, l, u)
           /\ \A u : (u \in known \/ Sent(News, l, u)) /\ ~Sent(Gone, l, u) => u \in after.known
           /\ \A u : Sent(Gone, l, u) /\ ~Sent(News, l, u) => u \notin after.known
           /\ \A u : u \in after.fresh <=> Sent(Fresh, l, u)
  <2>1. SyncMirror /\ Mapped
    BY <1>1, <1>2
  <2> QED BY <2>1, SyncIs
<1>10. ASSUME NEW u
       PROVE  /\ Sent(News, l, u) <=>
                    /\ u # NoUid
                    /\ \E i \in ID : /\ uid[i] = u
                                     /\ (u # Me /\ Came(i, Seen)) \/ (i \in inserted /\ At(i) \in Seen)
              /\ Sent(Gone, l, u) <=>
                    \/ u \notin {NoUid, Me} /\ \E i \in ID : uid[i] = u /\ Went(i, Seen)
                    \/ u \in DeletedIn(Seen \cap Keys(region_map))
              /\ Sent(Fresh, l, u) <=>
                    /\ u # NoUid
                    /\ \E i \in ID : /\ uid[i] = u
                                     /\ (u # Me /\ Came(i, Seen)) \/ (i \in changed /\ At(i) \in Seen)
  <2>1. Seen = subscription.regions /\ \A i : At(i) = FindRegion(region_map, i)
    BY DEF Seen, At
  <2>2. /\ Sent(News, Len(region_map.regions), u) <=>
              /\ u # NoUid
              /\ \E i \in ID : /\ uid[i] = u
                               /\ \/ u # Me /\ Came(i, subscription.regions)
                                  \/ i \in inserted /\ FindRegion(region_map, i) \in subscription.regions
        /\ Sent(Gone, Len(region_map.regions), u) <=>
              \/ u \notin {NoUid, Me} /\ \E i \in ID : uid[i] = u /\ Went(i, subscription.regions)
              \/ u \in DeletedIn(subscription.regions \cap Keys(region_map))
        /\ Sent(Fresh, Len(region_map.regions), u) <=>
              /\ u # NoUid
              /\ \E i \in ID : /\ uid[i] = u
                               /\ \/ u # Me /\ Came(i, subscription.regions)
                                  \/ i \in changed /\ FindRegion(region_map, i) \in subscription.regions
    BY <1>2, SentIs
  <2> QED BY <2>1, <2>2
<1> HIDE DEF l
<1>11. CASE ~Subscribed
  <2>1. Seen = {} /\ known = {Me} /\ missed = {}
    BY <1>2, <1>11 DEF Out
  <2>2. \A u : u \notin DeletedIn({})
    BY DeletedIs
  <2>3. \A u : ~Sent(News, l, u) /\ ~Sent(Gone, l, u)
    BY <1>10, <2>1, <2>2 DEF Came, Went
  <2>4. DeletedIn(subscription.regions \ Keys(region_map)) = {}
    BY <2>1, <2>2 DEF Seen
  <2>5. known' = {Me}
    BY <1>9, <2>1, <2>3, <2>4
  <2>6. stale' \subseteq {Me} /\ missed' = {}
    BY <1>1, <1>2, <2>1, <2>5 DEF Typed
  <2> QED BY <1>2, <1>3, <1>6, <1>7, <1>11, <2>1, <2>5, <2>6 DEF Inv, Copied, Out, In, Mirrored
<1>12. CASE Subscribed
  <2>1. PICK old :
            /\ \A i \in ID : Settled(region_map, i, old[i], At(i))
            /\ \A u \in known : \/ u = Me \/ u \in DeletedIn(Seen)
                                \/ \E i \in ID : uid[i] = u /\ (old[i] \in Seen \/ At(i) \in Seen)
            /\ \A i \in ID : At(i) \in Seen /\ i \notin inserted /\ uid[i] # NoUid =>
                  \/ uid[i] \in known \cup missed
                  \/ \E from : from \notin Seen /\ Says(region_map, At(i), Entered(i, from))
    BY <1>1, <1>2, <1>12 DEF Awaiting
  <2>2. ASSUME NEW i \in ID
        PROVE  /\ Came(i, Seen) => At(i) \in Seen
               /\ Went(i, Seen) => At(i) \notin Seen
               /\ old[i] \in Seen /\ At(i) \notin Seen => Went(i, Seen)
    <3>1. /\ \A key, to : Says(region_map, key, Left(i, to)) => key = old[i] /\ to = At(i)
          /\ old[i] # NoKey /\ At(i) # old[i] => Says(region_map, old[i], Left(i, At(i)))
          /\ \A key, from : Says(region_map, key, Entered(i, from)) => key = At(i)
      BY <1>2, <2>1, StoryIs
    <3> QED BY <1>5, <3>1 DEF Came, Went
  <2>3. \A u : u \in DeletedIn(Seen) => /\ \A i \in ID : uid[i] = u => At(i) = NoKey
                                        /\ u # Me
    BY <1>1, <1>12, DeletedAreGone
  <2>4. \A u : u \in DeletedIn(Seen) <=> \/ u \in DeletedIn(Seen \cap Keys(region_map))
                                         \/ u \in DeletedIn(subscription.regions \ Keys(region_map))
    BY DeletedIs DEF Seen
  \* Of an entity that is in a region in sight nothing is said to be forgotten.
  <2>5. ASSUME NEW i \in ID, At(i) \in Seen
        PROVE  ~Sent(Gone, l, uid[i]) /\ uid[i] \notin DeletedIn(Seen)
    <3>1. uid[i] \notin DeletedIn(Seen)
      BY <1>5, <2>3, <2>5
    <3>2. ASSUME uid[i] # NoUid, NEW j \in ID, uid[j] = uid[i]
          PROVE  ~Went(j, Seen)
      <4>1. j = i
        BY <1>2, <3>2 DEF Unique
      <4> QED BY <2>2, <2>5, <4>1
    <3> QED BY <1>10, <2>4, <3>1, <3>2
  \* All that is said to be new is in a region in sight.
  <2>6. ASSUME NEW u, Sent(News, l, u)
        PROVE  u # NoUid /\ \E i \in ID : uid[i] = u /\ At(i) \in Seen
    BY <1>10, <2>2, <2>6
  <2>7. ASSUME NEW u \in known'
        PROVE  u = Me \/ \E i \in ID : uid[i] = u /\ At(i) \in Seen
    <3>1. u \in after.known /\ (u \in DeletedIn(subscription.regions \ Keys(region_map)) => u = Me)
      BY <1>9
    <3>2. CASE Sent(News, l, u)
      BY <2>6, <3>2
    <3>3. CASE ~Sent(News, l, u)
      <4>1. u \in known /\ ~Sent(Gone, l, u)
        BY <1>9, <3>1, <3>3
      <4>2. u \notin DeletedIn(Seen)
        <5>1. u \in DeletedIn(Seen) => u # Me
          BY <2>3
        <5> QED BY <1>10, <2>4, <3>1, <4>1, <5>1
      <4>3. u # NoUid
        BY <1>2, <4>1, ConstantsKnown DEF Typed
      <4>4. ASSUME u # Me
            PROVE  \E i \in ID : uid[i] = u /\ At(i) \in Seen
        <5>1. PICK i \in ID : uid[i] = u /\ (old[i] \in Seen \/ At(i) \in Seen)
          BY <2>1, <4>1, <4>2, <4>4
        <5>2. ~Went(i, Seen)
          BY <1>10, <4>1, <4>3, <4>4, <5>1
        <5> QED BY <2>2, <5>1, <5>2
      <4> QED BY <4>4
    <3> QED BY <3>2, <3>3
  <2>8. Me \in known'
    <3>1. Me \in known
      BY <1>2, <1>12 DEF In
    <3>2. Me \notin DeletedIn(Seen)
      BY <2>3
    <3>3. ~Sent(Gone, l, Me)
      BY <1>10, <2>4, <3>2
    <3> QED BY <1>9, <3>1, <3>3
  <2>9. ASSUME NEW i \in ID, At(i) \in Seen, uid[i] # NoUid
        PROVE  uid[i] \in known' \cup missed'
    <3>1. ~Sent(Gone, l, uid[i]) /\ uid[i] \notin DeletedIn(Seen)
      BY <2>5, <2>9
    <3>2. uid[i] \in known \/ Sent(News, l, uid[i]) => uid[i] \in known'
      <4>1. uid[i] \notin DeletedIn(subscription.regions \ Keys(region_map))
        BY <2>4, <3>1
      <4> QED BY <1>9, <3>1, <4>1
    <3>3. CASE i \in inserted
      <4>1. Sent(News, l, uid[i])
        BY <1>10, <2>9, <3>3
      <4> QED BY <3>2, <4>1
    <3>4. CASE i \notin inserted /\ uid[i] \in known
      BY <3>2, <3>4
    <3>5. CASE uid[i] \in missed
      <4>1. uid[i] \in UidsOf(Bitset(Seen))
        BY <1>8, <2>9
      <4> QED BY <1>1, <3>5, <4>1 DEF Seen
    <3>6. CASE i \notin inserted /\ \E from : from \notin Seen /\ Says(region_map, At(i), Entered(i, from))
      <4>1. Came(i, Seen)
        BY <1>4, <1>5, <2>9, <3>6 DEF Came
      <4>2. CASE uid[i] = Me
        BY <2>8, <4>2
      <4>3. CASE uid[i] # Me
        <5>1. Sent(News, l, uid[i])
          BY <1>10, <2>9, <4>1, <4>3
        <5> QED BY <3>2, <5>1
      <4> QED BY <4>2, <4>3
    <3> QED BY <2>1, <2>9, <3>3, <3>4, <3>5, <3>6
  <2>10. stale' = {}
    <3> SUFFICES ASSUME NEW u \in stale' PROVE FALSE
      OBVIOUS
    <3>1. u \in known' /\ (u \in stale \/ u \in UidsOf(changed)) /\ ~Sent(Fresh, l, u)
      BY <1>9
    <3>2. \E i \in ID : uid[i] = u /\ At(i) \in Seen
      <4>1. At(Entity) \in Seen
        BY <1>1, <1>12, SelfIsSeen
      <4> QED BY <1>3, <2>7, <3>1, <4>1
    <3>3. PICK i \in ID : uid[i] = u /\ At(i) \in Seen
      BY <3>2
    <3>4. u \notin DeletedIn(Seen)
      BY <2>5, <3>3
    <3>5. u \in UidsOf(changed)
      BY <1>2, <1>12, <3>1, <3>4 DEF In
    <3>6. PICK j \in changed : uid[j] = u /\ u # NoUid
      BY <3>5 DEF UidsOf
    <3>7. j \in ID /\ j = i
      BY <1>2, <3>3, <3>6 DEF Typed, Unique
    <3> QED BY <1>10, <3>1, <3>3, <3>6, <3>7
  <2>11. Out'
    BY <1>3, <1>12 DEF Out
  <2>12. In'
    <3>1. \E p \in Places : Chunk(p) = subscription'.fuzzy_chunk /\ RegionsSeen(p) \subseteq Seen'
      BY <1>1, <1>2, <1>3, <1>12 DEF In
    <3>2. ~LeftChunk(pos[Entity])'
      <4>1. ~LeftChunk(pos[Entity])
        BY <1>1, <1>2, <1>12 DEF In
      <4> QED BY <1>1, <1>3, <4>1 DEF LeftChunk
    <3> QED BY <2>8, <2>10, <3>1, <3>2 DEF In
  <2>13. Mirrored'
    <3>1. \A u \in known' : u = Me \/ \E i \in ID : uid'[i] = u /\ At(i)' \in Seen' /\ pos'[i] # NoPos
      BY <1>1, <1>3, <1>4, <1>5, <2>7
    <3>2. \A i \in ID : At(i)' \in Seen' /\ i \notin inserted' /\ uid'[i] # NoUid => uid'[i] \in known' \cup missed'
      BY <1>1, <1>3, <2>9
    <3> QED BY <3>1, <3>2 DEF Mirrored
  <2> QED BY <1>2, <1>6, <1>7, <2>11, <2>12, <2>13 DEF Inv, Copied
<1> QED BY <1>11, <1>12

LEMMA InvNext ==
    ASSUME Inv, [Next]_vars
    PROVE  Inv'
<1>1. ASSUME NEW i \in ID, NEW p \in scene.places, Create(i, p) \/ Move(i, p)
      PROVE  Inv'
  BY <1>1, InvCreate, InvMove
<1>2. ASSUME NEW i \in ID, Create(i, NoPos) \/ Change(i) \/ Delete(i) \/ EnterGame(i)
      PROVE  Inv'
  BY <1>2, InvCreate, InvChange, InvDelete, InvEnterGame
<1>3. ASSUME NEW i \in ID, NEW n \in ID, ExitIngame(i, n)
      PROVE  Inv'
  BY <1>3, InvExitIngame
<1>4. CASE Loaded
  BY <1>4, InvLoaded
<1>5. CASE UpdateRegions
  BY <1>5, InvUpdateRegions
<1>6. CASE Subscribe
  BY <1>6, InvSubscribe
<1>7. CASE Sync
  BY <1>7, InvSync
<1>8. CASE UNCHANGED vars
  <2>1. /\ phase' = phase /\ uid' = uid /\ pos' = pos /\ clients' = clients /\ region_map' = region_map
        /\ subscription' = subscription /\ inserted' = inserted /\ changed' = changed /\ deleted' = deleted
        /\ known' = known /\ stale' = stale /\ missed' = missed
    BY <1>8 DEF vars, world, traced, mirror
  <2>2. /\ Seen' = Seen /\ Subscribed' = Subscribed /\ DeletedIn(Seen)' = DeletedIn(Seen)
        /\ UidsOf(changed)' = UidsOf(changed) /\ Entity' = Entity
        /\ LeftChunk(pos[Entity])' = LeftChunk(pos[Entity])
        /\ \A i : At(i)' = At(i)
    BY <2>1 DEF Seen, Subscribed, DeletedIn, UidsOf, Entity, LeftChunk, At
  <2>3. Base' /\ Copied
    BY BaseNext DEF Inv
  <2>4. Quiet' /\ InPlace' /\ Aground' /\ Out'
    BY <2>1, <2>2, <2>3 DEF Copied, Quiet, InPlace, Aground, Out
  <2>5. In'
    BY <2>1, <2>2, <2>3 DEF Copied, In
  <2>6. Mirrored' /\ Updated' /\ Awaiting'
    BY <2>1, <2>2, <2>3 DEF Copied, Mirrored, Updated, Awaiting
  <2> QED BY <2>3, <2>4, <2>5, <2>6 DEF Inv, Copied
<1> QED BY <1>1, <1>2, <1>3, <1>4, <1>5, <1>6, <1>7, <1>8 DEF Next

LEMMA InvAlways == Spec => []Inv
<1>1. Init => Inv
  BY InitInv
<1>2. Inv /\ [Next]_vars => Inv'
  BY InvNext
<1> QED BY <1>1, <1>2, PTL DEF Spec

(* When a tick has been synchronised the copy of the client is exact: for  *)
(* any number of regions, entities and players, whatever moved, came, went *)
(* or changed, in whichever order the regions are, and wherever the client *)
(* has gone.  What it lacks is in missed.                                  *)
THEOREM ClientsCopyIsExact == Spec => []MirrorIsExact
<1>1. Inv => MirrorIsExact
  <2> SUFFICES ASSUME Inv, phase = "synced", Subscribed
               PROVE  /\ known \subseteq UidsOf(Bitset(Seen)) \cup {Me}
                      /\ (UidsOf(Bitset(Seen)) \cup {Me}) \ known \subseteq missed
                      /\ stale = {}
    BY DEF MirrorIsExact, Seen
  <2>1. Typed /\ Mapped /\ Quiet /\ In /\ Mirrored
    BY DEF Inv, Base, Copied
  <2>2. inserted = {} /\ changed = {} /\ deleted = {}
    BY <2>1 DEF Quiet
  <2>3. /\ Bitset(Seen) \subseteq ID
        /\ \A i : i \in Bitset(Seen) <=> At(i) \in Seen
    BY <2>1, BitsetIs DEF Typed, At, Seen
  <2>4. \A u : u \in UidsOf(Bitset(Seen)) <=> u # NoUid /\ \E i \in ID : uid[i] = u /\ At(i) \in Seen
    BY <2>3 DEF UidsOf
  <2>5. \A u : u \notin DeletedIn(Seen) /\ u \notin UidsOf(changed)
    BY <2>2 DEF DeletedIn, UidsOf
  <2>6. ASSUME NEW u \in known
        PROVE  u \in UidsOf(Bitset(Seen)) \cup {Me}
    <3>1. u # NoUid
      BY <2>1, ConstantsKnown DEF Typed
    <3> QED BY <2>1, <2>4, <2>5, <3>1 DEF Mirrored
  <2>7. ASSUME NEW u \in UidsOf(Bitset(Seen)) \cup {Me}, u \notin known
        PROVE  u \in missed
    BY <2>1, <2>2, <2>4, <2>7 DEF Mirrored, In
  <2>8. stale = {}
    BY <2>1, <2>5 DEF In
  <2> QED BY <2>6, <2>7, <2>8
<1> QED BY <1>1, InvAlways, PTL

(* The border around chunks and regions is wide enough, for every size of  *)
(* chunks, regions, tether and fuzz and every view distance from one: no   *)
(* entity that is in view is in a region that the client does not see.     *)
THEOREM AllInViewIsSeen == Spec => []SeesAllInView
<1>1. Inv => SeesAllInView
  <2> SUFFICES ASSUME Inv, phase = "synced", Subscribed,
                      NEW i \in ID, pos[i] # NoPos,
                      Distance2(pos[i], pos[Entity]) <= (ViewDistance * ChunkSize) * (ViewDistance * ChunkSize)
               PROVE  uid[i] \in known \cup missed
    BY DEF SeesAllInView
  <2>1. At(i) \in Seen
    BY ViewIsSeen
  <2>2. uid[i] # NoUid /\ inserted = {} /\ Mirrored
    BY DEF Inv, Base, Unique, Copied, Quiet
  <2> QED BY <2>1, <2>2 DEF Mirrored
<1> QED BY <1>1, InvAlways, PTL
=============================================================================
