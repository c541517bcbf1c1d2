------------------------------- MODULE Regions -------------------------------
(***************************************************************************)
(* RegionMap (common/src/region.rs): the regions that hold an entity, in   *)
(* an IndexMap, with the indices of their eight neighbours.  Removing a    *)
(* region moves the last one into its place, so that the indices of        *)
(* others change.                                                          *)
(*                                                                         *)
(* A map m is a record of the regions in the order of the IndexMap and of  *)
(* the entities that are tracked; the operators compute a new map from an  *)
(* old one.  Positions are pairs of blocks (whole numbers).                *)
(***************************************************************************)
EXTENDS Integers, Sequences, FiniteSets, SequencesExt

CONSTANTS RegionSize,   \* REGION_SIZE, a power of two
          Tether        \* TETHER_LENGTH

ASSUME RegionsAssumption ==
    /\ RegionSize \in Nat \ {0}
    /\ Tether \in Nat

(* Absent values: no index, no key, no position.                           *)
None  == 0
NoKey == <<>>
NoPos == <<>>

(* NEIGHBOR_OFFSETS, counter-clockwise: the opposite is four further.      *)
Directions == 0 .. 7
Offset(d)  == << <<0, 1>>, <<-1, 1>>, <<-1, 0>>, <<-1, -1>>,
                 <<0, -1>>, <<1, -1>>, <<1, 0>>, <<1, 1>> >>[d + 1]
Opposite(d) == (d + 4) % 8

Beside(key, d) == <<key[1] + Offset(d)[1], key[2] + Offset(d)[2]>>

PosKey(p)   == <<p[1] \div RegionSize, p[2] \div RegionSize>>
KeyPos(key) == <<key[1] * RegionSize, key[2] * RegionSize>>

Absolute(n) == IF n < 0 THEN -n ELSE n

Entered(id, from) == [what |-> "entered", id |-> id, key |-> from]
Left(id, to)      == [what |-> "left", id |-> id, key |-> to]

EmptyMap == [regions |-> <<>>, tracked |-> {}]

KeyIndex(m, key) ==
    LET at == {i \in DOMAIN m.regions : m.regions[i].key = key}
    IN  IF at = {} THEN None ELSE CHOOSE i \in at : TRUE

Keys(m) == {m.regions[i].key : i \in DOMAIN m.regions}

Removable(r) == r.bitset = {} /\ r.events = <<>>

(* Every region named by the table of a region at index i gets value for   *)
(* the place that region has in its own table.                             *)
TellNeighbors(rs, table, value) ==
    [i \in DOMAIN rs |-> [rs[i] EXCEPT !.neighbors =
        [d \in Directions |-> IF table[Opposite(d)] = i THEN value ELSE rs[i].neighbors[d]]]]

(* insert *)
InsertRegion(m, key) ==
    LET index == Len(m.regions) + 1
        table == [d \in Directions |-> KeyIndex(m, Beside(key, d))]
        new   == [key |-> key, bitset |-> {}, neighbors |-> table, events |-> <<>>]
    IN  [m EXCEPT !.regions = Append(TellNeighbors(@, table, index), new)]

(* add_entity; a region made for the entity does not learn where it is from. *)
AddEntity(m, id, p, from) ==
    LET i    == KeyIndex(m, PosKey(p))
        into == IF i = None THEN InsertRegion(m, PosKey(p)) ELSE m
        at   == IF i = None THEN Len(into.regions) ELSE i
        source == IF i = None THEN NoKey ELSE from
    IN  [into EXCEPT !.regions[at].bitset = @ \cup {id},
                     !.regions[at].events = Append(@, Entered(id, source))]

(* Region::remove *)
DropEntity(m, i, id, to) ==
    [m EXCEPT !.regions[i].bitset = @ \ {id},
              !.regions[i].events = Append(@, Left(id, to))]

(* Mutant: nobody is told the new index of the region that is moved.       *)
Unmoved(m, i) == m.regions

(* The neighbours of the last region learn that it will be at i.           *)
Remapped(m, i) ==
    LET last == Len(m.regions)
    IN  IF i = last THEN m.regions ELSE TellNeighbors(m.regions, m.regions[last].neighbors, i)

(* remove_index: swap_remove_index, and the neighbours forget the region.  *)
RemoveIndex(m, i) ==
    LET rs    == Remapped(m, i)
        last  == Len(rs)
        moved == [j \in 1 .. last - 1 |-> IF j = i THEN rs[last] ELSE rs[j]]
    IN  [m EXCEPT !.regions = TellNeighbors(moved, rs[i].neighbors, None)]

(* remove, if it still may *)
RemoveKey(m, key) ==
    LET i == KeyIndex(m, key)
    IN  IF Removable(m.regions[i]) THEN RemoveIndex(m, i) ELSE m
-----------------------------------------------------------------------------
(* An entity at p switches away from the region with that key.             *)
Switches(key, p) ==
    LET corner == KeyPos(key)
    IN  /\ PosKey(p) # key
        /\ Absolute(p[1] - corner[1]) > Tether \/ Absolute(p[2] - corner[2]) > Tether

(* All elements of S, in that order.                                       *)
InOrder(S, Precedes(_, _)) ==
    CHOOSE q \in [1 .. Cardinality(S) -> S] :
        \A i, j \in 1 .. Cardinality(S) : i < j => Precedes(q[i], q[j])

(* What the loop of tick over the regions finds, as <<index, id>>: regions *)
(* in the order of their indices, entities of each in that of their ids.   *)
Found(pairs) ==
    InOrder(pairs, LAMBDA e, f : e[1] < f[1] \/ (e[1] = f[1] /\ e[2] < f[2]))

ClearEvents(m) ==
    [m EXCEPT !.regions = FoldLeft(LAMBDA rs, r : Append(rs, [r EXCEPT !.events = <<>>]), <<>>, @)]

(* RegionMap::tick: pos gives the position of an entity or NoPos.          *)
TickRegions(m, pos) ==
    LET cleared == ClearEvents(m)
        untracked == {id \in DOMAIN pos : pos[id] # NoPos} \ m.tracked
        added == FoldLeft(LAMBDA w, id :
                              [AddEntity(w, id, pos[id], NoKey) EXCEPT !.tracked = @ \cup {id}],
                          cleared, InOrder(untracked, <))
        held  == UNION {{i} \X added.regions[i].bitset : i \in DOMAIN added.regions}
        moves == Found({e \in held : pos[e[2]] # NoPos /\ Switches(added.regions[e[1]].key, pos[e[2]])})
        gone  == Found({e \in held : pos[e[2]] = NoPos})
        moved == FoldLeft(LAMBDA w, e :
                              AddEntity(DropEntity(w, e[1], e[2], PosKey(pos[e[2]])),
                                        e[2], pos[e[2]], w.regions[e[1]].key),
                          added, Reverse(moves))
        left  == FoldLeft(LAMBDA w, e :
                              [DropEntity(w, e[1], e[2], NoKey) EXCEPT !.tracked = @ \ {e[2]}],
                          moved, gone)
    IN  FoldLeft(LAMBDA w, r : IF Removable(r) THEN RemoveKey(w, r.key) ELSE w, left, added.regions)

(* find_region: where an entity is tracked, found by its position, its     *)
(* neighbours or, in the end, by looking everywhere.                       *)
FindRegion(m, id) ==
    LET at == {i \in DOMAIN m.regions : id \in m.regions[i].bitset}
    IN  IF at = {} THEN NoKey ELSE m.regions[CHOOSE i \in at : TRUE].key
-----------------------------------------------------------------------------
(* region_in_vd and regions_in_vd: the regions that come nearer to p than  *)
(* vd + (slack + Tether) * sqrt(2), for vd and slack in blocks.  Squares   *)
(* of whole numbers decide it exactly.                                     *)
Outside(n, low) == IF n < low THEN low - n ELSE IF n > low + RegionSize THEN n - low - RegionSize ELSE 0

InRange(key, p, vd, slack) ==
    LET dx   == Outside(p[1], KeyPos(key)[1])
        dy   == Outside(p[2], KeyPos(key)[2])
        k    == slack + Tether
        over == dx * dx + dy * dy - vd * vd - 2 * k * k
    IN  over < 0 \/ over * over < 8 * vd * vd * k * k

RegionsInRange(p, vd, slack) ==
    LET reach == vd + 2 * (slack + Tether)
        span(n) == (n - reach) \div RegionSize .. (n + reach) \div RegionSize
    IN  {key \in span(p[1]) \X span(p[2]) : InRange(key, p, vd, slack)}
-----------------------------------------------------------------------------
(* A region names exactly the regions beside it.                           *)
NeighborsMatch(m) ==
    \A i \in DOMAIN m.regions : \A d \in Directions :
        m.regions[i].neighbors[d] = KeyIndex(m, Beside(m.regions[i].key, d))

(* No two regions share a key, and every tracked entity is in one region.  *)
TrackedOnce(m) ==
    /\ \A i, j \in DOMAIN m.regions :
          i # j => /\ m.regions[i].key # m.regions[j].key
                   /\ m.regions[i].bitset \cap m.regions[j].bitset = {}
    /\ m.tracked = UNION {m.regions[i].bitset : i \in DOMAIN m.regions}
=============================================================================
