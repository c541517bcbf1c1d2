------------------------------ MODULE EntitySync ------------------------------
(***************************************************************************)
(* What one client is told of the entities of the world: the regions it is *)
(* subscribed to (server/src/sys/subscription.rs), the messages about      *)
(* entities that cross them, are created, changed or deleted               *)
(* (server/src/sys/entity_sync.rs, sentinel.rs), and the client's copy     *)
(* (client/src/lib.rs, common/src/sync/sync_ext.rs).                       *)
(*                                                                         *)
(* A tick of the server (server/src/lib.rs) lets the world change in any   *)
(* way, updates the region map, then runs subscription and entity_sync.    *)
(* The id of an entity is used again after its deletion, its Uid is not.   *)
(* The connection keeps messages in order, so known and stale are what the *)
(* client has once it has taken all that was sent.                         *)
(***************************************************************************)
EXTENDS Regions

CONSTANTS MaxId,        \* bound: ids of entities at a time
          MaxUid,       \* bound: Uids ever given out
          Places,       \* bound: positions that entities take
          Spawn,        \* SpawnPoint, one of them
          Scenes,       \* bound: of those, the positions taken in a run, how many
                        \* Uids are given out and which of them to players
          ChunkSize,    \* length of a chunk
          ViewDistance, \* view_distance of the client, in chunks, at least 1
          ChunkFuzz,    \* CHUNK_FUZZ
          RegionFuzz,   \* REGION_FUZZ
          MaxEvents     \* bound: events handled in a tick

ASSUME SyncAssumption ==
    /\ MaxId \in Nat \ {0} /\ MaxUid \in Nat \ {0}
    /\ Places \subseteq Nat \X Nat /\ Spawn \in Places
    /\ Scenes \subseteq [places : SUBSET Places, last : 1 .. MaxUid, players : SUBSET (1 .. MaxUid)]
    /\ ChunkSize \in Nat \ {0}
    /\ ViewDistance \in Nat \ {0}
    /\ {ChunkFuzz, RegionFuzz, MaxEvents} \subseteq Nat

ID  == 1 .. MaxId
UID == 1 .. MaxUid
NoUid == 0
Me == 1     \* the Uid of the client that is watched
NotSubscribed == [regions |-> {}, fuzzy_chunk |-> <<>>]

VARIABLES
    scene,          \* which of the Scenes it is
    events,         \* bound: how many more may be handled in this tick
    phase,          \* what the tick has done last
    uid, pos,       \* components Uid and Pos of the entity with an id
    clients,        \* the ids of entities with a Client component
    next_uid,       \* UidAllocator.index
    region_map,     \* RegionMap
    subscription,   \* RegionSubscription of the watched client
    inserted,       \* UpdateTracker<Uid>: ids that got their Uid in this tick
    changed,        \* trackers of the other components
    deleted,        \* DeletedEntities, as pairs of region and Uid
    known,          \* the Uids of the entities that the client has
    stale,          \* those whose components it has not as they are
    missed          \* history: the Uids of entities that it has not, as they
                    \* came from a region in the tick it subscribed to it

world  == <<uid, pos, clients, next_uid>>
traced == <<inserted, changed, deleted>>
mirror == <<known, stale, missed>>
vars   == <<scene, events, phase, world, region_map, subscription, traced, mirror>>

Init ==
    /\ scene \in Scenes
    /\ events = MaxEvents
    /\ phase = "synced"
    /\ uid = [i \in ID |-> IF i = 1 THEN Me ELSE NoUid]
    /\ pos = [i \in ID |-> NoPos]
    /\ clients = {1}
    /\ next_uid = Me + 1
    /\ region_map = EmptyMap
    /\ subscription = NotSubscribed
    /\ inserted = {} /\ changed = {} /\ deleted = {}
    /\ known = {Me} /\ stale = {Me} /\ missed = {}

Entity == CHOOSE i \in clients : uid[i] = Me

Subscribed == subscription # NotSubscribed

UidsOf(ids) == {uid[i] : i \in ids} \ {NoUid}

Bitset(keys) == UNION {r.bitset : r \in {s \in ToSet(region_map.regions) : s.key \in keys}}

(* Part of a tick before the region map is updated: an event of the world. *)
Event ==
    /\ phase \in {"synced", "world"}
    /\ events > 0
    /\ events' = events - 1
    /\ phase' = "world"
    /\ UNCHANGED scene

(* An id is used again as soon as it is free; take the lowest.             *)
Vacant == {i \in ID : uid[i] = NoUid}
Free(i) == i \in Vacant /\ \A j \in Vacant : i <= j
-----------------------------------------------------------------------------
(* An entity is created: an NPC, a projectile or a thing dropped at some   *)
(* place, or that of a new connection, which is nowhere yet.               *)
Create(i, p) ==
    /\ Event
    /\ Free(i)
    /\ next_uid <= scene.last
    /\ (p = NoPos) <=> (next_uid \in scene.players)
    /\ uid' = [uid EXCEPT ![i] = next_uid]
    /\ pos' = [pos EXCEPT ![i] = p]
    /\ next_uid' = next_uid + 1
    /\ clients' = IF p = NoPos THEN clients \cup {i} ELSE clients
    /\ inserted' = inserted \cup {i}
    /\ changed' = changed \cup {i}
    /\ UNCHANGED <<region_map, subscription, deleted, mirror>>

Move(i, p) ==
    /\ Event
    /\ pos[i] \notin {NoPos, p}
    /\ pos' = [pos EXCEPT ![i] = p]
    /\ UNCHANGED <<uid, clients, next_uid, region_map, subscription, traced, mirror>>

(* Any component that is synchronised changes.                             *)
Change(i) ==
    /\ Event
    /\ pos[i] # NoPos
    /\ changed' = changed \cup {i}
    /\ UNCHANGED <<world, region_map, subscription, inserted, deleted, mirror>>

(* Mutant: the Uid is looked up after the entity is gone.                  *)
RecordTooLate(i) ==
    LET key == FindRegion(region_map, i)
    IN  deleted' = IF pos[i] = NoPos \/ key = NoKey THEN deleted
                   ELSE deleted \cup {<<key, uid'[i]>>}

(* delete_entity_recorded: noted under the region it is tracked in.        *)
Record(i) ==
    LET key == FindRegion(region_map, i)
    IN  deleted' = IF pos[i] = NoPos \/ key = NoKey THEN deleted
                   ELSE deleted \cup {<<key, uid[i]>>}

(* An NPC dies or its chunk is unloaded; another player disconnects.       *)
Delete(i) ==
    /\ Event
    /\ uid[i] \notin {NoUid, Me}
    /\ uid' = [uid EXCEPT ![i] = NoUid]
    /\ Record(i)
    /\ pos' = [pos EXCEPT ![i] = NoPos]
    /\ clients' = clients \ {i}
    /\ inserted' = inserted \ {i}
    /\ changed' = changed \ {i}
    /\ UNCHANGED <<next_uid, region_map, subscription, mirror>>

(* initialize_character_data: a client gets a place in the world, but not  *)
(* in the tick in which it has left it.                                    *)
EnterGame(i) ==
    /\ Event
    /\ i \in clients \ inserted
    /\ pos[i] = NoPos
    /\ pos' = [pos EXCEPT ![i] = Spawn]
    /\ changed' = changed \cup {i}
    /\ UNCHANGED <<uid, clients, next_uid, region_map, subscription, inserted, deleted, mirror>>

(* handle_exit_ingame: a new entity takes over Client and Uid.  The client *)
(* itself forgets all entities, and of its own everything but the Uid.     *)
ExitIngame(i, n) ==
    /\ Event
    /\ i \in clients
    /\ pos[i] # NoPos
    /\ Free(n)
    /\ uid' = [uid EXCEPT ![n] = uid[i], ![i] = NoUid]
    /\ Record(i)
    /\ pos' = [pos EXCEPT ![i] = NoPos]
    /\ clients' = (clients \ {i}) \cup {n}
    /\ inserted' = (inserted \ {i}) \cup {n}
    /\ changed' = (changed \ {i}) \cup {n}
    /\ IF uid[i] = Me
       THEN known' = {Me} /\ stale' = {Me} /\ missed' = {} /\ subscription' = NotSubscribed
       ELSE UNCHANGED <<mirror, subscription>>
    /\ UNCHANGED <<next_uid, region_map>>
-----------------------------------------------------------------------------
Chunk(p) == <<p[1] \div ChunkSize, p[2] \div ChunkSize>>

(* Mutant: as if the client stayed exactly where it has subscribed.        *)
SeenAtOnce(p) == RegionsInRange(p, ViewDistance * ChunkSize, 0)

RegionsSeen(p) == RegionsInRange(p, ViewDistance * ChunkSize, ChunkFuzz + ChunkSize)

(* handle_loaded_character_data, in a later tick than EnterGame: the       *)
(* regions as the last tick left them, its own entity included.            *)
Loaded ==
    /\ Event
    /\ ~Subscribed
    /\ pos[Entity] # NoPos
    /\ Entity \in region_map.tracked
    /\ LET regions == RegionsSeen(pos[Entity])
           told    == UidsOf({i \in Bitset(regions) : pos[i] # NoPos})
       IN  /\ subscription' = [regions |-> regions, fuzzy_chunk |-> Chunk(pos[Entity])]
           /\ known' = known \cup told
           /\ stale' = stale \ told
    /\ changed' = changed \cup {Entity}
    /\ UNCHANGED <<world, region_map, inserted, deleted, missed>>

UpdateRegions ==
    /\ phase \in {"synced", "world"}
    /\ phase' = "regions"
    /\ region_map' = TickRegions(region_map, pos)
    /\ UNCHANGED <<scene, events, world, subscription, traced, mirror>>
-----------------------------------------------------------------------------
(* The client has left its chunk and a border of ChunkFuzz around it.      *)
LeftChunk(p) ==
    LET off(d) == Absolute((2 * subscription.fuzzy_chunk[d] + 1) * ChunkSize - 2 * p[d])
    IN  /\ Chunk(p) # subscription.fuzzy_chunk
        /\ \E d \in {1, 2} : off(d) > 2 * (ChunkSize \div 2 + ChunkFuzz)

(* The Uids of entities that have left r for a region not among the keys.  *)
(* The id of a deleted entity may have a new holder.                       *)
LeftFor(r, keys) ==
    UidsOf({e.id : e \in {x \in ToSet(r.events) : x.what = "left" /\ x.key \notin keys}})

(* The Uids of entities that come into r from a region not among the keys. *)
ComeTo(r, keys) ==
    UidsOf({e.id : e \in {x \in ToSet(r.events) :
                             /\ x.what = "entered" /\ x.key \notin keys
                             /\ x.id \notin inserted /\ pos[x.id] # NoPos}}) \ {Me}

DeletedIn(keys) == {d[2] : d \in {x \in deleted : x[1] \in keys}}

(* Mutant: nothing is said of entities that have just left such a region.  *)
ForgetWhoIsThere(out, kept) == UidsOf(Bitset(out)) \cup DeletedIn(out)

(* What the client no longer sees when regions go out of range.  Whoever   *)
(* moved from one of them to another is in the other.                      *)
Forget(out, kept) ==
    (UNION {LeftFor(r, kept) : r \in {s \in ToSet(region_map.regions) : s.key \in out}})
        \cup UidsOf(Bitset(out)) \cup DeletedIn(out)

(* The Uids of entities that came into a region kept from one of the keys. *)
CameFrom(keys, kept) ==
    UidsOf({e.id : e \in {x \in UNION {ToSet(r.events) : r \in {s \in ToSet(region_map.regions) : s.key \in kept}} :
                             x.what = "entered" /\ x.key \in keys}})

Subscribe ==
    /\ phase = "regions"
    /\ phase' = "subscribed"
    /\ IF Subscribed /\ LeftChunk(pos[Entity])
       THEN LET p    == pos[Entity]
                keep == {key \in subscription.regions :
                            InRange(key, p, ViewDistance * ChunkSize,
                                    ChunkFuzz + RegionFuzz + ChunkSize)}
                lost == Forget(subscription.regions \ keep, keep) \ {Me}
                told == UidsOf({i \in Bitset(RegionsSeen(p) \ keep) : pos[i] # NoPos}) \ {Me}
            IN  /\ subscription' = [regions |-> keep \cup RegionsSeen(p), fuzzy_chunk |-> Chunk(p)]
                /\ known' = (known \ lost) \cup told
                /\ stale' = (stale \ lost) \ told
                /\ missed' = missed \cup CameFrom(RegionsSeen(p) \ keep, keep)
       ELSE UNCHANGED <<subscription, mirror>>
    /\ UNCHANGED <<scene, events, world, region_map, traced>>
-----------------------------------------------------------------------------
(* A region is synchronised: its events, then the Uids created and deleted *)
(* in it, then the components changed in it.                               *)
SyncRegion(m, r) ==
    LET keys    == subscription.regions
        told    == ComeTo(r, keys)
        created == UidsOf(r.bitset \cap inserted)
        updated == UidsOf(r.bitset \cap changed)
        kept    == (((m.known \cup told) \ (LeftFor(r, keys) \ {Me})) \cup created) \ DeletedIn({r.key})
    IN  [known |-> kept, fresh |-> m.fresh \cup told \cup updated]

(* The client must be subscribed to get it.                                *)
SyncMirror ==
    LET after == FoldLeft(LAMBDA m, r : IF r.key \in subscription.regions THEN SyncRegion(m, r) ELSE m,
                          [known |-> known, fresh |-> {}], region_map.regions)
        rest  == DeletedIn(subscription.regions \ Keys(region_map)) \ {Me}
    IN  /\ known' = after.known \ rest
        /\ stale' = (known' \cap (stale \cup UidsOf(changed))) \ after.fresh

(* Nobody looks at the events of regions again before the next tick clears *)
(* them: to have fewer states this is done at once.                        *)
Sync ==
    /\ phase = "subscribed"
    /\ phase' = "synced"
    /\ events' = MaxEvents
    /\ SyncMirror
    /\ inserted' = {} /\ changed' = {} /\ deleted' = {}
    /\ region_map' = ClearEvents(region_map)
    /\ missed' = (missed \ known') \cap UidsOf(Bitset(subscription.regions))
    /\ UNCHANGED <<scene, world, subscription>>

Next ==
    \/ \E i \in ID, p \in scene.places : Create(i, p) \/ Move(i, p)
    \/ \E i \in ID : Create(i, NoPos) \/ Change(i) \/ Delete(i) \/ EnterGame(i)
    \/ \E i, n \in ID : ExitIngame(i, n)
    \/ Loaded
    \/ UpdateRegions
    \/ Subscribe
    \/ Sync

Spec == Init /\ [][Next]_vars
-----------------------------------------------------------------------------
TypeOK ==
    /\ scene \in Scenes
    /\ events \in 0 .. MaxEvents
    /\ phase \in {"synced", "world", "regions", "subscribed"}
    /\ uid \in [ID -> UID \cup {NoUid}]
    /\ pos \in [ID -> Places \cup {NoPos}]
    /\ clients \subseteq ID
    /\ next_uid \in 1 .. MaxUid + 1
    /\ \A r \in ToSet(region_map.regions) :
          r.bitset \subseteq ID /\ r.neighbors \in [Directions -> 0 .. Len(region_map.regions)]
    /\ inserted \subseteq ID /\ changed \subseteq ID
    /\ \A d \in deleted : d[2] \in UID
    /\ known \subseteq UID /\ stale \subseteq known

(* The table of neighbours, kept as indices into an IndexMap from which    *)
(* regions are removed by swapping, names the regions that are beside      *)
(* each other, and every tracked entity is in exactly one region.          *)
RegionsAgree == NeighborsMatch(region_map) /\ TrackedOnce(region_map)

(* When a tick has been synchronised, the client has the entities of the   *)
(* regions it is subscribed to and no others, all components as they are:  *)
(* whatever moved, was created in the place of another, changed or was     *)
(* deleted in whichever order, and wherever the client went itself.  It    *)
(* may only lack those that missed names.                                  *)
MirrorIsExact ==
    phase = "synced" /\ Subscribed =>
        LET there == UidsOf(Bitset(subscription.regions)) \cup {Me}
        IN  known \subseteq there /\ there \ known \subseteq missed /\ stale = {}

Distance2(p, q) ==
    (p[1] - q[1]) * (p[1] - q[1]) + (p[2] - q[2]) * (p[2] - q[2])

(* A client has every entity of the regions it is subscribed to: entities  *)
(* that were there when it subscribed were sent, so that those who come    *)
(* from a region it is subscribed to need not be (entity_sync.rs).         *)
SubscribersKnow ==
    phase = "synced" /\ Subscribed => UidsOf(Bitset(subscription.regions)) \subseteq known

(* The client has every entity within its view distance, although regions  *)
(* hold entities that are a little outside of them and the subscription is *)
(* only looked at when the client has left its chunk by some blocks.       *)
SeesAllInView ==
    phase = "synced" /\ Subscribed =>
        \A i \in ID : 
            /\ pos[i] # NoPos
            /\ Distance2(pos[i], pos[Entity]) <= (ViewDistance * ChunkSize) * (ViewDistance * ChunkSize)
            => uid[i] \in known \cup missed
=============================================================================
