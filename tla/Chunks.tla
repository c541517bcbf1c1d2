-------------------------------- MODULE Chunks --------------------------------
(***************************************************************************)
(* How chunks of terrain come to the clients: ChunkGenerator and its       *)
(* threads (server/src/chunk_generator.rs), the requests in                *)
(* server/src/sys/message.rs and events/mod.rs, loading and unloading in   *)
(* server/src/sys/terrain.rs, changed chunks in sys/terrain_sync.rs,       *)
(* reloading of assets (server/src/lib.rs), and the client's side of it    *)
(* (client/src/lib.rs).                                                    *)
(*                                                                         *)
(* The server's tick is a loop over three phases: messages are handled,    *)
(* results of the threads are received and far chunks are unloaded,        *)
(* requests are passed on to threads. Threads, clients and the network run *)
(* beside it. A chunk is told from another generation of it only by the    *)
(* version of the assets it was made from.                                 *)
(***************************************************************************)
EXTENDS Integers, Sequences, FiniteSets, SequencesExt

CONSTANTS Clients,
          Chunks,       \* the keys of the chunks of the world
          Places,       \* bound: chunks that players are in the middle of
          Scenes,       \* bound: of those, the places of a run and where the players
                        \* start, their moves and the times assets are reloaded
          ViewDistance, \* view_distance of every player
          MaxPending,   \* chunks a client waits for at a time, 4 in the code
          Stride,       \* loaded chunks are looked at every Stride^2 ticks, 4 in the code
          MaxSent,      \* bound: messages to and from a client that are not answered
          Away          \* no place: the player has left

Scene == [places : SUBSET Places, start : [Clients -> Places \cup {Away}], moves : Nat, reloads : Nat]

ASSUME ChunksAssumption ==
    /\ Chunks \subseteq Int \X Int /\ IsFiniteSet(Chunks)
    /\ Places \subseteq Int \X Int /\ Away \notin Places \cup Clients
    /\ Scenes \subseteq Scene
    /\ ViewDistance \in Nat \ {0} /\ MaxPending \in Nat \ {0} /\ Stride \in Nat \ {0}
    /\ MaxSent \in Nat

VARIABLES
    scene,      \* which of the Scenes it is, with the moves and reloads left
    phase,      \* of the server's tick
    tick,       \* Tick, modulo Stride^2
    version,    \* of the assets in the index
    terrain,    \* TerrainGrid: the version a chunk was generated from, 0 if not loaded
    modified,   \* TerrainChanges.modified_chunks
    pending,    \* keys of ChunkGenerator.pending_chunks
    jobs,       \* per chunk, the jobs of the threads in the order they were started
    results,    \* the channel chunk_tx, chunk_rx
    requested,  \* requested_chunks: the events ChunkRequest of this tick
    players,    \* Pos of the players on the server
    place,      \* where the clients are by their own account
    copy,       \* the chunks in a client's terrain
    asked,      \* Client.pending_chunks: since when, "no" if not asked for
    up, down,   \* singleton_stream: messages to and from the server
    renew       \* history: chunks loaded at the last reload, until they are
                \* generated from the new assets or unloaded

generator == <<pending, jobs, results>>
server    == <<phase, tick, version, terrain, modified, generator, requested, players, renew>>
client    == <<place, copy, asked>>
vars      == <<scene, server, client, up, down>>

Request == [asker : Clients, key : Chunks]
Job     == [asker : Clients \cup {Away}, cancel : BOOLEAN, listed : BOOLEAN, version : Nat]
Result  == [key : Chunks, asker : Clients \cup {Away}, version : Nat]
ToServer == [what : {"request"}, key : Chunks] \cup [what : {"place"}, at : Places]
ToClient == [key : Chunks, ok : BOOLEAN]
-----------------------------------------------------------------------------
(* Geometry, in chunks.                                                    *)
Distance(a, b) == IF a < b THEN b - a ELSE a - b
Beyond(n, k) == IF n < k THEN 0 ELSE n - k

(* chunk_in_vd of the server, and what a client keeps.                     *)
InViewDistance(p, c) ==
    LET dx == Beyond(Distance(p[1], c[1]), 2)
        dy == Beyond(Distance(p[2], c[2]), 2)
    IN  dx * dx + dy * dy <= ViewDistance * ViewDistance

(* in_vd of a request: the middle of the chunk is closer than              *)
(* view_distance - 1 + 2.5 * sqrt(2) chunks. The squares are compared      *)
(* without the root.                                                       *)
MayRequest(p, c) ==
    LET dx == Distance(p[1], c[1])
        dy == Distance(p[2], c[2])
        a  == ViewDistance - 1
        m  == 2 * (dx * dx + dy * dy) - 2 * a * a - 25
    IN  m < 0 \/ m * m < 200 * a * a

RoundedRoot(n) ==
    CHOOSE r \in 0 .. n : (2 * r - 1) * (2 * r - 1) <= 4 * n /\ 4 * n < (2 * r + 1) * (2 * r + 1)

(* How far a client asks for chunks along the sides of a square at dist.   *)
Top(dist) ==
    LET a == ViewDistance - 1
        d == Beyond(dist, 2)
    IN  IF 2 * d * d > a * a THEN RoundedRoot(a * a - d * d) + 1 ELSE dist

OnRing(p, c, dist) ==
    LET dx == Distance(p[1], c[1])
        dy == Distance(p[2], c[2])
    IN  (dx = dist /\ dy <= Top(dist)) \/ (dy = dist /\ dx <= Top(dist))

(* The same for all places: the chunks that are kept loaded and sent       *)
(* unasked, those that may be asked for, those that a client asks for.     *)
Near   == [p \in Places |-> {c \in Chunks : InViewDistance(p, c)}]
Served == [p \in Places |-> {c \in Chunks : MayRequest(p, c)}]
Ring   == [p \in Places |-> [dist \in 0 .. ViewDistance |-> {c \in Chunks : OnRing(p, c, dist)}]]
Wanted == [p \in Places |-> UNION {Ring[p][dist] : dist \in 0 .. ViewDistance}]

Playing(k) == k # Away /\ players[k] # Away

InView(k, c) == players[k] # Away /\ c \in Near[players[k]]

Alone(c) == \A k \in Clients : ~InView(k, c)
-----------------------------------------------------------------------------
(* The players of the scene are in the game and have no terrain yet.       *)
Init ==
    /\ scene \in Scenes
    /\ phase = "messages"
    /\ tick = 0
    /\ version = 1
    /\ terrain = [c \in Chunks |-> 0]
    /\ modified = {}
    /\ pending = {}
    /\ jobs = [c \in Chunks |-> <<>>]
    /\ results = <<>>
    /\ requested = <<>>
    /\ players = scene.start
    /\ place = scene.start
    /\ copy = [k \in Clients |-> {}]
    /\ asked = [k \in Clients |-> [c \in Chunks |-> "no"]]
    /\ up = [k \in Clients |-> <<>>]
    /\ down = [k \in Clients |-> <<>>]
    /\ renew = {}

(* client.notify for the players that chunks are near to.                  *)
Tell(msgs, keys) ==
    [k \in Clients |-> msgs[k] \o SetToSeq({[key |-> c, ok |-> TRUE] :
                                               c \in {d \in keys : InView(k, d)}})]
-----------------------------------------------------------------------------
(* sys/message.rs: a message of a player that has arrived.                 *)
HandleRequest(k) ==
    /\ phase = "messages"
    /\ up[k] # <<>>
    /\ up[k][1].what = "request"
    /\ LET c == up[k][1].key IN
       \/ /\ c \in Served[players[k]]
          /\ terrain[c] # 0
          /\ down' = [down EXCEPT ![k] = Append(@, [key |-> c, ok |-> TRUE])]
          /\ UNCHANGED requested
       \/ /\ c \in Served[players[k]]
          /\ terrain[c] = 0
          /\ requested' = Append(requested, [asker |-> k, key |-> c])
          /\ UNCHANGED down
       \/ /\ c \notin Served[players[k]]
          /\ UNCHANGED <<requested, down>>
    /\ up' = [up EXCEPT ![k] = Tail(@)]
    /\ UNCHANGED <<phase, tick, version, terrain, modified, generator, players, renew,
                   client, scene>>

HandlePhysics(k) ==
    /\ phase = "messages"
    /\ up[k] # <<>>
    /\ up[k][1].what = "place"
    /\ players' = [players EXCEPT ![k] = up[k][1].at]
    /\ up' = [up EXCEPT ![k] = Tail(@)]
    /\ UNCHANGED <<phase, tick, version, terrain, modified, generator, requested, renew,
                   client, down, scene>>

HandleMessage(k) == HandleRequest(k) \/ HandlePhysics(k)

(* What has not arrived yet is handled in a later tick.                    *)
EndMessages ==
    /\ phase = "messages"
    /\ phase' = "terrain"
    /\ UNCHANGED <<tick, version, terrain, modified, generator, requested, players, renew,
                   client, up, down, scene>>
-----------------------------------------------------------------------------
(* No job of c is the one that pending_chunks has an entry of.             *)
Unlisted(s) == [i \in DOMAIN s |-> [s[i] EXCEPT !.listed = FALSE]]

(* The flag of the entry is set, and the entry is gone.                    *)
Cancelled(s) == [i \in DOMAIN s |-> [s[i] EXCEPT !.cancel = @ \/ s[i].listed, !.listed = FALSE]]

(* Mutant: the flag is set, but the entry is kept.                         *)
CancelKeepingEntry(keys) ==
    /\ jobs' = [c \in Chunks |-> IF c \in keys THEN Cancelled(jobs[c]) ELSE jobs[c]]
    /\ UNCHANGED pending

(* cancel_if_pending.                                                      *)
Cancel(keys) ==
    /\ pending' = pending \ keys
    /\ jobs' = [c \in Chunks |-> IF c \in keys THEN Cancelled(jobs[c]) ELSE jobs[c]]

(* recv_new_chunk, and what sys/terrain.rs does with the result: send it   *)
(* to all around, or tell the one that asked for it.                       *)
ReceiveChunk ==
    /\ phase = "terrain"
    /\ results # <<>>
    /\ LET r == Head(results) IN
       /\ results' = Tail(results)
       /\ pending' = pending \ {r.key}
       /\ jobs' = [jobs EXCEPT ![r.key] = Unlisted(@)]
       /\ \/ /\ r.version # 0
             /\ terrain' = [terrain EXCEPT ![r.key] = r.version]
             /\ modified' = IF terrain[r.key] = 0 THEN modified ELSE modified \cup {r.key}
             /\ down' = Tell(down, {r.key})
             /\ renew' = IF r.version = version THEN renew \ {r.key} ELSE renew
          \/ /\ r.version = 0
             /\ Playing(r.asker)
             /\ down' = [down EXCEPT ![r.asker] = Append(@, [key |-> r.key, ok |-> FALSE])]
             /\ UNCHANGED <<terrain, modified, renew>>
          \/ /\ r.version = 0
             /\ ~Playing(r.asker)
             /\ UNCHANGED <<terrain, modified, renew, down>>
    /\ UNCHANGED <<phase, tick, version, requested, players, client, up, scene>>

(* Mutant: slots are counted from one, ticks from zero.                    *)
SlotFromOne(c) == 1 + (Distance(c[1], 0) % Stride) + (Distance(c[2], 0) % Stride) * Stride

(* The tick in which a loaded chunk is looked at.                          *)
Slot(c) == (Distance(c[1], 0) % Stride) + (Distance(c[2], 0) % Stride) * Stride

(* The end of sys/terrain.rs: chunks that no player is near are unloaded,  *)
(* a part of the loaded ones in each tick, and no longer waited for.       *)
Unload ==
    /\ phase = "terrain"
    /\ results = <<>>
    /\ LET looked == {c \in Chunks : terrain[c] # 0 /\ Slot(c) = tick} \cup pending
           far    == {c \in looked : Alone(c)}
       IN  /\ terrain' = [c \in Chunks |-> IF c \in far THEN 0 ELSE terrain[c]]
           /\ Cancel(far)
           /\ renew' = renew \ far
    /\ phase' = "events"
    /\ UNCHANGED <<tick, version, modified, results, requested, players, client, up, down, scene>>
-----------------------------------------------------------------------------
NewJob(asker, v) == [asker |-> asker, cancel |-> FALSE, listed |-> TRUE, version |-> v]

(* generate_chunk for the next of requested_chunks.                        *)
GenerateChunk ==
    /\ phase = "events"
    /\ requested # <<>>
    /\ requested' = Tail(requested)
    /\ LET r == Head(requested) IN
       \/ /\ r.key \in pending
          /\ UNCHANGED <<pending, jobs>>
       \/ /\ r.key \notin pending
          /\ pending' = pending \cup {r.key}
          /\ jobs' = [jobs EXCEPT ![r.key] = Append(@, NewJob(r.asker, version))]
    /\ UNCHANGED <<phase, tick, version, terrain, modified, results, players, renew,
                   client, up, down, scene>>

(* handle_client_disconnect: the entity of the player is gone.             *)
Leave(k) ==
    /\ phase = "events"
    /\ players[k] # Away
    /\ players' = [players EXCEPT ![k] = Away]
    /\ up' = [up EXCEPT ![k] = <<>>]
    /\ down' = [down EXCEPT ![k] = <<>>]
    /\ copy' = [copy EXCEPT ![k] = {}]
    /\ asked' = [asked EXCEPT ![k] = [c \in Chunks |-> "no"]]
    /\ UNCHANGED <<phase, tick, version, terrain, modified, generator, requested, renew,
                   place, scene>>

(* Mutant: the tick does not start over.                                   *)
SyncWithoutSlots ==
    /\ phase = "events"
    /\ requested = <<>>
    /\ down' = Tell(down, {c \in modified : terrain[c] # 0})
    /\ modified' = {}
    /\ phase' = "messages"
    /\ tick' = tick + 1
    /\ UNCHANGED <<requested, results, players, client, up>>

(* sys/terrain_sync.rs, and the cleanup after the tick.                    *)
SyncTerrain ==
    /\ phase = "events"
    /\ requested = <<>>
    /\ down' = Tell(down, {c \in modified : terrain[c] # 0})
    /\ modified' = {}
    /\ phase' = "messages"
    /\ tick' = (tick + 1) % (Stride * Stride)
    /\ UNCHANGED <<requested, results, players, client, up>>

EndTick ==
    /\ SyncTerrain
    /\ UNCHANGED <<version, terrain, pending, jobs, renew, scene>>

(* Mutant: cancel_all is forgotten, so that jobs are not started again for *)
(* chunks that are waited for.                                             *)
ReloadUncancelled ==
    /\ SyncTerrain
    /\ scene.reloads > 0
    /\ scene' = [scene EXCEPT !.reloads = @ - 1]
    /\ version' = version + 1
    /\ LET loaded == {c \in Chunks : terrain[c] # 0 /\ \E k \in Clients : players[k] # Away}
       IN  /\ terrain' = [c \in Chunks |-> IF c \in loaded THEN terrain[c] ELSE 0]
           /\ pending' = pending \cup loaded
           /\ jobs' = [c \in Chunks |->
                         IF c \in loaded \ pending THEN Append(jobs[c], NewJob(Away, version + 1))
                         ELSE jobs[c]]
           /\ renew' = loaded

(* The tick ends with new assets: cancel_all, and all that is loaded is    *)
(* generated again, unless there is nobody.                                *)
Reload ==
    /\ SyncTerrain
    /\ scene.reloads > 0
    /\ scene' = [scene EXCEPT !.reloads = @ - 1]
    /\ version' = version + 1
    /\ LET loaded == {c \in Chunks : terrain[c] # 0 /\ \E k \in Clients : players[k] # Away}
       IN  /\ terrain' = [c \in Chunks |-> IF c \in loaded THEN terrain[c] ELSE 0]
           /\ pending' = loaded
           /\ jobs' = [c \in Chunks |->
                         IF c \in loaded THEN Append(Cancelled(jobs[c]), NewJob(Away, version + 1))
                         ELSE Cancelled(jobs[c])]
           /\ renew' = loaded
-----------------------------------------------------------------------------
(* A thread: its job sees the flag, or has been past its last look at it.  *)
Finish(c, i) ==
    /\ i \in DOMAIN jobs[c]
    /\ LET job == jobs[c][i] IN
       \E v \in IF job.cancel THEN {0, job.version} ELSE {job.version} :
           results' = Append(results, [key |-> c, asker |-> job.asker, version |-> v])
    /\ jobs' = [jobs EXCEPT ![c] = RemoveAt(@, i)]
    /\ UNCHANGED <<phase, tick, version, terrain, modified, pending, requested, players, renew,
                   client, up, down, scene>>
-----------------------------------------------------------------------------
(* TerrainChunkUpdate.                                                     *)
TakeChunk(k) ==
    /\ down[k] # <<>>
    /\ LET m == Head(down[k]) IN
       /\ copy' = [copy EXCEPT ![k] = IF m.ok THEN @ \cup {m.key} ELSE @]
       /\ asked' = [asked EXCEPT ![k][m.key] = "no"]
    /\ down' = [down EXCEPT ![k] = Tail(@)]
    /\ UNCHANGED <<server, place, up, scene>>

(* Mutant: a request that is not answered is waited for until it is.       *)
NeverExpire(k, c) ==
    /\ asked[k][c] = "old"
    /\ UNCHANGED vars

(* Three seconds have passed since the chunk was asked for.                *)
Expire(k, c) ==
    /\ asked[k][c] = "new"
    /\ asked' = [asked EXCEPT ![k][c] = "old"]
    /\ UNCHANGED <<server, place, copy, up, down, scene>>

(* Sets of at most n of the missing chunks, nearer ones first.             *)
Nearest(p, missing, n) ==
    {s \in SUBSET missing :
        /\ Cardinality(s) = IF Cardinality(missing) < n THEN Cardinality(missing) ELSE n
        /\ \A far \in 0 .. ViewDistance : \A near \in 0 .. far - 1 :
              s \cap Ring[p][far] = {} \/ missing \cap Ring[p][near] \subseteq s}

(* The place that the server will know once it has taken all messages.     *)
Sent(k) ==
    LET at == SelectSeq(up[k], LAMBDA m : m.what = "place")
    IN  IF at = <<>> THEN players[k] ELSE Last(at).at

(* The terrain part of Client::tick with the player at p now: drop what is *)
(* far, ask for what is missing, forget what has been asked for too long   *)
(* ago, send the place. A place already sent is not repeated.              *)
Tick(k, p) ==
    LET kept    == copy[k] \cap Near[p]
        waiting == {c \in Chunks : asked[k][c] # "no"}
        missing == Wanted[p] \ (kept \cup waiting)
    IN  /\ players[k] # Away
        /\ Len(up[k]) + Len(requested) + Len(down[k]) < MaxSent
        /\ place' = [place EXCEPT ![k] = p]
        /\ copy' = [copy EXCEPT ![k] = kept]
        /\ \E s \in Nearest(p, missing, Beyond(MaxPending, Cardinality(waiting))) :
              /\ asked' = [asked EXCEPT ![k] = [c \in Chunks |->
                             IF c \in s THEN "new" ELSE IF @[c] = "old" THEN "no" ELSE @[c]]]
              /\ up' = [up EXCEPT ![k] = @ \o SetToSeq({[what |-> "request", key |-> c] : c \in s})
                             \o IF p = Sent(k) THEN <<>> ELSE <<[what |-> "place", at |-> p]>>]
        /\ UNCHANGED <<server, down>>

ClientTick(k) == Tick(k, place[k]) /\ UNCHANGED scene

Move(k, p) ==
    /\ p # place[k]
    /\ scene.moves > 0
    /\ scene' = [scene EXCEPT !.moves = @ - 1]
    /\ Tick(k, p)
-----------------------------------------------------------------------------
ServerStep == EndMessages \/ ReceiveChunk \/ Unload \/ GenerateChunk \/ EndTick

Next ==
    \/ ServerStep
    \/ Reload
    \/ \E c \in Chunks : \E i \in DOMAIN jobs[c] : Finish(c, i)
    \/ \E k \in Clients :
          \/ HandleMessage(k) \/ Leave(k) \/ TakeChunk(k) \/ ClientTick(k)
          \/ \E p \in scene.places : Move(k, p)
          \/ \E c \in Chunks : Expire(k, c)

(* The server's loop goes on; a message that keeps waiting has arrived at  *)
(* some tick; threads end; clients run their own loop; time passes.        *)
Fairness ==
    /\ WF_vars(ServerStep)
    /\ \A c \in Chunks : WF_vars(Finish(c, 1))
    /\ \A k \in Clients :
          /\ SF_vars(HandleMessage(k))
          /\ WF_vars(TakeChunk(k))
          /\ WF_vars(ClientTick(k))
          /\ \A c \in Chunks : WF_vars(Expire(k, c))

Spec == Init /\ [][Next]_vars /\ Fairness
-----------------------------------------------------------------------------
(* Server, threads, channels and clients keep their types.                 *)
TypeOK ==
    /\ scene \in Scene
    /\ phase \in {"messages", "terrain", "events"}
    /\ tick \in 0 .. Stride * Stride - 1
    /\ version \in Nat
    /\ terrain \in [Chunks -> Nat]
    /\ modified \subseteq Chunks
    /\ pending \subseteq Chunks
    /\ jobs \in [Chunks -> Seq(Job)]
    /\ results \in Seq(Result)
    /\ requested \in Seq(Request)
    /\ players \in [Clients -> Places \cup {Away}]
    /\ place \in [Clients -> Places \cup {Away}]
    /\ copy \in [Clients -> SUBSET Chunks]
    /\ asked \in [Clients -> [Chunks -> {"no", "new", "old"}]]
    /\ up \in [Clients -> Seq(ToServer)]
    /\ down \in [Clients -> Seq(ToClient)]
    /\ renew \subseteq Chunks

(* A request for a chunk in pending_chunks is dropped by generate_chunk,   *)
(* so there must be something to wait for: a job that still listens to the *)
(* flag of the entry and has not been told to stop, or a result that is    *)
(* about to remove the entry. This holds although results of cancelled     *)
(* jobs remove the entries of later ones.                                  *)
NothingSwallowed ==
    \A c \in pending :
        \/ \E i \in DOMAIN jobs[c] : jobs[c][i].listed /\ ~jobs[c][i].cancel
        \/ \E n \in DOMAIN results : results[n].key = c

Wants(k, c) == players[k] # Away /\ c \in Wanted[place[k]]

(* A client that stays gets all the chunks it wants, whatever has been     *)
(* cancelled, refused or answered to somebody else before.                 *)
ChunksCome ==
    \A k \in Clients, c \in Chunks :
        Wants(k, c) ~> c \in copy[k] \/ ~Wants(k, c)

(* A chunk that nobody comes near is unloaded and not waited for in the    *)
(* end, also when it was generated or regenerated after all had gone.      *)
FarChunksGo ==
    \A c \in Chunks :
        Alone(c) ~> (~Alone(c) \/ (terrain[c] = 0 /\ c \notin pending))

(* When assets are reloaded, every loaded chunk is generated from the new  *)
(* ones, unless it is unloaded: no entry left behind keeps generate_chunk  *)
(* from starting the job.                                                  *)
Renewed == \A c \in Chunks : c \in renew ~> c \notin renew
=============================================================================
