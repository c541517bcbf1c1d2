# A verification model of Veloran

Veloran (a Veloren fork) is a multiplayer voxel game written in Rust: a server, a client library
and front end, a world generator, and a networking crate of its own that multiplexes prioritised
streams over a connection. This directory holds TLA+ models of its concurrent and protocol-like
parts, the TLC configurations that check them and TLAPS proofs about them. Paths below are
relative to `src/` of the repository; the line numbers are in the `map` of `PROJECT.json`.

## 1. Inventory

### 1.1 The network crate (`network/src`)

A `Network` owns a `Scheduler`; the scheduler keeps one `BParticipant` per remote peer; a
`BParticipant` multiplexes the `Stream`s of its user over one `Channel` (a TCP connection).
The user's `Participant` and `Stream` objects talk to it through unbounded channels. Every
`BParticipant` is one task: `join!` of six managers.

| part | state | operations | hard behaviour | what makes it correct |
|---|---|---|---|---|
| `PrioManager` (`prios.rs`) and `OutgoingMessage` (`message.rs`) | a queue per priority, `queued`, `points`, `sid_owned` counters with a flush notification | `tick`, `calc_next_prio`, `fill_frames`, `fill_next` | users push from any thread while it runs; a message is sent in pieces over several ticks; a counter that only ever grows; redundant views of the queues guarded by `expect`/`unwrap` | the views agree; a flush is reported exactly when nothing is left; messages of a priority do not mix; every priority gets its share |
| `BParticipant` (`participant.rs`) | Streams, `close_rx`, messages under reassembly, channel, shutdown info, running managers | `open_mgr`, `send_mgr`, `send_frame`, `stream_close_mgr`, `handle_frames_mgr`, `create_channel_mgr`, `participant_shutdown_mgr` | interleaving of the managers; CloseStream racing data and OpenStream; the channel ending between any two steps; shutdown told to one manager after the other | what a Stream promises (ordered, exactly once, an orderly end delivers everything); no Stream leaks; `disconnect` flushes, returns, and tells of losses |
| `Participant`, `Stream` (`api.rs`) | `mid`, `send_closed`, receive queue | `open`, `opened`, `send_raw`, `recv_raw`, `Drop`, `disconnect` | used from threads other than the task's; dropped at any time | a send after the end fails, a drop closes |
| `Channel` (`channel.rs`), protocols (`protocols.rs`) | a socket, `cfg` of the handshake | `setup`, `frame_handler`, `run`, `read_from_wire`, `write_to_wire` | reading and writing are raced by `select!`: when one ends the other is dropped with its queue | frames arrive in order; the handshake leaves both sides agreeing and loses nothing |
| `Scheduler` (`scheduler.rs`) | participants, listeners, the shutdown flag | `listen`, `connect`, `disconnect`, `init_protocol`, `shutdown` | handshakes race each other and the shutdown; disconnects run one after the other | one participant per remote id; shutdown returns and leaves none behind |
| `types.rs`, `metrics.rs` | ids and promises; counters | – | – | ids of the two sides never collide |

### 1.2 The server and the shared simulation

| part | state | operations | hard behaviour | what makes it correct |
|---|---|---|---|---|
| groups and invites (`common/src/comp/group.rs`, `server/src/events/group_manip.rs`, `server/src/sys/invite_timeout.rs`) | `GroupManager` slab, `Group`, `Invite`, `PendingInvites` components | invite, accept, decline, leave, kick, assign leader, new pet, entity deleted, timeout | long sequences of legal calls by several entities; an accept racing a timeout, a leave, a logout; slab ids reused | `num_members` equals the members; a leader is in the group it leads; sizes stay below the limit; no component names a group that is gone; Invite and PendingInvites agree |
| chunk generation and streaming (`server/src/chunk_generator.rs`, `server/src/sys/terrain.rs`, `terrain_sync.rs`, the terrain part of `client/src/lib.rs`) | chunks loaded on the server, pending chunks, jobs of a thread pool, a result channel; a client's chunks and what it waits for | request, generate, cancel, receive, send, unload, reload assets; ask, give up, drop | threads that finish after a cancel, or after a second request for the same chunk; one request answered for several askers, or for none; players who move on or leave meanwhile | who wants a chunk gets it; a chunk that nobody is near goes; no entry is left that swallows requests |
| sessions (`server/src/sys/message.rs`, `server/src/login_provider.rs`, `server/src/events/player.rs`) | a client's state, accounts in use | register, character select, exit in game, disconnect, timeout | messages in the wrong state; disconnect twice in one tick; an answer of the database for an entity that is gone | an account is held by at most one client and freed when it leaves; nobody plays a character that is not its own |
| persistence (`server/src/persistence`) | loader and updater threads, one SQLite file | load, create, delete, batch update | an update of a character racing its load on another thread; the limit checked apart from the creation; a crash with queues unwritten | progress is not taken back; the limit of characters holds |
| regions and entity sync (`common/src/region.rs`, `server/src/sys/subscription.rs`, `entity_sync.rs`) | `RegionMap` with an index-linked neighbour table, subscriptions, trackers of changes | tick, insert, remove, subscribe, sync | indices moved by `swap_remove`; an entity crossing a border in the tick it is deleted, its id in other hands when events are read; subscriptions changing in the same tick | a client knows exactly the entities of its regions, and everything in its view distance |
| uid allocation and state packages (`common/src/sync`) | uid map, tracked changes | allocate, apply | the client applying changes to an entity it has deleted | the two worlds converge |
| event handlers, commands, state glue (`server/src/events`, `cmd.rs`) | ECS components | one function per event | order of events within a tick | game rules |

### 1.3 Sequential or numerical parts

Components, inventory, character states and the per-tick systems of `common/src`; terrain
volumes, path finding and utilities; `world` (erosion, civilisations, noise); `voxygen`
(rendering, audio, UI); `server-cli`, `chat-cli`, tools and assets. They have no interleaving to
explore, or only floating-point and large data that TLC cannot enumerate. They are listed as
`not_modelled` with the reason (of the terrain volumes, the map of loaded chunks is in `Chunks`). The
`client` library is the other end of sessions, of entity sync and of terrain and is modelled with them as far as these go.

## 2. Modules

| module | models | state and actions in the code |
|---|---|---|
| `PrioCosts` | the table `PRIOS`, `calc_next_prio`, the charge `points[prio] += PRIOS[prio]` as a word that wraps at `PointsMod` | `NextPrio`, `Charge`, `NoPoints` are pure operators shared by the next two modules |
| `PrioShares` | `fill_frames` seen as a server of priorities | a priority is the number of frames it has waiting; `served` and `steady` are history variables |
| `Prios` | `PrioManager`, `fill_next`, the flush dialogue with `stream_close_mgr`, `Stream::send_raw` and `Drop` | one action per loop iteration of `tick` and `fill_frames` (`FetchMessage`, `FetchFlushRequest`, `FillFrame`, `FillEmpty`, …), because users push in between; `pc` is where `fill_frames` is |
| `FrameSource` | the abstract specification of `PrioManager` for the managers that use it | `waiting` messages and which is `ahead` of which, flushes `asked` and `answered`, frames `filled`; no channels, queues, counters or ticks |
| `StreamPromise` | the abstract specification of one direction of one Stream | `sent`, `received`, `ended`; only `Send`, `Receive`, `End` steps are allowed |
| `Transport` | two `BParticipant`s, their users and the channel between them | one action per handler: `Open`, `Send`, `DropStream`, `SendNextFrame`, `BeginClose`/`FinishClose` (before and after the awaited flush), `HandleFrame` with one operator per frame type, `ChannelEnds` |
| `Disconnect` | one `BParticipant` from open Streams to the end of all its managers | `BeginSend`/`EndSend` (the test of `send_closed` and the push), `CallDisconnect`, the signals of `participant_shutdown_mgr`, `SendMgrTick`, `BeginClose`/`FinishClose`, the ends of all managers, `Reply` |
| `Groups` | `GroupManager`, the group events, the invite timeout, and what changes their state from outside | one action per handler: `Invite`, `Accept`, `Decline`, `InviteTimeout`, `Leave`, `Kick`, `AssignLeader`, `Tame`, `Delete`, `ExitIngame`, `EnterGame`; the methods of `GroupManager` are operators from one state of `groups` and `slab` to the next |
| `Regions` | `RegionMap` | operators from one map to the next: `AddEntity`, `InsertRegion`, `RemoveIndex` (the `swap_remove` and the remapping of neighbours after it), `TickRegions`; `NeighborsMatch` and `TrackedOnce` say when a map is sound; `RegionsInRange` is `regions_in_vd` |
| `EntitySync` | entities of the server, the region map they are in, the subscription of one watched client and its copy of the world | what may happen in the world between two ticks (`Create`, `Move`, `Change`, `Delete`, `EnterGame`, `ExitIngame`), then one action per system of the tick: `UpdateRegions` (`State::update_region_map`), `Subscribe` (`sys/subscription.rs`), `Sync` (`sys/entity_sync.rs`); `Loaded` is `initialize_region_subscription` |
| `Characters` | `CharacterLoader`, `CharacterUpdater` and the database | a queue of requests, of answers and of saves; `LoaderStep` one transaction at a time, as the limit is checked over another connection than the one that creates; `BatchUpdate`, `LoadFails`, `BatchFails` |
| `Sessions` | clients from connection to disconnect, accounts, events, the tick; EXTENDS `Characters` | one action per message sent (`Register`, `RequestCharacter`, `Close`, …), per handler (`HandleRegister`, …, `NothingHeard` for an error or timeout), per event (`HandleInit`, `HandleUpdate`, `HandleExit`, `HandleDisconnect`), `RunSystems`, `EndTick`; `Kill`, `Panic`, `Restart` |
| `Chunks` | `ChunkGenerator` and its threads, `sys/terrain.rs`, `sys/terrain_sync.rs`, chunk requests, reloaded assets, and the clients' chunks | the server's tick in three phases: `HandleRequest`, `HandlePhysics` (messages that have arrived), `ReceiveChunk`, `Unload` (`sys/terrain.rs`), `GenerateChunk`, `Leave`, then `EndTick` or `Reload` with `SyncTerrain`; `Finish` for a thread; `TakeChunk`, `ClientTick`, `Move`, `Expire` for a client |
| `Prios_proofs`, `PrioShares_proofs`, `Transport_proofs`, `Disconnect_proofs`, `Groups_proofs`, `Sessions_proofs`, `EntitySync_proofs`, `Chunks_proofs` | – | theorems and proofs |
| `MC*` | – | the values of constants for TLC |

`Prios` is the detailed model of the stage that `Transport` and `Disconnect` abstract:
`Transport` takes from it that frames leave a priority in order and unmixed (`NoMixing`) and
that a flush is answered when nothing of the Stream is left (`FlushIsComplete`); `Disconnect`
additionally that it is answered at all (`EveryDropFlushed`) and within the tick that fills the
last frame. `FrameSource` says the first two and the last in a specification without any of `PrioManager`'s
machinery, which `Prios` implements (`ServesInOrder`). `PrioShares` looks at the same loop over a long time, with nothing but the points.
`EntitySync` puts the operators of `Regions` between the systems that write positions and those
that read region events. `Sessions` composes the main loop with the two database threads of
`Characters`, which work in between any two of its steps.

Abstractions. A payload is the number of data frames it needs. The byte encoding of frames, the
log and the metrics are left out. A TCP channel is a FIFO that may end with any prefix of what is
in flight delivered; UDP, which the code marks as unfinished, is not modelled.
A participant has one channel: `create_channel_mgr` can take more, but `init_protocol` refuses a
second connection of the same remote. `Frame::Shutdown` is only sent when a handshake fails
(`channel.rs:353`), so a running participant never gets one from a correct peer.
In `Groups` an entity is a model value; the components that matter are its Group, Alignment,
Invite and PendingInvites, and that it has a Client. Handlers run one after the other in the
server's main loop, so each is one step, and the order is free. The code of taming is that of
the collar, of deleting that of `delete_entity_recorded`. Enemies and tame villagers decline every
invite and so never get into a group; possession (a debugging aid) and notifications are left out.

In `EntitySync` an entity is an id of the allocator, which gives out the lowest free one, and a
Uid, which is given once. A message to the client is its effect on the copy: what it knows and
what of that is out of date. Positions are places in a plane, whole and not negative
(`subscription.rs:88` divides as integers and so rounds the chunks of negative coordinates towards
zero; this only moves the border where a subscription is renewed). Physics of far entities is
sent every few ticks on purpose (`entity_sync.rs`), so that only the other components count as
changed. A client that leaves the game does not come back in the same tick. Nobody looks at
region events after `Sync`, so that they are cleared there and not at the start of the next tick.
`Spectate`, which the client library never sends, would let a subscription be replaced by a second
`initialize_region_subscription` without the entities of the first being deleted.

In `Sessions` an entity is the client that it belongs to, or `Nobody` once it is deleted (the
generation of its id has passed). A character is its owner and one number, its progress: the
statements of one update, of which a failing one is only logged, could in the code leave parts of
a character behind. A server that is full is a connection that does not come. An id of the
database is given out again when it was the highest (there is no AUTOINCREMENT). Left out:
`Spectate`, the auth server, and that the loader thread itself panics when the database cannot be
opened (`persistence/mod.rs:47-48`); a request that fails is one that finds it locked.

In `Chunks` a chunk is the version of the assets it was generated from, and places are the chunks
that players are in the middle of; all distances are computed as the code does, the one with a
root over the squares. A job knows whether `pending_chunks` still has its own entry (`listed`) and
whether its flag is set (`cancel`). A thread looks at the flag column by column, and at nothing
once the last is done, or for a chunk outside of the world: a cancelled job may end either way.
`HandlePhysics` takes a place as the code does, for a living character without a forced update.
The chunks of a ring are asked for in any order, those of nearer rings first; a place that the
server will know already is not sent again. Players do not come back once they have left, and all
have the same view distance. When assets are reloaded "no clients" means no players. Left out are
the NPCs that come with a chunk, block edits, and `clear_terrain` of the client.

Messages of zero bytes are in the models as `Sizes` allows, but the runs of `Prios` and
`Transport` take 1 and 2: a message without bytes is finished before its header went out
(`message.rs:68`), so it never arrives and `KeepsPromise` does not hold for it. The data of a message is
what `lz4_compress` makes of a serialised value (`message.rs:36-42`); whether that can be without
bytes, for a value like `()`, is up to that library and left open.

## 3. Runs

| run | question | instance and why it is enough |
|---|---|---|
| `prio_shares` | do two priorities with work get equal charges, i.e. shares inverse to their cost? | priorities 0, 5, 10 at real costs, 12 frames counted: cost 100 against 200 against 400 makes every order of three counters appear several times over |
| `prios` | do the redundant views agree, are flushes complete and inevitable, do frames keep their order? | two Streams of one or two priorities, two messages each of one or two frames, two iterations per tick: a message is left half sent, competes with a second one, and a flush waits over ticks |
| `transport` | do two participants keep the promise of a Stream while it is closed from either side, does everything sent arrive, and does no Stream leak when the channel may end at any moment on either side? | three scenes: two Streams with a message of two frames each on a channel that lasts; one Stream with a message each way; one with two messages of one or two frames after each other; the last two on a channel that may end: a CloseStream overtakes or is overtaken by frames of its own and of the other Stream, and both ends come first |
| `transport_prios` (violation) | the promise with two priorities | two Streams, one message of two frames each |
| `disconnect` | does `disconnect` flush what was sent before it, report losses, and return when one Stream at most is left to close? Can the `unwrap` of a flush request fail? | two Streams with two messages, two frames per tick, a channel that may break |
| `disconnect_hangs` (violation) | does `disconnect` return however many Streams are left to close? | two Streams with one message, one frame per tick, a channel that lasts; both are dropped before the shutdown |
| `groups` | do groups and invites stay consistent, and groups within their limit, through any sequence of events? | three players, or two and a villager; an animal to tame; an entity to come back as; limits of two and three: everyone can invite, be invited, lead and have a pet, and the limit is reached with invites out |
| `entity_sync` | is a client's copy of the world exact, and the region map sound, whatever moves, changes, dies or is reborn, and wherever the client goes? | the client and one or two others (a player, NPCs) on places at a corner where four regions meet, in a row across a border and far away; two events between ticks, so that an entity moves and dies, or another gets its id, in one tick |
| `entity_sync_missed` (violation) | does a client have every entity of the regions it subscribes to? | the same |
| `sessions` | are accounts held by one client and freed, does everyone play its own character with its progress kept, does the limit hold, and does whoever asks for a character get in or back, with databases that fail and servers that die? | four scenes of one or two players and connections, with one character each at most; a character saved, deleted and created under the same id, or played from a second connection while the first ends; one fault where one player is alone |
| `sessions_panic` (violation) | is an event ever for an entity that is gone? | the same |
| `chunks` | does everybody get the chunks they want, does what is far go, and is everything made anew after a reload, whatever jobs were cancelled or answered to others? | four scenes of two chunks: one player who walks away and back; one who walks while assets are reloaded; one who wants both chunks and may wait for one; two players who want the same; everybody may leave. A result of a cancelled job is received after, before and instead of that of a newer job for the chunk |

Bounds are constants named in the configurations: `Sizes` (frames per message), `FramesPerTick`
(iterations of `fill_frames`; the code has 10000 on a tick of 10 ms), `MaxBacklog` and `MaxServed`
(frames waiting and counted per priority), `MaxGroups` (entries of the slab; it only stops TLC), `MaxMessages` of `Prios` and `Disconnect` (messages per
Stream). `Transport`, `EntitySync` and `Sessions` have `Scenes`: a behaviour starts in one of
them, and it names the Streams, messages and breaks, the places and others, or the rows,
players, connections and faults there are; several small instances that each let one thing vary
take the place of one that would not end. `EntitySync` has `MaxId` 3 and `MaxUid` 3 entities at a
time and ever, `MaxEvents` 2 between ticks, regions of 16 blocks with a tether of 1 (512 and 16
in the code), chunks of 2 and a view distance of 1, so that a region, its tether and the fuzz of
the subscription keep their order of size. `Sessions` has three ids of characters, one request and one save
waiting (`MaxRequests`, `MaxSaves`; the queues are unbounded in the code, and what a request has
to wait for, or be overtaken by, is there with one of each kind), one step of progress,
a limit of one character and two messages of a client on their way. `Chunks` has a view distance of 1, `MaxPending` 1 (4
in the code, so that a client that waits for nothing is stuck at once), `MaxSent` 2 messages to and
from a client that are not answered (streams are unbounded in the code; a client that waits for
them just ticks later), `Stride` 1 (every loaded chunk is looked at in each tick and not in every
sixteenth, which only delays `Unload`; the proofs are for any), and the moves and reloads of a scene. Every
counter of the models other than those is bounded by them. Deadlock is checked where the
system cannot stop (`prios`: the tick goes on for ever); the others end when their users have no
calls or bounds leave nothing more to do, or when the participant is gone.

### What the runs check

* `WeightedShares`: the doc comment of `prios.rs` promises that five steps of priority halve the
  throughput. It holds while no counter wraps, for priorities that have had work since the
  counters were last cleared. A priority that falls idle and comes back is charged from where it
  was: `steady` leaves it out, and the doc comment says nothing of it. When a counter wraps
(`prios.rs:231`, a `u32`; a debug build panics) a priority whose points stay high may starve for as
  long as another has work: read from the code, not run, and excluded by `NoWrap`.
* `Bookkeeping`: `queued`, `sid_owned` and the queues agree; the `expect` and `unwrap`s of
  `fill_frames` rest on it. `FlushIsComplete` and `FlushedInFull`: a flush is reported after
  the last frame. `NoMixing`: the frames of one priority are a sequence of whole messages, those of
  a Stream in the order sent: a frame continues the message of the one before, or that is complete
  and the frame starts the next message of its Stream.
  `EveryDropFlushed`: every dropped Stream is flushed in the end, however much is queued.
* `ServesInOrder`: `Prios` implements `FrameSource`, so that what `Transport` and `Disconnect` put in the
  place of `PrioManager` is what it does: messages of one priority form a line, first come first
  served in the order of `Stream::send` (those not fetched yet included), one that is begun stays at its
  head, a flush is answered once nothing of the Stream is left, and with the last message
  if it was asked for before. Which priority comes next is open there; `WeightedShares` is about that.
* `KeepsPromise`: `Transport` implements `StreamPromise` for every Stream and direction: what is
  received is a prefix of what was sent, and an orderly end by the remote side (its CloseStream)
  comes only after everything that it had sent. `EveryMessageArrives` and `NoStreamLeaks` are
  the liveness half, for Streams whose channel does not end, or ends, respectively.
* `FlushCoversDue`: when the PrioManager is dropped, everything accepted before the disconnect
  has left it. `LossIsReported`: `disconnect` does not return Ok when a frame found no channel.
  `NoPanic`: no flush is asked of a PrioManager that is gone (the `unwrap` of `participant.rs:680`).
  `ReturnsWithOneClose`: `disconnect` returns if at most one dropped Stream is left to close when
  the managers are told to end and `send_mgr` has not noticed yet. With two it may not:
  `DisconnectReturns` is violated (see the findings).
  That Ok means *written to the socket*, as `api.rs:558-559` can be read, does not hold:
  frames still queued in the channel are dropped with it when `select!` ends on the reading side.
  It depends on scheduling and is described here, not checked as a finding.

* `Intact`: every Group component names a group of the slab, a group has at least two entities,
  its leader is in it and not a pet, `num_members` is the number of members who are not pets, and
  pets are in the group of their owner (a player alone with its pets is a group of one).
  `WithinLimit`: no group outgrows `max_player_group_size`,
  although the size is only tested when an invite is sent. `InvitesAgree`: an entity has an Invite
  from another exactly if that one has it among its PendingInvites.

`Intact` and `WithinLimit` do not hold without condition. Four events break them, each shown by TLC
when it is let happen; the history variable `irregular` remembers that one did, and the
constant `Followed` says which may happen in a run:

* "absent member": a player in a group exits to the lobby. Its new entity has no Alignment, so
  `members` does not find it: `remove_from_group` takes one counted entity for the leader alone
  (`group.rs:490-495`) and frees the group while a member in the lobby still has it (`NoneDangling`,
  a conjunct of `Intact`, is what then fails).
* "pet leads": `AssignLeader` may name a pet, which `Kick` refuses to.
* "pets left behind": somebody with pets, who is in a group but does not lead it, invites. On the
  accept `leave_group` makes a group for it and its pets, and `add_group_member` then makes
  another one for it alone.
* "invites out": leadership goes to somebody with invites of its own out. They were counted
  against a group of one, and bring the group above its limit when they are accepted.

The first three are not followed in `groups`, since a state after them says nothing about
the rest of the code. The fourth is, and excuses only `WithinLimit`.

Facts that follow from the code and that nothing in the repository contradicts, so that they are
no finding: the slab keeps an entry for ever when somebody with pets, who is in a group, accepts an
invite (the group that leaving makes for them is overwritten at once); an Invite
whose inviter was deleted or went to the lobby never times out, and `group_manip.rs:110` refuses
every other invite to that player; a deleted invitee stays in the PendingInvites of its inviter
and takes a place of its group.

* `RegionsAgree`: the neighbours of a region, kept as indices into a map from which regions are
  removed by swapping the last one in, are the regions beside it, and an entity is in one region.
* `MirrorIsExact`: after every tick the client has the entities of its regions, nobody else, and
  nothing out of date; the history variable `missed` names the ones of the finding below, which
  it may lack. `SeesAllInView`: whoever is in the view distance is among them, although the
  subscription is from the last chunk the client left, entities are a little outside of their
  regions, and the client may be so itself. (The doc comment of `TETHER_LENGTH` says how far
  outside its region an entity may be; the code measures from the region's lower corner, so that
  an entity keeps a region it has left only while it is that close to that corner.)
* `AccountsMatch`: an account is logged in exactly while one client has it. `ClosedIsFreed`:
  a client that is gone is noticed and gives its account up. An `Exit` and a `Disconnect` of the
  same entity in one tick lose the disconnect, as the entity it names is replaced: the next
  timeout or error of the connection catches up, and the property needs that it does.
* `PlaysItsCharacter`: what is played, and saved, is the character that the client's Player
  names, and its own. `CharacterLimit`: the limit holds although it is checked apart from the
  creation; it is the one loader thread that keeps two requests from passing together.
* `NoRollback`: a save never puts older progress over newer, but for a character that was
  read while its last save waited: loads and saves have separate queues, and a player who comes
  back quickly goes on from older data. `raced` remembers these.
* `EntersOrReturns`: whoever has asked for a character is let in, or told to choose again.

* `NothingSwallowed`: `generate_chunk` does nothing for a chunk with an entry in `pending_chunks`, so
  whoever asks then relies on the job behind the entry. There always is one that is not
  cancelled, or a result that will remove the entry, although results of cancelled jobs remove the
  entries of later ones (`chunk_generator.rs:63`).
* `ChunksCome`: who stays gets every chunk it wants in the end. A refusal goes to the first asker
  of a job and nobody else, requests out of range are not answered, and a client that has four
  requests out asks for nothing: it is the three seconds of `client/src/lib.rs:1067` that bring it on.
* `FarChunksGo`: a chunk that nobody is near is unloaded and its job cancelled, also when the
  result of the job comes after they left. `Renewed`: after a reload of assets each loaded chunk is
  generated from the new ones or unloaded; it rests on `cancel_all` emptying `pending_chunks` first.

Facts about chunks that contradict nothing in the repository: a request is looked up before the
results of the tick are taken in, so that a chunk loaded in between is generated a second time, its
edits lost and its NPCs there twice (`message.rs:325`); after a reload a result from the old assets that is received
last stays loaded; a chunk on its way to a player who goes away and
comes back may be unloaded by the server meanwhile, and the client keeps it.

Facts about sessions that contradict nothing in the repository: a name that is not valid
(`Player::is_valid`) is logged in before it is looked at and stays so for ever, and the client,
which takes no `Impossible` in `register`, waits for ever too; leaving the game by `ExitIngame`
saves nothing since the last interval; a save that comes late can reach a new character with the id
of a deleted one; a creation or deletion that fails is told to the client and nothing else.

### Fairness

The managers of a participant are futures of one task under `join!`; the executor polls a task
that was woken, and `join!` polls every future in it. So a manager that can go on does, which is
weak fairness per manager (`Transport`), or of the whole task (`Disconnect`). `send_mgr` calls
`fill_frames` on a timer without end (weak fairness of `FillFrames`). In `Prios` the steps of
`stream_close_mgr` are only enabled between two ticks, and enabled again after each of them,
hence strong fairness there. In `Disconnect` the timer of `send_mgr` (10 ms) fires only when no
other manager can move: `join!` runs them all before the task sleeps; and a channel told to stop
reading ends. Nothing is assumed of users, of the socket or of a breaking connection.
In `Sessions` the main loop ticks as long as it runs, with all that a tick does (weak fairness of
`Tick`: messages that have come, connections that have ended, systems, events, answers), and the
loader thread loops over its queue (weak fairness of `Loader`). In `Chunks` the main loop goes on
(weak fairness of `ServerStep`), the first job of every chunk ends (weak fairness of `Finish(c, 1)`:
the thread pool works through its queue), a client ticks, takes what it is sent, and its three
seconds pass. A message is handled in the first phase of a tick only and the phase may end before it
has arrived, so that its handling is enabled again and again: strong fairness says that it arrives.
Nothing is assumed of moves, exits or reloads. Nothing is assumed of the updater,
of clients, or of the server being started again.

### Findings

* `transport_prios`: `handle_frames_mgr` keys reassembly by `mid` alone (`participant.rs:389`), and
  every Stream counts from 0: messages of Streams of different priorities overwrite each other.
* `disconnect_hangs`: `stream_close_mgr` closes one Stream after another; with two drops before a
  shutdown `send_mgr` can end after the flush of the first and before it has fetched the request of
  the second. The wait at `participant.rs:681` is then for ever: the request lies in a channel of
  crossbeam-channel 0.4.2 (`network/Cargo.toml:22`, `Cargo.lock:869`), which drops what is queued only
  with its last end, and that end belongs to the waiting `stream_close_mgr`, so the answer is neither
  sent nor canceled. The loop at `participant.rs:608` does not end, `disconnect` does not return, and
  `disconnect_mgr` (`scheduler.rs:283`) does not get to any other participant. With a version that drops
  queued messages with the receiver, the `unwrap` of the canceled answer would panic instead.

* `entity_sync_missed`: an entity that enters a region of the client from a region that the client
  subscribes to in the same tick is sent by neither system: it was not there when `subscription.rs`
  sent what the new region holds, and `entity_sync.rs:137` takes it for known. The client does not see it
  until it leaves for a region outside of the subscription.
* `sessions_panic`: the answer of the loader becomes an event for the entity that asked
  (`lib.rs:474-500`), which may be gone by then; `update_character_data` expects its Uid
  (`state_ext.rs:217`), and the server panics.

Read but not turned into a run: `prios.rs:232-233` says a message is pushed back so that all of a
priority get a fair chance, line 255 pushes it to the front (which `NoMixing` needs);
`open_mgr` unwraps the answer to a user who may have dropped the `open()` future
(`participant.rs:557`); the wrapping points of `fill_frames` above; `new_pet` takes the group of an
owner as it is, also the pseudo groups of NPCs and enemies, which have no `GroupInfo`
(`group.rs:283`).

## 4. Proofs

`Prios_proofs` proves of `Spec` of `Prios`, for every set of Streams and priorities, every cost
table, all sizes, numbers of messages and frames per tick:

* `TypeCorrect`: `[]TypeOK`. Appending and removing at the head of sequences, `PutBack`, and
  points that stay below `PointsMod` for any cost.
* `BookkeepingAgrees`: `[]Bookkeeping`. `len[s] = Cardinality(Waiting(s))` is not disturbed by
  steps of other Streams; the lemmas `AppendCounts`, `TailCounts` and `PutBackCounts` say how the
  positions of a Stream in a queue change when a message is appended, removed or put back
  (the positions after a Tail are a bijective image of the positions before it).
* `FlushesAreComplete`: `[]FlushIsComplete`. This is not inductive: a Stream may be flushed only
  because it was dropped, so nothing is sent on it any more, and because its flush request is
  looked at after all its messages were fetched. `FlushOrder` says so: everything that is
  closing, in `flushed_rx`, waiting or flushed is dropped, and once `pc` has passed the fetching
  of messages no message of a Stream with a request taken is in `messages_rx`.
  `IInv == TypeOK /\ Bookkeeping /\ FlushOrder` is inductive.
* `MessagesStayTogether`: `[]NoMixing`, and `FlushedIsFilled`: `[]FlushedInFull`. `FrameOrder` adds that the messages
  of a Stream wait in the order of their mids, first those in a priority's queue, then those in
  `messages_rx` (`MidsInOrder`), that only the first of a queue is begun and what is filled of it ends
  the frames of its priority (`QueueShape`, `Reassembly`), and, where every message has a frame,
  that each mid is either filled whole or waiting (`Accounted`).
* `PrioManagerServesInOrder`: `ServesInOrder`, the refinement of `FrameSource`. A message is known by its sid and
  mid; `Ahead` is the order of the queues and of `messages_rx` in terms of those, with what is queued
  before what has yet to be fetched. Fetching only moves a message (`SourceUnmovedByFetch`), the head of a
  queue is behind nobody (`HeadIsAlone`, from `MidsInOrder`), and `AskedOnce` adds to `IInv` that a Stream is in
  one place on the way from `close_rx` to `flushed`, once, and that no request is left in
  `flushed_rx` while frames are filled.

`PrioShares_proofs` proves `TypeCorrect` and `SharesAreWeighted`: under `NoWrap` and
`MaxServed > 0`, `[]WeightedShares`. The invariant is that the points of every priority are its
served frames times its cost (`PointsAreServed`) and that of two steady priorities each has at most
one charge of its own more than the other (`PointsClose`), which is what choosing the fewest
points preserves.

`Transport_proofs` proves of `Spec` of `Transport`, for any set of Streams, numbers and sizes of
messages, and with the channel ending on either side at any moment:

* `TypeCorrect`: `[]TypeOK`. What is being put together is never complete, as a header never
  announces an empty message (`ProperFrame`).
* `StreamsKeepPromise`: `KeepsPromise`, the refinement of `StreamPromise`, and `PrefixReceived`:
  `[]ExactlyOnceInOrder`, if all Streams have one priority (`OnePrio`) and no message is empty
  (`NoEmptyMessage`). Both hypotheses are needed: of two priorities the run `transport_prios` shows what
  goes wrong, and an empty message is never sent. The invariant describes how far the receiver of a direction
  has got (`Progress`: the Stream of the message being put together, the frames there are of it, the
  messages of each Stream that are complete, the Streams opened). `Reached` ties this to its state, `Brings` says that
  the frames on their way lead from there, each fitting what precedes it, to where the sender's queue
  goes on (`Sending`, `Queued`). When the channel has ended only the last part is given up: a prefix
  of what was sent still leads somewhere (`Flow`). `Users` adds that who is asked to close a Stream has dropped
  it, so that `CloseStream` comes after all messages. Each handler is one lemma (`SendFlows`, …, `HandleFlows`), the
  receiver's also says which step of `StreamPromise` it is (`Received`).

`Disconnect_proofs` proves of `Spec` of `Disconnect`, for any number of Streams, messages and frames per
tick: `TypeCorrect`, `DueIsFlushed`: `[]FlushCoversDue`, `LossesAreTold`: `[]LossIsReported`, and `UnwrapHolds`: `[]NoPanic`. The
invariant `IInv` adds that the stages of the shutdown follow one another (`StagesInOrder`: the signals
are given after the request, `send_mgr` closes up after its signal and ends only drained), that a
drained tick has seen what was due, which no longer grows by then (`DrainedCoversDue`), that
the error of a lost frame stays until it is told (`LossLeavesError`), and that once `send_mgr` is gone
`stream_close_mgr` has ended too or waits for good (`NothingLeftToAsk`): both are told to end
together, and the timer of `send_mgr` leaves the other managers the time to (`OthersIdle`).

`Groups_proofs` proves of `Spec` of `Groups`, for any number of entities and groups:

* `InvitesAreKept`: `[]InvitesAgree`. It needs that a
  deleted entity has lost both components (`GoneIsClean`) and that an entity which never existed is
  named by none (`UnbornIsUnknown`), or the entity that `handle_exit_ingame` creates could be taken
  for one that was invited. The lemma `StepOfInvites` reduces the
  eleven handlers to four effects on invites: sent, taken back, the entity gone, or replaced.
* `TypeCorrect`: `[]TypeOK`, through irregular events too. The slab has room for any new group, as the
  keys in use are finite (`Vacant`).
* `GroupsStayIntact`: `[]Intact`. The operations of `GroupManager` are proved one by one to keep
  `Sound(w, A)` for the entities `A` that matter: every group is well formed (`AllFine`), pets
  follow their owner, kinds and groups fit. A handler composes them, and in between only the
  entities in `A` are right: who is to be deleted, or has just been taken out, is not one of them.
  `Cast` says what the handlers rely on about who invites, owns and is a client.
* `GroupsStayWithinLimit`: `[]WithinLimit`. Inductive is that the group somebody leads and the invites that
  this one has out fit into the limit *together* (`Fits`); `Shrinks` and `Grown` say how leaving and
  joining change sizes. Somebody who has invites out and is made leader breaks `Fits`: "invites out".

`Sessions_proofs` proves of `Spec` of `Sessions`, for any number of accounts, characters and
connections, every limit, all bounds and any number of faults:

* `TypeCorrect`: `[]TypeOK`, for which what waits in a queue has to be about a client or nobody,
  and the answers of the loader have to be rows that were there.
* `LimitCorrect`: `[]CharacterLimit`. `LimitInv` adds `Pending`: once the limit has been checked the
  request is still the first of the queue and its owner is below the limit, as deletions
  are requests like it and only the loader adds rows.
* `AccountsCorrect`: `[]AccountsMatch`. `AccountsInv` adds that a client with a player is there
  (`PlayersKnown`), that events name clients that exist or nobody (`EntitiesKnown`), and
  that a message to register is the first a client has sent and comes before it has an account
  (`RegisterFirst`).
* `CharactersArePlayed`: `[]PlaysItsCharacter`. `PlayInv` follows a choice from the message that makes it to
  the data that is played: a client asks once (`Choice`), a load, its answer and the event after it
  are for the character that its owner chose (`LoadsFit`, `EventsFit`), and no deletion comes between.
  Rows are never taken from their owner (`RowsStay`), and an id given out is not in use (`NextIdFresh`).
* `SavesNeverGoBack`: `NoRollback`, an action property. What a client holds of a character is an answer, an
  event or played data. `SaveInv` says that it is only one of these, and that no other load for
  the player waits then (`OnePath`); what is held is not behind the database or any save that
  waits (`Floor`); and waiting saves of a character rise (`SavesRise`), each but for characters
  that `raced`. As a character is held by its owner's client only (`OneHolding`), what is saved is
  at least as far as everything saved before. Most steps bring a client nothing new (`Thin`).

`EntitySync_proofs` begins with the operators of `Regions`, for any number of regions and entities.
`Sound` says that keys differ and that the neighbours of a region are those beside it
(`NeighborsMatch`). `EntityComes`, `EntityMoves`, `EntityGoes` and `RegionGoes` say that the four
things `tick` does to the map keep it `Sound` with every entity in one region (`TrackedOnce`), and
what regions then hold and say. The argument replaces the search for a key by the indices
themselves (`Exact`): that opposite directions pair up makes being neighbours mutual (`Mutual`), so
that telling the neighbours of the last region its new index, and those of the removed one that it
is gone, reaches everyone who names either (`Shrunk`, `OneLess`).

* `RegionsTick`: the whole of `TickRegions`. Its loops are folds of the community modules over
  sequences; `FoldExists` and `FoldIsRun` turn each into a sequence of states in which the next
  comes from the last (`IsRun`). The library's induction theorems cannot be used (they take
  an operator), but its well-foundedness of the natural numbers can: `Climb` says that what holds of 0 and is passed on holds up
  to n, as there would be a least counterexample. Sorting is shown to be possible and unique enough in the
  same way (`CanBeSorted`, `IdsInOrder`, `FoundInOrder`). Taking the moves in reverse and the
  removals after them matters, as pairs name a region by its index: regions are only added meanwhile (`Kept`).
  What comes out is `Settled` for every entity: it is held where it is to be and nowhere else, the region
  where it was says that it has left and where to, the one where it is that it has entered, from
  there or from nowhere (a region made for an entity does not learn where that comes from).
* `TypeCorrect`: `[]TypeOK`, and `RegionsStayInAgreement`: `[]RegionsAgree`. Inductive is `Base`: with the
  map `Sound` at all times, a Uid has one holder, and one noted as deleted has none or that of a
  new connection, which is nowhere yet (`Unique`; `handle_exit_ingame` hands a Uid on and notes
  it as deleted at once).
* `ClientsCopyIsExact`: `[]MirrorIsExact`. `Copied` says for every phase of a tick what the client
  has: between ticks what is tracked in its regions but for deletions it has yet to be told of and
  new entities (`Mirrored`); after the map is updated, what *was* there (`Updated`, with the old
  places as a witness); after `Subscribe` perhaps too much, and of what it lacks a region says
  that it has entered from one out of sight (`Awaiting`). `SyncIs` and `SentIs` then say what the
  messages of all regions do together, in whatever order these come: no Uid is both in those
  that add and in those that remove, as a deleted Uid is held by nobody who is tracked, and who left for a region
  out of sight is not in one in sight. That the client's own components are up to date needs that it
  sees the region it is in, which is geometry.
* `AllInViewIsSeen`: `[]SeesAllInView`. A client that has not been found to have left its chunk is within
  a chunk and the fuzz of where it subscribed (`StaysClose`), on either axis; an entity is in its
  region or within the tether of its corner; `InSight` adds this up along both axes and `Diagonals` compares it with the
  view distance and the diagonal of the slack, as `region_in_vd` does. That the comparison is strict rests
  on two having no root among the fractions (`NoRootOfTwo`).

`Chunks_proofs` proves of `Spec` of `Chunks`, for any set of chunks, places, scenes, view distance and
number of clients, `TypeCorrect`: `[]TypeOK`, and `RequestsAreWaitedFor`: `[]NothingSwallowed`. The invariant adds
`Gone`: a client that has left sends nothing, and one that is there is somewhere. Types need that what `SetToSeq`
makes of a finite set is a sequence over it (`SeqOfSet`). `NothingSwallowed` is kept as an entry goes
with the listing of its jobs (`CancelKeeps`), a new entry comes with a job (`NewIsListed`), and a
job that ends leaves a result for the entry (`FinishKeeps`).

The assumptions are the ASSUMEs of the modules (`PrioAssumption`, `StreamAssumption`,
`SharesAssumption`, `TransportAssumption`, `DisconnectAssumption`, `GroupsAssumption`, `CharactersAssumption`, `SessionsAssumption`,
`RegionsAssumption`, `SyncAssumption`, `ChunksAssumption`), which TLC
evaluates in the runs, and the hypotheses in the theorems. `SyncAssumption` asks for a view distance of at least one chunk:
the client library asks for no less (`client/src/lib.rs:539`); a server that is configured with a maximum of 0 is not covered,
and there a region at exactly the distance of the slack would not be in range.

Every safety invariant and action property that a passing run checks is proved. The liveness
properties (`EveryDropFlushed`, `NoStreamLeaks`, `EveryMessageArrives`, `ReturnsWithOneClose`,
`ClosedIsFreed`, `EntersOrReturns`, `ChunksCome`, `FarChunksGo`, `Renewed`) are only model-checked:
they need fairness and ENABLED, which the prover does not handle.

## 5. Not modelled

Of the network crate: the handshake, the scheduler's table of participants, UDP, metrics. Of the
server and client: the NPCs that come with chunks and block edits, inventories, commands, chat, damage and
the rest of the game's events, each of which edits one entity in one handler of the main
loop. The world generator, the front end, physics and everything of 1.3 are most of
the repository: numerical code over large arrays and rendering, with no state machine whose
properties a small instance could tell.

## 6. Plan

1. `Handshake`: two channels exchanging magic number, version, id and secret, with the frames that
   follow the handshake at once (`channel.rs:161-296`, `protocols.rs:70-89`): the bytes a reader
   has taken from the socket when `select!` stops it, and a connection that ends in between.
   Abstract specification: both sides agree on ids and offsets or both fail.
2. `Scheduler`: participants table, two handshakes of one remote at once, disconnect and shutdown
   (`scheduler.rs:267-343, 479-640`).
