------------------------------- MODULE Sessions -------------------------------
(***************************************************************************)
(* Clients of the server from the connection to the disconnect: messages   *)
(* (server/src/sys/message.rs), the events they cause                      *)
(* (events/player.rs, events/entity_creation.rs, state_ext.rs), accounts   *)
(* (login_provider.rs), the tick that orders all that (lib.rs), and the    *)
(* characters of module Characters.  A server may be killed and started    *)
(* again.                                                                  *)
(*                                                                         *)
(* Clients send what the client library sends.  An entity is the client it *)
(* belongs to; when it is deleted all that still refers to it refers to    *)
(* Nobody, as the generation of an id tells the deleted entity from others.*)
(***************************************************************************)
EXTENDS Characters

CONSTANTS MaxClient,        \* bound: connections at a time
          Valid,            \* accounts whose name is valid for a Player
          Scenes,           \* bound: what is in the database to begin with,
                            \* who connects, and whether the clients also
                            \* create and delete characters; how often
                            \* the database fails or the server is killed
          MaxSent           \* bound: messages of a client on their way

ASSUME SessionsAssumption ==
    /\ {MaxClient, MaxSent} \subseteq Nat
    /\ Valid \subseteq ACCOUNT
    /\ Scenes \subseteq [rows : [CHARACTER -> Row \cup {NoRow}], players : SUBSET ACCOUNT,
                        clients : SUBSET (1 .. MaxClient), edit : BOOLEAN, faults : Nat]
    /\ \A s \in Scenes, account \in ACCOUNT :
          Cardinality(OwnedBy(s.rows, account)) <= MAX_CHARACTERS_PER_PLAYER

CLIENT == 1 .. MaxClient
NoPlayer == 0
NoStats == <<>>

VARIABLES
    scene,      \* which of the Scenes it is
    faults,     \* bound: how many more there may be
    up,         \* whether the server runs
    phase,      \* what the tick is at
    seen,       \* clients whose messages have been looked at in this tick
    mode,       \* what a client does, as far as it knows
    sent,       \* its messages that are not handled
    state,      \* Client.client_state, "none" without an entity
    player,     \* Player.uuid
    character,  \* Player.character_id
    stats,      \* Stats, Inventory and Loadout: whose and how far
    accounts,   \* LoginProvider.accounts
    bus         \* EventBus<ServerEvent>

bounds   == <<scene, faults>>
clients  == <<mode, sent>>
entities == <<state, player, character, stats>>
vars == <<bounds, store, up, phase, seen, clients, entities, accounts, bus>>

NoneOf(x) == [c \in CLIENT |-> x]

Init ==
    /\ scene \in Scenes
    /\ db = scene.rows
    /\ requests = <<>> /\ responses = <<>> /\ saves = <<>>
    /\ checked = FALSE /\ raced = {}
    /\ faults = scene.faults
    /\ up = TRUE
    /\ phase = "messages"
    /\ seen = {}
    /\ mode = NoneOf("off") /\ sent = NoneOf(<<>>)
    /\ state = NoneOf("none") /\ player = NoneOf(NoPlayer)
    /\ character = NoneOf(NoCharacter) /\ stats = NoneOf(NoStats)
    /\ accounts = {}
    /\ bus = <<>>

Here == {c \in CLIENT : state[c] # "none"}

(* References to a deleted entity stay, but find nothing.                  *)
Buried(ref, c) == IF ref.entity = c THEN [ref EXCEPT !.entity = Nobody] ELSE ref

Bury(refs, c) == [i \in DOMAIN refs |-> Buried(refs[i], c)]
-----------------------------------------------------------------------------
(* What a client sends; while the server looks at messages it only takes   *)
(* those that are there, so what a client does then counts as done after.  *)
Act == up /\ phase = "events"

Send(c, message) ==
    /\ Act
    /\ Len(sent[c]) < MaxSent
    /\ sent' = [sent EXCEPT ![c] = Append(@, message)]
    /\ UNCHANGED <<store, bounds, up, phase, seen, entities, accounts, bus>>

Waiting(c) ==
    Len(SelectSeq(sent[c], LAMBDA message : message.what \in {"create", "delete"}))
        + Len(requests) < MaxRequests

Register(c, account) ==
    /\ mode[c] = "connected"
    /\ mode' = [mode EXCEPT ![c] = "pending"]
    /\ Send(c, [what |-> "register", account |-> account])

(* request_character, for one of the list; the session begins at once.     *)
RequestCharacter(c, id) ==
    /\ mode[c] = "select"
    /\ id \in CharactersOf(player[c])
    /\ Len(requests) < MaxRequests
    /\ mode' = [mode EXCEPT ![c] = "play"]
    /\ Send(c, [what |-> "character", id |-> id])

(* request_remove_character                                                *)
RequestRemoveCharacter(c) ==
    /\ mode[c] = "play"
    /\ mode' = [mode EXCEPT ![c] = "pending"]
    /\ Send(c, [what |-> "exit"])

RequestCreation(c) ==
    /\ mode[c] = "select"
    /\ scene.edit
    /\ NextId(db) + Len(requests) + Len(sent[c]) <= MaxCharacter
    /\ Waiting(c)
    /\ Send(c, [what |-> "create"])
    /\ UNCHANGED mode

RequestDeletion(c, id) ==
    /\ scene.edit
    /\ mode[c] = "select"
    /\ id \in CharactersOf(player[c])
    /\ Waiting(c)
    /\ Send(c, [what |-> "delete", id |-> id])
    /\ UNCHANGED mode

(* request_logout: the server answers Disconnect, the client Terminate.    *)
RequestLogout(c) ==
    /\ mode[c] \in {"select", "play"}
    /\ mode' = [mode EXCEPT ![c] = "closed"]
    /\ Send(c, [what |-> "terminate"])

(* The client is dropped, or the connection breaks, and messages with it.  *)
Close(c) ==
    /\ Act
    /\ mode[c] \notin {"off", "closed"}
    /\ mode' = [mode EXCEPT ![c] = "closed"]
    /\ \E n \in 0 .. Len(sent[c]) : sent' = [sent EXCEPT ![c] = SubSeq(@, 1, n)]
    /\ UNCHANGED <<store, bounds, up, phase, seen, entities, accounts, bus>>
-----------------------------------------------------------------------------
(* handle_new_connections, first in a tick; not above max_players.         *)
Connect(c) ==
    /\ up /\ phase = "messages" /\ seen = {}
    /\ c \in scene.clients \ Here
    /\ Len(saves) < MaxSaves
    /\ state' = [state EXCEPT ![c] = "Connected"]
    /\ mode' = [mode EXCEPT ![c] = "connected"]
    /\ UNCHANGED <<store, bounds, up, phase, seen, sent, player, character, stats, accounts, bus>>

(* handle_client_msg takes the next message, if it is such a one.          *)
Receive(c, what) ==
    /\ up /\ phase = "messages"
    /\ c \in Here
    /\ sent[c] # <<>>
    /\ Head(sent[c]).what = what
    /\ sent' = [sent EXCEPT ![c] = Tail(@)]
    /\ seen' = seen \cup {c}
    /\ UNCHANGED <<db, checked, responses, saves, raced, bounds, up, phase, character, stats>>

Emit(event) == bus' = Append(bus, event)

(* Mutant: whoever is logged in may log in again.                          *)
AlwaysAdmit(account) == TRUE

(* LoginProvider::login                                                    *)
Admit(account) == account \notin accounts

(* The account is taken before the name is looked at.                      *)
HandleRegister(c) ==
    /\ Receive(c, "register")
    /\ LET account == Head(sent[c]).account
           admit   == Admit(account)
           enter   == admit /\ account \in Valid /\ state[c] = "Connected"
       IN  /\ accounts' = IF admit THEN accounts \cup {account} ELSE accounts
           /\ player' = IF enter THEN [player EXCEPT ![c] = account] ELSE player
           /\ state' = IF enter THEN [state EXCEPT ![c] = "Registered"] ELSE state
           /\ mode' = CASE mode[c] = "closed" -> mode
                        [] enter              -> [mode EXCEPT ![c] = "select"]
                        [] ~admit             -> [mode EXCEPT ![c] = "denied"]
                        [] OTHER              -> mode
    /\ UNCHANGED <<requests, bus>>

HandleCharacter(c) ==
    /\ Receive(c, "character")
    /\ IF state[c] = "Registered"
       THEN /\ requests' = Append(requests, [entity |-> c, what |-> "load",
                                             account |-> player[c], id |-> Head(sent[c]).id])
            /\ Emit([entity |-> c, what |-> "init", id |-> Head(sent[c]).id])
       ELSE UNCHANGED <<requests, bus>>
    /\ UNCHANGED <<mode, state, player, accounts>>

HandleExitIngame(c) ==
    /\ Receive(c, "exit")
    /\ IF state[c] = "Character" THEN Emit([entity |-> c, what |-> "exit"]) ELSE UNCHANGED bus
    /\ UNCHANGED <<requests, mode, state, player, accounts>>

HandleCreateCharacter(c) ==
    /\ Receive(c, "create")
    /\ requests' = IF player[c] = NoPlayer THEN requests
                   ELSE Append(requests, [entity |-> c, what |-> "create", account |-> player[c]])
    /\ UNCHANGED <<mode, state, player, accounts, bus>>

HandleDeleteCharacter(c) ==
    /\ Receive(c, "delete")
    /\ requests' = IF player[c] = NoPlayer THEN requests
                   ELSE Append(requests, [entity |-> c, what |-> "delete",
                                          account |-> player[c], id |-> Head(sent[c]).id])
    /\ UNCHANGED <<mode, state, player, accounts, bus>>

HandleTerminate(c) ==
    /\ Receive(c, "terminate")
    /\ Emit([entity |-> c, what |-> "disconnect"])
    /\ UNCHANGED <<requests, mode, state, player, accounts>>

(* Nothing has come in this tick: the connection has ended, or for         *)
(* CLIENT_TIMEOUT nothing has come at all.                                 *)
NothingHeard(c) ==
    /\ up /\ phase = "messages"
    /\ c \in Here \ seen
    /\ sent[c] = <<>>
    /\ seen' = seen \cup {c}
    /\ Emit([entity |-> c, what |-> "disconnect"])
    /\ UNCHANGED <<store, bounds, up, phase, clients, entities, accounts>>

(* All that has come is read, and the end of a connection is noticed.      *)
MessagesRead ==
    \A c \in Here : sent[c] = <<>> /\ (mode[c] = "closed" => c \in seen)

(* Mutant: who has been heard of once is never looked at again.            *)
HeardOnce == seen

(* cnt begins anew for the next tick.                                      *)
NoneSeen == {}

(* What there is to save of a client; it is saved under Player.character_id. *)
UpdateOf(c) ==
    IF stats[c] # NoStats /\ character[c] # NoCharacter
    THEN {[id |-> character[c], progress |-> stats[c].progress]} ELSE {}

(* The tick of the game, with sys/persistence.rs if it is due: somebody    *)
(* makes progress.                                                         *)
RunSystems(save, progress) ==
    /\ up /\ phase = "messages"
    /\ MessagesRead
    /\ phase' = "events"
    /\ seen' = NoneSeen
    /\ IF save
       THEN /\ Len(saves) < MaxSaves
            /\ Save(UNION {UpdateOf(c) : c \in CLIENT})
       ELSE UNCHANGED saves
    /\ \A c \in progress : stats[c] # NoStats /\ stats[c].progress < MaxProgress
    /\ stats' = [c \in CLIENT |-> IF c \in progress THEN [stats[c] EXCEPT !.progress = @ + 1] ELSE stats[c]]
    /\ UNCHANGED <<db, requests, checked, responses, raced, bounds, up, clients,
                   state, player, character, accounts, bus>>
-----------------------------------------------------------------------------
(* handle_events: the first event is such a one, for an entity or Nobody.  *)
Handle(what, c) ==
    /\ up /\ phase = "events"
    /\ bus # <<>>
    /\ Head(bus).what = what /\ Head(bus).entity = c
    /\ UNCHANGED <<db, checked, raced, bounds, phase, seen>>

HandleInit(c) ==
    /\ Handle("init", c)
    /\ character' = [character EXCEPT ![c] = Head(bus).id]
    /\ state' = [state EXCEPT ![c] = "Character"]
    /\ mode' = IF mode[c] = "closed" THEN mode ELSE [mode EXCEPT ![c] = "play"]
    /\ bus' = Tail(bus)
    /\ UNCHANGED <<requests, responses, saves, up, sent, player, stats, accounts>>

HandleUpdate(c) ==
    /\ Handle("update", c)
    /\ stats' = [stats EXCEPT ![c] = [id |-> Head(bus).id, progress |-> Head(bus).progress]]
    /\ bus' = Tail(bus)
    /\ UNCHANGED <<requests, responses, saves, up, clients, state, player, character, accounts>>

(* delete_entity_recorded                                                  *)
BuryAll(c) ==
    /\ bus' = Bury(Tail(bus), c)
    /\ requests' = Bury(requests, c)
    /\ responses' = Bury(responses, c)

(* Mutant: Stats, Inventory and Loadout go along.                          *)
LosesNothing(c) == stats

WithoutStats(c) == [stats EXCEPT ![c] = NoStats]

(* handle_exit_ingame: Client and Player go to a new entity, everything    *)
(* else is deleted with the old one.  Nothing is saved.                    *)
HandleExit(c) ==
    /\ Handle("exit", c)
    /\ BuryAll(c)
    /\ state' = [state EXCEPT ![c] = "Registered"]
    /\ stats' = WithoutStats(c)
    /\ mode' = IF mode[c] = "closed" THEN mode ELSE [mode EXCEPT ![c] = "select"]
    /\ UNCHANGED <<saves, up, sent, player, character, accounts>>

(* handle_client_disconnect                                                *)
HandleDisconnect(c) ==
    /\ Handle("disconnect", c)
    /\ accounts' = accounts \ {player[c]}
    /\ Save(UpdateOf(c))
    /\ BuryAll(c)
    /\ state' = [state EXCEPT ![c] = "none"]
    /\ player' = [player EXCEPT ![c] = NoPlayer]
    /\ character' = [character EXCEPT ![c] = NoCharacter]
    /\ stats' = [stats EXCEPT ![c] = NoStats]
    /\ mode' = [mode EXCEPT ![c] = "off"]
    /\ sent' = [sent EXCEPT ![c] = <<>>]
    /\ UNCHANGED up

(* Both find nothing to do for an entity that is gone.                     *)
HandleNothing ==
    /\ Handle("exit", Nobody) \/ Handle("disconnect", Nobody)
    /\ bus' = Tail(bus)
    /\ UNCHANGED <<requests, responses, saves, up, clients, entities, accounts>>

(* The server is gone.  If it is unwound it waits for its threads, if not  *)
(* they are gone as well; what was not written is lost.                    *)
Stop ==
    /\ up' = FALSE
    /\ mode' = NoneOf("off") /\ sent' = NoneOf(<<>>)
    /\ state' = NoneOf("none") /\ player' = NoneOf(NoPlayer)
    /\ character' = NoneOf(NoCharacter) /\ stats' = NoneOf(NoStats)
    /\ accounts' = {}
    /\ bus' = <<>>
    /\ responses' = <<>>

ThreadsGone == requests' = <<>> /\ checked' = FALSE /\ saves' = <<>>

(* initialize_character_data and update_character_data unwrap the Uid of   *)
(* their entity.                                                           *)
Panics == Head(bus).what \in {"init", "update"} /\ Head(bus).entity = Nobody

Panic ==
    /\ up /\ phase = "events" /\ bus # <<>> /\ Panics
    /\ Stop
    /\ phase' = "messages"
    /\ ThreadsGone \/ UNCHANGED <<requests, checked, saves>>
    /\ UNCHANGED <<db, raced, bounds, seen>>

(* Mutant: who asked for what cannot be loaded is only told so.            *)
OnlyData ==
    LET loaded == SelectSeq(responses, LAMBDA answer : answer.row # NoRow)
    IN  [i \in DOMAIN loaded |->
            [entity |-> loaded[i].entity, what |-> "update",
             id |-> loaded[i].id, progress |-> loaded[i].row.progress]]

(* The answers of the loader become events of the next tick.               *)
AnswerEvents ==
    [i \in DOMAIN responses |->
        LET answer == responses[i]
        IN  IF answer.row = NoRow THEN [entity |-> answer.entity, what |-> "exit"]
            ELSE [entity |-> answer.entity, what |-> "update",
                  id |-> answer.id, progress |-> answer.row.progress]]

EndTick ==
    /\ up /\ phase = "events" /\ bus = <<>>
    /\ phase' = "messages"
    /\ bus' = AnswerEvents
    /\ responses' = <<>>
    /\ UNCHANGED <<db, requests, checked, saves, raced, bounds, up, seen, clients, entities, accounts>>
-----------------------------------------------------------------------------
Fault ==
    /\ faults > 0
    /\ faults' = faults - 1
    /\ UNCHANGED scene

Kill ==
    /\ up
    /\ Fault
    /\ Stop
    /\ phase' = "messages" /\ seen' = {}
    /\ ThreadsGone
    /\ UNCHANGED <<db, raced>>

(* A new server, once the threads of the old one have ended.               *)
Restart ==
    /\ ~up
    /\ requests = <<>> /\ saves = <<>>
    /\ up' = TRUE
    /\ responses' = <<>>
    /\ UNCHANGED <<db, requests, checked, saves, raced, bounds, phase, seen, clients, entities, accounts, bus>>

session == <<up, phase, seen, clients, entities, accounts, bus>>

Loader == LoaderStep /\ UNCHANGED <<session, bounds>>
Updater == BatchUpdate /\ UNCHANGED <<session, bounds>>
DatabaseFails == (LoadFails \/ BatchFails) /\ Fault /\ UNCHANGED session

ClientStep(c) ==
    \/ \E account \in scene.players : Register(c, account)
    \/ \E id \in CHARACTER : RequestCharacter(c, id) \/ RequestDeletion(c, id)
    \/ RequestRemoveCharacter(c) \/ RequestCreation(c) \/ RequestLogout(c) \/ Close(c)

HandleMessage(c) ==
    \/ HandleRegister(c) \/ HandleCharacter(c) \/ HandleExitIngame(c)
    \/ HandleCreateCharacter(c) \/ HandleDeleteCharacter(c) \/ HandleTerminate(c)

HandleEvent ==
    \/ \E c \in CLIENT : HandleInit(c) \/ HandleUpdate(c) \/ HandleExit(c) \/ HandleDisconnect(c)
    \/ HandleNothing \/ Panic

Next ==
    \/ \E c \in CLIENT : ClientStep(c) \/ Connect(c) \/ HandleMessage(c) \/ NothingHeard(c)
    \/ \E save \in BOOLEAN, progress \in {{}} \cup {{c} : c \in CLIENT} : RunSystems(save, progress)
    \/ HandleEvent \/ EndTick
    \/ Loader \/ Updater \/ DatabaseFails
    \/ Kill \/ Restart

Spec == Init /\ [][Next]_vars

(* The server ticks as long as it runs: it goes on with the messages that  *)
(* are there and the connections that have ended, with the systems, events *)
(* and answers; and the loader works as long as there is something to do.  *)
Tick ==
    \/ \E c \in CLIENT : HandleMessage(c) \/ (mode[c] = "closed" /\ NothingHeard(c))
    \/ RunSystems(FALSE, {}) \/ HandleEvent \/ EndTick

FairSpec == Spec /\ WF_vars(Tick) /\ WF_vars(Loader)
-----------------------------------------------------------------------------
Message ==
    [what : {"register"}, account : ACCOUNT] \cup [what : {"character", "delete"}, id : CHARACTER]
        \cup [what : {"exit", "create", "terminate"}]

ServerEvent ==
    [entity : Nat, what : {"init"}, id : CHARACTER]
        \cup [entity : Nat, what : {"update"}, id : CHARACTER, progress : 0 .. MaxProgress]
        \cup [entity : Nat, what : {"exit", "disconnect"}]

TypeOK ==
    /\ StoreOK
    /\ scene \in Scenes /\ faults \in Nat
    /\ up \in BOOLEAN
    /\ phase \in {"messages", "events"}
    /\ seen \subseteq CLIENT
    /\ mode \in [CLIENT -> {"off", "connected", "pending", "denied", "select", "play", "closed"}]
    /\ sent \in [CLIENT -> Seq(Message)]
    /\ state \in [CLIENT -> {"none", "Connected", "Registered", "Character"}]
    /\ player \in [CLIENT -> ACCOUNT \cup {NoPlayer}]
    /\ character \in [CLIENT -> CHARACTER \cup {NoCharacter}]
    /\ stats \in [CLIENT -> Update \cup {NoStats}]
    /\ accounts \subseteq ACCOUNT
    /\ bus \in Seq(ServerEvent)

(* An account is logged in exactly while one client plays it, whichever    *)
(* way the client went: by a message, a broken connection or a timeout,    *)
(* with events on their way to an entity that it no longer has.  (A name   *)
(* that is not valid stays logged in for ever.)                            *)
AccountsMatch ==
    /\ accounts \cap Valid = {player[c] : c \in CLIENT} \ {NoPlayer}
    /\ \A c, d \in CLIENT : player[c] = player[d] /\ player[c] # NoPlayer => c = d

(* What a client plays is the character that its Player names, which is    *)
(* there and its own, so that nothing is saved under another one: although *)
(* the name is set when it asks and the data comes later, by way of a      *)
(* queue in which deletions wait as well.                                  *)
PlaysItsCharacter ==
    \A c \in CLIENT : stats[c] # NoStats =>
        /\ stats[c].id = character[c]
        /\ character[c] \in CharactersOf(player[c])

(* Saving never takes back progress that was stored before, but for a      *)
(* character that was read while an earlier save of it waited: its player  *)
(* then goes on from older data (the two threads have separate queues).    *)
NoRollback ==
    [][\A id \in CHARACTER :
          db[id] # NoRow /\ db'[id] # NoRow /\ id \notin raced => db'[id].progress >= db[id].progress]_vars

(* No event asks for an entity that has been deleted: update_character_data *)
(* expects that "Client doesn't have a Uid!!!" never happens.              *)
NoPanic == up /\ phase = "events" /\ bus # <<>> => ~Panics

(* A connection that has ended is given up by the server, which frees its  *)
(* account.                                                                *)
ClosedIsFreed == \A c \in CLIENT : mode[c] = "closed" ~> c \notin Here

(* Whoever asks for a character gets into the game or, if the character    *)
(* cannot be loaded, back to the choice; unless the client goes.           *)
EntersOrReturns == \A c \in CLIENT : mode[c] = "play" ~> stats[c] # NoStats \/ mode[c] # "play"
=============================================================================
