---------------------------- MODULE Sessions_proofs ----------------------------
(***************************************************************************)
(* Accounts match the players that are there, no player gets more          *)
(* characters than the limit, what a client plays is its own character,    *)
(* and its saves take nothing back, for any number of connections, players *)
(* and characters.                                                         *)
(***************************************************************************)
EXTENDS Sessions, TLAPS, FiniteSetTheorems, SequenceTheorems

(* Events, requests and answers keep their form when an entity dies.       *)
LEMMA BurySeq ==
    ASSUME NEW S, NEW refs \in Seq(S), NEW c,
           \A ref \in S : Buried(ref, c) \in S
    PROVE  /\ Bury(refs, c) \in Seq(S)
           /\ refs # <<>> => /\ Bury(refs, c) # <<>>
                             /\ Head(Bury(refs, c)) = Buried(Head(refs), c)
<1>1. Len(refs) \in Nat /\ DOMAIN refs = 1 .. Len(refs)
  OBVIOUS
<1>2. Bury(refs, c) \in Seq(S) /\ Len(Bury(refs, c)) = Len(refs)
  BY <1>1 DEF Bury
<1>3. ASSUME refs # <<>>
      PROVE  Bury(refs, c) # <<>> /\ Head(Bury(refs, c)) = Buried(Head(refs), c)
  <2>1. Len(refs) # 0 /\ 1 \in DOMAIN refs
    BY <1>1, <1>3
  <2>2. Bury(refs, c)[1] = Buried(refs[1], c)
    BY <2>1 DEF Bury
  <2>3. Head(Bury(refs, c)) = Bury(refs, c)[1] /\ Head(refs) = refs[1]
    BY <1>2, <2>1
  <2> QED
    BY <1>2, <2>1, <2>2, <2>3
<1> QED
  BY <1>2, <1>3

LEMMA BuryRequest ==
    ASSUME NEW ref \in Request, NEW c
    PROVE  /\ Buried(ref, c) \in Request
           /\ Buried(ref, c).what = ref.what /\ Buried(ref, c).account = ref.account
  BY DEF Buried, Request, Nobody

LEMMA BuryEvent ==
    ASSUME NEW ref \in ServerEvent, NEW c
    PROVE  Buried(ref, c) \in ServerEvent /\ Buried(ref, c).what = ref.what
  BY DEF Buried, ServerEvent, Nobody

LEMMA BuryAnswer ==
    ASSUME NEW ref \in Answer, NEW c
    PROVE  Buried(ref, c) \in Answer
<1> DEFINE R == Row \cup {NoRow}
<1>1. ref \in [entity : Nat, id : CHARACTER, row : R]
  BY DEF Answer
<1> HIDE DEF R
<1>2. Buried(ref, c) \in [entity : Nat, id : CHARACTER, row : R]
  BY <1>1 DEF Buried, Nobody
<1> QED
  BY <1>2 DEF Answer, R
-----------------------------------------------------------------------------
LEMMA InitTyped == Init => TypeOK
<1> SUFFICES ASSUME Init PROVE TypeOK
  OBVIOUS
<1>1. scene \in [rows : [CHARACTER -> Row \cup {NoRow}], players : SUBSET ACCOUNT,
                 clients : SUBSET (1 .. MaxClient), edit : BOOLEAN, faults : Nat]
  BY SessionsAssumption DEF Init
<1>2. db \in [CHARACTER -> Row \cup {NoRow}] /\ faults \in Nat
  BY <1>1 DEF Init
<1>3. StoreOK
  <2>1. requests = <<>> /\ responses = <<>> /\ saves = <<>> /\ checked = FALSE /\ raced = {}
    BY DEF Init
  <2>2. requests \in Seq(Request) /\ responses \in Seq(Answer) /\ saves \in Seq(SUBSET Update)
    BY <2>1
  <2>3. checked \in BOOLEAN
    BY <2>1
  <2> QED
    BY <1>2, <2>1, <2>2, <2>3 DEF StoreOK
<1>4. /\ mode \in [CLIENT -> {"off", "connected", "pending", "denied", "select", "play", "closed"}]
      /\ sent \in [CLIENT -> Seq(Message)]
      /\ state \in [CLIENT -> {"none", "Connected", "Registered", "Character"}]
      /\ player \in [CLIENT -> ACCOUNT \cup {NoPlayer}]
      /\ character \in [CLIENT -> CHARACTER \cup {NoCharacter}]
      /\ stats \in [CLIENT -> Update \cup {NoStats}]
  BY DEF Init, NoneOf
<1> QED
  BY <1>2, <1>3, <1>4 DEF Init, TypeOK

(* A client sends or goes.                                                 *)
LEMMA ClientTyped ==
    ASSUME TypeOK, NEW c \in CLIENT, ClientStep(c)
    PROVE  TypeOK'
<1> USE DEF TypeOK, StoreOK, store, bounds, entities
<1>1. ASSUME NEW message \in Message, NEW m \in {"pending", "play", "closed", mode[c]},
             Send(c, message), mode' = [mode EXCEPT ![c] = m]
      PROVE  TypeOK'
  <2>1. /\ sent' \in [CLIENT -> Seq(Message)]
        /\ UNCHANGED <<store, bounds, up, phase, seen, entities, accounts, bus>>
    BY <1>1 DEF Send
  <2>2. mode' \in [CLIENT -> {"off", "connected", "pending", "denied", "select", "play", "closed"}]
    BY <1>1
  <2> QED
    BY <2>1, <2>2
<1>2. ASSUME NEW account \in scene.players, Register(c, account) PROVE TypeOK'
  BY <1>1, <1>2, SessionsAssumption DEF Register, Message
<1>3. ASSUME NEW id \in CHARACTER, RequestCharacter(c, id) PROVE TypeOK'
  BY <1>1, <1>3 DEF RequestCharacter, Message
<1>4. ASSUME NEW id \in CHARACTER, RequestDeletion(c, id) PROVE TypeOK'
  BY <1>1, <1>4 DEF RequestDeletion, Message
<1>5. CASE RequestRemoveCharacter(c)
  BY <1>1, <1>5 DEF RequestRemoveCharacter, Message
<1>6. CASE RequestCreation(c)
  BY <1>1, <1>6 DEF RequestCreation, Message
<1>7. CASE RequestLogout(c)
  BY <1>1, <1>7 DEF RequestLogout, Message
<1>8. CASE Close(c)
  <2>1. PICK n \in 0 .. Len(sent[c]) : sent' = [sent EXCEPT ![c] = SubSeq(sent[c], 1, n)]
    BY <1>8 DEF Close
  <2>2. SubSeq(sent[c], 1, n) \in Seq(Message)
    BY SubSeqProperties
  <2> QED
    BY <1>8, <2>1, <2>2 DEF Close
<1> QED
  BY <1>2, <1>3, <1>4, <1>5, <1>6, <1>7, <1>8 DEF ClientStep

LEMMA Received ==
    ASSUME TypeOK, NEW c \in CLIENT, NEW what, Receive(c, what)
    PROVE  /\ what = "register" => Head(sent[c]).account \in ACCOUNT
           /\ what \in {"character", "delete"} => Head(sent[c]).id \in CHARACTER
           /\ sent' \in [CLIENT -> Seq(Message)]
           /\ seen' \subseteq CLIENT
           /\ UNCHANGED <<db, checked, responses, saves, raced, scene, faults, up, phase, character, stats>>
<1>1. sent[c] \in Seq(Message) /\ sent[c] # <<>> /\ Head(sent[c]).what = what
  BY DEF TypeOK, Receive
<1>2. Head(sent[c]) \in Message /\ Tail(sent[c]) \in Seq(Message)
  BY <1>1
<1>3. what = "register" => Head(sent[c]).account \in ACCOUNT
  BY <1>1, <1>2 DEF Message
<1>4. what \in {"character", "delete"} => Head(sent[c]).id \in CHARACTER
  BY <1>1, <1>2 DEF Message
<1> QED
  BY <1>2, <1>3, <1>4 DEF TypeOK, Receive, bounds

(* The server takes a message, or notices that nothing comes.              *)
LEMMA ServerTyped ==
    ASSUME TypeOK, NEW c \in CLIENT, HandleMessage(c) \/ Connect(c) \/ NothingHeard(c)
    PROVE  TypeOK'
<1> USE DEF TypeOK, StoreOK, store, bounds, clients, entities
<1>1. ASSUME NEW what, Receive(c, what)
      PROVE  /\ sent' \in [CLIENT -> Seq(Message)]
             /\ seen' \subseteq CLIENT
             /\ UNCHANGED <<db, checked, responses, saves, raced, scene, faults, up, phase, character, stats>>
  BY <1>1, Received
<1>2. ASSUME NEW event \in ServerEvent, Emit(event) PROVE bus' \in Seq(ServerEvent)
  BY <1>2 DEF Emit
<1>3. c \in Nat
  BY SessionsAssumption DEF CLIENT
<1>4. CASE HandleRegister(c)
  <2>1. Head(sent[c]).account \in ACCOUNT
    BY <1>4, Received DEF HandleRegister
  <2> QED
    BY <1>1, <1>4, <2>1 DEF HandleRegister
<1>5. CASE HandleCharacter(c)
  <2>1. Head(sent[c]).id \in CHARACTER
    BY <1>5, Received DEF HandleCharacter
  <2>2. [entity |-> c, what |-> "load", account |-> player[c], id |-> Head(sent[c]).id] \in Request
    BY <1>3, <2>1 DEF Request, NoPlayer
  <2>3. [entity |-> c, what |-> "init", id |-> Head(sent[c]).id] \in ServerEvent
    BY <1>3, <2>1 DEF ServerEvent
  <2>4. CASE state[c] = "Registered"
    <3>1. /\ requests' = Append(requests, [entity |-> c, what |-> "load", account |-> player[c],
                                           id |-> Head(sent[c]).id])
          /\ Emit([entity |-> c, what |-> "init", id |-> Head(sent[c]).id])
      BY <1>5, <2>4 DEF HandleCharacter
    <3>2. requests' \in Seq(Request)
      BY <2>2, <3>1
    <3>3. bus' \in Seq(ServerEvent)
      BY <1>2, <2>3, <3>1
    <3> QED
      BY <1>1, <1>5, <3>2, <3>3 DEF HandleCharacter
  <2>5. CASE state[c] # "Registered"
    BY <1>1, <1>5, <2>5 DEF HandleCharacter
  <2> QED
    BY <2>4, <2>5
<1>6. CASE HandleExitIngame(c)
  <2>1. [entity |-> c, what |-> "exit"] \in ServerEvent
    BY <1>3 DEF ServerEvent
  <2> QED
    BY <1>1, <1>2, <1>6, <2>1 DEF HandleExitIngame
<1>7. CASE HandleCreateCharacter(c)
  <2>1. player[c] # NoPlayer => [entity |-> c, what |-> "create", account |-> player[c]] \in Request
    BY <1>3 DEF Request, NoPlayer
  <2> QED
    BY <1>1, <1>7, <2>1 DEF HandleCreateCharacter
<1>8. CASE HandleDeleteCharacter(c)
  <2>1. Head(sent[c]).id \in CHARACTER
    BY <1>8, Received DEF HandleDeleteCharacter
  <2>2. player[c] # NoPlayer =>
           [entity |-> c, what |-> "delete", account |-> player[c], id |-> Head(sent[c]).id] \in Request
    BY <1>3, <2>1 DEF Request, NoPlayer
  <2> QED
    BY <1>1, <1>8, <2>2 DEF HandleDeleteCharacter
<1>9. [entity |-> c, what |-> "disconnect"] \in ServerEvent
  BY <1>3 DEF ServerEvent
<1>10. CASE HandleTerminate(c)
  BY <1>1, <1>2, <1>9, <1>10 DEF HandleTerminate
<1>11. CASE Connect(c)
  BY <1>11 DEF Connect
<1>12. CASE NothingHeard(c)
  BY <1>2, <1>9, <1>12 DEF NothingHeard
<1> QED
  BY <1>4, <1>5, <1>6, <1>7, <1>8, <1>10, <1>11, <1>12 DEF HandleMessage

(* What is saved of a client has the type of an update.                    *)
LEMMA UpdateTyped ==
    ASSUME TypeOK, NEW c \in CLIENT
    PROVE  UpdateOf(c) \in SUBSET Update
<1>1. stats[c] \in Update \cup {NoStats} /\ character[c] \in CHARACTER \cup {NoCharacter}
  BY DEF TypeOK
<1>2. CASE stats[c] # NoStats /\ character[c] # NoCharacter
  <2>1. stats[c].progress \in 0 .. MaxProgress /\ character[c] \in CHARACTER
    BY <1>1, <1>2 DEF Update
  <2> QED
    BY <1>2, <2>1 DEF UpdateOf, Update
<1> QED
  BY <1>2 DEF UpdateOf

LEMMA SaveTyped ==
    ASSUME TypeOK, NEW batch \in SUBSET Update, Save(batch)
    PROVE  saves' \in Seq(SUBSET Update)
<1>1. saves \in Seq(SUBSET Update)
  BY DEF TypeOK, StoreOK
<1> HIDE DEF Update
<1> QED
  BY <1>1 DEF Save

LEMMA SystemsTyped ==
    ASSUME TypeOK, NEW save, NEW progress, RunSystems(save, progress)
    PROVE  TypeOK'
<1>1. /\ UNCHANGED <<db, requests, checked, responses, raced, scene, faults, up, mode, sent,
                     state, player, character, accounts, bus>>
      /\ phase' = "events" /\ seen' = {}
  BY DEF RunSystems, bounds, clients, NoneSeen
<1>2. saves' \in Seq(SUBSET Update)
  <2>1. UNION {UpdateOf(c) : c \in CLIENT} \in SUBSET Update
    BY UpdateTyped
  <2>2. CASE save
    BY <2>1, <2>2, SaveTyped DEF RunSystems
  <2>3. CASE ~save
    BY <2>3 DEF RunSystems, TypeOK, StoreOK
  <2> QED
    BY <2>2, <2>3
<1>3. stats' \in [CLIENT -> Update \cup {NoStats}]
  <2>1. ASSUME NEW c \in CLIENT, c \in progress
        PROVE  [stats[c] EXCEPT !.progress = @ + 1] \in Update
    <3>1. stats[c] \in Update /\ stats[c].progress < MaxProgress
      BY <2>1 DEF RunSystems, TypeOK
    <3>2. stats[c].progress + 1 \in 0 .. MaxProgress
      BY <3>1, CharactersAssumption DEF Update
    <3> QED
      BY <3>1, <3>2 DEF Update
  <2>2. stats' = [c \in CLIENT |-> IF c \in progress THEN [stats[c] EXCEPT !.progress = @ + 1] ELSE stats[c]]
    BY DEF RunSystems
  <2>3. \A c \in CLIENT : stats[c] \in Update \cup {NoStats}
    BY DEF TypeOK
  <2> QED
    BY <2>1, <2>2, <2>3
<1> QED
  BY <1>1, <1>2, <1>3 DEF TypeOK, StoreOK

(* The events of a tick.                                                   *)
LEMMA Handled ==
    ASSUME TypeOK, NEW what, NEW c, Handle(what, c)
    PROVE  /\ Head(bus) \in ServerEvent /\ Tail(bus) \in Seq(ServerEvent)
           /\ what = "init" => Head(bus).id \in CHARACTER
           /\ what = "update" => [id |-> Head(bus).id, progress |-> Head(bus).progress] \in Update
           /\ UNCHANGED <<db, checked, raced, scene, faults, phase, seen>>
<1>1. Head(bus) \in ServerEvent /\ Tail(bus) \in Seq(ServerEvent) /\ Head(bus).what = what
  BY DEF TypeOK, Handle
<1>2. what = "init" => Head(bus).id \in CHARACTER
  BY <1>1 DEF ServerEvent
<1>3. what = "update" => Head(bus).id \in CHARACTER /\ Head(bus).progress \in 0 .. MaxProgress
  BY <1>1 DEF ServerEvent
<1> QED
  BY <1>1, <1>2, <1>3 DEF Handle, bounds, Update

LEMMA BuriedTyped ==
    ASSUME TypeOK, bus # <<>>, NEW c, BuryAll(c)
    PROVE  bus' \in Seq(ServerEvent) /\ requests' \in Seq(Request) /\ responses' \in Seq(Answer)
<1>1. Tail(bus) \in Seq(ServerEvent) /\ requests \in Seq(Request) /\ responses \in Seq(Answer)
  BY DEF TypeOK, StoreOK
<1>2. Bury(Tail(bus), c) \in Seq(ServerEvent)
  BY <1>1, BurySeq, BuryEvent
<1>3. Bury(requests, c) \in Seq(Request)
  BY <1>1, BurySeq, BuryRequest
<1>4. Bury(responses, c) \in Seq(Answer)
  BY <1>1, BurySeq, BuryAnswer
<1> QED
  BY <1>2, <1>3, <1>4 DEF BuryAll

LEMMA StopTyped ==
    ASSUME TypeOK, Stop, phase' \in {"messages", "events"}, seen' \subseteq CLIENT, faults' \in Nat,
           UNCHANGED <<db, raced, scene>>,
           ThreadsGone \/ UNCHANGED <<requests, checked, saves>>
    PROVE  TypeOK'
<1>1. up' \in BOOLEAN /\ accounts' \subseteq ACCOUNT /\ bus' \in Seq(ServerEvent) /\ responses' \in Seq(Answer)
  <2>1. up' = FALSE /\ accounts' = {} /\ bus' = <<>> /\ responses' = <<>>
    BY DEF Stop
  <2>2. up' \in BOOLEAN
    BY <2>1
  <2>3. accounts' \subseteq ACCOUNT /\ bus' \in Seq(ServerEvent) /\ responses' \in Seq(Answer)
    BY <2>1
  <2> QED
    BY <2>2, <2>3
<1>2. requests' \in Seq(Request) /\ saves' \in Seq(SUBSET Update) /\ checked' \in BOOLEAN
  <2>1. CASE ThreadsGone
    <3>1. requests' \in Seq(Request) /\ saves' \in Seq(SUBSET Update)
      BY <2>1 DEF ThreadsGone
    <3>2. checked' \in BOOLEAN
      BY <2>1 DEF ThreadsGone
    <3> QED
      BY <3>1, <3>2
  <2>2. CASE UNCHANGED <<requests, checked, saves>>
    BY <2>2 DEF TypeOK, StoreOK
  <2> QED
    BY <2>1, <2>2
<1>3. /\ mode' \in [CLIENT -> {"off", "connected", "pending", "denied", "select", "play", "closed"}]
      /\ sent' \in [CLIENT -> Seq(Message)]
      /\ state' \in [CLIENT -> {"none", "Connected", "Registered", "Character"}]
      /\ player' \in [CLIENT -> ACCOUNT \cup {NoPlayer}]
      /\ character' \in [CLIENT -> CHARACTER \cup {NoCharacter}]
      /\ stats' \in [CLIENT -> Update \cup {NoStats}]
  BY DEF Stop, NoneOf
<1> QED
  BY <1>1, <1>2, <1>3 DEF TypeOK, StoreOK

LEMMA EventTyped ==
    ASSUME TypeOK, HandleEvent
    PROVE  TypeOK'
<1> USE DEF TypeOK, StoreOK
<1>1. ASSUME NEW c \in CLIENT, HandleInit(c) PROVE TypeOK'
  BY <1>1, Handled DEF HandleInit
<1>2. ASSUME NEW c \in CLIENT, HandleUpdate(c) PROVE TypeOK'
  BY <1>2, Handled DEF HandleUpdate, clients
<1>3. ASSUME NEW c \in CLIENT, HandleExit(c) PROVE TypeOK'
  <2>1. bus # <<>> /\ BuryAll(c)
    BY <1>3 DEF HandleExit, Handle
  <2>2. bus' \in Seq(ServerEvent) /\ requests' \in Seq(Request) /\ responses' \in Seq(Answer)
    BY <2>1, BuriedTyped
  <2> QED
    BY <1>3, <2>2, Handled DEF HandleExit, WithoutStats
<1>4. ASSUME NEW c \in CLIENT, HandleDisconnect(c) PROVE TypeOK'
  <2>1. bus # <<>> /\ BuryAll(c)
    BY <1>4 DEF HandleDisconnect, Handle
  <2>2. bus' \in Seq(ServerEvent) /\ requests' \in Seq(Request) /\ responses' \in Seq(Answer)
    BY <2>1, BuriedTyped
  <2>3. saves' \in Seq(SUBSET Update)
    BY <1>4, UpdateTyped, SaveTyped DEF HandleDisconnect
  <2>4. UNCHANGED <<db, checked, raced, scene, faults, phase, seen, up>>
    BY <1>4, Handled DEF HandleDisconnect
  <2>5. /\ mode' = [mode EXCEPT ![c] = "off"] /\ sent' = [sent EXCEPT ![c] = <<>>]
        /\ state' = [state EXCEPT ![c] = "none"] /\ player' = [player EXCEPT ![c] = NoPlayer]
        /\ character' = [character EXCEPT ![c] = NoCharacter]
        /\ stats' = [stats EXCEPT ![c] = NoStats]
        /\ accounts' = accounts \ {player[c]}
    BY <1>4 DEF HandleDisconnect
  <2>6. sent' \in [CLIENT -> Seq(Message)]
    BY <2>5
  <2> QED
    BY <2>2, <2>3, <2>4, <2>5, <2>6
<1>5. CASE HandleNothing
  <2>1. Tail(bus) \in Seq(ServerEvent) /\ UNCHANGED <<db, checked, raced, scene, faults, phase, seen>>
    BY <1>5, Handled DEF HandleNothing
  <2> QED
    BY <1>5, <2>1 DEF HandleNothing, clients, entities
<1>6. CASE Panic
  BY <1>6, StopTyped DEF Panic, bounds
<1> QED
  BY <1>1, <1>2, <1>3, <1>4, <1>5, <1>6 DEF HandleEvent

LEMMA EndTyped ==
    ASSUME TypeOK, EndTick
    PROVE  TypeOK'
<1>1. AnswerEvents \in Seq(ServerEvent)
  <2>1. responses \in Seq(Answer)
    BY DEF TypeOK, StoreOK
  <2>2. ASSUME NEW i \in DOMAIN responses PROVE AnswerEvents[i] \in ServerEvent
    <3>1. responses[i] \in Answer
      BY <2>1
    <3>2. CASE responses[i].row = NoRow
      BY <3>1, <3>2 DEF AnswerEvents, Answer, ServerEvent
    <3>3. CASE responses[i].row # NoRow
      BY <3>1, <3>3 DEF AnswerEvents, Answer, ServerEvent, Row
    <3> QED
      BY <3>2, <3>3
  <2>3. DOMAIN AnswerEvents = 1 .. Len(responses) /\ Len(responses) \in Nat
    BY <2>1 DEF AnswerEvents
  <2> QED
    BY <2>2, <2>3, <2>1 DEF AnswerEvents
<1> QED
  BY <1>1 DEF EndTick, TypeOK, StoreOK, bounds, clients, entities

(* Kill and restart, the loader and the updater.                           *)
LEMMA ServerGoneTyped ==
    ASSUME TypeOK, Kill \/ Restart
    PROVE  TypeOK'
<1>1. CASE Kill
  <2>1. /\ Stop /\ ThreadsGone /\ UNCHANGED <<db, raced, scene>>
        /\ phase' \in {"messages", "events"} /\ seen' \subseteq CLIENT
    BY <1>1 DEF Kill, Fault
  <2>2. faults' \in Nat
    BY <1>1 DEF Kill, Fault, TypeOK
  <2> QED
    BY <2>1, <2>2, StopTyped
<1>2. CASE Restart
  <2>1. up' = TRUE /\ responses' = <<>>
        /\ UNCHANGED <<db, requests, checked, saves, raced, bounds, phase, seen, clients, entities, accounts, bus>>
    BY <1>2 DEF Restart
  <2>2. up' \in BOOLEAN
    BY <2>1
  <2>3. responses' \in Seq(Answer)
    BY <2>1
  <2> QED
    BY <2>1, <2>2, <2>3 DEF TypeOK, StoreOK, bounds, clients, entities
<1> QED
  BY <1>1, <1>2

LEMMA RequestTyped ==
    ASSUME TypeOK, requests # <<>>
    PROVE  /\ Head(requests) \in Request /\ Tail(requests) \in Seq(Request)
           /\ Head(requests).what = "load" => Head(requests).id \in CHARACTER
           /\ Head(requests).what = "create" => Head(requests).account \in ACCOUNT
<1>1. requests \in Seq(Request)
  BY DEF TypeOK, StoreOK
<1>2. Head(requests) \in Request /\ Tail(requests) \in Seq(Request)
  BY <1>1
<1> QED
  BY <1>2 DEF Request

(* An update leaves a row with its owner, and none where there is none.    *)
LEMMA UpdatedRow ==
    ASSUME NEW row \in Row \cup {NoRow}, NEW updates \in SUBSET Update
    PROVE  /\ Updated(row, updates) \in Row \cup {NoRow}
           /\ row = NoRow => Updated(row, updates) = NoRow
           /\ row # NoRow => Updated(row, updates) # NoRow /\ Updated(row, updates).owner = row.owner
<1>1. CASE row = NoRow \/ updates = {}
  BY <1>1 DEF Updated
<1>2. CASE row # NoRow /\ updates # {}
  <2> DEFINE update == CHOOSE u \in updates : TRUE
  <2>1. update \in Update
    BY <1>2
  <2>2. update.progress \in 0 .. MaxProgress
    BY <2>1 DEF Update
  <2>3. Updated(row, updates) = [row EXCEPT !.progress = update.progress]
    BY <1>2 DEF Updated
  <2> HIDE DEF update
  <2>4. row \in Row
    BY <1>2
  <2>5. [row EXCEPT !.progress = update.progress] = [owner |-> row.owner, progress |-> update.progress]
    BY <2>4 DEF Row
  <2>6. [owner |-> row.owner, progress |-> update.progress] # <<>>
    OBVIOUS
  <2> QED
    BY <1>2, <2>2, <2>3, <2>4, <2>5, <2>6 DEF Row, NoRow
<1> QED
  BY <1>1, <1>2

LEMMA StoreTyped ==
    ASSUME TypeOK, Loader \/ Updater \/ DatabaseFails,
           checked => requests # <<>> /\ Head(requests).what = "create"
    PROVE  TypeOK'
<1> SUFFICES StoreOK' /\ scene' \in Scenes /\ faults' \in Nat
  BY DEF Loader, Updater, DatabaseFails, session, clients, entities, TypeOK
<1>1. scene' \in Scenes /\ faults' \in Nat
  BY DEF Loader, Updater, DatabaseFails, Fault, bounds, TypeOK
<1>2. ASSUME NEW row \in Row \cup {NoRow}, requests # <<>>, Head(requests).what = "load",
             responses' = Append(responses, [entity |-> Head(requests).entity, id |-> Head(requests).id, row |-> row])
      PROVE  responses' \in Seq(Answer)
  <2>1. [entity |-> Head(requests).entity, id |-> Head(requests).id, row |-> row] \in Answer
    BY <1>2, RequestTyped DEF Request, Answer
  <2> QED
    BY <1>2, <2>1 DEF TypeOK, StoreOK
<1>3. CASE LoadCharacterData
  <2>1. requests # <<>> /\ Head(requests).what = "load"
    BY <1>3 DEF LoadCharacterData
  <2> DEFINE row == IF Head(requests).id \in CharactersOf(Head(requests).account)
                    THEN db[Head(requests).id] ELSE NoRow
  <2>2. row \in Row \cup {NoRow}
    BY <2>1, RequestTyped DEF TypeOK, StoreOK
  <2>3. responses' \in Seq(Answer)
    BY <1>2, <1>3, <2>1, <2>2 DEF LoadCharacterData
  <2>4. raced' \subseteq CHARACTER
    BY <1>3, <2>1, RequestTyped DEF LoadCharacterData, TypeOK, StoreOK
  <2> QED
    BY <1>1, <1>3, <2>1, <2>3, <2>4, RequestTyped DEF LoadCharacterData, Answered, TypeOK, StoreOK
<1>4. CASE LoadFails
  <2>1. responses' \in Seq(Answer)
    BY <1>2, <1>4 DEF LoadFails
  <2> QED
    BY <1>1, <1>4, <2>1, RequestTyped DEF LoadFails, Answered, TypeOK, StoreOK
<1>5. CASE CheckCharacterLimit
  <2>1. checked' \in BOOLEAN
    BY <1>5 DEF CheckCharacterLimit, TypeOK, StoreOK
  <2> QED
    BY <1>1, <1>5, <2>1, RequestTyped DEF CheckCharacterLimit, Answered, TypeOK, StoreOK
<1>6. CASE CreateCharacter
  <2>1. [owner |-> Head(requests).account, progress |-> 0] \in Row
    BY <1>6, RequestTyped, CharactersAssumption DEF CreateCharacter, Row
  <2>2. db' \in [CHARACTER -> Row \cup {NoRow}]
    BY <1>6, <2>1 DEF CreateCharacter, TypeOK, StoreOK
  <2>3. checked' \in BOOLEAN
    BY <1>6 DEF CreateCharacter
  <2> QED
    BY <1>1, <1>6, <2>2, <2>3, RequestTyped DEF CreateCharacter, Answered, TypeOK, StoreOK
<1>7. CASE DeleteCharacter
  <2>1. db' \in [CHARACTER -> Row \cup {NoRow}]
    BY <1>7 DEF DeleteCharacter, TypeOK, StoreOK
  <2> QED
    BY <1>1, <1>7, <2>1, RequestTyped DEF DeleteCharacter, Answered, TypeOK, StoreOK
<1>8. CASE BatchUpdate
  <2>1. Head(saves) \in SUBSET Update /\ Tail(saves) \in Seq(SUBSET Update)
    BY <1>8 DEF BatchUpdate, TypeOK, StoreOK
  <2>2. ASSUME NEW id \in CHARACTER PROVE Updated(db[id], {u \in Head(saves) : u.id = id}) \in Row \cup {NoRow}
    BY <2>1, UpdatedRow DEF TypeOK, StoreOK
  <2>3. db' \in [CHARACTER -> Row \cup {NoRow}]
    BY <1>8, <2>2 DEF BatchUpdate
  <2> QED
    BY <1>1, <1>8, <2>1, <2>3 DEF BatchUpdate, TypeOK, StoreOK
<1>9. CASE BatchFails
  <2>1. Tail(saves) \in Seq(SUBSET Update)
    BY <1>9 DEF BatchFails, TypeOK, StoreOK
  <2> QED
    BY <1>1, <1>9, <2>1 DEF BatchFails, TypeOK, StoreOK
<1> QED
  BY <1>3, <1>4, <1>5, <1>6, <1>7, <1>8, <1>9 DEF Loader, LoaderStep, Updater, DatabaseFails
-----------------------------------------------------------------------------
(* The check of the limit still holds when the character is created: only  *)
(* the loader, which is busy with that very request, adds any.             *)
Pending == checked => /\ requests # <<>> /\ Head(requests).what = "create"
                      /\ BelowLimit(Head(requests).account)

LimitInv == TypeOK /\ CharacterLimit /\ Pending

(* Everything but the loader and the updater leaves the characters alone,  *)
(* and the request that the loader is busy with in place.                  *)
Others ==
    \/ \E c \in CLIENT : ClientStep(c) \/ Connect(c) \/ HandleMessage(c) \/ NothingHeard(c)
    \/ \E save \in BOOLEAN, progress \in {{}} \cup {{c} : c \in CLIENT} : RunSystems(save, progress)
    \/ HandleEvent \/ EndTick \/ Kill \/ Restart

LEMMA OthersTyped ==
    ASSUME TypeOK, Others
    PROVE  TypeOK'
  BY ClientTyped, ServerTyped, SystemsTyped, EventTyped, EndTyped, ServerGoneTyped DEF Others

LEMMA Undisturbed ==
    ASSUME TypeOK, Others, checked'
    PROVE  /\ checked
           /\ requests # <<>> => /\ requests' # <<>>
                                 /\ Head(requests').what = Head(requests).what
                                 /\ Head(requests').account = Head(requests).account
<1> DEFINE Same == requests # <<>> => /\ requests' # <<>>
                                      /\ Head(requests').what = Head(requests).what
                                      /\ Head(requests').account = Head(requests).account
<1>1. requests \in Seq(Request)
  BY DEF TypeOK, StoreOK
<1>2. ASSUME NEW request, requests' = Append(requests, request) PROVE Same
  BY <1>1, <1>2
<1>3. ASSUME NEW c, requests' = Bury(requests, c) PROVE Same
  <2> SUFFICES ASSUME requests # <<>> PROVE Same
    OBVIOUS
  <2>1. Bury(requests, c) # <<>> /\ Head(Bury(requests, c)) = Buried(Head(requests), c)
    BY <1>1, BurySeq, BuryRequest
  <2>2. Head(requests) \in Request
    BY <1>1
  <2>3. /\ Buried(Head(requests), c).what = Head(requests).what
        /\ Buried(Head(requests), c).account = Head(requests).account
    BY <2>2, BuryRequest
  <2> QED
    BY <1>3, <2>1, <2>3
<1>4. CASE \E c \in CLIENT : ClientStep(c) \/ Connect(c) \/ NothingHeard(c)
  BY <1>4 DEF ClientStep, Register, RequestCharacter, RequestDeletion, RequestRemoveCharacter,
              RequestCreation, RequestLogout, Close, Send, Connect, NothingHeard, store
<1>5. ASSUME NEW c \in CLIENT, HandleMessage(c) PROVE checked /\ Same
  <2>1. CASE HandleRegister(c) \/ HandleExitIngame(c) \/ HandleTerminate(c)
    BY <2>1 DEF HandleRegister, HandleExitIngame, HandleTerminate, Receive
  <2>2. CASE HandleCharacter(c)
    BY <1>2, <2>2 DEF HandleCharacter, Receive
  <2>3. CASE HandleCreateCharacter(c)
    BY <1>2, <2>3 DEF HandleCreateCharacter, Receive
  <2>4. CASE HandleDeleteCharacter(c)
    BY <1>2, <2>4 DEF HandleDeleteCharacter, Receive
  <2> QED
    BY <1>5, <2>1, <2>2, <2>3, <2>4 DEF HandleMessage
<1>6. CASE \E save \in BOOLEAN, progress \in {{}} \cup {{c} : c \in CLIENT} : RunSystems(save, progress)
  BY <1>6 DEF RunSystems
<1>7. CASE HandleEvent
  <2>1. ASSUME NEW c, HandleInit(c) \/ HandleUpdate(c) PROVE checked /\ Same
    BY <2>1 DEF HandleInit, HandleUpdate, Handle
  <2>2. ASSUME NEW c, HandleExit(c) \/ HandleDisconnect(c) PROVE checked /\ Same
    BY <1>3, <2>2 DEF HandleExit, HandleDisconnect, BuryAll, Handle
  <2>3. CASE HandleNothing
    BY <2>3 DEF HandleNothing, Handle
  <2>4. CASE Panic
    BY <2>4 DEF Panic, ThreadsGone
  <2> QED
    BY <1>7, <2>1, <2>2, <2>3, <2>4 DEF HandleEvent
<1>8. CASE EndTick \/ Restart
  BY <1>8 DEF EndTick, Restart
<1>9. CASE Kill
  BY <1>9 DEF Kill, ThreadsGone
<1> QED
  BY <1>4, <1>5, <1>6, <1>7, <1>8, <1>9 DEF Others

LEMMA OthersKeepRows ==
    ASSUME Others
    PROVE  UNCHANGED db
  BY DEF Others, ClientStep, Register, RequestCharacter, RequestDeletion, RequestRemoveCharacter,
         RequestCreation, RequestLogout, Close, Send, Connect, NothingHeard, store, HandleMessage,
         HandleRegister, HandleExitIngame, HandleTerminate, HandleCharacter, HandleCreateCharacter,
         HandleDeleteCharacter, Receive, RunSystems, HandleEvent, HandleInit, HandleUpdate, HandleExit,
         HandleDisconnect, HandleNothing, Handle, Panic, EndTick, Kill, Restart

LEMMA Finite ==
    ASSUME NEW account
    PROVE  IsFiniteSet(CharactersOf(account)) /\ Cardinality(CharactersOf(account)) \in Nat
<1>1. IsFiniteSet(CHARACTER)
  BY FS_Interval, CharactersAssumption DEF CHARACTER
<1>2. CharactersOf(account) \subseteq CHARACTER
  BY DEF CharactersOf, OwnedBy, Stored
<1> QED
  BY <1>1, <1>2, FS_Subset, FS_CardinalityType

(* Rows that keep their owner or go do not break the limit.                *)
LEMMA Fewer ==
    ASSUME CharacterLimit, \A account : CharactersOf(account)' \subseteq CharactersOf(account)
    PROVE  /\ CharacterLimit'
           /\ \A account : BelowLimit(account) => BelowLimit(account)'
<1>1. ASSUME NEW account
      PROVE  /\ Cardinality(CharactersOf(account)') <= Cardinality(CharactersOf(account))
             /\ Cardinality(CharactersOf(account)') \in Nat /\ Cardinality(CharactersOf(account)) \in Nat
  BY Finite, FS_Subset, FS_CardinalityType
<1>2. MAX_CHARACTERS_PER_PLAYER \in Nat
  BY CharactersAssumption
<1> QED
  BY <1>1, <1>2 DEF CharacterLimit, BelowLimit

LEMMA OthersLimit ==
    ASSUME LimitInv, Others
    PROVE  LimitInv'
<1>1. TypeOK'
  BY OthersTyped DEF LimitInv
<1>2. \A account : CharactersOf(account)' = CharactersOf(account)
  BY OthersKeepRows DEF CharactersOf
<1>3. CharacterLimit' /\ \A account : BelowLimit(account) => BelowLimit(account)'
  BY <1>2, Fewer DEF LimitInv
<1>4. Pending'
  <2> SUFFICES ASSUME checked' PROVE Pending'
    BY DEF Pending
  <2>1. checked
    BY Undisturbed DEF LimitInv, Others
  <2> QED
    BY <1>3, Undisturbed DEF LimitInv, Pending
<1> QED
  BY <1>1, <1>3, <1>4 DEF LimitInv

LEMMA CreationLimit ==
    ASSUME LimitInv, CreateCharacter
    PROVE  CharacterLimit'
<1> SUFFICES ASSUME NEW owner, owner = Head(requests).account
             PROVE  CharacterLimit'
  OBVIOUS
<1>1. BelowLimit(owner)
  BY DEF LimitInv, Pending, CreateCharacter
<1>2. db \in [CHARACTER -> Row \cup {NoRow}]
  BY DEF LimitInv, TypeOK, StoreOK
<1>3. db' = [db EXCEPT ![NextId(db)] = [owner |-> owner, progress |-> 0]]
  BY DEF CreateCharacter
<1>4. [owner |-> owner, progress |-> 0].owner = owner
  OBVIOUS
<1>5. ASSUME NEW account \in ACCOUNT, account # owner
      PROVE  CharactersOf(account)' \subseteq CharactersOf(account)
  BY <1>2, <1>3, <1>4, <1>5 DEF CharactersOf, OwnedBy, Stored
<1>6. CharactersOf(owner)' \subseteq CharactersOf(owner) \cup {NextId(db)}
  <2> SUFFICES ASSUME NEW id \in CHARACTER, db'[id] # NoRow, db'[id].owner = owner, id # NextId(db)
               PROVE  id \in CharactersOf(owner)
    BY <1>3 DEF CharactersOf, OwnedBy, Stored, CreateCharacter
  <2>1. db'[id] = db[id]
    BY <1>2, <1>3
  <2> QED
    BY <2>1 DEF CharactersOf, OwnedBy, Stored
<1> SUFFICES ASSUME NEW account \in ACCOUNT
             PROVE  Cardinality(CharactersOf(account)') <= MAX_CHARACTERS_PER_PLAYER
  BY DEF CharacterLimit
<1>7. MAX_CHARACTERS_PER_PLAYER \in Nat
  BY CharactersAssumption
<1>8. CASE account = owner
  <2>1. /\ IsFiniteSet(CharactersOf(account) \cup {NextId(db)})
        /\ Cardinality(CharactersOf(account) \cup {NextId(db)}) <= Cardinality(CharactersOf(account)) + 1
    <3>1. /\ IsFiniteSet(CharactersOf(account) \cup {NextId(db)})
          /\ Cardinality(CharactersOf(account) \cup {NextId(db)}) =
                IF NextId(db) \in CharactersOf(account) THEN Cardinality(CharactersOf(account))
                ELSE Cardinality(CharactersOf(account)) + 1
      BY Finite, FS_AddElement
    <3> QED
      BY <3>1, Finite
  <2>2. Cardinality(CharactersOf(account)') <= Cardinality(CharactersOf(account) \cup {NextId(db)})
    BY <1>6, <1>8, <2>1, FS_Subset
  <2>3. /\ Cardinality(CharactersOf(account)') \in Nat
        /\ Cardinality(CharactersOf(account) \cup {NextId(db)}) \in Nat
    BY <1>6, <1>8, <2>1, FS_Subset, FS_CardinalityType
  <2> QED
    BY <1>1, <1>7, <1>8, <2>1, <2>2, <2>3, Finite DEF BelowLimit
<1>9. CASE account # owner
  <2>1. /\ Cardinality(CharactersOf(account)') <= Cardinality(CharactersOf(account))
        /\ Cardinality(CharactersOf(account)') \in Nat
    BY <1>5, <1>9, Finite, FS_Subset, FS_CardinalityType
  <2> QED
    BY <1>7, <2>1, Finite DEF LimitInv, CharacterLimit
<1> QED
  BY <1>8, <1>9

LEMMA StoreLimit ==
    ASSUME LimitInv, Loader \/ Updater \/ DatabaseFails
    PROVE  LimitInv'
<1>1. TypeOK'
  BY StoreTyped DEF LimitInv, Pending
<1>2. ASSUME \A account : CharactersOf(account)' \subseteq CharactersOf(account),
             checked' => /\ requests' # <<>> /\ Head(requests').what = "create"
                         /\ BelowLimit(Head(requests').account)
      PROVE  LimitInv'
  <2>1. CharacterLimit' /\ \A account : BelowLimit(account) => BelowLimit(account)'
    BY <1>2, Fewer DEF LimitInv
  <2> QED
    BY <1>1, <1>2, <2>1 DEF LimitInv, Pending
<1>3. ASSUME UNCHANGED db PROVE \A account : CharactersOf(account)' \subseteq CharactersOf(account)
  BY <1>3 DEF CharactersOf
<1>4. CASE LoadCharacterData \/ LoadFails
  <2>1. ~checked' /\ UNCHANGED db
    BY <1>4 DEF LoadCharacterData, LoadFails, LimitInv, Pending
  <2> QED
    BY <1>2, <1>3, <2>1
<1>5. CASE CheckCharacterLimit
  BY <1>2, <1>3, <1>5 DEF CheckCharacterLimit
<1>6. CASE CreateCharacter
  <2>1. ~checked'
    BY <1>6 DEF CreateCharacter
  <2> QED
    BY <1>1, <1>6, <2>1, CreationLimit DEF LimitInv, Pending
<1>7. CASE DeleteCharacter
  <2>1. ~checked'
    BY <1>7 DEF DeleteCharacter, LimitInv, Pending
  <2>2. \A account : CharactersOf(account)' \subseteq CharactersOf(account)
    BY <1>7 DEF DeleteCharacter, LimitInv, TypeOK, StoreOK, CharactersOf, OwnedBy, Stored
  <2> QED
    BY <1>2, <2>1, <2>2
<1>8. CASE BatchUpdate
  <2>1. Head(saves) \in SUBSET Update
    BY <1>8 DEF BatchUpdate, LimitInv, TypeOK, StoreOK
  <2>2. ASSUME NEW id \in CHARACTER
        PROVE  /\ db[id] = NoRow => db'[id] = NoRow
               /\ db[id] # NoRow => db'[id].owner = db[id].owner
    <3>1. db'[id] = Updated(db[id], {u \in Head(saves) : u.id = id})
      BY <1>8 DEF BatchUpdate
    <3>2. db[id] \in Row \cup {NoRow} /\ {u \in Head(saves) : u.id = id} \in SUBSET Update
      BY <2>1 DEF LimitInv, TypeOK, StoreOK
    <3> QED
      BY <3>1, <3>2, UpdatedRow
  <2>3. \A account : CharactersOf(account)' \subseteq CharactersOf(account)
    BY <2>2 DEF CharactersOf, OwnedBy, Stored
  <2> QED
    BY <1>2, <1>8, <2>3 DEF BatchUpdate, LimitInv, Pending
<1>9. CASE BatchFails
  BY <1>2, <1>3, <1>9 DEF BatchFails, LimitInv, Pending
<1> QED
  BY <1>4, <1>5, <1>6, <1>7, <1>8, <1>9 DEF Loader, LoaderStep, Updater, DatabaseFails

LEMMA LimitInductive == Spec => []LimitInv
<1>1. Init => LimitInv
  <2> SUFFICES ASSUME Init PROVE LimitInv
    OBVIOUS
  <2>1. scene \in Scenes /\ db = scene.rows /\ ~checked
    BY DEF Init
  <2>2. CharacterLimit
    BY <2>1, SessionsAssumption DEF CharacterLimit, CharactersOf
  <2> QED
    BY <2>1, <2>2, InitTyped DEF LimitInv, Pending
<1>2. LimitInv /\ [Next]_vars => LimitInv'
  <2> SUFFICES ASSUME LimitInv, [Next]_vars PROVE LimitInv'
    OBVIOUS
  <2>1. CASE Next
    BY <2>1, OthersLimit, StoreLimit DEF Next, Others
  <2>2. CASE UNCHANGED vars
    BY <2>2 DEF vars, bounds, store, clients, entities, LimitInv, TypeOK, StoreOK, CharacterLimit,
                CharactersOf, Pending, BelowLimit
  <2> QED
    BY <2>1, <2>2
<1> QED
  BY <1>1, <1>2, PTL DEF Spec

(* Every variable keeps its type: whatever is deleted while messages,      *)
(* events and requests are under way, no step makes anything else of them. *)
THEOREM TypeCorrect == Spec => []TypeOK
<1>1. LimitInv => TypeOK
  BY DEF LimitInv
<1> QED
  BY <1>1, LimitInductive, PTL

(* No player ever has more characters than the limit, although create_character *)
(* checks it before the transaction that adds the character.               *)
THEOREM LimitCorrect == Spec => []CharacterLimit
<1>1. LimitInv => CharacterLimit
  BY DEF LimitInv
<1> QED
  BY <1>1, LimitInductive, PTL
-----------------------------------------------------------------------------
(* A client has a Player only from its registration on, and only one whose *)
(* name is valid.                                                          *)
PlayersKnown ==
    \A c \in CLIENT : /\ player[c] \in Valid \cup {NoPlayer}
                      /\ state[c] \in {"none", "Connected"} => player[c] = NoPlayer

(* Nothing but the end of a connection refers to an entity without a       *)
(* Player; what referred to a deleted one refers to Nobody.                *)
Strangers == {c \in CLIENT : state[c] \in {"none", "Connected"}}
Clear(refs, S) == \A i \in DOMAIN refs : refs[i].entity \notin S
Quiet(events, S) == \A i \in DOMAIN events : events[i].what # "disconnect" => events[i].entity \notin S

EntitiesKnown ==
    IF up THEN Clear(requests, Strangers) /\ Clear(responses, Strangers) /\ Quiet(bus, Strangers)
    ELSE bus = <<>>

(* A client registers once, with its first message.                        *)
RegisterFirst ==
    \A c \in CLIENT :
        /\ mode[c] \in {"off", "connected"} => sent[c] = <<>>
        /\ mode[c] = "connected" => state[c] = "Connected"
        /\ state[c] = "none" => mode[c] = "off"
        /\ \A i \in DOMAIN sent[c] : sent[c][i].what = "register" => i = 1 /\ state[c] = "Connected"

AccountsInv == PlayersKnown /\ AccountsMatch /\ EntitiesKnown /\ RegisterFirst

(* NoPlayer is not an account, and Nobody not a client.                    *)
LEMMA Nothings == /\ NoPlayer \notin ACCOUNT /\ Valid \subseteq ACCOUNT
                  /\ Nobody \notin CLIENT /\ CLIENT \subseteq Nat
  BY CharactersAssumption, SessionsAssumption DEF NoPlayer, Nobody, CLIENT

(* Queues stay clear of strangers.                                         *)
LEMMA ClearQueue ==
    ASSUME NEW S, NEW T, NEW refs \in Seq(T), Clear(refs, S)
    PROVE  /\ \A ref \in T : ref.entity \notin S => Clear(Append(refs, ref), S)
           /\ refs # <<>> => Head(refs).entity \notin S /\ Clear(Tail(refs), S)
           /\ \A R : R \subseteq S => Clear(refs, R)
  BY DEF Clear

LEMMA QuietQueue ==
    ASSUME NEW S, NEW T, NEW events \in Seq(T), Quiet(events, S)
    PROVE  /\ \A event \in T : event.what = "disconnect" \/ event.entity \notin S =>
                                  Quiet(Append(events, event), S)
           /\ events # <<>> => /\ Head(events).what # "disconnect" => Head(events).entity \notin S
                               /\ Quiet(Tail(events), S)
           /\ \A R : R \subseteq S => Quiet(events, R)
  BY DEF Quiet

(* Once an entity is gone nothing refers to it.                            *)
LEMMA BuryClears ==
    ASSUME NEW S, NEW refs, NEW c, Nobody \notin S \cup {c},
           \A i \in DOMAIN refs : Buried(refs[i], c).entity \in {Nobody, refs[i].entity} \ {c}
    PROVE  /\ Clear(refs, S) => Clear(Bury(refs, c), S \cup {c})
           /\ (/\ Quiet(refs, S)
               /\ \A i \in DOMAIN refs : Buried(refs[i], c).what = refs[i].what) => Quiet(Bury(refs, c), S \cup {c})
  BY DEF Clear, Quiet, Bury

LEMMA BuriedEntity ==
    ASSUME NEW c \in CLIENT, NEW ref \in Request \cup Answer \cup ServerEvent
    PROVE  Buried(ref, c).entity \in {Nobody, ref.entity} \ {c}
<1>1. c # Nobody
  BY Nothings
<1>2. ref.entity = c => [ref EXCEPT !.entity = Nobody].entity = Nobody
  BY DEF Request, Answer, ServerEvent
<1> QED
  BY <1>1, <1>2 DEF Buried

LEMMA ClientAccounts ==
    ASSUME TypeOK, AccountsInv, NEW c \in CLIENT, ClientStep(c)
    PROVE  AccountsInv'
<1>1. UNCHANGED <<requests, responses, up, state, player, accounts, bus>>
  BY DEF ClientStep, Register, RequestCharacter, RequestDeletion, RequestRemoveCharacter,
         RequestCreation, RequestLogout, Close, Send, store, entities
<1>2. PlayersKnown' /\ AccountsMatch' /\ EntitiesKnown'
  BY <1>1 DEF AccountsInv, PlayersKnown, AccountsMatch, EntitiesKnown, Strangers, Clear, Quiet
<1> SUFFICES RegisterFirst'
  BY <1>2 DEF AccountsInv
<1> USE DEF TypeOK
<1>3. ASSUME NEW message \in Message, NEW m \in {"pending", "play", "closed", "select"},
             Send(c, message), mode[c] # "off",
             mode' = [mode EXCEPT ![c] = m],
             message.what = "register" => sent[c] = <<>> /\ state[c] = "Connected"
      PROVE  RegisterFirst'
  <2>1. sent' = [sent EXCEPT ![c] = Append(sent[c], message)] /\ sent[c] \in Seq(Message)
    BY <1>3 DEF Send
  <2>2. ASSUME NEW i \in DOMAIN Append(sent[c], message), Append(sent[c], message)[i].what = "register"
        PROVE  i = 1 /\ state[c] = "Connected"
    <3>1. CASE i = Len(sent[c]) + 1
      BY <1>3, <2>1, <2>2, <3>1
    <3>2. CASE i # Len(sent[c]) + 1
      BY <2>1, <2>2, <3>2 DEF AccountsInv, RegisterFirst
    <3> QED
      BY <3>1, <3>2
  <2>3. state[c] # "none"
    BY <1>3 DEF AccountsInv, RegisterFirst
  <2> QED
    BY <1>1, <1>3, <2>1, <2>2, <2>3 DEF AccountsInv, RegisterFirst
<1>4. ASSUME NEW account \in scene.players, Register(c, account) PROVE RegisterFirst'
  <2>1. [what |-> "register", account |-> account] \in Message
    BY SessionsAssumption DEF Message
  <2>2. sent[c] = <<>> /\ state[c] = "Connected"
    BY <1>4 DEF Register, AccountsInv, RegisterFirst
  <2> QED
    BY <1>3, <1>4, <2>1, <2>2 DEF Register
<1>5. ASSUME NEW id \in CHARACTER, RequestCharacter(c, id) PROVE RegisterFirst'
  <2>1. [what |-> "character", id |-> id] \in Message /\ [what |-> "character", id |-> id].what # "register"
    BY DEF Message
  <2>2. mode[c] # "off" /\ mode' = [mode EXCEPT ![c] = "play"]
    BY <1>5 DEF RequestCharacter
  <2>3. Send(c, [what |-> "character", id |-> id])
    BY <1>5 DEF RequestCharacter
  <2> QED
    BY <1>3, <2>1, <2>2, <2>3
<1>6. ASSUME NEW id \in CHARACTER, RequestDeletion(c, id) PROVE RegisterFirst'
  <2>1. [what |-> "delete", id |-> id] \in Message /\ [what |-> "delete", id |-> id].what # "register"
    BY DEF Message
  <2>2. mode[c] # "off" /\ mode' = [mode EXCEPT ![c] = "select"]
    BY <1>6 DEF RequestDeletion
  <2>3. Send(c, [what |-> "delete", id |-> id])
    BY <1>6 DEF RequestDeletion
  <2> QED
    BY <1>3, <2>1, <2>2, <2>3
<1>7. CASE RequestRemoveCharacter(c)
  <2>1. [what |-> "exit"] \in Message /\ [what |-> "exit"].what # "register"
    BY DEF Message
  <2>2. mode[c] # "off" /\ mode' = [mode EXCEPT ![c] = "pending"]
    BY <1>7 DEF RequestRemoveCharacter
  <2>3. Send(c, [what |-> "exit"])
    BY <1>7 DEF RequestRemoveCharacter
  <2> QED
    BY <1>3, <2>1, <2>2, <2>3
<1>8. CASE RequestCreation(c)
  <2>1. [what |-> "create"] \in Message /\ [what |-> "create"].what # "register"
    BY DEF Message
  <2>2. mode[c] # "off" /\ mode' = [mode EXCEPT ![c] = "select"]
    BY <1>8 DEF RequestCreation
  <2>3. Send(c, [what |-> "create"])
    BY <1>8 DEF RequestCreation
  <2> QED
    BY <1>3, <2>1, <2>2, <2>3
<1>9. CASE RequestLogout(c)
  <2>1. [what |-> "terminate"] \in Message /\ [what |-> "terminate"].what # "register"
    BY DEF Message
  <2>2. mode[c] # "off" /\ mode' = [mode EXCEPT ![c] = "closed"]
    BY <1>9 DEF RequestLogout
  <2>3. Send(c, [what |-> "terminate"])
    BY <1>9 DEF RequestLogout
  <2> QED
    BY <1>3, <2>1, <2>2, <2>3
<1>10. CASE Close(c)
  <2>1. PICK n \in 0 .. Len(sent[c]) : sent' = [sent EXCEPT ![c] = SubSeq(sent[c], 1, n)]
    BY <1>10 DEF Close
  <2>2. mode[c] # "off" /\ mode' = [mode EXCEPT ![c] = "closed"]
    BY <1>10 DEF Close
  <2>3. \A i \in DOMAIN SubSeq(sent[c], 1, n) : i \in DOMAIN sent[c] /\ SubSeq(sent[c], 1, n)[i] = sent[c][i]
    BY SubSeqProperties
  <2> QED
    BY <1>1, <2>1, <2>2, <2>3 DEF AccountsInv, RegisterFirst
<1> QED
  BY <1>4, <1>5, <1>6, <1>7, <1>8, <1>9, <1>10 DEF ClientStep

(* What is left of a client's messages holds no other registration.        *)
LEMMA OneRegistration ==
    ASSUME TypeOK, RegisterFirst, NEW c \in CLIENT, NEW what, Receive(c, what)
    PROVE  /\ up /\ c \in CLIENT /\ state[c] # "none" /\ mode[c] \notin {"off", "connected"}
           /\ what = "register" => state[c] = "Connected"
           /\ (/\ \A d \in CLIENT \ {c} : mode'[d] = mode[d] /\ state'[d] = state[d]
               /\ mode'[c] \notin {"off", "connected"} /\ state'[c] # "none")
              => RegisterFirst'
<1>1. /\ up /\ state[c] # "none" /\ sent[c] # <<>> /\ Head(sent[c]).what = what
      /\ sent' = [sent EXCEPT ![c] = Tail(sent[c])] /\ sent[c] \in Seq(Message)
      /\ DOMAIN sent = CLIENT
  BY DEF Receive, Here, TypeOK
<1>2. mode[c] \notin {"off", "connected"}
  BY <1>1 DEF RegisterFirst
<1>3. 1 \in DOMAIN sent[c] /\ Head(sent[c]) = sent[c][1]
  BY <1>1
<1>4. what = "register" => state[c] = "Connected"
  BY <1>1, <1>3 DEF RegisterFirst
<1>5. \A i \in DOMAIN Tail(sent[c]) : Tail(sent[c])[i].what # "register"
  <2> SUFFICES ASSUME NEW i \in DOMAIN Tail(sent[c]) PROVE Tail(sent[c])[i].what # "register"
    OBVIOUS
  <2>1. i + 1 \in DOMAIN sent[c] /\ Tail(sent[c])[i] = sent[c][i + 1] /\ i + 1 # 1
    BY <1>1
  <2> QED
    BY <2>1 DEF RegisterFirst
<1> QED
  BY <1>1, <1>2, <1>4, <1>5 DEF RegisterFirst

LEMMA RegisterAccounts ==
    ASSUME TypeOK, AccountsInv, NEW c \in CLIENT, HandleRegister(c)
    PROVE  PlayersKnown' /\ AccountsMatch'
<1> DEFINE account == Head(sent[c]).account
           admit   == Admit(account)
           enter   == admit /\ account \in Valid /\ state[c] = "Connected"
<1>1. /\ accounts' = IF admit THEN accounts \cup {account} ELSE accounts
      /\ player' = IF enter THEN [player EXCEPT ![c] = account] ELSE player
      /\ state' = IF enter THEN [state EXCEPT ![c] = "Registered"] ELSE state
  BY DEF HandleRegister
<1>2. state[c] = "Connected"
  BY OneRegistration DEF HandleRegister, AccountsInv
<1>3. admit => account \notin accounts
  BY DEF Admit
<1>4. /\ DOMAIN player = CLIENT /\ DOMAIN state = CLIENT
      /\ \A d \in CLIENT : /\ player[d] \in Valid \cup {NoPlayer}
                           /\ state[d] \in {"none", "Connected"} => player[d] = NoPlayer
      /\ accounts \cap Valid = {player[d] : d \in CLIENT} \ {NoPlayer}
      /\ \A d, e \in CLIENT : player[d] = player[e] /\ player[d] # NoPlayer => d = e
  BY DEF TypeOK, AccountsInv, PlayersKnown, AccountsMatch
<1> HIDE DEF account, admit
<1>5. CASE enter
  <2>1. /\ accounts' = accounts \cup {account} /\ player' = [player EXCEPT ![c] = account]
        /\ state' = [state EXCEPT ![c] = "Registered"] /\ account \in Valid /\ account \notin accounts
        /\ player[c] = NoPlayer
    BY <1>1, <1>3, <1>4, <1>5
  <2>2. \A d \in CLIENT : player[d] # account
    BY <1>4, <2>1, Nothings
  <2>3. accounts' \cap Valid = {player'[d] : d \in CLIENT} \ {NoPlayer}
    BY <1>4, <2>1, Nothings
  <2>4. \A d, e \in CLIENT : player'[d] = player'[e] /\ player'[d] # NoPlayer => d = e
    BY <1>4, <2>1, <2>2
  <2>5. \A d \in CLIENT : /\ player'[d] \in Valid \cup {NoPlayer}
                          /\ state'[d] \in {"none", "Connected"} => player'[d] = NoPlayer
    BY <1>4, <2>1
  <2> QED
    BY <2>3, <2>4, <2>5 DEF PlayersKnown, AccountsMatch
<1>6. CASE ~enter
  <2>1. UNCHANGED <<player, state>>
    BY <1>1, <1>6
  <2>2. accounts' \cap Valid = accounts \cap Valid
    BY <1>1, <1>2, <1>6
  <2> QED
    BY <1>4, <2>1, <2>2 DEF PlayersKnown, AccountsMatch
<1> QED
  BY <1>5, <1>6

LEMMA ServerAccounts ==
    ASSUME TypeOK, AccountsInv, NEW c \in CLIENT, HandleMessage(c) \/ Connect(c) \/ NothingHeard(c)
    PROVE  AccountsInv'
<1>1. /\ requests \in Seq(Request) /\ responses \in Seq(Answer) /\ bus \in Seq(ServerEvent)
      /\ DOMAIN state = CLIENT /\ DOMAIN mode = CLIENT
  BY DEF TypeOK, StoreOK
<1>2. c \in Nat /\ up
  BY Nothings DEF HandleMessage, HandleRegister, HandleExitIngame, HandleTerminate, HandleCharacter,
                  HandleCreateCharacter, HandleDeleteCharacter, Receive, Connect, NothingHeard
<1>3. Clear(requests, Strangers) /\ Clear(responses, Strangers) /\ Quiet(bus, Strangers)
  BY <1>2 DEF AccountsInv, EntitiesKnown
<1>4. ASSUME UNCHANGED <<player, state, accounts>> PROVE PlayersKnown' /\ AccountsMatch' /\ Strangers' = Strangers
  BY <1>4 DEF AccountsInv, PlayersKnown, AccountsMatch, Strangers
<1>5. ASSUME NEW what, Receive(c, what), UNCHANGED <<mode, state>> PROVE RegisterFirst'
  BY <1>5, OneRegistration DEF AccountsInv
<1>6. player[c] # NoPlayer => c \notin Strangers
  BY DEF AccountsInv, PlayersKnown, Strangers
<1>7. ASSUME NEW what, Receive(c, what) PROVE up' /\ responses' = responses
  BY <1>7 DEF Receive
<1>8. CASE HandleRegister(c)
  <2>1. PlayersKnown' /\ AccountsMatch'
    BY <1>8, RegisterAccounts
  <2>2. Receive(c, "register") /\ UNCHANGED <<requests, bus>> /\ (state' = state \/ state' = [state EXCEPT ![c] = "Registered"])
    BY <1>8 DEF HandleRegister
  <2>3. Strangers' \subseteq Strangers
    BY <1>1, <2>2 DEF Strangers
  <2>4. Clear(requests, Strangers') /\ Clear(responses, Strangers') /\ Quiet(bus, Strangers')
    BY <1>3, <2>3 DEF Clear, Quiet
  <2>5. mode[c] \notin {"off", "connected"} /\ state[c] # "none"
    BY <2>2, OneRegistration DEF AccountsInv
  <2>6. mode' \in {mode, [mode EXCEPT ![c] = "select"], [mode EXCEPT ![c] = "denied"]}
    BY <1>8 DEF HandleRegister
  <2>7. RegisterFirst'
    BY <1>1, <2>2, <2>5, <2>6, OneRegistration DEF AccountsInv
  <2> QED
    BY <1>7, <2>1, <2>2, <2>4, <2>7 DEF AccountsInv, EntitiesKnown
<1>9. CASE HandleCharacter(c)
  <2>1. Receive(c, "character") /\ UNCHANGED <<mode, state, player, accounts>>
    BY <1>9 DEF HandleCharacter
  <2>2. CASE state[c] = "Registered"
    <3> DEFINE request == [entity |-> c, what |-> "load", account |-> player[c], id |-> Head(sent[c]).id]
               event   == [entity |-> c, what |-> "init", id |-> Head(sent[c]).id]
    <3>1. request \in Request /\ event \in ServerEvent
      BY <1>2, <2>1, Received DEF Request, ServerEvent, TypeOK, NoPlayer
    <3>2. requests' = Append(requests, request) /\ bus' = Append(bus, event)
      BY <1>9, <2>2 DEF HandleCharacter, Emit
    <3>3. request.entity \notin Strangers /\ event.entity \notin Strangers
      BY <2>2 DEF Strangers
    <3> HIDE DEF request, event
    <3> QED
      BY <1>1, <1>3, <1>4, <1>5, <1>7, <2>1, <3>1, <3>2, <3>3, ClearQueue, QuietQueue DEF AccountsInv, EntitiesKnown
  <2>3. CASE state[c] # "Registered"
    BY <1>3, <1>4, <1>5, <1>7, <1>9, <2>1, <2>3 DEF HandleCharacter, AccountsInv, EntitiesKnown
  <2> QED
    BY <2>2, <2>3
<1>10. ASSUME NEW what, Receive(c, what), UNCHANGED <<mode, state, player, accounts, bus>>,
              \/ UNCHANGED requests
              \/ \E request \in Request : /\ requests' = Append(requests, request)
                                          /\ request.entity = c /\ player[c] # NoPlayer
       PROVE  AccountsInv'
  <2>1. Clear(requests', Strangers)
    <3>1. CASE UNCHANGED requests
      BY <1>3, <3>1
    <3>2. ASSUME NEW request \in Request, requests' = Append(requests, request),
                 request.entity = c, player[c] # NoPlayer
          PROVE  Clear(requests', Strangers)
      BY <1>1, <1>3, <1>6, <3>2, ClearQueue
    <3> QED
      BY <1>10, <3>1, <3>2
  <2> QED
    BY <1>3, <1>4, <1>5, <1>7, <1>10, <2>1 DEF AccountsInv, EntitiesKnown
<1>11. CASE HandleCreateCharacter(c)
  <2>1. CASE player[c] = NoPlayer
    BY <1>10, <1>11, <2>1 DEF HandleCreateCharacter
  <2>2. CASE player[c] # NoPlayer
    <3> DEFINE request == [entity |-> c, what |-> "create", account |-> player[c]]
    <3>1. request \in Request /\ request.entity = c
      BY <1>2, <2>2 DEF Request, TypeOK, NoPlayer
    <3>2. requests' = Append(requests, request)
      BY <1>11, <2>2 DEF HandleCreateCharacter
    <3> HIDE DEF request
    <3> QED
      BY <1>10, <1>11, <2>2, <3>1, <3>2 DEF HandleCreateCharacter
  <2> QED
    BY <2>1, <2>2
<1>12. CASE HandleDeleteCharacter(c)
  <2>1. CASE player[c] = NoPlayer
    BY <1>10, <1>12, <2>1 DEF HandleDeleteCharacter
  <2>2. CASE player[c] # NoPlayer
    <3> DEFINE request == [entity |-> c, what |-> "delete", account |-> player[c], id |-> Head(sent[c]).id]
    <3>1. request \in Request /\ request.entity = c
      BY <1>2, <1>12, <2>2, Received DEF HandleDeleteCharacter, Request, TypeOK, NoPlayer
    <3>2. requests' = Append(requests, request)
      BY <1>12, <2>2 DEF HandleDeleteCharacter
    <3> HIDE DEF request
    <3> QED
      BY <1>10, <1>12, <2>2, <3>1, <3>2 DEF HandleDeleteCharacter
  <2> QED
    BY <2>1, <2>2
<1>13. ASSUME NEW what \in {"exit", "disconnect"}, Emit([entity |-> c, what |-> what]),
              what = "disconnect" \/ c \notin Strangers
       PROVE  Quiet(bus', Strangers)
  <2> DEFINE event == [entity |-> c, what |-> what]
  <2>1. event \in ServerEvent /\ (event.what = "disconnect" \/ event.entity \notin Strangers)
    BY <1>2, <1>13 DEF ServerEvent
  <2>2. bus' = Append(bus, event)
    BY <1>13 DEF Emit
  <2> HIDE DEF event
  <2> QED
    BY <1>1, <1>3, <2>1, <2>2, QuietQueue
<1>14. CASE HandleExitIngame(c)
  <2>1. Receive(c, "exit") /\ UNCHANGED <<requests, mode, state, player, accounts>>
    BY <1>14 DEF HandleExitIngame
  <2>2. Quiet(bus', Strangers)
    BY <1>3, <1>13, <1>14 DEF HandleExitIngame, Strangers
  <2> QED
    BY <1>3, <1>4, <1>5, <1>7, <2>1, <2>2 DEF AccountsInv, EntitiesKnown
<1>15. CASE HandleTerminate(c)
  <2>1. Receive(c, "terminate") /\ UNCHANGED <<requests, mode, state, player, accounts>>
    BY <1>15 DEF HandleTerminate
  <2>2. Quiet(bus', Strangers)
    BY <1>13, <1>15 DEF HandleTerminate
  <2> QED
    BY <1>3, <1>4, <1>5, <1>7, <2>1, <2>2 DEF AccountsInv, EntitiesKnown
<1>16. CASE Connect(c)
  <2>1. /\ state[c] = "none" /\ state' = [state EXCEPT ![c] = "Connected"]
        /\ mode' = [mode EXCEPT ![c] = "connected"]
        /\ UNCHANGED <<requests, responses, up, sent, player, accounts, bus>>
    BY <1>16 DEF Connect, Here, store
  <2>2. Strangers' = Strangers
    BY <1>1, <2>1 DEF Strangers
  <2>3. PlayersKnown' /\ AccountsMatch'
    BY <1>1, <2>1 DEF AccountsInv, PlayersKnown, AccountsMatch
  <2>4. RegisterFirst'
    BY <1>1, <2>1 DEF AccountsInv, RegisterFirst
  <2> QED
    BY <1>3, <2>1, <2>2, <2>3, <2>4 DEF AccountsInv, EntitiesKnown
<1>17. CASE NothingHeard(c)
  <2>1. UNCHANGED <<requests, responses, up, mode, sent, state, player, accounts>>
    BY <1>17 DEF NothingHeard, store, clients, entities
  <2>2. Quiet(bus', Strangers)
    BY <1>13, <1>17 DEF NothingHeard
  <2>3. RegisterFirst'
    BY <2>1 DEF AccountsInv, RegisterFirst
  <2> QED
    BY <1>2, <1>3, <1>4, <2>1, <2>2, <2>3 DEF AccountsInv, EntitiesKnown
<1> QED
  BY <1>8, <1>9, <1>11, <1>12, <1>14, <1>15, <1>16, <1>17 DEF HandleMessage

LEMMA StopAccounts ==
    ASSUME TypeOK, Stop
    PROVE  AccountsInv'
<1>1. /\ ~up' /\ bus' = <<>> /\ accounts' = {}
      /\ \A c \in CLIENT : mode'[c] = "off" /\ sent'[c] = <<>> /\ state'[c] = "none" /\ player'[c] = NoPlayer
  BY DEF Stop, NoneOf
<1> QED
  BY <1>1 DEF AccountsInv, PlayersKnown, AccountsMatch, EntitiesKnown, RegisterFirst

LEMMA EventAccounts ==
    ASSUME TypeOK, AccountsInv, HandleEvent
    PROVE  AccountsInv'
<1>1. /\ requests \in Seq(Request) /\ responses \in Seq(Answer) /\ bus \in Seq(ServerEvent)
      /\ DOMAIN state = CLIENT /\ DOMAIN mode = CLIENT /\ DOMAIN player = CLIENT /\ DOMAIN sent = CLIENT
  BY DEF TypeOK, StoreOK
<1>2. ASSUME NEW what, NEW c, Handle(what, c)
      PROVE  /\ up /\ bus # <<>> /\ Clear(requests, Strangers) /\ Clear(responses, Strangers)
             /\ Quiet(Tail(bus), Strangers) /\ Tail(bus) \in Seq(ServerEvent)
             /\ what # "disconnect" => c \notin Strangers
  <2>1. up /\ bus # <<>> /\ Head(bus).what = what /\ Head(bus).entity = c
    BY <1>2 DEF Handle
  <2>2. Clear(requests, Strangers) /\ Clear(responses, Strangers) /\ Quiet(bus, Strangers)
    BY <2>1 DEF AccountsInv, EntitiesKnown
  <2> QED
    BY <1>1, <2>1, <2>2, QuietQueue
<1>3. ASSUME NEW c \in CLIENT, c \notin Strangers, up, UNCHANGED <<up, sent, player, accounts>>,
             NEW m \in {"play", "select"}, mode' \in {mode, [mode EXCEPT ![c] = m]},
             NEW st \in {"Registered", "Character"}, state' = [state EXCEPT ![c] = st],
             Clear(requests', Strangers), Clear(responses', Strangers), Quiet(bus', Strangers)
      PROVE  AccountsInv'
  <2>1. Strangers' = Strangers
    BY <1>1, <1>3 DEF Strangers
  <2>2. PlayersKnown' /\ AccountsMatch'
    BY <1>1, <1>3 DEF AccountsInv, PlayersKnown, AccountsMatch
  <2>3. RegisterFirst'
    BY <1>1, <1>3 DEF AccountsInv, RegisterFirst, Strangers
  <2> QED
    BY <1>3, <2>1, <2>2, <2>3 DEF AccountsInv, EntitiesKnown
<1>4. ASSUME NEW c \in CLIENT, HandleInit(c) PROVE AccountsInv'
  <2>1. /\ Handle("init", c) /\ UNCHANGED <<requests, responses, up, sent, player, accounts>>
        /\ bus' = Tail(bus) /\ state' = [state EXCEPT ![c] = "Character"]
        /\ mode' \in {mode, [mode EXCEPT ![c] = "play"]}
    BY <1>4 DEF HandleInit
  <2>2. up /\ c \notin Strangers /\ Clear(requests', Strangers) /\ Clear(responses', Strangers) /\ Quiet(bus', Strangers)
    BY <1>2, <2>1
  <2> QED
    BY <1>3, <2>1, <2>2
<1>5. ASSUME NEW c \in CLIENT, HandleUpdate(c) PROVE AccountsInv'
  <2>1. /\ UNCHANGED <<requests, responses, up, mode, sent, state, player, accounts>>
        /\ bus' = Tail(bus) /\ Handle("update", c)
    BY <1>5 DEF HandleUpdate, clients
  <2> QED
    BY <1>2, <2>1 DEF AccountsInv, PlayersKnown, AccountsMatch, EntitiesKnown, RegisterFirst, Strangers, Clear
<1>6. ASSUME NEW c \in CLIENT, BuryAll(c), bus # <<>>, Tail(bus) \in Seq(ServerEvent),
             Clear(requests, Strangers), Clear(responses, Strangers), Quiet(Tail(bus), Strangers)
      PROVE  /\ Clear(requests', Strangers \cup {c}) /\ Clear(responses', Strangers \cup {c})
             /\ Quiet(bus', Strangers \cup {c})
  <2>1. Nobody \notin Strangers \cup {c}
    BY Nothings DEF Strangers
  <2>2. Clear(Bury(requests, c), Strangers \cup {c})
    <3>1. \A i \in DOMAIN requests : Buried(requests[i], c).entity \in {Nobody, requests[i].entity} \ {c}
      BY <1>1, BuriedEntity
    <3> QED
      BY <1>6, <2>1, <3>1, BuryClears
  <2>3. Clear(Bury(responses, c), Strangers \cup {c})
    <3>1. \A i \in DOMAIN responses : Buried(responses[i], c).entity \in {Nobody, responses[i].entity} \ {c}
      BY <1>1, BuriedEntity
    <3> QED
      BY <1>6, <2>1, <3>1, BuryClears
  <2>4. Quiet(Bury(Tail(bus), c), Strangers \cup {c})
    <3>1. \A i \in DOMAIN Tail(bus) : Buried(Tail(bus)[i], c).entity \in {Nobody, Tail(bus)[i].entity} \ {c}
      BY <1>6, BuriedEntity
    <3>2. \A i \in DOMAIN Tail(bus) : Buried(Tail(bus)[i], c).what = Tail(bus)[i].what
      BY <1>6, BuryEvent
    <3> QED
      BY <1>6, <2>1, <3>1, <3>2, BuryClears
  <2> QED
    BY <1>6, <2>2, <2>3, <2>4 DEF BuryAll
<1>7. ASSUME NEW S, NEW c, Clear(requests', S \cup {c}), Clear(responses', S \cup {c}), Quiet(bus', S \cup {c})
      PROVE  Clear(requests', S) /\ Clear(responses', S) /\ Quiet(bus', S)
  BY <1>7 DEF Clear, Quiet
<1>8. ASSUME NEW c \in CLIENT, HandleExit(c) PROVE AccountsInv'
  <2>1. Handle("exit", c) /\ BuryAll(c)
    BY <1>8 DEF HandleExit
  <2>2. Clear(requests', Strangers) /\ Clear(responses', Strangers) /\ Quiet(bus', Strangers)
    BY <1>2, <1>6, <1>7, <2>1
  <2>3. /\ UNCHANGED <<up, sent, player, accounts>> /\ state' = [state EXCEPT ![c] = "Registered"]
        /\ mode' \in {mode, [mode EXCEPT ![c] = "select"]}
    BY <1>8 DEF HandleExit
  <2>4. up /\ c \notin Strangers
    BY <1>2, <2>1
  <2> QED
    BY <1>3, <2>2, <2>3, <2>4
<1>9. ASSUME NEW c \in CLIENT, HandleDisconnect(c) PROVE AccountsInv'
  <2>1. /\ Handle("disconnect", c) /\ BuryAll(c) /\ accounts' = accounts \ {player[c]}
        /\ state' = [state EXCEPT ![c] = "none"] /\ player' = [player EXCEPT ![c] = NoPlayer]
        /\ mode' = [mode EXCEPT ![c] = "off"] /\ sent' = [sent EXCEPT ![c] = <<>>] /\ up' = up
    BY <1>9 DEF HandleDisconnect
  <2>2. Strangers' \subseteq Strangers \cup {c}
    BY <1>1, <2>1 DEF Strangers
  <2>3. /\ Clear(requests', Strangers \cup {c}) /\ Clear(responses', Strangers \cup {c})
        /\ Quiet(bus', Strangers \cup {c})
    BY <1>2, <1>6, <2>1
  <2>4. EntitiesKnown'
    <3>1. Clear(requests', Strangers') /\ Clear(responses', Strangers') /\ Quiet(bus', Strangers')
      BY <2>2, <2>3 DEF Clear, Quiet
    <3> QED
      BY <1>2, <2>1, <3>1 DEF EntitiesKnown
  <2>5. PlayersKnown'
    BY <1>1, <2>1 DEF AccountsInv, PlayersKnown
  <2>6. AccountsMatch'
    <3>1. /\ \A d \in CLIENT : player[d] \in Valid \cup {NoPlayer}
          /\ accounts \cap Valid = {player[d] : d \in CLIENT} \ {NoPlayer}
          /\ \A d, e \in CLIENT : player[d] = player[e] /\ player[d] # NoPlayer => d = e
      BY DEF AccountsInv, PlayersKnown, AccountsMatch
    <3>2. accounts' \cap Valid = {player'[d] : d \in CLIENT} \ {NoPlayer}
      BY <1>1, <2>1, <3>1
    <3>3. \A d, e \in CLIENT : player'[d] = player'[e] /\ player'[d] # NoPlayer => d = e
      BY <1>1, <2>1, <3>1
    <3> QED
      BY <3>2, <3>3 DEF AccountsMatch
  <2>7. RegisterFirst'
    BY <1>1, <2>1 DEF AccountsInv, RegisterFirst
  <2> QED
    BY <2>4, <2>5, <2>6, <2>7 DEF AccountsInv
<1>10. CASE HandleNothing
  <2>1. /\ UNCHANGED <<requests, responses, up, mode, sent, state, player, accounts>>
        /\ bus' = Tail(bus) /\ (Handle("exit", Nobody) \/ Handle("disconnect", Nobody))
    BY <1>10 DEF HandleNothing, clients, entities
  <2>2. up /\ Clear(requests, Strangers) /\ Clear(responses, Strangers) /\ Quiet(Tail(bus), Strangers)
    BY <1>2, <2>1
  <2> QED
    BY <2>1, <2>2 DEF AccountsInv, PlayersKnown, AccountsMatch, EntitiesKnown, RegisterFirst, Strangers
<1>11. CASE Panic
  BY <1>11, StopAccounts DEF Panic
<1> QED
  BY <1>4, <1>5, <1>8, <1>9, <1>10, <1>11 DEF HandleEvent

LEMMA RestAccounts ==
    ASSUME LimitInv, AccountsInv,
           \/ \E save, progress : RunSystems(save, progress)
           \/ EndTick \/ Kill \/ Restart
           \/ Loader \/ Updater \/ DatabaseFails
    PROVE  AccountsInv'
<1>1. requests \in Seq(Request) /\ responses \in Seq(Answer)
  BY DEF LimitInv, TypeOK, StoreOK
<1>2. ASSUME UNCHANGED <<up, mode, sent, state, player, accounts>>, EntitiesKnown' PROVE AccountsInv'
  BY <1>2 DEF AccountsInv, PlayersKnown, AccountsMatch, RegisterFirst
<1>3. ASSUME UNCHANGED <<up, state, requests, responses, bus>> PROVE EntitiesKnown'
  BY <1>3 DEF AccountsInv, EntitiesKnown, Strangers
<1>4. ASSUME NEW save, NEW progress, RunSystems(save, progress) PROVE AccountsInv'
  BY <1>2, <1>3, <1>4 DEF RunSystems, clients
<1>5. CASE EndTick
  <2>1. /\ UNCHANGED <<requests, up, mode, sent, state, player, accounts>> /\ up
        /\ bus' = AnswerEvents /\ responses' = <<>>
    BY <1>5 DEF EndTick, clients, entities
  <2>2. Clear(requests, Strangers) /\ Clear(responses, Strangers)
    BY <2>1 DEF AccountsInv, EntitiesKnown
  <2>3. Quiet(AnswerEvents, Strangers)
    <3>1. \A i \in DOMAIN AnswerEvents : i \in DOMAIN responses /\ AnswerEvents[i].entity = responses[i].entity
      BY DEF AnswerEvents
    <3> QED
      BY <2>2, <3>1 DEF Clear, Quiet
  <2>4. Strangers' = Strangers /\ Clear(<<>>, Strangers)
    BY <2>1 DEF Strangers, Clear
  <2> QED
    BY <1>2, <2>1, <2>2, <2>3, <2>4 DEF EntitiesKnown
<1>6. CASE Kill
  BY <1>6, StopAccounts DEF Kill, LimitInv
<1>7. CASE Restart
  <2>1. /\ UNCHANGED <<mode, sent, state, player, accounts, bus>> /\ ~up
        /\ requests' = <<>> /\ responses' = <<>>
    BY <1>7 DEF Restart, clients, entities
  <2>2. bus' = <<>>
    BY <2>1 DEF AccountsInv, EntitiesKnown
  <2>3. EntitiesKnown'
    BY <2>1, <2>2 DEF EntitiesKnown, Clear, Quiet
  <2> QED
    BY <2>1, <2>3 DEF AccountsInv, PlayersKnown, AccountsMatch, RegisterFirst
<1>8. CASE Loader \/ Updater \/ DatabaseFails
  <2>1. UNCHANGED <<up, mode, sent, state, player, accounts, bus>>
    BY <1>8 DEF Loader, Updater, DatabaseFails, session, clients, entities
  <2>2. CASE UNCHANGED <<requests, responses>>
    BY <1>2, <1>3, <2>1, <2>2
  <2>3. CASE ~up
    BY <1>2, <2>1, <2>3 DEF AccountsInv, EntitiesKnown
  <2>4. CASE up /\ requests # <<>> /\ requests' = Tail(requests)
    <3>1. Clear(requests, Strangers) /\ Clear(responses, Strangers) /\ Quiet(bus, Strangers)
      BY <2>4 DEF AccountsInv, EntitiesKnown
    <3>2. Clear(requests', Strangers) /\ Head(requests).entity \notin Strangers
      BY <1>1, <2>4, <3>1, ClearQueue
    <3>3. ASSUME NEW answer \in Answer, answer.entity = Head(requests).entity, responses' = Append(responses, answer)
          PROVE  Clear(responses', Strangers)
      BY <1>1, <3>1, <3>2, <3>3, ClearQueue
    <3>4. ASSUME Clear(responses', Strangers) PROVE AccountsInv'
      BY <1>2, <2>1, <2>4, <3>1, <3>2, <3>4 DEF EntitiesKnown, Strangers
    <3>5. CASE responses' = responses
      BY <3>1, <3>4, <3>5
    <3>6. CASE LoadCharacterData \/ LoadFails
      <4>1. PICK row : responses' = Append(responses, [entity |-> Head(requests).entity,
                                                       id |-> Head(requests).id, row |-> row])
        BY <3>6 DEF LoadCharacterData, LoadFails
      <4>2. \A i \in DOMAIN responses' :
               responses'[i].entity \in {Head(requests).entity} \cup {responses[j].entity : j \in DOMAIN responses}
        BY <1>1, <4>1
      <4>3. Clear(responses', Strangers)
        BY <3>1, <3>2, <4>2 DEF Clear
      <4> QED
        BY <3>4, <4>3
    <3> QED
      BY <1>8, <3>5, <3>6 DEF Loader, LoaderStep, CheckCharacterLimit, CreateCharacter, DeleteCharacter,
                              Updater, DatabaseFails, BatchUpdate, BatchFails
  <2>5. CASE BatchUpdate \/ BatchFails
    BY <2>2, <2>5 DEF BatchUpdate, BatchFails
  <2>6. CASE CheckCharacterLimit
    BY <2>2, <2>3, <2>4, <2>6 DEF CheckCharacterLimit, Answered
  <2>7. CASE CreateCharacter
    <3>1. requests # <<>>
      BY <2>7 DEF CreateCharacter, LimitInv, Pending
    <3> QED
      BY <2>3, <2>4, <2>7, <3>1 DEF CreateCharacter, Answered
  <2>8. CASE DeleteCharacter
    BY <2>3, <2>4, <2>8 DEF DeleteCharacter, Answered
  <2>9. CASE LoadCharacterData \/ LoadFails
    BY <2>3, <2>4, <2>9 DEF LoadCharacterData, LoadFails, Answered
  <2> QED
    BY <1>8, <2>5, <2>6, <2>7, <2>8, <2>9 DEF Loader, LoaderStep, Updater, DatabaseFails
<1> QED
  BY <1>4, <1>5, <1>6, <1>7, <1>8

LEMMA AccountsInductive == Spec => []AccountsInv
<1>1. Init => AccountsInv
  <2> SUFFICES ASSUME Init PROVE AccountsInv
    OBVIOUS
  <2>1. /\ up /\ bus = <<>> /\ requests = <<>> /\ responses = <<>> /\ accounts = {}
        /\ \A c \in CLIENT : mode[c] = "off" /\ sent[c] = <<>> /\ state[c] = "none" /\ player[c] = NoPlayer
    BY DEF Init, NoneOf
  <2> QED
    BY <2>1 DEF AccountsInv, PlayersKnown, AccountsMatch, EntitiesKnown, RegisterFirst, Clear, Quiet
<1>2. LimitInv /\ AccountsInv /\ [Next]_vars => AccountsInv'
  <2> SUFFICES ASSUME LimitInv, AccountsInv, [Next]_vars PROVE AccountsInv'
    OBVIOUS
  <2>1. CASE Next
    BY <2>1, ClientAccounts, ServerAccounts, EventAccounts, RestAccounts DEF Next, LimitInv
  <2>2. CASE UNCHANGED vars
    BY <2>2 DEF vars, store, clients, entities, AccountsInv, PlayersKnown, AccountsMatch, EntitiesKnown,
                RegisterFirst, Strangers
  <2> QED
    BY <2>1, <2>2
<1> QED
  BY <1>1, <1>2, LimitInductive, PTL DEF Spec

(* An account is logged in exactly while one client plays it: every way a  *)
(* client can go takes its account out, and every way that leaves it a     *)
(* client leaves the account; a deleted entity's events do neither.        *)
THEOREM AccountsCorrect == Spec => []AccountsMatch
<1>1. AccountsInv => AccountsMatch
  BY DEF AccountsInv
<1> QED
  BY <1>1, AccountsInductive, PTL
-----------------------------------------------------------------------------
(* What a queue says about an entity: the events or requests of a kind,    *)
(* the answers, and whose characters are to be deleted.                    *)
Told(refs, what, d) ==
    {refs[i] : i \in {j \in DOMAIN refs : refs[j].what = what /\ refs[j].entity = d}}

Replies(answers, d) == {answers[i] : i \in {j \in DOMAIN answers : answers[j].entity = d}}

DeletionsOf(reqs) == {reqs[i].account : i \in {j \in DOMAIN reqs : reqs[j].what = "delete"}}

(* The entity enters the game once.                                        *)
Begins(event, d) == event.what = "init" /\ event.entity = d
Once(events, d) == \A i, j \in DOMAIN events : Begins(events[i], d) /\ Begins(events[j], d) => i = j

(* No deletion for the account comes after a load for the entity.          *)
Ordered(reqs, d, account) ==
    \A i, j \in DOMAIN reqs :
        reqs[i].what = "load" /\ reqs[i].entity = d /\ j > i /\ reqs[j].what = "delete" =>
            reqs[j].account # account

(* What a client has sent when it is in mode m, its entity in state st and *)
(* it has begun to play: it asks for one character only, and for no        *)
(* deletion afterwards.                                                    *)
Without(messages, kinds) == \A i \in DOMAIN messages : messages[i].what \notin kinds

Choice(messages, m, st, begun) ==
    /\ st \in {"none", "Connected"} =>
          m \notin {"select", "play"} /\ Without(messages, {"character", "delete"})
    /\ \A i, j \in DOMAIN messages :
          messages[i].what = "character" /\ j > i => messages[j].what \notin {"character", "delete"}
    /\ m = "select" => ~begun /\ Without(messages, {"character"})
    /\ begun => Without(messages, {"character", "delete"})

Begun(d) == state[d] = "Character" \/ Told(bus, "init", d) # {}

(* The character that the entity plays, or will play.                      *)
Wants(d, id) ==
    IF state[d] = "Character" THEN character[d] = id
    ELSE \E event \in Told(bus, "init", d) : event.id = id

(* It is there and stays there, as nobody has asked for its deletion.      *)
Has(d, id) == id \in OwnedBy(db, player[d]) /\ player[d] \notin DeletionsOf(requests)

(* The strengthening of PlaysItsCharacter, for an entity: events reach it  *)
(* in the state they are for, the loader loads the character of the entity *)
(* that waits for it, and the answers are about that one, too.             *)
EventsFit(d) ==
    /\ Once(bus, d)
    /\ Told(bus, "init", d) # {} => state[d] = "Registered"
    /\ Told(bus, "exit", d) # {} => state[d] = "Character"
    /\ ~up => state[d] = "none"

LoadsFit(d) ==
    /\ \A request \in Told(requests, "load", d) :
          Wants(d, request.id) /\ request.account = player[d]
    /\ Ordered(requests, d, player[d])
    /\ \A answer \in Replies(responses, d) :
          Wants(d, answer.id) /\ (answer.row # NoRow => Has(d, answer.id))

DataFits(d) ==
    /\ \A event \in Told(bus, "update", d) :
          state[d] = "Character" /\ event.id = character[d] /\ Has(d, event.id)
    /\ stats[d] # NoStats =>
          state[d] = "Character" /\ stats[d].id = character[d] /\ Has(d, character[d])

Play(d) ==
    /\ EventsFit(d)
    /\ Choice(sent[d], mode[d], state[d], Begun(d))
    /\ up => LoadsFit(d)
    /\ DataFits(d)

PlayInv == \A d \in CLIENT : Play(d)

(* How the queues change.                                                  *)
LEMMA ToldAppend ==
    ASSUME NEW T, NEW refs \in Seq(T), NEW ref \in T, NEW what, NEW d
    PROVE  Told(Append(refs, ref), what, d) =
               Told(refs, what, d) \cup (IF ref.what = what /\ ref.entity = d THEN {ref} ELSE {})
<1> DEFINE n == Len(refs) + 1
           s == Append(refs, ref)
<1>1. /\ n \in DOMAIN s /\ s[n] = ref
      /\ \A i \in DOMAIN refs : i \in DOMAIN s /\ s[i] = refs[i]
      /\ \A i \in DOMAIN s : i = n \/ i \in DOMAIN refs
  OBVIOUS
<1> HIDE DEF s, n
<1>2. QED
  BY <1>1 DEF Told, s

LEMMA ToldTail ==
    ASSUME NEW T, NEW refs \in Seq(T), refs # <<>>, NEW what, NEW d
    PROVE  Told(refs, what, d) =
               Told(Tail(refs), what, d)
                   \cup (IF Head(refs).what = what /\ Head(refs).entity = d THEN {Head(refs)} ELSE {})
<1> DEFINE s == Tail(refs)
<1>1. /\ 1 \in DOMAIN refs /\ Head(refs) = refs[1]
      /\ \A i \in DOMAIN s : i + 1 \in DOMAIN refs /\ s[i] = refs[i + 1]
      /\ \A i \in DOMAIN refs : i = 1 \/ \E j \in DOMAIN s : s[j] = refs[i]
  <2>1. /\ 1 \in DOMAIN refs /\ Head(refs) = refs[1]
        /\ \A i \in DOMAIN s : i + 1 \in DOMAIN refs /\ s[i] = refs[i + 1]
        /\ \A i \in DOMAIN refs : i = 1 \/ (i - 1 \in DOMAIN s /\ s[i - 1] = refs[i])
    OBVIOUS
  <2> HIDE DEF s
  <2> QED
    BY <2>1
<1> HIDE DEF s
<1>2. \A ref : ref \in Told(refs, what, d) <=>
                  ref \in Told(s, what, d) \/ (ref = refs[1] /\ ref.what = what /\ ref.entity = d)
  <2> SUFFICES ASSUME NEW ref
               PROVE  ref \in Told(refs, what, d) <=>
                          ref \in Told(s, what, d) \/ (ref = refs[1] /\ ref.what = what /\ ref.entity = d)
    OBVIOUS
  <2>1. ref \in Told(refs, what, d) <=>
            (\E i \in DOMAIN refs : ref = refs[i]) /\ ref.what = what /\ ref.entity = d
    BY DEF Told
  <2>2. ref \in Told(s, what, d) <=>
            (\E i \in DOMAIN s : ref = s[i]) /\ ref.what = what /\ ref.entity = d
    BY DEF Told
  <2> QED
    BY <1>1, <2>1, <2>2
<1>3. QED
  BY <1>1, <1>2 DEF s

LEMMA ToldBury ==
    ASSUME NEW refs, NEW c \in CLIENT, NEW d \in CLIENT, NEW what,
           \A i \in DOMAIN refs : /\ Buried(refs[i], c).entity \in {Nobody, refs[i].entity} \ {c}
                                  /\ Buried(refs[i], c).what = refs[i].what
    PROVE  Told(Bury(refs, c), what, d) = IF d = c THEN {} ELSE Told(refs, what, d)
<1> DEFINE s == Bury(refs, c)
<1>1. /\ DOMAIN s = DOMAIN refs
      /\ \A i \in DOMAIN refs : s[i] = Buried(refs[i], c)
  BY DEF Bury
<1>2. d # Nobody
  BY Nothings
<1> HIDE DEF s
<1>3. \A i \in DOMAIN refs : s[i].entity = d => d # c /\ refs[i].entity = d
  BY <1>1, <1>2
<1>4. \A i \in DOMAIN refs : refs[i].entity = d /\ d # c => s[i] = refs[i]
  BY <1>1 DEF Buried
<1>5. \A i \in DOMAIN refs : s[i].what = refs[i].what
  BY <1>1
<1>6. QED
  BY <1>1, <1>3, <1>4, <1>5 DEF Told, s

LEMMA RepliesAppend ==
    ASSUME NEW T, NEW refs \in Seq(T), NEW ref \in T, NEW d
    PROVE  Replies(Append(refs, ref), d) =
               Replies(refs, d) \cup (IF ref.entity = d THEN {ref} ELSE {})
<1> DEFINE n == Len(refs) + 1
           s == Append(refs, ref)
<1>1. /\ n \in DOMAIN s /\ s[n] = ref
      /\ \A i \in DOMAIN refs : i \in DOMAIN s /\ s[i] = refs[i]
      /\ \A i \in DOMAIN s : i = n \/ i \in DOMAIN refs
  OBVIOUS
<1> HIDE DEF s, n
<1>2. QED
  BY <1>1 DEF Replies, s

LEMMA RepliesBury ==
    ASSUME NEW refs, NEW c \in CLIENT, NEW d \in CLIENT,
           \A i \in DOMAIN refs : Buried(refs[i], c).entity \in {Nobody, refs[i].entity} \ {c}
    PROVE  Replies(Bury(refs, c), d) = IF d = c THEN {} ELSE Replies(refs, d)
<1> DEFINE s == Bury(refs, c)
<1>1. /\ DOMAIN s = DOMAIN refs
      /\ \A i \in DOMAIN refs : s[i] = Buried(refs[i], c)
  BY DEF Bury
<1>2. d # Nobody
  BY Nothings
<1> HIDE DEF s
<1>3. \A i \in DOMAIN refs : s[i].entity = d => d # c /\ refs[i].entity = d
  BY <1>1, <1>2
<1>4. \A i \in DOMAIN refs : refs[i].entity = d /\ d # c => s[i] = refs[i]
  BY <1>1 DEF Buried
<1>5. QED
  BY <1>1, <1>3, <1>4 DEF Replies, s

LEMMA DeletionsAppend ==
    ASSUME NEW T, NEW reqs \in Seq(T), NEW req \in T
    PROVE  DeletionsOf(Append(reqs, req)) =
               DeletionsOf(reqs) \cup (IF req.what = "delete" THEN {req.account} ELSE {})
<1> DEFINE n == Len(reqs) + 1
           s == Append(reqs, req)
<1>1. /\ n \in DOMAIN s /\ s[n] = req
      /\ \A i \in DOMAIN reqs : i \in DOMAIN s /\ s[i] = reqs[i]
      /\ \A i \in DOMAIN s : i = n \/ i \in DOMAIN reqs
  OBVIOUS
<1> HIDE DEF s, n
<1>2. QED
  BY <1>1 DEF DeletionsOf, s

LEMMA OnceQueue ==
    ASSUME NEW T, NEW events \in Seq(T), NEW d, Once(events, d)
    PROVE  /\ \A event \in T : ~Begins(event, d) \/ Told(events, "init", d) = {} =>
                  Once(Append(events, event), d)
           /\ events # <<>> => /\ Once(Tail(events), d)
                               /\ Begins(Head(events), d) => Told(Tail(events), "init", d) = {}
<1>1. ASSUME NEW event \in T, ~Begins(event, d) \/ Told(events, "init", d) = {}
      PROVE  Once(Append(events, event), d)
  <2> DEFINE n == Len(events) + 1
             s == Append(events, event)
  <2>1. /\ s[n] = event
        /\ \A i \in DOMAIN s : i = n \/ (i \in DOMAIN events /\ s[i] = events[i])
    OBVIOUS
  <2> HIDE DEF s, n
  <2>2. Begins(event, d) => \A i \in DOMAIN events : ~Begins(events[i], d)
    BY <1>1 DEF Told, Begins
  <2>3. Once(s, d)
    BY <2>1, <2>2 DEF Once
  <2>4. QED
    BY <2>3 DEF s
<1>2. ASSUME events # <<>>
      PROVE  /\ Once(Tail(events), d)
             /\ Begins(Head(events), d) => Told(Tail(events), "init", d) = {}
  <2> DEFINE s == Tail(events)
  <2>1. /\ 1 \in DOMAIN events /\ Head(events) = events[1]
        /\ \A i \in DOMAIN s : i \in Nat \ {0} /\ i + 1 \in DOMAIN events /\ s[i] = events[i + 1]
    BY <1>2
  <2> HIDE DEF s
  <2>2. Once(s, d)
    BY <2>1 DEF Once
  <2>3. Begins(Head(events), d) => \A i \in DOMAIN s : ~Begins(s[i], d)
    BY <2>1 DEF Once
  <2>4. QED
    BY <2>2, <2>3 DEF s, Told, Begins
<1>3. QED
  BY <1>1, <1>2

(* Requests leave the queue from the front, and lose their entity in it.   *)
LEMMA RequestQueue ==
    ASSUME NEW T, NEW reqs \in Seq(T), reqs # <<>>, NEW d, NEW account, Ordered(reqs, d, account)
    PROVE  /\ DeletionsOf(reqs) = DeletionsOf(Tail(reqs))
                                      \cup (IF Head(reqs).what = "delete" THEN {Head(reqs).account} ELSE {})
           /\ Ordered(Tail(reqs), d, account)
           /\ Head(reqs).what = "load" /\ Head(reqs).entity = d => account \notin DeletionsOf(Tail(reqs))
<1> DEFINE s == Tail(reqs)
<1>1. /\ 1 \in DOMAIN reqs /\ Head(reqs) = reqs[1]
      /\ \A i \in DOMAIN s : i \in Nat \ {0} /\ i + 1 \in DOMAIN reqs /\ s[i] = reqs[i + 1]
      /\ \A i \in DOMAIN reqs : i = 1 \/ (i - 1 \in DOMAIN s /\ s[i - 1] = reqs[i])
  OBVIOUS
<1> HIDE DEF s
<1>2. DeletionsOf(reqs) = DeletionsOf(s) \cup (IF reqs[1].what = "delete" THEN {reqs[1].account} ELSE {})
  BY <1>1 DEF DeletionsOf
<1>3. Ordered(s, d, account)
  BY <1>1 DEF Ordered
<1>4. reqs[1].what = "load" /\ reqs[1].entity = d => account \notin DeletionsOf(s)
  BY <1>1 DEF Ordered, DeletionsOf
<1>5. QED
  BY <1>1, <1>2, <1>3, <1>4 DEF s

LEMMA OrderedAppend ==
    ASSUME NEW T, NEW reqs \in Seq(T), NEW d, NEW account, Ordered(reqs, d, account), NEW req \in T,
           req.what = "delete" => req.account # account \/ Told(reqs, "load", d) = {}
    PROVE  Ordered(Append(reqs, req), d, account)
<1> DEFINE n == Len(reqs) + 1
           s == Append(reqs, req)
<1>1. /\ s[n] = req /\ n \in Nat
      /\ \A i \in DOMAIN s : i \in Nat /\ i <= n /\ (i = n \/ (i \in DOMAIN reqs /\ s[i] = reqs[i]))
  OBVIOUS
<1> HIDE DEF s, n
<1>2. Told(reqs, "load", d) = {} => \A i \in DOMAIN reqs : reqs[i].what # "load" \/ reqs[i].entity # d
  BY DEF Told
<1>3. ASSUME NEW i \in DOMAIN s, NEW j \in DOMAIN s,
             s[i].what = "load", s[i].entity = d, j > i, s[j].what = "delete"
      PROVE  s[j].account # account
  <2>1. i # n /\ i \in DOMAIN reqs /\ s[i] = reqs[i]
    BY <1>1, <1>3
  <2>2. CASE j = n
    BY <1>1, <1>2, <1>3, <2>1, <2>2
  <2>3. CASE j # n
    BY <1>1, <1>3, <2>1, <2>3 DEF Ordered
  <2>4. QED
    BY <2>2, <2>3
<1>4. QED
  BY <1>3 DEF Ordered, s

(* A deleted entity's events and requests keep their places.               *)
LEMMA OnceBury ==
    ASSUME NEW T, NEW events \in Seq(T), NEW c, NEW d, Once(events, d), d # Nobody,
           \A event \in T : Buried(event, c).what = event.what /\ Buried(event, c).entity \in {Nobody, event.entity}
    PROVE  Once(Bury(events, c), d)
<1> DEFINE s == Bury(events, c)
<1>1. /\ DOMAIN s = DOMAIN events
      /\ \A i \in DOMAIN s : s[i].what = events[i].what /\ s[i].entity \in {Nobody, events[i].entity}
  BY DEF Bury
<1> HIDE DEF s
<1>2. \A i \in DOMAIN s : Begins(s[i], d) => Begins(events[i], d)
  BY <1>1 DEF Begins
<1>3. Once(s, d)
  BY <1>1, <1>2 DEF Once
<1>4. QED
  BY <1>3 DEF s

LEMMA RequestsBury ==
    ASSUME NEW reqs \in Seq(Request), NEW c \in CLIENT, NEW d, NEW account, d # Nobody
    PROVE  /\ DeletionsOf(Bury(reqs, c)) = DeletionsOf(reqs)
           /\ Ordered(reqs, d, account) => Ordered(Bury(reqs, c), d, account)
<1> DEFINE s == Bury(reqs, c)
<1>1. DOMAIN s = DOMAIN reqs
  BY DEF Bury
<1>2. \A i \in DOMAIN s : /\ s[i].what = reqs[i].what /\ s[i].account = reqs[i].account
                          /\ s[i].entity = d => reqs[i].entity = d
  <2> SUFFICES ASSUME NEW i \in DOMAIN reqs
               PROVE  /\ s[i].what = reqs[i].what /\ s[i].account = reqs[i].account
                      /\ s[i].entity = d => reqs[i].entity = d
    BY <1>1
  <2>1. reqs[i] \in Request /\ s[i] = Buried(reqs[i], c)
    BY DEF Bury
  <2>2. s[i].entity \in {Nobody, reqs[i].entity}
    BY <2>1, BuriedEntity
  <2> QED
    BY <2>1, <2>2, BuryRequest
<1> HIDE DEF s
<1>3. DeletionsOf(s) = DeletionsOf(reqs)
  BY <1>1, <1>2 DEF DeletionsOf
<1>4. Ordered(reqs, d, account) => Ordered(s, d, account)
  BY <1>1, <1>2 DEF Ordered
<1>5. QED
  BY <1>3, <1>4 DEF s

(* Where nothing is said of an entity, nothing can be out of place.        *)
LEMMA NoneTold ==
    ASSUME NEW refs, NEW d
    PROVE  /\ Told(refs, "init", d) = {} => Once(refs, d)
           /\ Told(refs, "load", d) = {} => \A account : Ordered(refs, d, account)
           /\ refs = <<>> => Replies(refs, d) = {} /\ \A what : Told(refs, what, d) = {}
<1>1. ASSUME Told(refs, "init", d) = {} PROVE Once(refs, d)
  <2>1. \A i \in DOMAIN refs : ~Begins(refs[i], d)
    BY <1>1 DEF Told, Begins
  <2> QED
    BY <2>1 DEF Once
<1>2. ASSUME Told(refs, "load", d) = {}, NEW account PROVE Ordered(refs, d, account)
  <2>1. \A i \in DOMAIN refs : refs[i].what # "load" \/ refs[i].entity # d
    BY <1>2 DEF Told
  <2> QED
    BY <2>1 DEF Ordered
<1>3. ASSUME refs = <<>> PROVE Replies(refs, d) = {} /\ \A what : Told(refs, what, d) = {}
  BY <1>3 DEF Replies, Told
<1> QED
  BY <1>1, <1>2, <1>3

(* Messages that are taken or lost leave the choice as it is, and so do    *)
(* those that are not about a character.                                   *)
LEMMA ChoiceLess ==
    ASSUME NEW t \in Seq(Message), NEW m, NEW st, NEW begun \in BOOLEAN, Choice(t, m, st, begun),
           NEW l, l = m \/ l \notin {"select", "play"}, NEW s,
           (t # <<>> /\ s = Tail(t)) \/ \E n \in 0 .. Len(t) : s = SubSeq(t, 1, n)
    PROVE  Choice(s, l, st, begun)
<1>1. \E k \in {0, 1} : \A i \in DOMAIN s : i \in Nat /\ i + k \in DOMAIN t /\ s[i] = t[i + k]
  <2>1. CASE t # <<>> /\ s = Tail(t)
    <3>1. \A i \in DOMAIN s : i \in Nat /\ i + 1 \in DOMAIN t /\ s[i] = t[i + 1]
      BY <2>1
    <3> QED
      BY <3>1
  <2>2. CASE \E n \in 0 .. Len(t) : s = SubSeq(t, 1, n)
    <3>1. PICK n \in 0 .. Len(t) : s = SubSeq(t, 1, n)
      BY <2>2
    <3>2. \A i \in DOMAIN s : i \in Nat /\ i + 0 \in DOMAIN t /\ s[i] = t[i + 0]
      BY <3>1, SubSeqProperties
    <3> QED
      BY <3>2
  <2> QED
    BY <2>1, <2>2
<1>2. PICK k \in {0, 1} : \A i \in DOMAIN s : i \in Nat /\ i + k \in DOMAIN t /\ s[i] = t[i + k]
  BY <1>1
<1>3. \A kinds : Without(t, kinds) => Without(s, kinds)
  BY <1>2 DEF Without
<1>4. ASSUME NEW i \in DOMAIN s, NEW j \in DOMAIN s, s[i].what = "character", j > i
      PROVE  s[j].what \notin {"character", "delete"}
  <2>1. i + k \in DOMAIN t /\ j + k \in DOMAIN t /\ j + k > i + k
    BY <1>2, <1>4
  <2> QED
    BY <1>2, <1>4, <2>1 DEF Choice
<1> QED
  BY <1>3, <1>4 DEF Choice

LEMMA ChoiceMore ==
    ASSUME NEW t \in Seq(Message), NEW m, NEW st, NEW begun \in BOOLEAN, Choice(t, m, st, begun),
           NEW l, NEW message \in Message,
           \/ message.what \notin {"character", "delete"} /\ (l = m \/ l \notin {"select", "play"})
           \/ m = "select" /\ message.what = "character" /\ l = "play"
           \/ m = "select" /\ message.what = "delete" /\ l = "select"
    PROVE  Choice(Append(t, message), l, st, begun)
<1> DEFINE s == Append(t, message)
           n == Len(t) + 1
<1>1. /\ n \in Nat /\ s[n] = message
      /\ \A i \in DOMAIN s : i \in Nat /\ i <= n /\ (i = n \/ (i \in DOMAIN t /\ s[i] = t[i]))
  OBVIOUS
<1> HIDE DEF s, n
<1>2. \A kinds : Without(t, kinds) /\ message.what \notin kinds => Without(s, kinds)
  BY <1>1 DEF Without
<1>3. m = "select" => /\ st \notin {"none", "Connected"} /\ ~begun
                      /\ \A i \in DOMAIN t : t[i].what # "character"
  BY DEF Choice, Without
<1>4. ASSUME NEW i \in DOMAIN s, NEW j \in DOMAIN s, s[i].what = "character", j > i
      PROVE  s[j].what \notin {"character", "delete"}
  <2>1. i # n /\ i \in DOMAIN t /\ s[i] = t[i]
    BY <1>1, <1>4
  <2>2. message.what \notin {"character", "delete"}
    BY <1>3, <1>4, <2>1
  <2> QED
    BY <1>1, <1>4, <2>1, <2>2 DEF Choice
<1>5. Choice(s, l, st, begun)
  BY <1>2, <1>3, <1>4 DEF Choice
<1>6. QED
  BY <1>5 DEF s
-----------------------------------------------------------------------------
(* Nothing but the end of a connection is said of a client without Player. *)
LEMMA StrangerSilent ==
    ASSUME AccountsInv, up, NEW d \in Strangers
    PROVE  /\ \A what : what # "disconnect" => Told(bus, what, d) = {}
           /\ \A what : Told(requests, what, d) = {}
           /\ Replies(responses, d) = {}
<1>1. Clear(requests, Strangers) /\ Clear(responses, Strangers) /\ Quiet(bus, Strangers)
  BY DEF AccountsInv, EntitiesKnown
<1>2. \A what : what # "disconnect" => Told(bus, what, d) = {}
  BY <1>1 DEF Quiet, Told
<1>3. \A what : Told(requests, what, d) = {}
  BY <1>1 DEF Clear, Told
<1>4. Replies(responses, d) = {}
  BY <1>1 DEF Clear, Replies
<1> QED
  BY <1>2, <1>3, <1>4

(* A step leaves an entity as it is: what it is, what the events say of    *)
(* it, what the loader has for it and has answered, and its characters.    *)
EntityKept(d) ==
    /\ state'[d] = state[d] /\ player'[d] = player[d] /\ character'[d] = character[d]
    /\ stats'[d] # NoStats => /\ state[d] = "Character"
                              /\ stats'[d].id = character[d]
                              /\ Has(d, character[d])

EventsKept(d) ==
    /\ Once(bus', d)
    /\ Told(bus', "init", d) = Told(bus, "init", d)
    /\ Told(bus', "exit", d) # {} => Told(bus, "exit", d) # {} \/ state[d] = "Character"
    /\ Told(bus', "update", d) \subseteq Told(bus, "update", d)

LoadsKept(d) ==
    /\ Told(requests', "load", d) \subseteq Told(requests, "load", d)
    /\ Ordered(requests', d, player[d])
    /\ player[d] \in DeletionsOf(requests') => player[d] \in DeletionsOf(requests)

RepliesKept(d) ==
    \A answer \in Replies(responses', d) :
        answer \notin Replies(responses, d) =>
            Wants(d, answer.id) /\ (answer.row # NoRow => Has(d, answer.id)')

RowsKept(d) ==
    player[d] \notin DeletionsOf(requests) => OwnedBy(db, player[d]) \subseteq OwnedBy(db', player[d])

LEMMA Kept ==
    ASSUME NEW d \in CLIENT, up, up', Play(d),
           EntityKept(d), EventsKept(d), LoadsKept(d), RepliesKept(d), RowsKept(d),
           Choice(sent'[d], mode'[d], state[d], Begun(d))
    PROVE  Play(d)'
<1>1. /\ Begun(d)' = Begun(d)
      /\ \A id : Wants(d, id) => Wants(d, id)'
      /\ \A id : Has(d, id) => Has(d, id)'
  <2>1. Begun(d)' = Begun(d)
    BY DEF EntityKept, EventsKept, Begun
  <2>2. \A id : Wants(d, id) => Wants(d, id)'
    BY DEF EntityKept, EventsKept, Wants
  <2>3. \A id : Has(d, id) => Has(d, id)'
    BY DEF EntityKept, LoadsKept, RowsKept, Has
  <2> QED
    BY <2>1, <2>2, <2>3
<1>2. EventsFit(d)'
  BY DEF Play, EventsFit, EntityKept, EventsKept
<1>3. Choice(sent[d], mode[d], state[d], Begun(d))'
  BY <1>1 DEF EntityKept
<1>4. LoadsFit(d)'
  <2>1. \A request \in Told(requests', "load", d) : Wants(d, request.id)' /\ request.account = player'[d]
    BY <1>1 DEF Play, LoadsFit, LoadsKept, EntityKept
  <2>2. \A answer \in Replies(responses', d) : Wants(d, answer.id)' /\ (answer.row # NoRow => Has(d, answer.id)')
    <3>1. ASSUME NEW answer \in Replies(responses', d)
          PROVE  Wants(d, answer.id) /\ (answer.row # NoRow => Has(d, answer.id) \/ Has(d, answer.id)')
      BY DEF Play, LoadsFit, RepliesKept
    <3> QED
      BY <1>1, <3>1
  <2> QED
    BY <2>1, <2>2 DEF LoadsFit, LoadsKept, EntityKept
<1>5. DataFits(d)'
  <2>1. \A event \in Told(bus', "update", d) :
           state'[d] = "Character" /\ event.id = character'[d] /\ Has(d, event.id)'
    BY <1>1 DEF Play, DataFits, EntityKept, EventsKept
  <2>2. stats'[d] # NoStats => state'[d] = "Character" /\ stats'[d].id = character'[d] /\ Has(d, character[d])'
    <3>1. PICK id : id = character[d]
      OBVIOUS
    <3>2. stats'[d] # NoStats => Has(d, id)'
      BY <1>1, <3>1 DEF EntityKept
    <3>3. character'[d] = id
      BY <3>1 DEF EntityKept
    <3> QED
      BY <3>1, <3>2, <3>3 DEF EntityKept
  <2> QED
    BY <2>1, <2>2 DEF DataFits
<1> QED
  BY <1>2, <1>3, <1>4, <1>5 DEF Play

(* What concerns another entity than d leaves the events of d as they are. *)
LEMMA EventsOfOthers ==
    ASSUME TypeOK, NEW c, NEW d \in CLIENT, d # c, Once(bus, d),
           \/ UNCHANGED bus
           \/ \E event \in ServerEvent : event.entity = c /\ Emit(event)
           \/ bus # <<>> /\ Head(bus).entity = c /\ bus' = Tail(bus)
           \/ bus # <<>> /\ Head(bus).entity = c /\ c \in CLIENT /\ bus' = Bury(Tail(bus), c)
    PROVE  EventsKept(d)
<1>1. bus \in Seq(ServerEvent) /\ d # Nobody
  BY Nothings DEF TypeOK
<1>2. CASE UNCHANGED bus
  BY <1>2 DEF EventsKept
<1>3. ASSUME NEW event \in ServerEvent, event.entity = c, Emit(event) PROVE EventsKept(d)
  <2>1. bus' = Append(bus, event)
    BY <1>3 DEF Emit
  <2>2. ASSUME NEW what PROVE Told(bus', what, d) = Told(bus, what, d)
    <3>1. Told(Append(bus, event), what, d) =
              Told(bus, what, d) \cup (IF event.what = what /\ event.entity = d THEN {event} ELSE {})
      BY <1>1, ToldAppend
    <3> QED
      BY <1>3, <2>1, <3>1
  <2>3. Once(bus', d)
    BY <1>1, <1>3, <2>1, OnceQueue DEF Begins
  <2> QED
    BY <2>2, <2>3 DEF EventsKept
<1>4. ASSUME bus # <<>>, Head(bus).entity = c
      PROVE  Once(Tail(bus), d) /\ \A what : Told(Tail(bus), what, d) = Told(bus, what, d)
  <2>1. Once(Tail(bus), d)
    BY <1>1, <1>4, OnceQueue
  <2>2. ASSUME NEW what PROVE Told(Tail(bus), what, d) = Told(bus, what, d)
    <3>1. Told(bus, what, d) =
              Told(Tail(bus), what, d)
                  \cup (IF Head(bus).what = what /\ Head(bus).entity = d THEN {Head(bus)} ELSE {})
      BY <1>1, <1>4, ToldTail
    <3> QED
      BY <1>4, <3>1
  <2> QED
    BY <2>1, <2>2
<1>5. CASE bus # <<>> /\ Head(bus).entity = c /\ bus' = Tail(bus)
  BY <1>4, <1>5 DEF EventsKept
<1>6. CASE bus # <<>> /\ Head(bus).entity = c /\ c \in CLIENT /\ bus' = Bury(Tail(bus), c)
  <2>1. Tail(bus) \in Seq(ServerEvent)
    BY <1>1, <1>6
  <2>2. \A event \in ServerEvent : /\ Buried(event, c).what = event.what
                                   /\ Buried(event, c).entity \in {Nobody, event.entity} \ {c}
    BY <1>6, BuryEvent, BuriedEntity
  <2>3. Once(Bury(Tail(bus), c), d)
    BY <1>1, <1>4, <1>6, <2>1, <2>2, OnceBury
  <2>4. ASSUME NEW what PROVE Told(Bury(Tail(bus), c), what, d) = Told(Tail(bus), what, d)
    <3>1. \A i \in DOMAIN Tail(bus) : /\ Buried(Tail(bus)[i], c).entity \in {Nobody, Tail(bus)[i].entity} \ {c}
                                      /\ Buried(Tail(bus)[i], c).what = Tail(bus)[i].what
      BY <2>1, <2>2
    <3>2. PICK events : events = Tail(bus)
      OBVIOUS
    <3>3. \A i \in DOMAIN events : /\ Buried(events[i], c).entity \in {Nobody, events[i].entity} \ {c}
                                  /\ Buried(events[i], c).what = events[i].what
      BY <3>1, <3>2
    <3>4. Told(Bury(events, c), what, d) = IF d = c THEN {} ELSE Told(events, what, d)
      BY <1>6, <3>3, ToldBury
    <3> QED
      BY <3>2, <3>4
  <2> QED
    BY <1>4, <1>6, <2>3, <2>4 DEF EventsKept
<1> QED
  BY <1>2, <1>3, <1>5, <1>6

(* Nor does it change what the loader has for d.                           *)
LEMMA LoadsOfOthers ==
    ASSUME TypeOK, NEW c, NEW d \in CLIENT, Ordered(requests, d, player[d]),
           \/ UNCHANGED <<requests, responses>>
           \/ /\ UNCHANGED responses
              /\ \E request \in Request :
                    /\ requests' = Append(requests, request)
                    /\ request.what = "load" => request.entity # d
                    /\ request.what = "delete" => request.account # player[d]
           \/ /\ UNCHANGED responses
              /\ requests # <<>>
              /\ requests' = Tail(requests)
           \/ /\ c \in CLIENT /\ c # d
              /\ requests' = Bury(requests, c)
              /\ responses' = Bury(responses, c)
    PROVE  LoadsKept(d) /\ RepliesKept(d)
<1>1. requests \in Seq(Request) /\ responses \in Seq(Answer) /\ d # Nobody
  BY Nothings DEF TypeOK, StoreOK
<1>2. CASE UNCHANGED <<requests, responses>>
  BY <1>2 DEF LoadsKept, RepliesKept
<1>3. CASE /\ UNCHANGED responses
           /\ \E request \in Request :
                 /\ requests' = Append(requests, request)
                 /\ request.what = "load" => request.entity # d
                 /\ request.what = "delete" => request.account # player[d]
  <2>1. PICK request \in Request :
           /\ requests' = Append(requests, request)
           /\ request.what = "load" => request.entity # d
           /\ request.what = "delete" => request.account # player[d]
    BY <1>3
  <2>2. Told(requests', "load", d) = Told(requests, "load", d)
    <3>1. Told(Append(requests, request), "load", d) =
              Told(requests, "load", d)
                  \cup (IF request.what = "load" /\ request.entity = d THEN {request} ELSE {})
      BY <1>1, ToldAppend
    <3> QED
      BY <2>1, <3>1
  <2>3. Ordered(requests', d, player[d])
    BY <1>1, <2>1, OrderedAppend
  <2>4. player[d] \in DeletionsOf(requests') => player[d] \in DeletionsOf(requests)
    BY <1>1, <2>1, DeletionsAppend
  <2> QED
    BY <1>3, <2>2, <2>3, <2>4 DEF LoadsKept, RepliesKept
<1>4. CASE UNCHANGED responses /\ requests # <<>> /\ requests' = Tail(requests)
  <2>1. Told(Tail(requests), "load", d) \subseteq Told(requests, "load", d)
    BY <1>1, <1>4, ToldTail
  <2>2. Ordered(Tail(requests), d, player[d]) /\ DeletionsOf(Tail(requests)) \subseteq DeletionsOf(requests)
    BY <1>1, <1>4, RequestQueue
  <2> QED
    BY <1>4, <2>1, <2>2 DEF LoadsKept, RepliesKept
<1>5. CASE c \in CLIENT /\ c # d /\ requests' = Bury(requests, c) /\ responses' = Bury(responses, c)
  <2>1. \A i \in DOMAIN requests : /\ Buried(requests[i], c).entity \in {Nobody, requests[i].entity} \ {c}
                                   /\ Buried(requests[i], c).what = requests[i].what
    BY <1>1, <1>5, BuriedEntity, BuryRequest
  <2>2. Told(requests', "load", d) = Told(requests, "load", d)
    BY <1>5, <2>1, ToldBury
  <2>3. \A i \in DOMAIN responses : Buried(responses[i], c).entity \in {Nobody, responses[i].entity} \ {c}
    BY <1>1, <1>5, BuriedEntity
  <2>4. Replies(responses', d) = Replies(responses, d)
    BY <1>5, <2>3, RepliesBury
  <2>5. DeletionsOf(requests') = DeletionsOf(requests) /\ Ordered(requests', d, player[d])
    BY <1>1, <1>5, RequestsBury
  <2> QED
    BY <2>2, <2>4, <2>5 DEF LoadsKept, RepliesKept
<1> QED
  BY <1>2, <1>3, <1>4, <1>5

(* So d goes on as before.                                                 *)
LEMMA BystanderPlays ==
    ASSUME TypeOK, up, up', NEW c, NEW d \in CLIENT, d # c, Play(d), UNCHANGED db,
           /\ state'[d] = state[d] /\ player'[d] = player[d] /\ character'[d] = character[d]
           /\ stats'[d] = stats[d] /\ sent'[d] = sent[d] /\ mode'[d] = mode[d],
           \/ UNCHANGED bus
           \/ \E event \in ServerEvent : event.entity = c /\ Emit(event)
           \/ bus # <<>> /\ Head(bus).entity = c /\ bus' = Tail(bus)
           \/ bus # <<>> /\ Head(bus).entity = c /\ c \in CLIENT /\ bus' = Bury(Tail(bus), c),
           \/ UNCHANGED <<requests, responses>>
           \/ /\ UNCHANGED responses
              /\ \E request \in Request :
                    /\ requests' = Append(requests, request)
                    /\ request.what = "load" => request.entity # d
                    /\ request.what = "delete" => request.account # player[d]
           \/ c \in CLIENT /\ requests' = Bury(requests, c) /\ responses' = Bury(responses, c)
    PROVE  Play(d)'
<1>1. EntityKept(d)
  BY DEF EntityKept, Play, DataFits
<1>2. EventsKept(d)
  BY EventsOfOthers DEF Play, EventsFit
<1>3. LoadsKept(d) /\ RepliesKept(d)
  BY LoadsOfOthers DEF Play, LoadsFit
<1>4. RowsKept(d)
  BY DEF RowsKept
<1>5. Choice(sent'[d], mode'[d], state[d], Begun(d))
  BY DEF Play
<1> QED
  BY <1>1, <1>2, <1>3, <1>4, <1>5, Kept

(* A client whose entity is not in the game, nor will be: nothing is said  *)
(* of it any more.                                                         *)
LEMMA IdlePlays ==
    ASSUME NEW d \in CLIENT, state'[d] # "Character", stats'[d] = NoStats, up' \/ state'[d] = "none",
           \A what \in {"init", "exit", "update"} : Told(bus', what, d) = {},
           up' => Told(requests', "load", d) = {} /\ Replies(responses', d) = {},
           Choice(sent'[d], mode'[d], state'[d], FALSE)
    PROVE  Play(d)'
<1>1. Begun(d)' = FALSE
  BY DEF Begun
<1>2. EventsFit(d)'
  BY NoneTold DEF EventsFit
<1>3. up' => LoadsFit(d)'
  BY NoneTold DEF LoadsFit
<1>4. DataFits(d)'
  BY DEF DataFits
<1>5. Choice(sent[d], mode[d], state[d], Begun(d))'
  BY <1>1
<1> QED
  BY <1>2, <1>3, <1>4, <1>5 DEF Play
-----------------------------------------------------------------------------
(* A client that sends or goes: its choice stays one.                      *)
LEMMA ClientPlays ==
    ASSUME TypeOK, AccountsInv, PlayInv, NEW c \in CLIENT, ClientStep(c)
    PROVE  PlayInv'
<1>1. UNCHANGED <<db, requests, responses, up, state, player, character, stats, bus>> /\ up
  BY DEF ClientStep, Register, RequestCharacter, RequestDeletion, RequestRemoveCharacter,
         RequestCreation, RequestLogout, Close, Send, Act, store, entities
<1>2. sent[c] \in Seq(Message) /\ DOMAIN sent = CLIENT /\ DOMAIN mode = CLIENT /\ Begun(c) \in BOOLEAN
  BY DEF TypeOK, Begun
<1>3. Play(c) /\ Choice(sent[c], mode[c], state[c], Begun(c))
  BY DEF PlayInv, Play
<1>4. /\ \A d \in CLIENT \ {c} : sent'[d] = sent[d] /\ mode'[d] = mode[d]
      /\ Choice(sent'[c], mode'[c], state[c], Begun(c))
  <2>1. ASSUME NEW message \in Message, NEW m, Send(c, message), mode' = [mode EXCEPT ![c] = m],
               \/ message.what \notin {"character", "delete"} /\ (m = mode[c] \/ m \notin {"select", "play"})
               \/ mode[c] = "select" /\ message.what = "character" /\ m = "play"
               \/ mode[c] = "select" /\ message.what = "delete" /\ m = "select"
        PROVE  /\ \A d \in CLIENT \ {c} : sent'[d] = sent[d] /\ mode'[d] = mode[d]
               /\ Choice(sent'[c], mode'[c], state[c], Begun(c))
    <3>1. sent' = [sent EXCEPT ![c] = Append(sent[c], message)]
      BY <2>1 DEF Send
    <3>2. Choice(Append(sent[c], message), m, state[c], Begun(c))
      BY <1>2, <1>3, <2>1, ChoiceMore
    <3> QED
      BY <1>2, <2>1, <3>1, <3>2
  <2>2. ASSUME NEW account \in scene.players, Register(c, account)
        PROVE  /\ \A d \in CLIENT \ {c} : sent'[d] = sent[d] /\ mode'[d] = mode[d]
               /\ Choice(sent'[c], mode'[c], state[c], Begun(c))
    <3>1. [what |-> "register", account |-> account] \in Message
      BY SessionsAssumption DEF Message, TypeOK
    <3> QED
      BY <2>1, <2>2, <3>1 DEF Register
  <2>3. ASSUME NEW id \in CHARACTER, RequestCharacter(c, id)
        PROVE  /\ \A d \in CLIENT \ {c} : sent'[d] = sent[d] /\ mode'[d] = mode[d]
               /\ Choice(sent'[c], mode'[c], state[c], Begun(c))
    BY <2>1, <2>3 DEF RequestCharacter, Message
  <2>4. ASSUME NEW id \in CHARACTER, RequestDeletion(c, id)
        PROVE  /\ \A d \in CLIENT \ {c} : sent'[d] = sent[d] /\ mode'[d] = mode[d]
               /\ Choice(sent'[c], mode'[c], state[c], Begun(c))
    <3>1. mode' = [mode EXCEPT ![c] = "select"] /\ mode[c] = "select"
      BY <1>2, <2>4 DEF RequestDeletion, TypeOK
    <3> QED
      BY <2>1, <2>4, <3>1 DEF RequestDeletion, Message
  <2>5. CASE RequestRemoveCharacter(c)
    BY <2>1, <2>5 DEF RequestRemoveCharacter, Message
  <2>6. CASE RequestCreation(c)
    <3>1. mode' = [mode EXCEPT ![c] = mode[c]]
      BY <2>6 DEF RequestCreation, TypeOK
    <3> QED
      BY <2>1, <2>6, <3>1 DEF RequestCreation, Message
  <2>7. CASE RequestLogout(c)
    BY <2>1, <2>7 DEF RequestLogout, Message
  <2>8. CASE Close(c)
    <3>1. PICK n \in 0 .. Len(sent[c]) : sent' = [sent EXCEPT ![c] = SubSeq(sent[c], 1, n)]
      BY <2>8 DEF Close
    <3>2. Choice(SubSeq(sent[c], 1, n), "closed", state[c], Begun(c))
      BY <1>2, <1>3, ChoiceLess
    <3>3. mode' = [mode EXCEPT ![c] = "closed"]
      BY <2>8 DEF Close
    <3> QED
      BY <1>2, <3>1, <3>2, <3>3
  <2> QED
    BY <2>2, <2>3, <2>4, <2>5, <2>6, <2>7, <2>8 DEF ClientStep
<1>5. ASSUME NEW d \in CLIENT PROVE Play(d)'
  <2>1. Play(d)
    BY DEF PlayInv
  <2>2. Choice(sent'[d], mode'[d], state[d], Begun(d))
    BY <1>4, <2>1 DEF Play
  <2>3. EntityKept(d) /\ EventsKept(d) /\ LoadsKept(d) /\ RepliesKept(d) /\ RowsKept(d)
    BY <1>1, <2>1 DEF EntityKept, EventsKept, LoadsKept, RepliesKept, RowsKept, Play, EventsFit, LoadsFit, DataFits
  <2> QED
    BY <1>1, <2>1, <2>2, <2>3, Kept
<1> QED
  BY <1>5 DEF PlayInv

(* What every handler of a message leaves alone.                           *)
LEMMA ReceivedPlays ==
    ASSUME TypeOK, AccountsInv, PlayInv, NEW c \in CLIENT, NEW what, Receive(c, what)
    PROVE  /\ up /\ up' /\ UNCHANGED <<db, responses, character, stats>>
           /\ state[c] # "none"
           /\ sent[c] # <<>> /\ Head(sent[c]).what = what
           /\ sent' = [sent EXCEPT ![c] = Tail(sent[c])] /\ DOMAIN sent = CLIENT
           /\ sent[c] \in Seq(Message)
           /\ Choice(sent[c], mode[c], state[c], Begun(c)) /\ Begun(c) \in BOOLEAN
           /\ \A m : m = mode[c] \/ m \notin {"select", "play"} =>
                 Choice(Tail(sent[c]), m, state[c], Begun(c))
           /\ what \in {"character", "delete"} =>
                 /\ state[c] \in {"Registered", "Character"}
                 /\ ~Begun(c)
           /\ what = "character" => mode[c] # "select" /\ Without(Tail(sent[c]), {"character", "delete"})
<1>1. /\ up /\ up' /\ UNCHANGED <<db, responses, character, stats>>
      /\ state[c] # "none"
      /\ sent[c] # <<>> /\ Head(sent[c]).what = what
      /\ sent' = [sent EXCEPT ![c] = Tail(sent[c])] /\ DOMAIN sent = CLIENT
      /\ sent[c] \in Seq(Message)
  BY DEF Receive, Here, TypeOK
<1>2. Choice(sent[c], mode[c], state[c], Begun(c)) /\ Begun(c) \in BOOLEAN
  BY DEF PlayInv, Play, Begun
<1>3. \A m : m = mode[c] \/ m \notin {"select", "play"} =>
          Choice(Tail(sent[c]), m, state[c], Begun(c))
  BY <1>1, <1>2, ChoiceLess
<1>4. /\ 1 \in DOMAIN sent[c] /\ sent[c][1].what = what
      /\ \A i \in DOMAIN Tail(sent[c]) : /\ i + 1 \in DOMAIN sent[c] /\ i + 1 > 1
                                         /\ Tail(sent[c])[i] = sent[c][i + 1]
  BY <1>1
<1>5. what \in {"character", "delete"} => state[c] \in {"Registered", "Character"} /\ ~Begun(c)
  BY <1>2, <1>4 DEF Choice, Without, TypeOK
<1>6. what = "character" => mode[c] # "select" /\ Without(Tail(sent[c]), {"character", "delete"})
  BY <1>2, <1>4 DEF Choice, Without
<1> QED
  BY <1>1, <1>2, <1>3, <1>5, <1>6

(* A message that asks for nothing about a character; or its entity is     *)
(* told to leave.                                                          *)
LEMMA PlainMessage ==
    ASSUME TypeOK, AccountsInv, PlayInv, NEW c \in CLIENT, NEW what, Receive(c, what),
           UNCHANGED <<mode, state, player>>,
           \/ UNCHANGED bus
           \/ \E event \in ServerEvent :
                 /\ event.entity = c /\ Emit(event)
                 /\ event.what = "disconnect" \/ (event.what = "exit" /\ state[c] = "Character"),
           \/ UNCHANGED requests
           \/ \E request \in Request : requests' = Append(requests, request) /\ request.what = "create"
    PROVE  PlayInv'
<1>1. /\ up /\ up' /\ UNCHANGED <<db, responses, character, stats>>
      /\ sent' = [sent EXCEPT ![c] = Tail(sent[c])] /\ DOMAIN sent = CLIENT
      /\ Choice(Tail(sent[c]), mode[c], state[c], Begun(c))
  BY ReceivedPlays
<1>2. bus \in Seq(ServerEvent)
  BY DEF TypeOK
<1>3. ASSUME NEW d \in CLIENT, d # c PROVE Play(d)'
  <2>1. Play(d) /\ sent'[d] = sent[d]
    BY <1>1, <1>3 DEF PlayInv
  <2>2. \/ UNCHANGED <<requests, responses>>
        \/ /\ UNCHANGED responses
           /\ \E request \in Request :
                 /\ requests' = Append(requests, request)
                 /\ request.what = "load" => request.entity # d
                 /\ request.what = "delete" => request.account # player[d]
    BY <1>1
  <2>3. \/ UNCHANGED bus
        \/ \E event \in ServerEvent : event.entity = c /\ Emit(event)
    OBVIOUS
  <2> QED
    BY <1>1, <1>3, <2>1, <2>2, <2>3, BystanderPlays
<1>4. Play(c)'
  <2>1. Play(c)
    BY DEF PlayInv
  <2>2. EntityKept(c) /\ RowsKept(c)
    BY <1>1, <2>1 DEF EntityKept, RowsKept, Play, DataFits
  <2>3. EventsKept(c)
    <3>1. CASE UNCHANGED bus
      BY <2>1, <3>1 DEF EventsKept, Play, EventsFit
    <3>2. ASSUME NEW event \in ServerEvent, event.entity = c, Emit(event),
                 event.what = "disconnect" \/ (event.what = "exit" /\ state[c] = "Character")
          PROVE  EventsKept(c)
      <4>1. bus' = Append(bus, event)
        BY <3>2 DEF Emit
      <4>2. ASSUME NEW w PROVE Told(bus', w, c) = Told(bus, w, c) \cup (IF event.what = w THEN {event} ELSE {})
        <5>1. Told(Append(bus, event), w, c) =
                  Told(bus, w, c) \cup (IF event.what = w /\ event.entity = c THEN {event} ELSE {})
          BY <1>2, ToldAppend
        <5> QED
          BY <3>2, <4>1, <5>1
      <4>3. Once(bus', c)
        BY <1>2, <2>1, <3>2, <4>1, OnceQueue DEF Begins, Play, EventsFit
      <4>4. ASSUME NEW w \in {"init", "update"} PROVE Told(bus', w, c) = Told(bus, w, c)
        <5>1. event.what # w
          BY <3>2
        <5>2. Told(bus', w, c) = Told(bus, w, c) \cup (IF event.what = w THEN {event} ELSE {})
          BY <4>2
        <5> QED
          BY <5>1, <5>2
      <4>5. Told(bus', "exit", c) # {} => Told(bus, "exit", c) # {} \/ state[c] = "Character"
        <5>1. Told(bus', "exit", c) = Told(bus, "exit", c) \cup (IF event.what = "exit" THEN {event} ELSE {})
          BY <4>2
        <5> QED
          BY <3>2, <5>1
      <4> QED
        BY <4>3, <4>4, <4>5 DEF EventsKept
    <3> QED
      BY <3>1, <3>2
  <2>4. LoadsKept(c) /\ RepliesKept(c)
    <3>1. \/ UNCHANGED <<requests, responses>>
          \/ /\ UNCHANGED responses
             /\ \E request \in Request :
                   /\ requests' = Append(requests, request)
                   /\ request.what = "load" => request.entity # c
                   /\ request.what = "delete" => request.account # player[c]
      BY <1>1
    <3> QED
      BY <1>1, <2>1, <3>1, LoadsOfOthers DEF Play, LoadsFit
  <2>5. Choice(sent'[c], mode'[c], state[c], Begun(c))
    BY <1>1
  <2> QED
    BY <1>1, <2>1, <2>2, <2>3, <2>4, <2>5, Kept
<1> QED
  BY <1>3, <1>4 DEF PlayInv

(* A registration: nothing is said yet of its client.                      *)
LEMMA RegisterPlays ==
    ASSUME TypeOK, AccountsInv, PlayInv, NEW c \in CLIENT, HandleRegister(c)
    PROVE  PlayInv'
<1> DEFINE account == Head(sent[c]).account
           admit   == Admit(account)
           enter   == admit /\ account \in Valid /\ state[c] = "Connected"
<1>1. /\ Receive(c, "register") /\ UNCHANGED <<requests, bus>>
      /\ player' = IF enter THEN [player EXCEPT ![c] = account] ELSE player
      /\ state' = IF enter THEN [state EXCEPT ![c] = "Registered"] ELSE state
      /\ mode' = CASE mode[c] = "closed" -> mode
                   [] enter              -> [mode EXCEPT ![c] = "select"]
                   [] ~admit             -> [mode EXCEPT ![c] = "denied"]
                   [] OTHER              -> mode
  BY DEF HandleRegister
<1>2. /\ up /\ up' /\ UNCHANGED <<db, responses, character, stats>>
      /\ sent' = [sent EXCEPT ![c] = Tail(sent[c])] /\ DOMAIN sent = CLIENT /\ sent[c] \in Seq(Message)
      /\ Choice(sent[c], mode[c], state[c], Begun(c)) /\ Begun(c) \in BOOLEAN
      /\ \A m : m = mode[c] \/ m \notin {"select", "play"} => Choice(Tail(sent[c]), m, state[c], Begun(c))
  BY <1>1, ReceivedPlays
<1>3. state[c] = "Connected" /\ c \in Strangers
  BY <1>1, OneRegistration DEF AccountsInv, Strangers
<1>4. DOMAIN mode = CLIENT /\ DOMAIN state = CLIENT /\ DOMAIN player = CLIENT
  BY DEF TypeOK
<1> HIDE DEF account, admit
<1>5. ASSUME NEW d \in CLIENT, d # c PROVE Play(d)'
  <2>1. Play(d) /\ sent'[d] = sent[d]
    BY <1>2, <1>5 DEF PlayInv
  <2>2. mode'[d] = mode[d] /\ state'[d] = state[d] /\ player'[d] = player[d]
    BY <1>1, <1>4, <1>5
  <2> QED
    BY <1>1, <1>2, <1>5, <2>1, <2>2, BystanderPlays
<1>6. Play(c)'
  <2>1. /\ \A what \in {"init", "exit", "update"} : Told(bus', what, c) = {}
        /\ Told(requests', "load", c) = {} /\ Replies(responses', c) = {}
    BY <1>1, <1>2, <1>3, StrangerSilent
  <2>2. stats'[c] = NoStats
    BY <1>2, <1>3 DEF PlayInv, Play, DataFits
  <2>3. Begun(c) = FALSE
    BY <1>1, <1>3, <2>1 DEF Begun
  <2>4. sent'[c] = Tail(sent[c])
    BY <1>2
  <2>5. CASE enter
    <3>1. state'[c] = "Registered" /\ mode'[c] \in {"closed", "select"}
      BY <1>1, <1>4, <2>5
    <3>2. Choice(Tail(sent[c]), "closed", "Connected", FALSE)
      BY <1>2, <1>3, <2>3
    <3>3. Choice(Tail(sent[c]), mode'[c], "Registered", FALSE)
      BY <3>1, <3>2 DEF Choice, Without
    <3> QED
      BY <1>2, <2>1, <2>2, <2>4, <3>1, <3>3, IdlePlays
  <2>6. CASE ~enter
    <3>1. state'[c] = "Connected"
      BY <1>1, <1>3, <2>6
    <3>2. mode'[c] = mode[c] \/ mode'[c] = "denied"
      BY <1>1, <1>4, <2>6
    <3>3. Choice(Tail(sent[c]), mode'[c], "Connected", FALSE)
      BY <1>2, <1>3, <2>3, <3>2
    <3> QED
      BY <1>2, <2>1, <2>2, <2>4, <3>1, <3>3, IdlePlays
  <2> QED
    BY <2>5, <2>6
<1> QED
  BY <1>5, <1>6 DEF PlayInv

(* The choice of a character: no other is under way, so this is the one    *)
(* that the loader is asked for and that the entity will play.             *)
LEMMA CharacterPlays ==
    ASSUME TypeOK, AccountsInv, PlayInv, NEW c \in CLIENT, HandleCharacter(c)
    PROVE  PlayInv'
<1>1. Receive(c, "character") /\ UNCHANGED <<mode, state, player>>
  BY DEF HandleCharacter
<1>2. CASE state[c] # "Registered"
  BY <1>1, <1>2, PlainMessage DEF HandleCharacter
<1>3. CASE state[c] = "Registered"
  <2>1. /\ up /\ up' /\ UNCHANGED <<db, responses, character, stats>>
        /\ sent' = [sent EXCEPT ![c] = Tail(sent[c])] /\ DOMAIN sent = CLIENT
        /\ Choice(Tail(sent[c]), mode[c], state[c], Begun(c))
        /\ ~Begun(c) /\ mode[c] # "select" /\ Without(Tail(sent[c]), {"character", "delete"})
    BY <1>1, ReceivedPlays
  <2>2. PICK request \in Request, event \in ServerEvent :
           /\ request = [entity |-> c, what |-> "load", account |-> player[c], id |-> Head(sent[c]).id]
           /\ event = [entity |-> c, what |-> "init", id |-> Head(sent[c]).id]
    <3>1. /\ [entity |-> c, what |-> "load", account |-> player[c], id |-> Head(sent[c]).id] \in Request
          /\ [entity |-> c, what |-> "init", id |-> Head(sent[c]).id] \in ServerEvent
      BY <1>1, Received, Nothings DEF Request, ServerEvent, TypeOK, NoPlayer
    <3> QED
      BY <3>1
  <2>3. requests' = Append(requests, request) /\ Emit(event)
    BY <1>3, <2>2 DEF HandleCharacter
  <2>4. /\ request.entity = c /\ request.what = "load" /\ request.account = player[c]
        /\ event.entity = c /\ event.what = "init" /\ event.id = request.id
    BY <2>2
  <2>5. bus' = Append(bus, event) /\ bus \in Seq(ServerEvent) /\ requests \in Seq(Request)
    BY <2>3 DEF Emit, TypeOK, StoreOK
  <2>6. ASSUME NEW d \in CLIENT, d # c PROVE Play(d)'
    <3>1. Play(d) /\ sent'[d] = sent[d]
      BY <2>1, <2>6 DEF PlayInv
    <3>2. \E r \in Request : /\ requests' = Append(requests, r)
                             /\ r.what = "load" => r.entity # d
                             /\ r.what = "delete" => r.account # player[d]
      BY <2>2, <2>3, <2>4, <2>6
    <3>3. \E e \in ServerEvent : e.entity = c /\ Emit(e)
      BY <2>2, <2>3, <2>4
    <3> QED
      BY <1>1, <2>1, <2>6, <3>1, <3>2, <3>3, BystanderPlays
  <2>7. Play(c)'
    <3>1. Play(c) /\ state[c] # "Character" /\ Told(bus, "init", c) = {}
      BY <1>3, <2>1 DEF PlayInv, Begun
    <3>2. Told(bus, "exit", c) = {} /\ Told(bus, "update", c) = {} /\ stats[c] = NoStats
      BY <3>1 DEF Play, EventsFit, DataFits
    <3>3. \A id : ~Wants(c, id)
      BY <3>1 DEF Wants
    <3>4. Told(requests, "load", c) = {} /\ Replies(responses, c) = {}
      BY <2>1, <3>1, <3>3 DEF Play, LoadsFit
    <3>5. ASSUME NEW what
          PROVE  Told(bus', what, c) = Told(bus, what, c) \cup (IF what = "init" THEN {event} ELSE {})
      <4>1. Told(Append(bus, event), what, c) =
                Told(bus, what, c) \cup (IF event.what = what /\ event.entity = c THEN {event} ELSE {})
        BY <2>2, <2>5, ToldAppend
      <4> QED
        BY <2>4, <2>5, <4>1
    <3>6. Told(bus', "init", c) = {event} /\ Told(bus', "exit", c) = {} /\ Told(bus', "update", c) = {}
      BY <3>1, <3>2, <3>5
    <3>7. Once(bus', c)
      BY <2>2, <2>5, <3>1, OnceQueue DEF Play, EventsFit
    <3>8. Told(requests', "load", c) = {request}
      <4>1. Told(Append(requests, request), "load", c) =
                Told(requests, "load", c)
                    \cup (IF request.what = "load" /\ request.entity = c THEN {request} ELSE {})
        BY <2>2, <2>5, ToldAppend
      <4> QED
        BY <2>3, <2>4, <3>4, <4>1
    <3>9. Ordered(requests', c, player[c])
      BY <2>1, <2>2, <2>3, <2>4, <2>5, <3>1, OrderedAppend DEF Play, LoadsFit
    <3>10. Wants(c, request.id)'
      BY <1>1, <2>4, <3>1, <3>6 DEF Wants
    <3>11. EventsFit(c)'
      BY <1>1, <1>3, <2>1, <3>6, <3>7 DEF EventsFit
    <3>12. LoadsFit(c)'
      BY <1>1, <2>1, <2>4, <3>4, <3>8, <3>9, <3>10 DEF LoadsFit
    <3>13. DataFits(c)'
      BY <2>1, <3>2, <3>6 DEF DataFits
    <3>14. Choice(sent[c], mode[c], state[c], Begun(c))'
      <4>1. Choice(Tail(sent[c]), mode[c], state[c], TRUE)
        BY <1>3, <2>1 DEF Choice
      <4>2. Begun(c)' = TRUE /\ sent'[c] = Tail(sent[c])
        BY <2>1, <3>6 DEF Begun
      <4> QED
        BY <1>1, <4>1, <4>2
    <3> QED
      BY <3>11, <3>12, <3>13, <3>14 DEF Play
  <2> QED
    BY <2>6, <2>7 DEF PlayInv
<1> QED
  BY <1>2, <1>3

(* A deletion: a client asks for none once it has chosen, so whoever asks  *)
(* has no character loading or loaded; the others have other accounts.     *)
LEMMA DeletionPlays ==
    ASSUME TypeOK, AccountsInv, PlayInv, NEW c \in CLIENT, HandleDeleteCharacter(c)
    PROVE  PlayInv'
<1>1. Receive(c, "delete") /\ UNCHANGED <<mode, state, player, bus>>
  BY DEF HandleDeleteCharacter
<1>2. CASE player[c] = NoPlayer
  BY <1>1, <1>2, PlainMessage DEF HandleDeleteCharacter
<1>3. CASE player[c] # NoPlayer
  <2>1. /\ up /\ up' /\ UNCHANGED <<db, responses, character, stats>>
        /\ sent' = [sent EXCEPT ![c] = Tail(sent[c])] /\ DOMAIN sent = CLIENT
        /\ Choice(Tail(sent[c]), mode[c], state[c], Begun(c))
        /\ ~Begun(c)
    BY <1>1, ReceivedPlays
  <2>2. PICK request \in Request :
           request = [entity |-> c, what |-> "delete", account |-> player[c], id |-> Head(sent[c]).id]
    <3>1. [entity |-> c, what |-> "delete", account |-> player[c], id |-> Head(sent[c]).id] \in Request
      BY <1>1, <1>3, Received, Nothings DEF Request, TypeOK, NoPlayer
    <3> QED
      BY <3>1
  <2>3. requests' = Append(requests, request)
    BY <1>3, <2>2 DEF HandleDeleteCharacter
  <2>4. request.what = "delete" /\ request.account = player[c]
    BY <2>2
  <2>5. ASSUME NEW d \in CLIENT, d # c PROVE Play(d)'
    <3>1. Play(d) /\ sent'[d] = sent[d]
      BY <2>1, <2>5 DEF PlayInv
    <3>2. player[d] # player[c]
      BY <1>3, <2>5 DEF AccountsInv, AccountsMatch
    <3>3. \E r \in Request : /\ requests' = Append(requests, r)
                             /\ r.what = "load" => r.entity # d
                             /\ r.what = "delete" => r.account # player[d]
      BY <2>2, <2>3, <2>4, <3>2
    <3> QED
      BY <1>1, <2>1, <2>5, <3>1, <3>3, BystanderPlays
  <2>6. Play(c)'
    <3>1. Play(c) /\ state[c] # "Character" /\ Told(bus, "init", c) = {}
      BY <2>1 DEF PlayInv, Begun
    <3>2. Told(bus, "exit", c) = {} /\ Told(bus, "update", c) = {} /\ stats[c] = NoStats
      BY <3>1 DEF Play, EventsFit, DataFits
    <3>3. \A id : ~Wants(c, id)
      BY <3>1 DEF Wants
    <3>4. Told(requests, "load", c) = {} /\ Replies(responses, c) = {}
      BY <2>1, <3>1, <3>3 DEF Play, LoadsFit
    <3>5. Told(requests', "load", c) = {}
      <4>1. Told(Append(requests, request), "load", c) =
                Told(requests, "load", c)
                    \cup (IF request.what = "load" /\ request.entity = c THEN {request} ELSE {})
        <5>1. requests \in Seq(Request)
          BY DEF TypeOK, StoreOK
        <5> QED
          BY <2>2, <5>1, ToldAppend
      <4> QED
        BY <2>3, <2>4, <3>4, <4>1
    <3>6. Choice(sent'[c], mode'[c], state'[c], FALSE)
      <4>1. Begun(c) = FALSE
        BY <3>1 DEF Begun
      <4> QED
        BY <1>1, <2>1, <4>1
    <3>7. \A what \in {"init", "exit", "update"} : Told(bus', what, c) = {}
      BY <1>1, <3>1, <3>2
    <3> QED
      BY <1>1, <2>1, <3>1, <3>2, <3>4, <3>5, <3>6, <3>7, IdlePlays
  <2> QED
    BY <2>5, <2>6 DEF PlayInv
<1> QED
  BY <1>2, <1>3

LEMMA MessagePlays ==
    ASSUME TypeOK, AccountsInv, PlayInv, NEW c \in CLIENT, HandleMessage(c)
    PROVE  PlayInv'
<1>1. c \in Nat
  BY Nothings
<1>2. CASE HandleExitIngame(c)
  <2>1. [entity |-> c, what |-> "exit"] \in ServerEvent
    BY <1>1 DEF ServerEvent
  <2>2. Receive(c, "exit") /\ UNCHANGED <<requests, mode, state, player>>
    BY <1>2 DEF HandleExitIngame
  <2>3. CASE state[c] = "Character"
    <3>1. Emit([entity |-> c, what |-> "exit"])
      BY <1>2, <2>3 DEF HandleExitIngame
    <3> QED
      BY <2>1, <2>2, <2>3, <3>1, PlainMessage
  <2>4. CASE state[c] # "Character"
    BY <1>2, <2>2, <2>4, PlainMessage DEF HandleExitIngame
  <2> QED
    BY <2>3, <2>4
<1>3. CASE HandleCreateCharacter(c)
  <2>1. Receive(c, "create") /\ UNCHANGED <<mode, state, player, bus>>
    BY <1>3 DEF HandleCreateCharacter
  <2>2. CASE player[c] = NoPlayer
    BY <1>3, <2>1, <2>2, PlainMessage DEF HandleCreateCharacter
  <2>3. CASE player[c] # NoPlayer
    <3>1. [entity |-> c, what |-> "create", account |-> player[c]] \in Request
      BY <1>1, <2>3 DEF Request, TypeOK, NoPlayer
    <3>2. requests' = Append(requests, [entity |-> c, what |-> "create", account |-> player[c]])
      BY <1>3, <2>3 DEF HandleCreateCharacter
    <3> QED
      BY <2>1, <3>1, <3>2, PlainMessage
  <2> QED
    BY <2>2, <2>3
<1>4. CASE HandleTerminate(c)
  <2>1. [entity |-> c, what |-> "disconnect"] \in ServerEvent
    BY <1>1 DEF ServerEvent
  <2>2. Receive(c, "terminate") /\ UNCHANGED <<requests, mode, state, player>>
        /\ Emit([entity |-> c, what |-> "disconnect"])
    BY <1>4 DEF HandleTerminate
  <2> QED
    BY <2>1, <2>2, PlainMessage
<1> QED
  BY <1>2, <1>3, <1>4, RegisterPlays, CharacterPlays, DeletionPlays DEF HandleMessage

(* A connection that begins or falls silent.                               *)
LEMMA ConnectionPlays ==
    ASSUME TypeOK, AccountsInv, PlayInv, NEW c \in CLIENT, Connect(c) \/ NothingHeard(c)
    PROVE  PlayInv'
<1>1. CASE Connect(c)
  <2>1. /\ up /\ up' /\ state[c] = "none" /\ state' = [state EXCEPT ![c] = "Connected"]
        /\ mode' = [mode EXCEPT ![c] = "connected"]
        /\ UNCHANGED <<db, requests, responses, sent, player, character, stats, bus>>
        /\ DOMAIN state = CLIENT /\ DOMAIN mode = CLIENT
    BY <1>1 DEF Connect, Here, store, TypeOK
  <2>2. ASSUME NEW d \in CLIENT, d # c PROVE Play(d)'
    <3>1. Play(d) /\ state'[d] = state[d] /\ mode'[d] = mode[d]
      BY <2>1, <2>2 DEF PlayInv
    <3> QED
      BY <2>1, <2>2, <3>1, BystanderPlays
  <2>3. Play(c)'
    <3>1. sent[c] = <<>> /\ c \in Strangers
      BY <2>1 DEF AccountsInv, RegisterFirst, Strangers
    <3>2. /\ \A what \in {"init", "exit", "update"} : Told(bus', what, c) = {}
          /\ Told(requests', "load", c) = {} /\ Replies(responses', c) = {}
      BY <2>1, <3>1, StrangerSilent
    <3>3. stats'[c] = NoStats
      BY <2>1 DEF PlayInv, Play, DataFits
    <3>4. state'[c] = "Connected" /\ mode'[c] = "connected" /\ sent'[c] = <<>>
      BY <2>1, <3>1
    <3>5. Choice(<<>>, "connected", "Connected", FALSE)
      BY DEF Choice, Without
    <3> QED
      BY <2>1, <3>2, <3>3, <3>4, <3>5, IdlePlays
  <2> QED
    BY <2>2, <2>3 DEF PlayInv
<1>2. CASE NothingHeard(c)
  <2>1. /\ up /\ up'
        /\ UNCHANGED <<db, requests, responses, mode, sent, state, player, character, stats>>
        /\ bus' = Append(bus, [entity |-> c, what |-> "disconnect"])
    BY <1>2 DEF NothingHeard, store, clients, entities, Emit
  <2>2. PICK event \in ServerEvent : event = [entity |-> c, what |-> "disconnect"]
    <3>1. [entity |-> c, what |-> "disconnect"] \in ServerEvent
      BY Nothings DEF ServerEvent
    <3> QED
      BY <3>1
  <2>3. event.entity = c /\ event.what = "disconnect" /\ bus' = Append(bus, event) /\ bus \in Seq(ServerEvent)
    BY <2>1, <2>2 DEF TypeOK
  <2>4. ASSUME NEW d \in CLIENT PROVE Play(d)'
    <3>1. Play(d)
      BY DEF PlayInv
    <3>2. ASSUME NEW what, what # "disconnect" PROVE Told(bus', what, d) = Told(bus, what, d)
      <4>1. Told(Append(bus, event), what, d) =
                Told(bus, what, d) \cup (IF event.what = what /\ event.entity = d THEN {event} ELSE {})
        BY <2>3, ToldAppend
      <4> QED
        BY <2>3, <3>2, <4>1
    <3>3. Once(bus', d)
      BY <2>3, <3>1, OnceQueue DEF Begins, Play, EventsFit
    <3>4. EventsKept(d)
      BY <3>2, <3>3 DEF EventsKept
    <3>5. EntityKept(d) /\ LoadsKept(d) /\ RepliesKept(d) /\ RowsKept(d)
      BY <2>1, <3>1 DEF EntityKept, LoadsKept, RepliesKept, RowsKept, Play, LoadsFit, DataFits
    <3>6. Choice(sent'[d], mode'[d], state[d], Begun(d))
      BY <2>1, <3>1 DEF Play
    <3> QED
      BY <2>1, <3>1, <3>4, <3>5, <3>6, Kept
  <2> QED
    BY <2>4 DEF PlayInv
<1> QED
  BY <1>1, <1>2

(* The game's tick changes no more of the data than the progress.          *)
LEMMA SystemsPlay ==
    ASSUME TypeOK, PlayInv, NEW save, NEW progress, RunSystems(save, progress)
    PROVE  PlayInv'
<1>1. /\ up /\ up'
      /\ UNCHANGED <<db, requests, responses, mode, sent, state, player, character, bus>>
      /\ \A c \in progress : stats[c] # NoStats
      /\ stats' = [c \in CLIENT |-> IF c \in progress THEN [stats[c] EXCEPT !.progress = @ + 1] ELSE stats[c]]
  BY DEF RunSystems, clients
<1>2. ASSUME NEW d \in CLIENT PROVE Play(d)'
  <2>1. Play(d)
    BY DEF PlayInv
  <2>2. stats'[d] # NoStats => stats[d] # NoStats /\ stats'[d].id = stats[d].id
    <3>1. CASE d \in progress
      <4>1. stats[d] \in Update /\ stats'[d] = [stats[d] EXCEPT !.progress = @ + 1]
        BY <1>1, <3>1 DEF TypeOK
      <4>2. [stats[d] EXCEPT !.progress = @ + 1].id = stats[d].id
        BY <4>1 DEF Update
      <4> QED
        BY <1>1, <3>1, <4>1, <4>2
    <3>2. CASE d \notin progress
      BY <1>1, <3>2
    <3> QED
      BY <3>1, <3>2
  <2>3. EntityKept(d)
    BY <1>1, <2>1, <2>2 DEF EntityKept, Play, DataFits
  <2>4. EventsKept(d) /\ LoadsKept(d) /\ RepliesKept(d) /\ RowsKept(d)
    BY <1>1, <2>1 DEF EventsKept, LoadsKept, RepliesKept, RowsKept, Play, EventsFit, LoadsFit
  <2>5. Choice(sent'[d], mode'[d], state[d], Begun(d))
    BY <1>1, <2>1 DEF Play
  <2> QED
    BY <1>1, <2>1, <2>3, <2>4, <2>5, Kept
<1> QED
  BY <1>2 DEF PlayInv

(* A server that stops leaves nothing.                                     *)
LEMMA StopPlays ==
    ASSUME Stop
    PROVE  PlayInv'
<1>1. /\ ~up' /\ bus' = <<>>
      /\ \A c \in CLIENT : mode'[c] = "off" /\ sent'[c] = <<>> /\ state'[c] = "none" /\ stats'[c] = NoStats
  BY DEF Stop, NoneOf
<1>2. Choice(<<>>, "off", "none", FALSE)
  BY DEF Choice, Without
<1>3. ASSUME NEW d \in CLIENT PROVE Play(d)'
  <2>1. \A what : Told(bus', what, d) = {}
    BY <1>1, NoneTold
  <2> QED
    BY <1>1, <1>2, <2>1, IdlePlays
<1> QED
  BY <1>3 DEF PlayInv
-----------------------------------------------------------------------------
(* The entity enters the game with the character that it was told.         *)
LEMMA InitPlays ==
    ASSUME TypeOK, PlayInv, NEW c \in CLIENT, HandleInit(c)
    PROVE  PlayInv'
<1>1. /\ up /\ up' /\ bus # <<>> /\ Head(bus).what = "init" /\ Head(bus).entity = c
      /\ character' = [character EXCEPT ![c] = Head(bus).id]
      /\ state' = [state EXCEPT ![c] = "Character"]
      /\ mode' = IF mode[c] = "closed" THEN mode ELSE [mode EXCEPT ![c] = "play"]
      /\ bus' = Tail(bus)
      /\ UNCHANGED <<db, requests, responses, sent, player, stats>>
      /\ DOMAIN character = CLIENT /\ DOMAIN state = CLIENT /\ DOMAIN mode = CLIENT
      /\ bus \in Seq(ServerEvent)
  BY DEF HandleInit, Handle, TypeOK
<1>2. ASSUME NEW d \in CLIENT, d # c PROVE Play(d)'
  <2>1. Play(d) /\ character'[d] = character[d] /\ state'[d] = state[d] /\ mode'[d] = mode[d]
    BY <1>1, <1>2 DEF PlayInv
  <2> QED
    BY <1>1, <1>2, <2>1, BystanderPlays
<1>3. Play(c)'
  <2>1. PICK event : event = Head(bus)
    OBVIOUS
  <2>2. ASSUME NEW what
        PROVE  Told(bus, what, c) = Told(bus', what, c) \cup (IF what = "init" THEN {event} ELSE {})
    <3>1. Told(bus, what, c) =
              Told(Tail(bus), what, c)
                  \cup (IF Head(bus).what = what /\ Head(bus).entity = c THEN {Head(bus)} ELSE {})
      BY <1>1, ToldTail
    <3> QED
      BY <1>1, <2>1, <3>1
  <2>3. Play(c)
    BY DEF PlayInv
  <2>4. Once(bus', c) /\ Told(bus', "init", c) = {}
    BY <1>1, <2>3, OnceQueue DEF Begins, Play, EventsFit
  <2>5. Told(bus, "init", c) = {event}
    BY <2>2, <2>4
  <2>6. state[c] = "Registered"
    BY <2>3, <2>5 DEF Play, EventsFit
  <2>7. Told(bus', "update", c) = {} /\ stats[c] = NoStats
    BY <2>2, <2>3, <2>6 DEF Play, DataFits
  <2>8. state'[c] = "Character" /\ character'[c] = event.id
    BY <1>1, <2>1
  <2>9. \A id : Wants(c, id) => Wants(c, id)'
    BY <2>5, <2>6, <2>8 DEF Wants
  <2>10. \A id : Has(c, id) => Has(c, id)'
    BY <1>1 DEF Has
  <2>11. EventsFit(c)'
    BY <1>1, <2>4, <2>8 DEF EventsFit
  <2>12. LoadsFit(c)'
    BY <1>1, <2>3, <2>9, <2>10 DEF Play, LoadsFit
  <2>13. DataFits(c)'
    BY <1>1, <2>7 DEF DataFits
  <2>14. Choice(sent[c], mode[c], state[c], Begun(c))'
    <3>1. Begun(c) = TRUE /\ Begun(c)' = TRUE
      BY <2>5, <2>8 DEF Begun
    <3>2. Choice(sent[c], mode[c], "Registered", TRUE)
      BY <2>3, <2>6, <3>1 DEF Play
    <3>3. mode'[c] # "select"
      BY <1>1
    <3>4. Choice(sent[c], mode'[c], "Character", TRUE)
      BY <3>2, <3>3 DEF Choice
    <3> QED
      BY <1>1, <2>8, <3>1, <3>4
  <2> QED
    BY <2>11, <2>12, <2>13, <2>14 DEF Play
<1> QED
  BY <1>2, <1>3 DEF PlayInv

(* The data comes while the entity plays the character that they are of.   *)
LEMMA UpdatePlays ==
    ASSUME TypeOK, PlayInv, NEW c \in CLIENT, HandleUpdate(c)
    PROVE  PlayInv'
<1>1. /\ up /\ up' /\ bus # <<>> /\ Head(bus).what = "update" /\ Head(bus).entity = c
      /\ stats' = [stats EXCEPT ![c] = [id |-> Head(bus).id, progress |-> Head(bus).progress]]
      /\ bus' = Tail(bus)
      /\ UNCHANGED <<db, requests, responses, mode, sent, state, player, character>>
      /\ DOMAIN stats = CLIENT /\ bus \in Seq(ServerEvent)
  BY DEF HandleUpdate, Handle, TypeOK, clients
<1>2. ASSUME NEW d \in CLIENT, d # c PROVE Play(d)'
  <2>1. Play(d) /\ stats'[d] = stats[d]
    BY <1>1, <1>2 DEF PlayInv
  <2> QED
    BY <1>1, <1>2, <2>1, BystanderPlays
<1>3. Play(c)'
  <2>1. Play(c)
    BY DEF PlayInv
  <2>2. ASSUME NEW what
        PROVE  Told(bus, what, c) = Told(bus', what, c) \cup (IF what = "update" THEN {Head(bus)} ELSE {})
    <3>1. Told(bus, what, c) =
              Told(Tail(bus), what, c)
                  \cup (IF Head(bus).what = what /\ Head(bus).entity = c THEN {Head(bus)} ELSE {})
      BY <1>1, ToldTail
    <3> QED
      BY <1>1, <3>1
  <2>3. Once(bus', c)
    BY <1>1, <2>1, OnceQueue DEF Play, EventsFit
  <2>4. /\ Told(bus', "init", c) = Told(bus, "init", c) /\ Told(bus', "exit", c) = Told(bus, "exit", c)
        /\ Told(bus', "update", c) \subseteq Told(bus, "update", c) /\ Head(bus) \in Told(bus, "update", c)
    BY <2>2
  <2>5. EventsKept(c)
    BY <2>3, <2>4 DEF EventsKept
  <2>6. state[c] = "Character" /\ Head(bus).id = character[c] /\ Has(c, Head(bus).id)
    BY <2>1, <2>4 DEF Play, DataFits
  <2>7. EntityKept(c)
    <3>1. stats'[c].id = Head(bus).id
      BY <1>1
    <3> QED
      BY <1>1, <2>6, <3>1 DEF EntityKept
  <2>8. LoadsKept(c) /\ RepliesKept(c) /\ RowsKept(c)
    BY <1>1, <2>1 DEF LoadsKept, RepliesKept, RowsKept, Play, LoadsFit
  <2>9. Choice(sent'[c], mode'[c], state[c], Begun(c))
    BY <1>1, <2>1 DEF Play
  <2> QED
    BY <1>1, <2>1, <2>5, <2>7, <2>8, <2>9, Kept
<1> QED
  BY <1>2, <1>3 DEF PlayInv

(* The entity leaves the game or goes: nothing that is under way for it    *)
(* will find it again.                                                     *)
LEMMA LeavePlays ==
    ASSUME TypeOK, PlayInv, NEW c \in CLIENT, HandleExit(c) \/ HandleDisconnect(c)
    PROVE  PlayInv'
<1>1. /\ up /\ up' /\ bus # <<>> /\ Head(bus).entity = c /\ BuryAll(c) /\ UNCHANGED db
      /\ stats' = [stats EXCEPT ![c] = NoStats]
      /\ \A d \in CLIENT \ {c} : /\ state'[d] = state[d] /\ player'[d] = player[d] /\ character'[d] = character[d]
                                 /\ sent'[d] = sent[d] /\ mode'[d] = mode[d]
      /\ bus \in Seq(ServerEvent) /\ requests \in Seq(Request) /\ responses \in Seq(Answer)
  BY DEF HandleExit, HandleDisconnect, Handle, WithoutStats, TypeOK, StoreOK
<1>2. bus' = Bury(Tail(bus), c) /\ requests' = Bury(requests, c) /\ responses' = Bury(responses, c)
  BY <1>1 DEF BuryAll
<1>3. DOMAIN stats = CLIENT /\ DOMAIN state = CLIENT /\ DOMAIN mode = CLIENT /\ DOMAIN sent = CLIENT
  BY DEF TypeOK
<1>4. ASSUME NEW d \in CLIENT, d # c PROVE Play(d)'
  <2>1. Play(d) /\ stats'[d] = stats[d]
    BY <1>1, <1>3, <1>4 DEF PlayInv
  <2> QED
    BY <1>1, <1>2, <1>4, <2>1, BystanderPlays
<1>5. Play(c)'
  <2>1. Play(c)
    BY DEF PlayInv
  <2>2. \A what : Told(bus', what, c) = {}
    <3>1. PICK events : events = Tail(bus)
      OBVIOUS
    <3>2. events \in Seq(ServerEvent)
      BY <1>1, <3>1
    <3>3. \A i \in DOMAIN events : /\ Buried(events[i], c).entity \in {Nobody, events[i].entity} \ {c}
                                  /\ Buried(events[i], c).what = events[i].what
      BY <3>2, BuryEvent, BuriedEntity
    <3>4. ASSUME NEW what PROVE Told(Bury(events, c), what, c) = {}
      BY <3>3, ToldBury
    <3> QED
      BY <1>2, <3>1, <3>4
  <2>3. Told(requests', "load", c) = {}
    <3>1. \A i \in DOMAIN requests : /\ Buried(requests[i], c).entity \in {Nobody, requests[i].entity} \ {c}
                                     /\ Buried(requests[i], c).what = requests[i].what
      BY <1>1, BuriedEntity, BuryRequest
    <3> QED
      BY <1>2, <3>1, ToldBury
  <2>4. Replies(responses', c) = {}
    <3>1. \A i \in DOMAIN responses : Buried(responses[i], c).entity \in {Nobody, responses[i].entity} \ {c}
      BY <1>1, BuriedEntity
    <3> QED
      BY <1>2, <3>1, RepliesBury
  <2>5. stats'[c] = NoStats
    BY <1>1, <1>3
  <2>6. CASE HandleExit(c)
    <3>1. /\ Head(bus).what = "exit" /\ sent' = sent /\ state' = [state EXCEPT ![c] = "Registered"]
          /\ mode' = IF mode[c] = "closed" THEN mode ELSE [mode EXCEPT ![c] = "select"]
      BY <2>6 DEF HandleExit, Handle
    <3>2. Told(bus, "exit", c) # {}
      <4>1. Told(bus, "exit", c) =
                Told(Tail(bus), "exit", c)
                    \cup (IF Head(bus).what = "exit" /\ Head(bus).entity = c THEN {Head(bus)} ELSE {})
        BY <1>1, ToldTail
      <4> QED
        BY <1>1, <3>1, <4>1
    <3>3. state[c] = "Character" /\ Begun(c) = TRUE
      BY <2>1, <3>2 DEF Play, EventsFit, Begun
    <3>4. Choice(sent[c], mode[c], "Character", TRUE)
      BY <2>1, <3>3 DEF Play
    <3>5. state'[c] = "Registered" /\ mode'[c] \in {"closed", "select"} /\ sent'[c] = sent[c]
      BY <1>3, <3>1
    <3>6. Choice(sent[c], mode'[c], "Registered", FALSE)
      BY <3>4, <3>5 DEF Choice, Without
    <3> QED
      BY <1>1, <2>2, <2>3, <2>4, <2>5, <3>5, <3>6, IdlePlays
  <2>7. CASE HandleDisconnect(c)
    <3>1. state'[c] = "none" /\ mode'[c] = "off" /\ sent'[c] = <<>>
      BY <1>3, <2>7 DEF HandleDisconnect
    <3>2. Choice(<<>>, "off", "none", FALSE)
      BY DEF Choice, Without
    <3> QED
      BY <1>1, <2>2, <2>3, <2>4, <2>5, <3>1, <3>2, IdlePlays
  <2> QED
    BY <2>6, <2>7
<1> QED
  BY <1>4, <1>5 DEF PlayInv

LEMMA EventPlays ==
    ASSUME TypeOK, PlayInv, HandleEvent
    PROVE  PlayInv'
<1>1. CASE HandleNothing
  <2>1. /\ up /\ up' /\ bus # <<>> /\ Head(bus).entity = Nobody /\ bus' = Tail(bus)
        /\ UNCHANGED <<db, requests, responses, mode, sent, state, player, character, stats>>
    BY <1>1 DEF HandleNothing, Handle, clients, entities
  <2>2. ASSUME NEW d \in CLIENT PROVE Play(d)'
    <3>1. Play(d) /\ d # Nobody
      BY Nothings DEF PlayInv
    <3> QED
      BY <2>1, <3>1, BystanderPlays
  <2> QED
    BY <2>2 DEF PlayInv
<1>2. CASE Panic
  BY <1>2, StopPlays DEF Panic
<1> QED
  BY <1>1, <1>2, InitPlays, UpdatePlays, LeavePlays DEF HandleEvent

(* The answers of the loader become events for the entities that wait for  *)
(* them, and are in the game by then.                                      *)
LEMMA AnswersPlay ==
    ASSUME TypeOK, PlayInv, EndTick
    PROVE  PlayInv'
<1>1. /\ up /\ up' /\ bus = <<>> /\ bus' = AnswerEvents /\ responses' = <<>>
      /\ UNCHANGED <<db, requests, mode, sent, state, player, character, stats>>
  BY DEF EndTick, clients, entities
<1>2. ASSUME NEW d \in CLIENT PROVE Play(d)'
  <2>1. Play(d)
    BY DEF PlayInv
  <2>2. \A what : Told(bus, what, d) = {}
    BY <1>1, NoneTold
  <2>3. \A answer \in Replies(responses, d) :
           /\ state[d] = "Character" /\ character[d] = answer.id
           /\ answer.row # NoRow => Has(d, answer.id)
    BY <1>1, <2>1, <2>2 DEF Play, LoadsFit, Wants
  <2>4. \A i \in DOMAIN AnswerEvents :
           /\ i \in DOMAIN responses
           /\ AnswerEvents[i].entity = responses[i].entity
           /\ IF responses[i].row = NoRow THEN AnswerEvents[i].what = "exit"
              ELSE AnswerEvents[i].what = "update" /\ AnswerEvents[i].id = responses[i].id
    BY DEF AnswerEvents
  <2>5. \A i \in DOMAIN AnswerEvents : AnswerEvents[i].entity = d => responses[i] \in Replies(responses, d)
    BY <2>4 DEF Replies
  <2>6. Told(AnswerEvents, "init", d) = {}
    BY <2>4 DEF Told
  <2>7. Told(AnswerEvents, "exit", d) # {} => state[d] = "Character"
    <3>1. Told(AnswerEvents, "exit", d) # {} => \E i \in DOMAIN AnswerEvents : AnswerEvents[i].entity = d
      BY DEF Told
    <3> QED
      BY <2>3, <2>5, <3>1
  <2>8. \A event \in Told(AnswerEvents, "update", d) :
           state[d] = "Character" /\ event.id = character[d] /\ Has(d, event.id)
    <3> SUFFICES ASSUME NEW i \in DOMAIN AnswerEvents,
                        AnswerEvents[i].what = "update", AnswerEvents[i].entity = d
                 PROVE  /\ state[d] = "Character" /\ AnswerEvents[i].id = character[d]
                        /\ Has(d, AnswerEvents[i].id)
      BY DEF Told
    <3>1. responses[i] \in Replies(responses, d) /\ responses[i].row # NoRow /\ AnswerEvents[i].id = responses[i].id
      BY <2>4, <2>5
    <3> QED
      BY <2>3, <3>1
  <2>9. \A id : (Has(d, id) => Has(d, id)') /\ (Wants(d, id) => Wants(d, id)')
    <3>1. \A id : Has(d, id) => Has(d, id)'
      BY <1>1 DEF Has
    <3>2. \A id : Wants(d, id) => Wants(d, id)'
      BY <1>1, <2>2 DEF Wants
    <3> QED
      BY <3>1, <3>2
  <2>10. EventsFit(d)'
    BY <1>1, <2>6, <2>7, NoneTold DEF EventsFit
  <2>11. Replies(responses', d) = {}
    BY <1>1, NoneTold
  <2>12. LoadsFit(d)'
    BY <1>1, <2>1, <2>9, <2>11 DEF Play, LoadsFit
  <2>13. DataFits(d)'
    <3>1. \A event \in Told(bus', "update", d) :
             state'[d] = "Character" /\ event.id = character'[d] /\ Has(d, event.id)'
      BY <1>1, <2>8, <2>9
    <3>2. stats'[d] # NoStats => state'[d] = "Character" /\ stats'[d].id = character'[d] /\ Has(d, character[d])'
      BY <1>1, <2>1 DEF Play, DataFits, Has
    <3> QED
      BY <3>1, <3>2 DEF DataFits
  <2>14. Choice(sent[d], mode[d], state[d], Begun(d))'
    <3>1. Begun(d)' = Begun(d)
      BY <1>1, <2>2, <2>6 DEF Begun
    <3> QED
      BY <1>1, <2>1, <3>1 DEF Play
  <2> QED
    BY <2>10, <2>12, <2>13, <2>14 DEF Play
<1> QED
  BY <1>2 DEF PlayInv

(* While there is no server there is nothing of any client.                *)
LEMMA DownPlays ==
    ASSUME AccountsInv, PlayInv, ~up, UNCHANGED <<mode, sent, state, player, stats, bus>>,
           up' => requests' = <<>> /\ responses' = <<>>
    PROVE  PlayInv'
<1>1. ASSUME NEW d \in CLIENT PROVE Play(d)'
  <2>1. state[d] = "none" /\ stats[d] = NoStats /\ bus = <<>> /\ Choice(sent[d], mode[d], state[d], Begun(d))
    BY DEF PlayInv, Play, EventsFit, DataFits, AccountsInv, EntitiesKnown
  <2>2. \A what : Told(bus, what, d) = {}
    BY <2>1, NoneTold
  <2>3. Begun(d) = FALSE
    BY <2>1, <2>2 DEF Begun
  <2>4. up' => Told(requests', "load", d) = {} /\ Replies(responses', d) = {}
    BY NoneTold
  <2>5. Choice(sent'[d], mode'[d], state'[d], FALSE)
    BY <2>1, <2>3
  <2>6. \A what \in {"init", "exit", "update"} : Told(bus', what, d) = {}
    BY <2>2
  <2> QED
    BY <2>1, <2>4, <2>5, <2>6, IdlePlays
<1> QED
  BY <1>1 DEF PlayInv
-----------------------------------------------------------------------------
(* A character gets an id that no other has: of the ids that are above all *)
(* that are stored, 1 .. id is least for the one that is given out.        *)
LEMMA NextIdFresh ==
    ASSUME NEW rows
    PROVE  NextId(rows) \in 1 .. MaxCharacter + 1 /\ NextId(rows) \notin Stored(rows)
<1> DEFINE Ids == 1 .. MaxCharacter + 1
           Above(id) == \A used \in Stored(rows) : used < id
           Intervals == {1 .. id : id \in {i \in Ids : Above(i)}}
           Fits(id) == Above(id) /\ (id = 1 \/ id - 1 \in Stored(rows))
<1>1. MaxCharacter \in Nat /\ Stored(rows) \subseteq 1 .. MaxCharacter
  BY CharactersAssumption DEF Stored, CHARACTER
<1>2. IsWellFoundedOn(StrictSubsetOrdering(Ids), SUBSET Ids)
  <2>1. IsFiniteSet(Ids)
    BY <1>1, FS_Interval
  <2> HIDE DEF Ids
  <2>2. FiniteSubsetsOf(Ids) = SUBSET Ids
    BY <2>1, FS_FiniteSubsetsOfFinite
  <2> QED
    BY <2>2, FS_StrictSubsetOrderingWellFounded
<1>3. Intervals \subseteq SUBSET Ids
  BY <1>1
<1>4. Intervals # {}
  <2>1. MaxCharacter + 1 \in Ids /\ Above(MaxCharacter + 1)
    BY <1>1
  <2> QED
    BY <2>1
<1>5. PICK least \in Intervals : \A other \in Intervals : <<other, least>> \notin StrictSubsetOrdering(Ids)
  <2> HIDE DEF Intervals, Ids
  <2> QED
    BY <1>2, <1>3, <1>4, WFMin
<1>6. PICK id \in Ids : Above(id) /\ least = 1 .. id
  BY <1>5
<1>7. Fits(id)
  <2> SUFFICES ASSUME id # 1, id - 1 \notin Stored(rows) PROVE FALSE
    BY <1>6
  <2>1. id \in Nat /\ id - 1 \in Ids
    BY <1>1
  <2>2. Above(id - 1)
    BY <1>1, <1>6, <2>1
  <2>3. 1 .. (id - 1) \in Intervals
    BY <2>1, <2>2
  <2>4. 1 .. (id - 1) \subseteq 1 .. id /\ id \in 1 .. id /\ id \notin 1 .. (id - 1)
    BY <2>1
  <2>5. <<1 .. (id - 1), 1 .. id>> \in StrictSubsetOrdering(Ids)
    <3>1. 1 .. (id - 1) \in SUBSET Ids /\ 1 .. id \in SUBSET Ids
      BY <1>1, <2>1
    <3>2. PICK a, b : a = 1 .. (id - 1) /\ b = 1 .. id
      OBVIOUS
    <3>3. a \in SUBSET Ids /\ b \in SUBSET Ids /\ a \subseteq b /\ a # b
      BY <2>4, <3>1, <3>2
    <3> HIDE DEF Ids
    <3>4. <<a, b>> \in StrictSubsetOrdering(Ids)
      BY <3>3 DEF StrictSubsetOrdering
    <3> QED
      BY <3>2, <3>4
  <2> QED
    BY <1>5, <1>6, <2>3, <2>5
<1>8. NextId(rows) = CHOOSE i \in Ids : Fits(i)
  BY DEF NextId
<1>9. NextId(rows) \in Ids /\ Fits(NextId(rows))
  <2> HIDE DEF Ids, Fits
  <2> QED
    BY <1>6, <1>7, <1>8
<1>10. NextId(rows) \notin Stored(rows)
  <2>1. NextId(rows) \in Stored(rows) => NextId(rows) < NextId(rows)
    BY <1>9
  <2> QED
    BY <1>1, <1>9, <2>1
<1> QED
  BY <1>9, <1>10

(* What the threads of the database do to the characters of d: they stay,  *)
(* unless a deletion for its account was waiting.                          *)
LEMMA RowsStay ==
    ASSUME LimitInv, Loader \/ Updater \/ DatabaseFails, NEW d \in CLIENT
    PROVE  RowsKept(d)
<1>1. db \in [CHARACTER -> Row \cup {NoRow}]
  BY DEF LimitInv, TypeOK, StoreOK
<1>2. ASSUME UNCHANGED db PROVE RowsKept(d)
  BY <1>2 DEF RowsKept
<1>3. CASE CreateCharacter
  <2>1. PICK id : id = NextId(db)
    OBVIOUS
  <2>2. PICK row : row = [owner |-> Head(requests).account, progress |-> 0]
    OBVIOUS
  <2>3. db' = [db EXCEPT ![id] = row] /\ id \notin Stored(db)
    BY <1>3, <2>1, <2>2, NextIdFresh DEF CreateCharacter
  <2> QED
    BY <1>1, <2>3 DEF RowsKept, OwnedBy, Stored
<1>4. CASE DeleteCharacter
  <2>1. PICK account, id : account = Head(requests).account /\ id = Head(requests).id
    OBVIOUS
  <2>2. requests # <<>> /\ Head(requests).what = "delete"
    BY <1>4 DEF DeleteCharacter
  <2>3. account \in DeletionsOf(requests)
    <3>1. requests \in Seq(Request)
      BY DEF LimitInv, TypeOK, StoreOK
    <3>2. 1 \in DOMAIN requests /\ Head(requests) = requests[1]
      BY <2>2, <3>1
    <3> QED
      BY <2>1, <2>2, <3>2 DEF DeletionsOf
  <2>4. db' = IF id \in OwnedBy(db, account) THEN [db EXCEPT ![id] = NoRow] ELSE db
    BY <1>4, <2>1 DEF DeleteCharacter, CharactersOf
  <2>5. player[d] # account => OwnedBy(db, player[d]) \subseteq OwnedBy(db', player[d])
    BY <1>1, <2>4 DEF OwnedBy, Stored
  <2> QED
    BY <2>3, <2>5 DEF RowsKept
<1>5. CASE BatchUpdate
  <2>1. Head(saves) \in SUBSET Update
    BY <1>5 DEF BatchUpdate, LimitInv, TypeOK, StoreOK
  <2>2. ASSUME NEW id \in CHARACTER, db[id] # NoRow
        PROVE  db'[id] # NoRow /\ db'[id].owner = db[id].owner
    <3>1. db'[id] = Updated(db[id], {u \in Head(saves) : u.id = id})
      BY <1>5 DEF BatchUpdate
    <3>2. db[id] \in Row \cup {NoRow} /\ {u \in Head(saves) : u.id = id} \in SUBSET Update
      BY <1>1, <2>1
    <3> QED
      BY <2>2, <3>1, <3>2, UpdatedRow
  <2> QED
    BY <2>2 DEF RowsKept, OwnedBy, Stored
<1>6. CASE LoadCharacterData \/ LoadFails \/ CheckCharacterLimit \/ BatchFails
  BY <1>2, <1>6 DEF LoadCharacterData, LoadFails, CheckCharacterLimit, BatchFails
<1> QED
  BY <1>3, <1>4, <1>5, <1>6 DEF Loader, LoaderStep, Updater, DatabaseFails

(* The loader answers the entity whose character it was asked for; no      *)
(* deletion for the account is behind that request.                        *)
LEMMA LoadPlays ==
    ASSUME LimitInv, PlayInv, up, NEW d \in CLIENT, LoadCharacterData \/ LoadFails, player'[d] = player[d]
    PROVE  LoadsKept(d) /\ RepliesKept(d)
<1>1. requests \in Seq(Request) /\ responses \in Seq(Answer)
  BY DEF LimitInv, TypeOK, StoreOK
<1>2. /\ requests # <<>> /\ Head(requests).what = "load"
      /\ requests' = Tail(requests) /\ db' = db
  BY DEF LoadCharacterData, LoadFails, Answered
<1>3. PICK request : request = Head(requests)
  OBVIOUS
<1>4. PICK row \in Row \cup {NoRow} :
         /\ responses' = Append(responses, [entity |-> request.entity, id |-> request.id, row |-> row])
         /\ row # NoRow => request.id \in OwnedBy(db, request.account)
  <2>1. CASE LoadCharacterData
    <3> DEFINE r == IF request.id \in OwnedBy(db, request.account) THEN db[request.id] ELSE NoRow
    <3>1. r \in Row \cup {NoRow} /\ (r # NoRow => request.id \in OwnedBy(db, request.account))
      BY DEF LimitInv, TypeOK, StoreOK, OwnedBy, Stored
    <3>2. responses' = Append(responses, [entity |-> request.entity, id |-> request.id, row |-> r])
      BY <1>3, <2>1 DEF LoadCharacterData, CharactersOf
    <3> QED
      BY <3>1, <3>2
  <2>2. CASE LoadFails
    BY <1>3, <2>2 DEF LoadFails
  <2> QED
    BY <2>1, <2>2
<1>5. PICK answer : answer = [entity |-> request.entity, id |-> request.id, row |-> row]
  OBVIOUS
<1>6. answer \in Answer
  BY <1>1, <1>2, <1>3, <1>5 DEF Request, Answer
<1>7. Play(d)
  BY DEF PlayInv
<1>8. /\ Ordered(Tail(requests), d, player[d])
      /\ DeletionsOf(Tail(requests)) \subseteq DeletionsOf(requests)
      /\ request.entity = d => player[d] \notin DeletionsOf(Tail(requests))
  BY <1>1, <1>2, <1>3, <1>7, RequestQueue DEF Play, LoadsFit
<1>9. Told(requests, "load", d) =
          Told(Tail(requests), "load", d)
              \cup (IF Head(requests).what = "load" /\ Head(requests).entity = d THEN {Head(requests)} ELSE {})
  BY <1>1, <1>2, ToldTail
<1>10. LoadsKept(d)
  BY <1>2, <1>8, <1>9 DEF LoadsKept
<1>11. Replies(responses', d) = Replies(responses, d) \cup (IF answer.entity = d THEN {answer} ELSE {})
  <2>1. Replies(Append(responses, answer), d) =
            Replies(responses, d) \cup (IF answer.entity = d THEN {answer} ELSE {})
    BY <1>1, <1>6, RepliesAppend
  <2> QED
    BY <1>4, <1>5, <2>1
<1>12. request.entity = d => Wants(d, request.id) /\ request.account = player[d]
  BY <1>2, <1>3, <1>7, <1>9 DEF Play, LoadsFit
<1>13. answer.entity = d => Wants(d, answer.id) /\ (answer.row # NoRow => Has(d, answer.id)')
  <2>1. answer.entity = request.entity /\ answer.id = request.id /\ answer.row = row
    BY <1>5
  <2>2. request.entity = d /\ row # NoRow => Has(d, request.id)'
    BY <1>2, <1>4, <1>8, <1>12 DEF Has
  <2> QED
    BY <1>12, <2>1, <2>2
<1>14. RepliesKept(d)
  BY <1>11, <1>13 DEF RepliesKept
<1> QED
  BY <1>10, <1>14

LEMMA StorePlays ==
    ASSUME LimitInv, AccountsInv, PlayInv, Loader \/ Updater \/ DatabaseFails
    PROVE  PlayInv'
<1>1. UNCHANGED <<up, mode, sent, state, player, character, stats, bus>>
  BY DEF Loader, Updater, DatabaseFails, session, clients, entities
<1>2. CASE ~up
  BY <1>1, <1>2, DownPlays
<1>3. CASE up
  <2>1. ASSUME NEW d \in CLIENT PROVE Play(d)'
    <3>1. Play(d)
      BY DEF PlayInv
    <3>2. LoadsKept(d) /\ RepliesKept(d)
      <4>1. CASE LoadCharacterData \/ LoadFails
        BY <1>1, <1>3, <4>1, LoadPlays
      <4>2. CASE UNCHANGED responses /\ (UNCHANGED requests \/ (requests # <<>> /\ requests' = Tail(requests)))
        <5>1. TypeOK /\ Ordered(requests, d, player[d])
          BY <1>3, <3>1 DEF LimitInv, Play, LoadsFit
        <5> QED
          BY <4>2, <5>1, LoadsOfOthers
      <4>3. CASE CheckCharacterLimit
        BY <4>2, <4>3 DEF CheckCharacterLimit, Answered
      <4>4. CASE CreateCharacter
        <5>1. requests # <<>>
          BY <4>4 DEF CreateCharacter, LimitInv, Pending
        <5> QED
          BY <4>2, <4>4, <5>1 DEF CreateCharacter, Answered
      <4>5. CASE DeleteCharacter
        BY <4>2, <4>5 DEF DeleteCharacter, Answered
      <4>6. CASE BatchUpdate \/ BatchFails
        BY <4>2, <4>6 DEF BatchUpdate, BatchFails
      <4> QED
        BY <4>1, <4>3, <4>4, <4>5, <4>6 DEF Loader, LoaderStep, Updater, DatabaseFails
    <3>3. RowsKept(d)
      BY RowsStay
    <3>4. EntityKept(d) /\ EventsKept(d)
      BY <1>1, <3>1 DEF EntityKept, EventsKept, Play, EventsFit, DataFits
    <3>5. Choice(sent'[d], mode'[d], state[d], Begun(d))
      BY <1>1, <3>1 DEF Play
    <3> QED
      BY <1>1, <1>3, <3>1, <3>2, <3>3, <3>4, <3>5, Kept
  <2> QED
    BY <2>1 DEF PlayInv
<1> QED
  BY <1>2, <1>3

LEMMA PlayInductive == Spec => []PlayInv
<1>1. Init => PlayInv
  <2> SUFFICES ASSUME Init, NEW d \in CLIENT PROVE Play(d)
    BY DEF PlayInv
  <2>1. /\ up /\ bus = <<>> /\ requests = <<>> /\ responses = <<>>
        /\ mode[d] = "off" /\ sent[d] = <<>> /\ state[d] = "none" /\ stats[d] = NoStats
    BY DEF Init, NoneOf
  <2>2. /\ \A what : Told(bus, what, d) = {} /\ Told(requests, what, d) = {}
        /\ Replies(responses, d) = {}
    BY <2>1, NoneTold
  <2>3. EventsFit(d) /\ LoadsFit(d) /\ DataFits(d)
    BY <2>1, <2>2, NoneTold DEF EventsFit, LoadsFit, DataFits
  <2>4. Begun(d) = FALSE
    BY <2>1, <2>2 DEF Begun
  <2>5. Choice(<<>>, "off", "none", FALSE)
    BY DEF Choice, Without
  <2> QED
    BY <2>1, <2>3, <2>4, <2>5 DEF Play
<1>2. LimitInv /\ AccountsInv /\ PlayInv /\ [Next]_vars => PlayInv'
  <2> SUFFICES ASSUME LimitInv, AccountsInv, PlayInv, [Next]_vars PROVE PlayInv'
    OBVIOUS
  <2>1. TypeOK
    BY DEF LimitInv
  <2>2. ASSUME NEW c \in CLIENT, ClientStep(c) \/ Connect(c) \/ HandleMessage(c) \/ NothingHeard(c)
        PROVE  PlayInv'
    BY <2>1, <2>2, ClientPlays, MessagePlays, ConnectionPlays
  <2>3. ASSUME NEW save, NEW progress, RunSystems(save, progress) PROVE PlayInv'
    BY <2>1, <2>3, SystemsPlay
  <2>4. CASE HandleEvent \/ EndTick
    BY <2>1, <2>4, EventPlays, AnswersPlay
  <2>5. CASE Loader \/ Updater \/ DatabaseFails
    BY <2>5, StorePlays
  <2>6. CASE Kill
    BY <2>6, StopPlays DEF Kill
  <2>7. CASE Restart
    BY <2>7, DownPlays DEF Restart, clients, entities
  <2>8. CASE UNCHANGED vars
    <3>1. UNCHANGED <<db, requests, responses, up, bus, mode, sent, state, player, character, stats>>
      BY <2>8 DEF vars, store, clients, entities
    <3>2. ASSUME NEW d \in CLIENT PROVE Play(d)' = Play(d)
      BY <3>1 DEF Play, EventsFit, LoadsFit, DataFits, Begun, Wants, Has
    <3> QED
      BY <3>2 DEF PlayInv
  <2> QED
    BY <2>2, <2>3, <2>4, <2>5, <2>6, <2>7, <2>8 DEF Next
<1> QED
  BY <1>1, <1>2, LimitInductive, AccountsInductive, PTL DEF Spec

(* What a client plays is its own and stored, and the one it chose: its    *)
(* data comes only while it plays that one, and its player has no deletion *)
(* waiting behind the load.                                                *)
THEOREM CharactersArePlayed == Spec => []PlaysItsCharacter
<1>1. PlayInv => PlaysItsCharacter
  BY DEF PlayInv, Play, DataFits, Has, PlaysItsCharacter, CharactersOf
<1> QED
  BY <1>1, PlayInductive, PTL
-----------------------------------------------------------------------------
(* NoRollback.  What a client holds of a character, on its way from the    *)
(* loader (as an answer, then as an event) or played, at which progress.   *)
LoadFor(request, account) == request.what = "load" /\ request.account = account
UpdateFor(event, d) == event.what = "update" /\ event.entity = d

Answering(d) == \E i \in DOMAIN responses : responses[i].entity = d
Informed(d) == \E i \in DOMAIN bus : UpdateFor(bus[i], d)
Playing(d) == stats[d] # NoStats

Holding(d, id, p) ==
    \/ stats[d] # NoStats /\ stats[d].id = id /\ stats[d].progress = p
    \/ \E i \in DOMAIN bus : UpdateFor(bus[i], d) /\ bus[i].id = id /\ bus[i].progress = p
    \/ \E i \in DOMAIN responses :
          /\ responses[i].entity = d /\ responses[i].row # NoRow
          /\ responses[i].id = id /\ responses[i].row.progress = p

(* It is in one place only, and nothing is behind it: whoever holds a      *)
(* character, or is about to, has no other load waiting.                   *)
OnePath(d) ==
    /\ \A i, j \in DOMAIN responses : responses[i].entity = d /\ responses[j].entity = d => i = j
    /\ \A i, j \in DOMAIN bus : UpdateFor(bus[i], d) /\ UpdateFor(bus[j], d) => i = j
    /\ ~(Answering(d) /\ Informed(d)) /\ ~(Answering(d) /\ Playing(d)) /\ ~(Informed(d) /\ Playing(d))
    /\ Answering(d) \/ Informed(d) \/ Playing(d) =>
          \A i \in DOMAIN requests : ~LoadFor(requests[i], player[d])
    /\ \A i, j \in DOMAIN requests :
          LoadFor(requests[i], player[d]) /\ requests[i].entity = d /\ i < j =>
              ~LoadFor(requests[j], player[d])

(* Progress that is not behind anything that is stored or waits for it.    *)
Fresh(id, p) ==
    /\ \A i \in DOMAIN saves : \A u \in saves[i] : u.id = id => u.progress <= p
    /\ db[id] # NoRow => db[id].progress <= p

(* Saves of a character that wait bring it forward, one after the other.   *)
Rising(id) ==
    /\ \A i, j \in DOMAIN saves : i < j =>
          \A u \in saves[i], v \in saves[j] : u.id = id /\ v.id = id => u.progress <= v.progress
    /\ \A i \in DOMAIN saves : \A u \in saves[i] :
          u.id = id /\ db[id] # NoRow => db[id].progress <= u.progress

SavesRise == \A id \in CHARACTER \ raced : Rising(id)

Floor(d) == \A id \in CHARACTER \ raced, p \in Nat : Holding(d, id, p) => Fresh(id, p)

(* Who is registered, or further, has a Player.                            *)
PlayersThere == \A d \in CLIENT : state[d] \in {"Registered", "Character"} => player[d] # NoPlayer

SaveInv == PlayersThere /\ SavesRise /\ (up => \A d \in CLIENT : OnePath(d) /\ Floor(d))

(* What is held is a character of the client's player, ...                 *)
LEMMA HoldingKnown ==
    ASSUME LimitInv, PlayInv, up, NEW d \in CLIENT, NEW id, NEW p, Holding(d, id, p)
    PROVE  /\ id \in OwnedBy(db, player[d]) /\ p \in Nat
           /\ Answering(d) \/ Informed(d) \/ Playing(d)
<1>1. /\ bus \in Seq(ServerEvent) /\ responses \in Seq(Answer)
      /\ stats[d] \in Update \cup {NoStats}
      /\ Play(d)
  BY DEF LimitInv, TypeOK, StoreOK, PlayInv
<1>2. CASE stats[d] # NoStats /\ stats[d].id = id /\ stats[d].progress = p
  <2>1. p \in Nat
    BY <1>1, <1>2 DEF Update
  <2> QED
    BY <1>1, <1>2, <2>1 DEF Play, DataFits, Has, Playing
<1>3. ASSUME NEW i \in DOMAIN bus, UpdateFor(bus[i], d), bus[i].id = id, bus[i].progress = p
      PROVE  id \in OwnedBy(db, player[d]) /\ p \in Nat /\ Informed(d)
  <2>1. bus[i] \in ServerEvent /\ bus[i].what = "update"
    BY <1>1, <1>3 DEF UpdateFor
  <2>2. p \in Nat
    BY <1>3, <2>1 DEF ServerEvent
  <2>3. bus[i] \in Told(bus, "update", d)
    BY <1>3 DEF UpdateFor, Told
  <2> QED
    BY <1>1, <1>3, <2>2, <2>3 DEF Play, DataFits, Has, Informed
<1>4. ASSUME NEW i \in DOMAIN responses, responses[i].entity = d, responses[i].row # NoRow,
             responses[i].id = id, responses[i].row.progress = p
      PROVE  id \in OwnedBy(db, player[d]) /\ p \in Nat /\ Answering(d)
  <2>1. responses[i].row \in Row
    <3> DEFINE R == Row \cup {NoRow}
    <3>0. responses[i] \in Answer
      BY <1>1
    <3>1. responses[i] \in [entity : Nat, id : CHARACTER, row : R]
      BY <3>0 DEF Answer
    <3> HIDE DEF R
    <3>2. responses[i].row \in R
      BY <3>1
    <3> QED
      BY <1>4, <3>2 DEF R
  <2>2. p \in Nat
    BY <1>4, <2>1 DEF Row
  <2>3. responses[i] \in Replies(responses, d)
    BY <1>4 DEF Replies
  <2> QED
    BY <1>1, <1>4, <2>2, <2>3 DEF Play, LoadsFit, Has, Answering
<1> QED
  BY <1>2, <1>3, <1>4 DEF Holding

(* ... of whom it is the only one to have it, ...                          *)
LEMMA OneOwner ==
    ASSUME LimitInv, AccountsInv, NEW c \in CLIENT, NEW d \in CLIENT, NEW id,
           id \in OwnedBy(db, player[c]), id \in OwnedBy(db, player[d])
    PROVE  c = d
<1>1. db[id] \in Row /\ db[id].owner = player[c] /\ db[id].owner = player[d]
  BY DEF LimitInv, TypeOK, StoreOK, OwnedBy, Stored
<1>2. player[c] \in ACCOUNT
  BY <1>1 DEF Row
<1>3. player[c] # NoPlayer
  BY <1>2, Nothings
<1> QED
  BY <1>1, <1>3 DEF AccountsInv, AccountsMatch

(* ... and has it only once.                                               *)
LEMMA OneHolding ==
    ASSUME LimitInv, AccountsInv, PlayInv, up, NEW c \in CLIENT, NEW d \in CLIENT, OnePath(d),
           NEW id, NEW p, NEW q, Holding(c, id, p), Holding(d, id, q)
    PROVE  c = d /\ p = q
<1>1. c = d
  BY HoldingKnown, OneOwner
<1>2. p = q
  BY <1>1 DEF Holding, OnePath, Answering, Informed, Playing
<1> QED
  BY <1>1, <1>2

(* What is saved of a client is what it holds.                             *)
LEMMA SavedIsHeld ==
    ASSUME PlayInv, NEW c \in CLIENT, NEW u \in UpdateOf(c)
    PROVE  Holding(c, u.id, u.progress)
<1>1. stats[c] # NoStats /\ u = [id |-> character[c], progress |-> stats[c].progress]
  BY DEF UpdateOf
<1>2. stats[c].id = character[c]
  BY <1>1 DEF PlayInv, Play, DataFits
<1> QED
  BY <1>1, <1>2 DEF Holding

(* Saving what is held leaves everything in order.                         *)
LEMMA SaveKeeps ==
    ASSUME LimitInv, AccountsInv, PlayInv, SaveInv, up, UNCHANGED <<db, raced>>,
           NEW batch \in SUBSET Update, Save(batch),
           \A u \in batch : \E c \in CLIENT : Holding(c, u.id, u.progress)
    PROVE  /\ SavesRise'
           /\ \A d \in CLIENT, id \in CHARACTER \ raced, p \in Nat :
                 Holding(d, id, p) /\ Fresh(id, p) => Fresh(id, p)'
<1>1. saves \in Seq(SUBSET Update)
  BY DEF LimitInv, TypeOK, StoreOK
<1>2. CASE saves' = saves
  BY <1>2 DEF SaveInv, SavesRise, Rising, Fresh
<1>3. CASE saves' = Append(saves, batch)
  <2> DEFINE n == Len(saves) + 1
  <2>1. /\ n \in Nat /\ saves'[n] = batch /\ n \in DOMAIN saves'
        /\ \A i \in DOMAIN saves' : /\ i \in Nat
                                    /\ i = n \/ (i < n /\ i \in DOMAIN saves /\ saves'[i] = saves[i])
    BY <1>1, <1>3
  <2> HIDE DEF n
  <2>2. ASSUME NEW u \in batch, u.id \in CHARACTER \ raced
        PROVE  Fresh(u.id, u.progress) /\ u.progress \in Nat
    <3>1. PICK c \in CLIENT : Holding(c, u.id, u.progress)
      OBVIOUS
    <3>2. u.progress \in Nat
      BY <3>1, HoldingKnown
    <3> QED
      BY <2>2, <3>1, <3>2 DEF SaveInv, Floor
  <2>3. ASSUME NEW id \in CHARACTER \ raced PROVE Rising(id)'
    <3>1. Rising(id)
      BY DEF SaveInv, SavesRise
    <3>2. ASSUME NEW i \in DOMAIN saves', NEW j \in DOMAIN saves', i < j,
                 NEW u \in saves'[i], NEW v \in saves'[j], u.id = id, v.id = id
          PROVE  u.progress <= v.progress
      <4>1. i \in DOMAIN saves /\ u \in saves[i]
        BY <2>1, <3>2
      <4>2. CASE j = n
        BY <2>1, <2>2, <3>2, <4>1, <4>2 DEF Fresh
      <4>3. CASE j # n
        BY <2>1, <3>1, <3>2, <4>1, <4>3 DEF Rising
      <4> QED
        BY <4>2, <4>3
    <3>3. ASSUME NEW i \in DOMAIN saves', NEW u \in saves'[i], u.id = id, db[id] # NoRow
          PROVE  db[id].progress <= u.progress
      <4>1. CASE i = n
        BY <2>1, <2>2, <3>3, <4>1 DEF Fresh
      <4>2. CASE i # n
        BY <2>1, <3>1, <3>3, <4>2 DEF Rising
      <4> QED
        BY <4>1, <4>2
    <3> QED
      BY <3>2, <3>3 DEF Rising
  <2>4. ASSUME NEW d \in CLIENT, NEW id \in CHARACTER \ raced, NEW p \in Nat,
               Holding(d, id, p), Fresh(id, p)
        PROVE  Fresh(id, p)'
    <3>1. ASSUME NEW u \in batch, u.id = id PROVE u.progress = p
      <4>1. PICK c \in CLIENT : Holding(c, id, u.progress)
        BY <3>1
      <4>2. OnePath(d)
        BY DEF SaveInv
      <4> QED
        BY <2>4, <4>1, <4>2, OneHolding
    <3>2. ASSUME NEW i \in DOMAIN saves', NEW u \in saves'[i], u.id = id
          PROVE  u.progress <= p
      <4>1. CASE i = n
        BY <2>1, <3>1, <3>2, <4>1
      <4>2. CASE i # n
        BY <2>1, <2>4, <3>2, <4>2 DEF Fresh
      <4> QED
        BY <4>1, <4>2
    <3> QED
      BY <2>4, <3>2 DEF Fresh
  <2> QED
    BY <2>3, <2>4 DEF SavesRise
<1> QED
  BY <1>2, <1>3 DEF Save
-----------------------------------------------------------------------------
(* A step brings d nothing: what it holds then is what it held, a place    *)
(* further on in the queues at most.                                       *)
EventsThin(d) ==
    \E k \in Nat : \A i \in DOMAIN bus' : UpdateFor(bus'[i], d) =>
        /\ i \in Nat /\ i + k \in DOMAIN bus /\ UpdateFor(bus[i + k], d)
        /\ bus'[i].id = bus[i + k].id /\ bus'[i].progress = bus[i + k].progress

AnswersThin(d) ==
    \A i \in DOMAIN responses' : responses'[i].entity = d =>
        i \in DOMAIN responses /\ responses[i] = responses'[i]

LoadsThin(d) ==
    \E k \in Nat : \A i \in DOMAIN requests' : LoadFor(requests'[i], player[d]) =>
        /\ i \in Nat /\ i + k \in DOMAIN requests /\ LoadFor(requests[i + k], player[d])
        /\ requests'[i].entity = d => requests[i + k].entity = d

StatsThin(d) ==
    stats'[d] # NoStats => /\ stats[d] # NoStats
                           /\ stats'[d].id = stats[d].id
                           /\ stats[d].progress <= stats'[d].progress

Thin(d) ==
    player'[d] = player[d] /\ EventsThin(d) /\ AnswersThin(d) /\ LoadsThin(d) /\ StatsThin(d)

LEMMA ThinPath ==
    ASSUME NEW d \in CLIENT, Thin(d), OnePath(d)
    PROVE  OnePath(d)'
<1>1. PICK k \in Nat : \A i \in DOMAIN bus' : UpdateFor(bus'[i], d) =>
          i \in Nat /\ i + k \in DOMAIN bus /\ UpdateFor(bus[i + k], d)
  BY DEF Thin, EventsThin
<1>2. PICK l \in Nat : \A i \in DOMAIN requests' : LoadFor(requests'[i], player[d]) =>
          /\ i \in Nat /\ i + l \in DOMAIN requests /\ LoadFor(requests[i + l], player[d])
          /\ requests'[i].entity = d => requests[i + l].entity = d
  BY DEF Thin, LoadsThin
<1>3. /\ Answering(d)' => Answering(d)
      /\ Informed(d)' => Informed(d)
      /\ Playing(d)' => Playing(d)
  BY <1>1 DEF Thin, AnswersThin, StatsThin, Answering, Informed, Playing
<1>4. \A i, j \in DOMAIN responses' : responses'[i].entity = d /\ responses'[j].entity = d => i = j
  BY DEF Thin, AnswersThin, OnePath
<1>5. \A i, j \in DOMAIN bus' : UpdateFor(bus'[i], d) /\ UpdateFor(bus'[j], d) => i = j
  <2> SUFFICES ASSUME NEW i \in DOMAIN bus', NEW j \in DOMAIN bus', UpdateFor(bus'[i], d), UpdateFor(bus'[j], d)
               PROVE  i = j
    OBVIOUS
  <2>1. i \in Nat /\ j \in Nat /\ i + k = j + k
    BY <1>1 DEF OnePath
  <2> QED
    BY <2>1
<1>6. Answering(d)' \/ Informed(d)' \/ Playing(d)' =>
          \A i \in DOMAIN requests' : ~LoadFor(requests'[i], player[d])
  BY <1>2, <1>3 DEF OnePath
<1>7. ASSUME NEW i \in DOMAIN requests', NEW j \in DOMAIN requests',
             LoadFor(requests'[i], player[d]), requests'[i].entity = d, i < j
      PROVE  ~LoadFor(requests'[j], player[d])
  <2> SUFFICES ASSUME LoadFor(requests'[j], player[d]) PROVE FALSE
    OBVIOUS
  <2>1. /\ i \in Nat /\ i + l \in DOMAIN requests /\ LoadFor(requests[i + l], player[d])
        /\ requests[i + l].entity = d
        /\ j \in Nat /\ j + l \in DOMAIN requests /\ LoadFor(requests[j + l], player[d])
    BY <1>2, <1>7
  <2>2. i + l < j + l
    BY <1>7, <2>1
  <2> QED
    BY <2>1, <2>2 DEF OnePath
<1> QED
  BY <1>3, <1>4, <1>5, <1>6, <1>7 DEF OnePath, Thin

LEMMA ThinHolding ==
    ASSUME NEW d \in CLIENT, Thin(d), NEW id, NEW p, Holding(d, id, p)'
    PROVE  \E q : Holding(d, id, q) /\ (q = p \/ q <= p)
<1>1. CASE stats'[d] # NoStats /\ stats'[d].id = id /\ stats'[d].progress = p
  BY <1>1 DEF Thin, StatsThin, Holding
<1>2. CASE \E i \in DOMAIN bus' : UpdateFor(bus'[i], d) /\ bus'[i].id = id /\ bus'[i].progress = p
  BY <1>2 DEF Thin, EventsThin, Holding
<1>3. CASE \E i \in DOMAIN responses' :
              /\ responses'[i].entity = d /\ responses'[i].row # NoRow
              /\ responses'[i].id = id /\ responses'[i].row.progress = p
  BY <1>3 DEF Thin, AnswersThin, Holding
<1> QED
  BY <1>1, <1>2, <1>3 DEF Holding

(* More progress is no less fresh.                                         *)
LEMMA FreshMore ==
    ASSUME TypeOK', NEW id \in CHARACTER, NEW p \in Nat, NEW q \in Nat, q <= p, Fresh(id, q)'
    PROVE  Fresh(id, p)'
<1>1. ASSUME NEW i \in DOMAIN saves', NEW u \in saves'[i], u.id = id PROVE u.progress <= p
  <2>1. u \in Update
    BY <1>1 DEF TypeOK, StoreOK
  <2>2. u.progress \in Nat /\ u.progress <= q
    BY <1>1, <2>1 DEF Update, Fresh
  <2> QED
    BY <2>2
<1>2. ASSUME db'[id] # NoRow PROVE db'[id].progress <= p
  <2>1. db'[id] \in Row
    BY <1>2 DEF TypeOK, StoreOK
  <2>2. db'[id].progress \in Nat /\ db'[id].progress <= q
    BY <1>2, <2>1 DEF Row, Fresh
  <2> QED
    BY <2>2
<1> QED
  BY <1>1, <1>2 DEF Fresh

(* A client about whom nothing is under way, and that plays nothing.       *)
Nothing(d) ==
    /\ \A i \in DOMAIN responses : responses[i].entity # d
    /\ \A i \in DOMAIN bus : ~UpdateFor(bus[i], d)
    /\ \A i \in DOMAIN requests : requests[i].what = "load" => requests[i].entity # d
    /\ stats[d] = NoStats

LEMMA NothingHeld ==
    ASSUME NEW d \in CLIENT, Nothing(d)'
    PROVE  OnePath(d)' /\ Floor(d)'
<1>1. OnePath(d)'
  BY DEF Nothing, OnePath, LoadFor, Answering, Informed, Playing
<1>2. Floor(d)'
  BY DEF Nothing, Floor, Holding
<1> QED
  BY <1>1, <1>2

(* What is fresh stays so, and nobody gets anything new.                   *)
LEMMA ThinKeeps ==
    ASSUME LimitInv, TypeOK', PlayInv, SaveInv, up, NEW d \in CLIENT, Thin(d),
           \A id \in CHARACTER \ raced', p \in Nat :
               Holding(d, id, p) => id \notin raced /\ (Fresh(id, p) => Fresh(id, p)')
    PROVE  OnePath(d)' /\ Floor(d)'
<1>1. OnePath(d)'
  BY ThinPath DEF SaveInv
<1>2. ASSUME NEW id \in CHARACTER \ raced', NEW p \in Nat, Holding(d, id, p)'
      PROVE  Fresh(id, p)'
  <2>1. PICK q : Holding(d, id, q) /\ (q = p \/ q <= p)
    BY <1>2, ThinHolding
  <2>2. q \in Nat /\ q <= p
    BY <2>1, HoldingKnown
  <2>3. Fresh(id, q)
    BY <2>1, <2>2 DEF SaveInv, Floor
  <2>4. Fresh(id, q)'
    BY <2>1, <2>2, <2>3
  <2> QED
    BY <2>2, <2>4, FreshMore
<1> QED
  BY <1>1, <1>2 DEF Floor

(* How steps bring nothing.                                                *)
LEMMA BuriedFor ==
    ASSUME NEW c \in CLIENT, NEW d \in CLIENT, NEW ref \in Request \cup Answer \cup ServerEvent,
           Buried(ref, c).entity = d
    PROVE  Buried(ref, c) = ref /\ ref.entity = d /\ c # d
<1>1. Buried(ref, c).entity \in {Nobody, ref.entity} \ {c}
  BY BuriedEntity
<1>2. d # Nobody
  BY Nothings
<1>3. ref.entity = d /\ d # c
  BY <1>1, <1>2
<1> QED
  BY <1>3 DEF Buried

LEMMA ThinBus ==
    ASSUME TypeOK, NEW d \in CLIENT,
           \/ UNCHANGED bus
           \/ \E event : ~UpdateFor(event, d) /\ bus' = Append(bus, event)
           \/ bus # <<>> /\ bus' = Tail(bus)
           \/ bus # <<>> /\ \E c \in CLIENT : bus' = Bury(Tail(bus), c)
    PROVE  EventsThin(d)
<1>1. bus \in Seq(ServerEvent)
  BY DEF TypeOK
<1>2. CASE UNCHANGED bus
  <2>1. \A i \in DOMAIN bus' : i \in Nat /\ i + 0 = i
    BY <1>1, <1>2
  <2> QED
    BY <1>2, <2>1 DEF EventsThin
<1>3. ASSUME NEW event, ~UpdateFor(event, d), bus' = Append(bus, event) PROVE EventsThin(d)
  <2>1. \A i \in DOMAIN bus' : i \in Nat /\ i + 0 = i /\ (bus'[i] = event \/ (i \in DOMAIN bus /\ bus'[i] = bus[i]))
    BY <1>1, <1>3
  <2>2. \A i \in DOMAIN bus' : UpdateFor(bus'[i], d) =>
            /\ i \in Nat /\ i + 0 \in DOMAIN bus /\ UpdateFor(bus[i + 0], d)
            /\ bus'[i].id = bus[i + 0].id /\ bus'[i].progress = bus[i + 0].progress
    BY <1>3, <2>1
  <2> QED
    BY <2>2 DEF EventsThin
<1>4. ASSUME bus # <<>>
      PROVE  \A i \in DOMAIN Tail(bus) : i \in Nat /\ i + 1 \in DOMAIN bus /\ Tail(bus)[i] = bus[i + 1]
  BY <1>1, <1>4
<1>5. CASE bus # <<>> /\ bus' = Tail(bus)
  BY <1>4, <1>5 DEF EventsThin
<1>6. ASSUME bus # <<>>, NEW c \in CLIENT, bus' = Bury(Tail(bus), c) PROVE EventsThin(d)
  <2>1. \A i \in DOMAIN bus' : /\ i \in Nat /\ i + 1 \in DOMAIN bus /\ bus'[i] = Buried(bus[i + 1], c)
                               /\ bus[i + 1] \in ServerEvent
    BY <1>1, <1>4, <1>6 DEF Bury
  <2>2. ASSUME NEW i \in DOMAIN bus', UpdateFor(bus'[i], d) PROVE bus'[i] = bus[i + 1]
    BY <2>1, <2>2, BuriedFor DEF UpdateFor
  <2> QED
    BY <2>1, <2>2 DEF EventsThin
<1> QED
  BY <1>2, <1>3, <1>5, <1>6

LEMMA ThinRequests ==
    ASSUME TypeOK, NEW d \in CLIENT,
           \/ UNCHANGED requests
           \/ \E request : ~LoadFor(request, player[d]) /\ requests' = Append(requests, request)
           \/ requests # <<>> /\ requests' = Tail(requests)
           \/ \E c \in CLIENT : requests' = Bury(requests, c)
    PROVE  LoadsThin(d)
<1>1. requests \in Seq(Request)
  BY DEF TypeOK, StoreOK
<1>2. CASE UNCHANGED requests
  <2>1. \A i \in DOMAIN requests' : i \in Nat /\ i + 0 = i
    BY <1>1, <1>2
  <2> QED
    BY <1>2, <2>1 DEF LoadsThin
<1>3. ASSUME NEW request, ~LoadFor(request, player[d]), requests' = Append(requests, request) PROVE LoadsThin(d)
  <2>1. \A i \in DOMAIN requests' :
            i \in Nat /\ i + 0 = i /\ (requests'[i] = request \/ (i \in DOMAIN requests /\ requests'[i] = requests[i]))
    BY <1>1, <1>3
  <2>2. \A i \in DOMAIN requests' : LoadFor(requests'[i], player[d]) =>
            /\ i \in Nat /\ i + 0 \in DOMAIN requests /\ LoadFor(requests[i + 0], player[d])
            /\ requests'[i].entity = d => requests[i + 0].entity = d
    BY <1>3, <2>1
  <2> QED
    BY <2>2 DEF LoadsThin
<1>4. CASE requests # <<>> /\ requests' = Tail(requests)
  <2>1. \A i \in DOMAIN requests' : i \in Nat /\ i + 1 \in DOMAIN requests /\ requests'[i] = requests[i + 1]
    BY <1>1, <1>4
  <2> QED
    BY <2>1 DEF LoadsThin
<1>5. ASSUME NEW c \in CLIENT, requests' = Bury(requests, c) PROVE LoadsThin(d)
  <2>1. \A i \in DOMAIN requests' :
            /\ i \in Nat /\ i + 0 = i /\ i \in DOMAIN requests /\ requests'[i] = Buried(requests[i], c)
            /\ requests[i] \in Request
    BY <1>1, <1>5 DEF Bury
  <2>2. ASSUME NEW i \in DOMAIN requests'
        PROVE  /\ requests'[i].what = requests[i].what /\ requests'[i].account = requests[i].account
               /\ requests'[i].entity = d => requests[i].entity = d
    BY <2>1, BuryRequest, BuriedFor
  <2>3. \A i \in DOMAIN requests' : LoadFor(requests'[i], player[d]) =>
            /\ i \in Nat /\ i + 0 \in DOMAIN requests /\ LoadFor(requests[i + 0], player[d])
            /\ requests'[i].entity = d => requests[i + 0].entity = d
    BY <2>1, <2>2 DEF LoadFor
  <2> QED
    BY <2>3 DEF LoadsThin
<1> QED
  BY <1>2, <1>3, <1>4, <1>5

LEMMA ThinResponses ==
    ASSUME TypeOK, NEW d \in CLIENT,
           \/ UNCHANGED responses
           \/ responses' = <<>>
           \/ \E answer : answer.entity # d /\ responses' = Append(responses, answer)
           \/ \E c \in CLIENT : responses' = Bury(responses, c)
    PROVE  AnswersThin(d)
<1>1. responses \in Seq(Answer)
  BY DEF TypeOK, StoreOK
<1>2. CASE UNCHANGED responses \/ responses' = <<>>
  BY <1>2 DEF AnswersThin
<1>3. ASSUME NEW answer, answer.entity # d, responses' = Append(responses, answer) PROVE AnswersThin(d)
  <2>1. \A i \in DOMAIN responses' : responses'[i] = answer \/ (i \in DOMAIN responses /\ responses'[i] = responses[i])
    BY <1>1, <1>3
  <2> QED
    BY <1>3, <2>1 DEF AnswersThin
<1>4. ASSUME NEW c \in CLIENT, responses' = Bury(responses, c) PROVE AnswersThin(d)
  <2>1. \A i \in DOMAIN responses' :
            i \in DOMAIN responses /\ responses'[i] = Buried(responses[i], c) /\ responses[i] \in Answer
    BY <1>1, <1>4 DEF Bury
  <2> QED
    BY <2>1, BuriedFor DEF AnswersThin
<1> QED
  BY <1>2, <1>3, <1>4

LEMMA ThinStats ==
    ASSUME TypeOK, NEW d \in CLIENT, stats'[d] \in {stats[d], NoStats}
    PROVE  StatsThin(d)
<1>1. stats[d] # NoStats => stats[d].progress \in Nat
  BY DEF TypeOK, Update
<1> QED
  BY <1>1 DEF StatsThin

(* Steps that leave the characters and their saves alone.                  *)
LEMMA UnsavedKeeps ==
    ASSUME LimitInv, TypeOK', PlayInv, SaveInv, up, UNCHANGED <<db, saves, raced>>, PlayersThere',
           \A d \in CLIENT : Thin(d) \/ (OnePath(d)' /\ Floor(d)')
    PROVE  SaveInv'
<1>1. SavesRise'
  BY DEF SaveInv, SavesRise, Rising
<1>2. ASSUME NEW d \in CLIENT, Thin(d) PROVE OnePath(d)' /\ Floor(d)'
  <2>1. \A id, p : Fresh(id, p) => Fresh(id, p)'
    BY DEF Fresh
  <2> QED
    BY <1>2, <2>1, ThinKeeps
<1> QED
  BY <1>1, <1>2 DEF SaveInv

(* Whoever is not in the game and has not asked for it has nothing.        *)
LEMMA NotBegun ==
    ASSUME PlayInv, up, NEW d \in CLIENT, ~Begun(d)
    PROVE  Nothing(d)
<1>1. Play(d) /\ state[d] # "Character" /\ Told(bus, "init", d) = {}
  BY DEF PlayInv, Begun
<1>2. Told(requests, "load", d) = {} /\ Replies(responses, d) = {}
  BY <1>1 DEF Play, LoadsFit, Wants
<1>3. Told(bus, "update", d) = {} /\ stats[d] = NoStats
  BY <1>1 DEF Play, DataFits
<1> QED
  BY <1>2, <1>3 DEF Nothing, Told, Replies, UpdateFor
-----------------------------------------------------------------------------
(* A client that sends, comes, or is not heard of.                         *)
LEMMA ClientRolls ==
    ASSUME LimitInv, TypeOK', PlayInv, SaveInv, NEW c \in CLIENT,
           ClientStep(c) \/ Connect(c) \/ NothingHeard(c)
    PROVE  SaveInv'
<1>1. /\ up /\ UNCHANGED <<db, saves, raced, requests, responses, player, stats>>
      /\ \A d \in CLIENT : state'[d] \in {state[d], "Connected"}
      /\ UNCHANGED bus \/ \E event : event.what = "disconnect" /\ bus' = Append(bus, event)
  <2>1. CASE ClientStep(c)
    BY <2>1 DEF ClientStep, Register, RequestCharacter, RequestDeletion, RequestRemoveCharacter,
         RequestCreation, RequestLogout, Close, Send, Act, store, entities
  <2>2. CASE Connect(c)
    BY <2>2 DEF Connect, store, LimitInv, TypeOK
  <2>3. CASE NothingHeard(c)
    <3>1. PICK event : event = [entity |-> c, what |-> "disconnect"]
      OBVIOUS
    <3>2. bus' = Append(bus, event) /\ event.what = "disconnect"
      BY <2>3, <3>1 DEF NothingHeard, Emit
    <3> QED
      BY <2>3, <3>2 DEF NothingHeard, store, entities
  <2> QED
    BY <2>1, <2>2, <2>3
<1>2. ASSUME NEW d \in CLIENT PROVE Thin(d)
  <2>1. EventsThin(d)
    BY <1>1, ThinBus DEF LimitInv, UpdateFor
  <2>2. LoadsThin(d) /\ AnswersThin(d) /\ StatsThin(d)
    BY <1>1, ThinRequests, ThinResponses, ThinStats DEF LimitInv
  <2> QED
    BY <1>1, <2>1, <2>2 DEF Thin
<1>3. PlayersThere'
  BY <1>1 DEF SaveInv, PlayersThere
<1> QED
  BY <1>1, <1>2, <1>3, UnsavedKeeps

(* A message: only one that asks for a character begins something.         *)
LEMMA MessageRolls ==
    ASSUME LimitInv, TypeOK', AccountsInv, PlayInv, SaveInv, NEW c \in CLIENT, HandleMessage(c)
    PROVE  SaveInv'
<1>1. TypeOK
  BY DEF LimitInv
<1>2. /\ up /\ UNCHANGED <<db, saves, raced, responses, stats>>
      /\ \A d \in CLIENT \ {c} : state'[d] = state[d] /\ player'[d] = player[d]
  BY <1>1 DEF HandleMessage, HandleRegister, HandleCharacter, HandleExitIngame, HandleCreateCharacter,
         HandleDeleteCharacter, HandleTerminate, Receive, TypeOK
<1>3. ASSUME NEW d \in CLIENT PROVE AnswersThin(d) /\ StatsThin(d)
  BY <1>1, <1>2, ThinResponses, ThinStats
<1>4. CASE HandleRegister(c)
  <2>1. UNCHANGED <<requests, bus>> /\ up'
    BY <1>4 DEF HandleRegister, Receive
  <2>2. /\ state[c] = "Connected"
        /\ \/ UNCHANGED <<state, player>>
           \/ state'[c] = "Registered" /\ player'[c] \in ACCOUNT
    <3>1. state[c] = "Connected"
      BY <1>1, <1>4, OneRegistration DEF HandleRegister, AccountsInv
    <3>2. Head(sent[c]).account \in Valid => Head(sent[c]).account \in ACCOUNT
      BY Nothings
    <3> QED
      BY <1>1, <1>4, <3>1, <3>2 DEF HandleRegister, TypeOK
  <2>3. PlayersThere'
    BY <1>2, <2>2, Nothings DEF SaveInv, PlayersThere
  <2>4. ASSUME NEW d \in CLIENT, d # c PROVE Thin(d)
    <3>1. EventsThin(d) /\ LoadsThin(d)
      BY <1>1, <2>1, ThinBus, ThinRequests
    <3> QED
      BY <1>2, <1>3, <2>4, <3>1 DEF Thin
  <2>5. OnePath(c)' /\ Floor(c)'
    <3>1. ~Begun(c)
      BY <1>2, <2>2 DEF PlayInv, Play, EventsFit, Begun
    <3>2. Nothing(c)'
      BY <1>2, <2>1, <3>1, NotBegun DEF Nothing
    <3> QED
      BY <3>2, NothingHeld
  <2> QED
    BY <1>2, <2>3, <2>4, <2>5, UnsavedKeeps
<1>5. CASE HandleCharacter(c) /\ state[c] = "Registered"
  <2>1. PICK request : request = [entity |-> c, what |-> "load", account |-> player[c], id |-> Head(sent[c]).id]
    OBVIOUS
  <2>2. PICK event : event = [entity |-> c, what |-> "init", id |-> Head(sent[c]).id]
    OBVIOUS
  <2>3. /\ requests' = Append(requests, request) /\ bus' = Append(bus, event)
        /\ UNCHANGED <<state, player>>
    BY <1>5, <2>1, <2>2 DEF HandleCharacter, Emit
  <2>4. request.what = "load" /\ request.entity = c /\ request.account = player[c] /\ event.what = "init"
    BY <2>1, <2>2
  <2>5. PlayersThere' /\ player[c] # NoPlayer
    BY <1>5, <2>3 DEF SaveInv, PlayersThere
  <2>6. ASSUME NEW d \in CLIENT, d # c PROVE Thin(d)
    <3>1. ~LoadFor(request, player[d])
      BY <2>4, <2>5, <2>6 DEF LoadFor, AccountsInv, AccountsMatch
    <3>2. ~UpdateFor(event, d)
      BY <2>4 DEF UpdateFor
    <3>3. EventsThin(d) /\ LoadsThin(d)
      BY <1>1, <2>3, <3>1, <3>2, ThinBus, ThinRequests
    <3> QED
      BY <1>2, <1>3, <2>6, <3>3 DEF Thin
  <2>7. Nothing(c)
    <3>1. ~Begun(c)
      BY <1>1, <1>5, ReceivedPlays DEF HandleCharacter
    <3> QED
      BY <1>2, <3>1, NotBegun
  <2>8. \A i \in DOMAIN bus' : ~UpdateFor(bus'[i], c)
    BY <1>1, <2>3, <2>4, <2>7 DEF Nothing, UpdateFor, TypeOK
  <2>9. OnePath(c)'
    <3>1. requests \in Seq(Request)
      BY <1>1 DEF TypeOK, StoreOK
    <3>2. \A i \in DOMAIN requests' : i \in Nat /\ (i = Len(requests) + 1 \/ (i \in DOMAIN requests /\ requests'[i] = requests[i]))
      BY <2>3, <3>1
    <3>3. \A i, j \in DOMAIN requests' :
             LoadFor(requests'[i], player[c]) /\ requests'[i].entity = c /\ i < j => FALSE
      <4> SUFFICES ASSUME NEW i \in DOMAIN requests', NEW j \in DOMAIN requests', i < j,
                          requests'[i].what = "load", requests'[i].entity = c
                   PROVE  FALSE
        BY DEF LoadFor
      <4>1. i = Len(requests) + 1
        BY <2>7, <3>2 DEF Nothing
      <4>2. j <= Len(requests) + 1 /\ j \in Nat /\ Len(requests) \in Nat
        BY <2>3, <3>1
      <4> QED
        BY <4>1, <4>2
    <3>4. ~Answering(c)' /\ ~Informed(c)' /\ ~Playing(c)'
      BY <1>2, <2>7, <2>8 DEF Nothing, Answering, Informed, Playing
    <3>5. \A i, j \in DOMAIN responses' : responses'[i].entity = c /\ responses'[j].entity = c => i = j
      BY <1>2, <2>7 DEF Nothing
    <3> QED
      BY <2>3, <2>8, <3>3, <3>4, <3>5 DEF OnePath
  <2>10. Floor(c)'
    BY <1>2, <2>7, <2>8 DEF Nothing, Floor, Holding
  <2> QED
    BY <1>2, <2>5, <2>6, <2>9, <2>10, UnsavedKeeps
<1>6. ASSUME UNCHANGED <<state, player>>,
             \/ UNCHANGED requests
             \/ \E request : request.what # "load" /\ requests' = Append(requests, request),
             \/ UNCHANGED bus
             \/ \E event : event.what # "update" /\ bus' = Append(bus, event)
      PROVE  SaveInv'
  <2>1. ASSUME NEW d \in CLIENT PROVE Thin(d)
    <3>1. EventsThin(d) /\ LoadsThin(d)
      BY <1>1, <1>6, ThinBus, ThinRequests DEF LoadFor, UpdateFor
    <3> QED
      BY <1>3, <1>6, <3>1 DEF Thin
  <2>2. PlayersThere'
    BY <1>6 DEF SaveInv, PlayersThere
  <2> QED
    BY <1>2, <2>1, <2>2, UnsavedKeeps
<1>7. CASE HandleCharacter(c) /\ state[c] # "Registered"
  BY <1>6, <1>7 DEF HandleCharacter
<1>8. ASSUME NEW what, what # "update", NEW x, bus' = Append(bus, [entity |-> x, what |-> what])
      PROVE  \E event : event.what # "update" /\ bus' = Append(bus, event)
  <2>1. [entity |-> x, what |-> what].what = what
    OBVIOUS
  <2> QED
    BY <1>8, <2>1
<1>9. CASE HandleExitIngame(c)
  BY <1>6, <1>8, <1>9 DEF HandleExitIngame, Emit
<1>10. CASE HandleTerminate(c)
  BY <1>6, <1>8, <1>10 DEF HandleTerminate, Emit
<1>11. CASE HandleCreateCharacter(c)
  <2>1. PICK request : request = [entity |-> c, what |-> "create", account |-> player[c]]
    OBVIOUS
  <2>2. request.what # "load"
    BY <2>1
  <2> QED
    BY <1>6, <1>11, <2>1, <2>2 DEF HandleCreateCharacter
<1>12. CASE HandleDeleteCharacter(c)
  <2>1. PICK request : request = [entity |-> c, what |-> "delete", account |-> player[c], id |-> Head(sent[c]).id]
    OBVIOUS
  <2>2. request.what # "load"
    BY <2>1
  <2> QED
    BY <1>6, <1>12, <2>1, <2>2 DEF HandleDeleteCharacter
<1> QED
  BY <1>4, <1>5, <1>7, <1>9, <1>10, <1>11, <1>12 DEF HandleMessage
-----------------------------------------------------------------------------
(* The tick: what is saved is what was played before it.                   *)
LEMMA SystemsRoll ==
    ASSUME LimitInv, TypeOK', AccountsInv, PlayInv, SaveInv, NEW save, NEW progress,
           RunSystems(save, progress)
    PROVE  SaveInv'
<1>1. /\ TypeOK /\ up
      /\ UNCHANGED <<db, raced, requests, responses, bus, state, player>>
      /\ stats' = [c \in CLIENT |-> IF c \in progress THEN [stats[c] EXCEPT !.progress = @ + 1] ELSE stats[c]]
      /\ \A c \in progress : stats[c] # NoStats /\ stats[c].progress < MaxProgress
  BY DEF RunSystems, LimitInv
<1>2. ASSUME NEW d \in CLIENT PROVE Thin(d)
  <2>1. stats[d] # NoStats => stats[d] \in Update /\ stats[d].progress \in Nat
    BY <1>1 DEF TypeOK, Update
  <2>2. StatsThin(d)
    <3>1. CASE d \in progress
      <4>1. stats[d] \in Update /\ stats[d].progress \in Nat
        BY <1>1, <2>1, <3>1
      <4>2. stats'[d] = [stats[d] EXCEPT !.progress = stats[d].progress + 1]
        BY <1>1, <3>1
      <4>3. stats'[d].id = stats[d].id /\ stats'[d].progress = stats[d].progress + 1
        BY <4>1, <4>2 DEF Update
      <4>4. stats[d].progress <= stats[d].progress + 1
        BY <4>1
      <4> QED
        BY <1>1, <3>1, <4>3, <4>4 DEF StatsThin
    <3>2. CASE d \notin progress
      BY <1>1, <3>2, ThinStats
    <3> QED
      BY <3>1, <3>2
  <2>3. EventsThin(d) /\ LoadsThin(d) /\ AnswersThin(d)
    BY <1>1, ThinBus, ThinRequests, ThinResponses
  <2> QED
    BY <1>1, <2>2, <2>3 DEF Thin
<1>3. /\ SavesRise'
      /\ \A d \in CLIENT, id \in CHARACTER \ raced, p \in Nat :
            Holding(d, id, p) /\ Fresh(id, p) => Fresh(id, p)'
  <2>1. CASE save
    <3>1. PICK batch : batch = UNION {UpdateOf(c) : c \in CLIENT}
      OBVIOUS
    <3>2. batch \in SUBSET Update /\ Save(batch)
      BY <1>1, <2>1, <3>1, UpdateTyped DEF RunSystems
    <3>3. \A u \in batch : \E c \in CLIENT : Holding(c, u.id, u.progress)
      BY <3>1, SavedIsHeld
    <3> QED
      BY <1>1, <3>2, <3>3, SaveKeeps
  <2>2. CASE ~save
    <3>1. UNCHANGED <<db, saves, raced>>
      BY <1>1, <2>2 DEF RunSystems
    <3> QED
      BY <3>1 DEF SaveInv, SavesRise, Rising, Fresh
  <2> QED
    BY <2>1, <2>2
<1>4. ASSUME NEW d \in CLIENT PROVE OnePath(d)' /\ Floor(d)'
  BY <1>1, <1>2, <1>3, ThinKeeps
<1>5. PlayersThere'
  BY <1>1 DEF SaveInv, PlayersThere
<1> QED
  BY <1>3, <1>4, <1>5 DEF SaveInv

(* The data arrives: it is what the event said.                            *)
LEMMA UpdateRolls ==
    ASSUME LimitInv, TypeOK', PlayInv, SaveInv, NEW c \in CLIENT, HandleUpdate(c)
    PROVE  SaveInv'
<1>1. /\ up /\ bus \in Seq(ServerEvent) /\ bus # <<>> /\ bus' = Tail(bus)
      /\ Head(bus).what = "update" /\ Head(bus).entity = c
      /\ stats' = [stats EXCEPT ![c] = [id |-> Head(bus).id, progress |-> Head(bus).progress]]
      /\ DOMAIN stats = CLIENT
      /\ UNCHANGED <<db, saves, raced, requests, responses, state, player>>
  BY DEF HandleUpdate, Handle, LimitInv, TypeOK
<1>2. PlayersThere'
  BY <1>1 DEF SaveInv, PlayersThere
<1>3. ASSUME NEW d \in CLIENT, d # c PROVE Thin(d)
  <2>1. TypeOK /\ stats'[d] = stats[d]
    BY <1>1, <1>3 DEF LimitInv
  <2>2. EventsThin(d) /\ LoadsThin(d) /\ AnswersThin(d) /\ StatsThin(d)
    BY <1>1, <2>1, ThinBus, ThinRequests, ThinResponses, ThinStats
  <2> QED
    BY <1>1, <2>2 DEF Thin
<1>4. /\ 1 \in DOMAIN bus /\ Head(bus) = bus[1] /\ UpdateFor(bus[1], c)
      /\ \A i \in DOMAIN bus' : i + 1 \in DOMAIN bus /\ i + 1 # 1 /\ bus'[i] = bus[i + 1]
  BY <1>1 DEF UpdateFor
<1>5. OnePath(c)
  BY <1>1 DEF SaveInv
<1>6. \A i \in DOMAIN bus' : ~UpdateFor(bus'[i], c)
  BY <1>4, <1>5 DEF OnePath
<1>7. ~Answering(c) /\ (\A i \in DOMAIN requests : ~LoadFor(requests[i], player[c]))
  BY <1>4, <1>5 DEF OnePath, Informed
<1>8. OnePath(c)'
  <2>1. ~Answering(c)' /\ ~Informed(c)'
    BY <1>1, <1>6, <1>7 DEF Answering, Informed
  <2> QED
    BY <1>1, <1>5, <1>6, <1>7, <2>1 DEF OnePath
<1>9. Floor(c)'
  <2> SUFFICES ASSUME NEW id \in CHARACTER \ raced, NEW p \in Nat, Holding(c, id, p)'
               PROVE  Fresh(id, p)'
    BY <1>1 DEF Floor
  <2>1. Holding(c, id, p)
    <3>1. \A i \in DOMAIN responses' : responses'[i].entity # c
      BY <1>1, <1>7 DEF Answering
    <3>2. stats'[c].id = id /\ stats'[c].progress = p
      BY <1>6, <3>1 DEF Holding
    <3>3. bus[1].id = id /\ bus[1].progress = p
      BY <1>1, <1>4, <3>2
    <3> QED
      BY <1>4, <3>3 DEF Holding
  <2> QED
    BY <1>1, <2>1 DEF SaveInv, Floor, Fresh
<1> QED
  BY <1>1, <1>2, <1>3, <1>8, <1>9, UnsavedKeeps

(* An entity that leaves or goes takes all it had with it; a client that   *)
(* goes is saved.                                                          *)
LEMMA LeaveRolls ==
    ASSUME LimitInv, TypeOK', AccountsInv, PlayInv, SaveInv, NEW c \in CLIENT,
           HandleExit(c) \/ HandleDisconnect(c)
    PROVE  SaveInv'
<1>1. /\ TypeOK /\ up /\ bus # <<>> /\ UNCHANGED <<db, raced>>
      /\ bus' = Bury(Tail(bus), c) /\ requests' = Bury(requests, c) /\ responses' = Bury(responses, c)
      /\ stats' = [stats EXCEPT ![c] = NoStats] /\ DOMAIN stats = CLIENT
      /\ \A d \in CLIENT \ {c} : state'[d] = state[d] /\ player'[d] = player[d]
      /\ Head(bus).entity = c
  BY DEF HandleExit, HandleDisconnect, Handle, BuryAll, WithoutStats, LimitInv, TypeOK
<1>2. PlayersThere'
  <2>1. state'[c] = "Registered" => state[c] = "Character" /\ player'[c] = player[c]
    <3>1. CASE HandleExit(c)
      <4>1. Head(bus) \in Told(bus, "exit", c)
        <5>1. 1 \in DOMAIN bus /\ Head(bus) = bus[1]
          BY <1>1 DEF TypeOK
        <5> QED
          BY <1>1, <3>1, <5>1 DEF HandleExit, Handle, Told
      <4> QED
        BY <3>1, <4>1 DEF HandleExit, PlayInv, Play, EventsFit
    <3>2. CASE HandleDisconnect(c)
      BY <1>1, <3>2 DEF HandleDisconnect, TypeOK
    <3> QED
      BY <3>1, <3>2
  <2>2. state'[c] # "Character"
    BY <1>1 DEF HandleExit, HandleDisconnect, TypeOK
  <2> QED
    BY <1>1, <2>1, <2>2 DEF SaveInv, PlayersThere
<1>3. ASSUME NEW d \in CLIENT, d # c PROVE Thin(d)
  <2>1. stats'[d] = stats[d]
    BY <1>1, <1>3
  <2>2. EventsThin(d) /\ LoadsThin(d) /\ AnswersThin(d) /\ StatsThin(d)
    BY <1>1, <2>1, ThinBus, ThinRequests, ThinResponses, ThinStats
  <2> QED
    BY <1>1, <1>3, <2>2 DEF Thin
<1>4. OnePath(c)' /\ Floor(c)'
  <2>1. /\ bus \in Seq(ServerEvent) /\ requests \in Seq(Request) /\ responses \in Seq(Answer)
    BY <1>1 DEF TypeOK, StoreOK
  <2>2. \A ref \in Request \cup Answer \cup ServerEvent : Buried(ref, c).entity # c
    BY BuriedEntity
  <2>3. \A i \in DOMAIN bus' : bus'[i].entity # c
    <3>1. PICK events : events = Tail(bus)
      OBVIOUS
    <3>2. events \in Seq(ServerEvent) /\ bus' = Bury(events, c)
      BY <1>1, <2>1, <3>1
    <3> QED
      BY <2>2, <3>2 DEF Bury
  <2>4. (\A i \in DOMAIN requests' : requests'[i].entity # c) /\ (\A i \in DOMAIN responses' : responses'[i].entity # c)
    BY <1>1, <2>1, <2>2 DEF Bury
  <2>5. Nothing(c)'
    BY <1>1, <2>3, <2>4 DEF Nothing, UpdateFor
  <2> QED
    BY <2>5, NothingHeld
<1>5. CASE HandleExit(c)
  BY <1>1, <1>2, <1>3, <1>4, <1>5, UnsavedKeeps DEF HandleExit
<1>6. CASE HandleDisconnect(c)
  <2>1. UpdateOf(c) \in SUBSET Update /\ Save(UpdateOf(c))
    BY <1>1, <1>6, UpdateTyped DEF HandleDisconnect
  <2>2. \A u \in UpdateOf(c) : \E b \in CLIENT : Holding(b, u.id, u.progress)
    BY SavedIsHeld
  <2>3. /\ SavesRise'
        /\ \A d \in CLIENT, id \in CHARACTER \ raced, p \in Nat :
              Holding(d, id, p) /\ Fresh(id, p) => Fresh(id, p)'
    BY <1>1, <2>1, <2>2, SaveKeeps
  <2>4. ASSUME NEW d \in CLIENT, d # c PROVE OnePath(d)' /\ Floor(d)'
    BY <1>1, <1>3, <2>3, <2>4, ThinKeeps
  <2> QED
    BY <1>2, <1>4, <2>3, <2>4 DEF SaveInv
<1> QED
  BY <1>5, <1>6

(* A server that stops, and one that starts, have nobody.                  *)
LEMMA StopRolls ==
    ASSUME SaveInv, Stop, ThreadsGone \/ UNCHANGED saves, UNCHANGED <<db, raced>>
    PROVE  SaveInv'
<1>1. ~up' /\ \A d \in CLIENT : state'[d] = "none"
  BY DEF Stop, NoneOf
<1>2. SavesRise'
  BY DEF SaveInv, SavesRise, Rising, ThreadsGone
<1> QED
  BY <1>1, <1>2 DEF SaveInv, PlayersThere

LEMMA RestartRolls ==
    ASSUME AccountsInv, PlayInv, SaveInv, Restart
    PROVE  SaveInv'
<1>1. /\ ~up /\ requests' = <<>> /\ responses' = <<>>
      /\ UNCHANGED <<db, saves, raced, state, player, stats, bus>>
  BY DEF Restart, entities
<1>2. PlayersThere' /\ SavesRise'
  BY <1>1 DEF SaveInv, PlayersThere, SavesRise, Rising
<1>3. ASSUME NEW d \in CLIENT PROVE OnePath(d)' /\ Floor(d)'
  <2>1. bus = <<>> /\ stats[d] = NoStats
    BY <1>1 DEF AccountsInv, EntitiesKnown, PlayInv, Play, EventsFit, DataFits
  <2>2. Nothing(d)'
    BY <1>1, <2>1 DEF Nothing
  <2> QED
    BY <2>2, NothingHeld
<1> QED
  BY <1>2, <1>3 DEF SaveInv

LEMMA EventRolls ==
    ASSUME LimitInv, TypeOK', AccountsInv, PlayInv, SaveInv, HandleEvent
    PROVE  SaveInv'
<1>1. ASSUME NEW c \in CLIENT, HandleInit(c) PROVE SaveInv'
  <2>1. /\ TypeOK /\ up /\ bus # <<>> /\ bus' = Tail(bus) /\ Head(bus).what = "init" /\ Head(bus).entity = c
        /\ UNCHANGED <<db, saves, raced, requests, responses, player, stats>>
        /\ \A d \in CLIENT \ {c} : state'[d] = state[d]
    BY <1>1 DEF HandleInit, Handle, LimitInv, TypeOK
  <2>2. state[c] = "Registered"
    <3>1. 1 \in DOMAIN bus /\ Head(bus) = bus[1]
      BY <2>1 DEF TypeOK
    <3>2. Head(bus) \in Told(bus, "init", c)
      BY <2>1, <3>1 DEF Told
    <3> QED
      BY <3>2 DEF PlayInv, Play, EventsFit
  <2>3. PlayersThere'
    BY <2>1, <2>2 DEF SaveInv, PlayersThere
  <2>4. ASSUME NEW d \in CLIENT PROVE Thin(d)
    <3>1. EventsThin(d) /\ LoadsThin(d) /\ AnswersThin(d) /\ StatsThin(d)
      BY <2>1, ThinBus, ThinRequests, ThinResponses, ThinStats
    <3> QED
      BY <2>1, <3>1 DEF Thin
  <2> QED
    BY <2>1, <2>3, <2>4, UnsavedKeeps
<1>2. CASE HandleNothing
  <2>1. /\ TypeOK /\ up /\ bus # <<>> /\ bus' = Tail(bus)
        /\ UNCHANGED <<db, saves, raced, requests, responses, state, player, stats>>
    BY <1>2 DEF HandleNothing, Handle, LimitInv, entities
  <2>2. ASSUME NEW d \in CLIENT PROVE Thin(d)
    <3>1. EventsThin(d) /\ LoadsThin(d) /\ AnswersThin(d) /\ StatsThin(d)
      BY <2>1, ThinBus, ThinRequests, ThinResponses, ThinStats
    <3> QED
      BY <2>1, <3>1 DEF Thin
  <2>3. PlayersThere'
    BY <2>1 DEF SaveInv, PlayersThere
  <2> QED
    BY <2>1, <2>2, <2>3, UnsavedKeeps
<1>3. CASE Panic
  BY <1>3, StopRolls DEF Panic
<1> QED
  BY <1>1, <1>2, <1>3, UpdateRolls, LeaveRolls DEF HandleEvent

(* The answers become events, once all earlier events are handled.         *)
LEMMA AnswersRoll ==
    ASSUME LimitInv, TypeOK', PlayInv, SaveInv, EndTick
    PROVE  SaveInv'
<1>1. /\ up /\ bus = <<>> /\ bus' = AnswerEvents /\ responses' = <<>>
      /\ UNCHANGED <<db, saves, raced, requests, state, player, stats>>
  BY DEF EndTick, entities
<1>2. \A i \in DOMAIN bus', d \in CLIENT : UpdateFor(bus'[i], d) =>
          /\ i \in DOMAIN responses /\ responses[i].entity = d /\ responses[i].row # NoRow
          /\ bus'[i].id = responses[i].id /\ bus'[i].progress = responses[i].row.progress
  <2>1. \A i \in DOMAIN AnswerEvents :
           /\ i \in DOMAIN responses
           /\ AnswerEvents[i].entity = responses[i].entity
           /\ IF responses[i].row = NoRow THEN AnswerEvents[i].what = "exit"
              ELSE /\ AnswerEvents[i].what = "update" /\ AnswerEvents[i].id = responses[i].id
                   /\ AnswerEvents[i].progress = responses[i].row.progress
    BY DEF AnswerEvents
  <2> QED
    BY <1>1, <2>1 DEF UpdateFor
<1>3. ASSUME NEW d \in CLIENT PROVE OnePath(d)' /\ Floor(d)'
  <2>1. OnePath(d) /\ Floor(d)
    BY <1>1 DEF SaveInv
  <2>2. ~Answering(d)' /\ (Informed(d)' => Answering(d)) /\ Playing(d)' = Playing(d)
    BY <1>1, <1>2 DEF Answering, Informed, Playing
  <2>3. OnePath(d)'
    BY <1>1, <1>2, <2>1, <2>2 DEF OnePath
  <2>4. \A id, p : Holding(d, id, p)' => Holding(d, id, p)
    BY <1>1, <1>2 DEF Holding
  <2>5. Floor(d)'
    BY <1>1, <2>1, <2>4 DEF Floor, Fresh
  <2> QED
    BY <2>3, <2>5
<1>4. PlayersThere'
  BY <1>1 DEF SaveInv, PlayersThere
<1> QED
  BY <1>1, <1>3, <1>4, UnsavedKeeps
-----------------------------------------------------------------------------
(* What the database writes: nothing, a new character, or what was saved   *)
(* first.                                                                  *)
Written(id) ==
    db'[id] # NoRow =>
        \/ db[id] # NoRow /\ db'[id].progress = db[id].progress
        \/ db[id] = NoRow /\ db'[id].progress = 0
        \/ /\ db[id] # NoRow /\ saves # <<>> /\ saves' = Tail(saves)
           /\ \E u \in Head(saves) : u.id = id /\ db'[id].progress = u.progress

LEMMA UpdatedTo ==
    ASSUME NEW row \in Row, NEW updates \in SUBSET Update, Updated(row, updates) # row
    PROVE  row # NoRow /\ \E u \in updates : Updated(row, updates).progress = u.progress
<1>1. row # NoRow
  BY DEF Row, NoRow
<1>2. updates # {} /\ Updated(row, updates) = [row EXCEPT !.progress = (CHOOSE u \in updates : TRUE).progress]
  BY <1>1 DEF Updated
<1>3. PICK u : u = CHOOSE v \in updates : TRUE
  OBVIOUS
<1>4. u \in updates
  BY <1>2, <1>3
<1>5. [row EXCEPT !.progress = u.progress].progress = u.progress
  BY DEF Row
<1> QED
  BY <1>1, <1>2, <1>3, <1>4, <1>5

LEMMA RowsWritten ==
    ASSUME LimitInv, LoaderStep \/ BatchUpdate \/ LoadFails \/ BatchFails, NEW id \in CHARACTER
    PROVE  Written(id)
<1>1. /\ db \in [CHARACTER -> Row \cup {NoRow}] /\ saves \in Seq(SUBSET Update)
  BY DEF LimitInv, TypeOK, StoreOK
<1>2. CASE UNCHANGED db
  BY <1>2 DEF Written
<1>3. CASE CreateCharacter
  <2>1. PICK new : new = NextId(db)
    OBVIOUS
  <2>2. PICK row : row = [owner |-> Head(requests).account, progress |-> 0]
    OBVIOUS
  <2>3. db' = [db EXCEPT ![new] = row] /\ new \notin Stored(db) /\ row.progress = 0
    BY <1>3, <2>1, <2>2, NextIdFresh DEF CreateCharacter
  <2> QED
    BY <1>1, <2>3 DEF Written, Stored
<1>4. CASE DeleteCharacter
  <2>1. db'[id] = db[id] \/ db'[id] = NoRow
    <3>1. PICK old : old = Head(requests).id
      OBVIOUS
    <3>2. db' = db \/ db' = [db EXCEPT ![old] = NoRow]
      BY <1>4, <3>1 DEF DeleteCharacter
    <3> QED
      BY <1>1, <3>2
  <2> QED
    BY <2>1 DEF Written
<1>5. CASE BatchUpdate
  <2>1. PICK updates : updates = {u \in Head(saves) : u.id = id}
    OBVIOUS
  <2>2. /\ saves # <<>> /\ saves' = Tail(saves)
        /\ db'[id] = Updated(db[id], updates)
    BY <1>5, <2>1 DEF BatchUpdate
  <2>3. updates \in SUBSET Update
    BY <1>1, <2>1, <2>2
  <2>4. CASE db[id] = NoRow
    BY <2>2, <2>4 DEF Written, Updated
  <2>5. CASE db[id] \in Row /\ db'[id] # db[id]
    <3>1. db[id] # NoRow /\ \E u \in updates : db'[id].progress = u.progress
      BY <2>2, <2>3, <2>5, UpdatedTo
    <3> QED
      BY <2>1, <2>2, <3>1 DEF Written
  <2>6. CASE db'[id] = db[id]
    BY <2>6 DEF Written
  <2> QED
    BY <1>1, <2>4, <2>5, <2>6
<1> QED
  BY <1>2, <1>3, <1>4, <1>5 DEF LoaderStep, LoadCharacterData, CheckCharacterLimit, LoadFails, BatchFails

(* So progress is never taken back, ...                                    *)
LEMMA NotBack ==
    ASSUME LimitInv, SaveInv, NEW id \in CHARACTER \ raced, Written(id), db[id] # NoRow, db'[id] # NoRow
    PROVE  db'[id].progress >= db[id].progress
<1>1. db[id].progress \in Nat
  BY DEF LimitInv, TypeOK, StoreOK, Row
<1>2. CASE db'[id].progress = db[id].progress
  BY <1>1, <1>2
<1>3. ASSUME saves # <<>>, NEW u \in Head(saves), u.id = id, db'[id].progress = u.progress
      PROVE  db'[id].progress >= db[id].progress
  <2>1. 1 \in DOMAIN saves /\ Head(saves) = saves[1] /\ u \in Update
    BY <1>3 DEF LimitInv, TypeOK, StoreOK
  <2>2. u.progress \in Nat
    BY <2>1 DEF Update
  <2>3. db[id].progress <= u.progress
    BY <1>3, <2>1 DEF SaveInv, SavesRise, Rising
  <2> QED
    BY <1>1, <1>3, <2>2, <2>3
<1> QED
  BY <1>2, <1>3 DEF Written

(* ... and what is saved or held is still ahead of it.                     *)
LEMMA WritingKeeps ==
    ASSUME LimitInv, SaveInv, UNCHANGED raced,
           UNCHANGED saves \/ (saves # <<>> /\ saves' = Tail(saves)),
           \A id \in CHARACTER : Written(id)
    PROVE  SavesRise' /\ (\A id \in CHARACTER, p \in Nat : Fresh(id, p) => Fresh(id, p)')
<1>1. saves \in Seq(SUBSET Update)
  BY DEF LimitInv, TypeOK, StoreOK
<1>2. PICK k \in {0, 1} : /\ \A i \in DOMAIN saves' : /\ i \in Nat /\ i + k \in DOMAIN saves
                                                      /\ saves'[i] = saves[i + k] /\ saves'[i] \subseteq Update
                          /\ saves # <<>> /\ saves' = Tail(saves) => k = 1
  <2>1. CASE saves # <<>> /\ saves' = Tail(saves)
    <3>1. \A i \in DOMAIN saves' : i \in Nat /\ i + 1 \in DOMAIN saves
                                   /\ saves'[i] = saves[i + 1] /\ saves'[i] \subseteq Update
      BY <1>1, <2>1
    <3> QED
      BY <3>1
  <2>2. CASE saves' = saves
    <3>1. \A i \in DOMAIN saves' : i \in Nat /\ i + 0 \in DOMAIN saves
                                   /\ saves'[i] = saves[i + 0] /\ saves'[i] \subseteq Update
      BY <1>1, <2>2
    <3>2. saves # <<>> => saves # Tail(saves)
      BY <1>1
    <3> QED
      BY <2>2, <3>1, <3>2
  <2> QED
    BY <2>1, <2>2
<1>3. saves # <<>> => 1 \in DOMAIN saves /\ Head(saves) = saves[1] /\ saves[1] \subseteq Update
  BY <1>1
<1>4. ASSUME NEW id \in CHARACTER \ raced PROVE Rising(id)'
  <2>1. Rising(id)
    BY DEF SaveInv, SavesRise
  <2>2. ASSUME NEW i \in DOMAIN saves', NEW j \in DOMAIN saves', i < j,
               NEW u \in saves'[i], NEW v \in saves'[j], u.id = id, v.id = id
        PROVE  u.progress <= v.progress
    <3>1. /\ i + k \in DOMAIN saves /\ j + k \in DOMAIN saves /\ i + k < j + k
          /\ u \in saves[i + k] /\ v \in saves[j + k]
      BY <1>2, <2>2
    <3> QED
      BY <2>1, <2>2, <3>1 DEF Rising
  <2>3. ASSUME NEW i \in DOMAIN saves', NEW u \in saves'[i], u.id = id, db'[id] # NoRow
        PROVE  db'[id].progress <= u.progress
    <3>1. /\ i \in Nat /\ i + k \in DOMAIN saves /\ u \in saves[i + k] /\ u.progress \in Nat
          /\ i > 0
      <4>1. u \in Update /\ i > 0
        BY <1>1, <1>2, <2>3
      <4> QED
        BY <1>2, <2>3, <4>1 DEF Update
    <3>2. CASE db[id] # NoRow /\ db'[id].progress = db[id].progress
      BY <2>1, <2>3, <3>1, <3>2 DEF Rising
    <3>3. CASE db'[id].progress = 0
      BY <3>1, <3>3
    <3>4. ASSUME saves # <<>>, saves' = Tail(saves), NEW v \in Head(saves), v.id = id, db'[id].progress = v.progress
          PROVE  db'[id].progress <= u.progress
      <4>1. k = 1 /\ 1 < i + k
        BY <1>2, <3>1, <3>4
      <4> QED
        BY <1>3, <2>1, <2>3, <3>1, <3>4, <4>1 DEF Rising
    <3> QED
      BY <2>3, <3>2, <3>3, <3>4 DEF Written
  <2> QED
    BY <2>2, <2>3 DEF Rising
<1>5. ASSUME NEW id \in CHARACTER, NEW p \in Nat, Fresh(id, p) PROVE Fresh(id, p)'
  <2>1. \A i \in DOMAIN saves' : \A u \in saves'[i] : u.id = id => u.progress <= p
    BY <1>2, <1>5 DEF Fresh
  <2>2. db'[id] # NoRow => db'[id].progress <= p
    BY <1>3, <1>5 DEF Written, Fresh
  <2> QED
    BY <2>1, <2>2 DEF Fresh
<1> QED
  BY <1>4, <1>5 DEF SavesRise

LEMMA WritesRoll ==
    ASSUME LimitInv, TypeOK', PlayInv, SaveInv, UNCHANGED session,
           CheckCharacterLimit \/ CreateCharacter \/ DeleteCharacter \/ BatchUpdate \/ BatchFails
    PROVE  SaveInv'
<1>1. /\ TypeOK
      /\ UNCHANGED <<raced, responses, up, bus, stats, state, player>>
      /\ UNCHANGED saves \/ (saves # <<>> /\ saves' = Tail(saves))
      /\ UNCHANGED requests \/ (requests # <<>> /\ requests' = Tail(requests))
  BY DEF session, entities, LimitInv, Pending, Answered,
     CheckCharacterLimit, CreateCharacter, DeleteCharacter, BatchUpdate, BatchFails
<1>2. \A id \in CHARACTER : Written(id)
  BY RowsWritten DEF LoaderStep
<1>3. SavesRise' /\ (\A id \in CHARACTER, p \in Nat : Fresh(id, p) => Fresh(id, p)')
  BY <1>1, <1>2, WritingKeeps
<1>4. PlayersThere'
  BY <1>1 DEF SaveInv, PlayersThere
<1>5. ASSUME up, NEW d \in CLIENT PROVE OnePath(d)' /\ Floor(d)'
  <2>1. EventsThin(d) /\ LoadsThin(d) /\ AnswersThin(d) /\ StatsThin(d)
    BY <1>1, ThinBus, ThinRequests, ThinResponses, ThinStats
  <2>2. Thin(d)
    BY <1>1, <2>1 DEF Thin
  <2> QED
    BY <1>1, <1>3, <1>5, <2>2, ThinKeeps
<1> QED
  BY <1>1, <1>3, <1>4, <1>5 DEF SaveInv

(* A character is read: only for a client that holds nothing; and what it  *)
(* gets is ahead of all that is saved, or the character counts as raced.   *)
LEMMA LoadsRoll ==
    ASSUME LimitInv, TypeOK', PlayInv, SaveInv, UNCHANGED session, LoadCharacterData \/ LoadFails
    PROVE  SaveInv'
<1>1. /\ TypeOK /\ requests \in Seq(Request) /\ responses \in Seq(Answer)
      /\ requests # <<>> /\ Head(requests).what = "load" /\ requests' = Tail(requests)
      /\ UNCHANGED <<db, saves, up, bus, stats, state, player>>
  BY DEF LoadCharacterData, LoadFails, Answered, session, entities, LimitInv, TypeOK, StoreOK
<1>2. PICK request : request = Head(requests)
  OBVIOUS
<1>3. PICK row : /\ responses' = Append(responses, [entity |-> request.entity, id |-> request.id, row |-> row])
                 /\ row # NoRow => request.id \in OwnedBy(db, request.account) /\ row = db[request.id]
                 /\ raced' = IF row = NoRow THEN raced
                             ELSE IF Saving(request.id) THEN raced \cup {request.id} ELSE raced \ {request.id}
  <2>1. CASE LoadCharacterData
    <3>1. PICK r : r = IF request.id \in OwnedBy(db, request.account) THEN db[request.id] ELSE NoRow
      OBVIOUS
    <3>2. /\ responses' = Append(responses, [entity |-> request.entity, id |-> request.id, row |-> r])
          /\ raced' = IF r = NoRow THEN raced
                      ELSE IF Saving(request.id) THEN raced \cup {request.id} ELSE raced \ {request.id}
      BY <1>2, <2>1, <3>1 DEF LoadCharacterData, CharactersOf
    <3>3. r # NoRow => request.id \in OwnedBy(db, request.account) /\ r = db[request.id]
      BY <3>1
    <3> QED
      BY <3>2, <3>3
  <2>2. CASE LoadFails
    BY <1>2, <2>2 DEF LoadFails
  <2> QED
    BY <2>1, <2>2
<1>4. PICK answer : answer = [entity |-> request.entity, id |-> request.id, row |-> row]
  OBVIOUS
<1>5. /\ responses' = Append(responses, answer)
      /\ answer.entity = request.entity /\ answer.id = request.id /\ answer.row = row
  BY <1>3, <1>4
<1>6. 1 \in DOMAIN requests /\ requests[1] = request /\ request.what = "load"
  BY <1>1, <1>2
<1>7. PlayersThere'
  BY <1>1 DEF SaveInv, PlayersThere
<1>8. \A id \in CHARACTER \ raced' : id \in raced => ~Saving(id)
  BY <1>3
<1>9. SavesRise'
  <2> SUFFICES ASSUME NEW id \in CHARACTER \ raced' PROVE Rising(id)
    BY <1>1 DEF SavesRise, Rising
  <2>1. CASE id \in raced
    BY <1>8, <2>1 DEF Rising, Saving
  <2>2. CASE id \notin raced
    BY <2>2 DEF SaveInv, SavesRise
  <2> QED
    BY <2>1, <2>2
<1>10. \A id, p : Fresh(id, p)' = Fresh(id, p)
  BY <1>1 DEF Fresh
<1>11. ASSUME up, NEW d \in CLIENT, LoadFor(request, player[d])
       PROVE  ~Answering(d) /\ ~Informed(d) /\ ~Playing(d)
  BY <1>6, <1>11 DEF SaveInv, OnePath
<1>12. ASSUME up, NEW d \in CLIENT, d # request.entity PROVE OnePath(d)' /\ Floor(d)'
  <2>1. EventsThin(d) /\ LoadsThin(d) /\ AnswersThin(d) /\ StatsThin(d)
    BY <1>1, <1>5, <1>12, ThinBus, ThinRequests, ThinResponses, ThinStats
  <2>2. Thin(d)
    BY <1>1, <2>1 DEF Thin
  <2>3. ASSUME NEW id \in CHARACTER \ raced', NEW p \in Nat, Holding(d, id, p), id \in raced PROVE FALSE
    <3>1. id = request.id /\ id \in OwnedBy(db, request.account)
      BY <1>3, <2>3
    <3>2. id \in OwnedBy(db, player[d]) /\ (Answering(d) \/ Informed(d) \/ Playing(d))
      BY <1>12, <2>3, HoldingKnown
    <3>3. LoadFor(request, player[d])
      BY <1>6, <3>1, <3>2 DEF LoadFor, OwnedBy
    <3> QED
      BY <1>11, <1>12, <3>2, <3>3
  <2> QED
    BY <1>10, <1>12, <2>2, <2>3, ThinKeeps
<1>13. ASSUME up, request.entity \in CLIENT PROVE OnePath(request.entity)' /\ Floor(request.entity)'
  <2>1. PICK d \in CLIENT : d = request.entity
    BY <1>13
  <2>2. LoadFor(request, player[d])
    <3>1. request \in Told(requests, "load", d)
      BY <1>6, <2>1 DEF Told
    <3> QED
      BY <1>6, <1>13, <3>1 DEF PlayInv, Play, LoadsFit, LoadFor
  <2>3. ~Answering(d) /\ ~Informed(d) /\ ~Playing(d)
    BY <1>11, <1>13, <2>2
  <2>4. \A i \in DOMAIN responses' : responses'[i].entity = d => i = Len(responses) + 1 /\ responses'[i] = answer
    BY <1>1, <1>5, <2>3 DEF Answering
  <2>5. \A i \in DOMAIN requests' : ~LoadFor(requests'[i], player[d])
    <3>1. \A i \in DOMAIN requests' : i + 1 \in DOMAIN requests /\ 1 < i + 1 /\ requests'[i] = requests[i + 1]
      BY <1>1
    <3> QED
      BY <1>6, <1>13, <2>1, <2>2, <3>1 DEF SaveInv, OnePath
  <2>6. OnePath(d)'
    <3>1. ~Informed(d)' /\ ~Playing(d)' /\ \A i \in DOMAIN bus' : ~UpdateFor(bus'[i], d)
      BY <1>1, <2>3 DEF Informed, Playing
    <3> QED
      BY <1>1, <2>4, <2>5, <3>1 DEF OnePath
  <2>7. Floor(d)'
    <3> SUFFICES ASSUME NEW id \in CHARACTER \ raced', NEW p \in Nat, Holding(d, id, p)'
                 PROVE  Fresh(id, p)
      BY <1>10 DEF Floor
    <3>1. row # NoRow /\ id = request.id /\ p = row.progress
      BY <1>1, <1>5, <2>3, <2>4 DEF Holding, Informed, Playing
    <3>2. db[id].progress = p /\ ~Saving(id)
      BY <1>3, <3>1
    <3> QED
      BY <3>2 DEF Fresh, Saving
  <2> QED
    BY <2>1, <2>6, <2>7
<1> QED
  BY <1>1, <1>7, <1>9, <1>12, <1>13 DEF SaveInv

LEMMA StoreRolls ==
    ASSUME LimitInv, TypeOK', PlayInv, SaveInv, Loader \/ Updater \/ DatabaseFails
    PROVE  SaveInv'
BY WritesRoll, LoadsRoll DEF Loader, LoaderStep, Updater, DatabaseFails

(* Progress that is stored is not taken back, unless the character was     *)
(* read while a save of it waited: whatever a client holds of another one, *)
(* on its way to it or played, is ahead of the database and of the saves   *)
(* that wait; nobody else holds any of it; and nothing is read once more   *)
(* while the client holds it.                                              *)
THEOREM SavesNeverGoBack == Spec => NoRollback
<1>1. Init => SaveInv
  <2> SUFFICES ASSUME Init PROVE SaveInv
    OBVIOUS
  <2>1. /\ saves = <<>> /\ requests = <<>> /\ responses = <<>> /\ bus = <<>>
        /\ \A d \in CLIENT : state[d] = "none" /\ stats[d] = NoStats
    BY DEF Init, NoneOf
  <2>2. PlayersThere /\ SavesRise
    BY <2>1 DEF PlayersThere, SavesRise, Rising
  <2>3. ASSUME NEW d \in CLIENT PROVE OnePath(d) /\ Floor(d)
    BY <2>1 DEF OnePath, Floor, Holding, Answering, Informed, Playing
  <2> QED
    BY <2>2, <2>3 DEF SaveInv
<1>2. LimitInv /\ TypeOK' /\ AccountsInv /\ PlayInv /\ SaveInv /\ [Next]_vars => SaveInv'
  <2> SUFFICES ASSUME LimitInv, TypeOK', AccountsInv, PlayInv, SaveInv, [Next]_vars PROVE SaveInv'
    OBVIOUS
  <2>1. ASSUME NEW c \in CLIENT, ClientStep(c) \/ Connect(c) \/ HandleMessage(c) \/ NothingHeard(c)
        PROVE  SaveInv'
    BY <2>1, ClientRolls, MessageRolls
  <2>2. ASSUME NEW save, NEW progress, RunSystems(save, progress) PROVE SaveInv'
    BY <2>2, SystemsRoll
  <2>3. CASE HandleEvent \/ EndTick
    BY <2>3, EventRolls, AnswersRoll
  <2>4. CASE Loader \/ Updater \/ DatabaseFails
    BY <2>4, StoreRolls
  <2>5. CASE Kill
    BY <2>5, StopRolls DEF Kill
  <2>6. CASE Restart
    BY <2>6, RestartRolls
  <2>7. CASE UNCHANGED vars
    <3>1. UNCHANGED <<db, saves, raced, requests, responses, up, bus, state, player, stats>>
      BY <2>7 DEF vars, store, entities
    <3>2. PlayersThere' = PlayersThere /\ SavesRise' = SavesRise
      BY <3>1 DEF PlayersThere, SavesRise, Rising
    <3>3. ASSUME NEW d \in CLIENT PROVE OnePath(d)' = OnePath(d) /\ Floor(d)' = Floor(d)
      BY <3>1 DEF OnePath, Floor, Holding, Fresh, Answering, Informed, Playing
    <3> QED
      BY <3>1, <3>2, <3>3 DEF SaveInv
  <2> QED
    BY <2>1, <2>2, <2>3, <2>4, <2>5, <2>6, <2>7 DEF Next
<1>3. LimitInv /\ SaveInv /\ [Next]_vars =>
          [\A id \in CHARACTER :
              db[id] # NoRow /\ db'[id] # NoRow /\ id \notin raced => db'[id].progress >= db[id].progress]_vars
  <2> SUFFICES ASSUME LimitInv, SaveInv, [Next]_vars, NEW id \in CHARACTER,
                      db[id] # NoRow, db'[id] # NoRow, id \notin raced
               PROVE  db'[id].progress >= db[id].progress
    OBVIOUS
  <2>1. CASE Loader \/ Updater \/ DatabaseFails
    BY <2>1, RowsWritten, NotBack DEF Loader, Updater, DatabaseFails
  <2>2. CASE UNCHANGED db
    BY <2>2, NotBack DEF Written
  <2>3. Loader \/ Updater \/ DatabaseFails \/ UNCHANGED db
    BY OthersKeepRows DEF Next, Others, vars, store
  <2> QED
    BY <2>1, <2>2, <2>3
<1> QED
  BY <1>1, <1>2, <1>3, TypeCorrect, LimitInductive, AccountsInductive, PlayInductive, PTL DEF Spec, NoRollback
=============================================================================
