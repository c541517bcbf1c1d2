--------------------------- MODULE Transport_proofs ---------------------------
(***************************************************************************)
(* Proofs about two participants and their channel, for any set of         *)
(* Streams, numbers and sizes of messages and ways to break.               *)
(***************************************************************************)
EXTENDS Transport, SequenceTheorems, TLAPS

(* Types.  A message that has frames at all begins with its length, which  *)
(* is not zero, so that what is being put together is never complete.      *)
Part == [sid : SID, mid : Nat, part : Nat]
Message == [sid : SID, mid : Nat, size : Nat, cursor : Nat]
Assembly == [sid : SID, length : Nat, data : Seq(Part)]
ProperFrame == {f \in Frame : f.type = "DataHeader" => f.length > 0}

Assembled(msgs) ==
    \A m \in DOMAIN msgs : m \in Nat /\ msgs[m] \in Assembly /\ Len(msgs[m].data) < msgs[m].length

TypeInv ==
    /\ TypeOK
    /\ scene \in Scenes
    /\ inbox \in [SIDE -> [SID -> Seq(Seq(Part))]]
    /\ prios \in [SIDE -> [PRIO -> Seq(Message)]]
    /\ close_rx \in [SIDE -> Seq(SID)]
    /\ wire \in [SIDE -> Seq(ProperFrame)]
    /\ left_over \in [SIDE -> Seq(ProperFrame)]
    /\ DOMAIN assembly = SIDE
    /\ \A x \in SIDE : Assembled(assembly[x])

LEMMA SceneSizes == ASSUME scene \in Scenes PROVE scene.sizes \subseteq Nat
  BY TransportAssumption

LEMMA FrameFields ==
    ASSUME NEW f \in Frame
    PROVE  /\ f.type \in {"OpenStream", "CloseStream", "DataHeader", "Data"}
           /\ f.type \in {"OpenStream", "CloseStream"} => f.sid \in SID
           /\ f.type = "DataHeader" => f.sid \in SID /\ f.mid \in Nat /\ f.length \in Nat
           /\ f.type = "Data" => f.mid \in Nat /\ f.data \in Part
<1>1. CASE f \in [type : {"OpenStream", "CloseStream"}, sid : SID]
  BY <1>1
<1>2. CASE f \in [type : {"DataHeader"}, mid : Nat, sid : SID, length : Nat]
  BY <1>2
<1>3. CASE f \in [type : {"Data"}, mid : Nat, data : [sid : SID, mid : Nat, part : Nat]]
  BY <1>3 DEF Part
<1> QED
  BY <1>1, <1>2, <1>3 DEF Frame

LEMMA ControlFrames ==
    ASSUME NEW s \in SID
    PROVE  OpenStream(s) \in ProperFrame /\ CloseStream(s) \in ProperFrame
<1>1. /\ OpenStream(s) \in [type : {"OpenStream", "CloseStream"}, sid : SID]
      /\ CloseStream(s) \in [type : {"OpenStream", "CloseStream"}, sid : SID]
      /\ OpenStream(s).type # "DataHeader" /\ CloseStream(s).type # "DataHeader"
  BY DEF OpenStream, CloseStream
<1> QED
  BY <1>1 DEF ProperFrame, Frame

LEMMA DataFrames ==
    ASSUME NEW m \in Message, m.size # 0
    PROVE  DataHeader(m) \in ProperFrame /\ Data(m) \in ProperFrame
<1>1. DataHeader(m) \in [type : {"DataHeader"}, mid : Nat, sid : SID, length : Nat] /\ DataHeader(m).length > 0
  BY DEF DataHeader, Message
<1>2. Data(m) \in [type : {"Data"}, mid : Nat, data : [sid : SID, mid : Nat, part : Nat]]
      /\ Data(m).type = "Data"
  BY DEF Data, Message
<1> QED
  BY <1>1, <1>2 DEF ProperFrame, Frame

LEMMA InitTyped == Init => TypeInv
<1> SUFFICES ASSUME Init PROVE TypeInv
  OBVIOUS
<1>1. TypeOK
  BY DEF Init, TypeOK
<1>2. \A x \in SIDE : Assembled(assembly[x])
  BY DEF Init, Assembled
<1> QED
  BY <1>1, <1>2 DEF Init, TypeInv

LEMMA SentTyped ==
    ASSUME TypeInv, NEW x \in SIDE, NEW fs \in Seq(ProperFrame), NEW known \in SUBSET SID,
           SendFrames(x, fs, known)
    PROVE  /\ \A v \in {streams', send_closed', recv_closed'} : v \in [SIDE -> SUBSET SID]
           /\ error' \subseteq SIDE
           /\ wire' \in [SIDE -> Seq(ProperFrame)]
<1>1. \A fs1, fs2 \in Seq(ProperFrame) : fs1 \o fs2 \in Seq(ProperFrame)
  BY ConcatProperties
<1>2. /\ wire \in [SIDE -> Seq(ProperFrame)]
      /\ \A v \in {streams, send_closed, recv_closed} : v \in [SIDE -> SUBSET SID]
      /\ error \subseteq SIDE
  BY DEF TypeInv, TypeOK
<1>3. CASE x \in channel
  <2>1. wire[x] \o fs \in Seq(ProperFrame)
    BY <1>1, <1>2
  <2>2. /\ wire' = [wire EXCEPT ![x] = wire[x] \o fs]
        /\ streams' = [streams EXCEPT ![x] = known]
        /\ UNCHANGED <<send_closed, recv_closed, error>>
    BY <1>3 DEF SendFrames
  <2> QED
    BY <1>2, <2>1, <2>2
<1>4. CASE x \notin channel
  <2>1. /\ streams' = [streams EXCEPT ![x] = known \ known]
        /\ send_closed' = [send_closed EXCEPT ![x] = send_closed[x] \cup known]
        /\ recv_closed' = [recv_closed EXCEPT ![x] = recv_closed[x] \cup known]
        /\ error' = error \cup {x} /\ wire' = wire
    BY <1>4 DEF SendFrames, CloseApi, Close
  <2> QED
    BY <1>2, <2>1
<1> QED
  BY <1>3, <1>4

LEMMA ProperIsFrame == Seq(ProperFrame) \subseteq Seq(Frame)
<1>1. ProperFrame \subseteq Frame
  BY DEF ProperFrame
<1> QED
  BY <1>1

LEMMA UserTyped ==
    ASSUME TypeInv, NEW x \in SIDE, User(x)
    PROVE  TypeInv'
<1>1. ASSUME NEW s \in SID, Open(x, s) PROVE TypeInv'
  <2>1. <<OpenStream(s)>> \in Seq(ProperFrame) /\ streams[x] \cup {s} \in SUBSET SID
    BY ControlFrames DEF TypeInv, TypeOK
  <2>2. /\ \A v \in {streams', send_closed', recv_closed'} : v \in [SIDE -> SUBSET SID]
        /\ error' \subseteq SIDE
        /\ wire' \in [SIDE -> Seq(ProperFrame)]
    <3>1. SendFrames(x, <<OpenStream(s)>>, streams[x] \cup {s})
      BY <1>1 DEF Open
    <3> QED
      BY <2>1, <3>1, SentTyped
  <2>3. user' \in [SIDE -> [SID -> {"none", "held", "dropped"}]]
    BY <1>1 DEF Open, TypeInv, TypeOK
  <2>4. UNCHANGED <<scene, outbox, inbox, ended, prios, close_vars, assembly, channel, left_over>>
    BY <1>1 DEF Open
  <2> QED
    BY <2>2, <2>3, <2>4, ProperIsFrame DEF TypeInv, TypeOK, close_vars
<1>2. ASSUME NEW s \in SID, Send(x, s) PROVE TypeInv'
  <2>1. PICK n \in scene.sizes :
           /\ prios' = [prios EXCEPT ![x][PrioOf[s]] =
                 Append(@, [sid |-> s, mid |-> Len(outbox[x][s]), size |-> n, cursor |-> 0])]
           /\ outbox' = [outbox EXCEPT ![x][s] = Append(@, n)]
    BY <1>2 DEF Send
  <2>2. outbox[x][s] \in Seq(scene.sizes) /\ n \in Nat
    BY SceneSizes DEF TypeInv, TypeOK
  <2>3. [sid |-> s, mid |-> Len(outbox[x][s]), size |-> n, cursor |-> 0] \in Message
    BY <2>2 DEF Message
  <2>4. prios' \in [SIDE -> [PRIO -> Seq(Message)]]
    <3>1. PICK p \in PRIO : p = PrioOf[s]
      BY DEF PRIO
    <3>2. PICK m \in Message : m = [sid |-> s, mid |-> Len(outbox[x][s]), size |-> n, cursor |-> 0]
      BY <2>3
    <3>3. prios \in [SIDE -> [PRIO -> Seq(Message)]] /\ Append(prios[x][p], m) \in Seq(Message)
      BY <3>2 DEF TypeInv
    <3>4. prios' = [prios EXCEPT ![x] = [prios[x] EXCEPT ![p] = Append(prios[x][p], m)]]
      BY <2>1, <3>1, <3>2
    <3> QED
      BY <3>3, <3>4
  <2>5. outbox' \in [SIDE -> [SID -> Seq(scene.sizes)]]
    <3>1. PICK sizes : sizes = scene.sizes
      OBVIOUS
    <3>2. outbox \in [SIDE -> [SID -> Seq(sizes)]] /\ outbox[x][s] \in Seq(sizes) /\ n \in sizes
      BY <3>1 DEF TypeInv, TypeOK
    <3>3. Append(outbox[x][s], n) \in Seq(sizes)
      BY <3>2
    <3>4. outbox' = [outbox EXCEPT ![x] = [outbox[x] EXCEPT ![s] = Append(outbox[x][s], n)]]
      BY <2>1
    <3> QED
      BY <3>1, <3>2, <3>3, <3>4
  <2>6. UNCHANGED <<scene, stream_vars, user, inbox, ended, close_vars, assembly, channel,
                    wire, left_over, error>>
    BY <1>2 DEF Send
  <2> QED
    BY <2>4, <2>5, <2>6 DEF TypeInv, TypeOK, stream_vars, close_vars
<1>3. ASSUME NEW s \in SID, DropStream(x, s) PROVE TypeInv'
  BY <1>3 DEF DropStream, TypeInv, TypeOK, stream_vars
<1> QED
  BY <1>1, <1>2, <1>3 DEF User

LEMMA HeadChanged ==
    ASSUME NEW S, NEW q \in Seq(S), q # <<>>, NEW e \in S
    PROVE  [q EXCEPT ![1] = e] \in Seq(S)
<1>1. Len(q) \in Nat /\ DOMAIN q = 1 .. Len(q) /\ \A i \in 1 .. Len(q) : q[i] \in S
  OBVIOUS
<1>2. [q EXCEPT ![1] = e] \in [1 .. Len(q) -> S]
  BY <1>1
<1> QED
  BY <1>1, <1>2, IsASeq

LEMMA ManagersTyped ==
    ASSUME TypeInv, NEW x \in SIDE, SendMgr(x) \/ StreamCloseMgr(x)
    PROVE  TypeInv'
<1>1. ASSUME NEW p \in PRIO, SendNextFrame(x, p) PROVE TypeInv'
  <2>1. PICK q \in Seq(Message) : q = prios[x][p] /\ q # <<>>
    BY <1>1 DEF SendNextFrame, TypeInv
  <2>2. PICK m \in Message : m = Head(q) /\ m = q[1]
    BY <2>1
  <2>3. PICK fs : fs = IF m.size = 0 THEN <<>>
                       ELSE IF m.cursor = 0 THEN <<DataHeader(m), Data(m)>> ELSE <<Data(m)>>
    OBVIOUS
  <2>4. fs \in Seq(ProperFrame)
    BY <2>3, DataFrames
  <2>5. /\ prios' = [prios EXCEPT ![x] = [prios[x] EXCEPT ![p] =
                         IF Finished(m) THEN Tail(q)
                         ELSE [q EXCEPT ![1] = [q[1] EXCEPT !.cursor = m.cursor + 1]]]]
        /\ \/ UNCHANGED <<stream_vars, wire, error>>
           \/ SendFrames(x, fs, streams[x])
    BY <1>1, <2>1, <2>2, <2>3 DEF SendNextFrame
  <2>6. prios' \in [SIDE -> [PRIO -> Seq(Message)]]
    <3>1. [q[1] EXCEPT !.cursor = m.cursor + 1] \in Message
      BY <2>2 DEF Message
    <3>2. PICK e \in Message : e = [q[1] EXCEPT !.cursor = m.cursor + 1]
      BY <3>1
    <3>3. Tail(q) \in Seq(Message) /\ [q EXCEPT ![1] = e] \in Seq(Message)
      BY <2>1, HeadChanged
    <3>4. PICK r \in Seq(Message) : prios' = [prios EXCEPT ![x] = [prios[x] EXCEPT ![p] = r]]
      BY <2>5, <3>2, <3>3
    <3> QED
      BY <3>4 DEF TypeInv
  <2>7. /\ \A v \in {streams', send_closed', recv_closed'} : v \in [SIDE -> SUBSET SID]
        /\ error' \subseteq SIDE
        /\ wire' \in [SIDE -> Seq(ProperFrame)]
    <3>1. streams[x] \in SUBSET SID
      BY DEF TypeInv, TypeOK
    <3>2. CASE SendFrames(x, fs, streams[x])
      BY <2>4, <3>1, <3>2, SentTyped
    <3>3. CASE UNCHANGED <<stream_vars, wire, error>>
      BY <3>3 DEF TypeInv, TypeOK, stream_vars
    <3> QED
      BY <2>5, <3>2, <3>3
  <2>8. UNCHANGED <<scene, user, outbox, inbox, ended, close_vars, assembly, channel, left_over>>
    BY <1>1 DEF SendNextFrame
  <2> QED
    BY <2>6, <2>7, <2>8, ProperIsFrame DEF TypeInv, TypeOK, close_vars
<1>2. CASE BeginClose(x)
  <2>1. close_rx[x] \in Seq(SID) /\ close_rx[x] # <<>>
    BY <1>2 DEF BeginClose, TypeInv
  <2>2. PICK s \in SID : s = Head(close_rx[x])
    BY <2>1
  <2>3. Tail(close_rx[x]) \in Seq(SID)
    BY <2>1
  <2>4. /\ closing' = [closing EXCEPT ![x] = s]
        /\ send_closed' = [send_closed EXCEPT ![x] = @ \cup ({s} \cap streams[x])]
        /\ recv_closed' = [recv_closed EXCEPT ![x] = @ \cup ({s} \cap streams[x])]
        /\ close_rx' = [close_rx EXCEPT ![x] = Tail(@)]
        /\ UNCHANGED <<scene, streams, user, outbox, inbox, ended, prios, assembly, channel,
                       wire, left_over, error>>
    BY <1>2, <2>2 DEF BeginClose
  <2> QED
    BY <2>3, <2>4 DEF TypeInv, TypeOK
<1>3. CASE FinishClose(x)
  <2>1. PICK s \in SID : s = closing[x]
    BY <1>3 DEF FinishClose, TypeInv, TypeOK
  <2>2. <<CloseStream(s)>> \in Seq(ProperFrame) /\ streams[x] \ {s} \in SUBSET SID
    BY ControlFrames DEF TypeInv, TypeOK
  <2>3. /\ \A v \in {streams', send_closed', recv_closed'} : v \in [SIDE -> SUBSET SID]
        /\ error' \subseteq SIDE
        /\ wire' \in [SIDE -> Seq(ProperFrame)]
    <3>1. SendFrames(x, <<CloseStream(s)>>, streams[x] \ {s})
      BY <1>3, <2>1 DEF FinishClose
    <3> QED
      BY <2>2, <3>1, SentTyped
  <2>4. /\ closing' = [closing EXCEPT ![x] = NoSid]
        /\ UNCHANGED <<scene, user, outbox, inbox, ended, prios, close_rx, assembly, channel, left_over>>
    BY <1>3 DEF FinishClose
  <2> QED
    BY <2>3, <2>4, ProperIsFrame DEF TypeInv, TypeOK
<1> QED
  BY <1>1, <1>2, <1>3 DEF SendMgr, StreamCloseMgr

LEMMA TwoLevels ==
    ASSUME NEW S, NEW T, NEW U, NEW g \in [S -> [T -> U]], NEW x \in S, NEW s \in T, NEW u \in U
    PROVE  [g EXCEPT ![x] = [g[x] EXCEPT ![s] = u]] \in [S -> [T -> U]]
  OBVIOUS

LEMMA HandleTyped ==
    ASSUME TypeInv, NEW x \in SIDE, NEW f \in ProperFrame, Handle(x, f)
    PROVE  /\ \A v \in {streams', send_closed', recv_closed', ended'} : v \in [SIDE -> SUBSET SID]
           /\ user' \in [SIDE -> [SID -> {"none", "held", "dropped"}]]
           /\ inbox' \in [SIDE -> [SID -> Seq(Seq(Part))]]
           /\ close_rx' \in [SIDE -> Seq(SID)]
           /\ DOMAIN assembly' = SIDE /\ \A y \in SIDE : Assembled(assembly'[y])
<1>0. /\ \A v \in {streams, send_closed, recv_closed, ended} : v \in [SIDE -> SUBSET SID]
      /\ user \in [SIDE -> [SID -> {"none", "held", "dropped"}]]
      /\ inbox \in [SIDE -> [SID -> Seq(Seq(Part))]]
      /\ close_rx \in [SIDE -> Seq(SID)]
      /\ DOMAIN assembly = SIDE /\ \A y \in SIDE : Assembled(assembly[y])
  BY DEF TypeInv, TypeOK
<1>1. f \in Frame /\ (f.type = "DataHeader" => f.length > 0)
  BY DEF ProperFrame
<1>2. CASE f.type = "OpenStream" /\ HandleOpenStream(x, f.sid)
  <2>1. PICK s \in SID : s = f.sid
    BY <1>1, <1>2, FrameFields
  <2>2. /\ streams' = [streams EXCEPT ![x] = @ \cup {s}]
        /\ \E how \in {"held", "dropped"} : user' = [user EXCEPT ![x] = [user[x] EXCEPT ![s] = how]]
        /\ UNCHANGED close_rx \/ close_rx' = [close_rx EXCEPT ![x] = Append(close_rx[x], s)]
        /\ UNCHANGED <<send_closed, recv_closed, inbox, ended, assembly>>
    BY <1>2, <2>1 DEF HandleOpenStream
  <2>3. user' \in [SIDE -> [SID -> {"none", "held", "dropped"}]]
    BY <1>0, <2>2, TwoLevels
  <2>4. close_rx' \in [SIDE -> Seq(SID)]
    <3>1. Append(close_rx[x], s) \in Seq(SID)
      BY <1>0
    <3> QED
      BY <1>0, <2>2, <3>1
  <2>5. streams' \in [SIDE -> SUBSET SID]
    <3>1. streams \in [SIDE -> SUBSET SID]
      BY <1>0
    <3> QED
      BY <2>2, <3>1
  <2> QED
    BY <1>0, <2>2, <2>3, <2>4, <2>5
<1>3. CASE f.type = "CloseStream" /\ HandleCloseStream(x, f.sid)
  <2>1. PICK s \in SID : s = f.sid
    BY <1>1, <1>3, FrameFields
  <2> QED
    BY <1>0, <1>3, <2>1 DEF HandleCloseStream, Close
<1>4. CASE f.type = "DataHeader" /\ HandleDataHeader(x, f)
  <2>1. f.sid \in SID /\ f.mid \in Nat /\ f.length \in Nat /\ f.length > 0
    BY <1>1, <1>4, FrameFields
  <2>2. [sid |-> f.sid, length |-> f.length, data |-> <<>>] \in Assembly
    BY <2>1 DEF Assembly
  <2>3. PICK new : /\ new \in Assembly /\ Len(new.data) < new.length
                   /\ new = [sid |-> f.sid, length |-> f.length, data |-> <<>>]
    BY <2>1, <2>2
  <2>4. assembly' = [assembly EXCEPT ![x] =
             [m \in DOMAIN assembly[x] \cup {f.mid} |-> IF m = f.mid THEN new ELSE assembly[x][m]]]
    BY <1>4, <2>3 DEF HandleDataHeader
  <2>5. Assembled([m \in DOMAIN assembly[x] \cup {f.mid} |-> IF m = f.mid THEN new ELSE assembly[x][m]])
    BY <1>0, <2>1, <2>3 DEF Assembled
  <2> QED
    BY <1>0, <1>4, <2>4, <2>5 DEF HandleDataHeader, stream_vars
<1>5. CASE f.type = "Data" /\ HandleData(x, f)
  <2>1. f.mid \in Nat /\ f.data \in Part
    BY <1>1, <1>5, FrameFields
  <2>2. CASE f.mid \notin DOMAIN assembly[x]
    BY <1>0, <1>5, <2>2 DEF HandleData, stream_vars
  <2>3. CASE f.mid \in DOMAIN assembly[x]
    <3>1. PICK msg : /\ msg = assembly[x][f.mid] /\ msg \in Assembly /\ Len(msg.data) < msg.length
      BY <1>0, <2>3 DEF Assembled
    <3>2. PICK data : data = Append(msg.data, f.data)
      OBVIOUS
    <3>3. data \in Seq(Part) /\ Len(data) = Len(msg.data) + 1 /\ Len(msg.data) \in Nat /\ msg.length \in Nat
          /\ msg.sid \in SID
      BY <2>1, <3>1, <3>2 DEF Assembly
    <3>4. CASE Complete(msg, data)
      <4>1. assembly' = [assembly EXCEPT ![x] = Restrict(assembly[x], DOMAIN assembly[x] \ {f.mid})]
            /\ Deliver(x, msg.sid, data)
        BY <1>5, <2>3, <3>1, <3>2, <3>4 DEF HandleData
      <4>2. Assembled(Restrict(assembly[x], DOMAIN assembly[x] \ {f.mid}))
        BY <1>0 DEF Assembled, Restrict
      <4>3. inbox' \in [SIDE -> [SID -> Seq(Seq(Part))]]
        <5>1. PICK r : r = Append(inbox[x][msg.sid], data)
          OBVIOUS
        <5>2. PICK s \in SID : s = msg.sid
          BY <3>3
        <5>3. inbox[x][s] \in Seq(Seq(Part))
          BY <1>0
        <5>4. r \in Seq(Seq(Part))
          BY <3>3, <5>1, <5>2, <5>3
        <5>5. inbox' = inbox \/ inbox' = [inbox EXCEPT ![x] = [inbox[x] EXCEPT ![s] = r]]
          BY <4>1, <5>1, <5>2 DEF Deliver
        <5> QED
          <6>1. [inbox EXCEPT ![x] = [inbox[x] EXCEPT ![s] = r]] \in [SIDE -> [SID -> Seq(Seq(Part))]]
            BY <1>0, <5>4, TwoLevels
          <6> QED
            BY <1>0, <5>5, <6>1
      <4> QED
        BY <1>0, <1>5, <4>1, <4>2, <4>3 DEF HandleData, stream_vars
    <3>5. CASE ~Complete(msg, data)
      <4>1. assembly' = [assembly EXCEPT ![x] = [assembly[x] EXCEPT ![f.mid] = [assembly[x][f.mid] EXCEPT !.data = data]]]
            /\ UNCHANGED inbox
        BY <1>5, <2>3, <3>1, <3>2, <3>5 DEF HandleData
      <4>2. PICK new : new = [msg EXCEPT !.data = data]
        OBVIOUS
      <4>3. new \in Assembly /\ Len(new.data) < new.length
        <5>1. new.sid = msg.sid /\ new.length = msg.length /\ new.data = data /\ new \in Assembly
          BY <3>1, <3>3, <4>2 DEF Assembly
        <5>2. Len(data) < msg.length
          BY <3>1, <3>3, <3>5 DEF Complete
        <5> QED
          BY <5>1, <5>2
      <4>4. Assembled([assembly[x] EXCEPT ![f.mid] = new])
        BY <1>0, <2>3, <4>3 DEF Assembled
      <4>5. assembly' = [assembly EXCEPT ![x] = [assembly[x] EXCEPT ![f.mid] = new]]
        BY <3>1, <4>1, <4>2
      <4> QED
        BY <1>0, <1>5, <4>1, <4>4, <4>5 DEF HandleData, stream_vars
    <3> QED
      BY <3>4, <3>5
  <2> QED
    BY <2>2, <2>3
<1> QED
  BY <1>2, <1>3, <1>4, <1>5 DEF Handle

LEMMA FrameTyped ==
    ASSUME TypeInv, NEW x \in SIDE, HandleFrame(x)
    PROVE  TypeInv'
<1>1. PICK f \in ProperFrame : Handle(x, f)
  <2>1. \A q \in Seq(ProperFrame) : q # <<>> => Head(q) \in ProperFrame
    OBVIOUS
  <2>2. wire[Peer(x)] \in Seq(ProperFrame) /\ left_over[x] \in Seq(ProperFrame)
    BY DEF TypeInv, Peer, SIDE
  <2> QED
    BY <2>1, <2>2 DEF HandleFrame
<1>2. wire' \in [SIDE -> Seq(ProperFrame)] /\ left_over' \in [SIDE -> Seq(ProperFrame)]
  <2>1. \A q \in Seq(ProperFrame) : q # <<>> => Tail(q) \in Seq(ProperFrame)
    OBVIOUS
  <2>2. Peer(x) \in SIDE
    BY DEF Peer, SIDE
  <2>3. \/ /\ wire[Peer(x)] # <<>> /\ UNCHANGED left_over
           /\ wire' = [wire EXCEPT ![Peer(x)] = Tail(wire[Peer(x)])]
        \/ /\ left_over[x] # <<>> /\ UNCHANGED wire
           /\ left_over' = [left_over EXCEPT ![x] = Tail(left_over[x])]
    BY DEF HandleFrame
  <2>4. wire \in [SIDE -> Seq(ProperFrame)] /\ left_over \in [SIDE -> Seq(ProperFrame)]
    BY DEF TypeInv
  <2> QED
    BY <2>1, <2>2, <2>3, <2>4
<1>3. UNCHANGED <<scene, outbox, prios, closing, channel, error>>
  BY DEF HandleFrame
<1> QED
  <2>1. TypeOK'
    BY <1>1, <1>2, <1>3, HandleTyped, ProperIsFrame DEF TypeInv, TypeOK, Assembled
  <2> QED
    BY <1>1, <1>2, <1>3, <2>1, HandleTyped DEF TypeInv

LEMMA EndTyped ==
    ASSUME TypeInv, NEW x \in SIDE, ChannelEnds(x)
    PROVE  TypeInv'
<1>1. PICK i \in 0 .. Len(wire[x]), j \in 0 .. Len(wire[Peer(x)]) :
          /\ wire' = [wire EXCEPT ![x] = SubSeq(@, 1, i), ![Peer(x)] = <<>>]
          /\ left_over' = [left_over EXCEPT ![x] = SubSeq(wire[Peer(x)], 1, j)]
  BY DEF ChannelEnds
<1>2. Peer(x) \in SIDE /\ Peer(x) # x
  BY DEF Peer, SIDE
<1>3. \A q \in Seq(ProperFrame) : \A n \in 0 .. Len(q) : SubSeq(q, 1, n) \in Seq(ProperFrame)
  BY SubSeqProperties
<1>4. wire' \in [SIDE -> Seq(ProperFrame)] /\ left_over' \in [SIDE -> Seq(ProperFrame)]
  <2>1. wire \in [SIDE -> Seq(ProperFrame)] /\ left_over \in [SIDE -> Seq(ProperFrame)]
    BY DEF TypeInv
  <2>2. /\ wire' = [[wire EXCEPT ![x] = SubSeq(wire[x], 1, i)] EXCEPT ![Peer(x)] = <<>>]
        /\ left_over' = [left_over EXCEPT ![x] = SubSeq(wire[Peer(x)], 1, j)]
    BY <1>1
  <2>3. PICK a \in Seq(ProperFrame), b \in Seq(ProperFrame) :
           a = SubSeq(wire[x], 1, i) /\ b = SubSeq(wire[Peer(x)], 1, j)
    BY <1>2, <1>3, <2>1
  <2>4. <<>> \in Seq(ProperFrame)
    OBVIOUS
  <2> QED
    BY <1>2, <2>1, <2>2, <2>3, <2>4
<1>5. /\ channel' \subseteq SIDE
      /\ \A v \in {streams', send_closed', recv_closed'} : v \in [SIDE -> SUBSET SID]
      /\ UNCHANGED <<scene, user, outbox, inbox, ended, prios, close_vars, assembly, error>>
  BY DEF ChannelEnds, CloseApi, Close, TypeInv, TypeOK
<1> QED
  BY <1>4, <1>5, ProperIsFrame DEF TypeInv, TypeOK, close_vars

LEMMA TypeInductive == Spec => []TypeInv
<1>1. TypeInv /\ [Next]_vars => TypeInv'
  <2> SUFFICES ASSUME TypeInv, [Next]_vars PROVE TypeInv'
    OBVIOUS
  <2>1. CASE UNCHANGED vars
    BY <2>1 DEF vars, stream_vars, close_vars, TypeInv, TypeOK
  <2> QED
    BY <2>1, UserTyped, ManagersTyped, FrameTyped, EndTyped DEF Next
<1> QED
  BY <1>1, InitTyped, PTL DEF Spec

(* Types; what is being put together is never complete.                    *)
THEOREM TypeCorrect == Spec => []TypeOK
<1>1. TypeInv => TypeOK
  BY DEF TypeInv
<1> QED
  BY <1>1, TypeInductive, PTL
-----------------------------------------------------------------------------
(* KeepsPromise, where all Streams have one priority and no message is     *)
(* empty.  A side has got so far with what its peer sends: the Stream of   *)
(* the message being put together and how many of its frames are there,    *)
(* the messages complete of each Stream, and the Streams the peer opened.  *)
OnePrio == \A s, t \in SID : PrioOf[s] = PrioOf[t]
NoEmptyMessage == \A sc \in Scenes : 0 \notin sc.sizes

Progress == [sid : SID \cup {NoSid}, parts : Nat, done : [SID -> Nat], opened : SUBSET SID]

(* The frame that x, having sent the messages of out to users us there,    *)
(* may send to one who got as far as r, ...                                *)
Fits(x, out, us, r, f) ==
    \/ /\ f.type = "OpenStream" /\ Opener[f.sid] = x
       /\ f.sid \notin r.opened /\ us[f.sid] # "none"
    \/ /\ f.type = "CloseStream" /\ us[f.sid] = "dropped"
       /\ r.done[f.sid] = Len(out[f.sid])
    \/ /\ f.type = "DataHeader" /\ r.sid = NoSid
       /\ f.mid = r.done[f.sid] /\ f.mid < Len(out[f.sid]) /\ f.length = out[f.sid][f.mid + 1]
       /\ Opener[f.sid] = x => f.sid \in r.opened
    \/ /\ f.type = "Data" /\ r.sid = f.data.sid
       /\ f.mid = r.done[r.sid]
       /\ f.data = [sid |-> r.sid, mid |-> f.mid, part |-> r.parts + 1]

(* ... and how far that one gets with it.                                  *)
After(out, r, f) ==
    CASE f.type = "OpenStream"  -> [r EXCEPT !.opened = @ \cup {f.sid}]
      [] f.type = "CloseStream" -> r
      [] f.type = "DataHeader"  -> [r EXCEPT !.sid = f.sid, !.parts = 0]
      [] f.type = "Data"        ->
            IF r.parts + 1 = out[r.sid][f.mid + 1]
            THEN [r EXCEPT !.sid = NoSid, !.parts = 0, !.done[r.sid] = @ + 1]
            ELSE [r EXCEPT !.parts = @ + 1]

Good(x, out, us, r) ==
    /\ r \in Progress
    /\ \A s \in SID :
        /\ r.done[s] <= Len(out[s])
        /\ Opener[s] = x /\ s \notin r.opened => r.done[s] = 0 /\ r.sid # s
        /\ s \in r.opened => Opener[s] = x /\ us[s] # "none"
    /\ r.sid # NoSid => /\ r.done[r.sid] < Len(out[r.sid])
                        /\ r.parts < out[r.sid][r.done[r.sid] + 1]

(* The frames of w bring a side from st[0] to st[Len(w)], from r0 to r.    *)
Carries(x, out, us, w, st) ==
    /\ \A i \in 0 .. Len(w) : Good(x, out, us, st[i])
    /\ \A i \in DOMAIN w : Fits(x, out, us, st[i - 1], w[i]) /\ st[i] = After(out, st[i - 1], w[i])

Brings(x, out, us, w, r0, r) ==
    \E st \in [Nat -> Progress] : Carries(x, out, us, w, st) /\ st[0] = r0 /\ st[Len(w)] = r

(* Side y has in fact got as far as r.                                     *)
Listening(y, s) == user[y][s] = "held" /\ s \notin recv_closed[y]

Reached(y, r) ==
    /\ DOMAIN assembly[y] = IF r.sid = NoSid THEN {} ELSE {r.done[r.sid]}
    /\ \A m \in DOMAIN assembly[y] :
          assembly[y][m] = [sid |-> r.sid, length |-> outbox[Peer(y)][r.sid][m + 1],
                            data |-> Whole(r.sid, m, r.parts)]
    /\ \A s \in SID :
        /\ Listening(y, s) => Len(inbox[y][s]) = r.done[s]
        /\ Opener[s] # y => (s \in r.opened <=> user[y][s] # "none")

(* Everything after r waits in the queue q, the messages of a Stream in    *)
(* order.                                                                  *)
Queued(out, q, r) ==
    /\ \A i \in DOMAIN q :
        /\ q[i].mid < Len(out[q[i].sid]) /\ q[i].size = out[q[i].sid][q[i].mid + 1]
        /\ q[i].cursor < q[i].size /\ (i > 1 => q[i].cursor = 0)
    /\ \A i, j \in DOMAIN q : i < j /\ q[i].sid = q[j].sid => q[i].mid < q[j].mid
    /\ \A s \in SID, m \in Nat :
         r.done[s] <= m /\ m < Len(out[s]) <=> \E i \in DOMAIN q : q[i].sid = s /\ q[i].mid = m
    /\ IF q # <<>> /\ q[1].cursor > 0 THEN r.sid = q[1].sid /\ r.parts = q[1].cursor ELSE r.sid = NoSid

Sending(x, r) ==
    /\ \A s \in SID : Opener[s] = x => (s \in r.opened <=> user[x][s] # "none")
    /\ \A p \in PRIO : Queued(outbox[x], prios[x][p], r)

(* What is on its way to y continues what it has; while there are channels *)
(* on both sides, it goes on with what its peer has yet to send.           *)
In(y) == IF y \in channel THEN wire[Peer(y)] ELSE left_over[y]

Pipe(y, r0, r) ==
    /\ Brings(Peer(y), outbox[Peer(y)], user[Peer(y)], In(y), r0, r)
    /\ Reached(y, r0)
    /\ channel = SIDE => Sending(Peer(y), r)

Flow(y) == \E r0, r \in Progress : Pipe(y, r0, r)

(* The Streams of a side and its user.                                     *)
Users(x) ==
    /\ \A i \in DOMAIN close_rx[x] : user[x][close_rx[x][i]] = "dropped"
    /\ closing[x] # NoSid => user[x][closing[x]] = "dropped"
    /\ \A s \in SID :
        /\ user[x][s] = "none" => /\ outbox[x][s] = <<>> /\ inbox[x][s] = <<>>
                                  /\ s \notin streams[x]
                                  /\ x \in channel => s \notin recv_closed[x]
                                  /\ Opener[s] = x => user[Peer(x)][s] = "none"
        /\ user[x][s] = "held" => (s \in streams[x] <=> s \notin recv_closed[x])
        /\ s \in ended[x] => s \in recv_closed[x] /\ user[Peer(x)][s] = "dropped"

FlowInv == ExactlyOnceInOrder /\ \A x \in SIDE : Users(x) /\ Flow(x)

(* A side sends more, and users get and drop Streams: what is on its way   *)
(* stays right.                                                            *)
Grows(out, us, out2, us2) ==
    \A s \in SID :
        /\ out2[s] = out[s] \/ (us[s] = "held" /\ \E n \in Nat : out2[s] = Append(out[s], n))
        /\ us[s] # "none" => us2[s] # "none"
        /\ us[s] = "dropped" => us2[s] = "dropped"

LEMMA Longer ==
    ASSUME NEW out \in [SID -> Seq(Nat)], NEW us, NEW out2, NEW us2, Grows(out, us, out2, us2), NEW s \in SID
    PROVE  /\ Len(out[s]) \in Nat /\ Len(out2[s]) \in Nat /\ Len(out[s]) <= Len(out2[s])
           /\ \A m \in Nat : m < Len(out[s]) => out2[s][m + 1] = out[s][m + 1] /\ out[s][m + 1] \in Nat
<1>1. out[s] \in Seq(Nat) /\ Len(out[s]) \in Nat
  OBVIOUS
<1>2. \A m \in Nat : m < Len(out[s]) => m + 1 \in 1 .. Len(out[s]) /\ out[s][m + 1] \in Nat
  BY <1>1
<1>3. CASE out2[s] = out[s]
  BY <1>1, <1>2, <1>3
<1>4. ASSUME NEW n \in Nat, out2[s] = Append(out[s], n)
      PROVE  /\ Len(out2[s]) \in Nat /\ Len(out[s]) <= Len(out2[s])
             /\ \A m \in Nat : m < Len(out[s]) => out2[s][m + 1] = out[s][m + 1]
  <2>1. Len(out2[s]) = Len(out[s]) + 1 /\ \A i \in 1 .. Len(out[s]) : out2[s][i] = out[s][i]
    BY <1>1, <1>4, AppendProperties
  <2>2. \A m \in Nat : m < Len(out[s]) => out2[s][m + 1] = out[s][m + 1]
    BY <1>2, <2>1
  <2> QED
    BY <1>1, <2>1, <2>2
<1>5. out2[s] = out[s] \/ \E n \in Nat : out2[s] = Append(out[s], n)
  BY DEF Grows
<1> QED
  BY <1>1, <1>2, <1>3, <1>4, <1>5

LEMMA SizeGrows ==
    ASSUME NEW x, NEW out \in [SID -> Seq(Nat)], NEW us, NEW out2, NEW us2, Grows(out, us, out2, us2),
           NEW r, Good(x, out, us, r), r.sid # NoSid
    PROVE  /\ r.sid \in SID /\ r.done[r.sid] < Len(out2[r.sid])
           /\ out2[r.sid][r.done[r.sid] + 1] = out[r.sid][r.done[r.sid] + 1]
<1>1. PICK s \in SID, m \in Nat : s = r.sid /\ m = r.done[r.sid] /\ m < Len(out[s])
  BY DEF Good, Progress
<1>2. /\ Len(out[s]) \in Nat /\ Len(out2[s]) \in Nat /\ Len(out[s]) <= Len(out2[s])
      /\ \A k \in Nat : k < Len(out[s]) => out2[s][k + 1] = out[s][k + 1] /\ out[s][k + 1] \in Nat
  BY Longer
<1>3. out2[s][m + 1] = out[s][m + 1]
  BY <1>1, <1>2
<1>4. m < Len(out2[s])
  BY <1>1, <1>2
<1> QED
  BY <1>1, <1>3, <1>4

LEMMA GoodGrows ==
    ASSUME NEW x, NEW out \in [SID -> Seq(Nat)], NEW us, NEW out2, NEW us2, Grows(out, us, out2, us2),
           NEW r, Good(x, out, us, r)
    PROVE  Good(x, out2, us2, r)
<1>1. r \in Progress /\ \A s \in SID : r.done[s] \in Nat
  BY DEF Good, Progress
<1>2. \A s \in SID : r.done[s] <= Len(out2[s])
  BY <1>1, Longer DEF Good
<1>3. r.sid # NoSid => /\ r.done[r.sid] < Len(out2[r.sid])
                       /\ r.parts < out2[r.sid][r.done[r.sid] + 1]
  <2> SUFFICES ASSUME r.sid # NoSid
               PROVE  r.done[r.sid] < Len(out2[r.sid]) /\ r.parts < out2[r.sid][r.done[r.sid] + 1]
    OBVIOUS
  <2>1. /\ r.done[r.sid] < Len(out2[r.sid])
        /\ out2[r.sid][r.done[r.sid] + 1] = out[r.sid][r.done[r.sid] + 1]
    BY SizeGrows
  <2>2. r.parts < out[r.sid][r.done[r.sid] + 1]
    BY DEF Good
  <2> QED
    BY <2>1, <2>2
<1>4. \A s \in SID : s \in r.opened => us2[s] # "none"
  BY DEF Good, Grows
<1> QED
  BY <1>1, <1>2, <1>3, <1>4 DEF Good

LEMMA FitsGrows ==
    ASSUME NEW x, NEW out \in [SID -> Seq(Nat)], NEW us, NEW out2, NEW us2, Grows(out, us, out2, us2),
           NEW r, Good(x, out, us, r), NEW f \in Frame, Fits(x, out, us, r, f)
    PROVE  Fits(x, out2, us2, r, f) /\ After(out2, r, f) = After(out, r, f)
<1>1. CASE f.type = "OpenStream"
  <2>1. f.sid \in SID
    BY <1>1, FrameFields
  <2> QED
    BY <1>1, <2>1 DEF Fits, After, Grows
<1>2. CASE f.type = "CloseStream"
  <2>1. f.sid \in SID
    BY <1>2, FrameFields
  <2>2. us[f.sid] = "dropped"
    BY <1>2 DEF Fits
  <2>3. out2[f.sid] = out[f.sid] /\ us2[f.sid] = "dropped"
    BY <2>1, <2>2 DEF Grows
  <2> QED
    BY <1>2, <2>3 DEF Fits, After
<1>3. CASE f.type = "DataHeader"
  <2>1. f.sid \in SID /\ f.mid \in Nat
    BY <1>3, FrameFields
  <2>2. f.mid < Len(out[f.sid])
    BY <1>3 DEF Fits
  <2>3. f.mid < Len(out2[f.sid]) /\ out2[f.sid][f.mid + 1] = out[f.sid][f.mid + 1]
    BY <2>1, <2>2, Longer
  <2> QED
    BY <1>3, <2>3 DEF Fits, After
<1>4. CASE f.type = "Data"
  <2>1. f.data.sid \in SID
    BY <1>4, FrameFields DEF Part
  <2>2. r.sid = f.data.sid /\ r.sid # NoSid /\ f.mid = r.done[r.sid]
    BY <1>4, <2>1, TransportAssumption DEF Fits
  <2> QED
    BY <1>4, <2>2, SizeGrows DEF Fits, After
<1> QED
  BY <1>1, <1>2, <1>3, <1>4, FrameFields


LEMMA CarriesGrows ==
    ASSUME NEW x, NEW out \in [SID -> Seq(Nat)], NEW us, NEW out2, NEW us2, Grows(out, us, out2, us2),
           NEW w \in Seq(ProperFrame), NEW st, Carries(x, out, us, w, st)
    PROVE  Carries(x, out2, us2, w, st)
<1>1. \A i \in DOMAIN w : w[i] \in Frame /\ i - 1 \in 0 .. Len(w)
  BY DEF ProperFrame
<1>2. \A i \in 0 .. Len(w) : Good(x, out, us, st[i])
  BY DEF Carries
<1>3. \A i \in 0 .. Len(w) : Good(x, out2, us2, st[i])
  BY <1>2, GoodGrows
<1>4. ASSUME NEW r, Good(x, out, us, r), NEW f \in Frame, Fits(x, out, us, r, f)
      PROVE  Fits(x, out2, us2, r, f) /\ After(out2, r, f) = After(out, r, f)
  BY <1>4, FitsGrows
<1>5. ASSUME NEW i \in DOMAIN w
      PROVE  Fits(x, out2, us2, st[i - 1], w[i]) /\ st[i] = After(out2, st[i - 1], w[i])
  <2>1. /\ Good(x, out, us, st[i - 1]) /\ w[i] \in Frame
        /\ Fits(x, out, us, st[i - 1], w[i]) /\ st[i] = After(out, st[i - 1], w[i])
    BY <1>1, <1>2 DEF Carries
  <2> QED
    BY <1>4, <2>1
<1> QED
  BY <1>3, <1>5 DEF Carries

LEMMA CarriesPrefix ==
    ASSUME NEW x, NEW out, NEW us, NEW w \in Seq(ProperFrame), NEW st, Carries(x, out, us, w, st),
           NEW n \in 0 .. Len(w)
    PROVE  Carries(x, out, us, SubSeq(w, 1, n), st) /\ Len(SubSeq(w, 1, n)) = n
<1>1. /\ Len(w) \in Nat /\ Len(SubSeq(w, 1, n)) = n /\ 0 .. n \subseteq 0 .. Len(w)
      /\ DOMAIN SubSeq(w, 1, n) = 1 .. n
      /\ \A i \in 1 .. n : i \in DOMAIN w /\ SubSeq(w, 1, n)[i] = w[i]
  OBVIOUS
<1> QED
  BY <1>1 DEF Carries

LEMMA CarriesTail ==
    ASSUME NEW x, NEW out, NEW us, NEW w \in Seq(ProperFrame), w # <<>>,
           NEW st \in [Nat -> Progress], Carries(x, out, us, w, st)
    PROVE  /\ Carries(x, out, us, Tail(w), [i \in Nat |-> st[i + 1]])
           /\ Fits(x, out, us, st[0], Head(w)) /\ st[1] = After(out, st[0], Head(w))
           /\ Good(x, out, us, st[0]) /\ Good(x, out, us, st[1])
<1>1. /\ Len(w) \in Nat /\ Len(w) > 0 /\ Len(Tail(w)) = Len(w) - 1 /\ Head(w) = w[1]
      /\ DOMAIN w = 1 .. Len(w) /\ DOMAIN Tail(w) = 1 .. Len(w) - 1
      /\ \A i \in 1 .. Len(w) - 1 : Tail(w)[i] = w[i + 1]
  OBVIOUS
<1>2. PICK next : next = [i \in Nat |-> st[i + 1]]
  OBVIOUS
<1>3. \A i \in 0 .. Len(w) - 1 : next[i] = st[i + 1] /\ Good(x, out, us, st[i + 1])
  BY <1>1, <1>2 DEF Carries
<1>4. ASSUME NEW i \in 1 .. Len(w) - 1
      PROVE  Fits(x, out, us, next[i - 1], w[i + 1]) /\ next[i] = After(out, next[i - 1], w[i + 1])
  <2>1. i + 1 \in DOMAIN w /\ next[i - 1] = st[i] /\ next[i] = st[i + 1] /\ (i + 1) - 1 = i
    BY <1>1, <1>2
  <2>2. Fits(x, out, us, st[(i + 1) - 1], w[i + 1]) /\ st[i + 1] = After(out, st[(i + 1) - 1], w[i + 1])
    BY <2>1 DEF Carries
  <2> QED
    BY <2>1, <2>2
<1>5. Carries(x, out, us, Tail(w), next)
  BY <1>1, <1>3, <1>4 DEF Carries
<1>6. 1 \in DOMAIN w /\ 1 - 1 = 0 /\ 0 \in 0 .. Len(w) /\ 1 \in 0 .. Len(w)
  BY <1>1
<1> QED
  BY <1>1, <1>2, <1>5, <1>6 DEF Carries

LEMMA CarriesAppend ==
    ASSUME NEW x, NEW out, NEW us, NEW w \in Seq(ProperFrame), NEW f \in ProperFrame,
           NEW st \in [Nat -> Progress], Carries(x, out, us, w, st),
           Fits(x, out, us, st[Len(w)], f), NEW r \in Progress, r = After(out, st[Len(w)], f),
           Good(x, out, us, r)
    PROVE  Brings(x, out, us, Append(w, f), st[0], r)
<1>1. /\ Len(w) \in Nat /\ Len(Append(w, f)) = Len(w) + 1 /\ DOMAIN Append(w, f) = 1 .. Len(w) + 1
      /\ Append(w, f)[Len(w) + 1] = f /\ \A i \in 1 .. Len(w) : Append(w, f)[i] = w[i] /\ i \in DOMAIN w
  BY AppendProperties
<1>2. PICK st2 \in [Nat -> Progress] : st2 = [st EXCEPT ![Len(w) + 1] = r]
  OBVIOUS
<1>3. st2[Len(w) + 1] = r /\ \A i \in 0 .. Len(w) : st2[i] = st[i]
  BY <1>1, <1>2
<1>4. \A i \in 0 .. Len(w) + 1 : Good(x, out, us, st2[i])
  BY <1>1, <1>3 DEF Carries
<1>5. ASSUME NEW i \in 1 .. Len(w) + 1
      PROVE  Fits(x, out, us, st2[i - 1], Append(w, f)[i]) /\ st2[i] = After(out, st2[i - 1], Append(w, f)[i])
  <2>1. CASE i = Len(w) + 1
    <3>1. i - 1 = Len(w) /\ i - 1 \in 0 .. Len(w)
      BY <1>1, <2>1
    <3> QED
      BY <1>1, <1>3, <2>1, <3>1
  <2>2. CASE i # Len(w) + 1
    <3>1. i \in 1 .. Len(w) /\ i - 1 \in 0 .. Len(w) /\ i \in 0 .. Len(w)
      BY <1>1, <2>2
    <3> QED
      BY <1>1, <1>3, <3>1 DEF Carries
  <2> QED
    BY <2>1, <2>2
<1>6. Carries(x, out, us, Append(w, f), st2) /\ st2[0] = st[0] /\ st2[Len(Append(w, f))] = r
  BY <1>1, <1>3, <1>4, <1>5 DEF Carries
<1> QED
  BY <1>2, <1>6 DEF Brings

LEMMA FitsGood ==
    ASSUME NEW x, NEW out \in [SID -> Seq(Nat)], NEW us, NEW r, Good(x, out, us, r),
           NEW f \in ProperFrame, Fits(x, out, us, r, f)
    PROVE  After(out, r, f) \in Progress /\ Good(x, out, us, After(out, r, f))
<1>1. r \in Progress /\ r.done \in [SID -> Nat] /\ r.parts \in Nat /\ r.opened \in SUBSET SID
  BY DEF Good, Progress
<1>2. f \in Frame /\ (f.type = "DataHeader" => f.length > 0)
  BY DEF ProperFrame
<1>3. PICK r2 : r2 = After(out, r, f)
  OBVIOUS
<1>4. CASE f.type = "OpenStream"
  <2>1. f.sid \in SID /\ Opener[f.sid] = x /\ us[f.sid] # "none"
    BY <1>2, <1>4, FrameFields DEF Fits
  <2>2. r2 = [r EXCEPT !.opened = @ \cup {f.sid}]
    BY <1>3, <1>4 DEF After
  <2>3. r2 \in Progress /\ r2.sid = r.sid /\ r2.parts = r.parts /\ r2.done = r.done
        /\ r2.opened = r.opened \cup {f.sid}
    BY <1>1, <2>1, <2>2 DEF Progress
  <2> QED
    BY <1>3, <2>1, <2>3 DEF Good
<1>5. CASE f.type = "CloseStream"
  BY <1>1, <1>5 DEF After
<1>6. CASE f.type = "DataHeader"
  <2>1. f.sid \in SID /\ f.mid \in Nat
    BY <1>2, <1>6, FrameFields
  <2>2. /\ r.sid = NoSid /\ f.mid = r.done[f.sid] /\ f.mid < Len(out[f.sid])
        /\ 0 < out[f.sid][f.mid + 1] /\ (Opener[f.sid] = x => f.sid \in r.opened)
    BY <1>2, <1>6 DEF Fits
  <2>3. r2 = [r EXCEPT !.sid = f.sid, !.parts = 0]
    BY <1>3, <1>6 DEF After
  <2>4. r2 \in Progress /\ r2.sid = f.sid /\ r2.parts = 0 /\ r2.done = r.done /\ r2.opened = r.opened
    BY <1>1, <2>1, <2>3 DEF Progress
  <2> QED
    BY <1>3, <2>1, <2>2, <2>4 DEF Good
<1>7. CASE f.type = "Data"
  <2>1. f.data.sid \in SID
    BY <1>2, <1>7, FrameFields DEF Part
  <2>2. PICK s \in SID : s = r.sid /\ f.mid = r.done[s] /\ s # NoSid
    BY <1>7, <2>1, TransportAssumption DEF Fits
  <2>3. r.done[s] < Len(out[s]) /\ r.parts < out[s][r.done[s] + 1] /\ Len(out[s]) \in Nat
        /\ (Opener[s] = x => s \in r.opened)
    BY <2>2 DEF Good
  <2>4. out[s][r.done[s] + 1] \in Nat
    <3>1. out[s] \in Seq(Nat) /\ r.done[s] + 1 \in 1 .. Len(out[s])
      BY <1>1, <2>3
    <3> QED
      BY <3>1
  <2>5. CASE r.parts + 1 = out[s][r.done[s] + 1]
    <3>1. r2 = [r EXCEPT !.sid = NoSid, !.parts = 0, !.done[s] = @ + 1]
      BY <1>3, <1>7, <2>2, <2>5 DEF After
    <3>2. PICK d \in [SID -> Nat] : d = [r.done EXCEPT ![s] = r.done[s] + 1]
      <4>1. PICK g \in [SID -> Nat] : g = r.done
        BY <1>1
      <4>2. g[s] + 1 \in Nat
        BY <2>2
      <4>3. [g EXCEPT ![s] = g[s] + 1] \in [SID -> Nat]
        BY <4>1, <4>2
      <4> QED
        BY <4>1, <4>3
    <3>3. r2 = [r EXCEPT !.sid = NoSid, !.parts = 0, !.done = d]
      BY <3>1, <3>2
    <3>4. r2 \in Progress /\ r2.sid = NoSid /\ r2.opened = r.opened /\ r2.done = d
      BY <1>1, <3>3 DEF Progress
    <3>5. d[s] = r.done[s] + 1 /\ \A t \in SID : t # s => d[t] = r.done[t]
      BY <1>1, <2>2, <3>2
    <3>6. \A t \in SID : d[t] <= Len(out[t]) /\ (Opener[t] = x /\ t \notin r.opened => d[t] = 0)
      BY <1>1, <2>3, <3>5 DEF Good
    <3> QED
      BY <1>3, <2>2, <3>4, <3>6, TransportAssumption DEF Good
  <2>6. CASE r.parts + 1 # out[s][r.done[s] + 1]
    <3>1. r2 = [r EXCEPT !.parts = @ + 1]
      BY <1>3, <1>7, <2>2, <2>6 DEF After
    <3>2. r2 \in Progress /\ r2.sid = s /\ r2.opened = r.opened /\ r2.done = r.done /\ r2.parts = r.parts + 1
      <4>1. PICK n \in Nat : n = r.parts + 1
        BY <1>1
      <4>2. r2 = [r EXCEPT !.parts = n]
        BY <3>1, <4>1
      <4> QED
        BY <1>1, <2>2, <4>1, <4>2 DEF Progress
    <3>3. r2.parts < out[s][r.done[s] + 1]
      BY <1>1, <2>3, <2>4, <2>6, <3>2
    <3> QED
      BY <1>3, <2>2, <2>3, <3>2, <3>3 DEF Good
  <2> QED
    BY <2>5, <2>6
<1> QED
  BY <1>2, <1>4, <1>5, <1>6, <1>7, FrameFields

(* The same in terms of where the frames bring one from and to.            *)
LEMMA BringsGood ==
    ASSUME NEW x, NEW out, NEW us, NEW w \in Seq(ProperFrame), NEW r0, NEW r, Brings(x, out, us, w, r0, r)
    PROVE  Good(x, out, us, r0) /\ Good(x, out, us, r)
<1>1. 0 \in 0 .. Len(w) /\ Len(w) \in 0 .. Len(w)
  OBVIOUS
<1> QED
  BY <1>1 DEF Brings, Carries

LEMMA BringsGrows ==
    ASSUME NEW x, NEW out \in [SID -> Seq(Nat)], NEW us, NEW out2, NEW us2, Grows(out, us, out2, us2),
           NEW w \in Seq(ProperFrame), NEW r0, NEW r, Brings(x, out, us, w, r0, r)
    PROVE  Brings(x, out2, us2, w, r0, r)
  BY CarriesGrows DEF Brings

LEMMA BringsPrefix ==
    ASSUME NEW x, NEW out, NEW us, NEW w \in Seq(ProperFrame), NEW r0, NEW r, Brings(x, out, us, w, r0, r),
           NEW n \in 0 .. Len(w)
    PROVE  \E r2 \in Progress : Brings(x, out, us, SubSeq(w, 1, n), r0, r2)
<1>1. PICK st \in [Nat -> Progress] : Carries(x, out, us, w, st) /\ st[0] = r0
  BY DEF Brings
<1>2. Carries(x, out, us, SubSeq(w, 1, n), st) /\ Len(SubSeq(w, 1, n)) = n
  BY <1>1, CarriesPrefix
<1>3. PICK r2 \in Progress : r2 = st[n]
  OBVIOUS
<1>4. Brings(x, out, us, SubSeq(w, 1, n), r0, r2)
  BY <1>1, <1>2, <1>3 DEF Brings
<1> QED
  BY <1>4

LEMMA BringsTail ==
    ASSUME NEW x, NEW out, NEW us, NEW w \in Seq(ProperFrame), w # <<>>,
           NEW r0, NEW r, Brings(x, out, us, w, r0, r), NEW f, f = Head(w)
    PROVE  /\ Fits(x, out, us, r0, f) /\ After(out, r0, f) \in Progress
           /\ Good(x, out, us, After(out, r0, f))
           /\ Brings(x, out, us, Tail(w), After(out, r0, f), r)
<1>1. PICK st \in [Nat -> Progress] : Carries(x, out, us, w, st) /\ st[0] = r0 /\ st[Len(w)] = r
  BY DEF Brings
<1>2. PICK next \in [Nat -> Progress] : next = [i \in Nat |-> st[i + 1]]
  <2>1. \A i \in Nat : st[i + 1] \in Progress
    BY <1>1
  <2>2. [i \in Nat |-> st[i + 1]] \in [Nat -> Progress]
    BY <2>1
  <2> QED
    BY <2>2
<1>3. /\ Carries(x, out, us, Tail(w), next)
      /\ Fits(x, out, us, st[0], f) /\ st[1] = After(out, st[0], f) /\ Good(x, out, us, st[1])
  BY <1>1, <1>2, CarriesTail
<1>4. next[0] = st[1] /\ next[Len(Tail(w))] = st[Len(w)]
  <2>1. Len(Tail(w)) \in Nat /\ Len(Tail(w)) + 1 = Len(w) /\ 0 + 1 = 1
    OBVIOUS
  <2> QED
    BY <1>2, <2>1
<1>5. Brings(x, out, us, Tail(w), st[1], r)
  BY <1>1, <1>3, <1>4 DEF Brings
<1> QED
  BY <1>1, <1>3, <1>5

LEMMA BringsFrame ==
    ASSUME NEW x, NEW out \in [SID -> Seq(Nat)], NEW us, NEW w \in Seq(ProperFrame), NEW f \in ProperFrame,
           NEW r0, NEW r, Brings(x, out, us, w, r0, r), Fits(x, out, us, r, f)
    PROVE  Brings(x, out, us, Append(w, f), r0, After(out, r, f))
<1>1. PICK st \in [Nat -> Progress] : Carries(x, out, us, w, st) /\ st[0] = r0 /\ st[Len(w)] = r
  BY DEF Brings
<1>2. Good(x, out, us, r)
  BY BringsGood
<1>3. PICK r2 : r2 = After(out, r, f)
  OBVIOUS
<1>4. r2 \in Progress /\ Good(x, out, us, r2)
  BY <1>2, <1>3, FitsGood
<1>5. Fits(x, out, us, st[Len(w)], f) /\ r2 = After(out, st[Len(w)], f)
  BY <1>1, <1>3
<1>6. Brings(x, out, us, Append(w, f), st[0], r2)
  BY <1>1, <1>4, <1>5, CarriesAppend
<1> QED
  BY <1>1, <1>3, <1>6

LEMMA SidesTyped ==
    ASSUME TypeInv, NEW x \in SIDE
    PROVE  /\ outbox[x] \in [SID -> Seq(Nat)]
           /\ Peer(x) \in SIDE /\ Peer(x) # x /\ Peer(Peer(x)) = x
           /\ In(x) \in Seq(ProperFrame)
<1>1. Peer(x) \in SIDE /\ Peer(x) # x /\ Peer(Peer(x)) = x
  BY DEF Peer, SIDE
<1>2. outbox[x] \in [SID -> Seq(scene.sizes)] /\ scene.sizes \subseteq Nat
  BY SceneSizes DEF TypeInv, TypeOK
<1>3. PICK S \in SUBSET Nat : S = scene.sizes
  BY <1>2
<1>4. outbox[x] \in [SID -> Seq(S)] /\ Seq(S) \subseteq Seq(Nat)
  BY <1>2, <1>3
<1>5. outbox[x] \in [SID -> Seq(Nat)]
  <2>1. PICK T : T = Seq(S)
    OBVIOUS
  <2>2. PICK U : U = Seq(Nat)
    OBVIOUS
  <2>3. outbox[x] \in [SID -> T] /\ T \subseteq U
    BY <1>4, <2>1, <2>2
  <2>4. outbox[x] \in [SID -> U]
    BY <2>3
  <2> QED
    BY <2>2, <2>4
<1> QED
  BY <1>1, <1>5 DEF In, TypeInv

(* What a step leaves alone for y to have got as far as before, and what   *)
(* its peer x may do meanwhile.                                            *)
Undisturbed(y) ==
    /\ assembly'[y] = assembly[y]
    /\ \A s \in SID :
        /\ Listening(y, s)' => /\ inbox'[y][s] = inbox[y][s]
                               /\ Listening(y, s) \/ (inbox[y][s] = <<>> /\ outbox[Peer(y)][s] = <<>>)
        /\ Opener[s] # y => (user'[y][s] = "none" <=> user[y][s] = "none")

SendsMore(x) == Grows(outbox[x], user[x], outbox'[x], user'[x])

LEMMA StillReached ==
    ASSUME TypeInv, NEW y \in SIDE, Undisturbed(y), SendsMore(Peer(y)),
           NEW r, Good(Peer(y), outbox[Peer(y)], user[Peer(y)], r), Reached(y, r)
    PROVE  Reached(y, r)'
<1>1. outbox[Peer(y)] \in [SID -> Seq(Nat)]
  BY SidesTyped
<1>2. r \in Progress /\ \A s \in SID : r.done[s] \in Nat
  BY DEF Good, Progress
<1>3. \A m \in DOMAIN assembly[y] :
         /\ r.sid \in SID /\ m = r.done[r.sid]
         /\ outbox'[Peer(y)][r.sid][m + 1] = outbox[Peer(y)][r.sid][m + 1]
  <2>1. ASSUME NEW m \in DOMAIN assembly[y]
        PROVE  r.sid \in SID /\ r.sid # NoSid /\ m = r.done[r.sid] /\ m \in Nat
    BY <1>2 DEF Reached, Progress
  <2>2. ASSUME NEW m \in DOMAIN assembly[y]
        PROVE  outbox'[Peer(y)][r.sid][m + 1] = outbox[Peer(y)][r.sid][m + 1]
    <3>1. PICK s \in SID, k \in Nat : s = r.sid /\ k = m
      BY <2>1
    <3>2. k < Len(outbox[Peer(y)][s])
      BY <2>1, <3>1 DEF Good
    <3>3. \A n \in Nat : n < Len(outbox[Peer(y)][s]) => outbox'[Peer(y)][s][n + 1] = outbox[Peer(y)][s][n + 1]
      BY <1>1, Longer DEF SendsMore
    <3>4. outbox'[Peer(y)][s][k + 1] = outbox[Peer(y)][s][k + 1]
      BY <3>2, <3>3
    <3> QED
      BY <3>1, <3>4
  <2> QED
    BY <2>1, <2>2
<1>4. ASSUME NEW s \in SID, Listening(y, s)' PROVE Len(inbox'[y][s]) = r.done[s]
  <2>1. CASE Listening(y, s)
    BY <1>4, <2>1 DEF Undisturbed, Reached
  <2>2. CASE inbox[y][s] = <<>> /\ outbox[Peer(y)][s] = <<>>
    BY <1>2, <1>4, <2>2 DEF Undisturbed, Good
  <2> QED
    BY <1>4, <2>1, <2>2 DEF Undisturbed
<1>5. DOMAIN assembly'[y] = IF r.sid = NoSid THEN {} ELSE {r.done[r.sid]}
  BY DEF Undisturbed, Reached
<1>6. \A m \in DOMAIN assembly'[y] :
          assembly'[y][m] = [sid |-> r.sid, length |-> outbox'[Peer(y)][r.sid][m + 1],
                             data |-> Whole(r.sid, m, r.parts)]
  BY <1>3 DEF Undisturbed, Reached
<1>7. \A s \in SID : Opener[s] # y => (s \in r.opened <=> user'[y][s] # "none")
  BY DEF Undisturbed, Reached
<1> QED
  BY <1>4, <1>5, <1>6, <1>7 DEF Reached

(* Nothing more is on its way to y, or less when a channel ended.          *)
LEMMA StillFlows ==
    ASSUME TypeInv, NEW y \in SIDE, Flow(y), Undisturbed(y), SendsMore(Peer(y)),
           \/ In(y)' = In(y)
           \/ channel' # SIDE /\ \E n \in 0 .. Len(In(y)) : In(y)' = SubSeq(In(y), 1, n),
           channel' = SIDE => /\ channel = SIDE
                              /\ \A r \in Progress :
                                    Good(Peer(y), outbox[Peer(y)], user[Peer(y)], r) /\ Sending(Peer(y), r)
                                        => Sending(Peer(y), r)'
    PROVE  Flow(y)'
<1>1. PICK r0 \in Progress, r \in Progress : Pipe(y, r0, r)
  BY DEF Flow
<1>2. PICK w \in Seq(ProperFrame), out \in [SID -> Seq(Nat)], us \in {user[Peer(y)]},
           out2 \in {outbox'[Peer(y)]}, us2 \in {user'[Peer(y)]} :
         w = In(y) /\ out = outbox[Peer(y)] /\ us = user[Peer(y)]
         /\ out2 = outbox'[Peer(y)] /\ us2 = user'[Peer(y)]
  BY SidesTyped
<1>3. Brings(Peer(y), out, us, w, r0, r) /\ Grows(out, us, out2, us2) /\ Reached(y, r0)
  BY <1>1, <1>2 DEF Pipe, SendsMore
<1>4. Good(Peer(y), out, us, r0) /\ Good(Peer(y), out, us, r)
  BY <1>3, BringsGood
<1>5. Brings(Peer(y), out2, us2, w, r0, r)
  BY <1>3, BringsGrows
<1>6. Reached(y, r0)'
  BY <1>2, <1>3, <1>4, StillReached
<1>7. CASE In(y)' = w
  <2>1. channel' = SIDE => Sending(Peer(y), r)'
    BY <1>1, <1>2, <1>4 DEF Pipe
  <2>2. Pipe(y, r0, r)'
    BY <1>2, <1>5, <1>6, <1>7, <2>1 DEF Pipe
  <2> QED
    BY <2>2 DEF Flow
<1>8. ASSUME channel' # SIDE, NEW n \in 0 .. Len(w), In(y)' = SubSeq(w, 1, n)
      PROVE  Flow(y)'
  <2>1. PICK r2 \in Progress : Brings(Peer(y), out2, us2, SubSeq(w, 1, n), r0, r2)
    BY <1>5, BringsPrefix
  <2>2. Pipe(y, r0, r2)'
    BY <1>2, <1>6, <1>8, <2>1 DEF Pipe
  <2> QED
    BY <2>2 DEF Flow
<1> QED
  BY <1>2, <1>7, <1>8

(* Its peer sends frames that continue what is on its way.                 *)
LEMMA MoreFlows ==
    ASSUME TypeInv, NEW y \in SIDE, Undisturbed(y), SendsMore(Peer(y)),
           NEW r0 \in Progress, NEW r, Pipe(y, r0, r), NEW r2 \in Progress,
           Brings(Peer(y), outbox'[Peer(y)], user'[Peer(y)], In(y)', r0, r2), Sending(Peer(y), r2)'
    PROVE  Flow(y)'
<1>1. Good(Peer(y), outbox[Peer(y)], user[Peer(y)], r0) /\ Reached(y, r0)
  BY SidesTyped, BringsGood DEF Pipe
<1>2. Reached(y, r0)'
  BY <1>1, StillReached
<1>3. Pipe(y, r0, r2)'
  BY <1>2 DEF Pipe
<1> QED
  BY <1>3 DEF Flow
-----------------------------------------------------------------------------
(* The queue of a priority.                                                *)
LEMMA QueueHead ==
    ASSUME NEW out \in [SID -> Seq(Nat)], NEW q \in Seq(Message), q # <<>>, NEW r \in Progress, Queued(out, q, r)
    PROVE  /\ q[1] \in Message /\ q[1].mid = r.done[q[1].sid]
           /\ q[1].mid < Len(out[q[1].sid]) /\ q[1].size = out[q[1].sid][q[1].mid + 1]
           /\ q[1].cursor < q[1].size
           /\ q[1].cursor > 0 => r.sid = q[1].sid /\ r.parts = q[1].cursor
           /\ q[1].cursor = 0 => r.sid = NoSid
<1>1. 1 \in DOMAIN q /\ q[1] \in Message /\ \A i \in DOMAIN q : i \in Nat /\ i >= 1
  OBVIOUS
<1>2. PICK s \in SID, m \in Nat : s = q[1].sid /\ m = q[1].mid
  BY <1>1 DEF Message
<1>3. r.done[s] \in Nat /\ r.done[s] <= m /\ m < Len(out[s]) /\ Len(out[s]) \in Nat
  <2>1. r.done[s] <= m /\ m < Len(out[s])
    BY <1>1, <1>2 DEF Queued
  <2> QED
    BY <2>1 DEF Progress
<1>4. PICK i \in DOMAIN q : q[i].sid = s /\ q[i].mid = r.done[s]
  <2>1. PICK d \in Nat : d = r.done[s]
    BY <1>3
  <2>2. r.done[s] <= d /\ d < Len(out[s])
    BY <1>3, <2>1
  <2> QED
    BY <2>1, <2>2 DEF Queued
<1>5. i = 1
  <2> SUFFICES ASSUME 1 < i PROVE FALSE
    BY <1>1
  <2>1. m < q[i].mid
    BY <1>1, <1>2, <1>4 DEF Queued
  <2> QED
    BY <1>3, <1>4, <2>1
<1>6. q[1].mid < Len(out[q[1].sid]) /\ q[1].size = out[q[1].sid][q[1].mid + 1] /\ q[1].cursor < q[1].size
  BY <1>1 DEF Queued
<1>7. /\ q[1].cursor > 0 => r.sid = q[1].sid /\ r.parts = q[1].cursor
      /\ q[1].cursor = 0 => r.sid = NoSid
  BY DEF Queued
<1> QED
  BY <1>1, <1>2, <1>4, <1>5, <1>6, <1>7

LEMMA QueueTail ==
    ASSUME NEW out \in [SID -> Seq(Nat)], NEW q \in Seq(Message), q # <<>>, NEW r \in Progress, Queued(out, q, r),
           NEW r2 \in Progress, r2.sid = NoSid, NEW s \in SID, s = q[1].sid,
           r2.done[s] = r.done[s] + 1, \A t \in SID : t # s => r2.done[t] = r.done[t]
    PROVE  Queued(out, Tail(q), r2)
<1>1. /\ Len(q) \in Nat /\ Len(q) > 0 /\ DOMAIN q = 1 .. Len(q) /\ DOMAIN Tail(q) = 1 .. Len(q) - 1
      /\ \A i \in 1 .. Len(q) - 1 : Tail(q)[i] = q[i + 1]
      /\ \A i \in DOMAIN q : q[i] \in Message
  OBVIOUS
<1>2. q[1].mid = r.done[s] /\ r.done[s] \in Nat
  BY QueueHead DEF Progress
<1>3. PICK tail : tail = Tail(q)
  OBVIOUS
<1>4. \A i \in DOMAIN tail : i \in Nat /\ i + 1 \in DOMAIN q /\ i + 1 > 1 /\ tail[i] = q[i + 1]
  BY <1>1, <1>3
<1>5. \A i \in DOMAIN q : i # 1 => i - 1 \in DOMAIN tail /\ tail[i - 1] = q[i] /\ i > 1
  BY <1>1, <1>3
<1>6. \A i \in DOMAIN tail :
        /\ tail[i].mid < Len(out[tail[i].sid]) /\ tail[i].size = out[tail[i].sid][tail[i].mid + 1]
        /\ tail[i].cursor < tail[i].size /\ (i > 1 => tail[i].cursor = 0) /\ tail[i].cursor = 0
  BY <1>4 DEF Queued
<1>7. \A i, j \in DOMAIN tail : i < j /\ tail[i].sid = tail[j].sid => tail[i].mid < tail[j].mid
  <2> SUFFICES ASSUME NEW i \in DOMAIN tail, NEW j \in DOMAIN tail, i < j, tail[i].sid = tail[j].sid
               PROVE  tail[i].mid < tail[j].mid
    OBVIOUS
  <2>1. i + 1 \in DOMAIN q /\ j + 1 \in DOMAIN q /\ i + 1 < j + 1
    BY <1>4
  <2>2. q[i + 1].sid = q[j + 1].sid
    BY <1>4
  <2>3. q[i + 1].mid < q[j + 1].mid
    BY <2>1, <2>2 DEF Queued
  <2> QED
    BY <1>4, <2>3
<1>8. ASSUME NEW t \in SID, NEW m \in Nat
      PROVE  r2.done[t] <= m /\ m < Len(out[t]) <=> \E i \in DOMAIN tail : tail[i].sid = t /\ tail[i].mid = m
  <2>1. r.done[t] <= m /\ m < Len(out[t]) <=> \E i \in DOMAIN q : q[i].sid = t /\ q[i].mid = m
    BY DEF Queued
  <2>2. \A i \in DOMAIN q : i # 1 /\ q[i].sid = s => r.done[s] < q[i].mid
    <3>1. 1 \in DOMAIN q /\ \A i \in DOMAIN q : i # 1 => 1 < i
      BY <1>1
    <3>2. \A i \in DOMAIN q : 1 < i /\ q[1].sid = q[i].sid => q[1].mid < q[i].mid
      BY <3>1 DEF Queued
    <3> QED
      BY <1>2, <3>1, <3>2
  <2>3. ASSUME r2.done[t] <= m, m < Len(out[t])
        PROVE  \E i \in DOMAIN tail : tail[i].sid = t /\ tail[i].mid = m
    <3>1. r.done[t] <= m /\ (t = s => r.done[s] < m)
      BY <1>2, <2>3
    <3>2. PICK i \in DOMAIN q : q[i].sid = t /\ q[i].mid = m
      BY <2>1, <2>3, <3>1
    <3>3. i # 1
      BY <1>2, <3>1, <3>2
    <3> QED
      BY <1>5, <3>2, <3>3
  <2>4. ASSUME NEW i \in DOMAIN tail, tail[i].sid = t, tail[i].mid = m
        PROVE  r2.done[t] <= m /\ m < Len(out[t])
    <3>1. i + 1 \in DOMAIN q /\ i + 1 # 1 /\ q[i + 1].sid = t /\ q[i + 1].mid = m
      BY <1>4, <2>4
    <3>2. r.done[t] <= m /\ m < Len(out[t])
      BY <2>1, <3>1
    <3>3. t = s => r.done[s] < m
      BY <2>2, <3>1
    <3> QED
      BY <1>2, <3>2, <3>3
  <2> QED
    BY <2>3, <2>4
<1>9. IF tail # <<>> /\ tail[1].cursor > 0 THEN r2.sid = tail[1].sid /\ r2.parts = tail[1].cursor ELSE r2.sid = NoSid
  <2>1. tail # <<>> => 1 \in DOMAIN tail
    BY <1>1, <1>3
  <2> QED
    BY <1>6, <2>1
<1>10. \A t \in SID, m \in Nat :
          r2.done[t] <= m /\ m < Len(out[t]) <=> \E i \in DOMAIN tail : tail[i].sid = t /\ tail[i].mid = m
  BY <1>8
<1>11. Queued(out, tail, r2)
  BY <1>6, <1>7, <1>9, <1>10 DEF Queued
<1> QED
  BY <1>3, <1>11

LEMMA QueueCursor ==
    ASSUME NEW out \in [SID -> Seq(Nat)], NEW q \in Seq(Message), q # <<>>, NEW r \in Progress, Queued(out, q, r),
           q[1].cursor + 1 < q[1].size,
           NEW r2 \in Progress, r2.sid = q[1].sid, r2.parts = q[1].cursor + 1, r2.done = r.done
    PROVE  Queued(out, [q EXCEPT ![1].cursor = q[1].cursor + 1], r2)
<1>1. 1 \in DOMAIN q /\ q[1] \in Message /\ \A i \in DOMAIN q : i \in Nat
  OBVIOUS
<1>2. PICK q2 : q2 = [q EXCEPT ![1].cursor = q[1].cursor + 1]
  OBVIOUS
<1>3. /\ DOMAIN q2 = DOMAIN q
      /\ \A i \in DOMAIN q : q2[i].sid = q[i].sid /\ q2[i].mid = q[i].mid /\ q2[i].size = q[i].size
                             /\ (i # 1 => q2[i].cursor = q[i].cursor)
      /\ q2[1].cursor = q[1].cursor + 1
  BY <1>1, <1>2 DEF Message
<1>4. \A i \in DOMAIN q2 :
        /\ q2[i].mid < Len(out[q2[i].sid]) /\ q2[i].size = out[q2[i].sid][q2[i].mid + 1]
        /\ q2[i].cursor < q2[i].size /\ (i > 1 => q2[i].cursor = 0)
  <2> SUFFICES ASSUME NEW i \in DOMAIN q2
               PROVE  /\ q2[i].mid < Len(out[q2[i].sid]) /\ q2[i].size = out[q2[i].sid][q2[i].mid + 1]
                      /\ q2[i].cursor < q2[i].size /\ (i > 1 => q2[i].cursor = 0)
    OBVIOUS
  <2>1. /\ q[i].mid < Len(out[q[i].sid]) /\ q[i].size = out[q[i].sid][q[i].mid + 1]
        /\ q[i].cursor < q[i].size /\ (i > 1 => q[i].cursor = 0)
    BY <1>3 DEF Queued
  <2>2. q2[i].sid = q[i].sid /\ q2[i].mid = q[i].mid /\ q2[i].size = q[i].size
    BY <1>3
  <2>3. q2[i].cursor < q2[i].size /\ (i > 1 => q2[i].cursor = 0)
    BY <1>3, <2>1, <2>2
  <2> QED
    BY <2>1, <2>2, <2>3
<1>5. \A i, j \in DOMAIN q2 : i < j /\ q2[i].sid = q2[j].sid => q2[i].mid < q2[j].mid
  <2>1. \A i, j \in DOMAIN q : i < j /\ q[i].sid = q[j].sid => q[i].mid < q[j].mid
    BY DEF Queued
  <2> QED
    BY <1>3, <2>1
<1>6. \A s \in SID, m \in Nat :
         r2.done[s] <= m /\ m < Len(out[s]) <=> \E i \in DOMAIN q2 : q2[i].sid = s /\ q2[i].mid = m
  <2> SUFFICES ASSUME NEW s \in SID, NEW m \in Nat
               PROVE  r2.done[s] <= m /\ m < Len(out[s]) <=> \E i \in DOMAIN q2 : q2[i].sid = s /\ q2[i].mid = m
    OBVIOUS
  <2>1. r.done[s] <= m /\ m < Len(out[s]) <=> \E i \in DOMAIN q : q[i].sid = s /\ q[i].mid = m
    BY DEF Queued
  <2>2. \A i \in DOMAIN q : (q2[i].sid = s /\ q2[i].mid = m) <=> (q[i].sid = s /\ q[i].mid = m)
    BY <1>3
  <2> QED
    BY <1>3, <2>1, <2>2
<1>7. q2 # <<>> /\ q2[1].cursor > 0 /\ r2.sid = q2[1].sid /\ r2.parts = q2[1].cursor
  BY <1>1, <1>3 DEF Message
<1> QED
  BY <1>2, <1>4, <1>5, <1>6, <1>7 DEF Queued

LEMMA QueueAppend ==
    ASSUME NEW out \in [SID -> Seq(Nat)], NEW q \in Seq(Message), NEW r \in Progress, Queued(out, q, r),
           NEW s \in SID, NEW n \in Nat, n > 0, r.done[s] <= Len(out[s]),
           NEW out2 \in [SID -> Seq(Nat)], out2 = [out EXCEPT ![s] = Append(@, n)],
           NEW e, e = [sid |-> s, mid |-> Len(out[s]), size |-> n, cursor |-> 0]
    PROVE  Queued(out2, Append(q, e), r)
<1>1. PICK q2 : q2 = Append(q, e)
  OBVIOUS
<1>2. /\ Len(q) \in Nat /\ DOMAIN q = 1 .. Len(q) /\ DOMAIN q2 = 1 .. Len(q) + 1
      /\ \A i \in 1 .. Len(q) : q2[i] = q[i] /\ q[i] \in Message
      /\ q2[Len(q) + 1] = e
  BY <1>1
<1>3. out[s] \in Seq(Nat) /\ Len(out[s]) \in Nat /\ out2[s] = Append(out[s], n)
  OBVIOUS
<1>4. /\ Len(out2[s]) = Len(out[s]) + 1 /\ out2[s][Len(out[s]) + 1] = n
      /\ \A t \in SID : t # s => out2[t] = out[t]
      /\ \A t \in SID, m \in Nat : m < Len(out[t]) => m < Len(out2[t]) /\ out2[t][m + 1] = out[t][m + 1]
  <2>1. /\ Len(out2[s]) = Len(out[s]) + 1 /\ out2[s][Len(out[s]) + 1] = n
        /\ \A i \in 1 .. Len(out[s]) : out2[s][i] = out[s][i]
    BY <1>3, AppendProperties
  <2>2. \A t \in SID : t # s => out2[t] = out[t]
    OBVIOUS
  <2>3. \A m \in Nat : m < Len(out[s]) => m + 1 \in 1 .. Len(out[s])
    BY <1>3
  <2> QED
    BY <1>3, <2>1, <2>2, <2>3
<1>5. \A i \in DOMAIN q :
        /\ q[i].sid \in SID /\ q[i].mid \in Nat /\ q[i].mid < Len(out[q[i].sid])
        /\ q[i].size = out[q[i].sid][q[i].mid + 1]
        /\ q[i].cursor < q[i].size /\ (i > 1 => q[i].cursor = 0)
  BY <1>2 DEF Queued, Message
<1>6. \A i \in DOMAIN q2 :
        /\ q2[i].mid < Len(out2[q2[i].sid]) /\ q2[i].size = out2[q2[i].sid][q2[i].mid + 1]
        /\ q2[i].cursor < q2[i].size /\ (i > 1 => q2[i].cursor = 0)
  <2> SUFFICES ASSUME NEW i \in DOMAIN q2
               PROVE  /\ q2[i].mid < Len(out2[q2[i].sid]) /\ q2[i].size = out2[q2[i].sid][q2[i].mid + 1]
                      /\ q2[i].cursor < q2[i].size /\ (i > 1 => q2[i].cursor = 0)
    OBVIOUS
  <2>1. CASE i = Len(q) + 1
    BY <1>2, <1>3, <1>4, <2>1
  <2>2. CASE i # Len(q) + 1
    <3>1. i \in DOMAIN q /\ q2[i] = q[i]
      BY <1>2, <2>2
    <3>2. PICK t \in SID, m \in Nat : t = q[i].sid /\ m = q[i].mid /\ m < Len(out[t])
      BY <1>5, <3>1
    <3>3. m < Len(out2[t]) /\ out2[t][m + 1] = out[t][m + 1]
      BY <1>4, <3>2
    <3> QED
      BY <1>5, <3>1, <3>2, <3>3
  <2> QED
    BY <2>1, <2>2
<1>7. \A i, j \in DOMAIN q2 : i < j /\ q2[i].sid = q2[j].sid => q2[i].mid < q2[j].mid
  <2> SUFFICES ASSUME NEW i \in DOMAIN q2, NEW j \in DOMAIN q2, i < j, q2[i].sid = q2[j].sid
               PROVE  q2[i].mid < q2[j].mid
    OBVIOUS
  <2>1. i \in DOMAIN q /\ q2[i] = q[i]
    BY <1>2
  <2>2. CASE j = Len(q) + 1
    BY <1>2, <1>5, <2>1, <2>2
  <2>3. CASE j # Len(q) + 1
    <3>1. j \in DOMAIN q /\ q2[j] = q[j]
      BY <1>2, <2>3
    <3> QED
      BY <2>1, <3>1 DEF Queued
  <2> QED
    BY <2>2, <2>3
<1>8. ASSUME NEW t \in SID, NEW m \in Nat
      PROVE  r.done[t] <= m /\ m < Len(out2[t]) <=> \E i \in DOMAIN q2 : q2[i].sid = t /\ q2[i].mid = m
  <2>1. r.done[t] <= m /\ m < Len(out[t]) <=> \E i \in DOMAIN q : q[i].sid = t /\ q[i].mid = m
    BY DEF Queued
  <2>2. m < Len(out2[t]) <=> m < Len(out[t]) \/ (t = s /\ m = Len(out[s]))
    BY <1>3, <1>4
  <2>3. (\E i \in DOMAIN q2 : q2[i].sid = t /\ q2[i].mid = m)
           <=> (\E i \in DOMAIN q : q[i].sid = t /\ q[i].mid = m) \/ (t = s /\ m = Len(out[s]))
    <3>1. ASSUME NEW i \in DOMAIN q2, q2[i].sid = t, q2[i].mid = m
          PROVE  (\E j \in DOMAIN q : q[j].sid = t /\ q[j].mid = m) \/ (t = s /\ m = Len(out[s]))
      <4>1. CASE i = Len(q) + 1
        BY <1>2, <3>1, <4>1
      <4>2. CASE i # Len(q) + 1
        <5>1. i \in DOMAIN q /\ q2[i] = q[i]
          BY <1>2, <4>2
        <5> QED
          BY <3>1, <5>1
      <4> QED
        BY <4>1, <4>2
    <3>2. Len(q) + 1 \in DOMAIN q2 /\ q2[Len(q) + 1].sid = s /\ q2[Len(q) + 1].mid = Len(out[s])
      BY <1>2
    <3>3. \A i \in DOMAIN q : i \in DOMAIN q2 /\ q2[i] = q[i]
      BY <1>2
    <3> QED
      BY <3>1, <3>2, <3>3
  <2> QED
    BY <2>1, <2>2, <2>3
<1>9. IF q2 # <<>> /\ q2[1].cursor > 0 THEN r.sid = q2[1].sid /\ r.parts = q2[1].cursor ELSE r.sid = NoSid
  <2>1. CASE q = <<>>
    BY <1>2, <2>1 DEF Queued
  <2>2. CASE q # <<>>
    <3>1. 1 \in DOMAIN q /\ 1 \in DOMAIN q2 /\ q2[1] = q[1] /\ q2 # <<>>
      BY <1>2, <2>2
    <3> QED
      BY <2>2, <3>1 DEF Queued
  <2> QED
    BY <2>1, <2>2
<1>10. \A t \in SID, m \in Nat :
          r.done[t] <= m /\ m < Len(out2[t]) <=> \E i \in DOMAIN q2 : q2[i].sid = t /\ q2[i].mid = m
  BY <1>8
<1>11. Queued(out2, q2, r)
  BY <1>6, <1>7, <1>9, <1>10 DEF Queued
<1> QED
  BY <1>1, <1>11
-----------------------------------------------------------------------------
(* Steps that receive nothing.                                             *)
LEMMA Quiet ==
    ASSUME NEW z \in SIDE, assembly' = assembly, inbox' = inbox,
           recv_closed[z] \subseteq recv_closed'[z],
           \A s \in SID : user'[z][s] = user[z][s] \/ (user[z][s] = "held" /\ user'[z][s] = "dropped")
    PROVE  Undisturbed(z)
<1>1. \A s \in SID : Listening(z, s)' => Listening(z, s)
  BY DEF Listening
<1> QED
  BY <1>1 DEF Undisturbed

(* The peer of a side that takes a step.                                   *)
SameStreams(z) ==
    /\ close_rx'[z] = close_rx[z] /\ closing'[z] = closing[z] /\ ended'[z] = ended[z]
    /\ user'[z] = user[z] /\ outbox'[z] = outbox[z] /\ inbox'[z] = inbox[z]
    /\ streams'[z] = streams[z] /\ recv_closed'[z] = recv_closed[z]
    /\ z \in channel' => z \in channel

LEMMA OtherUsers ==
    ASSUME NEW x \in SIDE, Users(Peer(x)), Peer(Peer(x)) = x, SameStreams(Peer(x)),
           \A s \in SID : /\ user[x][s] = "dropped" => user'[x][s] = "dropped"
                          /\ user'[x][s] = user[x][s] \/ user[x][s] # "none"
                             \/ Opener[s] = x \/ user[Peer(x)][s] # "none"
    PROVE  Users(Peer(x))'
<1>1. Peer(x) # x
  BY DEF Peer, SIDE
<1> QED
  BY <1>1 DEF Users, SameStreams

LEMMA SentIn ==
    ASSUME TypeInv, NEW x \in SIDE, NEW fs \in Seq(ProperFrame), NEW known, SendFrames(x, fs, known),
           UNCHANGED <<channel, left_over>>
    PROVE  /\ In(x)' = In(x)
           /\ channel = SIDE => In(Peer(x))' = In(Peer(x)) \o fs
           /\ channel # SIDE => In(Peer(x))' = In(Peer(x))
<1>1. Peer(x) \in SIDE /\ Peer(x) # x /\ Peer(Peer(x)) = x /\ SIDE = {x, Peer(x)}
  BY DEF Peer, SIDE
<1>2. wire \in [SIDE -> Seq(ProperFrame)] /\ channel \subseteq SIDE
  BY DEF TypeInv, TypeOK
<1>3. CASE x \in channel
  <2>1. wire' = [wire EXCEPT ![x] = wire[x] \o fs]
    BY <1>3 DEF SendFrames
  <2>2. wire'[x] = wire[x] \o fs /\ wire'[Peer(x)] = wire[Peer(x)]
    BY <1>1, <1>2, <2>1
  <2>3. channel = SIDE <=> Peer(x) \in channel
    BY <1>1, <1>2, <1>3
  <2> QED
    BY <1>1, <2>2, <2>3 DEF In
<1>4. CASE x \notin channel
  BY <1>1, <1>4 DEF In, SendFrames
<1> QED
  BY <1>3, <1>4

LEMMA SentClosed ==
    ASSUME TypeInv, NEW x \in SIDE, NEW fs, NEW known, SendFrames(x, fs, known)
    PROVE  /\ streams'[Peer(x)] = streams[Peer(x)] /\ recv_closed'[Peer(x)] = recv_closed[Peer(x)]
           /\ IF x \in channel THEN streams'[x] = known /\ recv_closed'[x] = recv_closed[x]
              ELSE streams'[x] = {} /\ recv_closed'[x] = recv_closed[x] \cup known
<1>1. Peer(x) \in SIDE /\ Peer(x) # x
  BY DEF Peer, SIDE
<1>2. streams \in [SIDE -> SUBSET SID] /\ recv_closed \in [SIDE -> SUBSET SID]
  BY DEF TypeInv, TypeOK
<1> QED
  BY <1>1, <1>2 DEF SendFrames, CloseApi, Close

LEMMA SendFlows ==
    ASSUME OnePrio, NoEmptyMessage, TypeInv, NEW x \in SIDE, NEW s \in SID, Send(x, s),
           \A z \in SIDE : Users(z) /\ Flow(z)
    PROVE  \A z \in SIDE : Users(z)' /\ Flow(z)'
<1>1. Peer(x) \in SIDE /\ Peer(x) # x /\ Peer(Peer(x)) = x /\ SIDE = {x, Peer(x)}
  BY DEF Peer, SIDE
<1>2. PICK n \in scene.sizes :
        /\ prios' = [prios EXCEPT ![x][PrioOf[s]] =
               Append(@, [sid |-> s, mid |-> Len(outbox[x][s]), size |-> n, cursor |-> 0])]
        /\ outbox' = [outbox EXCEPT ![x][s] = Append(@, n)]
  BY DEF Send
<1>3. /\ n \in Nat /\ n > 0
  BY SceneSizes DEF NoEmptyMessage, TypeInv
<1>4. /\ user[x][s] = "held"
      /\ UNCHANGED <<scene, stream_vars, user, inbox, ended, close_vars, assembly, channel, wire, left_over, error>>
  BY DEF Send
<1>5. /\ outbox' = [outbox EXCEPT ![x] = [outbox[x] EXCEPT ![s] = Append(@, n)]]
      /\ DOMAIN outbox = SIDE /\ outbox[x] \in [SID -> Seq(Nat)]
  BY <1>2, SidesTyped DEF TypeInv, TypeOK
<1>6. /\ outbox'[Peer(x)] = outbox[Peer(x)]
      /\ outbox'[x] = [outbox[x] EXCEPT ![s] = Append(@, n)]
  BY <1>1, <1>5
<1>7. SendsMore(x) /\ SendsMore(Peer(x))
  BY <1>3, <1>4, <1>5, <1>6 DEF SendsMore, Grows
<1>8. Undisturbed(x) /\ Undisturbed(Peer(x))
  BY <1>1, <1>4, Quiet DEF stream_vars
<1>9. In(x)' = In(x) /\ In(Peer(x))' = In(Peer(x))
  BY <1>4 DEF In
<1>10. \A r \in Progress : Sending(Peer(x), r) => Sending(Peer(x), r)'
  <2>1. prios'[Peer(x)] = prios[Peer(x)]
    <3>1. prios \in [SIDE -> [PRIO -> Seq(Message)]]
      BY DEF TypeInv
    <3> QED
      BY <1>1, <1>2, <3>1
  <2> QED
    BY <1>4, <1>6, <2>1 DEF Sending
<1>11. \A r \in Progress : Good(x, outbox[x], user[x], r) /\ Sending(x, r) => Sending(x, r)'
  <2> SUFFICES ASSUME NEW r \in Progress, Good(x, outbox[x], user[x], r), Sending(x, r)
               PROVE  Sending(x, r)'
    OBVIOUS
  <2>1. ASSUME NEW p \in PRIO PROVE Queued(outbox'[x], prios'[x][p], r)
    <3>1. p = PrioOf[s] /\ p \in PRIO
      BY DEF OnePrio, PRIO
    <3>2. PICK q \in Seq(Message) : q = prios[x][p]
      BY DEF TypeInv
    <3>3. PICK e : e = [sid |-> s, mid |-> Len(outbox[x][s]), size |-> n, cursor |-> 0]
      OBVIOUS
    <3>4. prios'[x][p] = Append(q, e)
      <4>1. prios' = [prios EXCEPT ![x] = [prios[x] EXCEPT ![p] = Append(q, e)]]
        BY <1>2, <3>1, <3>2, <3>3
      <4>2. prios \in [SIDE -> [PRIO -> Seq(Message)]]
        BY DEF TypeInv
      <4> QED
        BY <4>1, <4>2
    <3>5. Queued(outbox[x], q, r) /\ r.done[s] <= Len(outbox[x][s])
      BY <3>2 DEF Sending, Good
    <3>6. PICK out \in [SID -> Seq(Nat)], out2 \in [SID -> Seq(Nat)] :
             out = outbox[x] /\ out2 = outbox'[x] /\ out2 = [out EXCEPT ![s] = Append(@, n)]
      <4>1. Append(outbox[x][s], n) \in Seq(Nat)
        BY <1>3, <1>5
      <4> QED
        BY <1>5, <1>6, <4>1
    <3>7. Queued(out2, Append(q, e), r)
      BY <1>3, <3>3, <3>5, <3>6, QueueAppend
    <3> QED
      BY <3>4, <3>6, <3>7
  <2> QED
    BY <1>4, <2>1 DEF Sending
<1>12. Flow(x)' /\ Flow(Peer(x))'
  <2>1. Flow(x)'
    BY <1>1, <1>4, <1>7, <1>8, <1>9, <1>10, StillFlows
  <2>2. Flow(Peer(x))'
    BY <1>1, <1>4, <1>7, <1>8, <1>9, <1>11, StillFlows
  <2> QED
    BY <2>1, <2>2
<1>13. Users(x)' /\ Users(Peer(x))'
  <2>1. \A t \in SID : user[x][t] = "none" => outbox'[x][t] = outbox[x][t]
    BY <1>4, <1>6
  <2>2. Users(x)'
    BY <1>4, <2>1 DEF Users, stream_vars, close_vars
  <2>3. Users(Peer(x))'
    BY <1>1, <1>4, <1>6 DEF Users, stream_vars, close_vars
  <2> QED
    BY <2>2, <2>3
<1> QED
  BY <1>1, <1>12, <1>13

LEMMA DropFlows ==
    ASSUME TypeInv, NEW x \in SIDE, NEW s \in SID, DropStream(x, s),
           \A z \in SIDE : Users(z) /\ Flow(z)
    PROVE  \A z \in SIDE : Users(z)' /\ Flow(z)'
<1>1. Peer(x) \in SIDE /\ Peer(x) # x /\ Peer(Peer(x)) = x /\ SIDE = {x, Peer(x)}
  BY DEF Peer, SIDE
<1>2. /\ user[x][s] = "held" /\ user' = [user EXCEPT ![x] = [user[x] EXCEPT ![s] = "dropped"]]
      /\ UNCHANGED close_rx \/ close_rx' = [close_rx EXCEPT ![x] = Append(@, s)]
      /\ UNCHANGED <<scene, stream_vars, outbox, inbox, ended, prios, closing, assembly,
                     channel, wire, left_over, error>>
  BY DEF DropStream
<1>3. user \in [SIDE -> [SID -> {"none", "held", "dropped"}]] /\ close_rx \in [SIDE -> Seq(SID)]
  BY DEF TypeInv, TypeOK
<1>4. /\ user'[Peer(x)] = user[Peer(x)] /\ user'[x][s] = "dropped"
      /\ \A t \in SID : t # s => user'[x][t] = user[x][t]
  BY <1>1, <1>2, <1>3
<1>5. SendsMore(x) /\ SendsMore(Peer(x))
  BY <1>2, <1>4 DEF SendsMore, Grows
<1>6. Undisturbed(x) /\ Undisturbed(Peer(x))
  BY <1>1, <1>2, <1>4, Quiet DEF stream_vars
<1>7. In(x)' = In(x) /\ In(Peer(x))' = In(Peer(x))
  BY <1>2 DEF In
<1>8. \A z \in SIDE : \A r \in Progress : Sending(z, r) => Sending(z, r)'
  <2>1. \A z \in SIDE : \A t \in SID : user'[z][t] # "none" <=> user[z][t] # "none"
    BY <1>1, <1>2, <1>4
  <2> QED
    BY <1>2, <2>1 DEF Sending
<1>9. Flow(x)' /\ Flow(Peer(x))'
  BY <1>1, <1>2, <1>5, <1>6, <1>7, <1>8, StillFlows
<1>10. Users(x)'
  <2>1. \A i \in DOMAIN close_rx'[x] : user'[x][close_rx'[x][i]] = "dropped"
    <3>1. \A i \in DOMAIN close_rx[x] : close_rx[x][i] \in SID /\ user[x][close_rx[x][i]] = "dropped"
      BY <1>3 DEF Users
    <3>2. \A i \in DOMAIN close_rx'[x] :
             close_rx'[x][i] = s \/ (i \in DOMAIN close_rx[x] /\ close_rx'[x][i] = close_rx[x][i])
      <4>1. CASE close_rx' = close_rx
        BY <4>1
      <4>2. CASE close_rx' = [close_rx EXCEPT ![x] = Append(@, s)]
        <5>1. PICK q \in Seq(SID) : q = close_rx[x]
          BY <1>3
        <5>2. close_rx'[x] = Append(q, s)
          BY <1>3, <4>2, <5>1
        <5>3. \A i \in DOMAIN Append(q, s) : Append(q, s)[i] = s \/ (i \in DOMAIN q /\ Append(q, s)[i] = q[i])
          OBVIOUS
        <5> QED
          BY <5>1, <5>2, <5>3
      <4> QED
        BY <1>2, <4>1, <4>2
    <3> QED
      BY <1>4, <3>1, <3>2
  <2>2. closing'[x] # NoSid => user'[x][closing'[x]] = "dropped"
    <3>1. closing[x] # NoSid => closing[x] \in SID /\ user[x][closing[x]] = "dropped"
      BY DEF Users, TypeInv, TypeOK
    <3> QED
      BY <1>2, <1>4, <3>1
  <2> QED
    BY <1>1, <1>2, <1>4, <2>1, <2>2 DEF Users, stream_vars
<1>11. Users(Peer(x))'
  <2>1. SameStreams(Peer(x))
    <3>1. close_rx'[Peer(x)] = close_rx[Peer(x)]
      BY <1>1, <1>2, <1>3
    <3> QED
      BY <1>1, <1>2, <1>4, <3>1 DEF SameStreams, stream_vars
  <2> QED
    BY <1>1, <1>2, <1>4, <2>1, OtherUsers
<1> QED
  BY <1>1, <1>9, <1>10, <1>11

LEMMA BeginCloseFlows ==
    ASSUME TypeInv, NEW x \in SIDE, BeginClose(x),
           \A z \in SIDE : Users(z) /\ Flow(z)
    PROVE  \A z \in SIDE : Users(z)' /\ Flow(z)'
<1>1. Peer(x) \in SIDE /\ Peer(x) # x /\ Peer(Peer(x)) = x /\ SIDE = {x, Peer(x)}
  BY DEF Peer, SIDE
<1>2. PICK q \in Seq(SID) : q = close_rx[x] /\ q # <<>>
  BY DEF BeginClose, TypeInv
<1>3. PICK s \in SID : s = Head(q)
  BY <1>2
<1>4. /\ closing' = [closing EXCEPT ![x] = s]
      /\ recv_closed' = [recv_closed EXCEPT ![x] = @ \cup ({s} \cap streams[x])]
      /\ close_rx' = [close_rx EXCEPT ![x] = Tail(q)]
      /\ UNCHANGED <<scene, streams, user, outbox, inbox, ended, prios, assembly, channel,
                     wire, left_over, error>>
  BY <1>2, <1>3 DEF BeginClose
<1>5. /\ closing'[x] = s /\ close_rx'[x] = Tail(q) /\ recv_closed'[x] = recv_closed[x] \cup ({s} \cap streams[x])
      /\ closing'[Peer(x)] = closing[Peer(x)] /\ close_rx'[Peer(x)] = close_rx[Peer(x)]
      /\ recv_closed'[Peer(x)] = recv_closed[Peer(x)]
  BY <1>1, <1>4 DEF TypeInv, TypeOK
<1>6. SendsMore(x) /\ SendsMore(Peer(x))
  BY <1>4 DEF SendsMore, Grows
<1>7. Undisturbed(x) /\ Undisturbed(Peer(x))
  BY <1>1, <1>4, <1>5, Quiet
<1>8. In(x)' = In(x) /\ In(Peer(x))' = In(Peer(x))
  BY <1>4 DEF In
<1>9. \A z \in SIDE : \A r \in Progress : Sending(z, r) => Sending(z, r)'
  BY <1>4 DEF Sending
<1>10. Flow(x)' /\ Flow(Peer(x))'
  BY <1>1, <1>4, <1>6, <1>7, <1>8, <1>9, StillFlows
<1>11. Users(x)'
  <2>1. s = q[1] /\ 1 \in DOMAIN q /\ \A i \in DOMAIN Tail(q) : i + 1 \in DOMAIN q /\ Tail(q)[i] = q[i + 1]
    BY <1>2, <1>3
  <2>2. user[x][s] = "dropped" /\ \A i \in DOMAIN Tail(q) : user[x][Tail(q)[i]] = "dropped"
    BY <1>2, <2>1 DEF Users
  <2> QED
    BY <1>4, <1>5, <2>2 DEF Users
<1>12. Users(Peer(x))'
  <2>1. SameStreams(Peer(x))
    BY <1>4, <1>5 DEF SameStreams
  <2> QED
    BY <1>1, <1>4, <2>1, OtherUsers
<1> QED
  BY <1>1, <1>10, <1>11, <1>12

LEMMA EndFlows ==
    ASSUME TypeInv, NEW x \in SIDE, ChannelEnds(x),
           \A z \in SIDE : Users(z) /\ Flow(z)
    PROVE  \A z \in SIDE : Users(z)' /\ Flow(z)'
<1>1. Peer(x) \in SIDE /\ Peer(x) # x /\ Peer(Peer(x)) = x /\ SIDE = {x, Peer(x)}
  BY DEF Peer, SIDE
<1>2. PICK i \in 0 .. Len(wire[x]), j \in 0 .. Len(wire[Peer(x)]) :
          /\ wire' = [wire EXCEPT ![x] = SubSeq(@, 1, i), ![Peer(x)] = <<>>]
          /\ left_over' = [left_over EXCEPT ![x] = SubSeq(wire[Peer(x)], 1, j)]
  BY DEF ChannelEnds
<1>3. /\ x \in channel /\ channel' = channel \ {x}
      /\ streams' = [streams EXCEPT ![x] = streams[x] \ streams[x]]
      /\ recv_closed' = [recv_closed EXCEPT ![x] = @ \cup streams[x]]
      /\ UNCHANGED <<scene, user, outbox, inbox, ended, prios, close_vars, assembly, error>>
  BY DEF ChannelEnds, CloseApi, Close
<1>4. /\ streams'[x] = {} /\ streams'[Peer(x)] = streams[Peer(x)]
      /\ recv_closed'[x] = recv_closed[x] \cup streams[x] /\ recv_closed'[Peer(x)] = recv_closed[Peer(x)]
  BY <1>1, <1>3 DEF TypeInv, TypeOK
<1>5. SendsMore(x) /\ SendsMore(Peer(x))
  BY <1>3 DEF SendsMore, Grows
<1>6. Undisturbed(x) /\ Undisturbed(Peer(x))
  BY <1>1, <1>3, <1>4, Quiet
<1>7. wire \in [SIDE -> Seq(ProperFrame)] /\ left_over \in [SIDE -> Seq(ProperFrame)]
  BY DEF TypeInv
<1>8. channel' # SIDE
  BY <1>3
<1>9. \E n \in 0 .. Len(In(x)) : In(x)' = SubSeq(In(x), 1, n)
  BY <1>2, <1>3, <1>7 DEF In
<1>10. In(Peer(x))' = In(Peer(x)) \/ \E n \in 0 .. Len(In(Peer(x))) : In(Peer(x))' = SubSeq(In(Peer(x)), 1, n)
  <2>1. wire'[x] = SubSeq(wire[x], 1, i) /\ left_over'[Peer(x)] = left_over[Peer(x)]
    BY <1>1, <1>2, <1>7
  <2> QED
    BY <1>1, <1>2, <1>3, <2>1 DEF In
<1>11. Flow(x)' /\ Flow(Peer(x))'
  <2>1. Flow(x)'
    BY <1>1, <1>5, <1>6, <1>8, <1>9, StillFlows
  <2>2. Flow(Peer(x))'
    BY <1>1, <1>5, <1>6, <1>8, <1>10, StillFlows
  <2> QED
    BY <2>1, <2>2
<1>12. Users(x)'
  BY <1>3, <1>4 DEF Users, close_vars
<1>13. Users(Peer(x))'
  <2>1. SameStreams(Peer(x))
    BY <1>3, <1>4 DEF SameStreams, close_vars
  <2> QED
    BY <1>1, <1>3, <2>1, OtherUsers
<1> QED
  BY <1>1, <1>11, <1>12, <1>13
-----------------------------------------------------------------------------
(* Steps that send frames.                                                 *)
LEMMA FrameFlows ==
    ASSUME TypeInv, NEW x \in SIDE, UNCHANGED outbox, SendsMore(x),
           NEW r0 \in Progress, NEW r \in Progress, Pipe(Peer(x), r0, r),
           NEW f \in ProperFrame, Fits(x, outbox[x], user'[x], r, f)
    PROVE  Brings(x, outbox'[x], user'[x], In(Peer(x)) \o <<f>>, r0, After(outbox[x], r, f))
<1>1. PICK w \in Seq(ProperFrame), out \in [SID -> Seq(Nat)], us \in {user[x]}, us2 \in {user'[x]} :
         w = In(Peer(x)) /\ out = outbox[x] /\ us = user[x] /\ us2 = user'[x]
  BY SidesTyped
<1>2. Peer(Peer(x)) = x
  BY DEF Peer, SIDE
<1>3. Brings(x, out, us, w, r0, r) /\ Grows(out, us, out, us2)
  BY <1>1, <1>2 DEF Pipe, SendsMore
<1>4. Brings(x, out, us2, w, r0, r)
  BY <1>3, BringsGrows
<1>5. Fits(x, out, us2, r, f)
  BY <1>1
<1>6. Brings(x, out, us2, Append(w, f), r0, After(out, r, f))
  BY <1>4, <1>5, BringsFrame
<1>7. w \o <<f>> = Append(w, f)
  OBVIOUS
<1> QED
  BY <1>1, <1>6, <1>7

LEMMA PipeEnd ==
    ASSUME TypeInv, NEW x \in SIDE, NEW r0, NEW r, Pipe(Peer(x), r0, r), channel = SIDE
    PROVE  Good(x, outbox[x], user[x], r) /\ Sending(x, r)
<1>1. Peer(x) \in SIDE /\ Peer(Peer(x)) = x
  BY DEF Peer, SIDE
<1>2. In(Peer(x)) \in Seq(ProperFrame)
  BY <1>1, SidesTyped
<1> QED
  BY <1>1, <1>2, BringsGood DEF Pipe

LEMMA FinishCloseFlows ==
    ASSUME TypeInv, NEW x \in SIDE, FinishClose(x),
           \A z \in SIDE : Users(z) /\ Flow(z)
    PROVE  \A z \in SIDE : Users(z)' /\ Flow(z)'
<1>1. Peer(x) \in SIDE /\ Peer(x) # x /\ Peer(Peer(x)) = x /\ SIDE = {x, Peer(x)}
  BY DEF Peer, SIDE
<1>2. PICK s \in SID : s = closing[x] /\ s # NoSid /\ Flushed(x, s)
  BY DEF FinishClose, TypeInv, TypeOK
<1>3. /\ closing' = [closing EXCEPT ![x] = NoSid]
      /\ SendFrames(x, <<CloseStream(s)>>, streams[x] \ {s})
      /\ UNCHANGED <<scene, user, outbox, inbox, ended, prios, close_rx, assembly, channel, left_over>>
  BY <1>2 DEF FinishClose
<1>4. PICK f \in ProperFrame : f = CloseStream(s)
  BY ControlFrames
<1>5. <<f>> \in Seq(ProperFrame) /\ SendFrames(x, <<f>>, streams[x] \ {s})
  BY <1>3, <1>4
<1>6. /\ streams'[Peer(x)] = streams[Peer(x)] /\ recv_closed'[Peer(x)] = recv_closed[Peer(x)]
      /\ IF x \in channel THEN streams'[x] = streams[x] \ {s} /\ recv_closed'[x] = recv_closed[x]
         ELSE streams'[x] = {} /\ recv_closed'[x] = recv_closed[x] \cup (streams[x] \ {s})
  BY <1>5, SentClosed
<1>7. /\ In(x)' = In(x)
      /\ channel = SIDE => In(Peer(x))' = In(Peer(x)) \o <<f>>
      /\ channel # SIDE => In(Peer(x))' = In(Peer(x))
  BY <1>3, <1>5, SentIn
<1>8. SendsMore(x) /\ SendsMore(Peer(x))
  BY <1>3 DEF SendsMore, Grows
<1>9. Undisturbed(x) /\ Undisturbed(Peer(x))
  BY <1>1, <1>3, <1>6, Quiet
<1>10. \A z \in SIDE : \A r \in Progress : Sending(z, r) => Sending(z, r)'
  BY <1>3 DEF Sending
<1>11. user[x][s] = "dropped"
  BY <1>2 DEF Users
<1>12. Flow(x)'
  BY <1>1, <1>3, <1>7, <1>8, <1>9, <1>10, StillFlows
<1>13. Flow(Peer(x))'
  <2>1. CASE channel # SIDE
    BY <1>1, <1>3, <1>7, <1>8, <1>9, <2>1, StillFlows
  <2>2. CASE channel = SIDE
    <3>1. PICK r0 \in Progress, r \in Progress : Pipe(Peer(x), r0, r)
      BY <1>1 DEF Flow
    <3>2. Good(x, outbox[x], user[x], r) /\ Sending(x, r)
      BY <2>2, <3>1, PipeEnd
    <3>3. r.done[s] = Len(outbox[x][s])
      <4>1. PICK p \in PRIO : p = PrioOf[s]
        BY DEF PRIO
      <4>2. Queued(outbox[x], prios[x][p], r) /\ \A i \in DOMAIN prios[x][p] : prios[x][p][i].sid # s
        BY <1>2, <3>2, <4>1 DEF Sending, Flushed
      <4>3. r.done[s] \in Nat /\ r.done[s] <= Len(outbox[x][s]) /\ Len(outbox[x][s]) \in Nat
        <5>1. outbox[x][s] \in Seq(Nat)
          BY SidesTyped
        <5> QED
          BY <3>1, <3>2, <5>1 DEF Good, Progress
      <4>4. PICK d \in Nat : d = r.done[s]
        BY <4>3
      <4>5. ~ (r.done[s] <= d /\ d < Len(outbox[x][s]))
        BY <4>2 DEF Queued
      <4> QED
        BY <4>3, <4>4, <4>5
    <3>4. Fits(x, outbox[x], user'[x], r, f) /\ After(outbox[x], r, f) = r
      BY <1>3, <1>4, <1>11, <3>3 DEF Fits, After, CloseStream
    <3>5. Brings(x, outbox'[x], user'[x], In(Peer(x)) \o <<f>>, r0, r)
      BY <1>3, <1>8, <3>1, <3>4, FrameFlows
    <3>6. Sending(x, r)'
      BY <1>10, <3>2
    <3>7. Brings(x, outbox'[x], user'[x], In(Peer(x))', r0, r)
      BY <1>7, <2>2, <3>5
    <3> QED
      BY <1>1, <1>8, <1>9, <3>1, <3>6, <3>7, MoreFlows
  <2> QED
    BY <2>1, <2>2
<1>14. Users(x)'
  <2>1. closing'[x] = NoSid
    BY <1>3 DEF TypeInv, TypeOK
  <2> QED
    BY <1>3, <1>6, <1>11, <2>1 DEF Users
<1>15. Users(Peer(x))'
  <2>1. SameStreams(Peer(x))
    BY <1>1, <1>3, <1>6 DEF SameStreams
  <2> QED
    BY <1>1, <1>3, <2>1, OtherUsers
<1> QED
  BY <1>1, <1>12, <1>13, <1>14, <1>15

LEMMA OpenFlows ==
    ASSUME TypeInv, NEW x \in SIDE, NEW s \in SID, Open(x, s),
           \A z \in SIDE : Users(z) /\ Flow(z)
    PROVE  \A z \in SIDE : Users(z)' /\ Flow(z)'
<1>1. Peer(x) \in SIDE /\ Peer(x) # x /\ Peer(Peer(x)) = x /\ SIDE = {x, Peer(x)}
  BY DEF Peer, SIDE
<1>2. /\ Opener[s] = x /\ user[x][s] = "none"
      /\ SendFrames(x, <<OpenStream(s)>>, streams[x] \cup {s})
      /\ user' = IF x \in channel THEN [user EXCEPT ![x] = [user[x] EXCEPT ![s] = "held"]] ELSE user
      /\ UNCHANGED <<scene, outbox, inbox, ended, prios, close_vars, assembly, channel, left_over>>
  BY DEF Open
<1>3. PICK f \in ProperFrame : f = OpenStream(s)
  BY ControlFrames
<1>4. <<f>> \in Seq(ProperFrame) /\ SendFrames(x, <<f>>, streams[x] \cup {s})
  BY <1>2, <1>3
<1>5. /\ streams'[Peer(x)] = streams[Peer(x)] /\ recv_closed'[Peer(x)] = recv_closed[Peer(x)]
      /\ IF x \in channel THEN streams'[x] = streams[x] \cup {s} /\ recv_closed'[x] = recv_closed[x]
         ELSE streams'[x] = {} /\ recv_closed'[x] = recv_closed[x] \cup (streams[x] \cup {s})
  BY <1>4, SentClosed
<1>6. /\ In(x)' = In(x)
      /\ channel = SIDE => In(Peer(x))' = In(Peer(x)) \o <<f>>
      /\ channel # SIDE => In(Peer(x))' = In(Peer(x))
  BY <1>2, <1>4, SentIn
<1>7. /\ user'[Peer(x)] = user[Peer(x)] /\ \A t \in SID : t # s => user'[x][t] = user[x][t]
      /\ user'[x][s] = IF x \in channel THEN "held" ELSE "none"
  <2>1. user \in [SIDE -> [SID -> {"none", "held", "dropped"}]]
    BY DEF TypeInv, TypeOK
  <2> QED
    BY <1>1, <1>2, <2>1
<1>8. outbox[x][s] = <<>> /\ inbox[x][s] = <<>> /\ outbox[Peer(x)][s] = <<>>
  BY <1>1, <1>2 DEF Users
<1>9. SendsMore(x) /\ SendsMore(Peer(x))
  BY <1>2, <1>7 DEF SendsMore, Grows
<1>10. Undisturbed(Peer(x))
  BY <1>1, <1>2, <1>5, <1>7, Quiet
<1>11. Undisturbed(x)
  <2>1. \A t \in SID : t # s /\ Listening(x, t)' => Listening(x, t)
    BY <1>5, <1>7 DEF Listening
  <2> QED
    BY <1>2, <1>7, <1>8, <2>1 DEF Undisturbed
<1>12. \A r \in Progress : Sending(Peer(x), r) => Sending(Peer(x), r)'
  BY <1>2, <1>7 DEF Sending
<1>13. Flow(x)'
  BY <1>1, <1>2, <1>6, <1>9, <1>11, <1>12, StillFlows
<1>14. Flow(Peer(x))'
  <2>1. CASE channel # SIDE
    BY <1>1, <1>2, <1>6, <1>9, <1>10, <2>1, StillFlows
  <2>2. CASE channel = SIDE
    <3>1. PICK r0 \in Progress, r \in Progress : Pipe(Peer(x), r0, r)
      BY <1>1 DEF Flow
    <3>2. Good(x, outbox[x], user[x], r) /\ Sending(x, r)
      BY <2>2, <3>1, PipeEnd
    <3>3. s \notin r.opened /\ user'[x][s] = "held"
      BY <1>2, <1>7, <2>2, <3>2 DEF Sending
    <3>4. PICK r2 \in Progress : r2 = [r EXCEPT !.opened = @ \cup {s}]
      BY <3>1 DEF Progress
    <3>5. Fits(x, outbox[x], user'[x], r, f) /\ After(outbox[x], r, f) = r2
      BY <1>2, <1>3, <3>3, <3>4 DEF Fits, After, OpenStream
    <3>6. Brings(x, outbox'[x], user'[x], In(Peer(x)) \o <<f>>, r0, r2)
      BY <1>2, <1>9, <3>1, <3>5, FrameFlows
    <3>7. Sending(x, r2)'
      <4>1. r2.opened = r.opened \cup {s} /\ r2.done = r.done /\ r2.sid = r.sid /\ r2.parts = r.parts
        BY <3>1, <3>4 DEF Progress
      <4>2. \A p \in PRIO : Queued(outbox[x], prios[x][p], r2)
        BY <3>2, <4>1 DEF Sending, Queued
      <4>3. \A t \in SID : Opener[t] = x => (t \in r2.opened <=> user'[x][t] # "none")
        BY <1>7, <3>2, <3>3, <4>1 DEF Sending
      <4> QED
        BY <1>2, <4>2, <4>3 DEF Sending
    <3>8. Brings(x, outbox'[x], user'[x], In(Peer(x))', r0, r2)
      BY <1>6, <2>2, <3>6
    <3> QED
      BY <1>1, <1>9, <1>10, <3>1, <3>4, <3>7, <3>8, MoreFlows
  <2> QED
    BY <2>1, <2>2
<1>15. Users(x)'
  <2>1. CASE x \in channel
    <3>1. s \notin recv_closed[x] /\ s \notin ended[x]
      BY <1>2, <2>1 DEF Users
    <3>2. \A i \in DOMAIN close_rx[x] : close_rx[x][i] \in SID /\ close_rx[x][i] # s
      BY <1>2 DEF Users, TypeInv
    <3>3. closing[x] # NoSid => closing[x] \in SID /\ closing[x] # s
      BY <1>2 DEF Users, TypeInv, TypeOK
    <3>4. user'[x][s] = "held" /\ s \in streams'[x] /\ s \notin recv_closed'[x]
      BY <1>5, <1>7, <2>1, <3>1
    <3> QED
      BY <1>2, <1>5, <1>7, <2>1, <3>1, <3>2, <3>3, <3>4 DEF Users, close_vars
  <2>2. CASE x \notin channel
    BY <1>2, <1>5, <1>7, <2>2 DEF Users, close_vars
  <2> QED
    BY <2>1, <2>2
<1>16. Users(Peer(x))'
  <2>1. SameStreams(Peer(x))
    BY <1>1, <1>2, <1>5, <1>7 DEF SameStreams, close_vars
  <2> QED
    BY <1>1, <1>2, <1>7, <2>1, OtherUsers
<1> QED
  BY <1>1, <1>13, <1>14, <1>15, <1>16

(* What a data frame leaves of a queue that begins with m.                 *)
Remaining(q, m) == IF Finished(m) THEN Tail(q) ELSE [q EXCEPT ![1].cursor = m.cursor + 1]

(* m was begun, and besides one has got as far as r.                       *)
Begun(r, m, r1) == r1.sid = m.sid /\ r1.parts = m.cursor /\ r1.done = r.done /\ r1.opened = r.opened

LEMMA DataSent ==
    ASSUME NEW out \in [SID -> Seq(Nat)], NEW q \in Seq(Message), q # <<>>,
           NEW r \in Progress, Queued(out, q, r),
           NEW m \in Message, m = q[1],
           NEW r1 \in Progress, Begun(r, m, r1), After(out, r1, Data(m)) \in Progress
    PROVE  /\ Queued(out, Remaining(q, m), After(out, r1, Data(m)))
           /\ After(out, r1, Data(m)).opened = r.opened
<1>0. PICK r2 \in Progress : r2 = After(out, r1, Data(m))
  OBVIOUS
<1>1. /\ m.sid \in SID /\ m.mid \in Nat /\ m.size \in Nat /\ m.cursor \in Nat
      /\ m.mid = r.done[m.sid] /\ m.size = out[m.sid][m.mid + 1] /\ m.cursor < m.size
  BY QueueHead DEF Message
<1>2. /\ Data(m).type = "Data" /\ Data(m).mid = m.mid
      /\ Data(m).data = [sid |-> m.sid, mid |-> m.mid, part |-> m.cursor + 1]
  BY DEF Data
<1>3. CASE Finished(m)
  <2>1. m.cursor + 1 = m.size
    BY <1>1, <1>3 DEF Finished
  <2>2. r2 = [r1 EXCEPT !.sid = NoSid, !.parts = 0, !.done[m.sid] = @ + 1]
    BY <1>0, <1>1, <1>2, <2>1 DEF After, Begun
  <2>3. /\ r2.sid = NoSid /\ r2.opened = r.opened /\ r2.done[m.sid] = r.done[m.sid] + 1
        /\ \A t \in SID : t # m.sid => r2.done[t] = r.done[t]
    BY <1>0, <1>1, <2>2 DEF Progress, Begun
  <2>4. Queued(out, Tail(q), r2)
    BY <1>0, <1>1, <2>3, QueueTail
  <2> QED
    BY <1>0, <1>3, <2>3, <2>4 DEF Remaining
<1>4. CASE ~ Finished(m)
  <2>1. m.cursor + 1 < m.size /\ m.cursor + 1 # m.size
    BY <1>1, <1>4 DEF Finished
  <2>2. r2 = [r1 EXCEPT !.parts = @ + 1]
    BY <1>0, <1>1, <1>2, <2>1 DEF After, Begun
  <2>3. r2.sid = m.sid /\ r2.parts = m.cursor + 1 /\ r2.done = r.done /\ r2.opened = r.opened
    BY <1>0, <1>1, <2>2 DEF Progress, Begun
  <2>4. Queued(out, [q EXCEPT ![1].cursor = q[1].cursor + 1], r2)
    BY <1>0, <2>1, <2>3, QueueCursor
  <2> QED
    BY <1>0, <1>4, <2>3, <2>4 DEF Remaining
<1> QED
  BY <1>3, <1>4

LEMMA SendNextFlows ==
    ASSUME OnePrio, TypeInv, NEW x \in SIDE, NEW p \in PRIO, SendNextFrame(x, p),
           \A z \in SIDE : Users(z) /\ Flow(z)
    PROVE  \A z \in SIDE : Users(z)' /\ Flow(z)'
<1>1. Peer(x) \in SIDE /\ Peer(x) # x /\ Peer(Peer(x)) = x /\ SIDE = {x, Peer(x)}
  BY DEF Peer, SIDE
<1>2. PICK q \in Seq(Message) : q = prios[x][p] /\ q # <<>>
  BY DEF SendNextFrame, TypeInv
<1>3. PICK m \in Message : m = Head(q) /\ m = q[1]
  BY <1>2
<1>4. PICK fs : fs = IF m.size = 0 THEN <<>>
                     ELSE IF m.cursor = 0 THEN <<DataHeader(m), Data(m)>> ELSE <<Data(m)>>
  OBVIOUS
<1>5. /\ prios' = [prios EXCEPT ![x][p] = IF Finished(m) THEN Tail(@) ELSE [@ EXCEPT ![1].cursor = m.cursor + 1]]
      /\ IF fs = <<>> THEN UNCHANGED <<stream_vars, wire, error>> ELSE SendFrames(x, fs, streams[x])
      /\ UNCHANGED <<scene, user, outbox, inbox, ended, close_vars, assembly, channel, left_over>>
  BY <1>2, <1>3, <1>4 DEF SendNextFrame
<1>6. fs \in Seq(ProperFrame)
  BY <1>4, DataFrames
<1>7. /\ streams'[Peer(x)] = streams[Peer(x)] /\ recv_closed'[Peer(x)] = recv_closed[Peer(x)]
      /\ \/ streams'[x] = streams[x] /\ recv_closed'[x] = recv_closed[x]
         \/ streams'[x] = {} /\ recv_closed'[x] = recv_closed[x] \cup streams[x]
  <2>1. CASE fs = <<>>
    BY <1>5, <2>1 DEF stream_vars
  <2>2. CASE SendFrames(x, fs, streams[x])
    BY <2>2, SentClosed
  <2> QED
    BY <1>5, <2>1, <2>2
<1>8. /\ In(x)' = In(x)
      /\ channel = SIDE => In(Peer(x))' = In(Peer(x)) \o fs
      /\ channel # SIDE => In(Peer(x))' = In(Peer(x))
  <2>1. CASE fs = <<>>
    <3>1. In(x)' = In(x) /\ In(Peer(x))' = In(Peer(x))
      BY <1>5, <2>1 DEF In
    <3>2. In(Peer(x)) \in Seq(ProperFrame)
      BY <1>1, SidesTyped
    <3> QED
      BY <2>1, <3>1, <3>2
  <2>2. CASE SendFrames(x, fs, streams[x])
    BY <1>5, <1>6, <2>2, SentIn
  <2> QED
    BY <1>5, <2>1, <2>2
<1>9. SendsMore(x) /\ SendsMore(Peer(x))
  BY <1>5 DEF SendsMore, Grows
<1>10. Undisturbed(x) /\ Undisturbed(Peer(x))
  BY <1>1, <1>5, <1>7, Quiet
<1>11. prios'[Peer(x)] = prios[Peer(x)]
       /\ prios'[x][p] = IF Finished(m) THEN Tail(q) ELSE [q EXCEPT ![1].cursor = m.cursor + 1]
  BY <1>1, <1>2, <1>5 DEF TypeInv
<1>12. \A r \in Progress : Sending(Peer(x), r) => Sending(Peer(x), r)'
  BY <1>5, <1>11 DEF Sending
<1>13. Flow(x)'
  BY <1>1, <1>5, <1>8, <1>9, <1>10, <1>12, StillFlows
<1>14. Flow(Peer(x))'
  <2>1. CASE channel # SIDE
    BY <1>1, <1>5, <1>8, <1>9, <1>10, <2>1, StillFlows
  <2>2. CASE channel = SIDE
    <3>1. PICK r0 \in Progress, r \in Progress : Pipe(Peer(x), r0, r)
      BY <1>1 DEF Flow
    <3>2. Good(x, outbox[x], user[x], r) /\ Sending(x, r)
      BY <2>2, <3>1, PipeEnd
    <3>3. PICK out \in [SID -> Seq(Nat)], us \in {user[x]} : out = outbox[x] /\ us = user[x]
      BY SidesTyped
    <3>4. Queued(out, q, r) /\ Good(x, out, us, r)
      BY <1>2, <3>2, <3>3 DEF Sending
    <3>5. /\ m.mid = r.done[m.sid] /\ m.mid < Len(out[m.sid]) /\ m.size = out[m.sid][m.mid + 1]
          /\ m.cursor < m.size /\ m.sid \in SID /\ m.mid \in Nat /\ m.cursor \in Nat /\ m.size \in Nat
          /\ m.cursor > 0 => r.sid = m.sid /\ r.parts = m.cursor
          /\ m.cursor = 0 => r.sid = NoSid
      <4>1. /\ q[1] \in Message /\ q[1].mid = r.done[q[1].sid]
            /\ q[1].mid < Len(out[q[1].sid]) /\ q[1].size = out[q[1].sid][q[1].mid + 1]
            /\ q[1].cursor < q[1].size
            /\ q[1].cursor > 0 => r.sid = q[1].sid /\ r.parts = q[1].cursor
            /\ q[1].cursor = 0 => r.sid = NoSid
        BY <1>2, <3>1, <3>3, <3>4, QueueHead
      <4> QED
        BY <1>3, <4>1 DEF Message
    <3>6. DataHeader(m) \in ProperFrame /\ Data(m) \in ProperFrame
      BY <3>5, DataFrames
    <3>7. PICK r1 \in Progress :
             /\ r1.sid = m.sid /\ r1.parts = m.cursor /\ r1.done = r.done /\ r1.opened = r.opened
             /\ IF m.cursor = 0 THEN r1 = After(out, r, DataHeader(m)) ELSE r1 = r
      <4>1. CASE m.cursor = 0
        <5>1. After(out, r, DataHeader(m)) = [r EXCEPT !.sid = m.sid, !.parts = 0]
          BY DEF After, DataHeader
        <5> QED
          BY <3>5, <4>1, <5>1 DEF Progress
      <4>2. CASE m.cursor # 0
        BY <3>5, <4>2
      <4> QED
        BY <4>1, <4>2
    <3>8. m.cursor = 0 => Fits(x, out, us, r, DataHeader(m))
      <4>1. Opener[m.sid] = x => m.sid \in r.opened
        <5>1. out[m.sid] # <<>>
          BY <3>5
        <5>2. user[x][m.sid] # "none"
          BY <3>3, <3>5, <5>1 DEF Users
        <5> QED
          BY <3>2, <3>5, <5>2 DEF Sending
      <4> QED
        BY <3>5, <4>1 DEF Fits, DataHeader
    <3>9. PICK w \in Seq(ProperFrame), h \in Seq(ProperFrame) :
             /\ w = In(Peer(x)) /\ h = IF m.cursor = 0 THEN Append(w, DataHeader(m)) ELSE w
             /\ Brings(x, out, us, h, r0, r1)
      <4>1. PICK w \in Seq(ProperFrame) : w = In(Peer(x))
        BY <1>1, SidesTyped
      <4>2. Brings(x, out, us, w, r0, r)
        BY <1>1, <3>1, <3>3, <4>1 DEF Pipe
      <4>3. CASE m.cursor = 0
        <5>1. Brings(x, out, us, Append(w, DataHeader(m)), r0, After(out, r, DataHeader(m)))
          BY <3>6, <3>8, <4>2, <4>3, BringsFrame
        <5>2. Append(w, DataHeader(m)) \in Seq(ProperFrame)
          BY <3>6
        <5> QED
          BY <3>7, <4>1, <4>3, <5>1, <5>2
      <4>4. CASE m.cursor # 0
        BY <3>7, <4>1, <4>2, <4>4
      <4> QED
        BY <4>3, <4>4
    <3>10. PICK r2 : r2 = After(out, r1, Data(m))
      OBVIOUS
    <3>11. Good(x, out, us, r1)
      BY <3>9, BringsGood
    <3>12. Fits(x, out, us, r1, Data(m))
      BY <3>5, <3>7 DEF Fits, Data
    <3>13. r2 \in Progress
      BY <3>6, <3>10, <3>11, <3>12, FitsGood
    <3>14. Brings(x, out, us, Append(h, Data(m)), r0, r2)
      BY <3>6, <3>9, <3>10, <3>12, BringsFrame
    <3>15. In(Peer(x))' = Append(h, Data(m))
      <4>1. w \o <<DataHeader(m), Data(m)>> = Append(Append(w, DataHeader(m)), Data(m))
            /\ w \o <<Data(m)>> = Append(w, Data(m))
        BY <3>6, <3>9
      <4>2. m.size # 0
        BY <3>5
      <4> QED
        BY <1>4, <1>8, <2>2, <3>9, <4>1, <4>2
    <3>16. Queued(out, prios'[x][p], r2) /\ r2.opened = r.opened
      <4>1. prios'[x][p] = Remaining(q, m)
        BY <1>11 DEF Remaining
      <4>2. Begun(r, m, r1) /\ After(out, r1, Data(m)) \in Progress
        BY <3>7, <3>10, <3>13 DEF Begun
      <4>3. /\ q # <<>> /\ Queued(out, q, r) /\ m = q[1] /\ Begun(r, m, r1)
            /\ After(out, r1, Data(m)) \in Progress
            /\ out \in [SID -> Seq(Nat)] /\ q \in Seq(Message) /\ r \in Progress /\ m \in Message /\ r1 \in Progress
        BY <1>2, <1>3, <3>1, <3>3, <3>4, <3>7, <4>2
      <4>4. /\ Queued(out, Remaining(q, m), After(out, r1, Data(m)))
            /\ After(out, r1, Data(m)).opened = r.opened
        BY <4>3, DataSent
      <4> QED
        BY <3>10, <4>1, <4>4
    <3>17. Sending(x, r2)'
      <4>1. \A p2 \in PRIO : p2 = p
        BY DEF PRIO, OnePrio
      <4>2. \A t \in SID : Opener[t] = x => (t \in r2.opened <=> user'[x][t] # "none")
        BY <1>5, <3>2, <3>16 DEF Sending
      <4> QED
        BY <1>5, <3>3, <3>16, <4>1, <4>2 DEF Sending
    <3>18. Brings(x, outbox'[x], user'[x], In(Peer(x))', r0, r2)
      BY <1>5, <3>3, <3>14, <3>15
    <3> QED
      BY <1>1, <1>9, <1>10, <3>1, <3>13, <3>17, <3>18, MoreFlows
  <2> QED
    BY <2>1, <2>2
<1>15. Users(x)' /\ Users(Peer(x))'
  <2>1. Users(x)'
    BY <1>5, <1>7 DEF Users, close_vars
  <2>2. SameStreams(Peer(x))
    BY <1>5, <1>7 DEF SameStreams, close_vars
  <2> QED
    BY <1>1, <1>5, <2>1, <2>2, OtherUsers
<1> QED
  BY <1>1, <1>13, <1>14, <1>15
-----------------------------------------------------------------------------
(* A side handles the next frame.  Each of its Streams stays as it is,     *)
(* receives the next message of its peer, or ends when it has them all.    *)
Received(y) ==
    \A s \in SID :
        \/ inbox'[y][s] = inbox[y][s] /\ (s \in ended'[y] <=> s \in ended[y])
        \/ /\ s \notin ended[y] /\ s \notin ended'[y]
           /\ Len(inbox[y][s]) < Len(outbox[Peer(y)][s])
           /\ inbox'[y][s] = Append(inbox[y][s],
                  Whole(s, Len(inbox[y][s]), outbox[Peer(y)][s][Len(inbox[y][s]) + 1]))
        \/ /\ s \notin ended[y] /\ s \in ended'[y] /\ inbox'[y][s] = inbox[y][s]
           /\ Len(inbox[y][s]) = Len(outbox[Peer(y)][s])

(* Nobody else is touched, and y's user only gets what x opened.           *)
OnlyAt(y) ==
    /\ SameStreams(Peer(y)) /\ assembly'[Peer(y)] = assembly[Peer(y)]
    /\ \A s \in SID : \/ user'[y][s] = user[y][s]
                      \/ /\ user[y][s] = "none" /\ user'[y][s] # "none"
                         /\ Opener[s] = Peer(y) /\ user[Peer(y)][s] # "none"

Handled(y, r) == OnlyAt(y) /\ Received(y) /\ Users(y)' /\ Reached(y, r)'

LEMMA OpenHandled ==
    ASSUME TypeInv, NEW y \in SIDE, NEW f \in Frame, f.type = "OpenStream", HandleOpenStream(y, f.sid),
           UNCHANGED <<outbox, closing, channel>>, Users(y),
           NEW r, Reached(y, r), Good(Peer(y), outbox[Peer(y)], user[Peer(y)], r),
           Fits(Peer(y), outbox[Peer(y)], user[Peer(y)], r, f)
    PROVE  Handled(y, After(outbox[Peer(y)], r, f))
<1>1. Peer(y) \in SIDE /\ Peer(y) # y
  BY DEF Peer, SIDE
<1>2. PICK s \in SID : s = f.sid
  BY FrameFields
<1>3. Opener[s] = Peer(y) /\ s \notin r.opened /\ user[Peer(y)][s] # "none"
  BY <1>2 DEF Fits
<1>4. user[y][s] = "none" /\ inbox[y][s] = <<>> /\ s \notin streams[y] /\ (y \in channel => s \notin recv_closed[y])
  BY <1>1, <1>3 DEF Reached, Users
<1>5. PICK how \in {"held", "dropped"} :
        /\ how = IF y \in channel THEN "held" ELSE "dropped"
        /\ user' = [user EXCEPT ![y] = [user[y] EXCEPT ![s] = how]]
        /\ streams' = [streams EXCEPT ![y] = @ \cup {s}]
        /\ IF y \in channel THEN UNCHANGED close_rx ELSE close_rx' = [close_rx EXCEPT ![y] = Append(@, s)]
        /\ UNCHANGED <<send_closed, recv_closed, inbox, ended, assembly>>
  BY <1>2 DEF HandleOpenStream
<1>6. /\ user'[Peer(y)] = user[Peer(y)] /\ user'[y][s] = how
      /\ \A t \in SID : t # s => user'[y][t] = user[y][t]
  <2>1. user \in [SIDE -> [SID -> {"none", "held", "dropped"}]]
    BY DEF TypeInv, TypeOK
  <2> QED
    BY <1>1, <1>5, <2>1
<1>7. streams'[y] = streams[y] \cup {s} /\ streams'[Peer(y)] = streams[Peer(y)]
  BY <1>1, <1>5 DEF TypeInv, TypeOK
<1>8. OnlyAt(y)
  <2>1. close_rx'[Peer(y)] = close_rx[Peer(y)]
    <3>1. close_rx \in [SIDE -> Seq(SID)]
      BY DEF TypeInv
    <3>2. close_rx' = close_rx \/ close_rx' = [close_rx EXCEPT ![y] = Append(@, s)]
      BY <1>5
    <3> QED
      BY <1>1, <3>1, <3>2
  <2> QED
    BY <1>1, <1>3, <1>4, <1>5, <1>6, <1>7, <2>1 DEF OnlyAt, SameStreams
<1>9. Received(y)
  BY <1>5 DEF Received
<1>10. Users(y)'
  <2>1. \A i \in DOMAIN close_rx'[y] : user'[y][close_rx'[y][i]] = "dropped"
    <3>1. PICK q \in Seq(SID) : q = close_rx[y]
      BY DEF TypeInv
    <3>2. \A i \in DOMAIN q : q[i] \in SID /\ user'[y][q[i]] = "dropped"
      <4>1. \A i \in DOMAIN q : q[i] \in SID /\ user[y][q[i]] = "dropped"
        BY <3>1 DEF Users
      <4> QED
        BY <1>4, <1>6, <4>1
    <3>3. CASE y \in channel
      BY <1>5, <3>1, <3>2, <3>3
    <3>4. CASE y \notin channel
      <4>1. close_rx'[y] = Append(q, s) /\ user'[y][s] = "dropped"
        BY <1>5, <1>6, <3>1, <3>4 DEF TypeInv
      <4>2. \A i \in DOMAIN Append(q, s) : Append(q, s)[i] = s \/ (i \in DOMAIN q /\ Append(q, s)[i] = q[i])
        OBVIOUS
      <4> QED
        BY <3>2, <4>1, <4>2
    <3> QED
      BY <3>3, <3>4
  <2>2. closing[y] # NoSid => user'[y][closing[y]] = "dropped"
    <3>1. closing[y] # NoSid => closing[y] \in SID /\ user[y][closing[y]] = "dropped"
      BY DEF Users, TypeInv, TypeOK
    <3> QED
      BY <1>4, <1>6, <3>1
  <2>3. user'[y][s] = "held" => s \in streams'[y] /\ s \notin recv_closed[y]
    BY <1>4, <1>5, <1>6, <1>7
  <2> QED
    BY <1>1, <1>3, <1>4, <1>5, <1>6, <1>7, <2>1, <2>2, <2>3 DEF Users
<1>11. PICK r1 : r1 = After(outbox[Peer(y)], r, f)
  OBVIOUS
<1>12. r1.opened = r.opened \cup {s} /\ r1.done = r.done /\ r1.sid = r.sid /\ r1.parts = r.parts
  <2>1. r1 = [r EXCEPT !.opened = @ \cup {s}] /\ r \in Progress
    BY <1>2, <1>11 DEF After, Good
  <2> QED
    BY <2>1 DEF Progress
<1>13. Reached(y, r1)'
  <2>1. \A t \in SID : Listening(y, t)' => Len(inbox'[y][t]) = r1.done[t]
    <3>1. \A t \in SID : t # s /\ Listening(y, t)' => Listening(y, t)
      BY <1>5, <1>6 DEF Listening
    <3>2. r.done[s] = 0
      BY <1>3 DEF Good
    <3>3. Len(inbox'[y][s]) = 0
      BY <1>4, <1>5
    <3> QED
      BY <1>5, <1>12, <3>1, <3>2, <3>3 DEF Reached
  <2>2. \A t \in SID : Opener[t] # y => (t \in r1.opened <=> user'[y][t] # "none")
    BY <1>5, <1>6, <1>12 DEF Reached
  <2>3. /\ DOMAIN assembly'[y] = IF r1.sid = NoSid THEN {} ELSE {r1.done[r1.sid]}
        /\ \A m \in DOMAIN assembly'[y] :
              assembly'[y][m] = [sid |-> r1.sid, length |-> outbox'[Peer(y)][r1.sid][m + 1],
                                 data |-> Whole(r1.sid, m, r1.parts)]
    BY <1>5, <1>12 DEF Reached
  <2> QED
    BY <2>1, <2>2, <2>3 DEF Reached
<1> QED
  BY <1>8, <1>9, <1>10, <1>11, <1>13 DEF Handled

LEMMA CloseHandled ==
    ASSUME TypeInv, NEW y \in SIDE, NEW f \in Frame, f.type = "CloseStream", HandleCloseStream(y, f.sid),
           UNCHANGED <<outbox, closing, channel>>, Users(y),
           NEW r, Reached(y, r), Fits(Peer(y), outbox[Peer(y)], user[Peer(y)], r, f)
    PROVE  Handled(y, After(outbox[Peer(y)], r, f))
<1>1. Peer(y) \in SIDE /\ Peer(y) # y
  BY DEF Peer, SIDE
<1>2. PICK s \in SID : s = f.sid
  BY FrameFields
<1>3. user[Peer(y)][s] = "dropped" /\ r.done[s] = Len(outbox[Peer(y)][s])
  BY <1>2 DEF Fits
<1>4. /\ streams' = [streams EXCEPT ![y] = streams[y] \ ({s} \cap streams[y])]
      /\ recv_closed' = [recv_closed EXCEPT ![y] = @ \cup ({s} \cap streams[y])]
      /\ ended' = IF s \in streams[y] /\ user[y][s] = "held" THEN [ended EXCEPT ![y] = @ \cup {s}] ELSE ended
      /\ UNCHANGED <<user, close_rx, inbox, assembly>>
  BY <1>2 DEF HandleCloseStream, Close
<1>5. /\ streams'[y] = streams[y] \ {s} /\ streams'[Peer(y)] = streams[Peer(y)]
      /\ recv_closed'[y] = recv_closed[y] \cup ({s} \cap streams[y]) /\ recv_closed'[Peer(y)] = recv_closed[Peer(y)]
      /\ ended'[y] = IF s \in streams[y] /\ user[y][s] = "held" THEN ended[y] \cup {s} ELSE ended[y]
      /\ ended'[Peer(y)] = ended[Peer(y)]
  BY <1>1, <1>4 DEF TypeInv, TypeOK
<1>6. OnlyAt(y)
  BY <1>4, <1>5 DEF OnlyAt, SameStreams
<1>7. Received(y)
  <2>1. s \in streams[y] /\ user[y][s] = "held" => s \notin ended[y] /\ Len(inbox[y][s]) = Len(outbox[Peer(y)][s])
    BY <1>3 DEF Users, Reached, Listening
  <2> QED
    BY <1>4, <1>5, <2>1 DEF Received
<1>8. Users(y)'
  BY <1>3, <1>4, <1>5 DEF Users
<1>9. Reached(y, r)'
  <2>1. \A t \in SID : Listening(y, t)' => Listening(y, t)
    BY <1>4, <1>5 DEF Listening
  <2> QED
    BY <1>4, <2>1 DEF Reached
<1>10. After(outbox[Peer(y)], r, f) = r
  BY DEF After
<1> QED
  BY <1>6, <1>7, <1>8, <1>9, <1>10 DEF Handled

LEMMA HeaderHandled ==
    ASSUME TypeInv, NEW y \in SIDE, NEW f \in Frame, f.type = "DataHeader", HandleDataHeader(y, f),
           UNCHANGED <<outbox, closing, channel>>, Users(y),
           NEW r \in Progress, Reached(y, r), Fits(Peer(y), outbox[Peer(y)], user[Peer(y)], r, f)
    PROVE  Handled(y, After(outbox[Peer(y)], r, f))
<1>1. Peer(y) \in SIDE /\ Peer(y) # y /\ DOMAIN assembly = SIDE
  BY DEF Peer, SIDE, TypeInv
<1>2. f.sid \in SID /\ f.mid \in Nat
  BY FrameFields
<1>3. r.sid = NoSid /\ f.mid = r.done[f.sid] /\ f.length = outbox[Peer(y)][f.sid][f.mid + 1] /\ f.sid # NoSid
  BY <1>2, TransportAssumption DEF Fits
<1>4. DOMAIN assembly[y] = {}
  BY <1>3 DEF Reached
<1>5. PICK msgs : msgs = [m \in DOMAIN assembly[y] \cup {f.mid} |->
                             IF m = f.mid THEN [sid |-> f.sid, length |-> f.length, data |-> <<>>]
                             ELSE assembly[y][m]]
  OBVIOUS
<1>6. /\ assembly' = [assembly EXCEPT ![y] = msgs]
      /\ UNCHANGED <<stream_vars, user, close_rx, inbox, ended>>
  BY <1>5 DEF HandleDataHeader
<1>7. assembly'[y] = msgs /\ assembly'[Peer(y)] = assembly[Peer(y)]
  BY <1>1, <1>6
<1>8. DOMAIN msgs = {f.mid} /\ msgs[f.mid] = [sid |-> f.sid, length |-> f.length, data |-> <<>>]
  BY <1>4, <1>5
<1>9. OnlyAt(y) /\ Received(y) /\ Users(y)'
  BY <1>6, <1>7 DEF OnlyAt, SameStreams, Received, Users, stream_vars
<1>10. PICK r1 : r1 = After(outbox[Peer(y)], r, f)
  OBVIOUS
<1>11. r1.sid = f.sid /\ r1.parts = 0 /\ r1.done = r.done /\ r1.opened = r.opened
  <2>1. r1 = [r EXCEPT !.sid = f.sid, !.parts = 0]
    BY <1>10 DEF After
  <2> QED
    BY <2>1 DEF Progress
<1>12. Whole(f.sid, f.mid, 0) = <<>>
  BY DEF Whole
<1>13. Reached(y, r1)'
  <2>1. DOMAIN assembly'[y] = IF r1.sid = NoSid THEN {} ELSE {r1.done[r1.sid]}
    BY <1>3, <1>7, <1>8, <1>11
  <2>2. \A m \in DOMAIN assembly'[y] :
           assembly'[y][m] = [sid |-> r1.sid, length |-> outbox'[Peer(y)][r1.sid][m + 1],
                              data |-> Whole(r1.sid, m, r1.parts)]
    BY <1>3, <1>7, <1>8, <1>11, <1>12
  <2>3. \A s \in SID : /\ Listening(y, s)' => Len(inbox'[y][s]) = r1.done[s]
                       /\ Opener[s] # y => (s \in r1.opened <=> user'[y][s] # "none")
    BY <1>6, <1>11 DEF Reached, Listening, stream_vars
  <2> QED
    BY <2>1, <2>2, <2>3 DEF Reached
<1> QED
  BY <1>9, <1>10, <1>13 DEF Handled

LEMMA OneMorePart ==
    ASSUME NEW s, NEW mid, NEW n \in Nat
    PROVE  /\ Append(Whole(s, mid, n), [sid |-> s, mid |-> mid, part |-> n + 1]) = Whole(s, mid, n + 1)
           /\ Len(Whole(s, mid, n)) = n
<1>1. PICK e : e = [i \in Nat |-> [sid |-> s, mid |-> mid, part |-> i]]
  OBVIOUS
<1>2. \A k \in Nat : Whole(s, mid, k) = [i \in 1 .. k |-> e[i]]
  BY <1>1 DEF Whole
<1>3. PICK E : \A i \in Nat : e[i] \in E
  <2>1. \A i \in Nat : e[i] \in {e[j] : j \in Nat}
    OBVIOUS
  <2> QED
    BY <2>1
<1>4. PICK w \in Seq(E) : w = [i \in 1 .. n |-> e[i]] /\ Len(w) = n /\ DOMAIN w = 1 .. n
  <2>1. [i \in 1 .. n |-> e[i]] \in [1 .. n -> E]
    BY <1>3
  <2>2. PICK w \in Seq(E) : w = [i \in 1 .. n |-> e[i]]
    <3>1. PICK w \in [1 .. n -> E] : w = [i \in 1 .. n |-> e[i]]
      BY <2>1
    <3>2. w \in Seq(E)
      BY <3>1
    <3> QED
      BY <3>1, <3>2
  <2>3. DOMAIN w = 1 .. n /\ DOMAIN w = 1 .. Len(w) /\ Len(w) \in Nat
    BY <2>2
  <2>4. Len(w) = n
    BY <2>3
  <2> QED
    BY <2>2, <2>3, <2>4
<1>5. n + 1 \in Nat /\ e[n + 1] \in E /\ e[n + 1] = [sid |-> s, mid |-> mid, part |-> n + 1]
  BY <1>1, <1>3
<1>6. /\ Append(w, e[n + 1]) \in Seq(E) /\ Len(Append(w, e[n + 1])) = n + 1
      /\ \A i \in 1 .. n : Append(w, e[n + 1])[i] = e[i]
      /\ Append(w, e[n + 1])[n + 1] = e[n + 1]
  BY <1>4, <1>5, AppendProperties
<1>7. Append(w, e[n + 1]) = [i \in 1 .. n + 1 |-> e[i]]
  <2>1. DOMAIN Append(w, e[n + 1]) = 1 .. n + 1
    BY <1>6
  <2>2. \A i \in 1 .. n + 1 : Append(w, e[n + 1])[i] = e[i]
    BY <1>6
  <2>3. Append(w, e[n + 1]) = [i \in DOMAIN Append(w, e[n + 1]) |-> Append(w, e[n + 1])[i]]
    BY <1>6
  <2> QED
    BY <2>1, <2>2, <2>3
<1> QED
  BY <1>2, <1>4, <1>5, <1>7

LEMMA DataHandled ==
    ASSUME TypeInv, NEW y \in SIDE, NEW f \in Frame, f.type = "Data", HandleData(y, f),
           UNCHANGED <<outbox, closing, channel>>, Users(y),
           NEW r \in Progress, Reached(y, r), Good(Peer(y), outbox[Peer(y)], user[Peer(y)], r),
           Fits(Peer(y), outbox[Peer(y)], user[Peer(y)], r, f)
    PROVE  Handled(y, After(outbox[Peer(y)], r, f))
<1>1. Peer(y) \in SIDE /\ Peer(y) # y /\ DOMAIN assembly = SIDE /\ inbox \in [SIDE -> [SID -> Seq(Seq(Part))]]
  BY DEF Peer, SIDE, TypeInv
<1>2. PICK s \in SID, n \in Nat, d \in [SID -> Nat] : s = r.sid /\ n = r.parts /\ d = r.done /\ s # NoSid
  <2>1. f.data.sid \in SID
    BY FrameFields DEF Part
  <2>2. r.sid \in SID /\ r.sid # NoSid
    BY <2>1, TransportAssumption DEF Fits
  <2> QED
    BY <2>2 DEF Progress
<1>3. f.mid = d[s] /\ d[s] \in Nat /\ f.data = [sid |-> s, mid |-> d[s], part |-> n + 1]
  BY <1>2 DEF Fits
<1>4. PICK size : size = outbox[Peer(y)][s][d[s] + 1]
  OBVIOUS
<1>5. PICK msg : /\ msg = assembly[y][d[s]]
                 /\ msg.sid = s /\ msg.length = size /\ msg.data = Whole(s, d[s], n)
                 /\ DOMAIN assembly[y] = {d[s]}
                 /\ msg = [sid |-> s, length |-> size, data |-> Whole(s, d[s], n)]
  BY <1>2, <1>4 DEF Reached
<1>6. PICK data : data = Append(msg.data, f.data) /\ data = Whole(s, d[s], n + 1) /\ Len(data) = n + 1
  BY <1>2, <1>3, <1>5, OneMorePart
<1>7. /\ IF Complete(msg, data)
         THEN /\ assembly' = [assembly EXCEPT ![y] = Restrict(assembly[y], DOMAIN assembly[y] \ {f.mid})]
              /\ Deliver(y, s, data)
         ELSE /\ assembly' = [assembly EXCEPT ![y][f.mid].data = data]
              /\ UNCHANGED inbox
      /\ UNCHANGED <<stream_vars, user, close_rx, ended>>
  BY <1>3, <1>5, <1>6 DEF HandleData
<1>8. \A t \in SID : Listening(y, t)' <=> Listening(y, t)
  BY <1>7 DEF Listening, stream_vars
<1>9. PICK r1 : r1 = After(outbox[Peer(y)], r, f)
  OBVIOUS
<1>10. CASE Complete(msg, data)
  <2>1. n + 1 = size
    BY <1>5, <1>6, <1>10 DEF Complete
  <2>2. assembly'[y] = Restrict(assembly[y], {}) /\ assembly'[Peer(y)] = assembly[Peer(y)]
    BY <1>1, <1>3, <1>5, <1>7, <1>10
  <2>3. DOMAIN assembly'[y] = {}
    BY <2>2 DEF Restrict
  <2>4. inbox' = IF Listening(y, s) THEN [inbox EXCEPT ![y] = [inbox[y] EXCEPT ![s] = Append(inbox[y][s], data)]] ELSE inbox
    <3>1. Listening(y, s) <=> s \in streams[y] \ recv_closed[y] /\ user[y][s] = "held"
      BY <1>2 DEF Users, Listening
    <3> QED
      BY <1>7, <1>10, <3>1 DEF Deliver
  <2>5. /\ inbox'[Peer(y)] = inbox[Peer(y)] /\ \A t \in SID : t # s => inbox'[y][t] = inbox[y][t]
        /\ inbox'[y][s] = IF Listening(y, s) THEN Append(inbox[y][s], data) ELSE inbox[y][s]
    BY <1>1, <1>2, <2>4
  <2>6. Listening(y, s) => /\ s \notin ended[y] /\ Len(inbox[y][s]) = d[s]
                           /\ d[s] < Len(outbox[Peer(y)][s])
    BY <1>2 DEF Reached, Users, Listening, Good
  <2>7. Received(y)
    <3>1. \A t \in SID : t \in ended'[y] <=> t \in ended[y]
      BY <1>7
    <3>2. Listening(y, s) => inbox'[y][s] = Append(inbox[y][s],
              Whole(s, Len(inbox[y][s]), outbox[Peer(y)][s][Len(inbox[y][s]) + 1]))
      BY <1>4, <1>6, <2>1, <2>5, <2>6
    <3> QED
      BY <1>2, <2>5, <2>6, <3>1, <3>2 DEF Received
  <2>8. OnlyAt(y)
    BY <1>7, <2>2, <2>5 DEF OnlyAt, SameStreams, stream_vars
  <2>9. Users(y)'
    <3>1. \A t \in SID : user[y][t] = "none" => inbox'[y][t] = inbox[y][t]
      BY <1>2, <2>5 DEF Listening
    <3> QED
      BY <1>7, <3>1 DEF Users, stream_vars
  <2>10. /\ r1.sid = NoSid /\ r1.opened = r.opened /\ r1.done[s] = d[s] + 1
         /\ \A t \in SID : t # s => r1.done[t] = d[t]
    <3>1. r1 = [r EXCEPT !.sid = NoSid, !.parts = 0, !.done[s] = @ + 1]
      BY <1>2, <1>3, <1>4, <1>9, <2>1 DEF After
    <3>2. r1.sid = NoSid /\ r1.opened = r.opened /\ r1.done = [d EXCEPT ![s] = d[s] + 1]
      BY <1>2, <3>1 DEF Progress
    <3>3. [d EXCEPT ![s] = d[s] + 1][s] = d[s] + 1 /\ \A t \in SID : t # s => [d EXCEPT ![s] = d[s] + 1][t] = d[t]
      BY <1>2
    <3> QED
      BY <3>2, <3>3
  <2>11. Reached(y, r1)'
    <3>1. \A t \in SID : Listening(y, t)' => Len(inbox'[y][t]) = r1.done[t]
      <4>1. Listening(y, s) => Len(inbox'[y][s]) = d[s] + 1
        <5>1. inbox[y][s] \in Seq(Seq(Part))
          BY <1>1, <1>2
        <5> QED
          BY <2>5, <2>6, <5>1
      <4>2. \A t \in SID : t # s /\ Listening(y, t) => Len(inbox'[y][t]) = d[t]
        BY <1>2, <2>5 DEF Reached
      <4> QED
        BY <1>8, <2>10, <4>1, <4>2
    <3>2. \A t \in SID : Opener[t] # y => (t \in r1.opened <=> user'[y][t] # "none")
      BY <1>7, <2>10 DEF Reached
    <3> QED
      BY <2>3, <2>10, <3>1, <3>2 DEF Reached
  <2> QED
    BY <1>9, <2>7, <2>8, <2>9, <2>11 DEF Handled
<1>11. CASE ~ Complete(msg, data)
  <2>1. n + 1 # size
    BY <1>5, <1>6, <1>11 DEF Complete
  <2>2. PICK new : new = [sid |-> s, length |-> size, data |-> data]
    OBVIOUS
  <2>3. /\ assembly' = [assembly EXCEPT ![y] = [assembly[y] EXCEPT ![d[s]] = new]]
        /\ inbox' = inbox
    <3>1. [assembly[y][d[s]] EXCEPT !.data = data] = new
      BY <1>5, <2>2
    <3>2. assembly' = [assembly EXCEPT ![y] = [assembly[y] EXCEPT ![d[s]] =
                                                  [assembly[y][d[s]] EXCEPT !.data = data]]]
      BY <1>3, <1>7, <1>11
    <3> QED
      BY <1>7, <1>11, <3>1, <3>2
  <2>4. /\ assembly'[Peer(y)] = assembly[Peer(y)] /\ DOMAIN assembly'[y] = {d[s]} /\ assembly'[y][d[s]] = new
    BY <1>1, <1>5, <2>3
  <2>5. OnlyAt(y) /\ Received(y) /\ Users(y)'
    BY <1>7, <2>3, <2>4 DEF OnlyAt, SameStreams, Received, Users, stream_vars
  <2>6. r1.sid = s /\ r1.opened = r.opened /\ r1.done = d /\ r1.parts = n + 1
    <3>1. r1 = [r EXCEPT !.parts = @ + 1]
      BY <1>2, <1>3, <1>4, <1>9, <2>1 DEF After
    <3> QED
      BY <1>2, <3>1 DEF Progress
  <2>7. Reached(y, r1)'
    <3>1. DOMAIN assembly'[y] = IF r1.sid = NoSid THEN {} ELSE {r1.done[r1.sid]}
      BY <1>2, <2>4, <2>6
    <3>2. \A m \in DOMAIN assembly'[y] :
             assembly'[y][m] = [sid |-> r1.sid, length |-> outbox'[Peer(y)][r1.sid][m + 1],
                                data |-> Whole(r1.sid, m, r1.parts)]
      BY <1>4, <1>6, <2>2, <2>4, <2>6
    <3>3. \A t \in SID : /\ Listening(y, t)' => Len(inbox'[y][t]) = r1.done[t]
                         /\ Opener[t] # y => (t \in r1.opened <=> user'[y][t] # "none")
      BY <1>2, <1>7, <1>8, <2>3, <2>6 DEF Reached
    <3> QED
      BY <3>1, <3>2, <3>3 DEF Reached
  <2> QED
    BY <1>9, <2>5, <2>7 DEF Handled
<1> QED
  BY <1>10, <1>11

LEMMA HandleFlows ==
    ASSUME TypeInv, NEW y \in SIDE, HandleFrame(y),
           \A z \in SIDE : Users(z) /\ Flow(z)
    PROVE  /\ \A z \in SIDE : Users(z)' /\ Flow(z)'
           /\ OnlyAt(y) /\ Received(y)
<1>1. Peer(y) \in SIDE /\ Peer(y) # y /\ Peer(Peer(y)) = y /\ SIDE = {y, Peer(y)}
  BY DEF Peer, SIDE
<1>2. PICK w \in Seq(ProperFrame) : w = In(y)
  BY SidesTyped
<1>3. /\ w # <<>> /\ Handle(y, Head(w))
      /\ In(y)' = Tail(w) /\ In(Peer(y))' = In(Peer(y))
      /\ UNCHANGED <<scene, outbox, prios, closing, channel, error>>
  BY <1>1, <1>2 DEF HandleFrame, In, TypeInv
<1>4. PICK f \in ProperFrame : f = Head(w) /\ f \in Frame
  BY <1>3 DEF ProperFrame
<1>5. PICK r0 \in Progress, r \in Progress : Pipe(y, r0, r)
  BY DEF Flow
<1>6. PICK out \in [SID -> Seq(Nat)], us \in {user[Peer(y)]} : out = outbox[Peer(y)] /\ us = user[Peer(y)]
  BY <1>1, SidesTyped
<1>7. Brings(Peer(y), out, us, w, r0, r) /\ Reached(y, r0)
  BY <1>2, <1>5, <1>6 DEF Pipe
<1>8. /\ Good(Peer(y), out, us, r0) /\ Fits(Peer(y), out, us, r0, f) /\ After(out, r0, f) \in Progress
      /\ Brings(Peer(y), out, us, Tail(w), After(out, r0, f), r)
  BY <1>3, <1>4, <1>7, BringsGood, BringsTail
<1>9. PICK r1 \in Progress : r1 = After(out, r0, f)
  BY <1>8
<1>10. Handled(y, r1)
  <2>1. /\ Good(Peer(y), outbox[Peer(y)], user[Peer(y)], r0) /\ Fits(Peer(y), outbox[Peer(y)], user[Peer(y)], r0, f)
        /\ r1 = After(outbox[Peer(y)], r0, f) /\ Reached(y, r0) /\ Users(y) /\ f \in Frame /\ r0 \in Progress
        /\ UNCHANGED <<outbox, closing, channel>>
    BY <1>3, <1>4, <1>5, <1>6, <1>7, <1>8, <1>9
  <2>2. CASE f.type = "OpenStream" /\ HandleOpenStream(y, f.sid)
    BY <2>1, <2>2, OpenHandled
  <2>3. CASE f.type = "CloseStream" /\ HandleCloseStream(y, f.sid)
    BY <2>1, <2>3, CloseHandled
  <2>4. CASE f.type = "DataHeader" /\ HandleDataHeader(y, f)
    BY <2>1, <2>4, HeaderHandled
  <2>5. CASE f.type = "Data" /\ HandleData(y, f)
    BY <2>1, <2>5, DataHandled
  <2> QED
    BY <1>3, <1>4, <2>2, <2>3, <2>4, <2>5 DEF Handle
<1>11. /\ user'[Peer(y)] = user[Peer(y)]
       /\ \A s \in SID : \/ user'[y][s] = user[y][s]
                         \/ /\ user[y][s] = "none" /\ user'[y][s] # "none"
                            /\ Opener[s] = Peer(y) /\ user[Peer(y)][s] # "none"
  BY <1>10 DEF Handled, OnlyAt, SameStreams
<1>12. Flow(y)'
  <2>1. channel' = SIDE => Sending(Peer(y), r)'
    <3>1. channel' = SIDE => Sending(Peer(y), r)
      BY <1>3, <1>5 DEF Pipe
    <3> QED
      BY <1>3, <1>11, <3>1 DEF Sending
  <2>2. Brings(Peer(y), outbox'[Peer(y)], user'[Peer(y)], In(y)', r1, r)
    BY <1>3, <1>6, <1>8, <1>9, <1>11
  <2>3. Pipe(y, r1, r)'
    BY <1>10, <2>1, <2>2 DEF Pipe, Handled
  <2> QED
    BY <2>3 DEF Flow
<1>13. Flow(Peer(y))'
  <2>1. SendsMore(y)
    BY <1>3, <1>11 DEF SendsMore, Grows
  <2>2. Undisturbed(Peer(y))
    <3>1. /\ assembly'[Peer(y)] = assembly[Peer(y)] /\ inbox'[Peer(y)] = inbox[Peer(y)]
          /\ recv_closed'[Peer(y)] = recv_closed[Peer(y)]
      BY <1>10 DEF Handled, OnlyAt, SameStreams
    <3> QED
      BY <1>11, <3>1 DEF Undisturbed, Listening
  <2>3. \A q \in Progress : Sending(y, q) => Sending(y, q)'
    BY <1>1, <1>3, <1>11 DEF Sending
  <2> QED
    BY <1>1, <1>3, <2>1, <2>2, <2>3, StillFlows
<1>14. Users(Peer(y))'
  <2>1. SameStreams(Peer(y))
    BY <1>10 DEF Handled, OnlyAt
  <2> QED
    BY <1>1, <1>11, <2>1, OtherUsers
<1> QED
  BY <1>1, <1>10, <1>12, <1>13, <1>14 DEF Handled
-----------------------------------------------------------------------------
LEMMA InitFlows == ASSUME Init PROVE FlowInv
<1>1. /\ assembly = [x \in SIDE |-> <<>>] /\ channel = SIDE
      /\ \A x \in SIDE : /\ assembly[x] = <<>> /\ wire[x] = <<>> /\ In(x) = <<>> /\ close_rx[x] = <<>>
                         /\ closing[x] = NoSid /\ Peer(x) \in SIDE
                         /\ streams[x] = {} /\ recv_closed[x] = {} /\ ended[x] = {}
      /\ \A x \in SIDE, s \in SID : user[x][s] = "none" /\ outbox[x][s] = <<>> /\ inbox[x][s] = <<>>
      /\ \A x \in SIDE, p \in PRIO : prios[x][p] = <<>>
  BY DEF Init, In, Peer, SIDE
<1>2. ExactlyOnceInOrder
  BY <1>1 DEF ExactlyOnceInOrder
<1>3. \A x \in SIDE : Users(x)
  BY <1>1 DEF Users
<1>4. PICK r \in Progress : /\ r.sid = NoSid /\ r.opened = {}
                            /\ \A s \in SID : r.done[s] = 0
  <2>1. [sid |-> NoSid, parts |-> 0, done |-> [s \in SID |-> 0], opened |-> {}] \in Progress
    BY DEF Progress
  <2> QED
    BY <2>1
<1>5. ASSUME NEW y \in SIDE PROVE Flow(y)
  <2>1. Good(Peer(y), outbox[Peer(y)], user[Peer(y)], r)
    BY <1>1, <1>4, TransportAssumption DEF Good
  <2>2. Brings(Peer(y), outbox[Peer(y)], user[Peer(y)], <<>>, r, r)
    <3>1. PICK st \in [Nat -> Progress] : \A n \in Nat : st[n] = r
      <4>1. [n \in Nat |-> r] \in [Nat -> Progress]
        BY <1>4
      <4> QED
        BY <4>1
    <3>2. Carries(Peer(y), outbox[Peer(y)], user[Peer(y)], <<>>, st)
      BY <2>1, <3>1 DEF Carries
    <3> QED
      BY <3>1, <3>2 DEF Brings
  <2>3. Reached(y, r)
    BY <1>1, <1>4 DEF Reached, Listening
  <2>4. Sending(Peer(y), r)
    <3>1. \A p \in PRIO : Queued(outbox[Peer(y)], prios[Peer(y)][p], r)
      <4>1. ASSUME NEW p \in PRIO PROVE Queued(outbox[Peer(y)], <<>>, r)
        BY <1>1, <1>4 DEF Queued
      <4> QED
        BY <1>1, <4>1
    <3> QED
      BY <1>1, <1>4, <3>1 DEF Sending
  <2> QED
    BY <1>1, <1>4, <2>2, <2>3, <2>4 DEF Flow, Pipe
<1> QED
  BY <1>2, <1>3, <1>5 DEF FlowInv

(* What a Stream has received, related to what was sent on it.             *)
InOrder(x, s) ==
    /\ Len(inbox[x][s]) <= Len(outbox[Peer(x)][s])
    /\ \A i \in DOMAIN inbox[x][s] : inbox[x][s][i] = SentTo(x, s)[i]

LEMMA SentToIs ==
    ASSUME NEW x \in SIDE, NEW s \in SID, outbox[Peer(x)][s] \in Seq(Nat)
    PROVE  /\ \E P : SentTo(x, s) \in Seq(P)
           /\ DOMAIN SentTo(x, s) = 1 .. Len(outbox[Peer(x)][s])
           /\ Len(SentTo(x, s)) = Len(outbox[Peer(x)][s])
           /\ \A i \in 1 .. Len(outbox[Peer(x)][s]) : SentTo(x, s)[i] = Whole(s, i - 1, outbox[Peer(x)][s][i])
<1>1. PICK out \in Seq(Nat) : out = outbox[Peer(x)][s]
  OBVIOUS
<1>2. PICK n \in Nat : n = Len(out) /\ DOMAIN out = 1 .. n
  BY <1>1
<1>3. PICK e : e = [i \in 1 .. n |-> Whole(s, i - 1, out[i])]
  OBVIOUS
<1>4. SentTo(x, s) = e
  BY <1>1, <1>2, <1>3 DEF SentTo
<1>5. PICK P : P = {e[i] : i \in 1 .. n}
  OBVIOUS
<1>6. e \in [1 .. n -> P]
  BY <1>3, <1>5
<1>7. e \in Seq(P) /\ Len(e) = n
  BY <1>6
<1> QED
  BY <1>1, <1>2, <1>3, <1>4, <1>7

LEMMA FunctionIsSequence ==
    ASSUME NEW l \in Nat, NEW Q, NEW e \in [1 .. l -> Q]
    PROVE  e \in Seq(Q) /\ Len(e) = l
  OBVIOUS

LEMMA OneMore ==
    ASSUME NEW P, NEW out \in Seq(P), NEW n \in P
    PROVE  /\ Append(out, n) \in Seq(P) /\ Len(Append(out, n)) = Len(out) + 1
           /\ \A i \in 1 .. Len(out) : Append(out, n)[i] = out[i]
           /\ Append(out, n)[Len(out) + 1] = n
  OBVIOUS

(* One step of StreamPromise, or none, and what it leaves.                 *)
Kept(x, s) == [Promise(x, s)!Next]_(Promise(x, s)!vars) /\ InOrder(x, s)'

LEMMA NothingKept ==
    ASSUME NEW x \in SIDE, NEW s \in SID, InOrder(x, s),
           inbox'[x][s] = inbox[x][s], outbox'[Peer(x)][s] = outbox[Peer(x)][s],
           s \in ended'[x] <=> s \in ended[x]
    PROVE  Kept(x, s)
<1>1. SentTo(x, s)' = SentTo(x, s)
  BY DEF SentTo
<1>2. InOrder(x, s)'
  BY <1>1 DEF InOrder
<1>3. UNCHANGED Promise(x, s)!vars
  <2>1. (s \in ended[x])' = (s \in ended[x])
    OBVIOUS
  <2> QED
    BY <1>1, <2>1 DEF Promise!vars
<1> QED
  BY <1>2, <1>3 DEF Kept

LEMMA SendKept ==
    ASSUME NEW x \in SIDE, NEW s \in SID, InOrder(x, s),
           NEW out \in Seq(Nat), out = outbox[Peer(x)][s],
           NEW n \in Nat, outbox'[Peer(x)][s] = Append(out, n),
           NEW B, inbox[x][s] \in Seq(B), inbox'[x][s] = inbox[x][s],
           s \notin ended[x], s \notin ended'[x]
    PROVE  Kept(x, s)
<1>1. PICK P : SentTo(x, s) \in Seq(P)
  BY SentToIs
<1>2. PICK sent : sent = SentTo(x, s)
  OBVIOUS
<1>2a. PICK k \in Nat : k = Len(out) /\ DOMAIN out = 1 .. k
  OBVIOUS
<1>3. PICK out2 \in Seq(Nat) : /\ out2 = Append(out, n) /\ Len(out2) = k + 1 /\ DOMAIN out2 = 1 .. k + 1
                               /\ \A i \in 1 .. k : out2[i] = out[i]
  <2>1. PICK out2 \in Seq(Nat) : out2 = Append(out, n)
    BY OneMore
  <2>2. Len(out2) = k + 1 /\ DOMAIN out2 = 1 .. k + 1
    BY <1>2a, <2>1, OneMore
  <2>3. \A i \in 1 .. k : out2[i] = out[i]
    BY <1>2a, <2>1, OneMore
  <2> QED
    BY <2>1, <2>2, <2>3
<1>4. sent = [i \in 1 .. k |-> Whole(s, i - 1, out[i])]
  BY <1>2, <1>2a DEF SentTo
<1>5. PICK sent2 : sent2 = [i \in 1 .. k + 1 |-> Whole(s, i - 1, out2[i])]
  OBVIOUS
<1>6. SentTo(x, s)' = sent2
  BY <1>3, <1>5 DEF SentTo
<1>7. sent \in Seq(P) /\ Len(sent) = k
  BY <1>1, <1>2, <1>2a, <1>4
<1>8. \A i \in 1 .. k : sent2[i] = sent[i]
  BY <1>3, <1>4, <1>5
<1>9. PICK Q : sent2 \in Seq(Q) /\ Len(sent2) = k + 1
  <2>1. PICK Q : Q = {sent2[i] : i \in 1 .. k + 1}
    OBVIOUS
  <2>2. PICK l \in Nat : l = k + 1
    OBVIOUS
  <2>3. sent2 \in [1 .. l -> Q]
    BY <1>5, <2>1, <2>2
  <2>4. sent2 \in Seq(Q) /\ Len(sent2) = l
    BY <2>3, FunctionIsSequence
  <2> QED
    BY <2>2, <2>4
<1>10. SubSeq(sent2, 1, k) = sent
  <2>1. SubSeq(sent2, 1, k) = [i \in 1 .. k |-> sent2[i]]
    BY <1>9, SubSeqProperties
  <2> QED
    BY <1>4, <1>8, <2>1
<1>11. Promise(x, s)!Send
  <2>1. Len(SentTo(x, s)') = Len(SentTo(x, s)) + 1 /\ SubSeq(SentTo(x, s)', 1, Len(SentTo(x, s))) = SentTo(x, s)
    BY <1>2, <1>6, <1>7, <1>9, <1>10
  <2>2. (s \in ended[x])' = (s \in ended[x])
    OBVIOUS
  <2> QED
    BY <2>1, <2>2 DEF Promise!Send
<1>12. InOrder(x, s)'
  <2>1. PICK got \in Seq(B) : got = inbox[x][s] /\ DOMAIN got = 1 .. Len(got)
    OBVIOUS
  <2>2. Len(got) <= k /\ \A i \in 1 .. Len(got) : got[i] = sent[i]
    BY <1>2, <1>2a, <2>1 DEF InOrder
  <2>3. Len(got) <= Len(out2) /\ \A i \in 1 .. Len(got) : got[i] = sent2[i]
    BY <1>3, <1>8, <2>1, <2>2
  <2> QED
    BY <1>3, <1>6, <2>1, <2>3 DEF InOrder
<1> QED
  BY <1>11, <1>12 DEF Kept, Promise!Next

LEMMA ReceiveKept ==
    ASSUME NEW x \in SIDE, NEW s \in SID, InOrder(x, s),
           outbox[Peer(x)][s] \in Seq(Nat), outbox'[Peer(x)][s] = outbox[Peer(x)][s],
           NEW B, inbox[x][s] \in Seq(B), Len(inbox[x][s]) < Len(outbox[Peer(x)][s]),
           inbox'[x][s] = Append(inbox[x][s],
               Whole(s, Len(inbox[x][s]), outbox[Peer(x)][s][Len(inbox[x][s]) + 1])),
           s \notin ended[x], s \notin ended'[x]
    PROVE  Kept(x, s)
<1>1. PICK out \in Seq(Nat) : out = outbox[Peer(x)][s]
  OBVIOUS
<1>2. PICK got \in Seq(B) : got = inbox[x][s]
  OBVIOUS
<1>3. PICK k \in Nat : k = Len(got) /\ DOMAIN got = 1 .. k
  OBVIOUS
<1>4. k < Len(out) /\ Len(out) \in Nat /\ k + 1 \in 1 .. Len(out) /\ (k + 1) - 1 = k
  BY <1>1, <1>2, <1>3
<1>5. PICK data : data = Whole(s, k, out[k + 1])
  OBVIOUS
<1>6. inbox'[x][s] = Append(got, data)
  BY <1>1, <1>2, <1>3, <1>5
<1>7. SentTo(x, s)' = SentTo(x, s)
  BY DEF SentTo
<1>8. PICK sent : sent = SentTo(x, s)
  OBVIOUS
<1>9. Len(sent) = Len(out) /\ sent[k + 1] = data
  BY <1>1, <1>4, <1>5, <1>8, SentToIs
<1>10. Promise(x, s)!Receive
  <2>1. /\ Len(inbox[x][s]) < Len(SentTo(x, s))
        /\ inbox'[x][s] = Append(inbox[x][s], SentTo(x, s)[Len(inbox[x][s]) + 1])
    BY <1>2, <1>3, <1>4, <1>6, <1>8, <1>9
  <2>2. (s \in ended[x])' = (s \in ended[x])
    OBVIOUS
  <2> QED
    BY <1>7, <2>1, <2>2 DEF Promise!Receive
<1>11. InOrder(x, s)'
  <2>1. PICK C : C = B \cup {data}
    OBVIOUS
  <2>2. got \in Seq(C) /\ data \in C
    BY <2>1
  <2>3. PICK got2 \in Seq(C) : got2 = Append(got, data)
    BY <2>2, OneMore
  <2>4. Len(got2) = k + 1 /\ DOMAIN got2 = 1 .. k + 1 /\ got2[k + 1] = data /\ \A i \in 1 .. k : got2[i] = got[i]
    BY <1>3, <2>2, <2>3, OneMore
  <2>5. \A i \in 1 .. k : got[i] = sent[i]
    BY <1>2, <1>3, <1>8 DEF InOrder
  <2>6. \A i \in 1 .. k + 1 : got2[i] = sent[i]
    BY <1>9, <2>4, <2>5
  <2>7. k + 1 <= Len(out)
    BY <1>4
  <2> QED
    BY <1>1, <1>6, <1>7, <1>8, <2>3, <2>4, <2>6, <2>7 DEF InOrder
<1> QED
  BY <1>10, <1>11 DEF Kept, Promise!Next

LEMMA EndKept ==
    ASSUME NEW x \in SIDE, NEW s \in SID, InOrder(x, s),
           outbox[Peer(x)][s] \in Seq(Nat), outbox'[Peer(x)][s] = outbox[Peer(x)][s],
           NEW B, inbox[x][s] \in Seq(B), Len(inbox[x][s]) = Len(outbox[Peer(x)][s]),
           inbox'[x][s] = inbox[x][s], s \notin ended[x], s \in ended'[x]
    PROVE  Kept(x, s)
<1>1. SentTo(x, s)' = SentTo(x, s)
  BY DEF SentTo
<1>2. InOrder(x, s)'
  BY <1>1 DEF InOrder
<1>3. inbox[x][s] = SentTo(x, s)
  <2>1. PICK P : SentTo(x, s) \in Seq(P)
    BY SentToIs
  <2>2. PICK sent \in Seq(P) : sent = SentTo(x, s)
    BY <2>1
  <2>3. PICK got \in Seq(B) : got = inbox[x][s]
    OBVIOUS
  <2>4. Len(got) = Len(sent) /\ \A i \in 1 .. Len(got) : got[i] = sent[i]
    BY <2>2, <2>3, SentToIs DEF InOrder
  <2>5. got \in Seq(B \cup P) /\ sent \in Seq(B \cup P)
    OBVIOUS
  <2>6. got = sent
    BY <2>4, <2>5, SeqEqual
  <2> QED
    BY <2>2, <2>3, <2>6
<1>4. Promise(x, s)!End
  <2>1. (s \in ended[x])' = TRUE
    OBVIOUS
  <2> QED
    BY <1>1, <1>3, <2>1 DEF Promise!End
<1> QED
  BY <1>2, <1>4 DEF Kept, Promise!Next
-----------------------------------------------------------------------------
(* Every step keeps the promise of every Stream.                           *)
LEMMA AllKept ==
    ASSUME \A x \in SIDE, s \in SID : Kept(x, s)
    PROVE  /\ ExactlyOnceInOrder'
           /\ \A x \in SIDE, s \in SID : [Promise(x, s)!Next]_(Promise(x, s)!vars)
<1>1. \A x \in SIDE, s \in SID : InOrder(x, s)'
  BY DEF Kept
<1>2. ExactlyOnceInOrder'
  BY <1>1 DEF ExactlyOnceInOrder, InOrder
<1>3. \A x \in SIDE, s \in SID : [Promise(x, s)!Next]_(Promise(x, s)!vars)
  BY DEF Kept
<1> QED
  BY <1>2, <1>3

LEMMA Unkept ==
    ASSUME ExactlyOnceInOrder, UNCHANGED <<inbox, outbox, ended>>
    PROVE  \A x \in SIDE, s \in SID : Kept(x, s)
<1>1. ASSUME NEW x \in SIDE, NEW s \in SID PROVE Kept(x, s)
  <2>1. InOrder(x, s)
    BY DEF ExactlyOnceInOrder, InOrder
  <2> QED
    BY <2>1, NothingKept
<1> QED
  BY <1>1

LEMMA SendKeeps ==
    ASSUME TypeInv, FlowInv, NEW y \in SIDE, NEW t \in SID, Send(y, t)
    PROVE  \A x \in SIDE, s \in SID : Kept(x, s)
<1>1. PICK n \in Nat : outbox' = [outbox EXCEPT ![y] = [outbox[y] EXCEPT ![t] = Append(outbox[y][t], n)]]
  BY SceneSizes DEF Send, TypeInv
<1>2. UNCHANGED <<inbox, ended>> /\ user[y][t] = "held"
  BY DEF Send
<1>3. Peer(y) \in SIDE /\ Peer(y) # y /\ Peer(Peer(y)) = y /\ SIDE = {y, Peer(y)}
  BY DEF Peer, SIDE
<1>4. outbox[y] \in [SID -> Seq(Nat)] /\ outbox \in [SIDE -> [SID -> Seq(scene.sizes)]]
  BY SidesTyped DEF TypeInv, TypeOK
<1>5. \A x \in SIDE, s \in SID : InOrder(x, s)
  BY DEF FlowInv, ExactlyOnceInOrder, InOrder
<1>6. /\ outbox'[Peer(y)] = outbox[Peer(y)]
      /\ \A s \in SID : s # t => outbox'[y][s] = outbox[y][s]
      /\ outbox'[y][t] = Append(outbox[y][t], n)
  BY <1>1, <1>3, <1>4
<1>7. ASSUME NEW s \in SID PROVE Kept(y, s)
  BY <1>2, <1>5, <1>6, NothingKept
<1>8. ASSUME NEW s \in SID, s # t PROVE Kept(Peer(y), s)
  BY <1>2, <1>3, <1>5, <1>6, <1>8, NothingKept
<1>9. Kept(Peer(y), t)
  <2>1. t \notin ended[Peer(y)]
    BY <1>2, <1>3 DEF FlowInv, Users
  <2>2. t \notin ended'[Peer(y)] /\ inbox'[Peer(y)][t] = inbox[Peer(y)][t]
    BY <1>2, <2>1
  <2>3. PICK out \in Seq(Nat) : out = outbox[y][t]
    BY <1>4
  <2>4. out = outbox[Peer(Peer(y))][t] /\ outbox'[Peer(Peer(y))][t] = Append(out, n)
    BY <1>3, <1>6, <2>3
  <2>5. inbox[Peer(y)][t] \in Seq(Seq(Part)) /\ InOrder(Peer(y), t)
    BY <1>3, <1>5 DEF TypeInv
  <2> QED
    BY <1>3, <2>1, <2>2, <2>4, <2>5, SendKept
<1> QED
  BY <1>3, <1>7, <1>8, <1>9

LEMMA HandleKeeps ==
    ASSUME TypeInv, FlowInv, NEW y \in SIDE, HandleFrame(y)
    PROVE  \A x \in SIDE, s \in SID : Kept(x, s)
<1>1. Received(y) /\ OnlyAt(y)
  BY HandleFlows DEF FlowInv
<1>2. UNCHANGED outbox
  BY DEF HandleFrame
<1>3. Peer(y) \in SIDE /\ SIDE = {y, Peer(y)}
  BY DEF Peer, SIDE
<1>4. \A x \in SIDE, s \in SID : InOrder(x, s)
  BY DEF FlowInv, ExactlyOnceInOrder, InOrder
<1>5. inbox'[Peer(y)] = inbox[Peer(y)] /\ ended'[Peer(y)] = ended[Peer(y)]
  BY <1>1 DEF OnlyAt, SameStreams
<1>6. ASSUME NEW s \in SID PROVE Kept(Peer(y), s)
  BY <1>2, <1>3, <1>4, <1>5, NothingKept
<1>7. ASSUME NEW s \in SID PROVE Kept(y, s)
  <2>1. outbox[Peer(y)][s] \in Seq(Nat) /\ outbox'[Peer(y)][s] = outbox[Peer(y)][s]
    BY <1>2, <1>3, SidesTyped
  <2>2. inbox[y][s] \in Seq(Seq(Part)) /\ InOrder(y, s)
    BY <1>4 DEF TypeInv
  <2>3. CASE inbox'[y][s] = inbox[y][s] /\ (s \in ended'[y] <=> s \in ended[y])
    BY <2>1, <2>2, <2>3, NothingKept
  <2>4. CASE /\ s \notin ended[y] /\ s \notin ended'[y]
             /\ Len(inbox[y][s]) < Len(outbox[Peer(y)][s])
             /\ inbox'[y][s] = Append(inbox[y][s],
                    Whole(s, Len(inbox[y][s]), outbox[Peer(y)][s][Len(inbox[y][s]) + 1]))
    BY <2>1, <2>2, <2>4, ReceiveKept
  <2>5. CASE /\ s \notin ended[y] /\ s \in ended'[y] /\ inbox'[y][s] = inbox[y][s]
             /\ Len(inbox[y][s]) = Len(outbox[Peer(y)][s])
    BY <2>1, <2>2, <2>5, EndKept
  <2> QED
    BY <1>1, <2>3, <2>4, <2>5 DEF Received
<1> QED
  BY <1>3, <1>6, <1>7

LEMMA StepKeeps ==
    ASSUME OnePrio, NoEmptyMessage, TypeInv, FlowInv, [Next]_vars
    PROVE  /\ FlowInv'
           /\ \A x \in SIDE, s \in SID : [Promise(x, s)!Next]_(Promise(x, s)!vars)
<1> DEFINE Fine == \A z \in SIDE : Users(z)' /\ Flow(z)'
           Kind == \A x \in SIDE, s \in SID : Kept(x, s)
<1>1. ExactlyOnceInOrder /\ \A z \in SIDE : Users(z) /\ Flow(z)
  BY DEF FlowInv
<1>2. UNCHANGED <<inbox, outbox, ended>> => Kind
  BY <1>1, Unkept
<1>3. Fine /\ Kind
  <2>1. CASE UNCHANGED vars
    <3>1. UNCHANGED <<inbox, outbox, ended>>
      BY <2>1 DEF vars
    <3>2. Fine
      <4>1. ASSUME NEW z \in SIDE PROVE Users(z)'
        BY <1>1, <2>1 DEF vars, stream_vars, close_vars, Users
      <4>2. ASSUME NEW z \in SIDE PROVE Flow(z)'
        <5>1. PICK r0 \in Progress, r \in Progress : Pipe(z, r0, r)
          BY <1>1 DEF Flow
        <5>2. Reached(z, r0)' /\ (Sending(Peer(z), r)' <=> Sending(Peer(z), r))
          BY <2>1, <5>1 DEF vars, stream_vars, Pipe, Reached, Listening, Sending
        <5>3. Pipe(z, r0, r)'
          BY <2>1, <5>1, <5>2 DEF vars, Pipe, In
        <5> QED
          BY <5>3 DEF Flow
      <4> QED
        BY <4>1, <4>2
    <3> QED
      BY <1>2, <3>1, <3>2
  <2>2. ASSUME NEW x \in SIDE, NEW s \in SID, Open(x, s) PROVE Fine /\ Kind
    BY <1>1, <1>2, <2>2, OpenFlows DEF Open
  <2>3. ASSUME NEW x \in SIDE, NEW s \in SID, Send(x, s) PROVE Fine /\ Kind
    BY <1>1, <2>3, SendFlows, SendKeeps
  <2>4. ASSUME NEW x \in SIDE, NEW s \in SID, DropStream(x, s) PROVE Fine /\ Kind
    BY <1>1, <1>2, <2>4, DropFlows DEF DropStream
  <2>5. ASSUME NEW x \in SIDE, NEW p \in PRIO, SendNextFrame(x, p) PROVE Fine /\ Kind
    <3>1. UNCHANGED <<inbox, outbox, ended>>
      BY <2>5 DEF SendNextFrame
    <3>2. Fine
      BY <1>1, <2>5, SendNextFlows
    <3> QED
      BY <1>2, <3>1, <3>2
  <2>6. ASSUME NEW x \in SIDE, BeginClose(x) PROVE Fine /\ Kind
    BY <1>1, <1>2, <2>6, BeginCloseFlows DEF BeginClose
  <2>7. ASSUME NEW x \in SIDE, FinishClose(x) PROVE Fine /\ Kind
    BY <1>1, <1>2, <2>7, FinishCloseFlows DEF FinishClose
  <2>8. ASSUME NEW x \in SIDE, HandleFrame(x) PROVE Fine /\ Kind
    BY <1>1, <2>8, HandleFlows, HandleKeeps
  <2>9. ASSUME NEW x \in SIDE, ChannelEnds(x) PROVE Fine /\ Kind
    BY <1>1, <1>2, <2>9, EndFlows DEF ChannelEnds
  <2> QED
    BY <2>1, <2>2, <2>3, <2>4, <2>5, <2>6, <2>7, <2>8, <2>9 DEF Next, User, SendMgr, StreamCloseMgr
<1>4. ExactlyOnceInOrder' /\ \A x \in SIDE, s \in SID : [Promise(x, s)!Next]_(Promise(x, s)!vars)
  BY <1>3, AllKept
<1> QED
  BY <1>3, <1>4 DEF FlowInv

LEMMA FlowInductive == ASSUME OnePrio, NoEmptyMessage PROVE Spec => []FlowInv
<1>1. TypeInv /\ FlowInv /\ [Next]_vars => FlowInv'
  BY StepKeeps
<1>2. Init => FlowInv
  BY InitFlows
<1> QED
  BY <1>1, <1>2, TypeInductive, PTL DEF Spec

(* Where all Streams have one priority and no message is empty, a user has *)
(* received a prefix of what the other sent on the Stream: every message   *)
(* once, unaltered and in order.  With several priorities the run          *)
(* MCTransportPrios shows that it has not.                                 *)
THEOREM PrefixReceived == ASSUME OnePrio, NoEmptyMessage PROVE Spec => []ExactlyOnceInOrder
<1>1. FlowInv => ExactlyOnceInOrder
  BY DEF FlowInv
<1> QED
  BY <1>1, FlowInductive, PTL

(* Two participants and their channel implement StreamPromise in both      *)
(* directions of each Stream, whatever breaks, where all Streams have one  *)
(* priority and no message is empty: no step of theirs delivers a message  *)
(* twice, altered or out of order, delivers after the end, or tells a user *)
(* of the end before everything sent was delivered.                        *)
THEOREM StreamsKeepPromise == ASSUME OnePrio, NoEmptyMessage PROVE Spec => KeepsPromise
<1>1. Init => \A x \in SIDE, s \in SID : Promise(x, s)!Init
  <2> SUFFICES ASSUME Init, NEW x \in SIDE, NEW s \in SID PROVE Promise(x, s)!Init
    OBVIOUS
  <2>1. inbox[x][s] = <<>> /\ ended[x] = {}
    BY DEF Init
  <2> QED
    BY <2>1 DEF Promise!Init, SentTo, Init, Peer, SIDE
<1>2. TypeInv /\ FlowInv /\ [Next]_vars
          => [\A x \in SIDE, s \in SID : [Promise(x, s)!Next]_(Promise(x, s)!vars)]_vars
  BY StepKeeps
<1> QED
  BY <1>1, <1>2, TypeInductive, FlowInductive, PTL DEF Spec, KeepsPromise
=============================================================================
