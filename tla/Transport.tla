------------------------------ MODULE Transport ------------------------------
(***************************************************************************)
(* Two BParticipants (network/src/participant.rs) joined by one channel,   *)
(* with the Streams their users hold (api.rs).  Each side runs open_mgr,   *)
(* send_mgr, stream_close_mgr, handle_frames_mgr and create_channel_mgr as *)
(* one task; the user's calls come from other threads.                     *)
(*                                                                         *)
(* PrioManager appears as one FIFO per priority from which send_mgr takes  *)
(* the next frame of any priority, and a flush request is answered when no *)
(* message of the Stream is left: FrameSource states this by itself, and   *)
(* Prios is shown to implement it.                                         *)
(* Payloads are counted in data frames.                                    *)
(***************************************************************************)
EXTENDS Naturals, Sequences, FiniteSets, Functions

CONSTANTS SID,         \* the Streams
          Opener,      \* the side that opens each Stream
          PrioOf,      \* the priority it is opened with
          Scenes,      \* bound: the Streams that are opened, how many messages
                       \* each side sends on each, the data frames they may
                       \* need, and the sides on which the channel may end
          NoSid        \* stream_close_mgr is not closing a Stream

SIDE == {"a", "b"}
Peer(x) == IF x = "a" THEN "b" ELSE "a"
PRIO == {PrioOf[s] : s \in SID}

ASSUME TransportAssumption ==
    /\ Opener \in [SID -> SIDE]
    /\ Scenes \subseteq [opens : SUBSET SID, messages : [SIDE -> [SID -> Nat]],
                        sizes : SUBSET Nat, breaks : SUBSET SIDE]
    /\ NoSid \notin SID

VARIABLES
    scene,        \* which of the Scenes it is
    streams,      \* BParticipant.streams: the Streams a side knows
    send_closed,  \* Streams whose send_closed is set
    recv_closed,  \* Streams whose receive channel is closed
    user,         \* what a side's user has of each Stream: none, held, dropped
    outbox,       \* history: sizes of the messages sent on a Stream
    inbox,        \* messages handed to the user of a Stream
    ended,        \* Streams held while the remote's CloseStream took effect
    prios,        \* the queues of PrioManager
    close_rx,     \* a2b_close_stream_r
    closing,      \* the Stream stream_close_mgr is closing, or NoSid
    assembly,     \* `messages' of handle_frames_mgr: by mid
    channel,      \* the sides whose channel is up
    wire,         \* frames a side has sent and the other has not handled
    left_over,    \* frames read before the channel ended, yet to be handled
    error         \* the sides whose shutdown_info.error is set

stream_vars == <<streams, send_closed, recv_closed>>
close_vars  == <<close_rx, closing>>
vars == <<scene, stream_vars, user, outbox, inbox, ended, prios, close_vars, assembly,
          channel, wire, left_over, error>>

OpenStream(s)        == [type |-> "OpenStream", sid |-> s]
CloseStream(s)       == [type |-> "CloseStream", sid |-> s]
DataHeader(m)        == [type |-> "DataHeader", mid |-> m.mid, sid |-> m.sid,
                         length |-> m.size]
Data(m)              == [type |-> "Data", mid |-> m.mid,
                         data |-> [sid |-> m.sid, mid |-> m.mid, part |-> m.cursor + 1]]

(* The payload of a message: the data of all its frames in order.          *)
Whole(s, mid, size) ==
    [i \in 1 .. size |-> [sid |-> s, mid |-> mid, part |-> i]]

Init ==
    /\ scene \in Scenes
    /\ streams = [x \in SIDE |-> {}]
    /\ send_closed = [x \in SIDE |-> {}]
    /\ recv_closed = [x \in SIDE |-> {}]
    /\ user = [x \in SIDE |-> [s \in SID |-> "none"]]
    /\ outbox = [x \in SIDE |-> [s \in SID |-> <<>>]]
    /\ inbox = [x \in SIDE |-> [s \in SID |-> <<>>]]
    /\ ended = [x \in SIDE |-> {}]
    /\ prios = [x \in SIDE |-> [p \in PRIO |-> <<>>]]
    /\ close_rx = [x \in SIDE |-> <<>>]
    /\ closing = [x \in SIDE |-> NoSid]
    /\ assembly = [x \in SIDE |-> <<>>]
    /\ channel = SIDE
    /\ wire = [x \in SIDE |-> <<>>]
    /\ left_over = [x \in SIDE |-> <<>>]
    /\ error = {}
-----------------------------------------------------------------------------
(* Side x knows the Streams `known' and closes those of `gone'.            *)
Close(x, known, gone) ==
    /\ streams' = [streams EXCEPT ![x] = known \ gone]
    /\ send_closed' = [send_closed EXCEPT ![x] = @ \cup gone]
    /\ recv_closed' = [recv_closed EXCEPT ![x] = @ \cup gone]

(* close_api closes every Stream there is.                                 *)
CloseApi(x, known) == Close(x, known, known)

(* send_frame: without a channel the frames are lost and the participant   *)
(* is closed with an error.                                                *)
SendFrames(x, fs, known) ==
    IF x \in channel
    THEN /\ wire' = [wire EXCEPT ![x] = @ \o fs]
         /\ streams' = [streams EXCEPT ![x] = known]
         /\ UNCHANGED <<send_closed, recv_closed, error>>
    ELSE /\ CloseApi(x, known)
         /\ error' = error \cup {x}
         /\ UNCHANGED wire
-----------------------------------------------------------------------------
(* Participant::open answered by open_mgr.  Only a Stream whose OpenStream *)
(* frame was sent is given to the user; after an error nothing happens.    *)
Open(x, s) ==
    /\ s \in scene.opens
    /\ Opener[s] = x
    /\ user[x][s] = "none"
    /\ x \notin error
    /\ SendFrames(x, <<OpenStream(s)>>, streams[x] \cup {s})
    /\ user' = IF x \in channel THEN [user EXCEPT ![x][s] = "held"] ELSE user
    /\ UNCHANGED <<scene, outbox, inbox, ended, prios, close_vars, assembly, channel, left_over>>

(* Stream::send_raw with a message of n data frames.                       *)
Send(x, s) ==
    /\ user[x][s] = "held"
    /\ s \notin send_closed[x]
    /\ Len(outbox[x][s]) < scene.messages[x][s]
    /\ \E n \in scene.sizes :
        /\ prios' = [prios EXCEPT ![x][PrioOf[s]] =
               Append(@, [sid |-> s, mid |-> Len(outbox[x][s]), size |-> n, cursor |-> 0])]
        /\ outbox' = [outbox EXCEPT ![x][s] = Append(@, n)]
    /\ UNCHANGED <<scene, stream_vars, user, inbox, ended, close_vars, assembly, channel,
                   wire, left_over, error>>

(* Drop of a Stream: stream_close_mgr is told unless it is closed already. *)
DropStream(x, s) ==
    /\ user[x][s] = "held"
    /\ user' = [user EXCEPT ![x][s] = "dropped"]
    /\ close_rx' = IF s \in send_closed[x] THEN close_rx
                   ELSE [close_rx EXCEPT ![x] = Append(@, s)]
    /\ UNCHANGED <<scene, stream_vars, outbox, inbox, ended, prios, closing, assembly,
                   channel, wire, left_over, error>>
-----------------------------------------------------------------------------
Finished(m) == m.cursor + 1 >= m.size

(* send_mgr: the next frame of a priority, through fill_next.              *)
SendNextFrame(x, p) ==
    /\ prios[x][p] # <<>>
    /\ LET m == Head(prios[x][p])
           fs == IF m.size = 0 THEN <<>>
                 ELSE IF m.cursor = 0 THEN <<DataHeader(m), Data(m)>>
                 ELSE <<Data(m)>>
       IN  /\ prios' = [prios EXCEPT ![x][p] =
                 IF Finished(m) THEN Tail(@)
                 ELSE [@ EXCEPT ![1].cursor = m.cursor + 1]]
           /\ IF fs = <<>>
              THEN UNCHANGED <<stream_vars, wire, error>>
              ELSE SendFrames(x, fs, streams[x])
    /\ UNCHANGED <<scene, user, outbox, inbox, ended, close_vars, assembly, channel, left_over>>

(* stream_close_mgr stops the user of a Stream and asks for its flush.     *)
BeginClose(x) ==
    /\ closing[x] = NoSid
    /\ close_rx[x] # <<>>
    /\ LET s == Head(close_rx[x])
       IN  /\ closing' = [closing EXCEPT ![x] = s]
           /\ send_closed' = [send_closed EXCEPT ![x] = @ \cup ({s} \cap streams[x])]
           /\ recv_closed' = [recv_closed EXCEPT ![x] = @ \cup ({s} \cap streams[x])]
    /\ close_rx' = [close_rx EXCEPT ![x] = Tail(@)]
    /\ UNCHANGED <<scene, streams, user, outbox, inbox, ended, prios, assembly, channel,
                   wire, left_over, error>>

(* Mutant: a Stream counts as flushed whatever is queued.                  *)
FlushedAlways(x, s) == s \in SID

Flushed(x, s) == \A i \in DOMAIN prios[x][PrioOf[s]] : prios[x][PrioOf[s]][i].sid # s

(* The flush is answered: the Stream is forgotten and CloseStream is sent. *)
FinishClose(x) ==
    /\ closing[x] # NoSid
    /\ Flushed(x, closing[x])
    /\ closing' = [closing EXCEPT ![x] = NoSid]
    /\ SendFrames(x, <<CloseStream(closing[x])>>, streams[x] \ {closing[x]})
    /\ UNCHANGED <<scene, user, outbox, inbox, ended, prios, close_rx, assembly, channel, left_over>>
-----------------------------------------------------------------------------
(* handle_frames_mgr, one operator per kind of frame.                      *)

(* Mutant: the Stream nobody gets is not asked to close.                   *)
HandleOpenStreamLeak(x, s) ==
    /\ streams' = [streams EXCEPT ![x] = @ \cup {s}]
    /\ user' = [user EXCEPT ![x][s] = IF x \in channel THEN "held" ELSE "dropped"]
    /\ UNCHANGED <<close_rx, send_closed, recv_closed, inbox, ended, assembly>>

(* The remote opened a Stream.  Once close_api has run nobody can be given *)
(* it any more: it is dropped at once, which asks for its closing.         *)
HandleOpenStream(x, s) ==
    /\ streams' = [streams EXCEPT ![x] = @ \cup {s}]
    /\ IF x \in channel
       THEN /\ user' = [user EXCEPT ![x][s] = "held"]
            /\ UNCHANGED close_rx
       ELSE /\ user' = [user EXCEPT ![x][s] = "dropped"]
            /\ close_rx' = [close_rx EXCEPT ![x] = Append(@, s)]
    /\ UNCHANGED <<send_closed, recv_closed, inbox, ended, assembly>>

(* The remote closed a Stream, without waiting for local messages.         *)
HandleCloseStream(x, s) ==
    /\ Close(x, streams[x], {s} \cap streams[x])
    /\ ended' = IF s \in streams[x] /\ user[x][s] = "held"
                THEN [ended EXCEPT ![x] = @ \cup {s}] ELSE ended
    /\ UNCHANGED <<user, close_rx, inbox, assembly>>

(* A message starts; it is remembered under its mid alone.                 *)
HandleDataHeader(x, f) ==
    /\ assembly' = [assembly EXCEPT ![x] =
           [m \in DOMAIN @ \cup {f.mid} |->
              IF m = f.mid THEN [sid |-> f.sid, length |-> f.length, data |-> <<>>]
              ELSE @[m]]]
    /\ UNCHANGED <<stream_vars, user, close_rx, inbox, ended>>

(* A message is complete: its Stream gets it if it is still there and its  *)
(* user still listens.                                                     *)
Deliver(x, s, data) ==
    inbox' = IF s \in streams[x] \ recv_closed[x] /\ user[x][s] = "held"
             THEN [inbox EXCEPT ![x][s] = Append(@, data)] ELSE inbox

(* Mutant: one frame more than the message has is waited for.              *)
CompleteTooLate(msg, data) == Len(data) > msg.length

Complete(msg, data) == Len(data) = msg.length

HandleData(x, f) ==
    /\ IF f.mid \notin DOMAIN assembly[x]
       THEN UNCHANGED <<assembly, inbox>>
       ELSE LET msg  == assembly[x][f.mid]
                data == Append(msg.data, f.data)
            IN  IF Complete(msg, data)
                THEN /\ assembly' = [assembly EXCEPT ![x] =
                                        Restrict(@, DOMAIN @ \ {f.mid})]
                     /\ Deliver(x, msg.sid, data)
                ELSE /\ assembly' = [assembly EXCEPT ![x][f.mid].data = data]
                     /\ UNCHANGED inbox
    /\ UNCHANGED <<stream_vars, user, close_rx, ended>>

Handle(x, f) ==
    \/ f.type = "OpenStream"  /\ HandleOpenStream(x, f.sid)
    \/ f.type = "CloseStream" /\ HandleCloseStream(x, f.sid)
    \/ f.type = "DataHeader"  /\ HandleDataHeader(x, f)
    \/ f.type = "Data"        /\ HandleData(x, f)

(* The next frame comes off the wire or, once the channel has ended, from  *)
(* what it had read before.                                                *)
HandleFrame(x) ==
    /\ IF x \in channel
       THEN /\ wire[Peer(x)] # <<>>
            /\ Handle(x, Head(wire[Peer(x)]))
            /\ wire' = [wire EXCEPT ![Peer(x)] = Tail(@)]
            /\ UNCHANGED left_over
       ELSE /\ left_over[x] # <<>>
            /\ Handle(x, Head(left_over[x]))
            /\ left_over' = [left_over EXCEPT ![x] = Tail(@)]
            /\ UNCHANGED wire
    /\ UNCHANGED <<scene, outbox, prios, closing, channel, error>>

(* create_channel_mgr: the channel of x ends, because reading or writing   *)
(* failed.  Of the frames x sent some prefix has left, of those sent to x  *)
(* some prefix was read; then close_api runs.                              *)
ChannelEnds(x) ==
    /\ x \in channel \cap scene.breaks
    /\ channel' = channel \ {x}
    /\ \E i \in 0 .. Len(wire[x]), j \in 0 .. Len(wire[Peer(x)]) :
          /\ wire' = [wire EXCEPT ![x] = SubSeq(@, 1, i), ![Peer(x)] = <<>>]
          /\ left_over' = [left_over EXCEPT ![x] = SubSeq(wire[Peer(x)], 1, j)]
    /\ CloseApi(x, streams[x])
    /\ UNCHANGED <<scene, user, outbox, inbox, ended, prios, close_vars, assembly, error>>

SendMgr(x) == \E p \in PRIO : SendNextFrame(x, p)
StreamCloseMgr(x) == BeginClose(x) \/ FinishClose(x)
User(x) == \E s \in SID : Open(x, s) \/ Send(x, s) \/ DropStream(x, s)

Next ==
    \E x \in SIDE :
        \/ User(x)
        \/ SendMgr(x)
        \/ StreamCloseMgr(x)
        \/ HandleFrame(x)
        \/ ChannelEnds(x)

Spec == Init /\ [][Next]_vars

(* The managers of a side are futures of one task, polled whenever they    *)
(* can proceed; join! serves them all.  Users and broken channels owe      *)
(* nothing.                                                                *)
FairSpec ==
    /\ Spec
    /\ \A x \in SIDE : /\ WF_vars(SendMgr(x))
                       /\ WF_vars(StreamCloseMgr(x))
                       /\ WF_vars(HandleFrame(x))
-----------------------------------------------------------------------------
Frame ==
    [type : {"OpenStream", "CloseStream"}, sid : SID]
    \cup [type : {"DataHeader"}, mid : Nat, sid : SID, length : Nat]
    \cup [type : {"Data"}, mid : Nat, data : [sid : SID, mid : Nat, part : Nat]]

TypeOK ==
    /\ \A v \in {streams, send_closed, recv_closed, ended} : v \in [SIDE -> SUBSET SID]
    /\ user \in [SIDE -> [SID -> {"none", "held", "dropped"}]]
    /\ outbox \in [SIDE -> [SID -> Seq(scene.sizes)]]
    /\ closing \in [SIDE -> SID \cup {NoSid}]
    /\ \A x \in SIDE :
        /\ close_rx[x] \in Seq(SID)
        /\ wire[x] \in Seq(Frame)
        /\ left_over[x] \in Seq(Frame)
        /\ \A m \in DOMAIN assembly[x] : Len(assembly[x][m].data) < assembly[x][m].length
    /\ channel \subseteq SIDE
    /\ error \subseteq SIDE

(* What was sent towards side x on Stream s, as payloads.                  *)
SentTo(x, s) ==
    [i \in DOMAIN outbox[Peer(x)][s] |-> Whole(s, i - 1, outbox[Peer(x)][s][i])]

(* Two participants and their channel keep the promise of their Streams,   *)
(* in both directions of each.                                             *)
Promise(x, s) ==
    INSTANCE StreamPromise WITH
        sent <- SentTo(x, s),
        received <- inbox[x][s],
        ended <- s \in ended[x]

KeepsPromise ==
    /\ \A x \in SIDE, s \in SID : Promise(x, s)!Init
    /\ [][\A x \in SIDE, s \in SID :
              [Promise(x, s)!Next]_(Promise(x, s)!vars)]_vars

(* "this will guarantee that the other side will receive every message     *)
(* exactly once" (PROMISES_GUARANTEED_DELIVERY), in the order of sending   *)
(* (PROMISES_ORDERED): what a user has received is a prefix of what the    *)
(* other user sent.                                                        *)
ExactlyOnceInOrder ==
    \A x \in SIDE, s \in SID :
        /\ Len(inbox[x][s]) <= Len(outbox[Peer(x)][s])
        /\ \A i \in DOMAIN inbox[x][s] : inbox[x][s][i] = SentTo(x, s)[i]

(* A message that was sent arrives, unless the receiving user closes the   *)
(* Stream or the channel ends.  The sender may drop the Stream right after *)
(* sending ("it will still send all messages", doc of Stream::send).       *)
EveryMessageArrives ==
    \A x \in SIDE, s \in SID :
        Len(inbox[x][s]) < Len(outbox[Peer(x)][s])
            ~> \/ Len(inbox[x][s]) = Len(outbox[Peer(x)][s])
               \/ user[x][s] = "dropped"
               \/ channel # SIDE

(* A Stream that a user dropped disappears from both sides for good, also  *)
(* when both drop it at the same time, when the channel ends in between or *)
(* when it was opened towards a side that is already closed.               *)
NoStreamLeaks ==
    \A x \in SIDE, s \in SID :
        user[x][s] = "dropped"
            ~> [](/\ s \notin streams[x]
                  /\ channel = SIDE => s \notin streams[Peer(x)])
=============================================================================
