-------------------------------- MODULE Prios --------------------------------
(***************************************************************************)
(* PrioManager (network/src/prios.rs) with OutgoingMessage::fill_next      *)
(* (message.rs): the stage of a BParticipant between the Streams, whose    *)
(* owners push messages from any thread, and the frames handed to a        *)
(* channel.  send_mgr calls fill_frames once per tick; stream_close_mgr    *)
(* registers a flush request for a Stream that was dropped and waits for   *)
(* the answer before it tells the remote side.                             *)
(*                                                                         *)
(* send_mgr and stream_close_mgr run in one task, so a flush request is    *)
(* only registered between two calls of fill_frames; a message may arrive  *)
(* at any moment.                                                          *)
(***************************************************************************)
EXTENDS PrioCosts, Sequences, FiniteSets

CONSTANTS SID,           \* the Streams of this participant
          PrioChoices,   \* the priorities the Streams may have been opened with
          Sizes,         \* data frames a message may need, 0 for no bytes
          MaxMessages,   \* bound: messages sent on one Stream
          FramesPerTick, \* no_of_frames of fill_frames
          NoSid          \* stream_close_mgr is not closing a Stream

ASSUME StreamAssumption ==
    /\ PrioChoices \subseteq [SID -> PRIO]
    /\ Sizes \subseteq Nat
    /\ MaxMessages \in Nat
    /\ FramesPerTick \in Nat \ {0}
    /\ NoSid \notin SID

VARIABLES
    prio_of,      \* Stream.prio, fixed when the Stream is opened
    mid,          \* Stream.mid: messages sent so far on each Stream
    dropped,      \* the Streams whose owner dropped them
    messages_rx,  \* messages pushed and not yet fetched by tick
    close_rx,     \* a2b_close_stream_r: Streams to be closed
    closing,      \* the Stream stream_close_mgr waits for, or NoSid
    flushed_rx,   \* sid_flushed_rx: flush requests not yet fetched
    flushed,      \* the Streams whose flush request was answered
    pc,           \* where fill_frames is: sleep, messages, flushes, fill
    budget,       \* iterations left of the loop of fill_frames
    messages,     \* the queue of every priority
    queued,       \* the priorities with a non-empty queue
    points,       \* the points charged to every priority
    owned,        \* keys of sid_owned
    len,          \* PidSidInfo.len of the keys, 0 for the others
    notify,       \* the keys whose PidSidInfo.empty_notify is Some
    frames        \* history: every frame filled, in order

api    == <<prio_of, mid, dropped>>
close  == <<close_rx, closing>>
manager == <<messages, queued, points, owned, len, notify>>
vars   == <<api, messages_rx, close, flushed_rx, flushed, pc, budget,
            manager, frames>>

Message == [sid : SID, mid : Nat, size : Nat, cursor : Nat]
Frame   == [sid : SID, mid : Nat, part : Nat, size : Nat]  \* part 0 is the DataHeader

Init ==
    /\ prio_of \in PrioChoices
    /\ mid = [s \in SID |-> 0]
    /\ dropped = {}
    /\ messages_rx = <<>>
    /\ close_rx = <<>>
    /\ closing = NoSid
    /\ flushed_rx = <<>>
    /\ flushed = {}
    /\ pc = "sleep"
    /\ budget = 0
    /\ messages = [p \in PRIO |-> <<>>]
    /\ queued = {}
    /\ points = NoPoints
    /\ owned = {}
    /\ len = [s \in SID |-> 0]
    /\ notify = {}
    /\ frames = <<>>
-----------------------------------------------------------------------------
(* Stream::send_raw, from the thread that owns the Stream.                 *)
Send(s) ==
    /\ s \notin dropped
    /\ mid[s] < MaxMessages
    /\ \E n \in Sizes :
          messages_rx' = Append(messages_rx,
                                [sid |-> s, mid |-> mid[s], size |-> n, cursor |-> 0])
    /\ mid' = [mid EXCEPT ![s] = @ + 1]
    /\ UNCHANGED <<prio_of, dropped, close, flushed_rx, flushed, pc, budget, manager,
                   frames>>

(* Drop of a Stream: nothing more is sent on it and its closing is asked for. *)
DropStream(s) ==
    /\ s \notin dropped
    /\ dropped' = dropped \cup {s}
    /\ close_rx' = Append(close_rx, s)
    /\ UNCHANGED <<prio_of, mid, messages_rx, closing, flushed_rx, flushed, pc, budget,
                   manager, frames>>

(* stream_close_mgr takes the next Stream and registers a flush request.   *)
RequestFlush ==
    /\ pc = "sleep"
    /\ closing = NoSid
    /\ close_rx # <<>>
    /\ closing' = Head(close_rx)
    /\ close_rx' = Tail(close_rx)
    /\ flushed_rx' = Append(flushed_rx, Head(close_rx))
    /\ UNCHANGED <<api, messages_rx, flushed, pc, budget, manager, frames>>

(* stream_close_mgr gets the answer and turns to the next Stream.          *)
FlushAnswered ==
    /\ pc = "sleep"
    /\ closing \in flushed
    /\ closing' = NoSid
    /\ UNCHANGED <<api, messages_rx, close_rx, flushed_rx, flushed, pc, budget,
                   manager, frames>>
-----------------------------------------------------------------------------
(* Mutant: tick looks at the flush requests first.                         *)
BeginFillFlushesFirst ==
    /\ pc = "sleep"
    /\ pc' = "flushes"
    /\ budget' = FramesPerTick
    /\ UNCHANGED <<api, messages_rx, close, flushed_rx, flushed, manager, frames>>

(* send_mgr wakes up and calls fill_frames, which starts with tick.        *)
BeginFill ==
    /\ pc = "sleep"
    /\ pc' = "messages"
    /\ budget' = FramesPerTick
    /\ UNCHANGED <<api, messages_rx, close, flushed_rx, flushed, manager, frames>>

(* Mutant: new messages are pushed where unfinished ones are put back.     *)
FetchMessageInFront ==
    /\ pc = "messages"
    /\ messages_rx # <<>>
    /\ LET m == Head(messages_rx)
           p == prio_of[m.sid]
       IN  /\ messages' = [messages EXCEPT ![p] = <<m>> \o @]
           /\ queued' = queued \cup {p}
           /\ owned' = owned \cup {m.sid}
           /\ len' = [len EXCEPT ![m.sid] = @ + 1]
    /\ messages_rx' = Tail(messages_rx)
    /\ UNCHANGED <<api, close, flushed_rx, flushed, pc, budget, points, notify, frames>>

(* tick: the loop over messages_rx, one message.                           *)
FetchMessage ==
    /\ pc = "messages"
    /\ messages_rx # <<>>
    /\ LET m == Head(messages_rx)
           p == prio_of[m.sid]
       IN  /\ messages' = [messages EXCEPT ![p] = Append(@, m)]
           /\ queued' = queued \cup {p}
           /\ owned' = owned \cup {m.sid}
           /\ len' = [len EXCEPT ![m.sid] = @ + 1]
    /\ messages_rx' = Tail(messages_rx)
    /\ UNCHANGED <<api, close, flushed_rx, flushed, pc, budget, points, notify, frames>>

(* tick: messages_rx is found empty, the flush requests are next.          *)
MessagesFetched ==
    /\ pc = "messages"
    /\ messages_rx = <<>>
    /\ pc' = "flushes"
    /\ UNCHANGED <<api, messages_rx, close, flushed_rx, flushed, budget, manager, frames>>

(* tick: the loop over sid_flushed_rx.  A Stream without queued messages   *)
(* is answered at once, the others when their last message is filled.      *)
FetchFlushRequest ==
    /\ pc = "flushes"
    /\ flushed_rx # <<>>
    /\ LET s == Head(flushed_rx)
       IN  IF s \in owned
           THEN notify' = notify \cup {s} /\ UNCHANGED flushed
           ELSE flushed' = flushed \cup {s} /\ UNCHANGED notify
    /\ flushed_rx' = Tail(flushed_rx)
    /\ UNCHANGED <<api, messages_rx, close, pc, budget, messages, queued, points,
                   owned, len, frames>>

FlushesFetched ==
    /\ pc = "flushes"
    /\ flushed_rx = <<>>
    /\ pc' = "fill"
    /\ UNCHANGED <<api, messages_rx, close, flushed_rx, flushed, budget, manager, frames>>
-----------------------------------------------------------------------------
(* fill_next: the header with the first data frame, then one data frame    *)
(* per call; a message without bytes is finished without a frame.          *)
FilledFrames(m) ==
    LET data == [sid |-> m.sid, mid |-> m.mid, part |-> m.cursor + 1, size |-> m.size]
    IN  IF m.size = 0 THEN <<>>
        ELSE IF m.cursor = 0 THEN <<[data EXCEPT !.part = 0], data>>
        ELSE <<data>>

(* Mutant: the last data frame is forgotten.                               *)
FinishedTooEarly(m) == m.cursor + 2 >= m.size

Finished(m) == m.cursor + 1 >= m.size

(* Mutant: the unfinished message goes to the back, "so that all messages  *)
(* with same prio get a fair chance".                                      *)
PutBackLast(q) == Append(Tail(q), [Head(q) EXCEPT !.cursor = @ + 1])

(* A message with frames left is pushed to the front of its queue again.   *)
PutBack(q) == [q EXCEPT ![1].cursor = @ + 1]

(* Mutant: the entry outlives the last message.                            *)
ReleaseOwnerNever(s) ==
    /\ len' = [len EXCEPT ![s] = @ - 1]
    /\ UNCHANGED <<owned, notify, flushed>>

(* Mutant: nobody is told.                                                 *)
ReleaseOwnerSilently(s) ==
    /\ len' = [len EXCEPT ![s] = @ - 1]
    /\ owned' = IF len[s] = 1 THEN owned \ {s} ELSE owned
    /\ notify' = IF len[s] = 1 THEN notify \ {s} ELSE notify
    /\ UNCHANGED flushed

(* The last message of s leaves: its entry goes and a waiting flush request *)
(* is answered.                                                             *)
ReleaseOwner(s) ==
    /\ len' = [len EXCEPT ![s] = @ - 1]
    /\ IF len[s] = 1
       THEN /\ owned' = owned \ {s}
            /\ notify' = notify \ {s}
            /\ flushed' = flushed \cup (notify \cap {s})
       ELSE UNCHANGED <<owned, notify, flushed>>

(* The body of the loop of fill_frames for the priority it found.          *)
FillFrom(p) ==
    /\ p \in NextPrio(points, queued)
    /\ points' = Charge(points, p)
    /\ budget' = budget - 1
    /\ LET m == Head(messages[p])
       IN  /\ frames' = frames \o FilledFrames(m)
           /\ IF Finished(m)
              THEN /\ messages' = [messages EXCEPT ![p] = Tail(@)]
                   /\ queued' = IF Tail(messages[p]) = <<>> THEN queued \ {p} ELSE queued
                   /\ ReleaseOwner(m.sid)
              ELSE /\ messages' = [messages EXCEPT ![p] = PutBack(@)]
                   /\ UNCHANGED <<queued, len, owned, notify, flushed>>
    /\ UNCHANGED <<api, messages_rx, close, flushed_rx, pc>>

(* Mutant: one iteration too many.                                         *)
FillFrameOnceMore(p) == pc = "fill" /\ FillFrom(p)

(* One iteration of the loop that finds a priority.                        *)
FillFrame(p) == pc = "fill" /\ budget > 0 /\ FillFrom(p)

(* The iteration that finds none: the points are cleared, the loop is left. *)
FillEmpty ==
    /\ pc = "fill"
    /\ budget > 0
    /\ NextPrio(points, queued) = {}
    /\ points' = NoPoints
    /\ pc' = "sleep"
    /\ budget' = 0
    /\ UNCHANGED <<api, messages_rx, close, flushed_rx, flushed, messages, queued,
                   owned, len, notify, frames>>

(* All iterations are used up: what is left waits for the next tick.       *)
FillDone ==
    /\ pc = "fill"
    /\ budget = 0
    /\ pc' = "sleep"
    /\ UNCHANGED <<api, messages_rx, close, flushed_rx, flushed, budget, manager, frames>>

Api == \E s \in SID : Send(s) \/ DropStream(s)

StreamCloseMgr == RequestFlush \/ FlushAnswered

FillFrames ==
    \/ BeginFill
    \/ FetchMessage
    \/ MessagesFetched
    \/ FetchFlushRequest
    \/ FlushesFetched
    \/ \E p \in PRIO : FillFrame(p)
    \/ FillEmpty
    \/ FillDone

Next == Api \/ StreamCloseMgr \/ FillFrames

Spec == Init /\ [][Next]_vars

(* send_mgr sleeps TICK_TIME between two calls and never stops calling;    *)
(* stream_close_mgr runs in the same task whenever send_mgr sleeps.  The   *)
(* owners of Streams owe nothing.  RequestFlush and FlushAnswered are only *)
(* enabled between ticks, hence the strong fairness.                       *)
FairSpec == Spec /\ WF_vars(FillFrames) /\ SF_vars(StreamCloseMgr)
-----------------------------------------------------------------------------
TypeOK ==
    /\ prio_of \in [SID -> PRIO]
    /\ mid \in [SID -> Nat]
    /\ dropped \subseteq SID
    /\ messages_rx \in Seq(Message)
    /\ close_rx \in Seq(SID)
    /\ closing \in SID \cup {NoSid}
    /\ flushed_rx \in Seq(SID)
    /\ flushed \subseteq SID
    /\ pc \in {"sleep", "messages", "flushes", "fill"}
    /\ budget \in Nat
    /\ messages \in [PRIO -> Seq(Message)]
    /\ queued \subseteq PRIO
    /\ points \in [PRIO -> 0 .. PointsMod - 1]
    /\ owned \subseteq SID
    /\ len \in [SID -> Nat]
    /\ notify \subseteq SID
    /\ frames \in Seq(Frame)

(* Where the messages of s are in the queue q, and in that of its priority. *)
Positions(q, s) == {i \in DOMAIN q : q[i].sid = s}

Waiting(s) == Positions(messages[prio_of[s]], s)

(* The three redundant views PrioManager keeps of its queues agree: a      *)
(* priority is in `queued' exactly when its queue is not empty, and        *)
(* sid_owned counts the messages of every Stream and holds no Stream that  *)
(* has none.  The .expect("The pid_sid_owned counter works wrong...") and  *)
(* the pop_front().unwrap() of fill_frames rely on it.                     *)
Bookkeeping ==
    /\ queued = {p \in PRIO : messages[p] # <<>>}
    /\ \A s \in SID : len[s] = Cardinality(Waiting(s))
    /\ owned = {s \in SID : len[s] > 0}
    /\ notify \subseteq owned
    /\ \A p \in PRIO : \A i \in DOMAIN messages[p] : prio_of[messages[p][i].sid] = p

Sids(q) == {q[i].sid : i \in DOMAIN q}

(* A flush is only reported once nothing of the Stream is left anywhere in *)
(* PrioManager: no message waits in a queue or has yet to be fetched.      *)
(* stream_close_mgr sends CloseStream on the strength of this report.      *)
FlushIsComplete ==
    \A s \in flushed :
        /\ Waiting(s) = {}
        /\ s \notin Sids(messages_rx)

(* The same seen in the frames: once a flush is reported, the last data    *)
(* frame of every message sent on the Stream has been filled.              *)
FlushedInFull ==
    (0 \notin Sizes) =>
        \A s \in flushed :
            {frames[i].mid : i \in {j \in DOMAIN frames :
                /\ frames[j].sid = s
                /\ frames[j].part = frames[j].size}} = 0 .. mid[s] - 1

(* Of the frames fs: the frame of the same priority that was filled before *)
(* frame i, as a set (empty if frame i is the first of its priority), and  *)
(* the headers of a Stream among the first n.                              *)
Before(fs, i) == {j \in 1 .. i - 1 : prio_of[fs[j].sid] = prio_of[fs[i].sid]}

Previous(fs, i) == {j \in Before(fs, i) : \A k \in Before(fs, i) : k <= j}

Headers(fs, s, n) == {j \in 1 .. n : fs[j].sid = s /\ fs[j].part = 0}

(* Frame i of fs continues the unfinished message of the frame before it,  *)
(* or is the header of the next message of a Stream after the last frame   *)
(* of a message.                                                           *)
Continues(fs, i) ==
    \E j \in Previous(fs, i) :
        fs[j].part < fs[j].size /\ fs[i] = [fs[j] EXCEPT !.part = @ + 1]

Starts(fs, i) ==
    /\ \A j \in Previous(fs, i) : fs[j].part = fs[j].size
    /\ fs[i].part = 0
    /\ (0 \notin Sizes) => fs[i].mid = Cardinality(Headers(fs, fs[i].sid, i - 1))

(* Inside one priority messages do not mix and Streams keep their order.   *)
(* The reassembly of the remote side depends on it.                        *)
NoMixing == \A i \in DOMAIN frames : Continues(frames, i) \/ Starts(frames, i)

(* The messages of the queue q; by sid and mid, which of two of them is    *)
(* the first; and the same of all that PrioManager holds or has to fetch,  *)
(* priority by priority.                                                   *)
Elems(q) == {q[i] : i \in DOMAIN q}

Key(m) == <<m.sid, m.mid>>

Order(q) ==
    {<<Key(q[w[1]]), Key(q[w[2]])>> : w \in {v \in (DOMAIN q) \X (DOMAIN q) : v[1] < v[2]}}

Queued == UNION {Elems(messages[p]) : p \in PRIO}

SamePrio(pairs) == {e \in pairs : prio_of[e[1][1]] = prio_of[e[2][1]]}

Across(P, Q) == {<<Key(w[1]), Key(w[2])>> : w \in P \X Q}

Ahead ==
    (UNION {Order(messages[p]) : p \in PRIO})
    \cup SamePrio(Across(Queued, Elems(messages_rx)) \cup Order(messages_rx))

(* PrioManager, its channels and its loop together are what the managers   *)
(* of the participant take them for: lines of messages, one per priority,  *)
(* served in the order of Stream::send whatever thread it was called from, *)
(* and flushes answered exactly when the last message has left.            *)
Source ==
    INSTANCE FrameSource WITH
        prio <- prio_of,
        sent <- mid,
        waiting <- Queued \cup Elems(messages_rx),
        ahead <- Ahead,
        asked <- Elems(flushed_rx) \cup notify,
        answered <- flushed,
        filled <- frames

ServesInOrder == Source!Spec

(* Every dropped Stream is reported flushed, whatever else is queued.      *)
EveryDropFlushed == \A s \in SID : s \in dropped ~> s \in flushed
=============================================================================
