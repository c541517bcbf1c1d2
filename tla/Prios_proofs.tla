----------------------------- MODULE Prios_proofs -----------------------------
(***************************************************************************)
(* Proofs about PrioManager for any set of Streams and priorities, any     *)
(* message sizes and any number of frames per tick.                        *)
(***************************************************************************)
EXTENDS Prios, FiniteSetTheorems, SequenceTheorems, TLAPS

(* The positions of a Stream in a queue are finitely many.                 *)
LEMMA PositionsFinite ==
    ASSUME NEW q \in Seq(Message), NEW s
    PROVE  /\ IsFiniteSet(Positions(q, s))
           /\ Cardinality(Positions(q, s)) \in Nat
<1>1. DOMAIN q = 1 .. Len(q) /\ Len(q) \in Nat
  BY LenProperties
<1>2. IsFiniteSet(1 .. Len(q))
  BY <1>1, FS_Interval
<1>3. Positions(q, s) \in SUBSET (1 .. Len(q))
  BY <1>1 DEF Positions
<1> QED
  BY <1>2, <1>3, FS_Subset, FS_CardinalityType

(* Appending a message adds one position to its Stream and none to others. *)
LEMMA AppendCounts ==
    ASSUME NEW q \in Seq(Message), NEW m \in Message, NEW s
    PROVE  Cardinality(Positions(Append(q, m), s))
               = Cardinality(Positions(q, s)) + (IF m.sid = s THEN 1 ELSE 0)
<1> DEFINE r == Append(q, m)
<1>1. /\ Len(q) \in Nat /\ DOMAIN q = 1 .. Len(q)
      /\ DOMAIN r = 1 .. Len(q) + 1
      /\ \A i \in 1 .. Len(q) : r[i] = q[i]
      /\ r[Len(q) + 1] = m
  BY AppendProperties, LenProperties
<1>2. CASE m.sid = s
  <2>1. Positions(r, s) = Positions(q, s) \cup {Len(q) + 1}
    BY <1>1, <1>2 DEF Positions
  <2>2. Len(q) + 1 \notin Positions(q, s)
    BY <1>1 DEF Positions
  <2> QED
    BY <1>2, <2>1, <2>2, PositionsFinite, FS_AddElement
<1>3. CASE m.sid # s
  <2>1. Positions(r, s) = Positions(q, s)
    BY <1>1, <1>3 DEF Positions
  <2> QED
    BY <1>3, <2>1, PositionsFinite
<1> QED
  BY <1>2, <1>3

(* Removing the head takes one position from its Stream, none from others. *)
LEMMA TailCounts ==
    ASSUME NEW q \in Seq(Message), q # <<>>, NEW s
    PROVE  Cardinality(Positions(Tail(q), s))
               = Cardinality(Positions(q, s)) - (IF Head(q).sid = s THEN 1 ELSE 0)
<1> DEFINE t == Tail(q)
           later == Positions(q, s) \ {1}
           shift == [i \in Positions(t, s) |-> i + 1]
<1>1. /\ Len(q) \in Nat \ {0} /\ DOMAIN q = 1 .. Len(q)
      /\ t \in Seq(Message)
      /\ Len(t) = Len(q) - 1 /\ DOMAIN t = 1 .. Len(q) - 1
      /\ \A i \in 1 .. Len(q) - 1 : t[i] = q[i + 1]
      /\ Head(q) = q[1]
  BY EmptySeq, HeadTailProperties, LenProperties
<1>2. shift \in Bijection(Positions(t, s), later)
  <2>1. shift \in [Positions(t, s) -> later]
    BY <1>1 DEF Positions
  <2>2. shift \in Injection(Positions(t, s), later)
    BY <1>1, <2>1 DEF Positions, Injection, IsInjective
  <2>3. ASSUME NEW j \in later
        PROVE  \E i \in Positions(t, s) : shift[i] = j
    <3>1. j - 1 \in Positions(t, s)
      BY <1>1 DEF Positions
    <3> QED
      BY <1>1, <3>1 DEF Positions
  <2> QED
    BY <2>1, <2>2, <2>3 DEF Bijection, Surjection
<1>3. Cardinality(Positions(t, s)) = Cardinality(later)
  <2>1. ExistsBijection(Positions(t, s), later)
    BY <1>2 DEF ExistsBijection
  <2>2. IsFiniteSet(Positions(t, s))
    BY <1>1, PositionsFinite
  <2> HIDE DEF t, later
  <2> QED
    BY <2>1, <2>2, FS_Bijection
<1>4. Cardinality(later) = IF 1 \in Positions(q, s) THEN Cardinality(Positions(q, s)) - 1
                                                    ELSE Cardinality(Positions(q, s))
  BY PositionsFinite, FS_RemoveElement
<1>5. 1 \in Positions(q, s) <=> Head(q).sid = s
  BY <1>1 DEF Positions
<1> QED
  BY <1>3, <1>4, <1>5, PositionsFinite

(* One more frame of a message is filled.                                  *)
LEMMA CursorAdvances ==
    ASSUME NEW m \in Message
    PROVE  LET n == [m EXCEPT !.cursor = m.cursor + 1]
           IN  n \in Message /\ n.sid = m.sid
<1>1. m.cursor \in Nat
  BY DEF Message
<1>2. m.cursor + 1 \in Nat
  BY <1>1
<1> QED
  BY <1>2 DEF Message

(* Putting back an unfinished message changes no position.                 *)
LEMMA PutBackCounts ==
    ASSUME NEW q \in Seq(Message), q # <<>>, NEW s
    PROVE  /\ PutBack(q) \in Seq(Message)
           /\ PutBack(q) # <<>>
           /\ DOMAIN PutBack(q) = DOMAIN q
           /\ \A i \in DOMAIN q : PutBack(q)[i].sid = q[i].sid
           /\ Positions(PutBack(q), s) = Positions(q, s)
<1> DEFINE m == [q[1] EXCEPT !.cursor = q[1].cursor + 1]
<1>1. Len(q) \in Nat \ {0} /\ DOMAIN q = 1 .. Len(q)
  BY EmptySeq, LenProperties
<1>2. q[1] \in Message
  BY <1>1, ElementOfSeq
<1>3. m \in Message /\ m.sid = q[1].sid
  BY <1>2, CursorAdvances
<1>4. PutBack(q) = [q EXCEPT ![1] = m]
  BY DEF PutBack
<1>5. /\ PutBack(q) \in Seq(Message)
      /\ Len(PutBack(q)) = Len(q)
      /\ \A j \in 1 .. Len(q) : PutBack(q)[j] = IF j = 1 THEN m ELSE q[j]
  BY <1>1, <1>3, <1>4, ExceptSeq
<1>6. DOMAIN PutBack(q) = DOMAIN q /\ PutBack(q) # <<>>
  BY <1>1, <1>5, LenProperties, EmptySeq
<1>7. \A i \in DOMAIN q : PutBack(q)[i].sid = q[i].sid
  BY <1>1, <1>3, <1>5
<1>8. Positions(PutBack(q), s) = Positions(q, s)
  BY <1>6, <1>7 DEF Positions
<1> QED
  BY <1>5, <1>6, <1>7, <1>8
-----------------------------------------------------------------------------
(* calc_next_prio finds a queued priority.                                 *)
LEMMA NextPrioIsQueued ==
    ASSUME NEW p \in NextPrio(points, queued)
    PROVE  p \in queued
  BY DEF NextPrio, Eligible

(* The counters stay in their word.                                        *)
LEMMA ChargeType ==
    ASSUME NEW f \in [PRIO -> 0 .. PointsMod - 1], NEW p \in PRIO
    PROVE  Charge(f, p) \in [PRIO -> 0 .. PointsMod - 1]
<1>1. f[p] + Cost[p] \in Nat /\ PointsMod \in Nat \ {0}
  BY PrioAssumption
<1>2. (f[p] + Cost[p]) % PointsMod \in 0 .. PointsMod - 1
  BY <1>1
<1> QED
  BY <1>2 DEF Charge

LEMMA NoPointsType == NoPoints \in [PRIO -> 0 .. PointsMod - 1]
  BY PrioAssumption DEF NoPoints

(* fill_next yields frames.                                                *)
LEMMA FilledFramesType ==
    ASSUME NEW m \in Message
    PROVE  FilledFrames(m) \in Seq(Frame)
<1> DEFINE data == [sid |-> m.sid, mid |-> m.mid, part |-> m.cursor + 1, size |-> m.size]
           header == [sid |-> m.sid, mid |-> m.mid, part |-> 0, size |-> m.size]
<1>1. m.cursor \in Nat /\ m.cursor + 1 \in Nat
  BY DEF Message
<1>2. data \in Frame /\ header \in Frame
  BY <1>1 DEF Message, Frame
<1>3. [data EXCEPT !.part = 0] = header
  OBVIOUS
<1>4. /\ <<>> \in Seq(Frame)
      /\ <<header, data>> \in Seq(Frame)
      /\ <<data>> \in Seq(Frame)
  <2> HIDE DEF data, header
  <2> QED
    BY <1>2
<1> QED
  BY <1>3, <1>4 DEF FilledFrames

(* What is known of the message at the head of the priority to be served:  *)
(* the unwraps and the expect of fill_frames cannot fail.                  *)
LEMMA HeadFacts ==
    ASSUME TypeOK, Bookkeeping, NEW p \in queued
    PROVE  /\ p \in PRIO
           /\ messages[p] \in Seq(Message) /\ messages[p] # <<>>
           /\ Head(messages[p]) \in Message
           /\ prio_of[Head(messages[p]).sid] = p
           /\ len[Head(messages[p]).sid] > 0
           /\ Head(messages[p]).sid \in owned
<1> DEFINE q == messages[p]
           s == Head(q).sid
<1>1. p \in PRIO /\ q \in Seq(Message) /\ q # <<>>
  BY DEF TypeOK, Bookkeeping
<1>2. Head(q) \in Message /\ Head(q) = q[1] /\ 1 \in DOMAIN q
  BY <1>1, EmptySeq, HeadTailProperties, LenProperties
<1>3. s \in SID /\ prio_of[s] = p
  BY <1>1, <1>2 DEF Bookkeeping, Message
<1>4. len[s] = Cardinality(Positions(q, s))
  BY <1>3 DEF Bookkeeping, Waiting
<1>5. Tail(q) \in Seq(Message)
  BY <1>1, HeadTailProperties
<1>6. Cardinality(Positions(q, s)) - 1 \in Nat /\ Cardinality(Positions(q, s)) \in Nat
  BY <1>1, <1>5, TailCounts, PositionsFinite
<1>7. len[s] > 0
  BY <1>4, <1>6
<1> QED
  BY <1>1, <1>2, <1>3, <1>7 DEF Bookkeeping

(* Every step keeps the types; that of ReleaseOwner rests on Bookkeeping.  *)
LEMMA TypeStep ==
    ASSUME TypeOK, Bookkeeping, Next
    PROVE  TypeOK'
<1> USE DEF TypeOK, vars, api, close, manager
<1>1. ASSUME NEW s \in SID, Send(s)
      PROVE  TypeOK'
  <2>1. PICK n \in Sizes :
            messages_rx' = Append(messages_rx,
                [sid |-> s, mid |-> mid[s], size |-> n, cursor |-> 0])
    BY <1>1 DEF Send
  <2>2. [sid |-> s, mid |-> mid[s], size |-> n, cursor |-> 0] \in Message
    BY StreamAssumption DEF Message
  <2>3. messages_rx' \in Seq(Message)
    BY <2>1, <2>2, AppendProperties
  <2>4. mid' \in [SID -> Nat]
    BY <1>1 DEF Send
  <2> QED
    BY <1>1, <2>3, <2>4 DEF Send
<1>2. ASSUME NEW s \in SID, DropStream(s)
      PROVE  TypeOK'
  BY <1>2, AppendProperties DEF DropStream
<1>3. CASE RequestFlush
  <2>1. Head(close_rx) \in SID /\ Tail(close_rx) \in Seq(SID)
    BY <1>3, HeadTailProperties DEF RequestFlush
  <2> QED
    BY <1>3, <2>1, AppendProperties DEF RequestFlush
<1>4. CASE FlushAnswered
  BY <1>4 DEF FlushAnswered
<1>5. CASE BeginFill
  BY <1>5, StreamAssumption DEF BeginFill
<1>6. CASE FetchMessage
  <2> DEFINE m == Head(messages_rx)
             p == prio_of[m.sid]
  <2>1. m \in Message /\ Tail(messages_rx) \in Seq(Message)
    BY <1>6, HeadTailProperties DEF FetchMessage
  <2>2. m.sid \in SID /\ p \in PRIO
    BY <2>1 DEF Message
  <2>3. Append(messages[p], m) \in Seq(Message)
    BY <2>1, <2>2, AppendProperties
  <2> HIDE DEF m, p
  <2>4. /\ messages' = [messages EXCEPT ![p] = Append(messages[p], m)]
        /\ queued' = queued \cup {p}
        /\ owned' = owned \cup {m.sid}
        /\ len' = [len EXCEPT ![m.sid] = len[m.sid] + 1]
        /\ messages_rx' = Tail(messages_rx)
        /\ UNCHANGED <<api, close, flushed_rx, flushed, pc, budget, points, notify, frames>>
    BY <1>6 DEF FetchMessage, m, p
  <2>5. messages' \in [PRIO -> Seq(Message)] /\ queued' \subseteq PRIO
    BY <2>2, <2>3, <2>4
  <2>6. owned' \subseteq SID /\ len' \in [SID -> Nat]
    BY <2>2, <2>4
  <2>7. messages_rx' \in Seq(Message)
    BY <2>1, <2>4
  <2> QED
    BY <2>4, <2>5, <2>6, <2>7
<1>7. CASE MessagesFetched
  BY <1>7 DEF MessagesFetched
<1>8. CASE FetchFlushRequest
  <2>1. Head(flushed_rx) \in SID /\ Tail(flushed_rx) \in Seq(SID)
    BY <1>8, HeadTailProperties DEF FetchFlushRequest
  <2> QED
    BY <1>8, <2>1 DEF FetchFlushRequest
<1>9. CASE FlushesFetched
  BY <1>9 DEF FlushesFetched
<1>10. ASSUME NEW p \in PRIO, FillFrame(p)
       PROVE  TypeOK'
  <2> DEFINE m == Head(messages[p])
  <2>1. p \in queued
    BY <1>10, NextPrioIsQueued DEF FillFrame, FillFrom
  <2>2. /\ messages[p] \in Seq(Message) /\ messages[p] # <<>>
        /\ m \in Message /\ m.sid \in SID /\ len[m.sid] > 0
    BY <2>1, HeadFacts DEF Message
  <2>3. Tail(messages[p]) \in Seq(Message) /\ PutBack(messages[p]) \in Seq(Message)
    BY <2>2, HeadTailProperties, PutBackCounts
  <2>4. points' \in [PRIO -> 0 .. PointsMod - 1]
    BY <1>10, ChargeType DEF FillFrame, FillFrom
  <2>5. frames' \in Seq(Frame)
    BY <1>10, <2>2, FilledFramesType, ConcatProperties DEF FillFrame, FillFrom
  <2>6. budget' \in Nat
    BY <1>10 DEF FillFrame, FillFrom
  <2>7. UNCHANGED <<api, messages_rx, close, flushed_rx, pc>>
    BY <1>10 DEF FillFrame, FillFrom
  <2>8. CASE Finished(m)
    <3>1. /\ messages' = [messages EXCEPT ![p] = Tail(messages[p])]
          /\ queued' = IF Tail(messages[p]) = <<>> THEN queued \ {p} ELSE queued
          /\ ReleaseOwner(m.sid)
      BY <1>10, <2>8 DEF FillFrame, FillFrom
    <3>2. messages' \in [PRIO -> Seq(Message)] /\ queued' \subseteq PRIO
      BY <2>3, <3>1
    <3>3. len' \in [SID -> Nat]
      <4>1. len' = [len EXCEPT ![m.sid] = len[m.sid] - 1] /\ len \in [SID -> Nat]
        BY <3>1 DEF ReleaseOwner
      <4>2. len[m.sid] - 1 \in Nat
        BY <2>2, <4>1
      <4> HIDE DEF m
      <4> QED BY <4>1, <4>2
    <3>4. owned' \subseteq SID /\ notify' \subseteq SID /\ flushed' \subseteq SID
      <4>1. /\ owned' \subseteq owned /\ notify' \subseteq notify
            /\ flushed' \subseteq flushed \cup notify
        BY <3>1 DEF ReleaseOwner
      <4> QED BY <4>1
    <3> QED
      BY <2>4, <2>5, <2>6, <2>7, <3>2, <3>3, <3>4
  <2>9. CASE ~Finished(m)
    <3>1. /\ messages' = [messages EXCEPT ![p] = PutBack(messages[p])]
          /\ UNCHANGED <<queued, len, owned, notify, flushed>>
      BY <1>10, <2>9 DEF FillFrame, FillFrom
    <3> QED
      BY <2>3, <2>4, <2>5, <2>6, <2>7, <3>1
  <2> QED
    BY <2>8, <2>9
<1>11. CASE FillEmpty
  BY <1>11, NoPointsType DEF FillEmpty
<1>12. CASE FillDone
  BY <1>12 DEF FillDone
<1> QED
  BY <1>1, <1>2, <1>3, <1>4, <1>5, <1>6, <1>7, <1>8, <1>9, <1>10, <1>11, <1>12
  DEF Next, Api, StreamCloseMgr, FillFrames
-----------------------------------------------------------------------------
(* Only the queues and what is recorded about them matter to Bookkeeping.  *)
LEMMA BookkeepingUntouched ==
    ASSUME Bookkeeping, UNCHANGED <<prio_of, messages, queued, owned, len, notify>>
    PROVE  Bookkeeping'
  BY DEF Bookkeeping, Waiting, Positions

(* A message of Stream m.sid is appended to its queue.                     *)
LEMMA FetchKeepsBookkeeping ==
    ASSUME TypeOK, Bookkeeping, FetchMessage
    PROVE  Bookkeeping'
<1> DEFINE m == Head(messages_rx)
           p == prio_of[m.sid]
           q == messages[p]
<1>1. /\ m \in Message /\ m.sid \in SID
      /\ p \in PRIO /\ q \in Seq(Message)
  <2>1. m \in Message
    BY HeadTailProperties DEF TypeOK, FetchMessage
  <2>2. m.sid \in SID
    BY <2>1 DEF Message
  <2> QED
    BY <2>1, <2>2 DEF TypeOK
<1>2. /\ messages' = [messages EXCEPT ![p] = Append(q, m)]
      /\ queued' = queued \cup {p}
      /\ owned' = owned \cup {m.sid}
      /\ len' = [len EXCEPT ![m.sid] = len[m.sid] + 1]
      /\ notify' = notify /\ prio_of' = prio_of
  BY DEF FetchMessage, api
<1>3. /\ messages \in [PRIO -> Seq(Message)] /\ len \in [SID -> Nat]
      /\ prio_of \in [SID -> PRIO] /\ queued \subseteq PRIO /\ owned \subseteq SID
  BY DEF TypeOK
<1>4. /\ Append(q, m) # <<>>
      /\ Len(q) \in Nat /\ DOMAIN q = 1 .. Len(q)
      /\ DOMAIN Append(q, m) = 1 .. Len(q) + 1
      /\ \A i \in 1 .. Len(q) : Append(q, m)[i] = q[i]
      /\ Append(q, m)[Len(q) + 1] = m
  <2>1. /\ Append(q, m) \in Seq(Message) /\ Len(Append(q, m)) = Len(q) + 1
        /\ \A i \in 1 .. Len(q) : Append(q, m)[i] = q[i]
        /\ Append(q, m)[Len(q) + 1] = m
    BY <1>1, AppendProperties
  <2> QED
    BY <1>1, <2>1, LenProperties, EmptySeq
<1>p. p = prio_of[m.sid] /\ q = messages[p]
  OBVIOUS
<1> HIDE DEF m, p, q
<1>5. queued' = {r \in PRIO : messages'[r] # <<>>}
  BY <1>1, <1>2, <1>3, <1>4 DEF Bookkeeping
<1>6. ASSUME NEW s \in SID
      PROVE  len'[s] = Cardinality(Waiting(s))'
  <2>1. len[s] = Cardinality(Positions(messages[prio_of[s]], s)) /\ len[s] \in Nat
    BY <1>3 DEF Bookkeeping, Waiting
  <2>2. Waiting(s)' = Positions(messages'[prio_of[s]], s)
    BY <1>2 DEF Waiting, Positions
  <2>3. CASE prio_of[s] = p
    <3>1. Cardinality(Positions(Append(q, m), s))
              = Cardinality(Positions(q, s)) + (IF m.sid = s THEN 1 ELSE 0)
      BY <1>1, AppendCounts
    <3>2. messages'[p] = Append(q, m)
      BY <1>1, <1>2, <1>3
    <3>3. len'[s] = len[s] + (IF m.sid = s THEN 1 ELSE 0)
      BY <1>1, <1>2, <1>3, <2>1
    <3> QED
      BY <1>p, <2>1, <2>2, <2>3, <3>1, <3>2, <3>3
  <2>4. CASE prio_of[s] # p
    <3>1. messages'[prio_of[s]] = messages[prio_of[s]]
      BY <1>1, <1>2, <1>3, <2>4
    <3>2. len'[s] = len[s]
      BY <1>p, <1>1, <1>2, <1>3, <2>4
    <3> QED
      BY <2>1, <2>2, <3>1, <3>2
  <2> QED
    BY <2>3, <2>4
<1>7. owned' = {s \in SID : len'[s] > 0}
  BY <1>1, <1>2, <1>3 DEF Bookkeeping
<1>8. notify' \subseteq owned'
  BY <1>2 DEF Bookkeeping
<1>9. ASSUME NEW r \in PRIO, NEW i \in DOMAIN messages'[r]
      PROVE  prio_of'[messages'[r][i].sid] = r
  <2>1. CASE r = p
    <3>1. messages'[r] = Append(q, m)
      BY <1>1, <1>2, <1>3, <2>1
    <3>2. CASE i \in 1 .. Len(q)
      BY <1>p, <1>2, <1>4, <2>1, <3>1, <3>2 DEF Bookkeeping
    <3>3. CASE i = Len(q) + 1
      BY <1>p, <1>2, <1>4, <2>1, <3>1, <3>3
    <3> QED
      BY <1>4, <3>1, <3>2, <3>3
  <2>2. CASE r # p
    BY <1>1, <1>2, <1>3, <2>2 DEF Bookkeeping
  <2> QED
    BY <2>1, <2>2
<1> QED
  BY <1>5, <1>6, <1>7, <1>8, <1>9 DEF Bookkeeping

(* A frame is taken from a queue, perhaps the last one of its message.     *)
LEMMA FillKeepsBookkeeping ==
    ASSUME TypeOK, Bookkeeping, NEW p \in PRIO, FillFrame(p)
    PROVE  Bookkeeping'
<1> DEFINE q == messages[p]
           m == Head(q)
<1>1. p \in queued
  BY NextPrioIsQueued DEF FillFrame, FillFrom
<1>2. /\ q \in Seq(Message) /\ q # <<>> /\ m \in Message /\ m.sid \in SID
      /\ prio_of[m.sid] = p /\ len[m.sid] > 0 /\ m.sid \in owned
  BY <1>1, HeadFacts DEF Message
<1>3. /\ messages \in [PRIO -> Seq(Message)] /\ len \in [SID -> Nat]
      /\ prio_of \in [SID -> PRIO] /\ queued \subseteq PRIO /\ owned \subseteq SID
  BY DEF TypeOK
<1>4. prio_of' = prio_of
  BY DEF FillFrame, FillFrom, api
<1>5. ASSUME Finished(m)
      PROVE  /\ messages' = [messages EXCEPT ![p] = Tail(q)]
             /\ queued' = IF Tail(q) = <<>> THEN queued \ {p} ELSE queued
             /\ ReleaseOwner(m.sid)
  BY <1>5 DEF FillFrame, FillFrom
<1>6. ASSUME ~Finished(m)
      PROVE  /\ messages' = [messages EXCEPT ![p] = PutBack(q)]
             /\ UNCHANGED <<queued, len, owned, notify, flushed>>
  BY <1>6 DEF FillFrame, FillFrom
<1>p. q = messages[p]
  OBVIOUS
<1>7. CASE Finished(m)
  <2>1. /\ Tail(q) \in Seq(Message) /\ Len(q) \in Nat
        /\ DOMAIN q = 1 .. Len(q) /\ DOMAIN Tail(q) = 1 .. Len(q) - 1
        /\ \A i \in 1 .. Len(q) - 1 : Tail(q)[i] = q[i + 1]
    BY <1>2, HeadTailProperties, LenProperties
  <2> HIDE DEF q, m
  <2>2. messages'[p] = Tail(q) /\ \A r \in PRIO \ {p} : messages'[r] = messages[r]
    BY <1>3, <1>5, <1>7
  <2>3. queued' = {r \in PRIO : messages'[r] # <<>>}
    BY <1>1, <1>3, <1>5, <1>7, <2>2 DEF Bookkeeping
  <2>4. len' = [len EXCEPT ![m.sid] = len[m.sid] - 1]
    BY <1>5, <1>7 DEF ReleaseOwner
  <2>5. ASSUME NEW s \in SID
        PROVE  len'[s] = Cardinality(Waiting(s))'
    <3>1. len[s] = Cardinality(Positions(messages[prio_of[s]], s)) /\ len[s] \in Nat
      BY <1>3 DEF Bookkeeping, Waiting
    <3>2. Waiting(s)' = Positions(messages'[prio_of[s]], s)
      BY <1>4 DEF Waiting, Positions
    <3>3. CASE prio_of[s] = p
      <4>1. Cardinality(Positions(Tail(q), s))
                = Cardinality(Positions(q, s)) - (IF m.sid = s THEN 1 ELSE 0)
        BY <1>2, TailCounts DEF m
      <4>2. len'[s] = len[s] - (IF m.sid = s THEN 1 ELSE 0)
        BY <1>2, <1>3, <2>4, <3>1
      <4> QED
        BY <1>p, <2>2, <3>1, <3>2, <3>3, <4>1, <4>2
    <3>4. CASE prio_of[s] # p
      <4>1. messages'[prio_of[s]] = messages[prio_of[s]]
        BY <1>3, <2>2, <3>4
      <4>2. len'[s] = len[s]
        BY <1>2, <1>3, <2>4, <3>4
      <4> QED
        BY <3>1, <3>2, <4>1, <4>2
    <3> QED
      BY <3>3, <3>4
  <2>6. owned' = {s \in SID : len'[s] > 0} /\ notify' \subseteq owned'
    <3>1. CASE len[m.sid] = 1
      <4>1. owned' = owned \ {m.sid} /\ notify' = notify \ {m.sid}
        BY <1>5, <1>7, <3>1 DEF ReleaseOwner
      <4> QED
        BY <1>2, <1>3, <2>4, <3>1, <4>1 DEF Bookkeeping
    <3>2. CASE len[m.sid] # 1
      <4>1. owned' = owned /\ notify' = notify
        BY <1>5, <1>7, <3>2 DEF ReleaseOwner
      <4> QED
        BY <1>2, <1>3, <2>4, <3>2, <4>1 DEF Bookkeeping
    <3> QED
      BY <3>1, <3>2
  <2>7. ASSUME NEW r \in PRIO, NEW i \in DOMAIN messages'[r]
        PROVE  prio_of'[messages'[r][i].sid] = r
    <3>1. CASE r = p
      <4>1. i + 1 \in DOMAIN q /\ messages'[r][i].sid = q[i + 1].sid
        BY <2>1, <2>2, <3>1
      <4>2. \A j \in DOMAIN messages[p] : prio_of[messages[p][j].sid] = p
        BY DEF Bookkeeping
      <4> QED
        BY <1>p, <1>4, <3>1, <4>1, <4>2
    <3>2. CASE r # p
      BY <1>4, <2>2, <3>2 DEF Bookkeeping
    <3> QED
      BY <3>1, <3>2
  <2> QED
    BY <2>3, <2>5, <2>6, <2>7 DEF Bookkeeping
<1>8. CASE ~Finished(m)
  <2>1. /\ PutBack(q) # <<>> /\ DOMAIN PutBack(q) = DOMAIN q
        /\ \A i \in DOMAIN q : PutBack(q)[i].sid = q[i].sid
        /\ \A s : Positions(PutBack(q), s) = Positions(q, s)
    BY <1>2, PutBackCounts
  <2> HIDE DEF q, m
  <2>2. messages'[p] = PutBack(q) /\ \A r \in PRIO \ {p} : messages'[r] = messages[r]
    BY <1>3, <1>6, <1>8
  <2>3. queued' = {r \in PRIO : messages'[r] # <<>>}
    BY <1>p, <1>2, <1>6, <1>8, <2>1, <2>2 DEF Bookkeeping
  <2>4. ASSUME NEW s \in SID
        PROVE  len'[s] = Cardinality(Waiting(s))'
    <3>1. Waiting(s)' = Positions(messages'[prio_of[s]], s)
      BY <1>4 DEF Waiting, Positions
    <3>2. Positions(messages'[prio_of[s]], s) = Positions(messages[prio_of[s]], s)
      BY <1>p, <1>3, <2>1, <2>2
    <3> QED
      BY <1>6, <1>8, <3>1, <3>2 DEF Bookkeeping, Waiting
  <2>5. owned' = {s \in SID : len'[s] > 0} /\ notify' \subseteq owned'
    BY <1>6, <1>8 DEF Bookkeeping
  <2>6. ASSUME NEW r \in PRIO, NEW i \in DOMAIN messages'[r]
        PROVE  prio_of'[messages'[r][i].sid] = r
    <3>1. CASE r = p
      <4>1. i \in DOMAIN q /\ messages'[r][i].sid = q[i].sid
        BY <2>1, <2>2, <3>1
      <4>2. \A j \in DOMAIN messages[p] : prio_of[messages[p][j].sid] = p
        BY DEF Bookkeeping
      <4> QED
        BY <1>p, <1>4, <3>1, <4>1, <4>2
    <3>2. CASE r # p
      BY <1>4, <2>2, <3>2 DEF Bookkeeping
    <3> QED
      BY <3>1, <3>2
  <2> QED
    BY <2>3, <2>4, <2>5, <2>6 DEF Bookkeeping
<1> QED
  BY <1>7, <1>8

LEMMA BookkeepingStep ==
    ASSUME TypeOK, Bookkeeping, Next
    PROVE  Bookkeeping'
<1>1. ASSUME NEW s \in SID, Send(s) \/ DropStream(s)
      PROVE  Bookkeeping'
  BY <1>1, BookkeepingUntouched DEF Send, DropStream, manager
<1>2. CASE StreamCloseMgr
  BY <1>2, BookkeepingUntouched DEF StreamCloseMgr, RequestFlush, FlushAnswered, api, manager
<1>3. CASE BeginFill \/ MessagesFetched \/ FlushesFetched \/ FillDone
  BY <1>3, BookkeepingUntouched
  DEF BeginFill, MessagesFetched, FlushesFetched, FillDone, api, manager
<1>4. CASE FetchMessage
  BY <1>4, FetchKeepsBookkeeping
<1>5. CASE FetchFlushRequest
  <2>1. UNCHANGED <<prio_of, messages, queued, owned, len>> /\ notify' \subseteq owned
    BY <1>5 DEF FetchFlushRequest, api, Bookkeeping
  <2> QED
    BY <2>1 DEF Bookkeeping, Waiting, Positions
<1>6. ASSUME NEW p \in PRIO, FillFrame(p)
      PROVE  Bookkeeping'
  BY <1>6, FillKeepsBookkeeping
<1>7. CASE FillEmpty
  BY <1>7, BookkeepingUntouched DEF FillEmpty, api
<1> QED
  BY <1>1, <1>2, <1>3, <1>4, <1>5, <1>6, <1>7 DEF Next, Api, FillFrames
-----------------------------------------------------------------------------
(* What makes FlushIsComplete inductive.  Only dropped Streams are asked   *)
(* about, so no message of theirs can arrive any more; what had arrived    *)
(* was fetched before the request was, "this must be AFTER messages".      *)
FlushOrder ==
    /\ Elems(close_rx) \cup Elems(flushed_rx) \cup notify \cup flushed \subseteq dropped
    /\ (notify \cup flushed) \cap Sids(messages_rx) = {}
    /\ pc = "flushes" => Elems(flushed_rx) \cap Sids(messages_rx) = {}
    /\ flushed \cap owned = {}

IInv == TypeOK /\ Bookkeeping /\ FlushOrder

LEMMA ElemsOfAppend ==
    ASSUME NEW S, NEW q \in Seq(S), NEW e \in S
    PROVE  Elems(Append(q, e)) = Elems(q) \cup {e}
<1>1. /\ Len(q) \in Nat /\ DOMAIN q = 1 .. Len(q)
      /\ DOMAIN Append(q, e) = 1 .. Len(q) + 1
      /\ \A i \in 1 .. Len(q) : Append(q, e)[i] = q[i]
      /\ Append(q, e)[Len(q) + 1] = e
  BY AppendProperties, LenProperties
<1> QED
  BY <1>1 DEF Elems

LEMMA ElemsOfTail ==
    ASSUME NEW S, NEW q \in Seq(S), q # <<>>
    PROVE  /\ Head(q) \in Elems(q)
           /\ Elems(Tail(q)) \subseteq Elems(q)
<1>1. /\ Len(q) \in Nat \ {0} /\ DOMAIN q = 1 .. Len(q)
      /\ DOMAIN Tail(q) = 1 .. Len(q) - 1
      /\ \A i \in 1 .. Len(q) - 1 : Tail(q)[i] = q[i + 1]
      /\ Head(q) = q[1]
  BY HeadTailProperties, LenProperties, EmptySeq
<1>2. ASSUME NEW i \in 1 .. Len(q) - 1
      PROVE  Tail(q)[i] \in Elems(q)
  <2>1. i + 1 \in DOMAIN q
    BY <1>1
  <2> QED
    BY <1>1, <2>1 DEF Elems
<1> QED
  BY <1>1, <1>2 DEF Elems

LEMMA SidsAreThoseOfElems ==
    ASSUME NEW q
    PROVE  Sids(q) = {m.sid : m \in Elems(q)}
  BY DEF Sids, Elems

(* FlushOrder survives every step.                                         *)
LEMMA FlushOrderStep ==
    ASSUME IInv, Next
    PROVE  FlushOrder'
<1> USE DEF FlushOrder, IInv
<1>0. /\ messages_rx \in Seq(Message) /\ close_rx \in Seq(SID) /\ flushed_rx \in Seq(SID)
  BY DEF TypeOK
<1>1. ASSUME NEW s \in SID, Send(s)
      PROVE  FlushOrder'
  <2>1. PICK n \in Sizes :
            messages_rx' = Append(messages_rx,
                [sid |-> s, mid |-> mid[s], size |-> n, cursor |-> 0])
    BY <1>1 DEF Send
  <2>2. [sid |-> s, mid |-> mid[s], size |-> n, cursor |-> 0] \in Message
    BY StreamAssumption DEF Message, TypeOK
  <2>3. Sids(messages_rx') = Sids(messages_rx) \cup {s}
    BY <1>0, <2>1, <2>2, ElemsOfAppend, SidsAreThoseOfElems
  <2>4. s \notin dropped
    BY <1>1 DEF Send
  <2>5. UNCHANGED <<dropped, close_rx, flushed_rx, flushed, pc, owned, notify>>
    BY <1>1 DEF Send, close, manager
  <2> QED
    BY <2>3, <2>4, <2>5 DEF Sids, Elems
<1>2. ASSUME NEW s \in SID, DropStream(s)
      PROVE  FlushOrder'
  <2>1. dropped' = dropped \cup {s} /\ Elems(close_rx') = Elems(close_rx) \cup {s}
    BY <1>0, <1>2, ElemsOfAppend DEF DropStream
  <2>2. UNCHANGED <<messages_rx, flushed_rx, flushed, pc, owned, notify>>
    BY <1>2 DEF DropStream, manager
  <2> QED
    BY <2>1, <2>2 DEF Sids, Elems
<1>3. CASE RequestFlush
  <2>1. /\ Head(close_rx) \in Elems(close_rx) /\ Head(close_rx) \in SID
        /\ Elems(close_rx') \subseteq Elems(close_rx)
    BY <1>0, <1>3, ElemsOfTail, HeadTailProperties DEF RequestFlush
  <2>2. Elems(flushed_rx') = Elems(flushed_rx) \cup {Head(close_rx)}
    BY <1>0, <1>3, <2>1, ElemsOfAppend DEF RequestFlush
  <2>3. pc = "sleep" /\ UNCHANGED <<dropped, messages_rx, flushed, pc, owned, notify>>
    BY <1>3 DEF RequestFlush, api, manager
  <2> QED
    BY <2>1, <2>2, <2>3 DEF Sids, Elems
<1>4. CASE FlushAnswered \/ BeginFill \/ FlushesFetched \/ FillEmpty \/ FillDone
  BY <1>4 DEF FlushAnswered, BeginFill, FlushesFetched, FillEmpty, FillDone,
              api, close, manager, Elems, Sids
<1>5. CASE FetchMessage
  <2>1. /\ Head(messages_rx).sid \in Sids(messages_rx)
        /\ Sids(messages_rx') \subseteq Sids(messages_rx)
    BY <1>0, <1>5, ElemsOfTail, SidsAreThoseOfElems DEF FetchMessage
  <2>2. /\ pc = "messages" /\ owned' = owned \cup {Head(messages_rx).sid}
        /\ UNCHANGED <<dropped, close_rx, flushed_rx, flushed, pc, notify>>
    BY <1>5 DEF FetchMessage, api, close
  <2> QED
    BY <2>1, <2>2 DEF Elems
<1>6. CASE MessagesFetched
  <2>1. Sids(messages_rx) = {}
    BY <1>6 DEF MessagesFetched, Sids
  <2> QED
    BY <1>6, <2>1 DEF MessagesFetched, api, close, manager, Elems, Sids
<1>7. CASE FetchFlushRequest
  <2>1. Head(flushed_rx) \in Elems(flushed_rx) /\ Elems(flushed_rx') \subseteq Elems(flushed_rx)
    BY <1>0, <1>7, ElemsOfTail DEF FetchFlushRequest
  <2>2. /\ pc = "flushes"
        /\ UNCHANGED <<dropped, close_rx, messages_rx, pc, owned>>
        /\ \/ /\ Head(flushed_rx) \in owned
              /\ notify' = notify \cup {Head(flushed_rx)} /\ flushed' = flushed
           \/ /\ Head(flushed_rx) \notin owned
              /\ flushed' = flushed \cup {Head(flushed_rx)} /\ notify' = notify
    BY <1>7 DEF FetchFlushRequest, api, close
  <2> QED
    BY <2>1, <2>2 DEF Elems, Sids
<1>8. ASSUME NEW p \in PRIO, FillFrame(p)
      PROVE  FlushOrder'
  <2>1. /\ notify' \subseteq notify /\ flushed' \subseteq flushed \cup notify
        /\ owned' \subseteq owned /\ owned' \cap (flushed' \ flushed) = {}
    BY <1>8 DEF FillFrame, FillFrom, ReleaseOwner
  <2>2. UNCHANGED <<dropped, close_rx, messages_rx, flushed_rx, pc>>
    BY <1>8 DEF FillFrame, FillFrom, api, close
  <2> QED
    BY <2>1, <2>2 DEF Elems, Sids
<1> QED
  BY <1>1, <1>2, <1>3, <1>4, <1>5, <1>6, <1>7, <1>8
  DEF Next, Api, StreamCloseMgr, FillFrames
-----------------------------------------------------------------------------
LEMMA InitInv == Init => IInv
<1> SUFFICES ASSUME Init PROVE IInv
  OBVIOUS
<1>1. /\ <<>> \in Seq(Message) /\ <<>> \in Seq(SID) /\ <<>> \in Seq(Frame)
  OBVIOUS
<1>2. TypeOK
  BY <1>1, StreamAssumption, NoPointsType DEF Init, TypeOK
<1>3. ASSUME NEW s \in SID
      PROVE  len[s] = Cardinality(Waiting(s))
  <2>1. Waiting(s) = {}
    BY StreamAssumption DEF Init, Waiting, Positions
  <2> QED
    BY <2>1, FS_EmptySet DEF Init
<1>4. Bookkeeping
  BY <1>3 DEF Init, Bookkeeping
<1>5. FlushOrder
  BY DEF Init, FlushOrder, Elems, Sids
<1> QED
  BY <1>2, <1>4, <1>5 DEF IInv

LEMMA NextInv == IInv /\ [Next]_vars => IInv'
<1> SUFFICES ASSUME IInv, [Next]_vars PROVE IInv'
  OBVIOUS
<1>1. CASE Next
  BY <1>1, TypeStep, BookkeepingStep, FlushOrderStep DEF IInv
<1>2. CASE UNCHANGED vars
  <2>1. TypeOK'
    BY <1>2 DEF IInv, TypeOK, vars, api, close, manager
  <2>2. Bookkeeping'
    BY <1>2, BookkeepingUntouched DEF IInv, vars, api, manager
  <2>3. FlushOrder'
    BY <1>2 DEF IInv, FlushOrder, Elems, Sids, vars, api, close, manager
  <2> QED
    BY <2>1, <2>2, <2>3 DEF IInv
<1> QED
  BY <1>1, <1>2

LEMMA Invariance == Spec => []IInv
  BY InitInv, NextInv, PTL DEF Spec

(* PrioManager and its surroundings never leave their types: in particular *)
(* no counter of sid_owned goes below zero and no points counter leaves    *)
(* its word, whatever is sent and closed when.                             *)
THEOREM TypeCorrect == Spec => []TypeOK
<1>1. IInv => TypeOK
  BY DEF IInv
<1> QED
  BY <1>1, Invariance, PTL

(* The queues, the set of queued priorities and sid_owned always agree, so *)
(* the unwrap and the expect of fill_frames never fail.                    *)
THEOREM BookkeepingAgrees == Spec => []Bookkeeping
<1>1. IInv => Bookkeeping
  BY DEF IInv
<1> QED
  BY <1>1, Invariance, PTL

(* stream_close_mgr is only told that a Stream is flushed when none of its *)
(* messages is left in PrioManager, and none can follow.                   *)
THEOREM FlushesAreComplete == Spec => []FlushIsComplete
<1>1. ASSUME IInv, NEW s \in flushed
      PROVE  Waiting(s) = {} /\ s \notin Sids(messages_rx)
  <2>1. s \in SID /\ len[s] = 0
    BY <1>1 DEF IInv, TypeOK, Bookkeeping, FlushOrder
  <2>2. Cardinality(Waiting(s)) = 0 /\ messages[prio_of[s]] \in Seq(Message)
    BY <1>1, <2>1 DEF IInv, TypeOK, Bookkeeping
  <2>3. IsFiniteSet(Waiting(s))
    BY <2>2, PositionsFinite DEF Waiting
  <2>4. Waiting(s) = {}
    BY <2>2, <2>3, FS_EmptySet
  <2> QED
    BY <1>1, <2>4 DEF IInv, FlushOrder
<1>2. IInv => FlushIsComplete
  BY <1>1 DEF FlushIsComplete
<1> QED
  BY <1>2, Invariance, PTL
-----------------------------------------------------------------------------
(* The last frame of a priority, as a set.                                 *)
LastOf(fs, p) ==
    {i \in DOMAIN fs : /\ prio_of[fs[i].sid] = p
                       /\ \A j \in DOMAIN fs : prio_of[fs[j].sid] = p => j <= i}

(* The frame that was filled last of message m.                            *)
LatestFrame(m) == [sid |-> m.sid, mid |-> m.mid, part |-> m.cursor, size |-> m.size]

(* Only the first message of a queue may have been begun, and it has a     *)
(* frame left; nothing that is not fetched has been begun.                 *)
QueueShape ==
    /\ \A p \in PRIO : \A i \in DOMAIN messages[p] :
          /\ messages[p][i].size \in Sizes
          /\ \/ messages[p][i].cursor = 0
             \/ i = 1 /\ messages[p][i].cursor < messages[p][i].size
    /\ \A i \in DOMAIN messages_rx : messages_rx[i].size \in Sizes /\ messages_rx[i].cursor = 0

(* The messages of a Stream wait in the order they were sent.              *)
InOrder(q) == \A i, j \in DOMAIN q : i < j /\ q[i].sid = q[j].sid => q[i].mid < q[j].mid

MidsInOrder ==
    /\ \A p \in PRIO : InOrder(messages[p])
    /\ InOrder(messages_rx)
    /\ \A p \in PRIO : \A m \in Elems(messages[p]), n \in Elems(messages_rx) :
          m.sid = n.sid => m.mid < n.mid
    /\ \A p \in PRIO : \A m \in Elems(messages[p]) : m.mid < mid[m.sid]
    /\ \A m \in Elems(messages_rx) : m.mid < mid[m.sid]

(* The last frame of a priority is one of the message at the head of its   *)
(* queue, or the last one of its message, and then no message is begun.    *)
HeadIsOpen(p) ==
    /\ messages[p] # <<>>
    /\ Head(messages[p]).cursor > 0
    /\ \E i \in LastOf(frames, p) : frames[i] = LatestFrame(Head(messages[p]))

NoneIsOpen(p) ==
    /\ messages[p] # <<>> => Head(messages[p]).cursor = 0
    /\ \A i \in LastOf(frames, p) : frames[i].part = frames[i].size

Reassembly == \A p \in PRIO : HeadIsOpen(p) \/ NoneIsOpen(p)

(* The messages of s that are not begun are the ones after those that have *)
(* a header, none missing.                                                 *)
MidsOf(M, s) == {m.mid : m \in {n \in M : n.sid = s}}

NotBegun(s) ==
    MidsOf({m \in Elems(messages[prio_of[s]]) : m.cursor = 0} \cup Elems(messages_rx), s)

Begun(s) == Cardinality(Headers(frames, s, Len(frames)))

HeadersCount ==
    \A s \in SID : Begun(s) <= mid[s] /\ NotBegun(s) = Begun(s) .. mid[s] - 1

(* Every message of s that was sent waits somewhere or has its last frame. *)
Whole(fs, s) == {fs[i].mid : i \in {j \in DOMAIN fs : fs[j].sid = s /\ fs[j].part = fs[j].size}}

Accounted ==
    \A s \in SID :
        Whole(frames, s) \cup MidsOf(Elems(messages[prio_of[s]]) \cup Elems(messages_rx), s)
            = 0 .. mid[s] - 1

(* What makes NoMixing and FlushedInFull inductive.                        *)
FrameOrder ==
    /\ QueueShape
    /\ MidsInOrder
    /\ Reassembly
    /\ (0 \notin Sizes) => HeadersCount /\ Accounted
    /\ NoMixing
-----------------------------------------------------------------------------
LEMMA ElemsOfCons ==
    ASSUME NEW S, NEW q \in Seq(S), q # <<>>
    PROVE  /\ Elems(q) = {Head(q)} \cup Elems(Tail(q))
           /\ Head(q) \in S /\ Tail(q) \in Seq(S) /\ Elems(Tail(q)) \subseteq S
<1>1. /\ Len(q) \in Nat \ {0} /\ DOMAIN q = 1 .. Len(q)
      /\ Tail(q) \in Seq(S) /\ DOMAIN Tail(q) = 1 .. Len(q) - 1
      /\ \A i \in 1 .. Len(q) - 1 : Tail(q)[i] = q[i + 1]
      /\ Head(q) = q[1] /\ \A i \in 1 .. Len(q) : q[i] \in S
  BY HeadTailProperties, LenProperties, EmptySeq, ElementOfSeq
<1>2. ASSUME NEW i \in 1 .. Len(q)
      PROVE  q[i] \in {Head(q)} \cup Elems(Tail(q))
  <2>1. CASE i = 1
    BY <1>1, <2>1
  <2>2. CASE i # 1
    <3>1. i - 1 \in 1 .. Len(q) - 1 /\ q[i] = Tail(q)[i - 1]
      BY <1>1, <2>2
    <3> QED BY <1>1, <3>1 DEF Elems
  <2> QED BY <2>1, <2>2
<1>3. Elems(q) \subseteq {Head(q)} \cup Elems(Tail(q))
  BY <1>1, <1>2 DEF Elems
<1>4. Head(q) \in Elems(q) /\ Elems(Tail(q)) \subseteq Elems(q) /\ Elems(q) \subseteq S
  BY <1>1, ElemsOfTail DEF Elems
<1> QED BY <1>1, <1>3, <1>4

LEMMA OrderOfAppend ==
    ASSUME NEW q \in Seq(Message), NEW m \in Message, InOrder(q),
           \A n \in Elems(q) : n.sid = m.sid => n.mid < m.mid
    PROVE  InOrder(Append(q, m))
<1>1. /\ Len(q) \in Nat /\ DOMAIN q = 1 .. Len(q)
      /\ DOMAIN Append(q, m) = 1 .. Len(q) + 1
      /\ \A i \in 1 .. Len(q) : Append(q, m)[i] = q[i]
      /\ Append(q, m)[Len(q) + 1] = m
  BY AppendProperties, LenProperties
<1>2. \A i \in 1 .. Len(q) : q[i] \in Elems(q)
  BY <1>1 DEF Elems
<1> QED BY <1>1, <1>2 DEF InOrder

LEMMA OrderOfTail ==
    ASSUME NEW q \in Seq(Message), q # <<>>, InOrder(q)
    PROVE  /\ InOrder(Tail(q))
           /\ \A n \in Elems(Tail(q)) : n.sid = Head(q).sid => Head(q).mid < n.mid
<1>1. /\ Len(q) \in Nat \ {0} /\ DOMAIN q = 1 .. Len(q)
      /\ DOMAIN Tail(q) = 1 .. Len(q) - 1
      /\ \A i \in 1 .. Len(q) - 1 : Tail(q)[i] = q[i + 1]
      /\ Head(q) = q[1]
  BY HeadTailProperties, LenProperties, EmptySeq
<1>2. \A i \in 1 .. Len(q) - 1 : i + 1 \in DOMAIN q /\ 1 < i + 1 /\ 1 \in DOMAIN q
  BY <1>1
<1>3. InOrder(Tail(q))
  BY <1>1, <1>2 DEF InOrder
<1>4. \A n \in Elems(Tail(q)) : n.sid = Head(q).sid => Head(q).mid < n.mid
  BY <1>1, <1>2 DEF InOrder, Elems
<1> QED BY <1>3, <1>4

(* Putting back a message changes nothing but its cursor.                  *)
LEMMA ElemsOfPutBack ==
    ASSUME NEW q \in Seq(Message), q # <<>>
    PROVE  LET n == [Head(q) EXCEPT !.cursor = Head(q).cursor + 1]
           IN  /\ n \in Message /\ n.sid = Head(q).sid /\ n.mid = Head(q).mid
               /\ n.size = Head(q).size /\ n.cursor = Head(q).cursor + 1
               /\ PutBack(q) \in Seq(Message) /\ PutBack(q) # <<>>
               /\ Head(PutBack(q)) = n /\ Tail(PutBack(q)) = Tail(q)
               /\ DOMAIN PutBack(q) = DOMAIN q
               /\ \A i \in DOMAIN q : PutBack(q)[i] = IF i = 1 THEN n ELSE q[i]
<1> DEFINE n == [Head(q) EXCEPT !.cursor = Head(q).cursor + 1]
<1>1. Len(q) \in Nat \ {0} /\ DOMAIN q = 1 .. Len(q) /\ Head(q) = q[1] /\ q[1] \in Message
  BY EmptySeq, LenProperties, HeadTailProperties
<1>2. n \in Message /\ n.sid = Head(q).sid /\ n.mid = Head(q).mid
      /\ n.size = Head(q).size /\ n.cursor = Head(q).cursor + 1
  BY <1>1, CursorAdvances DEF Message
<1>3. PutBack(q) = [q EXCEPT ![1] = n]
  BY <1>1 DEF PutBack
<1> HIDE DEF n
<1>4. /\ PutBack(q) \in Seq(Message) /\ Len(PutBack(q)) = Len(q)
      /\ \A j \in 1 .. Len(q) : PutBack(q)[j] = IF j = 1 THEN n ELSE q[j]
  BY <1>1, <1>2, <1>3, ExceptSeq
<1>5. PutBack(q) # <<>> /\ DOMAIN PutBack(q) = DOMAIN q /\ Head(PutBack(q)) = n
  BY <1>1, <1>4, EmptySeq, LenProperties, HeadTailProperties
<1>6. Tail(PutBack(q)) = Tail(q)
  <2>1. /\ Tail(q) \in Seq(Message) /\ Len(Tail(q)) = Len(q) - 1
        /\ Tail(PutBack(q)) \in Seq(Message) /\ Len(Tail(PutBack(q))) = Len(q) - 1
        /\ \A i \in 1 .. Len(q) - 1 : Tail(q)[i] = q[i + 1]
        /\ \A i \in 1 .. Len(q) - 1 : Tail(PutBack(q))[i] = PutBack(q)[i + 1]
    BY <1>1, <1>4, <1>5, HeadTailProperties, LenProperties
  <2>2. \A i \in 1 .. Len(q) - 1 : Tail(PutBack(q))[i] = Tail(q)[i]
    BY <1>1, <1>4, <2>1
  <2> QED BY <2>1, <2>2, SeqEqual
<1>7. \A i \in DOMAIN q : PutBack(q)[i] = IF i = 1 THEN n ELSE q[i]
  BY <1>1, <1>4
<1> QED BY <1>2, <1>4, <1>5, <1>6, <1>7 DEF n
-----------------------------------------------------------------------------
(* The queues alone: QueueShape and MidsInOrder.                           *)

LEMMA SendKeepsQueues ==
    ASSUME TypeOK, QueueShape, MidsInOrder, NEW s \in SID, Send(s)
    PROVE  /\ QueueShape' /\ MidsInOrder'
           /\ \E n \in Sizes :
                Elems(messages_rx') = Elems(messages_rx) \cup {[sid |-> s, mid |-> mid[s], size |-> n, cursor |-> 0]}
<1>1. PICK n \in Sizes :
        messages_rx' = Append(messages_rx, [sid |-> s, mid |-> mid[s], size |-> n, cursor |-> 0])
  BY DEF Send
<1> DEFINE m == [sid |-> s, mid |-> mid[s], size |-> n, cursor |-> 0]
<1>2. m \in Message /\ m.sid = s /\ m.mid = mid[s] /\ m.size = n /\ m.cursor = 0
  BY StreamAssumption DEF Message, TypeOK
<1>3. messages_rx \in Seq(Message) /\ messages_rx' = Append(messages_rx, m)
  BY <1>1 DEF TypeOK
<1>4. messages' = messages /\ mid' = [mid EXCEPT ![s] = mid[s] + 1] /\ mid \in [SID -> Nat]
  BY DEF Send, manager, TypeOK
<1> HIDE DEF m
<1>5. /\ Len(messages_rx) \in Nat /\ DOMAIN messages_rx = 1 .. Len(messages_rx)
      /\ DOMAIN messages_rx' = 1 .. Len(messages_rx) + 1
      /\ \A i \in 1 .. Len(messages_rx) : messages_rx'[i] = messages_rx[i]
      /\ messages_rx'[Len(messages_rx) + 1] = m
  BY <1>2, <1>3, AppendProperties, LenProperties
<1>6. QueueShape'
  BY <1>2, <1>4, <1>5 DEF QueueShape
<1>7. Elems(messages_rx') = Elems(messages_rx) \cup {m}
  BY <1>2, <1>3, ElemsOfAppend
<1>8. InOrder(messages_rx')
  BY <1>2, <1>3, OrderOfAppend DEF MidsInOrder
<1>9. \A k \in Nat, t \in SID : k < mid[t] => k < mid'[t]
  BY <1>4
<1>10. /\ \A k \in Elems(messages_rx) : k.sid \in SID /\ k.mid \in Nat
       /\ \A p \in PRIO : \A k \in Elems(messages[p]) : k.sid \in SID /\ k.mid \in Nat
  <2>1. \A q \in Seq(Message) : Elems(q) \subseteq Message
    BY LenProperties, ElementOfSeq DEF Elems
  <2>2. \A k \in Message : k.sid \in SID /\ k.mid \in Nat
    BY DEF Message
  <2>3. messages \in [PRIO -> Seq(Message)] /\ messages_rx \in Seq(Message)
    BY DEF TypeOK
  <2> QED BY <2>1, <2>2, <2>3
<1>11. MidsInOrder'
  <2>1. (\A p \in PRIO : InOrder(messages[p]))'
    BY <1>4 DEF MidsInOrder, InOrder
  <2>2. InOrder(messages_rx)'
    BY <1>8 DEF InOrder
  <2>3. ASSUME NEW p \in PRIO, NEW k \in Elems(messages'[p]), NEW l \in Elems(messages_rx'), k.sid = l.sid
        PROVE  k.mid < l.mid
    BY <1>2, <1>4, <1>7, <2>3 DEF MidsInOrder
  <2>4. ASSUME NEW p \in PRIO, NEW k \in Elems(messages'[p])
        PROVE  k.mid < mid'[k.sid]
    BY <1>4, <1>9, <1>10 DEF MidsInOrder
  <2>5. ASSUME NEW k \in Elems(messages_rx')
        PROVE  k.mid < mid'[k.sid]
    <3>1. CASE k \in Elems(messages_rx)
      BY <1>9, <1>10, <3>1 DEF MidsInOrder
    <3>2. CASE k = m
      BY <1>2, <1>4, <3>2
    <3> QED BY <1>7, <3>1, <3>2
  <2> QED BY <2>1, <2>2, <2>3, <2>4, <2>5 DEF MidsInOrder, Elems
<1> QED BY <1>6, <1>7, <1>11 DEF m

LEMMA FetchKeepsQueues ==
    ASSUME TypeOK, QueueShape, MidsInOrder, FetchMessage
    PROVE  LET m == Head(messages_rx)
               p == prio_of[m.sid]
           IN  /\ QueueShape' /\ MidsInOrder'
               /\ m \in Message /\ p \in PRIO /\ m.cursor = 0
               /\ messages' = [messages EXCEPT ![p] = Append(messages[p], m)]
               /\ Elems(messages_rx) = {m} \cup Elems(messages_rx')
               /\ Elems(messages'[p]) = Elems(messages[p]) \cup {m}
<1> DEFINE m == Head(messages_rx)
           p == prio_of[m.sid]
<1>1. /\ messages_rx \in Seq(Message) /\ messages_rx # <<>> /\ messages_rx' = Tail(messages_rx)
      /\ messages' = [messages EXCEPT ![p] = Append(messages[p], m)]
      /\ mid' = mid /\ messages \in [PRIO -> Seq(Message)]
  BY DEF FetchMessage, TypeOK, api
<1>2. /\ m \in Message /\ m.sid \in SID /\ messages_rx' \in Seq(Message)
      /\ Elems(messages_rx) = {m} \cup Elems(messages_rx')
  <2>1. /\ m \in Message /\ messages_rx' \in Seq(Message)
        /\ Elems(messages_rx) = {m} \cup Elems(messages_rx')
    BY <1>1, ElemsOfCons
  <2> QED BY <2>1 DEF Message
<1>3. p \in PRIO
  BY <1>2 DEF TypeOK
<1>4. /\ Len(messages_rx) \in Nat \ {0} /\ DOMAIN messages_rx = 1 .. Len(messages_rx)
      /\ DOMAIN messages_rx' = 1 .. Len(messages_rx) - 1
      /\ \A i \in 1 .. Len(messages_rx) - 1 : messages_rx'[i] = messages_rx[i + 1] /\ i + 1 \in DOMAIN messages_rx
      /\ m = messages_rx[1] /\ 1 \in DOMAIN messages_rx
  BY <1>1, HeadTailProperties, LenProperties, EmptySeq
<1>5. m.cursor = 0 /\ m.size \in Sizes
  BY <1>4 DEF QueueShape
<1>6. InOrder(messages_rx') /\ \A n \in Elems(messages_rx') : n.sid = m.sid => m.mid < n.mid
  BY <1>1, OrderOfTail DEF MidsInOrder
<1> DEFINE q == messages[p]
<1>7. q \in Seq(Message) /\ messages'[p] = Append(q, m) /\ \A r \in PRIO \ {p} : messages'[r] = messages[r]
  BY <1>1, <1>3
<1>8. m.sid = m.sid /\ InOrder(q) /\ \A n \in Elems(q) : n.sid = m.sid => n.mid < m.mid
  BY <1>2, <1>3 DEF MidsInOrder
<1> HIDE DEF m, p, q
<1>9. /\ Len(q) \in Nat /\ DOMAIN q = 1 .. Len(q)
      /\ DOMAIN Append(q, m) = 1 .. Len(q) + 1
      /\ \A i \in 1 .. Len(q) : Append(q, m)[i] = q[i]
      /\ Append(q, m)[Len(q) + 1] = m
  BY <1>2, <1>7, AppendProperties, LenProperties
<1>10. Elems(messages'[p]) = Elems(messages[p]) \cup {m}
  BY <1>2, <1>7, ElemsOfAppend DEF q
<1>11. InOrder(messages'[p])
  BY <1>2, <1>7, <1>8, OrderOfAppend
<1>12. QueueShape'
  <2>1. ASSUME NEW r \in PRIO, NEW i \in DOMAIN messages'[r]
        PROVE  /\ messages'[r][i].size \in Sizes
               /\ \/ messages'[r][i].cursor = 0
                  \/ i = 1 /\ messages'[r][i].cursor < messages'[r][i].size
    <3>1. CASE r # p
      BY <1>7, <3>1 DEF QueueShape
    <3>2. CASE r = p /\ i \in 1 .. Len(q)
      BY <1>3, <1>7, <1>9, <3>2 DEF QueueShape, q
    <3>3. CASE r = p /\ i = Len(q) + 1
      BY <1>5, <1>7, <1>9, <3>3
    <3> QED BY <1>7, <1>9, <3>1, <3>2, <3>3
  <2>2. \A i \in DOMAIN messages_rx' : messages_rx'[i].size \in Sizes /\ messages_rx'[i].cursor = 0
    BY <1>4 DEF QueueShape
  <2> QED BY <2>1, <2>2 DEF QueueShape
<1>13. MidsInOrder'
  <2>1. \A r \in PRIO : InOrder(messages'[r])
    BY <1>7, <1>11 DEF MidsInOrder
  <2>2. ASSUME NEW r \in PRIO, NEW k \in Elems(messages'[r]), NEW l \in Elems(messages_rx'), k.sid = l.sid
        PROVE  k.mid < l.mid
    <3>1. CASE k = m
      BY <1>6, <2>2, <3>1
    <3>2. CASE k \in Elems(messages[r])
      BY <1>2, <2>2, <3>2 DEF MidsInOrder
    <3> QED BY <1>7, <1>10, <3>1, <3>2
  <2>3. ASSUME NEW r \in PRIO, NEW k \in Elems(messages'[r])
        PROVE  k.mid < mid'[k.sid]
    BY <1>1, <1>2, <1>7, <1>10 DEF MidsInOrder
  <2>4. \A k \in Elems(messages_rx') : k.mid < mid'[k.sid]
    BY <1>1, <1>2 DEF MidsInOrder
  <2> QED BY <1>6, <2>1, <2>2, <2>3, <2>4 DEF MidsInOrder, InOrder, Elems
<1> QED BY <1>1, <1>2, <1>3, <1>5, <1>10, <1>12, <1>13 DEF m, p

(* What FillFrame does to the queue it serves.                             *)
LEMMA FillKeepsQueues ==
    ASSUME TypeOK, Bookkeeping, QueueShape, MidsInOrder, NEW p \in PRIO, FillFrame(p)
    PROVE  LET q == messages[p]
               m == Head(q)
               n == [m EXCEPT !.cursor = m.cursor + 1]
           IN  /\ QueueShape' /\ MidsInOrder'
               /\ q \in Seq(Message) /\ q # <<>> /\ m \in Message /\ prio_of[m.sid] = p
               /\ n \in Message /\ n.sid = m.sid /\ n.mid = m.mid
               /\ n.size = m.size /\ n.cursor = m.cursor + 1
               /\ m.size \in Sizes /\ (m.cursor = 0 \/ m.cursor < m.size)
               /\ Elems(q) = {m} \cup Elems(Tail(q))
               /\ \A k \in Elems(Tail(q)) : k \in Message /\ k.cursor = 0
               /\ \A k \in Elems(Tail(q)) : k.sid = m.sid => m.mid < k.mid
               /\ \A r \in PRIO \ {p} : messages'[r] = messages[r]
               /\ Finished(m) => messages'[p] = Tail(q)
               /\ ~Finished(m) => /\ messages'[p] # <<>> /\ Head(messages'[p]) = n
                                  /\ Elems(messages'[p]) = {n} \cup Elems(Tail(q))
<1> DEFINE q == messages[p]
           m == Head(q)
           n == [m EXCEPT !.cursor = m.cursor + 1]
<1>1. p \in queued
  BY NextPrioIsQueued DEF FillFrame, FillFrom
<1>2. q \in Seq(Message) /\ q # <<>> /\ m \in Message /\ prio_of[m.sid] = p /\ messages \in [PRIO -> Seq(Message)]
  BY <1>1, HeadFacts DEF TypeOK
<1>3. /\ Elems(q) = {m} \cup Elems(Tail(q)) /\ Tail(q) \in Seq(Message) /\ Elems(Tail(q)) \subseteq Message
  BY <1>2, ElemsOfCons
<1>4. InOrder(Tail(q)) /\ \A k \in Elems(Tail(q)) : k.sid = m.sid => m.mid < k.mid
  BY <1>2, OrderOfTail DEF MidsInOrder
<1>5. /\ n \in Message /\ n.sid = m.sid /\ n.mid = m.mid
      /\ n.size = m.size /\ n.cursor = m.cursor + 1
      /\ PutBack(q) \in Seq(Message) /\ PutBack(q) # <<>>
      /\ Head(PutBack(q)) = n /\ Tail(PutBack(q)) = Tail(q)
      /\ DOMAIN PutBack(q) = DOMAIN q
      /\ \A i \in DOMAIN q : PutBack(q)[i] = IF i = 1 THEN n ELSE q[i]
  BY <1>2, ElemsOfPutBack
<1>6. /\ Finished(m) => messages' = [messages EXCEPT ![p] = Tail(q)]
      /\ ~Finished(m) => messages' = [messages EXCEPT ![p] = PutBack(q)]
      /\ messages_rx' = messages_rx /\ mid' = mid
  BY DEF FillFrame, FillFrom, api
<1>7. /\ Finished(m) => messages'[p] = Tail(q)
      /\ ~Finished(m) => messages'[p] = PutBack(q)
      /\ \A r \in PRIO \ {p} : messages'[r] = messages[r]
  BY <1>2, <1>6
<1>8. /\ Len(q) \in Nat \ {0} /\ DOMAIN q = 1 .. Len(q) /\ m = q[1] /\ 1 \in DOMAIN q
      /\ DOMAIN Tail(q) = 1 .. Len(q) - 1
      /\ \A i \in 1 .. Len(q) - 1 : Tail(q)[i] = q[i + 1] /\ i + 1 \in DOMAIN q /\ i + 1 # 1
  BY <1>2, HeadTailProperties, LenProperties, EmptySeq
<1>9. m.size \in Sizes /\ (m.cursor = 0 \/ m.cursor < m.size)
  BY <1>8 DEF QueueShape
<1>10. \A i \in DOMAIN Tail(q) : Tail(q)[i].size \in Sizes /\ Tail(q)[i].cursor = 0
  BY <1>8 DEF QueueShape
<1>11. \A k \in Elems(Tail(q)) : k \in Message /\ k.cursor = 0
  BY <1>3, <1>10 DEF Elems
<1>q. q = messages[p] /\ (Finished(m) <=> m.cursor + 1 >= m.size) /\ m.cursor \in Nat /\ m.size \in Nat
  BY <1>2 DEF Finished, Message
<1> HIDE DEF q, m, n
<1>12. ~Finished(m) => Elems(PutBack(q)) = {n} \cup Elems(Tail(q))
  BY <1>5, ElemsOfCons
<1>13. QueueShape'
  <2>1. ASSUME NEW r \in PRIO, NEW i \in DOMAIN messages'[r]
        PROVE  /\ messages'[r][i].size \in Sizes
               /\ \/ messages'[r][i].cursor = 0
                  \/ i = 1 /\ messages'[r][i].cursor < messages'[r][i].size
    <3>1. CASE r # p
      BY <1>7, <3>1 DEF QueueShape
    <3>2. CASE r = p /\ Finished(m)
      BY <1>7, <1>10, <3>2
    <3>3. CASE r = p /\ ~Finished(m)
      <4>1. messages'[r] = PutBack(q) /\ i \in DOMAIN q
        BY <1>5, <1>7, <3>3
      <4>2. CASE i = 1
        BY <1>5, <1>9, <1>q, <3>3, <4>1, <4>2
      <4>3. CASE i # 1
        <5>1. messages'[r][i] = messages[p][i] /\ i \in DOMAIN messages[p]
          BY <1>5, <1>q, <4>1, <4>3
        <5> QED BY <4>3, <5>1 DEF QueueShape
      <4> QED BY <4>2, <4>3
    <3> QED BY <3>1, <3>2, <3>3
  <2> QED BY <1>6, <2>1 DEF QueueShape
<1>14. MidsInOrder'
  <2>1. ASSUME NEW k \in Elems(messages'[p])
        PROVE  \E l \in Elems(messages[p]) : l.sid = k.sid /\ l.mid = k.mid
    <3>1. CASE k \in Elems(Tail(q))
      BY <1>3, <1>q, <3>1
    <3>2. CASE ~Finished(m) /\ k = n
      BY <1>3, <1>5, <1>q, <3>2
    <3> QED BY <1>7, <1>12, <3>1, <3>2
  <2>2. InOrder(messages'[p])
    <3>1. CASE Finished(m)
      BY <1>4, <1>7, <3>1
    <3>2. CASE ~Finished(m)
      <4>1. \A i \in DOMAIN q : PutBack(q)[i].sid = q[i].sid /\ PutBack(q)[i].mid = q[i].mid
        BY <1>5, <1>8
      <4>2. InOrder(q)
        BY <1>q DEF MidsInOrder
      <4>3. InOrder(PutBack(q))
        BY <1>5, <4>1, <4>2 DEF InOrder
      <4> QED BY <1>7, <3>2, <4>3
    <3> QED BY <3>1, <3>2
  <2>3. \A r \in PRIO : InOrder(messages'[r])
    BY <1>7, <2>2 DEF MidsInOrder
  <2>4. ASSUME NEW r \in PRIO, NEW k \in Elems(messages'[r])
        PROVE  \E l \in Elems(messages[r]) : l.sid = k.sid /\ l.mid = k.mid
    BY <1>7, <2>1
  <2>5. ASSUME NEW r \in PRIO, NEW k \in Elems(messages'[r]), NEW l \in Elems(messages_rx), k.sid = l.sid
        PROVE  k.mid < l.mid
    BY <2>4, <2>5 DEF MidsInOrder
  <2>6. \A r \in PRIO : \A k \in Elems(messages'[r]) : k.mid < mid[k.sid]
    BY <2>4 DEF MidsInOrder
  <2> QED BY <1>6, <2>3, <2>5, <2>6 DEF MidsInOrder, InOrder, Elems
<1>15. ~Finished(m) => /\ messages'[p] # <<>> /\ Head(messages'[p]) = n
                       /\ Elems(messages'[p]) = {n} \cup Elems(Tail(q))
  BY <1>5, <1>7, <1>12
<1> QED BY <1>2, <1>3, <1>4, <1>5, <1>7, <1>9, <1>11, <1>13, <1>14, <1>15 DEF q, m, n
-----------------------------------------------------------------------------
(* The frames: what one more frame changes, and what it leaves.            *)

LEMMA HeadersFinite ==
    ASSUME NEW fs, NEW s, NEW n \in Nat
    PROVE  IsFiniteSet(Headers(fs, s, n)) /\ Cardinality(Headers(fs, s, n)) \in Nat
<1>1. IsFiniteSet(1 .. n) /\ Headers(fs, s, n) \in SUBSET (1 .. n)
  BY FS_Interval DEF Headers
<1> QED BY <1>1, FS_Subset, FS_CardinalityType

(* All that is known of fs with one more frame f.                          *)
OneMore(g, fs, f) ==
    LET n == Len(g)
    IN  /\ g \in Seq(Frame) /\ n = Len(fs) + 1 /\ DOMAIN g = DOMAIN fs \cup {n} /\ n \notin DOMAIN fs
        /\ g[n] = f /\ \A i \in DOMAIN fs : g[i] = fs[i]
        /\ \A i \in DOMAIN fs : Continues(fs, i) => Continues(g, i)
        /\ \A i \in DOMAIN fs : Starts(fs, i) => Starts(g, i)
        /\ Previous(g, n) = LastOf(fs, prio_of[f.sid])
        /\ LastOf(g, prio_of[f.sid]) = {n}
        /\ \A p : p # prio_of[f.sid] => LastOf(g, p) = LastOf(fs, p)
        /\ \A s : Headers(g, s, Len(fs)) = Headers(fs, s, Len(fs))
        /\ \A s : Cardinality(Headers(g, s, n)) = Cardinality(Headers(fs, s, Len(fs)))
                                                  + (IF s = f.sid /\ f.part = 0 THEN 1 ELSE 0)
        /\ \A s : Whole(g, s) = Whole(fs, s)
                               \cup (IF s = f.sid /\ f.part = f.size THEN {f.mid} ELSE {})

LEMMA AppendedFrame ==
    ASSUME NEW fs \in Seq(Frame), NEW f \in Frame
    PROVE  OneMore(Append(fs, f), fs, f)
<1> DEFINE g == Append(fs, f)
           n == Len(fs) + 1
<1>1. /\ g \in Seq(Frame) /\ Len(g) = n /\ g[n] = f
      /\ Len(fs) \in Nat /\ n \in Nat
      /\ DOMAIN fs = 1 .. Len(fs) /\ DOMAIN g = 1 .. n
      /\ \A i \in 1 .. Len(fs) : g[i] = fs[i]
  BY AppendProperties, LenProperties
<1>2. DOMAIN g = DOMAIN fs \cup {n} /\ n \notin DOMAIN fs /\ \A i \in DOMAIN fs : g[i] = fs[i] /\ i < n
  BY <1>1
<1> HIDE DEF g, n
<1>3. ASSUME NEW i \in DOMAIN fs
      PROVE  /\ Previous(g, i) = Previous(fs, i)
             /\ \A s : Headers(g, s, i - 1) = Headers(fs, s, i - 1)
             /\ \A j \in Previous(g, i) : g[j] = fs[j]
  <2>1. \A j \in 1 .. i - 1 : j \in DOMAIN fs /\ g[j] = fs[j]
    BY <1>1
  <2>2. g[i] = fs[i]
    BY <1>2
  <2>3. Before(g, i) = Before(fs, i)
    BY <2>1, <2>2 DEF Before
  <2>4. Previous(g, i) = Previous(fs, i) /\ \A j \in Previous(g, i) : j \in 1 .. i - 1
    BY <2>3 DEF Previous, Before
  <2>5. \A s : Headers(g, s, i - 1) = Headers(fs, s, i - 1)
    BY <2>1 DEF Headers
  <2> QED BY <2>1, <2>4, <2>5
<1>4. \A i \in DOMAIN fs : Continues(fs, i) => Continues(g, i)
  BY <1>2, <1>3 DEF Continues
<1>5. \A i \in DOMAIN fs : Starts(fs, i) => Starts(g, i)
  BY <1>2, <1>3 DEF Starts
<1>6. Previous(g, n) = LastOf(fs, prio_of[f.sid])
  <2>1. Before(g, n) = {j \in DOMAIN fs : prio_of[fs[j].sid] = prio_of[f.sid]}
    <3>1. 1 .. n - 1 = DOMAIN fs
      BY <1>1 DEF n
    <3> QED BY <1>1, <1>2, <3>1 DEF Before
  <2> QED BY <2>1 DEF Previous, LastOf
<1>7. LastOf(g, prio_of[f.sid]) = {n}
  <2>1. \A i \in LastOf(g, prio_of[f.sid]) : i \in DOMAIN g /\ n <= i
    BY <1>1, <1>2 DEF LastOf
  <2>2. \A i \in LastOf(g, prio_of[f.sid]) : i = n
    BY <1>1, <2>1
  <2>3. n \in LastOf(g, prio_of[f.sid])
    BY <1>1, <1>2 DEF LastOf
  <2> QED BY <2>2, <2>3
<1>8. \A p : p # prio_of[f.sid] => LastOf(g, p) = LastOf(fs, p)
  BY <1>1, <1>2 DEF LastOf
<1>9. \A s : Headers(g, s, Len(fs)) = Headers(fs, s, Len(fs))
  BY <1>1 DEF Headers
<1>10. ASSUME NEW s
       PROVE  Cardinality(Headers(g, s, n)) = Cardinality(Headers(fs, s, Len(fs)))
                                              + (IF s = f.sid /\ f.part = 0 THEN 1 ELSE 0)
  <2>1. 1 .. n = 1 .. Len(fs) \cup {n} /\ n \notin 1 .. Len(fs)
    BY <1>1 DEF n
  <2>2. Headers(g, s, n) = Headers(fs, s, Len(fs)) \cup (IF s = f.sid /\ f.part = 0 THEN {n} ELSE {})
    BY <1>1, <2>1 DEF Headers
  <2>3. n \notin Headers(fs, s, Len(fs))
    BY <2>1 DEF Headers
  <2>4. IsFiniteSet(Headers(fs, s, Len(fs))) /\ Cardinality(Headers(fs, s, Len(fs))) \in Nat
    BY <1>1, HeadersFinite
  <2>5. CASE s = f.sid /\ f.part = 0
    <3>1. Headers(g, s, n) = Headers(fs, s, Len(fs)) \cup {n}
      BY <2>2, <2>5
    <3>2. Cardinality(Headers(g, s, n)) = Cardinality(Headers(fs, s, Len(fs))) + 1
      BY <2>3, <2>4, <3>1, FS_AddElement
    <3> QED BY <2>5, <3>2
  <2>6. CASE ~(s = f.sid /\ f.part = 0)
    <3>1. Headers(g, s, n) = Headers(fs, s, Len(fs))
      BY <2>2, <2>6
    <3>2. Cardinality(Headers(fs, s, Len(fs))) = Cardinality(Headers(fs, s, Len(fs))) + 0
      BY <2>4
    <3> QED BY <2>6, <3>1, <3>2
  <2> QED BY <2>5, <2>6
<1>11. \A s : Whole(g, s) = Whole(fs, s) \cup (IF s = f.sid /\ f.part = f.size THEN {f.mid} ELSE {})
  <2> SUFFICES ASSUME NEW s
               PROVE  Whole(g, s) = Whole(fs, s) \cup (IF s = f.sid /\ f.part = f.size THEN {f.mid} ELSE {})
    OBVIOUS
  <2>1. {j \in DOMAIN g : g[j].sid = s /\ g[j].part = g[j].size}
            = {j \in DOMAIN fs : fs[j].sid = s /\ fs[j].part = fs[j].size}
              \cup (IF s = f.sid /\ f.part = f.size THEN {n} ELSE {})
    BY <1>1, <1>2
  <2> QED BY <1>1, <1>2, <2>1 DEF Whole
<1>12. n = Len(g)
  BY <1>1
<1> QED BY <1>1, <1>2, <1>4, <1>5, <1>6, <1>7, <1>8, <1>9, <1>10, <1>11, <1>12 DEF OneMore, g, n

(* fill_next yields nothing, a data frame, or a header and a data frame.   *)
LEMMA FilledOneByOne ==
    ASSUME NEW fs \in Seq(Frame), NEW m \in Message
    PROVE  LET data   == [sid |-> m.sid, mid |-> m.mid, part |-> m.cursor + 1, size |-> m.size]
               header == [sid |-> m.sid, mid |-> m.mid, part |-> 0, size |-> m.size]
           IN  /\ data \in Frame /\ header \in Frame
               /\ m.size = 0 => fs \o FilledFrames(m) = fs
               /\ m.size # 0 /\ m.cursor # 0 => fs \o FilledFrames(m) = Append(fs, data)
               /\ m.size # 0 /\ m.cursor = 0 => fs \o FilledFrames(m) = Append(Append(fs, header), data)
<1> DEFINE data   == [sid |-> m.sid, mid |-> m.mid, part |-> m.cursor + 1, size |-> m.size]
           header == [sid |-> m.sid, mid |-> m.mid, part |-> 0, size |-> m.size]
<1>1. m.cursor \in Nat /\ m.cursor + 1 \in Nat /\ m.sid \in SID /\ m.mid \in Nat /\ m.size \in Nat
  BY DEF Message
<1>2. data \in Frame /\ header \in Frame
  BY <1>1 DEF Frame
<1>3. [data EXCEPT !.part = 0] = header
  OBVIOUS
<1>4. FilledFrames(m) = IF m.size = 0 THEN <<>> ELSE IF m.cursor = 0 THEN <<header, data>> ELSE <<data>>
  BY <1>3 DEF FilledFrames
<1> HIDE DEF data, header
<1>5. fs \o <<>> = fs
  BY ConcatEmptySeq
<1>6. fs \o <<data>> = Append(fs, data)
  BY <1>2, AppendIsConcat
<1>7. fs \o <<header, data>> = Append(Append(fs, header), data)
  <2>1. Append(fs, header) \in Seq(Frame) /\ Append(fs, header) = fs \o <<header>>
    BY <1>2, AppendProperties, AppendIsConcat
  <2>2. Append(Append(fs, header), data) = (fs \o <<header>>) \o <<data>>
    BY <1>2, <2>1, AppendIsConcat
  <2>3. <<header>> \in Seq(Frame) /\ <<data>> \in Seq(Frame)
    BY <1>2
  <2>4. <<header>> \o <<data>> = <<header, data>>
    <3>1. <<header>> \o <<data>> = Append(<<header>>, data)
      BY <1>2, <2>3, AppendIsConcat
    <3>2. Append(<<header>>, data) = <<header, data>>
      <4>1. /\ Append(<<header>>, data) \in Seq(Frame) /\ Len(Append(<<header>>, data)) = 2
            /\ Append(<<header>>, data)[1] = header /\ Append(<<header>>, data)[2] = data
        BY <1>2, <2>3, AppendProperties
      <4>2. /\ <<header, data>> \in Seq(Frame) /\ Len(<<header, data>>) = 2
            /\ <<header, data>>[1] = header /\ <<header, data>>[2] = data
        BY <1>2
      <4>3. \A i \in 1 .. 2 : Append(<<header>>, data)[i] = <<header, data>>[i]
        BY <4>1, <4>2
      <4> QED BY <4>1, <4>2, <4>3, SeqEqual
    <3> QED BY <3>1, <3>2
  <2>5. (fs \o <<header>>) \o <<data>> = fs \o (<<header>> \o <<data>>)
    BY <2>3, ConcatAssociative
  <2> QED BY <2>2, <2>4, <2>5
<1> QED BY <1>2, <1>4, <1>5, <1>6, <1>7 DEF data, header
-----------------------------------------------------------------------------
(* FillFrame and the frames: Reassembly and NoMixing.                      *)

(* The next message of a Stream to get a header is the one at the head.    *)
LEMMA HeadIsNext ==
    ASSUME TypeOK, MidsInOrder, HeadersCount, NEW p \in PRIO,
           NEW m \in Message, prio_of[m.sid] = p, m.cursor = 0, NEW rest,
           Elems(messages[p]) = {m} \cup rest,
           \A k \in rest : k \in Message /\ k.cursor = 0,
           \A k \in rest : k.sid = m.sid => m.mid < k.mid
    PROVE  /\ m.mid = Begun(m.sid) /\ m.mid < mid[m.sid]
           /\ MidsOf(rest \cup Elems(messages_rx), m.sid) = Begun(m.sid) + 1 .. mid[m.sid] - 1
<1> DEFINE s == m.sid
           later == MidsOf(rest \cup Elems(messages_rx), s)
<1>1. s \in SID /\ m.mid \in Nat /\ mid[s] \in Nat /\ prio_of[s] = p
  BY DEF Message, TypeOK
<1>2. Begun(s) \in Nat
  BY LenProperties, HeadersFinite DEF Begun, TypeOK
<1>3. NotBegun(s) = Begun(s) .. mid[s] - 1 /\ Begun(s) <= mid[s]
  BY <1>1 DEF HeadersCount
<1>4. {k \in Elems(messages[p]) : k.cursor = 0} = {m} \cup rest
  OBVIOUS
<1>5. NotBegun(s) = MidsOf({m} \cup rest \cup Elems(messages_rx), s)
  BY <1>1, <1>4 DEF NotBegun
<1>6. NotBegun(s) = {m.mid} \cup later
  BY <1>5 DEF MidsOf
<1>7. \A k \in Elems(messages_rx) : k.sid = s => m.mid < k.mid
  BY DEF MidsInOrder
<1>8. \A x \in later : m.mid < x
  BY <1>7 DEF MidsOf
<1> HIDE DEF s, later
<1>9. m.mid \in Begun(s) .. mid[s] - 1
  BY <1>3, <1>6
<1>10. Begun(s) \in {m.mid} \cup later
  <2>1. Begun(s) \in Begun(s) .. mid[s] - 1
    BY <1>1, <1>2, <1>9
  <2> QED BY <1>3, <1>6, <2>1
<1>11. m.mid = Begun(s)
  BY <1>1, <1>2, <1>8, <1>9, <1>10
<1>12. \A x \in later : x \in Begun(s) + 1 .. mid[s] - 1
  <2>1. \A x \in later : x \in Begun(s) .. mid[s] - 1 /\ m.mid < x
    BY <1>3, <1>6, <1>8
  <2> QED BY <1>1, <1>2, <1>11, <2>1
<1>13. \A x \in Begun(s) + 1 .. mid[s] - 1 : x \in later
  <2>1. \A x \in Begun(s) + 1 .. mid[s] - 1 : x \in Begun(s) .. mid[s] - 1 /\ x # m.mid
    BY <1>1, <1>2, <1>11
  <2> QED BY <1>3, <1>6, <2>1
<1>14. later = Begun(s) + 1 .. mid[s] - 1 /\ m.mid < mid[s]
  <2>1. later = Begun(s) + 1 .. mid[s] - 1
    BY <1>12, <1>13
  <2>2. m.mid < mid[s]
    BY <1>1, <1>2, <1>9
  <2> QED BY <2>1, <2>2
<1> QED BY <1>11, <1>14 DEF s, later
LEMMA FillExtendsFrames ==
    ASSUME TypeOK, Bookkeeping, FrameOrder, NEW p \in PRIO, FillFrame(p)
    PROVE  LET m == Head(messages[p])
               g == frames'
           IN  /\ \A i \in DOMAIN frames : i \in DOMAIN g /\ g[i] = frames[i]
               /\ \A i \in DOMAIN g : Continues(g, i) \/ Starts(g, i)
               /\ \A r : r # p => LastOf(g, r) = LastOf(frames, r)
               /\ IF m.size = 0
                  THEN g = frames
                  ELSE /\ LastOf(g, p) = {Len(g)}
                       /\ g[Len(g)] = [sid |-> m.sid, mid |-> m.mid, part |-> m.cursor + 1, size |-> m.size]
                       /\ \A t : Cardinality(Headers(g, t, Len(g)))
                                     = Begun(t) + (IF t = m.sid /\ m.cursor = 0 THEN 1 ELSE 0)
                       /\ \A t : Whole(g, t) = Whole(frames, t)
                                     \cup (IF t = m.sid /\ m.cursor + 1 = m.size THEN {m.mid} ELSE {})
<1> DEFINE q == messages[p]
           m == Head(q)
           data   == [sid |-> m.sid, mid |-> m.mid, part |-> m.cursor + 1, size |-> m.size]
           header == [sid |-> m.sid, mid |-> m.mid, part |-> 0, size |-> m.size]
<1>1. QueueShape /\ MidsInOrder /\ Reassembly /\ NoMixing /\ frames \in Seq(Frame)
  BY DEF FrameOrder, TypeOK
<1>2. /\ q \in Seq(Message) /\ q # <<>> /\ m \in Message /\ prio_of[m.sid] = p
      /\ m.size \in Sizes /\ (m.cursor = 0 \/ m.cursor < m.size)
      /\ Elems(q) = {m} \cup Elems(Tail(q))
      /\ \A k \in Elems(Tail(q)) : k \in Message /\ k.cursor = 0
      /\ \A k \in Elems(Tail(q)) : k.sid = m.sid => m.mid < k.mid
  BY <1>1, FillKeepsQueues
<1>3. m.cursor \in Nat /\ m.size \in Nat
  BY <1>2 DEF Message
<1>4. frames' = frames \o FilledFrames(m)
  BY DEF FillFrame, FillFrom
<1>5. /\ data \in Frame /\ header \in Frame
      /\ m.size = 0 => frames' = frames
      /\ m.size # 0 /\ m.cursor # 0 => frames' = Append(frames, data)
      /\ m.size # 0 /\ m.cursor = 0 => frames' = Append(Append(frames, header), data)
  BY <1>1, <1>2, <1>4, FilledOneByOne
<1>6. HeadIsOpen(p) \/ NoneIsOpen(p)
  BY <1>1 DEF Reassembly
<1>7. \A i \in DOMAIN frames : Continues(frames, i) \/ Starts(frames, i)
  BY <1>1 DEF NoMixing
<1>8. \A t : Begun(t) \in Nat
  BY <1>1, LenProperties, HeadersFinite DEF Begun
<1>9. CASE m.size = 0
  BY <1>5, <1>7, <1>9
<1>10. CASE m.size # 0 /\ m.cursor # 0
  <2>1. PICK i \in LastOf(frames, p) : frames[i] = LatestFrame(m)
    BY <1>2, <1>6, <1>10 DEF HeadIsOpen, NoneIsOpen
  <2> DEFINE g == Append(frames, data)
             n == Len(frames) + 1
  <2>2. data.sid = m.sid /\ data.mid = m.mid /\ data.part = m.cursor + 1 /\ data.size = m.size
    OBVIOUS
  <2>3. data.part # 0
    BY <1>3, <2>2
  <2>4. data = [LatestFrame(m) EXCEPT !.part = @ + 1] /\ LatestFrame(m).part < LatestFrame(m).size
    BY <1>2, <1>3, <1>10 DEF LatestFrame
  <2> HIDE DEF data
  <2>5. OneMore(g, frames, data) /\ n = Len(frames) + 1
    BY <1>1, <1>5, AppendedFrame
  <2>6. frames' = g
    BY <1>5, <1>10
  <2> HIDE DEF g, n
  <2>7. Continues(g, n)
    <3>1. i \in Previous(g, n) /\ g[i] = LatestFrame(m)
      BY <1>2, <2>1, <2>2, <2>5 DEF LastOf, OneMore
    <3> QED BY <2>4, <2>5, <3>1 DEF Continues, OneMore
  <2>8. \A k \in DOMAIN g : Continues(g, k) \/ Starts(g, k)
    BY <1>7, <2>5, <2>7 DEF OneMore
  <2>9. \A t : Cardinality(Headers(g, t, Len(g))) = Begun(t) + (IF t = m.sid /\ m.cursor = 0 THEN 1 ELSE 0)
    BY <1>8, <1>10, <2>3, <2>5 DEF Begun, OneMore
  <2>10. \A t : Whole(g, t) = Whole(frames, t) \cup (IF t = m.sid /\ m.cursor + 1 = m.size THEN {m.mid} ELSE {})
    BY <2>2, <2>5 DEF OneMore
  <2> QED BY <1>2, <1>10, <2>2, <2>5, <2>6, <2>8, <2>9, <2>10 DEF data, OneMore
<1>11. CASE m.size # 0 /\ m.cursor = 0
  <2>1. NoneIsOpen(p)
    BY <1>6, <1>11 DEF HeadIsOpen
  <2> DEFINE h == Append(frames, header)
             g == Append(h, data)
             n == Len(frames) + 1
  <2>2. /\ data.sid = m.sid /\ data.mid = m.mid /\ data.part = m.cursor + 1 /\ data.size = m.size
        /\ header.sid = m.sid /\ header.mid = m.mid /\ header.part = 0 /\ header.size = m.size
    OBVIOUS
  <2>3. data.part # 0 /\ header.part # header.size /\ header.part < header.size
    BY <1>3, <1>11, <2>2
  <2>4. data = [header EXCEPT !.part = @ + 1]
    BY <1>11
  <2> HIDE DEF data, header
  <2>5. OneMore(h, frames, header) /\ h \in Seq(Frame) /\ n = Len(frames) + 1
    BY <1>1, <1>5, AppendedFrame, AppendProperties
  <2> HIDE DEF h
  <2>6. OneMore(g, h, data)
    BY <1>5, <2>5, AppendedFrame DEF OneMore
  <2>7. frames' = g
    BY <1>5, <1>11 DEF h
  <2> HIDE DEF g
  <2>8. Starts(h, n)
    <3>1. \A j \in Previous(h, n) : h[j].part = h[j].size
      BY <1>2, <2>1, <2>2, <2>5 DEF NoneIsOpen, LastOf, OneMore
    <3>2. ASSUME 0 \notin Sizes
          PROVE  h[n].mid = Cardinality(Headers(h, h[n].sid, n - 1))
      <4>1. HeadersCount
        BY <3>2 DEF FrameOrder
      <4>2. m.mid = Begun(m.sid)
        BY <1>1, <1>2, <1>11, <4>1, HeadIsNext
      <4>3. n - 1 = Len(frames)
        BY <1>1, LenProperties
      <4> QED BY <2>2, <2>5, <4>2, <4>3 DEF Begun, OneMore
    <3> QED BY <2>2, <2>5, <3>1, <3>2 DEF Starts, OneMore
  <2>9. Continues(g, Len(h) + 1)
    <3>1. n \in Previous(g, Len(h) + 1) /\ g[n] = header
      BY <2>2, <2>5, <2>6 DEF OneMore
    <3> QED BY <2>3, <2>4, <2>6, <3>1 DEF Continues, OneMore
  <2>10. \A k \in DOMAIN g : Continues(g, k) \/ Starts(g, k)
    BY <1>7, <2>5, <2>6, <2>8, <2>9 DEF OneMore
  <2>11. ASSUME NEW t
         PROVE  Cardinality(Headers(g, t, Len(g))) = Begun(t) + (IF t = m.sid /\ m.cursor = 0 THEN 1 ELSE 0)
    <3>1. Cardinality(Headers(h, t, n)) = Begun(t) + (IF t = m.sid THEN 1 ELSE 0)
      BY <2>2, <2>5 DEF Begun, OneMore
    <3>2. Cardinality(Headers(g, t, Len(g))) = Cardinality(Headers(h, t, n)) + 0
      BY <2>3, <2>5, <2>6 DEF OneMore
    <3> QED BY <1>8, <1>11, <3>1, <3>2
  <2>12. \A t : Whole(g, t) = Whole(frames, t) \cup (IF t = m.sid /\ m.cursor + 1 = m.size THEN {m.mid} ELSE {})
    BY <2>2, <2>3, <2>5, <2>6 DEF OneMore
  <2>13. \A r : r # p => LastOf(g, r) = LastOf(frames, r)
    BY <1>2, <2>2, <2>5, <2>6 DEF OneMore
  <2>14. LastOf(g, p) = {Len(g)} /\ g[Len(g)] = data
    BY <1>2, <2>2, <2>6 DEF OneMore
  <2>15. \A k \in DOMAIN frames : k \in DOMAIN g /\ g[k] = frames[k]
    BY <2>5, <2>6 DEF OneMore
  <2> QED BY <1>11, <2>7, <2>10, <2>11, <2>12, <2>13, <2>14, <2>15 DEF data
<1> QED BY <1>9, <1>10, <1>11
LEMMA FillKeepsFrames ==
    ASSUME TypeOK, Bookkeeping, FrameOrder, NEW p \in PRIO, FillFrame(p)
    PROVE  Reassembly' /\ NoMixing'
<1> DEFINE m == Head(messages[p])
           g == frames'
           n == [m EXCEPT !.cursor = m.cursor + 1]
<1>1. QueueShape /\ MidsInOrder /\ Reassembly
  BY DEF FrameOrder
<1>2. /\ messages[p] \in Seq(Message) /\ messages[p] # <<>> /\ m \in Message
      /\ n.sid = m.sid /\ n.mid = m.mid /\ n.size = m.size /\ n.cursor = m.cursor + 1
      /\ m.cursor = 0 \/ m.cursor < m.size
      /\ \A k \in Elems(Tail(messages[p])) : k \in Message /\ k.cursor = 0
      /\ \A r \in PRIO \ {p} : messages'[r] = messages[r]
      /\ Finished(m) => messages'[p] = Tail(messages[p])
      /\ ~Finished(m) => messages'[p] # <<>> /\ Head(messages'[p]) = n
  BY <1>1, FillKeepsQueues
<1>3. /\ \A i \in DOMAIN frames : i \in DOMAIN g /\ g[i] = frames[i]
      /\ \A i \in DOMAIN g : Continues(g, i) \/ Starts(g, i)
      /\ \A r : r # p => LastOf(g, r) = LastOf(frames, r)
      /\ m.size = 0 => g = frames
      /\ m.size # 0 => /\ LastOf(g, p) = {Len(g)}
                       /\ g[Len(g)] = [sid |-> m.sid, mid |-> m.mid, part |-> m.cursor + 1, size |-> m.size]
  BY FillExtendsFrames
<1>4. m.cursor \in Nat /\ m.size \in Nat /\ (Finished(m) <=> m.cursor + 1 >= m.size)
  BY <1>2 DEF Message, Finished
<1>5. prio_of' = prio_of
  BY DEF FillFrame, FillFrom, api
<1>6. Tail(messages[p]) # <<>> => Head(Tail(messages[p])).cursor = 0
  <2> SUFFICES ASSUME Tail(messages[p]) # <<>>
               PROVE  Head(Tail(messages[p])).cursor = 0
    OBVIOUS
  <2>1. Tail(messages[p]) \in Seq(Message)
    BY <1>2, HeadTailProperties
  <2>2. Head(Tail(messages[p])) \in Elems(Tail(messages[p]))
    BY <2>1, ElemsOfTail
  <2> QED BY <1>2, <2>2
<1> HIDE DEF m, n, g
<1>7. NoMixing'
  BY <1>3, <1>5 DEF NoMixing, Continues, Starts, Previous, Before, Headers, g
<1>8. ASSUME NEW r \in PRIO, r # p
      PROVE  HeadIsOpen(r)' \/ NoneIsOpen(r)'
  <2>1. /\ messages'[r] = messages[r] /\ LastOf(frames, r)' = LastOf(frames, r)
        /\ \A i \in LastOf(frames, r) : frames'[i] = frames[i]
    <3>1. messages'[r] = messages[r] /\ LastOf(g, r) = LastOf(frames, r)
      BY <1>2, <1>3, <1>8
    <3>2. LastOf(frames, r)' = LastOf(g, r)
      BY <1>5 DEF LastOf, g
    <3>3. \A i \in LastOf(frames, r) : frames'[i] = frames[i]
      BY <1>3 DEF LastOf, g
    <3> QED BY <3>1, <3>2, <3>3
  <2>2. HeadIsOpen(r) \/ NoneIsOpen(r)
    BY <1>1 DEF Reassembly
  <2> QED BY <2>1, <2>2 DEF HeadIsOpen, NoneIsOpen, LatestFrame
<1>9. HeadIsOpen(p)' \/ NoneIsOpen(p)'
  <2>1. LastOf(frames, p)' = LastOf(g, p)
    BY <1>5 DEF LastOf, g
  <2>2. CASE m.size = 0
    <3>1. Finished(m) /\ m.cursor = 0
      BY <1>2, <1>4, <2>2
    <3>2. NoneIsOpen(p)
      BY <1>1, <3>1 DEF Reassembly, HeadIsOpen, m
    <3>3. messages'[p] # <<>> => Head(messages'[p]).cursor = 0
      BY <1>2, <1>6, <3>1
    <3> QED BY <1>3, <2>1, <2>2, <3>2, <3>3 DEF NoneIsOpen, g
  <2>3. CASE m.size # 0 /\ Finished(m)
    <3>1. m.cursor + 1 = m.size
      BY <1>2, <1>4, <2>3
    <3>2. messages'[p] # <<>> => Head(messages'[p]).cursor = 0
      BY <1>2, <1>6, <2>3
    <3>3. \A i \in LastOf(g, p) : g[i].part = g[i].size
      BY <1>3, <2>3, <3>1
    <3> QED BY <2>1, <3>2, <3>3 DEF NoneIsOpen, g
  <2>4. CASE m.size # 0 /\ ~Finished(m)
    <3>1. messages'[p] # <<>> /\ Head(messages'[p]) = n /\ n.cursor > 0
      BY <1>2, <1>4, <2>4
    <3>2. \E i \in LastOf(g, p) : g[i] = LatestFrame(n)
      BY <1>2, <1>3, <2>4 DEF LatestFrame
    <3> QED BY <2>1, <3>1, <3>2 DEF HeadIsOpen, LatestFrame, g
  <2> QED BY <2>2, <2>3, <2>4
<1> QED BY <1>7, <1>8, <1>9 DEF Reassembly

LEMMA FillKeepsCounts ==
    ASSUME TypeOK, Bookkeeping, FrameOrder, 0 \notin Sizes, NEW p \in PRIO, FillFrame(p)
    PROVE  HeadersCount' /\ Accounted'
<1> DEFINE m == Head(messages[p])
           n == [m EXCEPT !.cursor = m.cursor + 1]
           rest == Elems(Tail(messages[p]))
<1>1. QueueShape /\ MidsInOrder /\ HeadersCount /\ Accounted
  BY DEF FrameOrder
<1>2. /\ m \in Message /\ prio_of[m.sid] = p
      /\ n.sid = m.sid /\ n.mid = m.mid /\ n.cursor = m.cursor + 1
      /\ m.size \in Sizes /\ (m.cursor = 0 \/ m.cursor < m.size)
      /\ Elems(messages[p]) = {m} \cup rest
      /\ \A k \in rest : k \in Message /\ k.cursor = 0
      /\ \A k \in rest : k.sid = m.sid => m.mid < k.mid
      /\ \A r \in PRIO \ {p} : messages'[r] = messages[r]
      /\ Finished(m) => Elems(messages'[p]) = rest
      /\ ~Finished(m) => Elems(messages'[p]) = {n} \cup rest
  BY <1>1, FillKeepsQueues
<1>3. m.cursor \in Nat /\ m.size \in Nat /\ m.size # 0 /\ (Finished(m) <=> m.cursor + 1 >= m.size)
  BY <1>2 DEF Message, Finished
<1>4. \A t : /\ Begun(t)' = Begun(t) + (IF t = m.sid /\ m.cursor = 0 THEN 1 ELSE 0)
             /\ Whole(frames', t) = Whole(frames, t)
                   \cup (IF t = m.sid /\ m.cursor + 1 = m.size THEN {m.mid} ELSE {})
  BY <1>3, FillExtendsFrames DEF Begun, Headers
<1>5. prio_of' = prio_of /\ mid' = mid /\ messages_rx' = messages_rx
  BY DEF FillFrame, FillFrom, api
<1>6. prio_of \in [SID -> PRIO] /\ mid \in [SID -> Nat]
  BY DEF TypeOK
<1>7. \A t : Begun(t) \in Nat
  BY LenProperties, HeadersFinite DEF Begun, TypeOK
<1> HIDE DEF m, n, rest
<1>8. ASSUME NEW t \in SID, t # m.sid
      PROVE  /\ NotBegun(t)' = NotBegun(t) /\ Begun(t)' = Begun(t)
             /\ Whole(frames', t) = Whole(frames, t)
             /\ MidsOf(Elems(messages'[prio_of[t]]) \cup Elems(messages_rx), t)
                  = MidsOf(Elems(messages[prio_of[t]]) \cup Elems(messages_rx), t)
  <2>1. Begun(t)' = Begun(t) + 0 /\ Whole(frames', t) = Whole(frames, t)
    BY <1>4, <1>8
  <2>2. CASE prio_of[t] # p
    <3>1. messages'[prio_of[t]] = messages[prio_of[t]]
      BY <1>2, <1>6, <2>2
    <3> QED BY <1>5, <1>7, <2>1, <3>1 DEF NotBegun, MidsOf, Elems
  <2>3. CASE prio_of[t] = p
    <3>1. \A k : k.sid = t => (k \in Elems(messages'[p]) <=> k \in Elems(messages[p]))
      BY <1>2, <1>8
    <3>2. MidsOf(Elems(messages'[p]) \cup Elems(messages_rx), t)
            = MidsOf(Elems(messages[p]) \cup Elems(messages_rx), t)
      BY <3>1 DEF MidsOf
    <3>3. MidsOf({k \in Elems(messages'[p]) : k.cursor = 0} \cup Elems(messages_rx), t)
            = MidsOf({k \in Elems(messages[p]) : k.cursor = 0} \cup Elems(messages_rx), t)
      BY <3>1 DEF MidsOf
    <3>4. NotBegun(t)' = MidsOf({k \in Elems(messages'[p]) : k.cursor = 0} \cup Elems(messages_rx), t)
      BY <1>5, <2>3 DEF NotBegun, Elems, MidsOf
    <3> QED BY <1>7, <2>1, <2>3, <3>2, <3>3, <3>4 DEF NotBegun
  <2> QED BY <2>2, <2>3
<1> DEFINE queue == Elems(messages'[p])
<1>s. PICK s \in SID : s = m.sid
  BY <1>2 DEF Message
<1>9. m.mid \in Nat /\ mid[s] \in Nat /\ prio_of[s] = p
  BY <1>2, <1>6, <1>s DEF Message
<1>10. NotBegun(s)' = MidsOf({k \in queue : k.cursor = 0} \cup Elems(messages_rx), s)
  BY <1>5, <1>9 DEF NotBegun, Elems, MidsOf
<1>11. {k \in queue : k.cursor = 0} = rest
  BY <1>2, <1>3
<1>12. Begun(s)' <= mid[s] /\ NotBegun(s)' = Begun(s)' .. mid[s] - 1
  <2>1. CASE m.cursor = 0
    <3>1. /\ m.mid = Begun(s) /\ m.mid < mid[s]
          /\ MidsOf(rest \cup Elems(messages_rx), s) = Begun(s) + 1 .. mid[s] - 1
      BY <1>1, <1>2, <1>s, <2>1, HeadIsNext
    <3>2. Begun(s)' = Begun(s) + 1
      BY <1>4, <1>s, <2>1
    <3>3. NotBegun(s)' = Begun(s) + 1 .. mid[s] - 1
      BY <1>10, <1>11, <1>s, <3>1
    <3>4. Begun(s) + 1 <= mid[s]
      BY <1>7, <1>9, <1>s, <3>1
    <3> QED BY <3>2, <3>3, <3>4
  <2>2. CASE m.cursor # 0
    <3>1. Begun(s)' = Begun(s)
      BY <1>4, <1>7, <1>s, <2>2
    <3>2. {k \in Elems(messages[p]) : k.cursor = 0} = rest
      BY <1>2, <2>2
    <3>3. NotBegun(s) = MidsOf(rest \cup Elems(messages_rx), s)
      BY <1>9, <3>2 DEF NotBegun
    <3> QED BY <1>1, <1>9, <1>10, <1>11, <3>1, <3>3 DEF HeadersCount
  <2> QED BY <2>1, <2>2
<1>13. Whole(frames', s) \cup MidsOf(queue \cup Elems(messages_rx), s)
         = Whole(frames, s) \cup MidsOf(Elems(messages[p]) \cup Elems(messages_rx), s)
  <2>1. MidsOf(Elems(messages[p]) \cup Elems(messages_rx), s) = {m.mid} \cup MidsOf(rest \cup Elems(messages_rx), s)
    BY <1>2, <1>s DEF MidsOf
  <2>2. CASE Finished(m)
    <3>1. Whole(frames', s) = Whole(frames, s) \cup {m.mid}
      BY <1>2, <1>3, <1>4, <1>s, <2>2
    <3> QED BY <1>2, <2>1, <2>2, <3>1
  <2>3. CASE ~Finished(m)
    <3>1. Whole(frames', s) = Whole(frames, s)
      <4>1. ~(m.cursor + 1 = m.size)
        BY <1>3, <2>3
      <4> QED BY <1>4, <1>s, <4>1
    <3>2. MidsOf(queue \cup Elems(messages_rx), s) = {m.mid} \cup MidsOf(rest \cup Elems(messages_rx), s)
      BY <1>2, <1>s, <2>3 DEF MidsOf
    <3> QED BY <2>1, <3>1, <3>2
  <2> QED BY <2>2, <2>3
<1> HIDE DEF queue
<1>14. HeadersCount'
  <2> SUFFICES ASSUME NEW t \in SID
               PROVE  Begun(t)' <= mid[t] /\ NotBegun(t)' = Begun(t)' .. mid[t] - 1
    BY <1>5 DEF HeadersCount
  <2>1. CASE t = s
    BY <1>12, <2>1
  <2>2. CASE t # s
    BY <1>1, <1>8, <1>s, <2>2 DEF HeadersCount
  <2> QED BY <2>1, <2>2
<1>15. Accounted'
  <2> SUFFICES ASSUME NEW t \in SID
               PROVE  Whole(frames', t) \cup MidsOf(Elems(messages'[prio_of[t]]) \cup Elems(messages_rx), t)
                        = 0 .. mid[t] - 1
    BY <1>5 DEF Accounted, Whole, MidsOf, Elems
  <2>1. CASE t = s
    BY <1>1, <1>9, <1>13, <2>1 DEF Accounted, queue
  <2>2. CASE t # s
    BY <1>1, <1>8, <1>s, <2>2 DEF Accounted
  <2> QED BY <2>1, <2>2
<1> QED BY <1>14, <1>15
-----------------------------------------------------------------------------
LEMMA SendKeepsFrameOrder ==
    ASSUME TypeOK, FrameOrder, NEW s \in SID, Send(s)
    PROVE  FrameOrder'
<1>1. QueueShape /\ MidsInOrder /\ Reassembly /\ NoMixing
  BY DEF FrameOrder
<1>2. /\ QueueShape' /\ MidsInOrder'
      /\ \E n \in Sizes :
           Elems(messages_rx') = Elems(messages_rx) \cup {[sid |-> s, mid |-> mid[s], size |-> n, cursor |-> 0]}
  BY <1>1, SendKeepsQueues
<1>3. PICK m : m.sid = s /\ m.mid = mid[s] /\ Elems(messages_rx') = Elems(messages_rx) \cup {m}
  BY <1>2
<1>4. /\ UNCHANGED <<prio_of, messages, frames>> /\ mid' = [mid EXCEPT ![s] = mid[s] + 1]
      /\ mid \in [SID -> Nat]
  BY DEF Send, manager, TypeOK
<1>5. Reassembly'
  BY <1>1, <1>4 DEF Reassembly, HeadIsOpen, NoneIsOpen, LatestFrame, LastOf
<1>6. NoMixing'
  BY <1>1, <1>4 DEF NoMixing, Continues, Starts, Previous, Before, Headers
<1>7. ASSUME 0 \notin Sizes
      PROVE  HeadersCount' /\ Accounted'
  <2>1. HeadersCount /\ Accounted
    BY <1>7 DEF FrameOrder
  <2>2. \A t \in SID : Begun(t)' = Begun(t) /\ Begun(t) \in Nat
    BY <1>4, LenProperties, HeadersFinite DEF Begun, Headers, TypeOK
  <2>3. \A M, t : MidsOf(M \cup Elems(messages_rx'), t)
                    = MidsOf(M \cup Elems(messages_rx), t) \cup (IF t = s THEN {mid[s]} ELSE {})
    BY <1>3 DEF MidsOf
  <2>4. \A t \in SID : NotBegun(t)' = NotBegun(t) \cup (IF t = s THEN {mid[s]} ELSE {})
    <3> TAKE t \in SID
    <3>1. NotBegun(t)' = MidsOf({k \in Elems(messages[prio_of[t]]) : k.cursor = 0} \cup Elems(messages_rx'), t)
      BY <1>4 DEF NotBegun, MidsOf, Elems
    <3> QED BY <2>3, <3>1 DEF NotBegun
  <2>5. \A t \in SID \ {s} : mid'[t] = mid[t]
    BY <1>4
  <2>6. mid'[s] = mid[s] + 1 /\ mid[s] \in Nat
    BY <1>4
  <2>7. HeadersCount'
    <3> SUFFICES ASSUME NEW t \in SID
                 PROVE  Begun(t)' <= mid'[t] /\ NotBegun(t)' = Begun(t)' .. mid'[t] - 1
      BY DEF HeadersCount
    <3>1. CASE t # s
      BY <2>1, <2>2, <2>4, <2>5, <3>1 DEF HeadersCount
    <3>2. CASE t = s
      <4>1. Begun(s) <= mid[s] /\ NotBegun(s) = Begun(s) .. mid[s] - 1 /\ Begun(s) \in Nat
        BY <2>1, <2>2 DEF HeadersCount
      <4>2. Begun(s) .. mid[s] = (Begun(s) .. mid[s] - 1) \cup {mid[s]}
        BY <2>6, <4>1
      <4>3. NotBegun(s)' = Begun(s) .. mid[s]
        BY <2>4, <4>1, <4>2
      <4> QED BY <2>2, <2>6, <3>2, <4>1, <4>3
    <3> QED BY <3>1, <3>2
  <2>8. Accounted'
    <3> SUFFICES ASSUME NEW t \in SID
                 PROVE  Whole(frames, t) \cup MidsOf(Elems(messages[prio_of[t]]) \cup Elems(messages_rx'), t)
                          = 0 .. mid'[t] - 1
      <4>1. UNCHANGED <<prio_of, messages, frames>>
        BY <1>4
      <4> QED BY <4>1 DEF Accounted, Whole, MidsOf, Elems
    <3>0. MidsOf(Elems(messages[prio_of[t]]) \cup Elems(messages_rx'), t)
            = MidsOf(Elems(messages[prio_of[t]]) \cup Elems(messages_rx), t) \cup (IF t = s THEN {mid[s]} ELSE {})
      BY <2>3
    <3>1. Whole(frames, t) \cup MidsOf(Elems(messages[prio_of[t]]) \cup Elems(messages_rx), t) = 0 .. mid[t] - 1
      BY <2>1 DEF Accounted
    <3>2. CASE t # s
      BY <2>5, <3>0, <3>1, <3>2
    <3>3. CASE t = s
      <4>1. 0 .. mid[s] = (0 .. mid[s] - 1) \cup {mid[s]}
        BY <2>6
      <4>2. mid'[t] - 1 = mid[s]
        BY <2>6, <3>3
      <4>3. Whole(frames, t) \cup MidsOf(Elems(messages[prio_of[t]]) \cup Elems(messages_rx'), t)
              = (0 .. mid[s] - 1) \cup {mid[s]}
        BY <3>0, <3>1, <3>3
      <4> QED BY <4>1, <4>2, <4>3
    <3> QED BY <3>2, <3>3
  <2> QED BY <2>7, <2>8
<1> QED BY <1>2, <1>5, <1>6, <1>7 DEF FrameOrder

LEMMA FetchKeepsFrameOrder ==
    ASSUME TypeOK, FrameOrder, FetchMessage
    PROVE  FrameOrder'
<1> DEFINE m == Head(messages_rx)
           p == prio_of[m.sid]
<1>1. QueueShape /\ MidsInOrder /\ Reassembly /\ NoMixing
  BY DEF FrameOrder
<1>2. /\ QueueShape' /\ MidsInOrder'
      /\ m \in Message /\ p \in PRIO /\ m.cursor = 0
      /\ messages' = [messages EXCEPT ![p] = Append(messages[p], m)]
      /\ Elems(messages_rx) = {m} \cup Elems(messages_rx')
      /\ Elems(messages'[p]) = Elems(messages[p]) \cup {m}
  BY <1>1, FetchKeepsQueues
<1>3. /\ UNCHANGED <<prio_of, mid, frames>> /\ messages \in [PRIO -> Seq(Message)]
      /\ prio_of \in [SID -> PRIO]
  BY DEF FetchMessage, api, TypeOK
<1>4. messages'[p] = Append(messages[p], m) /\ \A r \in PRIO \ {p} : messages'[r] = messages[r]
  BY <1>2, <1>3
<1>p. p = prio_of[m.sid]
  OBVIOUS
<1> HIDE DEF m, p
<1>5. /\ messages'[p] # <<>>
      /\ Head(messages'[p]) = IF messages[p] = <<>> THEN m ELSE Head(messages[p])
  <2>1. messages[p] \in Seq(Message)
    BY <1>2, <1>3
  <2> QED BY <1>2, <1>4, <2>1, HeadTailAppend, AppendProperties, EmptySeq
<1>6. Reassembly'
  <2> SUFFICES ASSUME NEW r \in PRIO
               PROVE  HeadIsOpen(r)' \/ NoneIsOpen(r)'
    BY DEF Reassembly
  <2>1. HeadIsOpen(r) \/ NoneIsOpen(r)
    BY <1>1 DEF Reassembly
  <2>2. LastOf(frames, r)' = LastOf(frames, r) /\ frames' = frames
    BY <1>3 DEF LastOf
  <2>3. CASE HeadIsOpen(r)
    <3>1. messages'[r] # <<>> /\ Head(messages'[r]) = Head(messages[r])
      BY <1>4, <1>5, <2>3 DEF HeadIsOpen
    <3> QED BY <2>2, <2>3, <3>1 DEF HeadIsOpen, LatestFrame
  <2>4. CASE NoneIsOpen(r)
    <3>1. messages'[r] # <<>> => Head(messages'[r]).cursor = 0
      BY <1>2, <1>4, <1>5, <2>4 DEF NoneIsOpen
    <3> QED BY <2>2, <2>4, <3>1 DEF NoneIsOpen
  <2> QED BY <2>1, <2>3, <2>4
<1>7. NoMixing'
  BY <1>1, <1>3 DEF NoMixing, Continues, Starts, Previous, Before, Headers
<1>8. ASSUME 0 \notin Sizes
      PROVE  HeadersCount' /\ Accounted'
  <2>1. HeadersCount /\ Accounted
    BY <1>8 DEF FrameOrder
  <2>2. \A t \in SID : Begun(t)' = Begun(t)
    BY <1>3 DEF Begun, Headers
  <2>3. ASSUME NEW t \in SID
        PROVE  \A k : k.sid = t => (k \in Elems(messages'[prio_of[t]]) \cup Elems(messages_rx')
                                    <=> k \in Elems(messages[prio_of[t]]) \cup Elems(messages_rx))
    <3>1. CASE prio_of[t] = p
      BY <1>2, <3>1
    <3>2. CASE prio_of[t] # p
      <4>1. messages'[prio_of[t]] = messages[prio_of[t]]
        BY <1>3, <1>4, <3>2
      <4>2. \A k : k.sid = t => k # m
        BY <1>p, <3>2
      <4> QED BY <1>2, <4>1, <4>2
    <3> QED BY <3>1, <3>2
  <2>4. ASSUME NEW t \in SID
        PROVE  MidsOf(Elems(messages'[prio_of[t]]) \cup Elems(messages_rx'), t)
                 = MidsOf(Elems(messages[prio_of[t]]) \cup Elems(messages_rx), t)
    BY <2>3 DEF MidsOf
  <2>5. \A k \in Elems(messages_rx) : k.cursor = 0
    BY <1>1 DEF QueueShape, Elems
  <2>6. \A k \in Elems(messages_rx') : k.cursor = 0
    BY <1>2, <2>5
  <2>7. ASSUME NEW t \in SID
        PROVE  NotBegun(t)' = NotBegun(t)
    <3>1. NotBegun(t)' = MidsOf({k \in Elems(messages'[prio_of[t]]) : k.cursor = 0} \cup Elems(messages_rx'), t)
      BY <1>3 DEF NotBegun, MidsOf, Elems
    <3>2. \A k : k.sid = t => (k \in {l \in Elems(messages'[prio_of[t]]) : l.cursor = 0} \cup Elems(messages_rx')
                               <=> k \in {l \in Elems(messages[prio_of[t]]) : l.cursor = 0} \cup Elems(messages_rx))
      BY <2>3, <2>5, <2>6
    <3> QED BY <3>1, <3>2 DEF NotBegun, MidsOf
  <2>8. HeadersCount'
    BY <1>3, <2>1, <2>2, <2>7 DEF HeadersCount
  <2>9. Accounted'
    <3> SUFFICES ASSUME NEW t \in SID
                 PROVE  Whole(frames, t) \cup MidsOf(Elems(messages'[prio_of[t]]) \cup Elems(messages_rx'), t)
                          = 0 .. mid[t] - 1
      BY <1>3 DEF Accounted, Whole, MidsOf, Elems
    <3> QED BY <2>1, <2>4 DEF Accounted
  <2> QED BY <2>8, <2>9
<1> QED BY <1>2, <1>6, <1>7, <1>8 DEF FrameOrder

LEMMA FillKeepsFrameOrder ==
    ASSUME TypeOK, Bookkeeping, FrameOrder, NEW p \in PRIO, FillFrame(p)
    PROVE  FrameOrder'
<1>1. QueueShape' /\ MidsInOrder'
  BY FillKeepsQueues DEF FrameOrder
<1>2. Reassembly' /\ NoMixing'
  BY FillKeepsFrames
<1> QED BY <1>1, <1>2, FillKeepsCounts DEF FrameOrder

(* Only the queues, what was sent and the frames matter to FrameOrder.     *)
LEMMA FrameOrderUntouched ==
    ASSUME FrameOrder, UNCHANGED <<prio_of, mid, messages_rx, messages, frames>>
    PROVE  FrameOrder'
<1>1. QueueShape' /\ MidsInOrder'
  BY DEF FrameOrder, QueueShape, MidsInOrder, InOrder, Elems
<1>2. Reassembly'
  BY DEF FrameOrder, Reassembly, HeadIsOpen, NoneIsOpen, LatestFrame, LastOf
<1>3. NoMixing'
  BY DEF FrameOrder, NoMixing, Continues, Starts, Previous, Before, Headers
<1>4. HeadersCount => HeadersCount'
  <2>1. \A s \in SID : Begun(s)' = Begun(s) /\ NotBegun(s)' = NotBegun(s)
    BY DEF Begun, Headers, NotBegun, MidsOf, Elems
  <2> QED BY <2>1 DEF HeadersCount
<1>5. Accounted => Accounted'
  BY DEF Accounted, Whole, MidsOf, Elems
<1> QED BY <1>1, <1>2, <1>3, <1>4, <1>5 DEF FrameOrder

LEMMA FrameOrderStep ==
    ASSUME IInv, FrameOrder, Next
    PROVE  FrameOrder'
<1> USE DEF IInv
<1>1. ASSUME NEW s \in SID, Send(s)
      PROVE  FrameOrder'
  BY <1>1, SendKeepsFrameOrder
<1>2. ASSUME NEW s \in SID, DropStream(s)
      PROVE  FrameOrder'
  BY <1>2, FrameOrderUntouched DEF DropStream, manager
<1>3. CASE StreamCloseMgr
  BY <1>3, FrameOrderUntouched DEF StreamCloseMgr, RequestFlush, FlushAnswered, api, manager
<1>4. CASE BeginFill \/ MessagesFetched \/ FlushesFetched \/ FillDone
  BY <1>4, FrameOrderUntouched DEF BeginFill, MessagesFetched, FlushesFetched, FillDone, api, manager
<1>5. CASE FetchMessage
  BY <1>5, FetchKeepsFrameOrder
<1>6. CASE FetchFlushRequest \/ FillEmpty
  BY <1>6, FrameOrderUntouched DEF FetchFlushRequest, FillEmpty, api, manager
<1>7. ASSUME NEW p \in PRIO, FillFrame(p)
      PROVE  FrameOrder'
  BY <1>7, FillKeepsFrameOrder
<1> QED BY <1>1, <1>2, <1>3, <1>4, <1>5, <1>6, <1>7 DEF Next, Api, FillFrames

LEMMA InitFrameOrder == Init => FrameOrder
<1> SUFFICES ASSUME Init
             PROVE  FrameOrder
  OBVIOUS
<1>1. Len(<<>>) = 0 /\ DOMAIN <<>> = {} /\ Elems(<<>>) = {}
  BY DEF Elems
<1>2. /\ messages_rx = <<>> /\ frames = <<>> /\ \A p \in PRIO : messages[p] = <<>>
      /\ \A s \in SID : mid[s] = 0 /\ prio_of[s] \in PRIO
  BY StreamAssumption DEF Init
<1>3. QueueShape /\ MidsInOrder
  BY <1>1, <1>2 DEF QueueShape, MidsInOrder, InOrder
<1>4. Reassembly /\ NoMixing
  BY <1>1, <1>2 DEF Reassembly, NoneIsOpen, LastOf, NoMixing
<1>5. \A s \in SID : Elems(messages[prio_of[s]]) = {} /\ Elems(messages_rx) = {}
  BY <1>1, <1>2
<1>6. ASSUME NEW s \in SID
      PROVE  Begun(s) = 0 /\ NotBegun(s) = {}
  <2>1. Headers(frames, s, Len(frames)) = {}
    BY <1>1, <1>2 DEF Headers
  <2> QED BY <1>5, <2>1, FS_EmptySet DEF Begun, NotBegun, MidsOf
<1>7. HeadersCount
  <2>1. 0 .. 0 - 1 = {} /\ 0 <= 0
    OBVIOUS
  <2> QED BY <1>2, <1>6, <2>1 DEF HeadersCount
<1>8. Accounted
  BY <1>1, <1>2, <1>5 DEF Accounted, Whole, MidsOf
<1> QED BY <1>3, <1>4, <1>7, <1>8 DEF FrameOrder

LEMMA FrameOrderInvariance == Spec => []FrameOrder
<1>1. IInv /\ FrameOrder /\ [Next]_vars => FrameOrder'
  <2> SUFFICES ASSUME IInv, FrameOrder, [Next]_vars
               PROVE  FrameOrder'
    OBVIOUS
  <2>1. CASE Next
    BY <2>1, FrameOrderStep
  <2>2. CASE UNCHANGED vars
    BY <2>2, FrameOrderUntouched DEF vars, api, manager
  <2> QED BY <2>1, <2>2
<1> QED BY <1>1, InitFrameOrder, Invariance, PTL DEF Spec

(* The frames of one priority are whole messages, one after the other and, *)
(* Stream by Stream, in the order they were sent: what the reassembly of   *)
(* the remote side takes for granted.                                      *)
THEOREM MessagesStayTogether == Spec => []NoMixing
<1>1. FrameOrder => NoMixing
  BY DEF FrameOrder
<1> QED BY <1>1, FrameOrderInvariance, PTL

(* When a flush is reported, the last data frame of every message sent on  *)
(* the Stream has been filled.                                             *)
THEOREM FlushedIsFilled == Spec => []FlushedInFull
<1>1. ASSUME IInv, FrameOrder, FlushIsComplete, 0 \notin Sizes, NEW s \in flushed
      PROVE  Whole(frames, s) = 0 .. mid[s] - 1
  <2>1. s \in SID /\ Waiting(s) = {} /\ s \notin Sids(messages_rx)
    BY <1>1 DEF IInv, TypeOK, FlushIsComplete
  <2>2. MidsOf(Elems(messages[prio_of[s]]) \cup Elems(messages_rx), s) = {}
    BY <2>1 DEF Waiting, Positions, Sids, MidsOf, Elems
  <2> QED BY <1>1, <2>1, <2>2 DEF FrameOrder, Accounted
<1>2. IInv /\ FrameOrder /\ FlushIsComplete => FlushedInFull
  BY <1>1 DEF FlushedInFull, Whole
<1> QED BY <1>2, Invariance, FrameOrderInvariance, FlushesAreComplete, PTL
-----------------------------------------------------------------------------
(* PrioManager is a FrameSource.  First the order of the messages in one   *)
(* queue.                                                                  *)

LEMMA OrderOfAppended ==
    ASSUME NEW q \in Seq(Message), NEW m \in Message
    PROVE  Order(Append(q, m)) = Order(q) \cup {<<Key(e), Key(m)>> : e \in Elems(q)}
<1>1. /\ Len(q) \in Nat /\ DOMAIN q = 1 .. Len(q)
      /\ DOMAIN Append(q, m) = 1 .. Len(q) + 1
      /\ \A i \in 1 .. Len(q) : Append(q, m)[i] = q[i]
      /\ Append(q, m)[Len(q) + 1] = m
  BY AppendProperties, LenProperties
<1> DEFINE r == Append(q, m)
<1> HIDE DEF r
<1>2. ASSUME NEW e \in Order(r)
      PROVE  e \in Order(q) \cup {<<Key(w), Key(m)>> : w \in Elems(q)}
  <2>1. PICK i \in DOMAIN r, j \in DOMAIN r : i < j /\ e = <<Key(r[i]), Key(r[j])>>
    BY <1>2 DEF Order
  <2>2. i \in 1 .. Len(q) /\ r[i] = q[i] /\ q[i] \in Elems(q)
    BY <1>1, <2>1 DEF Elems, r
  <2>3. CASE j \in 1 .. Len(q)
    <3>1. e = <<Key(q[i]), Key(q[j])>> /\ <<i, j>> \in {v \in (DOMAIN q) \X (DOMAIN q) : v[1] < v[2]}
      BY <1>1, <2>1, <2>2, <2>3 DEF r
    <3> QED BY <3>1 DEF Order
  <2>4. CASE j = Len(q) + 1
    BY <1>1, <2>1, <2>2, <2>4 DEF r
  <2> QED BY <1>1, <2>3, <2>4 DEF r
<1>3. ASSUME NEW e \in Order(q)
      PROVE  e \in Order(r)
  <2>1. PICK i \in DOMAIN q, j \in DOMAIN q : i < j /\ e = <<Key(q[i]), Key(q[j])>>
    BY <1>3 DEF Order
  <2>2. e = <<Key(r[i]), Key(r[j])>> /\ <<i, j>> \in {v \in (DOMAIN r) \X (DOMAIN r) : v[1] < v[2]}
    BY <1>1, <2>1 DEF r
  <2> QED BY <2>2 DEF Order
<1>4. ASSUME NEW w \in Elems(q)
      PROVE  <<Key(w), Key(m)>> \in Order(r)
  <2>1. PICK i \in DOMAIN q : w = q[i]
    BY <1>4 DEF Elems
  <2>2. /\ <<Key(w), Key(m)>> = <<Key(r[i]), Key(r[Len(q) + 1])>>
        /\ <<i, Len(q) + 1>> \in {v \in (DOMAIN r) \X (DOMAIN r) : v[1] < v[2]}
    BY <1>1, <2>1 DEF r
  <2> QED BY <2>2 DEF Order
<1> QED BY <1>2, <1>3, <1>4 DEF r

LEMMA OrderOfCons ==
    ASSUME NEW q \in Seq(Message), q # <<>>
    PROVE  Order(q) = Order(Tail(q)) \cup {<<Key(Head(q)), Key(e)>> : e \in Elems(Tail(q))}
<1> DEFINE t == Tail(q)
           m == Head(q)
<1>1. /\ Len(q) \in Nat \ {0} /\ DOMAIN q = 1 .. Len(q)
      /\ DOMAIN t = 1 .. Len(q) - 1
      /\ \A i \in 1 .. Len(q) - 1 : t[i] = q[i + 1] /\ i + 1 \in DOMAIN q
      /\ m = q[1] /\ 1 \in DOMAIN q
  BY HeadTailProperties, LenProperties, EmptySeq
<1> HIDE DEF t, m
<1>2. ASSUME NEW e \in Order(q)
      PROVE  e \in Order(t) \cup {<<Key(m), Key(w)>> : w \in Elems(t)}
  <2>1. PICK i \in DOMAIN q, j \in DOMAIN q : i < j /\ e = <<Key(q[i]), Key(q[j])>>
    BY <1>2 DEF Order
  <2>2. j - 1 \in DOMAIN t /\ t[j - 1] = q[j]
    BY <1>1, <2>1
  <2>3. CASE i = 1
    BY <1>1, <2>1, <2>2, <2>3 DEF Elems
  <2>4. CASE i # 1
    <3>1. i - 1 \in DOMAIN t /\ t[i - 1] = q[i]
      BY <1>1, <2>1, <2>4
    <3>2. /\ e = <<Key(t[i - 1]), Key(t[j - 1])>>
          /\ <<i - 1, j - 1>> \in {v \in (DOMAIN t) \X (DOMAIN t) : v[1] < v[2]}
      BY <1>1, <2>1, <2>2, <3>1
    <3> QED BY <3>2 DEF Order
  <2> QED BY <2>3, <2>4
<1>3. ASSUME NEW e \in Order(t)
      PROVE  e \in Order(q)
  <2>1. PICK i \in DOMAIN t, j \in DOMAIN t : i < j /\ e = <<Key(t[i]), Key(t[j])>>
    BY <1>3 DEF Order
  <2>2. /\ e = <<Key(q[i + 1]), Key(q[j + 1])>>
        /\ <<i + 1, j + 1>> \in {v \in (DOMAIN q) \X (DOMAIN q) : v[1] < v[2]}
    BY <1>1, <2>1
  <2> QED BY <2>2 DEF Order
<1>4. ASSUME NEW w \in Elems(t)
      PROVE  <<Key(m), Key(w)>> \in Order(q)
  <2>1. PICK j \in DOMAIN t : w = t[j]
    BY <1>4 DEF Elems
  <2>2. /\ <<Key(m), Key(w)>> = <<Key(q[1]), Key(q[j + 1])>>
        /\ <<1, j + 1>> \in {v \in (DOMAIN q) \X (DOMAIN q) : v[1] < v[2]}
    BY <1>1, <2>1
  <2> QED BY <2>2 DEF Order
<1> QED BY <1>2, <1>3, <1>4 DEF t, m

LEMMA OrderOfPutBack ==
    ASSUME NEW q \in Seq(Message), q # <<>>
    PROVE  Order(PutBack(q)) = Order(q)
<1> DEFINE r == PutBack(q)
<1>1. DOMAIN r = DOMAIN q /\ \A i \in DOMAIN q : r[i].sid = q[i].sid /\ r[i].mid = q[i].mid
  <2> DEFINE n == [Head(q) EXCEPT !.cursor = Head(q).cursor + 1]
  <2>1. Head(q) = q[1]
    BY HeadTailProperties
  <2>2. /\ n.sid = Head(q).sid /\ n.mid = Head(q).mid /\ DOMAIN r = DOMAIN q
        /\ \A i \in DOMAIN q : r[i] = IF i = 1 THEN n ELSE q[i]
    BY ElemsOfPutBack
  <2> HIDE DEF n, r
  <2> QED BY <2>1, <2>2
<1> HIDE DEF r
<1>2. \A i \in DOMAIN q : Key(r[i]) = Key(q[i])
  BY <1>1 DEF Key
<1> QED BY <1>1, <1>2 DEF Order, r

(* A pair of Order is one of members of the queue.                         *)
LEMMA OrderIsOfElems ==
    ASSUME NEW q, NEW e \in Order(q)
    PROVE  \E m, n \in Elems(q) : e = <<Key(m), Key(n)>>
<1>1. PICK i \in DOMAIN q, j \in DOMAIN q : e = <<Key(q[i]), Key(q[j])>>
  BY DEF Order
<1>2. q[i] \in Elems(q) /\ q[j] \in Elems(q)
  BY DEF Elems
<1> QED BY <1>1, <1>2

(* If the mids of every Stream grow, nothing precedes the head of a queue. *)
LEMMA HeadIsFirst ==
    ASSUME NEW q \in Seq(Message), q # <<>>, InOrder(q)
    PROVE  /\ \A w \in Elems(Tail(q)) : Key(w) # Key(Head(q))
           /\ \A e \in Order(q) : e[2] # Key(Head(q))
           /\ Order(Tail(q)) = {e \in Order(q) : e[1] # Key(Head(q))}
<1>1. \A w \in Elems(Tail(q)) : w \in Message /\ (w.sid = Head(q).sid => Head(q).mid < w.mid)
  BY ElemsOfCons, OrderOfTail
<1>2. \A w \in Elems(Tail(q)) : Key(w) # Key(Head(q))
  <2> SUFFICES ASSUME NEW w \in Elems(Tail(q)), Key(w) = Key(Head(q))
               PROVE  FALSE
    OBVIOUS
  <2>1. w.sid = Head(q).sid /\ w.mid = Head(q).mid /\ w.mid \in Nat
    BY <1>1 DEF Key, Message
  <2> QED BY <1>1, <2>1
<1>3. Order(q) = Order(Tail(q)) \cup {<<Key(Head(q)), Key(e)>> : e \in Elems(Tail(q))}
  BY OrderOfCons
<1>4. \A e \in Order(Tail(q)) : e[1] # Key(Head(q)) /\ e[2] # Key(Head(q))
  BY <1>2, OrderIsOfElems
<1> QED BY <1>2, <1>3, <1>4
-----------------------------------------------------------------------------
(* The flush requests: each Stream is closed once, so it is in one place   *)
(* on the way from close_rx to flushed, and once; and all requests are     *)
(* fetched before the loop of fill_frames starts.                          *)
Distinct(q) == \A i, j \in DOMAIN q : q[i] = q[j] => i = j

AskedOnce ==
    /\ Distinct(close_rx) /\ Distinct(flushed_rx)
    /\ Elems(close_rx) \cap (Elems(flushed_rx) \cup notify \cup flushed) = {}
    /\ Elems(flushed_rx) \cap (notify \cup flushed) = {}
    /\ pc = "fill" => flushed_rx = <<>>

LEMMA DistinctAppend ==
    ASSUME NEW S, NEW q \in Seq(S), NEW e \in S, Distinct(q), e \notin Elems(q)
    PROVE  Distinct(Append(q, e))
<1>1. /\ Len(q) \in Nat /\ DOMAIN q = 1 .. Len(q)
      /\ DOMAIN Append(q, e) = 1 .. Len(q) + 1
      /\ \A i \in 1 .. Len(q) : Append(q, e)[i] = q[i]
      /\ Append(q, e)[Len(q) + 1] = e
  BY AppendProperties, LenProperties
<1>2. \A i \in 1 .. Len(q) : Append(q, e)[i] # e
  BY <1>1 DEF Elems
<1> QED BY <1>1, <1>2 DEF Distinct

LEMMA DistinctTail ==
    ASSUME NEW S, NEW q \in Seq(S), q # <<>>, Distinct(q)
    PROVE  /\ Distinct(Tail(q)) /\ Head(q) \notin Elems(Tail(q))
           /\ Elems(q) = {Head(q)} \cup Elems(Tail(q))
<1>1. /\ Len(q) \in Nat \ {0} /\ DOMAIN q = 1 .. Len(q)
      /\ DOMAIN Tail(q) = 1 .. Len(q) - 1
      /\ \A i \in 1 .. Len(q) - 1 : Tail(q)[i] = q[i + 1] /\ i + 1 \in DOMAIN q /\ i + 1 # 1
      /\ Head(q) = q[1] /\ 1 \in DOMAIN q
  BY HeadTailProperties, LenProperties, EmptySeq
<1>2. Distinct(Tail(q))
  <2> SUFFICES ASSUME NEW i \in DOMAIN Tail(q), NEW j \in DOMAIN Tail(q), Tail(q)[i] = Tail(q)[j]
               PROVE  i = j
    BY DEF Distinct
  <2>1. i + 1 = j + 1
    BY <1>1 DEF Distinct
  <2> QED BY <1>1, <2>1
<1>3. Head(q) \notin Elems(Tail(q))
  BY <1>1 DEF Distinct, Elems
<1> QED BY <1>2, <1>3, ElemsOfCons

LEMMA AskedOnceStep ==
    ASSUME IInv, AskedOnce, Next
    PROVE  AskedOnce'
<1> USE DEF AskedOnce
<1>0. close_rx \in Seq(SID) /\ flushed_rx \in Seq(SID)
  BY DEF IInv, TypeOK
<1>1. ASSUME NEW s \in SID, Send(s)
      PROVE  AskedOnce'
  <2>1. UNCHANGED <<close_rx, flushed_rx, notify, flushed, pc>>
    BY <1>1 DEF Send, close, manager
  <2> QED BY <2>1 DEF Distinct, Elems
<1>2. ASSUME NEW s \in SID, DropStream(s)
      PROVE  AskedOnce'
  <2>1. s \notin Elems(close_rx) \cup Elems(flushed_rx) \cup notify \cup flushed
    BY <1>2 DEF DropStream, IInv, FlushOrder
  <2>2. close_rx' = Append(close_rx, s) /\ UNCHANGED <<flushed_rx, notify, flushed, pc>>
    BY <1>2 DEF DropStream, manager
  <2>3. Distinct(close_rx') /\ Elems(close_rx') = Elems(close_rx) \cup {s}
    BY <1>0, <2>1, <2>2, DistinctAppend, ElemsOfAppend
  <2> QED BY <2>1, <2>2, <2>3 DEF Distinct, Elems
<1>3. CASE RequestFlush
  <2> DEFINE s == Head(close_rx)
  <2>1. /\ close_rx # <<>> /\ close_rx' = Tail(close_rx) /\ flushed_rx' = Append(flushed_rx, s)
        /\ pc = "sleep" /\ UNCHANGED <<notify, flushed, pc>>
    BY <1>3 DEF RequestFlush, manager
  <2>2. /\ s \in SID /\ Distinct(close_rx') /\ s \notin Elems(close_rx')
        /\ Elems(close_rx) = {s} \cup Elems(close_rx')
    BY <1>0, <2>1, DistinctTail, HeadTailProperties
  <2>3. Distinct(flushed_rx') /\ Elems(flushed_rx') = Elems(flushed_rx) \cup {s}
    BY <1>0, <2>1, <2>2, DistinctAppend, ElemsOfAppend
  <2> QED BY <2>1, <2>2, <2>3
<1>4. CASE FlushAnswered \/ BeginFill \/ MessagesFetched \/ FillEmpty \/ FillDone \/ FetchMessage
  BY <1>4 DEF FlushAnswered, BeginFill, MessagesFetched, FillEmpty, FillDone, FetchMessage,
              close, manager, Distinct, Elems
<1>5. CASE FlushesFetched
  BY <1>5 DEF FlushesFetched, close, manager, Distinct, Elems
<1>6. CASE FetchFlushRequest
  <2> DEFINE s == Head(flushed_rx)
  <2>1. /\ flushed_rx # <<>> /\ flushed_rx' = Tail(flushed_rx) /\ pc = "flushes"
        /\ notify' \cup flushed' = notify \cup flushed \cup {s}
        /\ UNCHANGED <<close_rx, pc>>
    BY <1>6 DEF FetchFlushRequest, close
  <2>2. /\ Distinct(flushed_rx') /\ s \notin Elems(flushed_rx')
        /\ Elems(flushed_rx) = {s} \cup Elems(flushed_rx')
    BY <1>0, <2>1, DistinctTail
  <2>3. Distinct(close_rx') /\ Elems(close_rx') = Elems(close_rx)
    BY <2>1 DEF Distinct, Elems
  <2> QED BY <2>1, <2>2, <2>3
<1>7. ASSUME NEW p \in PRIO, FillFrame(p)
      PROVE  AskedOnce'
  <2>1. notify' \cup flushed' \subseteq notify \cup flushed
    BY <1>7 DEF FillFrame, FillFrom, ReleaseOwner
  <2>2. UNCHANGED <<close_rx, flushed_rx, pc>>
    BY <1>7 DEF FillFrame, FillFrom, close
  <2> QED BY <2>1, <2>2 DEF Distinct, Elems
<1> QED
  BY <1>1, <1>2, <1>3, <1>4, <1>5, <1>6, <1>7
  DEF Next, Api, StreamCloseMgr, FillFrames

LEMMA AskedOnceInvariance == Spec => []AskedOnce
<1>1. Init => AskedOnce
  BY DEF Init, AskedOnce, Distinct, Elems
<1>2. IInv /\ AskedOnce /\ [Next]_vars => AskedOnce'
  <2> SUFFICES ASSUME IInv, AskedOnce, [Next]_vars
               PROVE  AskedOnce'
    OBVIOUS
  <2>1. CASE Next
    BY <2>1, AskedOnceStep
  <2>2. CASE UNCHANGED vars
    BY <2>2 DEF vars, close, manager, AskedOnce, Distinct, Elems
  <2> QED BY <2>1, <2>2
<1> QED BY <1>1, <1>2, Invariance, PTL DEF Spec
-----------------------------------------------------------------------------
(* The steps.  What waits is in one place only, and the message to be      *)
(* served is the first of its priority.                                    *)

LEMMA ElemsAreMessages ==
    ASSUME TypeOK
    PROVE  /\ Elems(messages_rx) \subseteq Message
           /\ Queued \subseteq Message
           /\ \A p \in PRIO : Elems(messages[p]) \subseteq Queued
<1>1. \A q \in Seq(Message) : Elems(q) \subseteq Message
  BY LenProperties, ElementOfSeq DEF Elems
<1> QED BY <1>1 DEF TypeOK, Queued

(* Messages of one Stream are all in the queue of its priority.            *)
LEMMA QueuedBySid ==
    ASSUME Bookkeeping, NEW m \in Queued
    PROVE  m \in Elems(messages[prio_of[m.sid]]) /\ prio_of[m.sid] \in PRIO
<1>1. PICK p \in PRIO : m \in Elems(messages[p])
  BY DEF Queued
<1>2. prio_of[m.sid] = p
  BY <1>1 DEF Bookkeeping, Elems
<1> QED BY <1>1, <1>2

LEMMA AcrossIs ==
    ASSUME NEW P, NEW Q, NEW e
    PROVE  e \in Across(P, Q) <=> \E v \in P, w \in Q : e = <<Key(v), Key(w)>>
<1>1. ASSUME e \in Across(P, Q)
      PROVE  \E v \in P, w \in Q : e = <<Key(v), Key(w)>>
  BY <1>1 DEF Across
<1>2. ASSUME NEW v \in P, NEW w \in Q, e = <<Key(v), Key(w)>>
      PROVE  e \in Across(P, Q)
  <2>1. <<v, w>> \in P \X Q /\ e = <<Key(<<v, w>>[1]), Key(<<v, w>>[2])>>
    BY <1>2
  <2> QED BY <2>1 DEF Across
<1> QED BY <1>1, <1>2

LEMMA SamePrioIs ==
    ASSUME NEW pairs, NEW e
    PROVE  e \in SamePrio(pairs) <=> e \in pairs /\ prio_of[e[1][1]] = prio_of[e[2][1]]
  BY DEF SamePrio

LEMMA AheadIs ==
    ASSUME NEW e
    PROVE  e \in Ahead <=> \/ \E p \in PRIO : e \in Order(messages[p])
                          \/ e \in SamePrio(Across(Queued, Elems(messages_rx)) \cup Order(messages_rx))
  BY DEF Ahead

LEMMA HeadIsAlone ==
    ASSUME TypeOK, Bookkeeping, MidsInOrder, NEW p \in PRIO, messages[p] # <<>>
    PROVE  LET m == Head(messages[p])
           IN  /\ m \in Message /\ m \in Queued /\ prio_of[m.sid] = p
               /\ \A w \in Queued : w # m => Key(w) # Key(m)
               /\ \A w \in Elems(messages_rx) : Key(w) # Key(m)
               /\ m \notin Elems(Tail(messages[p]))
               /\ \A r \in PRIO \ {p} : m \notin Elems(messages[r])
               /\ \A r \in PRIO \ {p} : \A e \in Order(messages[r]) :
                      e[1] # Key(m) /\ e[2] # Key(m)
               /\ \A e \in Order(messages_rx) : e[1] # Key(m) /\ e[2] # Key(m)
               /\ \A e \in Ahead : e[2] # Key(m)
<1> DEFINE q == messages[p]
           m == Head(q)
<1>1. q \in Seq(Message) /\ q # <<>> /\ InOrder(q)
  BY DEF TypeOK, MidsInOrder
<1>2. /\ m \in Message /\ Elems(q) = {m} \cup Elems(Tail(q))
      /\ \A w \in Elems(Tail(q)) : Key(w) # Key(m)
      /\ \A e \in Order(q) : e[2] # Key(m)
  BY <1>1, ElemsOfCons, HeadIsFirst
<1>3. m \in Queued
  BY <1>2 DEF Queued
<1>4. prio_of[m.sid] = p
  BY <1>2 DEF Bookkeeping, Elems
<1>5. \A r \in PRIO \ {p} : \A w \in Elems(messages[r]) : Key(w) # Key(m)
  <2>1. \A r \in PRIO \ {p} : \A w \in Elems(messages[r]) : prio_of[w.sid] = r
    BY DEF Bookkeeping, Elems
  <2> QED BY <1>4, <2>1 DEF Key
<1>6. \A w \in Elems(messages_rx) : Key(w) # Key(m)
  <2> SUFFICES ASSUME NEW w \in Elems(messages_rx), Key(w) = Key(m)
               PROVE  FALSE
    OBVIOUS
  <2>1. w.sid = m.sid /\ w.mid = m.mid /\ m.mid \in Nat
    BY <1>2 DEF Key, Message
  <2>2. m.mid < w.mid
    BY <1>2, <2>1 DEF MidsInOrder
  <2> QED BY <2>1, <2>2
<1> HIDE DEF m, q
<1>q. q = messages[p]
  BY DEF q
<1>7. \A w \in Queued : w # m => Key(w) # Key(m)
  BY <1>q, <1>2, <1>5 DEF Queued
<1>8. \A r \in PRIO \ {p} : \A e \in Order(messages[r]) : e[1] # Key(m) /\ e[2] # Key(m)
  BY <1>5, OrderIsOfElems
<1>9. \A e \in Order(messages_rx) : e[1] # Key(m) /\ e[2] # Key(m)
  BY <1>6, OrderIsOfElems
<1>10. \A e \in Ahead : e[2] # Key(m)
  <2> SUFFICES ASSUME NEW e \in Ahead, e[2] = Key(m)
               PROVE  FALSE
    OBVIOUS
  <2>1. CASE \E r \in PRIO : e \in Order(messages[r])
    BY <1>q, <1>2, <1>8, <2>1
  <2>2. CASE e \in Order(messages_rx)
    BY <1>9, <2>2
  <2>3. CASE \E v \in Queued, w \in Elems(messages_rx) : e = <<Key(v), Key(w)>>
    BY <1>6, <2>3
  <2>4. \/ \E r \in PRIO : e \in Order(messages[r])
        \/ e \in Across(Queued, Elems(messages_rx)) \cup Order(messages_rx)
    BY DEF Ahead, SamePrio
  <2> QED BY <2>1, <2>2, <2>3, <2>4, AcrossIs
<1>11. m \notin Elems(Tail(q)) /\ \A r \in PRIO \ {p} : m \notin Elems(messages[r])
  BY <1>2, <1>5
<1> QED BY <1>2, <1>3, <1>4, <1>6, <1>7, <1>8, <1>9, <1>10, <1>11 DEF m, q

(* Stream::send.                                                           *)
LEMMA SourceSends ==
    ASSUME IInv, NEW s \in SID, Send(s)
    PROVE  \E n \in Sizes : Source!Send(s, n)
<1> USE DEF IInv
<1>1. PICK n \in Sizes :
        messages_rx' = Append(messages_rx, [sid |-> s, mid |-> mid[s], size |-> n, cursor |-> 0])
  BY DEF Send
<1> DEFINE m == [sid |-> s, mid |-> mid[s], size |-> n, cursor |-> 0]
<1>2. m \in Message /\ m.sid = s
  BY StreamAssumption DEF Message, TypeOK
<1>3. /\ messages_rx \in Seq(Message) /\ messages_rx' = Append(messages_rx, m)
      /\ mid' = [mid EXCEPT ![s] = @ + 1]
      /\ UNCHANGED <<prio_of, dropped, messages, flushed_rx, notify, flushed, frames>>
  BY <1>1 DEF Send, manager, TypeOK
<1>4. s \notin dropped
  BY DEF Send
<1>5. s \notin Elems(flushed_rx) \cup notify \cup flushed
  BY <1>4 DEF FlushOrder
<1> HIDE DEF m
<1>6. /\ Elems(messages_rx') = Elems(messages_rx) \cup {m}
      /\ Order(messages_rx') = Order(messages_rx) \cup {<<Key(e), Key(m)>> : e \in Elems(messages_rx)}
  BY <1>2, <1>3, ElemsOfAppend, OrderOfAppended
<1>7. Queued' = Queued /\ Elems(flushed_rx') = Elems(flushed_rx)
  BY <1>3 DEF Queued, Elems
<1> DEFINE waits == Queued \cup Elems(messages_rx)
           behind == {<<Key(w), Key(m)>> : w \in {v \in waits : prio_of[v.sid] = prio_of[s]}}
<1>8. \A w : Key(w)[1] = w.sid
  BY DEF Key
<1>9. Ahead' = Ahead \cup behind
  <2>1. \A p \in PRIO : Order(messages'[p]) = Order(messages[p])
    BY <1>3
  <2> SUFFICES ASSUME NEW e
               PROVE  e \in Ahead' <=> e \in Ahead \/ e \in behind
    OBVIOUS
  <2>2. e \in Ahead' <=> \/ \E p \in PRIO : e \in Order(messages[p])
                         \/ /\ prio_of[e[1][1]] = prio_of[e[2][1]]
                            /\ \/ e \in Across(Queued, Elems(messages_rx) \cup {m})
                               \/ e \in Order(messages_rx)
                               \/ \E v \in Elems(messages_rx) : e = <<Key(v), Key(m)>>
    <3>1. SamePrio(Across(Queued, Elems(messages_rx)) \cup Order(messages_rx))'
              = SamePrio(Across(Queued, Elems(messages_rx) \cup {m}) \cup Order(messages_rx'))
      BY <1>3, <1>6, <1>7 DEF SamePrio, Across
    <3>2. e \in Ahead' <=> \/ \E p \in PRIO : e \in Order(messages'[p])
                           \/ e \in SamePrio(Across(Queued, Elems(messages_rx) \cup {m})
                                           \cup Order(messages_rx'))
      BY <3>1 DEF Ahead
    <3> QED BY <1>6, <2>1, <3>2, SamePrioIs
  <2>3. e \in Ahead <=> \/ \E p \in PRIO : e \in Order(messages[p])
                        \/ /\ prio_of[e[1][1]] = prio_of[e[2][1]]
                           /\ \/ e \in Across(Queued, Elems(messages_rx))
                              \/ e \in Order(messages_rx)
    BY DEF Ahead, SamePrio
  <2>4. e \in behind <=> /\ prio_of[e[1][1]] = prio_of[e[2][1]]
                         /\ \E v \in waits : e = <<Key(v), Key(m)>>
    BY <1>2, <1>8
  <2>5. e \in Across(Queued, Elems(messages_rx) \cup {m}) <=>
            \/ e \in Across(Queued, Elems(messages_rx))
            \/ \E v \in Queued : e = <<Key(v), Key(m)>>
    BY AcrossIs
  <2> QED BY <2>2, <2>3, <2>4, <2>5
<1>10. waits' = waits \cup {m}
  BY <1>6, <1>7
<1> QED BY <1>3, <1>5, <1>7, <1>9, <1>10 DEF Source!Send, Source!Key, Key, m

(* tick fetches a message: it only changes its place.                      *)
LEMMA SourceUnmovedByFetch ==
    ASSUME IInv, FrameOrder, FetchMessage
    PROVE  UNCHANGED Source!vars
<1> USE DEF IInv
<1> DEFINE m == Head(messages_rx)
           p == prio_of[m.sid]
           q == messages[p]
           rest == Tail(messages_rx)
<1>1. /\ m \in Message /\ p \in PRIO
      /\ messages' = [messages EXCEPT ![p] = Append(q, m)]
  BY FetchKeepsQueues DEF FrameOrder
<1>2. /\ messages_rx \in Seq(Message) /\ messages_rx # <<>> /\ messages_rx' = rest
      /\ q \in Seq(Message) /\ messages \in [PRIO -> Seq(Message)]
      /\ UNCHANGED <<prio_of, mid, flushed_rx, notify, flushed, frames>>
  BY <1>1 DEF FetchMessage, TypeOK, api
<1>3. messages'[p] = Append(q, m) /\ \A r \in PRIO \ {p} : messages'[r] = messages[r]
  BY <1>1, <1>2
<1>4. \A w \in Queued : prio_of[w.sid] = p => w \in Elems(q)
  BY QueuedBySid
<1>5. /\ Elems(messages_rx) = {m} \cup Elems(rest)
      /\ Order(messages_rx) = Order(rest) \cup {<<Key(m), Key(e)>> : e \in Elems(rest)}
  BY <1>2, ElemsOfCons, OrderOfCons
<1>m. p = prio_of[m.sid]
  OBVIOUS
<1>q. q = messages[p]
  OBVIOUS
<1> HIDE DEF m, p, q, rest
<1>6. /\ Elems(messages'[p]) = Elems(q) \cup {m}
      /\ Order(messages'[p]) = Order(q) \cup {<<Key(e), Key(m)>> : e \in Elems(q)}
  BY <1>1, <1>2, <1>3, ElemsOfAppend, OrderOfAppended
<1>7. Queued' = Queued \cup {m}
  BY <1>1, <1>3, <1>6, <1>q DEF Queued
<1>8. \A w \in Elems(q) : w \in Queued /\ prio_of[w.sid] = p
  BY <1>1, <1>q DEF Queued, Bookkeeping, Elems
<1>9. \A w : Key(w)[1] = w.sid
  BY DEF Key
<1>10. Ahead' = Ahead
  <2> SUFFICES ASSUME NEW e
               PROVE  e \in Ahead' <=> e \in Ahead
    OBVIOUS
  <2> DEFINE same == prio_of[e[1][1]] = prio_of[e[2][1]]
             fetched == \E r \in PRIO : e \in Order(messages[r])
             across == \E v \in Queued, w \in Elems(rest) : e = <<Key(v), Key(w)>>
             toM == \E v \in Queued : e = <<Key(v), Key(m)>>
             fromM == \E w \in Elems(rest) : e = <<Key(m), Key(w)>>
  <2>1. SamePrio(Across(Queued, Elems(messages_rx)) \cup Order(messages_rx))'
            = SamePrio(Across(Queued \cup {m}, Elems(rest)) \cup Order(rest))
    BY <1>2, <1>7 DEF SamePrio, Across
  <2>2. e \in Ahead' <=> \/ \E r \in PRIO : e \in Order(messages'[r])
                         \/ same /\ (across \/ fromM \/ e \in Order(rest))
    <3>1. e \in Ahead' <=> \/ \E r \in PRIO : e \in Order(messages'[r])
                           \/ e \in SamePrio(Across(Queued \cup {m}, Elems(rest)) \cup Order(rest))
      BY <2>1 DEF Ahead
    <3>2. e \in Across(Queued \cup {m}, Elems(rest)) <=> across \/ fromM
      BY AcrossIs
    <3> QED BY <3>1, <3>2, SamePrioIs
  <2>3. (\E r \in PRIO : e \in Order(messages'[r])) <=> fetched \/ (same /\ toM)
    <3>1. (\E v \in Elems(q) : e = <<Key(v), Key(m)>>) <=> same /\ toM
      BY <1>4, <1>8, <1>9, <1>m
    <3>2. (\E r \in PRIO : e \in Order(messages'[r])) <=>
              fetched \/ e \in {<<Key(v), Key(m)>> : v \in Elems(q)}
      BY <1>1, <1>3, <1>6, <1>q
    <3> QED BY <3>1, <3>2
  <2>4. e \in Ahead <=> fetched \/ (same /\ (across \/ toM \/ fromM \/ e \in Order(rest)))
    <3>1. e \in Across(Queued, Elems(messages_rx)) <=> across \/ toM
      BY <1>5, AcrossIs
    <3>2. e \in Order(messages_rx) <=> e \in Order(rest) \/ fromM
      BY <1>5
    <3> QED BY <3>1, <3>2, SamePrioIs, AheadIs
  <2> QED BY <2>2, <2>3, <2>4
<1>11. (Queued \cup Elems(messages_rx))' = Queued \cup Elems(messages_rx)
  BY <1>2, <1>5, <1>7
<1>12. Elems(flushed_rx)' = Elems(flushed_rx)
  BY <1>2
<1> QED BY <1>2, <1>10, <1>11, <1>12 DEF Source!vars

(* The other steps that only concern PrioManager and its surroundings.     *)
LEMMA SourceUntouched ==
    ASSUME UNCHANGED <<prio_of, mid, messages_rx, messages, flushed_rx, notify, flushed, frames>>
    PROVE  UNCHANGED Source!vars
<1>1. Queued' = Queued /\ Elems(messages_rx)' = Elems(messages_rx) /\ Elems(flushed_rx)' = Elems(flushed_rx)
  BY DEF Queued, Elems
<1>2. Ahead' = Ahead
  BY <1>1 DEF Ahead, SamePrio, Across, Order
<1> QED BY <1>1, <1>2 DEF Source!vars

(* Only the flush requests matter here.                                    *)
LEMMA QueuesUntouched ==
    ASSUME UNCHANGED <<prio_of, messages_rx, messages>>
    PROVE  UNCHANGED <<Queued, Elems(messages_rx), Ahead>>
<1>1. Queued' = Queued /\ Elems(messages_rx)' = Elems(messages_rx)
  BY DEF Queued, Elems
<1>2. Ahead' = Ahead
  BY <1>1 DEF Ahead, SamePrio, Across, Order
<1> QED BY <1>1, <1>2

(* stream_close_mgr asks for a flush.                                      *)
LEMMA SourceIsAsked ==
    ASSUME IInv, AskedOnce, RequestFlush
    PROVE  Source!Ask(Head(close_rx)) /\ Head(close_rx) \in SID
<1> DEFINE s == Head(close_rx)
<1>1. /\ close_rx \in Seq(SID) /\ close_rx # <<>> /\ flushed_rx \in Seq(SID)
      /\ flushed_rx' = Append(flushed_rx, s)
      /\ UNCHANGED <<prio_of, mid, messages_rx, messages, notify, flushed, frames>>
  BY DEF RequestFlush, IInv, TypeOK, api, manager
<1>2. s \in SID /\ s \in Elems(close_rx)
  BY <1>1, ElemsOfTail, HeadTailProperties
<1> HIDE DEF s
<1>3. s \notin Elems(flushed_rx) \cup notify \cup flushed
  BY <1>2 DEF AskedOnce
<1>4. Elems(flushed_rx') = Elems(flushed_rx) \cup {s}
  BY <1>1, <1>2, ElemsOfAppend
<1>5. UNCHANGED <<Queued, Elems(messages_rx), Ahead>>
  BY <1>1, QueuesUntouched
<1> QED BY <1>1, <1>2, <1>3, <1>4, <1>5 DEF Source!Ask, s

(* tick fetches a flush request: it is kept, or answered at once.          *)
LEMMA SourceFetchesRequest ==
    ASSUME IInv, AskedOnce, FetchFlushRequest
    PROVE  \/ UNCHANGED Source!vars
           \/ Source!Answer(Head(flushed_rx)) /\ Head(flushed_rx) \in SID
<1> USE DEF IInv
<1> DEFINE s == Head(flushed_rx)
<1>1. /\ flushed_rx \in Seq(SID) /\ flushed_rx # <<>> /\ flushed_rx' = Tail(flushed_rx)
      /\ pc = "flushes"
      /\ UNCHANGED <<prio_of, mid, messages_rx, messages, frames>>
      /\ \/ s \in owned /\ notify' = notify \cup {s} /\ flushed' = flushed
         \/ s \notin owned /\ flushed' = flushed \cup {s} /\ notify' = notify
  BY DEF FetchFlushRequest, TypeOK, api
<1>2. s \in SID /\ Elems(flushed_rx) = {s} \cup Elems(flushed_rx') /\ s \notin Elems(flushed_rx')
  BY <1>1, DistinctTail, HeadTailProperties DEF AskedOnce
<1> HIDE DEF s
<1>3. UNCHANGED <<Queued, Elems(messages_rx), Ahead>>
  BY <1>1, QueuesUntouched
<1>4. CASE s \in owned
  <2>1. Elems(flushed_rx') \cup notify' = Elems(flushed_rx) \cup notify /\ flushed' = flushed
    BY <1>1, <1>2, <1>4
  <2> QED BY <1>1, <1>3, <2>1 DEF Source!vars
<1>5. CASE s \notin owned
  <2>1. s \notin Sids(messages_rx) /\ s \notin notify /\ s \in Elems(flushed_rx)
    BY <1>1, <1>2 DEF FlushOrder, AskedOnce
  <2>2. Waiting(s) = {}
    <3>1. len[s] = 0 /\ messages[prio_of[s]] \in Seq(Message)
      BY <1>2, <1>5 DEF Bookkeeping, TypeOK
    <3>2. IsFiniteSet(Waiting(s)) /\ Cardinality(Waiting(s)) = 0
      BY <1>2, <3>1, PositionsFinite DEF Waiting, Bookkeeping
    <3> QED BY <3>2, FS_EmptySet
  <2>3. {w \in Queued \cup Elems(messages_rx) : w.sid = s} = {}
    <3>1. \A w \in Queued : w.sid # s
      BY <2>2, QueuedBySid DEF Waiting, Positions, Elems
    <3>2. \A w \in Elems(messages_rx) : w.sid # s
      BY <2>1 DEF Sids, Elems
    <3> QED BY <3>1, <3>2
  <2>4. Elems(flushed_rx') \cup notify' = (Elems(flushed_rx) \cup notify) \ {s}
    BY <1>1, <1>2, <1>5, <2>1
  <2> QED BY <1>1, <1>2, <1>3, <1>5, <2>1, <2>3, <2>4 DEF Source!Answer, Source!Of, s
<1> QED BY <1>4, <1>5
-----------------------------------------------------------------------------
(* fill_next yields what the head of a priority is due to give.            *)
LEMMA FramesAreNext ==
    ASSUME NEW m \in Message
    PROVE  FilledFrames(m) = Source!NextFrames(m)
<1> DEFINE f(i) == [sid |-> m.sid, mid |-> m.mid, part |-> i, size |-> m.size]
<1>1. FilledFrames(m) = IF m.size = 0 THEN <<>>
                        ELSE IF m.cursor = 0 THEN <<f(0), f(1)>> ELSE <<f(m.cursor + 1)>>
  <2>1. [f(m.cursor + 1) EXCEPT !.part = 0] = f(0)
    OBVIOUS
  <2> QED BY <2>1 DEF FilledFrames
<1>2. Source!NextFrames(m) = [i \in DOMAIN Source!Parts(m) |-> f(Source!Parts(m)[i])]
  BY DEF Source!NextFrames
<1> HIDE DEF f
<1>3. CASE m.size = 0
  BY <1>1, <1>2, <1>3 DEF Source!Parts
<1>4. CASE m.size # 0 /\ m.cursor = 0
  BY <1>1, <1>2, <1>4 DEF Source!Parts
<1>5. CASE m.size # 0 /\ m.cursor # 0
  BY <1>1, <1>2, <1>5 DEF Source!Parts
<1> QED BY <1>3, <1>4, <1>5

(* An iteration of fill_frames that finds a priority.                      *)
LEMMA SourceFills ==
    ASSUME IInv, FrameOrder, AskedOnce, NEW p \in PRIO, FillFrame(p)
    PROVE  \E m \in Queued \cup Elems(messages_rx) : Source!Fill(m) \/ Source!FillLast(m)
<1> USE DEF IInv
<1> DEFINE q == messages[p]
           m == Head(q)
           n == [m EXCEPT !.cursor = m.cursor + 1]
           s == m.sid
           rx == Elems(messages_rx)
           waits == Queued \cup rx
<1>1. /\ q \in Seq(Message) /\ q # <<>> /\ m \in Message
      /\ n \in Message /\ n.sid = m.sid /\ n.mid = m.mid
      /\ Elems(q) = {m} \cup Elems(Tail(q))
      /\ \A r \in PRIO \ {p} : messages'[r] = messages[r]
      /\ Finished(m) => messages'[p] = Tail(q)
      /\ ~Finished(m) => Elems(messages'[p]) = {n} \cup Elems(Tail(q))
  BY FillKeepsQueues DEF FrameOrder
<1>2. /\ frames' = frames \o FilledFrames(m) /\ pc = "fill"
      /\ UNCHANGED <<prio_of, mid, messages_rx, flushed_rx>>
      /\ ~Finished(m) => messages' = [messages EXCEPT ![p] = PutBack(q)]
      /\ ~Finished(m) => UNCHANGED <<len, owned, notify, flushed>>
      /\ Finished(m) => ReleaseOwner(s)
  BY DEF FillFrame, FillFrom, api
<1>3. /\ m \in Queued /\ prio_of[s] = p
      /\ \A w \in Queued : w # m => Key(w) # Key(m)
      /\ \A w \in rx : Key(w) # Key(m)
      /\ m \notin Elems(Tail(q))
      /\ \A r \in PRIO \ {p} : m \notin Elems(messages[r])
      /\ \A r \in PRIO \ {p} : \A e \in Order(messages[r]) : e[1] # Key(m) /\ e[2] # Key(m)
      /\ \A e \in Order(messages_rx) : e[1] # Key(m) /\ e[2] # Key(m)
      /\ \A e \in Ahead : e[2] # Key(m)
  BY <1>1, HeadIsAlone DEF FrameOrder
<1>4. s \in SID /\ len[s] > 0 /\ len \in [SID -> Nat]
  <2>1. p \in queued
    BY NextPrioIsQueued DEF FillFrame, FillFrom
  <2> QED BY <1>1, <2>1, HeadFacts DEF Message, TypeOK
<1>5. Finished(m) <=> m.cursor + 1 >= m.size
  BY DEF Finished
<1>6. m.cursor + 1 < m.size <=> ~Finished(m)
  BY <1>1, <1>5 DEF Message
<1>7. frames' = frames \o Source!NextFrames(m)
  BY <1>1, <1>2, FramesAreNext
<1>8. Source!First(m) /\ m \in waits
  <2>1. \A w : Source!Key(w) = Key(w)
    BY DEF Source!Key, Key
  <2>2. \A w \in waits : <<Key(w), Key(m)>> \notin Ahead
    BY <1>3
  <2> QED BY <1>3, <2>1, <2>2 DEF Source!First
<1>9. Key(n) = Key(m) /\ Source!Key(m) = Key(m)
  BY <1>1 DEF Key, Source!Key
<1>10. SamePrio(Across(Queued, rx) \cup Order(messages_rx))'
           = SamePrio(Across(Queued', rx) \cup Order(messages_rx))
  BY <1>2 DEF SamePrio, Across
<1>11. \A e : e \in Ahead' <=> \/ \E r \in PRIO : e \in Order(messages'[r])
                               \/ e \in SamePrio(Across(Queued', rx) \cup Order(messages_rx))
  BY <1>10 DEF Ahead
<1>12. Elems(flushed_rx') = {} /\ Elems(flushed_rx) = {}
  BY <1>2 DEF AskedOnce, Elems
<1>13. Bookkeeping'
  BY FillKeepsBookkeeping
<1>q. q = messages[p] /\ n = [m EXCEPT !.cursor = m.cursor + 1] /\ s = m.sid
      /\ rx = Elems(messages_rx) /\ waits = Queued \cup rx
  OBVIOUS
<1> HIDE DEF m, n, s, q
<1>14. CASE ~Finished(m)
  <2>1. messages'[p] = PutBack(q) /\ Order(messages'[p]) = Order(q)
    BY <1>1, <1>2, <1>14, OrderOfPutBack DEF TypeOK
  <2>2. Queued' = (Queued \ {m}) \cup {n}
    <3>1. Queued' = UNION {Elems(messages'[r]) : r \in PRIO}
      BY DEF Queued
    <3>2. \A w : w \in Queued' <=> w \in Elems(messages'[p]) \/ \E r \in PRIO \ {p} : w \in Elems(messages[r])
      BY <1>1, <3>1
    <3>3. \A w : w \in Queued <=> w \in Elems(q) \/ \E r \in PRIO \ {p} : w \in Elems(messages[r])
      BY <1>q DEF Queued
    <3> QED BY <1>1, <1>3, <1>14, <3>2, <3>3
  <2>3. (Queued \cup Elems(messages_rx))' = (waits \ {m}) \cup {n}
    BY <1>2, <1>3, <2>2
  <2>4. Ahead' = Ahead
    <3> SUFFICES ASSUME NEW e
                 PROVE  e \in Ahead' <=> e \in Ahead
      OBVIOUS
    <3>1. (\E r \in PRIO : e \in Order(messages'[r])) <=> (\E r \in PRIO : e \in Order(messages[r]))
      BY <1>1, <1>q, <2>1
    <3>2. e \in Across(Queued', rx) <=> e \in Across(Queued, rx)
      BY <1>3, <1>9, <2>2, AcrossIs
    <3> QED BY <1>11, <3>1, <3>2, SamePrioIs, AheadIs
  <2>5. UNCHANGED <<prio_of, mid, notify, flushed>>
    BY <1>2, <1>14
  <2>6. Source!Fill(m)
    BY <1>6, <1>7, <1>8, <1>12, <1>14, <1>q, <2>3, <2>4, <2>5 DEF Source!Fill
  <2> QED BY <1>8, <2>6
<1>15. CASE Finished(m)
  <2>1. messages'[p] = Tail(q)
    BY <1>1, <1>15
  <2>2. Queued' = Queued \ {m}
    <3>1. Queued' = UNION {Elems(messages'[r]) : r \in PRIO}
      BY DEF Queued
    <3>2. \A w : w \in Queued' <=> w \in Elems(Tail(q)) \/ \E r \in PRIO \ {p} : w \in Elems(messages[r])
      BY <1>1, <2>1, <3>1
    <3>3. \A w : w \in Queued <=> w \in Elems(q) \/ \E r \in PRIO \ {p} : w \in Elems(messages[r])
      BY <1>q DEF Queued
    <3> QED BY <1>1, <1>3, <3>2, <3>3
  <2>3. (Queued \cup Elems(messages_rx))' = waits \ {m}
    BY <1>2, <1>3, <2>2
  <2>4. Ahead' = {e \in Ahead : e[1] # Key(m)}
    <3> SUFFICES ASSUME NEW e
                 PROVE  e \in Ahead' <=> e \in Ahead /\ e[1] # Key(m)
      OBVIOUS
    <3>1. Order(Tail(q)) = {d \in Order(q) : d[1] # Key(m)}
      BY <1>1, <1>q, HeadIsFirst DEF FrameOrder, MidsInOrder, m
    <3>2. (\E r \in PRIO : e \in Order(messages'[r]))
              <=> (\E r \in PRIO : e \in Order(messages[r])) /\ e[1] # Key(m)
      BY <1>1, <1>3, <1>q, <2>1, <3>1
    <3>3. e \in Across(Queued', rx) <=> e \in Across(Queued, rx) /\ e[1] # Key(m)
      BY <1>3, <2>2, AcrossIs
    <3>4. e \in Order(messages_rx) => e[1] # Key(m)
      BY <1>3
    <3> QED BY <1>11, <3>2, <3>3, <3>4, SamePrioIs, AheadIs
  <2> DEFINE left == {w \in waits \ {m} : w.sid = s}
  <2>5. ASSUME s \in notify
        PROVE  len[s] = 1 <=> left = {}
    <3>1. \A w \in rx : w.sid # s
      BY <2>5 DEF FlushOrder, Sids, Elems
    <3>2. \A w \in Queued' : w.sid = s => w \in Elems(messages'[p])
      <4>1. \A w \in Queued : w.sid = s => w \in Elems(q)
        BY <1>3, <1>q, QueuedBySid
      <4> QED BY <1>1, <2>1, <2>2, <4>1
    <3>3. Elems(messages'[p]) \subseteq Queued'
      BY DEF Queued
    <3>4. left = {w \in Elems(messages'[p]) : w.sid = s}
      BY <1>3, <2>2, <3>1, <3>2, <3>3
    <3>5. left = {} <=> Positions(messages'[p], s) = {}
      BY <3>4 DEF Positions, Elems
    <3>6. len'[s] = Cardinality(Positions(messages'[p], s)) /\ len'[s] = len[s] - 1
      <4>1. len'[s] = Cardinality(Positions(messages'[prio_of'[s]], s))
        BY <1>4, <1>13 DEF Bookkeeping, Waiting, Positions
      <4>2. len'[s] = len[s] - 1
        BY <1>2, <1>4, <1>15 DEF ReleaseOwner
      <4> QED BY <1>2, <1>3, <4>1, <4>2
    <3>7. Positions(messages'[p], s) = {} <=> Cardinality(Positions(messages'[p], s)) = 0
      <4>1. messages'[p] \in Seq(Message)
        BY <1>1, <2>1, HeadTailProperties
      <4> QED BY <4>1, PositionsFinite, FS_EmptySet
    <3> QED BY <1>4, <3>5, <3>6, <3>7
  <2>6. /\ notify' = notify \ (IF left = {} THEN notify \cap {s} ELSE {})
        /\ flushed' = flushed \cup (IF left = {} THEN notify \cap {s} ELSE {})
    <3>1. IF len[s] = 1 THEN notify' = notify \ {s} /\ flushed' = flushed \cup (notify \cap {s})
                        ELSE notify' = notify /\ flushed' = flushed
      BY <1>2, <1>15 DEF ReleaseOwner
    <3>2. CASE s \in notify
      BY <2>5, <3>1, <3>2
    <3>3. CASE s \notin notify
      BY <3>1, <3>3
    <3> QED BY <3>2, <3>3
  <2>7. UNCHANGED <<prio_of, mid>>
    BY <1>2
  <2>8. Source!Of((Queued \cup Elems(messages_rx))', s) = left
    BY <2>3 DEF Source!Of
  <2> HIDE DEF left, waits, rx
  <2>9. Source!FillLast(m)
    BY <1>5, <1>7, <1>8, <1>9, <1>12, <1>15, <1>q, <2>3, <2>4, <2>6, <2>7, <2>8 DEF Source!FillLast
  <2> QED BY <1>8, <1>q, <2>9
<1> QED BY <1>14, <1>15

(* What an initial state shows and what every step does.                   *)
LEMMA SourceInit == Init => Source!Init
<1> SUFFICES ASSUME Init
             PROVE  Source!Init
  OBVIOUS
<1>1. Elems(<<>>) = {} /\ Order(<<>>) = {}
  BY DEF Elems, Order
<1>2. /\ messages_rx = <<>> /\ flushed_rx = <<>> /\ \A p \in PRIO : messages[p] = <<>>
      /\ mid = [s \in SID |-> 0] /\ notify = {} /\ flushed = {} /\ frames = <<>>
  BY DEF Init
<1>3. Queued = {} /\ Elems(messages_rx) = {} /\ Elems(flushed_rx) = {}
  BY <1>1, <1>2 DEF Queued
<1>4. Ahead = {}
  BY <1>1, <1>2, <1>3 DEF Ahead, SamePrio, Across
<1> QED BY <1>2, <1>3, <1>4 DEF Source!Init

LEMMA SourceNext ==
    ASSUME IInv, FrameOrder, AskedOnce, [Next]_vars
    PROVE  [Source!Next]_(Source!vars)
<1>1. ASSUME NEW s \in SID, Send(s)
      PROVE  Source!Next
  <2>1. \E n \in Sizes : Source!Send(s, n)
    BY <1>1, SourceSends
  <2> QED BY <2>1 DEF Source!Next
<1>2. ASSUME NEW s \in SID, DropStream(s)
      PROVE  UNCHANGED Source!vars
  BY <1>2, SourceUntouched DEF DropStream, manager
<1>3. CASE RequestFlush
  BY <1>3, SourceIsAsked DEF Source!Next
<1>4. CASE FlushAnswered \/ BeginFill \/ MessagesFetched \/ FlushesFetched \/ FillEmpty \/ FillDone
  BY <1>4, SourceUntouched DEF FlushAnswered, BeginFill, MessagesFetched, FlushesFetched,
     FillEmpty, FillDone, api, close, manager
<1>5. CASE FetchMessage
  BY <1>5, SourceUnmovedByFetch
<1>6. CASE FetchFlushRequest
  BY <1>6, SourceFetchesRequest DEF Source!Next
<1>7. ASSUME NEW p \in PRIO, FillFrame(p)
      PROVE  Source!Next
  BY <1>7, SourceFills DEF Source!Next
<1>8. CASE UNCHANGED vars
  BY <1>8, SourceUntouched DEF vars, api, manager
<1> QED BY <1>1, <1>2, <1>3, <1>4, <1>5, <1>6, <1>7, <1>8
        DEF Next, Api, StreamCloseMgr, FillFrames

(* Whatever threads send and close, and however its queues, counters and   *)
(* loops are interleaved with them, PrioManager is one line of messages    *)
(* per priority, served first come first served, whose flushes are         *)
(* answered when the last message has left and not later than with it: the *)
(* form in which the Transport and Disconnect modules use it.              *)
THEOREM PrioManagerServesInOrder == Spec => ServesInOrder
<1>1. IInv /\ FrameOrder /\ AskedOnce /\ [Next]_vars => [Source!Next]_(Source!vars)
  BY SourceNext
<1> QED BY <1>1, SourceInit, Invariance, FrameOrderInvariance, AskedOnceInvariance, PTL
        DEF Spec, ServesInOrder, Source!Spec
=============================================================================
