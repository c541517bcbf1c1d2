----------------------------- MODULE FrameSource -----------------------------
(***************************************************************************)
(* What the managers of a BParticipant (network/src/participant.rs) rely   *)
(* on when they use PrioManager, without its channels, its queues and its  *)
(* counters: one line of messages per priority, first come first served,   *)
(* from which send_mgr gets frame after frame; and a flush that            *)
(* stream_close_mgr asks for once on a Stream and that is answered when    *)
(* the last message of this Stream has left, in the very same step if it   *)
(* was asked for before.  Which priority is served next is left open.      *)
(***************************************************************************)
EXTENDS Naturals, Sequences

CONSTANTS SID,   \* the Streams
          Sizes  \* data frames a message may need

VARIABLES prio,      \* the priority of each Stream
          sent,      \* messages accepted on each Stream so far
          waiting,   \* the messages that have frames left to be filled
          ahead,     \* pairs of waiting messages, the first to be served first
          asked,     \* Streams whose flush is asked for
          answered,  \* Streams whose flush was answered
          filled     \* the frames given to send_mgr, in order

vars == <<prio, sent, waiting, ahead, asked, answered, filled>>

Key(m) == <<m.sid, m.mid>>

(* The messages of M that belong to Stream s.                              *)
Of(M, s) == {m \in M : m.sid = s}

Init ==
    /\ sent = [s \in SID |-> 0]
    /\ waiting = {}
    /\ ahead = {}
    /\ asked = {}
    /\ answered = {}
    /\ filled = <<>>

(* A message lines up behind those of its priority.                        *)
Send(s, n) ==
    /\ s \notin asked \cup answered
    /\ LET m == [sid |-> s, mid |-> sent[s], size |-> n, cursor |-> 0]
       IN  /\ waiting' = waiting \cup {m}
           /\ ahead' = ahead \cup
                 {<<Key(w), Key(m)>> : w \in {v \in waiting : prio[v.sid] = prio[s]}}
    /\ sent' = [sent EXCEPT ![s] = @ + 1]
    /\ UNCHANGED <<prio, asked, answered, filled>>

Ask(s) ==
    /\ s \notin asked \cup answered
    /\ asked' = asked \cup {s}
    /\ UNCHANGED <<prio, sent, waiting, ahead, answered, filled>>

(* Nothing of the Stream is waiting when its flush is asked for.           *)
Answer(s) ==
    /\ s \in asked
    /\ Of(waiting, s) = {}
    /\ asked' = asked \ {s}
    /\ answered' = answered \cup {s}
    /\ UNCHANGED <<prio, sent, waiting, ahead, filled>>

First(m) == \A w \in waiting : <<Key(w), Key(m)>> \notin ahead

(* The header goes with the first part, a message without bytes has none.  *)
Parts(m) ==
    IF m.size = 0 THEN <<>> ELSE IF m.cursor = 0 THEN <<0, 1>> ELSE <<m.cursor + 1>>

NextFrames(m) ==
    [i \in DOMAIN Parts(m) |->
        [sid |-> m.sid, mid |-> m.mid, part |-> Parts(m)[i], size |-> m.size]]

(* The first message of a priority gives a frame and stays the first.      *)
Fill(m) ==
    /\ First(m)
    /\ m.cursor + 1 < m.size
    /\ filled' = filled \o NextFrames(m)
    /\ waiting' = (waiting \ {m}) \cup {[m EXCEPT !.cursor = @ + 1]}
    /\ UNCHANGED <<prio, sent, ahead, asked, answered>>

(* It gives its last frame and leaves; if it is the last of its Stream, a  *)
(* flush that was asked for is answered.                                   *)
FillLast(m) ==
    /\ First(m)
    /\ m.cursor + 1 >= m.size
    /\ filled' = filled \o NextFrames(m)
    /\ waiting' = waiting \ {m}
    /\ ahead' = {e \in ahead : e[1] # Key(m)}
    /\ LET flushed == IF Of(waiting', m.sid) = {} THEN asked \cap {m.sid} ELSE {}
       IN  /\ asked' = asked \ flushed
           /\ answered' = answered \cup flushed
    /\ UNCHANGED <<prio, sent>>

Next ==
    \/ \E s \in SID : Ask(s) \/ Answer(s) \/ \E n \in Sizes : Send(s, n)
    \/ \E m \in waiting : Fill(m) \/ FillLast(m)

Spec == Init /\ [][Next]_vars
=============================================================================
