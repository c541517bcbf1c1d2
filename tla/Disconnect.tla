------------------------------ MODULE Disconnect ------------------------------
(***************************************************************************)
(* How a BParticipant shuts down (network/src/participant.rs): the        *)
(* managers that run, one future each, in a single join!, and what the    *)
(* caller of Participant::disconnect is told.                              *)
(*                                                                         *)
(* Every manager is polled whenever the task wakes up, and a manager that  *)
(* can go on does: the timer of send_mgr is therefore modelled as firing   *)
(* only when no other manager can move.  Calls of the users and the        *)
(* progress of the socket come at any moment; a call that comes just before *)
(* the timer can as well be taken for one that comes after it.  A panic    *)
(* takes all managers down.  Messages are one frame each.                  *)
(***************************************************************************)
EXTENDS Naturals, Sequences, FiniteSets

CONSTANTS SID,            \* the Streams open at the start
          MaxMessages,    \* bound: messages sent on one Stream
          FramesPerTick,  \* FRAMES_PER_TICK of send_mgr
          MayBreak,       \* whether the channel may end by itself
          NoSid

ASSUME DisconnectAssumption ==
    /\ IsFiniteSet(SID)
    /\ MaxMessages \in Nat
    /\ FramesPerTick \in Nat \ {0}
    /\ MayBreak \in BOOLEAN
    /\ NoSid \notin SID

VARIABLES
    held,         \* the Streams their user has not dropped
    streams,      \* BParticipant.streams
    send_closed,  \* Streams whose send_closed is set
    sending,      \* Streams in send_raw, past its test of send_closed
    sent,         \* messages accepted by send_raw
    due,          \* of these, the ones accepted before disconnect was called
    handed,       \* messages whose frame was put into the channel's queue
    lost,         \* messages whose frame send_frame had no channel for
    written,      \* messages whose frame was written to the socket
    channel,      \* "up", "stopping" (told to stop reading) or "down"
    error,        \* shutdown_info.error
    close_rx,     \* a2b_close_stream_r
    closing,      \* the Stream stream_close_mgr waits for, or NoSid
    answered,     \* whether its flush request was answered
    closing_up,   \* send_mgr's closing_up
    frames,       \* send_mgr's len: frames of its last tick
    signals,      \* managers that have been told to shut down
    running,      \* managers that have not ended
    shutdown,     \* participant_shutdown_mgr: idle, called, flushing, draining, done
    reply,        \* what disconnect returned: none, ok, err
    panicked      \* the unwrap of a flush request failed, the task is gone

api   == <<held, sending, sent, due>>
table == <<streams, send_closed, error>>
data  == <<handed, lost>>
closer == <<close_rx, closing, answered>>
sender == <<closing_up, frames>>
control == <<signals, running, shutdown, reply>>
vars == <<api, table, data, written, channel, closer, sender, control, panicked>>

(* The managers counted by running_mgr besides participant_shutdown_mgr.   *)
Managers == {"open", "handle", "channel", "send", "close"}

(* send_mgr owns the PrioManager: it is dropped with it.                   *)
PriosAlive == "send" \in running

Init ==
    /\ held = SID
    /\ streams = SID
    /\ send_closed = {}
    /\ sending = {}
    /\ sent = [s \in SID |-> 0]
    /\ due = [s \in SID |-> 0]
    /\ handed = [s \in SID |-> 0]
    /\ lost = [s \in SID |-> 0]
    /\ written = [s \in SID |-> 0]
    /\ channel = "up"
    /\ error = FALSE
    /\ close_rx = <<>>
    /\ closing = NoSid
    /\ answered = FALSE
    /\ closing_up = FALSE
    /\ frames = 0
    /\ signals = {}
    /\ running = Managers
    /\ shutdown = "idle"
    /\ reply = "none"
    /\ panicked = FALSE
-----------------------------------------------------------------------------
(* Stream::send_raw tests send_closed ...                                  *)
BeginSend(s) ==
    /\ s \in held \ (send_closed \cup sending)
    /\ sent[s] < MaxMessages
    /\ sending' = sending \cup {s}
    /\ UNCHANGED <<held, sent, due, table, data, written, channel, closer, sender,
                   control, panicked>>

(* ... and pushes the message, which fails if the PrioManager is gone.     *)
EndSend(s) ==
    /\ s \in sending
    /\ sending' = sending \ {s}
    /\ sent' = IF PriosAlive THEN [sent EXCEPT ![s] = @ + 1] ELSE sent
    /\ UNCHANGED <<held, due, table, data, written, channel, closer, sender, control,
                   panicked>>

DropStream(s) ==
    /\ s \in held \ sending
    /\ held' = held \ {s}
    /\ close_rx' = IF s \in send_closed THEN close_rx ELSE Append(close_rx, s)
    /\ UNCHANGED <<sending, sent, due, table, data, written, channel, closing,
                   answered, sender, control, panicked>>

(* Participant::disconnect, Drop of Participant or of Network: the         *)
(* scheduler forgets the participant and forwards the request.             *)
CallDisconnect ==
    /\ shutdown = "idle"
    /\ shutdown' = "called"
    /\ due' = sent
    /\ UNCHANGED <<held, sending, sent, table, data, written, channel, closer, sender,
                   signals, running, reply, panicked>>

(* write_to_wire gets a frame out; it may be held up by the socket.        *)
WriteFrame(s) ==
    /\ channel # "down"
    /\ written[s] < handed[s]
    /\ written' = [written EXCEPT ![s] = @ + 1]
    /\ UNCHANGED <<api, table, data, channel, closer, sender, control, panicked>>
-----------------------------------------------------------------------------
(* close_api: every Stream is taken from its user.                         *)
CloseApi ==
    /\ streams' = {}
    /\ send_closed' = send_closed \cup streams

(* Mutant: the participant is closed without an error.                     *)
FailSendingQuietly == CloseApi /\ UNCHANGED error

(* send_frame without a channel: the frame is lost.                        *)
FailSending == CloseApi /\ error' = TRUE

(* The channel ends: either because it was told to stop, or by itself.     *)
(* What its queue still holds is gone.  create_channel_mgr ends when the   *)
(* scheduler has forgotten the participant as well, and with it            *)
(* handle_frames_mgr, whose frames have no other source.                   *)
ChannelEnds ==
    /\ ~panicked
    /\ channel = "stopping" \/ (channel = "up" /\ MayBreak)
    /\ channel' = "down"
    /\ CloseApi
    /\ UNCHANGED <<api, error, data, written, closer, sender, control, panicked>>

ChannelMgrEnds ==
    /\ ~panicked
    /\ "channel" \in running
    /\ channel = "down"
    /\ shutdown # "idle"
    /\ running' = running \ {"channel", "handle"}
    /\ UNCHANGED <<api, table, data, written, channel, closer, sender, signals, shutdown,
                   reply, panicked>>

OpenMgrEnds ==
    /\ ~panicked
    /\ "open" \in running \cap signals
    /\ running' = running \ {"open"}
    /\ UNCHANGED <<api, table, data, written, channel, closer, sender, signals, shutdown,
                   reply, panicked>>
-----------------------------------------------------------------------------
(* stream_close_mgr takes a Stream and asks for its flush.  select! has no *)
(* preference between this and the signal to shut down.  A request to a    *)
(* PrioManager that is gone is an unwrap of an error (participant.rs:680). *)
BeginClose ==
    /\ ~panicked
    /\ "close" \in running
    /\ closing = NoSid
    /\ close_rx # <<>>
    /\ close_rx' = Tail(close_rx)
    /\ send_closed' = send_closed \cup ({Head(close_rx)} \cap streams)
    /\ IF PriosAlive
       THEN closing' = Head(close_rx) /\ UNCHANGED panicked
       ELSE panicked' = TRUE /\ UNCHANGED closing
    /\ UNCHANGED <<api, streams, error, data, written, channel, answered, sender, control>>

(* The flush is answered, CloseStream is sent; without a channel send_frame *)
(* closes the participant.  There is no other way out of the wait: what     *)
(* PrioManager::tick took from the channel is answered before send_mgr      *)
(* ends, and a request it did not take stays in the channel, sender of the  *)
(* answer included, as long as stream_close_mgr owns the channel's other    *)
(* end (crossbeam-channel 0.4.2 drops what is queued with the last end).    *)
FinishClose ==
    /\ ~panicked
    /\ closing # NoSid
    /\ answered
    /\ closing' = NoSid
    /\ answered' = FALSE
    /\ IF channel = "up"
       THEN /\ streams' = streams \ {closing}
            /\ UNCHANGED <<send_closed, error>>
       ELSE FailSending
    /\ UNCHANGED <<api, data, written, channel, close_rx, sender, control, panicked>>

CloseMgrEnds ==
    /\ ~panicked
    /\ "close" \in running \cap signals
    /\ closing = NoSid
    /\ running' = running \ {"close"}
    /\ UNCHANGED <<api, table, data, written, channel, closer, sender, signals, shutdown,
                   reply, panicked>>
-----------------------------------------------------------------------------
(* Mutant: one manager is forgotten.                                       *)
SignalledWithoutClose == {"send", "open"}

(* mgr_to_shutdown: the managers that listen to users.                     *)
Signalled == {"send", "open", "close"}

(* participant_shutdown_mgr gets the request: the Streams are closed and   *)
(* three managers are told to end.                                         *)
BeginShutdown ==
    /\ ~panicked
    /\ shutdown = "called"
    /\ shutdown' = "flushing"
    /\ CloseApi
    /\ signals' = Signalled
    /\ UNCHANGED <<api, error, data, written, channel, closer, sender, running, reply,
                   panicked>>

(* send_mgr reported that all is flushed: the channels are told to stop.   *)
StopChannels ==
    /\ ~panicked
    /\ shutdown = "flushing"
    /\ ~PriosAlive
    /\ shutdown' = "draining"
    /\ channel' = IF channel = "up" THEN "stopping" ELSE channel
    /\ UNCHANGED <<api, table, data, written, closer, sender, signals, running, reply,
                   panicked>>

(* No other manager is left: disconnect returns.                           *)
Reply ==
    /\ ~panicked
    /\ shutdown = "draining"
    /\ running = {}
    /\ shutdown' = "done"
    /\ reply' = IF error THEN "err" ELSE "ok"
    /\ error' = FALSE
    /\ UNCHANGED <<api, streams, send_closed, data, written, channel, closer, sender,
                   signals, running, panicked>>
-----------------------------------------------------------------------------
Pending(s) == sent[s] - handed[s] - lost[s]

(* The sum of f, counted: message n of Stream s is among the first f[s].   *)
Counted(f) == {m \in SID \X (1 .. MaxMessages) : m[2] <= f[m[1]]}

Total(f) == Cardinality(Counted(f))

(* Mutant: fill_frames takes all there is.                                 *)
TakesAll == {[s \in SID |-> Pending(s)]}

(* What one fill_frames may take: everything, or as much as allowed.       *)
Takes ==
    LET all == [s \in SID |-> Pending(s)]
    IN  IF Total(all) <= FramesPerTick THEN {all}
        ELSE {f \in [SID -> 0 .. FramesPerTick] :
                /\ Total(f) = FramesPerTick
                /\ \A s \in SID : f[s] <= all[s]}

Plus(f, g) == [s \in SID |-> f[s] + g[s]]

(* Mutant: send_mgr waits for messages instead of a timer.                 *)
NobodyAwaited == TRUE

(* No other manager can move: join! polls all of them before the task      *)
(* sleeps again, long before the timer of send_mgr runs out.               *)
OthersIdle ==
    /\ shutdown # "called"
    /\ "open" \notin running \cap signals
    /\ IF closing # NoSid THEN ~answered
       ELSE "close" \in running => close_rx = <<>> /\ "close" \notin signals

(* Mutant: what is queued does not matter.                                 *)
DrainedAtOnce == closing_up

(* The last tick was told to close and found no frame.                     *)
Drained == closing_up /\ frames = 0

(* send_mgr wakes up.  Told to close and without a frame in its last tick, *)
(* it ends.  Otherwise it looks for the signal and fills frames, which are *)
(* handed to the channel at once, and flush requests are answered.         *)
SendMgrTick ==
    /\ ~panicked
    /\ PriosAlive
    /\ OthersIdle
    /\ IF Drained
       THEN /\ running' = running \ {"send"}
            /\ UNCHANGED <<table, data, answered, sender>>
       ELSE /\ closing_up' = ("send" \in signals)
            /\ \E take \in Takes :
                 /\ frames' = Total(take)
                 /\ answered' = (closing # NoSid /\ take[closing] = Pending(closing))
                 /\ IF channel = "up"
                    THEN /\ handed' = Plus(handed, take)
                         /\ UNCHANGED <<lost, table>>
                    ELSE /\ lost' = Plus(lost, take)
                         /\ UNCHANGED handed
                         /\ IF Total(take) > 0 THEN FailSending ELSE UNCHANGED table
            /\ UNCHANGED running
    /\ UNCHANGED <<api, written, channel, close_rx, closing, signals, shutdown, reply,
                   panicked>>

User == \E s \in SID : BeginSend(s) \/ EndSend(s) \/ DropStream(s)

Task ==
    \/ ChannelMgrEnds \/ OpenMgrEnds
    \/ BeginClose \/ FinishClose \/ CloseMgrEnds
    \/ BeginShutdown \/ StopChannels \/ Reply
    \/ SendMgrTick

Next ==
    \/ User
    \/ CallDisconnect
    \/ \E s \in SID : WriteFrame(s)
    \/ ChannelEnds
    \/ Task

Spec == Init /\ [][Next]_vars

(* The executor polls a task that was woken up, timers run out, and a      *)
(* channel that was told to stop reading ends.  Nothing is assumed of the  *)
(* users or of the socket.                                                 *)
FairSpec ==
    /\ Spec
    /\ WF_vars(Task)
    /\ WF_vars(channel = "stopping" /\ ChannelEnds)
-----------------------------------------------------------------------------
TypeOK ==
    /\ held \subseteq SID /\ streams \subseteq SID
    /\ send_closed \subseteq SID /\ sending \subseteq SID
    /\ sent \in [SID -> 0 .. MaxMessages] /\ due \in [SID -> 0 .. MaxMessages]
    /\ handed \in [SID -> 0 .. MaxMessages] /\ lost \in [SID -> 0 .. MaxMessages]
    /\ written \in [SID -> 0 .. MaxMessages]
    /\ \A s \in SID : handed[s] + lost[s] <= sent[s] /\ written[s] <= handed[s]
    /\ channel \in {"up", "stopping", "down"}
    /\ close_rx \in Seq(SID)
    /\ closing \in SID \cup {NoSid}
    /\ {error, answered, closing_up, panicked} \subseteq BOOLEAN
    /\ frames \in 0 .. FramesPerTick
    /\ signals \subseteq Managers /\ running \subseteq Managers
    /\ shutdown \in {"idle", "called", "flushing", "draining", "done"}
    /\ reply \in {"none", "ok", "err"}

(* When the PrioManager is dropped, every message accepted before the      *)
(* disconnect has left it: closing_up waits for one tick that found no     *)
(* frame after the signal, and the Streams are closed before the signal.   *)
FlushCoversDue ==
    ~PriosAlive => \A s \in SID : handed[s] + lost[s] >= due[s]

(* A disconnect that returns Ok lost no message for want of a channel: the *)
(* error of send_frame is still in shutdown_info when the reply is made.   *)
LossIsReported ==
    reply = "ok" => \A s \in SID : lost[s] = 0

(* stream_close_mgr never asks a PrioManager that is gone: the unwrap of   *)
(* participant.rs:680 holds because all managers are polled before the     *)
(* timer of send_mgr fires, and send_mgr and stream_close_mgr are told to  *)
(* end together.                                                           *)
NoPanic == ~panicked

(* No more than one dropped Stream is still to be closed.                  *)
OneClose == Len(close_rx) + Cardinality({closing} \ {NoSid}) <= 1

(* disconnect returns, whatever the channel does meanwhile, if at most one *)
(* Stream is still to be closed before send_mgr turns to closing up: the   *)
(* flush of that one is asked for before the tick that sets closing_up,    *)
(* and answered at the latest by a tick that finds no frame.  A second one *)
(* may come too late: see DisconnectReturns.                               *)
ReturnsWithOneClose ==
    (shutdown = "flushing" /\ ~closing_up /\ OneClose) ~> (shutdown = "done")

(* disconnect returns: it "will wait for all Streams to properly close"    *)
(* (api.rs:558).  With two Streams to close it may not: send_mgr can end   *)
(* before it looks for the second flush, and nobody answers that one.      *)
DisconnectReturns == (shutdown = "called") ~> (shutdown = "done")
=============================================================================
