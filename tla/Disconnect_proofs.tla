--------------------------- MODULE Disconnect_proofs ---------------------------
(***************************************************************************)
(* What the shutdown of a participant guarantees, for any number of        *)
(* Streams and messages, any FRAMES_PER_TICK and whether or not the        *)
(* channel breaks: types, that the PrioManager is emptied of what was      *)
(* accepted before the disconnect, that a loss is reported, and that no    *)
(* flush is asked of a PrioManager that is gone.                           *)
(***************************************************************************)
EXTENDS Disconnect, TLAPS, FiniteSetTheorems

(* A send in flight has room for its message, and what is due was sent.    *)
RoomToSend ==
    /\ \A s \in sending : sent[s] < MaxMessages
    /\ \A s \in SID : due[s] <= sent[s]

(* Each stage of the shutdown follows the one before: nothing is signalled *)
(* before the request, send_mgr turns to closing up only when told to, and *)
(* ends only when drained; the reply comes last, when nobody runs.         *)
StagesInOrder ==
    /\ signals # {} => shutdown \notin {"idle", "called"}
    /\ closing_up => "send" \in signals
    /\ ~PriosAlive => Drained
    /\ reply = "none" <=> shutdown # "done"
    /\ shutdown = "done" => running = {}

(* A tick that was told to close and found nothing has seen all that is    *)
(* due, which is fixed by then.                                            *)
DrainedCoversDue ==
    Drained => \A s \in SID : handed[s] + lost[s] >= due[s]

(* The error of a lost frame stays in shutdown_info until it is told.      *)
LossLeavesError ==
    (\E s \in SID : lost[s] > 0) => IF reply = "none" THEN error ELSE reply = "err"

(* stream_close_mgr is told to end with send_mgr.  When send_mgr is gone,  *)
(* it has ended as well, or waits for an answer that will not come.        *)
NothingLeftToAsk ==
    /\ ~panicked
    /\ "send" \in signals => "close" \in signals
    /\ ~PriosAlive /\ "close" \in running => closing # NoSid /\ ~answered

IInv ==
    /\ TypeOK
    /\ RoomToSend
    /\ StagesInOrder
    /\ DrainedCoversDue
    /\ LossLeavesError
    /\ NothingLeftToAsk
-----------------------------------------------------------------------------
(* What fill_frames may take.                                              *)

LEMMA TotalType ==
    ASSUME NEW f
    PROVE  IsFiniteSet(Counted(f)) /\ Total(f) \in Nat
<1>1. IsFiniteSet(SID) /\ IsFiniteSet(1 .. MaxMessages)
  BY DisconnectAssumption, FS_Interval
<1>2. IsFiniteSet(SID \X (1 .. MaxMessages))
  BY <1>1, FS_Product
<1>3. Counted(f) \in SUBSET (SID \X (1 .. MaxMessages))
  BY DEF Counted
<1>4. IsFiniteSet(Counted(f))
  BY <1>2, <1>3, FS_Subset
<1> QED BY <1>4, FS_CardinalityType DEF Total

LEMMA TotalZero ==
    ASSUME NEW f \in [SID -> 0 .. MaxMessages], Total(f) = 0
    PROVE  \A s \in SID : f[s] = 0
<1>1. Counted(f) = {}
  BY TotalType, FS_EmptySet DEF Total
<1> SUFFICES ASSUME NEW s \in SID, f[s] # 0
             PROVE  FALSE
  OBVIOUS
<1>2. <<s, f[s]>> \in Counted(f)
  BY DisconnectAssumption DEF Counted
<1> QED BY <1>1, <1>2

(* A tick takes no more than there is and no more than it may, and nothing *)
(* only if there is nothing.                                               *)
LEMMA TakesKnown ==
    ASSUME TypeOK, NEW take \in Takes
    PROVE  /\ take \in [SID -> 0 .. MaxMessages]
           /\ \A s \in SID : take[s] <= Pending(s)
           /\ Total(take) \in 0 .. FramesPerTick
           /\ Total(take) = 0 => \A s \in SID : take[s] = 0 /\ Pending(s) = 0
           /\ \A s \in SID : take[s] > 0 => Total(take) > 0
<1> DEFINE all == [s \in SID |-> Pending(s)]
<1>0. MaxMessages \in Nat /\ FramesPerTick \in Nat \ {0}
  BY DisconnectAssumption
<1>1. \A s \in SID : Pending(s) \in 0 .. MaxMessages
  <2> SUFFICES ASSUME NEW s \in SID
               PROVE  Pending(s) \in 0 .. MaxMessages
    OBVIOUS
  <2>1. sent[s] \in 0 .. MaxMessages /\ handed[s] \in 0 .. MaxMessages /\ lost[s] \in 0 .. MaxMessages
    BY DEF TypeOK
  <2>2. handed[s] + lost[s] <= sent[s]
    BY DEF TypeOK
  <2> QED BY <1>0, <2>1, <2>2 DEF Pending
<1>2. all \in [SID -> 0 .. MaxMessages] /\ \A s \in SID : all[s] = Pending(s)
  BY <1>1
<1> HIDE DEF all
<1>3. Takes = IF Total(all) <= FramesPerTick THEN {all}
              ELSE {f \in [SID -> 0 .. FramesPerTick] :
                      Total(f) = FramesPerTick /\ \A s \in SID : f[s] <= all[s]}
  BY DEF Takes, all
<1>4. Total(take) \in Nat
  BY TotalType
<1>5. /\ take \in [SID -> 0 .. MaxMessages]
      /\ \A s \in SID : take[s] <= Pending(s)
      /\ Total(take) \in 0 .. FramesPerTick
      /\ Total(take) = 0 => take = all
  <2>1. CASE Total(all) <= FramesPerTick
    BY <1>0, <1>1, <1>2, <1>3, <1>4, <2>1
  <2>2. CASE ~(Total(all) <= FramesPerTick)
    <3>1. take \in [SID -> 0 .. FramesPerTick] /\ Total(take) = FramesPerTick
          /\ \A s \in SID : take[s] <= all[s]
      BY <1>3, <2>2
    <3>2. \A s \in SID : take[s] \in 0 .. MaxMessages
      <4> SUFFICES ASSUME NEW s \in SID
                   PROVE  take[s] \in 0 .. MaxMessages
        OBVIOUS
      <4>1. take[s] \in 0 .. FramesPerTick /\ take[s] <= all[s] /\ all[s] \in 0 .. MaxMessages
        BY <3>1, <1>2
      <4> QED BY <4>1, <1>0
    <3>3. take \in [SID -> 0 .. MaxMessages]
      BY <3>1, <3>2
    <3> QED BY <1>0, <1>2, <3>1, <3>3
  <2> QED BY <2>1, <2>2
<1>6. Total(take) = 0 => \A s \in SID : take[s] = 0 /\ Pending(s) = 0
  BY <1>2, <1>5, TotalZero
<1>7. \A s \in SID : take[s] > 0 => Total(take) > 0
  <2> SUFFICES ASSUME NEW s \in SID, take[s] > 0, ~(Total(take) > 0)
               PROVE  FALSE
    OBVIOUS
  <2>1. Total(take) = 0
    BY <1>4
  <2> QED BY <1>6, <2>1
<1> QED BY <1>5, <1>6, <1>7

LEMMA PlusType ==
    ASSUME TypeOK, NEW take \in Takes
    PROVE  /\ Plus(handed, take) \in [SID -> 0 .. MaxMessages]
           /\ Plus(lost, take) \in [SID -> 0 .. MaxMessages]
           /\ \A s \in SID : /\ Plus(handed, take)[s] = handed[s] + take[s]
                             /\ Plus(lost, take)[s] = lost[s] + take[s]
                             /\ handed[s] + lost[s] + take[s] <= sent[s]
<1>0. MaxMessages \in Nat
  BY DisconnectAssumption
<1>1. \A s \in SID : take[s] \in 0 .. MaxMessages /\ take[s] <= Pending(s)
  BY TakesKnown
<1>2. \A s \in SID : /\ sent[s] \in 0 .. MaxMessages /\ handed[s] \in 0 .. MaxMessages
                     /\ lost[s] \in 0 .. MaxMessages
  BY DEF TypeOK
<1>3. \A s \in SID : /\ handed[s] + lost[s] + take[s] <= sent[s]
                     /\ handed[s] + take[s] \in 0 .. MaxMessages
                     /\ lost[s] + take[s] \in 0 .. MaxMessages
  BY <1>0, <1>1, <1>2 DEF Pending
<1> QED BY <1>3 DEF Plus
-----------------------------------------------------------------------------
LEMMA InitIInv == Init => IInv
<1> SUFFICES ASSUME Init
             PROVE  IInv
  OBVIOUS
<1> USE DisconnectAssumption DEF Init
<1>1. TypeOK
  <2>1. close_rx \in Seq(SID)
    OBVIOUS
  <2>2. {error, answered, closing_up, panicked} \subseteq BOOLEAN
    OBVIOUS
  <2>3. frames \in 0 .. FramesPerTick /\ \A s \in SID : handed[s] + lost[s] <= sent[s] /\ written[s] <= handed[s]
    OBVIOUS
  <2> QED BY <2>1, <2>2, <2>3 DEF TypeOK, Managers
<1>2. RoomToSend
  BY DEF RoomToSend
<1>3. StagesInOrder
  BY DEF StagesInOrder, PriosAlive, Managers
<1>4. DrainedCoversDue /\ LossLeavesError
  BY DEF DrainedCoversDue, Drained, LossLeavesError
<1>5. NothingLeftToAsk
  BY DEF NothingLeftToAsk, PriosAlive, Managers
<1> QED BY <1>1, <1>2, <1>3, <1>4, <1>5 DEF IInv
-----------------------------------------------------------------------------
LEMMA KeepBeginSend ==
    ASSUME IInv, NEW s \in SID, BeginSend(s)
    PROVE  IInv'
<1> USE DisconnectAssumption DEF BeginSend, api, table, data, closer, sender, control
<1>1. TypeOK'
  BY DEF IInv, TypeOK, Managers
<1>2. RoomToSend'
  BY DEF IInv, TypeOK, RoomToSend, StagesInOrder, PriosAlive
<1>3. StagesInOrder'
  BY DEF IInv, TypeOK, StagesInOrder, PriosAlive, Drained
<1>4. DrainedCoversDue'
  BY DEF IInv, TypeOK, StagesInOrder, DrainedCoversDue, Drained
<1>5. LossLeavesError'
  BY DEF IInv, TypeOK, StagesInOrder, LossLeavesError
<1>6. NothingLeftToAsk'
  BY DEF IInv, TypeOK, NothingLeftToAsk, PriosAlive
<1> QED BY <1>1, <1>2, <1>3, <1>4, <1>5, <1>6 DEF IInv

LEMMA KeepEndSend ==
    ASSUME IInv, NEW s \in SID, EndSend(s)
    PROVE  IInv'
<1> USE DisconnectAssumption DEF EndSend, api, table, data, closer, sender, control
<1>0. /\ sent' \in [SID -> 0 .. MaxMessages]
      /\ \A t \in SID : sent'[t] >= sent[t] /\ (t # s => sent'[t] = sent[t])
  <2>1. sent \in [SID -> 0 .. MaxMessages] /\ sent[s] < MaxMessages
    BY DEF IInv, TypeOK, RoomToSend
  <2>2. sent[s] + 1 \in 0 .. MaxMessages
    BY <2>1
  <2> QED BY <2>1, <2>2
<1>1. TypeOK'
  <2>1. ASSUME NEW t \in SID
        PROVE  handed[t] + lost[t] <= sent'[t] /\ written[t] <= handed[t]
    <3>1. /\ handed[t] \in Nat /\ lost[t] \in Nat /\ sent[t] \in Nat /\ sent'[t] \in Nat
          /\ handed[t] + lost[t] <= sent[t] /\ written[t] <= handed[t]
      BY <1>0 DEF IInv, TypeOK
    <3> QED BY <1>0, <3>1
  <2> QED BY <1>0, <2>1 DEF IInv, TypeOK, Managers
<1>2. RoomToSend'
  BY <1>0 DEF IInv, TypeOK, RoomToSend
<1>3. StagesInOrder'
  BY DEF IInv, TypeOK, StagesInOrder, PriosAlive, Drained
<1>4. DrainedCoversDue'
  BY DEF IInv, TypeOK, StagesInOrder, DrainedCoversDue, Drained
<1>5. LossLeavesError'
  BY DEF IInv, TypeOK, StagesInOrder, LossLeavesError
<1>6. NothingLeftToAsk'
  BY DEF IInv, TypeOK, NothingLeftToAsk, PriosAlive
<1> QED BY <1>1, <1>2, <1>3, <1>4, <1>5, <1>6 DEF IInv

LEMMA KeepDropStream ==
    ASSUME IInv, NEW s \in SID, DropStream(s)
    PROVE  IInv'
<1> USE DisconnectAssumption DEF DropStream, api, table, data, closer, sender, control
<1>1. TypeOK'
  <2>0. TypeOK
    BY DEF IInv
  <2>1. close_rx' \in Seq(SID)
    <3>1. close_rx \in Seq(SID) /\ s \in SID
      BY <2>0 DEF TypeOK
    <3>2. Append(close_rx, s) \in Seq(SID)
      BY <3>1
    <3> QED BY <3>1, <3>2
  <2> QED BY <2>0, <2>1 DEF TypeOK
<1>2. RoomToSend'
  BY DEF IInv, TypeOK, RoomToSend, StagesInOrder, PriosAlive
<1>3. StagesInOrder'
  BY DEF IInv, TypeOK, StagesInOrder, PriosAlive, Drained
<1>4. DrainedCoversDue'
  BY DEF IInv, TypeOK, StagesInOrder, DrainedCoversDue, Drained
<1>5. LossLeavesError'
  BY DEF IInv, TypeOK, StagesInOrder, LossLeavesError
<1>6. NothingLeftToAsk'
  BY DEF IInv, TypeOK, NothingLeftToAsk, PriosAlive
<1> QED BY <1>1, <1>2, <1>3, <1>4, <1>5, <1>6 DEF IInv

LEMMA KeepCallDisconnect ==
    ASSUME IInv, CallDisconnect
    PROVE  IInv'
<1> USE DisconnectAssumption DEF CallDisconnect, api, table, data, closer, sender, control
<1>1. TypeOK'
  BY DEF IInv, TypeOK, Managers
<1>2. RoomToSend'
  BY DEF IInv, TypeOK, RoomToSend, StagesInOrder, PriosAlive
<1>3. StagesInOrder'
  BY DEF IInv, TypeOK, StagesInOrder, PriosAlive, Drained
<1>4. DrainedCoversDue'
  BY DEF IInv, TypeOK, StagesInOrder, DrainedCoversDue, Drained
<1>5. LossLeavesError'
  BY DEF IInv, TypeOK, StagesInOrder, LossLeavesError
<1>6. NothingLeftToAsk'
  BY DEF IInv, TypeOK, NothingLeftToAsk, PriosAlive
<1> QED BY <1>1, <1>2, <1>3, <1>4, <1>5, <1>6 DEF IInv

LEMMA KeepWriteFrame ==
    ASSUME IInv, NEW s \in SID, WriteFrame(s)
    PROVE  IInv'
<1> USE DisconnectAssumption DEF WriteFrame, api, table, data, closer, sender, control
<1>0. written' \in [SID -> 0 .. MaxMessages] /\ \A t \in SID : written'[t] <= handed[t]
  <2>1. /\ written \in [SID -> 0 .. MaxMessages] /\ handed \in [SID -> 0 .. MaxMessages]
        /\ \A t \in SID : written[t] <= handed[t]
    BY DEF IInv, TypeOK
  <2>2. written[s] + 1 \in 0 .. MaxMessages /\ written[s] + 1 <= handed[s]
    BY <2>1
  <2> QED BY <2>1, <2>2
<1>1. TypeOK'
  BY <1>0 DEF IInv, TypeOK, Managers
<1>2. RoomToSend'
  BY DEF IInv, TypeOK, RoomToSend, StagesInOrder, PriosAlive
<1>3. StagesInOrder'
  BY DEF IInv, TypeOK, StagesInOrder, PriosAlive, Drained
<1>4. DrainedCoversDue'
  BY DEF IInv, TypeOK, StagesInOrder, DrainedCoversDue, Drained
<1>5. LossLeavesError'
  BY DEF IInv, TypeOK, StagesInOrder, LossLeavesError
<1>6. NothingLeftToAsk'
  BY DEF IInv, TypeOK, NothingLeftToAsk, PriosAlive
<1> QED BY <1>1, <1>2, <1>3, <1>4, <1>5, <1>6 DEF IInv

LEMMA KeepChannelEnds ==
    ASSUME IInv, ChannelEnds
    PROVE  IInv'
<1> USE DisconnectAssumption DEF ChannelEnds, CloseApi, api, table, data, closer, sender, control
<1>1. TypeOK'
  BY DEF IInv, TypeOK, Managers
<1>2. RoomToSend'
  BY DEF IInv, TypeOK, RoomToSend, StagesInOrder, PriosAlive
<1>3. StagesInOrder'
  BY DEF IInv, TypeOK, StagesInOrder, PriosAlive, Drained
<1>4. DrainedCoversDue'
  BY DEF IInv, TypeOK, StagesInOrder, DrainedCoversDue, Drained
<1>5. LossLeavesError'
  BY DEF IInv, TypeOK, StagesInOrder, LossLeavesError
<1>6. NothingLeftToAsk'
  BY DEF IInv, TypeOK, NothingLeftToAsk, PriosAlive
<1> QED BY <1>1, <1>2, <1>3, <1>4, <1>5, <1>6 DEF IInv

LEMMA KeepChannelMgrEnds ==
    ASSUME IInv, ChannelMgrEnds
    PROVE  IInv'
<1> USE DisconnectAssumption DEF ChannelMgrEnds, api, table, data, closer, sender, control
<1>1. TypeOK'
  BY DEF IInv, TypeOK, Managers
<1>2. RoomToSend'
  BY DEF IInv, TypeOK, RoomToSend, StagesInOrder, PriosAlive
<1>3. StagesInOrder'
  BY DEF IInv, TypeOK, StagesInOrder, PriosAlive, Drained
<1>4. DrainedCoversDue'
  BY DEF IInv, TypeOK, StagesInOrder, DrainedCoversDue, Drained
<1>5. LossLeavesError'
  BY DEF IInv, TypeOK, StagesInOrder, LossLeavesError
<1>6. NothingLeftToAsk'
  BY DEF IInv, TypeOK, NothingLeftToAsk, PriosAlive
<1> QED BY <1>1, <1>2, <1>3, <1>4, <1>5, <1>6 DEF IInv

LEMMA KeepOpenMgrEnds ==
    ASSUME IInv, OpenMgrEnds
    PROVE  IInv'
<1> USE DisconnectAssumption DEF OpenMgrEnds, api, table, data, closer, sender, control
<1>1. TypeOK'
  BY DEF IInv, TypeOK, Managers
<1>2. RoomToSend'
  BY DEF IInv, TypeOK, RoomToSend, StagesInOrder, PriosAlive
<1>3. StagesInOrder'
  BY DEF IInv, TypeOK, StagesInOrder, PriosAlive, Drained
<1>4. DrainedCoversDue'
  BY DEF IInv, TypeOK, StagesInOrder, DrainedCoversDue, Drained
<1>5. LossLeavesError'
  BY DEF IInv, TypeOK, StagesInOrder, LossLeavesError
<1>6. NothingLeftToAsk'
  BY DEF IInv, TypeOK, NothingLeftToAsk, PriosAlive
<1> QED BY <1>1, <1>2, <1>3, <1>4, <1>5, <1>6 DEF IInv

LEMMA KeepBeginClose ==
    ASSUME IInv, BeginClose
    PROVE  IInv'
<1> USE DisconnectAssumption DEF BeginClose, api, table, data, closer, sender, control
<1>0. Head(close_rx) \in SID /\ close_rx' \in Seq(SID)
  BY DEF IInv, TypeOK
<1>1. TypeOK'
  BY <1>0 DEF IInv, TypeOK, Managers
<1>2. RoomToSend'
  BY DEF IInv, TypeOK, RoomToSend, StagesInOrder, PriosAlive
<1>3. StagesInOrder'
  BY DEF IInv, TypeOK, StagesInOrder, PriosAlive, Drained
<1>4. DrainedCoversDue'
  BY DEF IInv, TypeOK, StagesInOrder, DrainedCoversDue, Drained
<1>5. LossLeavesError'
  BY DEF IInv, TypeOK, StagesInOrder, LossLeavesError
<1>6. NothingLeftToAsk'
  BY DEF IInv, TypeOK, NothingLeftToAsk, PriosAlive
<1> QED BY <1>1, <1>2, <1>3, <1>4, <1>5, <1>6 DEF IInv

LEMMA KeepFinishClose ==
    ASSUME IInv, FinishClose
    PROVE  IInv'
<1> USE DisconnectAssumption DEF FinishClose, FailSending, CloseApi, api, table, data, closer, sender, control
<1>1. TypeOK'
  BY DEF IInv, TypeOK, Managers
<1>2. RoomToSend'
  BY DEF IInv, TypeOK, RoomToSend, StagesInOrder, PriosAlive
<1>3. StagesInOrder'
  BY DEF IInv, TypeOK, StagesInOrder, PriosAlive, Drained
<1>4. DrainedCoversDue'
  BY DEF IInv, TypeOK, StagesInOrder, DrainedCoversDue, Drained
<1>5. LossLeavesError'
  BY DEF IInv, TypeOK, StagesInOrder, LossLeavesError
<1>6. NothingLeftToAsk'
  BY DEF IInv, TypeOK, NothingLeftToAsk, PriosAlive
<1> QED BY <1>1, <1>2, <1>3, <1>4, <1>5, <1>6 DEF IInv

LEMMA KeepCloseMgrEnds ==
    ASSUME IInv, CloseMgrEnds
    PROVE  IInv'
<1> USE DisconnectAssumption DEF CloseMgrEnds, api, table, data, closer, sender, control
<1>1. TypeOK'
  BY DEF IInv, TypeOK, Managers
<1>2. RoomToSend'
  BY DEF IInv, TypeOK, RoomToSend, StagesInOrder, PriosAlive
<1>3. StagesInOrder'
  BY DEF IInv, TypeOK, StagesInOrder, PriosAlive, Drained
<1>4. DrainedCoversDue'
  BY DEF IInv, TypeOK, StagesInOrder, DrainedCoversDue, Drained
<1>5. LossLeavesError'
  BY DEF IInv, TypeOK, StagesInOrder, LossLeavesError
<1>6. NothingLeftToAsk'
  BY DEF IInv, TypeOK, NothingLeftToAsk, PriosAlive
<1> QED BY <1>1, <1>2, <1>3, <1>4, <1>5, <1>6 DEF IInv

LEMMA KeepBeginShutdown ==
    ASSUME IInv, BeginShutdown
    PROVE  IInv'
<1> USE DisconnectAssumption DEF BeginShutdown, CloseApi, Signalled, api, table, data, closer, sender, control
<1>1. TypeOK'
  BY DEF IInv, TypeOK, Managers
<1>2. RoomToSend'
  BY DEF IInv, TypeOK, RoomToSend, StagesInOrder, PriosAlive
<1>3. StagesInOrder'
  BY DEF IInv, TypeOK, StagesInOrder, PriosAlive, Drained
<1>4. DrainedCoversDue'
  BY DEF IInv, TypeOK, StagesInOrder, DrainedCoversDue, Drained
<1>5. LossLeavesError'
  BY DEF IInv, TypeOK, StagesInOrder, LossLeavesError
<1>6. NothingLeftToAsk'
  BY DEF IInv, TypeOK, NothingLeftToAsk, PriosAlive
<1> QED BY <1>1, <1>2, <1>3, <1>4, <1>5, <1>6 DEF IInv

LEMMA KeepStopChannels ==
    ASSUME IInv, StopChannels
    PROVE  IInv'
<1> USE DisconnectAssumption DEF StopChannels, api, table, data, closer, sender, control
<1>1. TypeOK'
  BY DEF IInv, TypeOK, Managers
<1>2. RoomToSend'
  BY DEF IInv, TypeOK, RoomToSend, StagesInOrder, PriosAlive
<1>3. StagesInOrder'
  BY DEF IInv, TypeOK, StagesInOrder, PriosAlive, Drained
<1>4. DrainedCoversDue'
  BY DEF IInv, TypeOK, StagesInOrder, DrainedCoversDue, Drained
<1>5. LossLeavesError'
  BY DEF IInv, TypeOK, StagesInOrder, LossLeavesError
<1>6. NothingLeftToAsk'
  BY DEF IInv, TypeOK, NothingLeftToAsk, PriosAlive
<1> QED BY <1>1, <1>2, <1>3, <1>4, <1>5, <1>6 DEF IInv

LEMMA KeepReply ==
    ASSUME IInv, Reply
    PROVE  IInv'
<1> USE DisconnectAssumption DEF Reply, api, table, data, closer, sender, control
<1>1. TypeOK'
  BY DEF IInv, TypeOK, Managers
<1>2. RoomToSend'
  BY DEF IInv, TypeOK, RoomToSend, StagesInOrder, PriosAlive
<1>3. StagesInOrder'
  BY DEF IInv, TypeOK, StagesInOrder, PriosAlive, Drained
<1>4. DrainedCoversDue'
  BY DEF IInv, TypeOK, StagesInOrder, DrainedCoversDue, Drained
<1>5. LossLeavesError'
  BY DEF IInv, TypeOK, StagesInOrder, LossLeavesError
<1>6. NothingLeftToAsk'
  BY DEF IInv, TypeOK, NothingLeftToAsk, PriosAlive
<1> QED BY <1>1, <1>2, <1>3, <1>4, <1>5, <1>6 DEF IInv

LEMMA KeepSendMgrTick ==
    ASSUME IInv, SendMgrTick
    PROVE  IInv'
<1> USE DisconnectAssumption DEF api, table, data, closer, sender, control
<1>t. TypeOK
  BY DEF IInv
<1>1. CASE Drained
  <2>1. TypeOK'
    BY <1>1 DEF SendMgrTick, IInv, TypeOK, Managers
  <2>2. RoomToSend' /\ StagesInOrder'
    BY <1>1 DEF SendMgrTick, IInv, TypeOK, RoomToSend, StagesInOrder, PriosAlive, Drained
  <2>3. DrainedCoversDue' /\ LossLeavesError'
    BY <1>1 DEF SendMgrTick, IInv, TypeOK, DrainedCoversDue, Drained, LossLeavesError
  <2>4. "close" \in running => closing # NoSid /\ ~answered
    <3>1. "close" \in signals
      BY <1>1 DEF IInv, StagesInOrder, NothingLeftToAsk, Drained
    <3> QED BY <1>1, <3>1 DEF SendMgrTick, OthersIdle
  <2>5. NothingLeftToAsk'
    BY <1>1, <2>4 DEF SendMgrTick, IInv, NothingLeftToAsk
  <2> QED BY <2>1, <2>2, <2>3, <2>5 DEF IInv
<1>2. CASE ~Drained
  <2>1. PICK take \in Takes :
          /\ frames' = Total(take)
          /\ answered' = (closing # NoSid /\ take[closing] = Pending(closing))
          /\ IF channel = "up"
             THEN handed' = Plus(handed, take) /\ UNCHANGED <<lost, table>>
             ELSE /\ lost' = Plus(lost, take)
                  /\ UNCHANGED handed
                  /\ IF Total(take) > 0 THEN FailSending ELSE UNCHANGED table
    BY <1>2 DEF SendMgrTick
  <2>2. /\ PriosAlive /\ closing_up' = ("send" \in signals)
        /\ UNCHANGED <<api, written, channel, close_rx, closing, running, signals, shutdown, reply, panicked>>
    BY <1>2 DEF SendMgrTick
  <2>3. /\ \A s \in SID : take[s] \in 0 .. MaxMessages
        /\ Total(take) \in 0 .. FramesPerTick
        /\ Total(take) = 0 => \A s \in SID : take[s] = 0 /\ Pending(s) = 0
        /\ \A s \in SID : take[s] > 0 => Total(take) > 0
    BY <1>t, TakesKnown
  <2>4. /\ handed' \in [SID -> 0 .. MaxMessages] /\ lost' \in [SID -> 0 .. MaxMessages]
        /\ \A s \in SID : /\ handed'[s] + lost'[s] = handed[s] + lost[s] + take[s]
                          /\ handed'[s] + lost'[s] <= sent[s]
                          /\ handed'[s] >= handed[s]
    <3>1. \A s \in SID : handed[s] \in Nat /\ lost[s] \in Nat
      BY <1>t DEF TypeOK
    <3>2. \A s \in SID : take[s] \in Nat
      BY <2>3
    <3>3. CASE channel = "up"
      <4>1. handed' = Plus(handed, take) /\ lost' = lost
        BY <2>1, <3>3
      <4>2. handed' \in [SID -> 0 .. MaxMessages] /\ lost' \in [SID -> 0 .. MaxMessages]
        BY <1>t, <4>1, PlusType DEF TypeOK
      <4>3. \A s \in SID : /\ handed'[s] + lost'[s] = handed[s] + lost[s] + take[s]
                          /\ handed[s] + lost[s] + take[s] <= sent[s]
                          /\ handed'[s] >= handed[s]
        BY <1>t, <3>1, <3>2, <4>1, PlusType
      <4> QED BY <4>2, <4>3
    <3>4. CASE channel # "up"
      <4>1. handed' = handed /\ lost' = Plus(lost, take)
        BY <2>1, <3>4
      <4>2. handed' \in [SID -> 0 .. MaxMessages] /\ lost' \in [SID -> 0 .. MaxMessages]
        BY <1>t, <4>1, PlusType DEF TypeOK
      <4>3. \A s \in SID : /\ handed'[s] + lost'[s] = handed[s] + lost[s] + take[s]
                          /\ handed[s] + lost[s] + take[s] <= sent[s]
                          /\ handed'[s] >= handed[s]
        BY <1>t, <3>1, <3>2, <4>1, PlusType
      <4> QED BY <4>2, <4>3
    <3> QED BY <3>3, <3>4
  <2>5. /\ streams' \subseteq SID /\ send_closed' \subseteq SID /\ error' \in BOOLEAN
        /\ answered' \in BOOLEAN /\ closing_up' \in BOOLEAN
    <3>1. CASE UNCHANGED table
      BY <1>t, <3>1, <2>1, <2>2 DEF TypeOK
    <3>2. CASE FailSending
      BY <1>t, <3>2, <2>1, <2>2 DEF TypeOK, FailSending, CloseApi
    <3> QED BY <2>1, <3>1, <3>2
  <2>6. TypeOK'
    <3>1. \A s \in SID : handed'[s] + lost'[s] <= sent'[s] /\ written'[s] <= handed'[s]
      BY <1>t, <2>2, <2>4 DEF TypeOK
    <3>2. {error, answered, closing_up, panicked}' \subseteq BOOLEAN
      BY <1>t, <2>2, <2>5 DEF TypeOK
    <3> QED BY <1>t, <2>1, <2>2, <2>3, <2>4, <2>5, <3>1, <3>2 DEF TypeOK, Managers
  <2>7. RoomToSend' /\ StagesInOrder'
    BY <2>2 DEF IInv, RoomToSend, StagesInOrder, PriosAlive
  <2>8. DrainedCoversDue'
    <3> SUFFICES ASSUME Drained', NEW s \in SID
                 PROVE  handed'[s] + lost'[s] >= due'[s]
      BY DEF DrainedCoversDue
    <3>1. take[s] = 0 /\ Pending(s) = 0
      BY <2>1, <2>3 DEF Drained
    <3>2. handed[s] + lost[s] = sent[s] /\ due'[s] <= sent[s]
      <4>1. sent[s] \in Nat /\ handed[s] \in Nat /\ lost[s] \in Nat
        BY <1>t DEF TypeOK
      <4>2. due[s] <= sent[s] /\ due' = due
        BY <2>2 DEF IInv, RoomToSend, api
      <4> QED BY <3>1, <4>1, <4>2 DEF Pending
    <3> QED BY <1>t, <2>4, <3>1, <3>2 DEF TypeOK
  <2>9. LossLeavesError'
    <3>0. reply = "none" /\ reply' = "none"
      BY <2>2 DEF IInv, StagesInOrder, PriosAlive
    <3> SUFFICES ASSUME NEW s \in SID, lost'[s] > 0
                 PROVE  error'
      BY <3>0 DEF LossLeavesError
    <3>1. CASE lost[s] > 0
      <4>1. error
        BY <3>0, <3>1 DEF IInv, LossLeavesError
      <4> QED BY <2>1, <2>2, <4>1 DEF FailSending
    <3>2. CASE ~(lost[s] > 0)
      <4>1. channel # "up" /\ take[s] > 0
        BY <1>t, <2>1, <2>3, <3>2, PlusType DEF TypeOK
      <4> QED BY <2>1, <2>3, <4>1 DEF FailSending
    <3> QED BY <3>1, <3>2
  <2>10. NothingLeftToAsk'
    BY <2>2 DEF IInv, NothingLeftToAsk, PriosAlive
  <2> QED BY <2>6, <2>7, <2>8, <2>9, <2>10 DEF IInv
<1> QED BY <1>1, <1>2
-----------------------------------------------------------------------------
THEOREM Invariant == Spec => []IInv
<1>1. IInv /\ [Next]_vars => IInv'
  <2> SUFFICES ASSUME IInv, [Next]_vars
               PROVE  IInv'
    OBVIOUS
  <2>1. CASE User
    BY <2>1, KeepBeginSend, KeepEndSend, KeepDropStream DEF User
  <2>2. CASE CallDisconnect \/ ChannelEnds
    BY <2>2, KeepCallDisconnect, KeepChannelEnds
  <2>3. ASSUME NEW s \in SID, WriteFrame(s)
        PROVE  IInv'
    BY <2>3, KeepWriteFrame
  <2>4. CASE ChannelMgrEnds \/ OpenMgrEnds
    BY <2>4, KeepChannelMgrEnds, KeepOpenMgrEnds
  <2>5. CASE BeginClose \/ FinishClose \/ CloseMgrEnds
    BY <2>5, KeepBeginClose, KeepFinishClose, KeepCloseMgrEnds
  <2>6. CASE BeginShutdown \/ StopChannels \/ Reply
    BY <2>6, KeepBeginShutdown, KeepStopChannels, KeepReply
  <2>7. CASE SendMgrTick
    BY <2>7, KeepSendMgrTick
  <2>8. CASE UNCHANGED vars
    <3> USE <2>8 DEF vars, api, table, data, closer, sender, control
    <3>1. TypeOK'
      BY DEF IInv, TypeOK
    <3>2. RoomToSend' /\ StagesInOrder'
      BY DEF IInv, RoomToSend, StagesInOrder, PriosAlive, Drained
    <3>3. DrainedCoversDue' /\ LossLeavesError'
      BY DEF IInv, DrainedCoversDue, Drained, LossLeavesError
    <3>4. NothingLeftToAsk'
      BY DEF IInv, NothingLeftToAsk, PriosAlive
    <3> QED BY <3>1, <3>2, <3>3, <3>4 DEF IInv
  <2> QED BY <2>1, <2>2, <2>3, <2>4, <2>5, <2>6, <2>7, <2>8 DEF Next, Task
<1> QED BY <1>1, InitIInv, PTL DEF Spec

(* The managers, the users and the socket keep the types: no Stream hands  *)
(* over, loses or writes more than was sent on it, and a tick takes no     *)
(* more frames than it may.                                                *)
THEOREM TypeCorrect == Spec => []TypeOK
<1>1. IInv => TypeOK
  BY DEF IInv
<1> QED BY <1>1, Invariant, PTL

(* When send_mgr drops the PrioManager, every message accepted before the  *)
(* disconnect has left it, whatever the users and the channel do.          *)
THEOREM DueIsFlushed == Spec => []FlushCoversDue
<1>1. IInv => FlushCoversDue
  BY DEF IInv, StagesInOrder, DrainedCoversDue, FlushCoversDue
<1> QED BY <1>1, Invariant, PTL

(* A disconnect that returns Ok has lost no frame for want of a channel.   *)
THEOREM LossesAreTold == Spec => []LossIsReported
<1>1. IInv => LossIsReported
  <2> SUFFICES ASSUME IInv, reply = "ok", NEW s \in SID, lost[s] # 0
               PROVE  FALSE
    BY DEF LossIsReported
  <2>1. lost[s] > 0
    BY DisconnectAssumption DEF IInv, TypeOK
  <2> QED BY <2>1 DEF IInv, LossLeavesError
<1> QED BY <1>1, Invariant, PTL

(* stream_close_mgr never asks a PrioManager that is gone for a flush: the *)
(* unwrap of participant.rs:680 does not fail, for any number of Streams   *)
(* that are closed before or during the shutdown.                          *)
THEOREM UnwrapHolds == Spec => []NoPanic
<1>1. IInv => NoPanic
  BY DEF IInv, NothingLeftToAsk, NoPanic
<1> QED BY <1>1, Invariant, PTL
=============================================================================
