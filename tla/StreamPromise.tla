---------------------------- MODULE StreamPromise ----------------------------
(***************************************************************************)
(* What one direction of a Stream with PROMISES_ORDERED and                *)
(* PROMISES_GUARANTEED_DELIVERY promises to its two users                  *)
(* (network/src/types.rs, api.rs), without any frame, queue or channel.    *)
(* What was sent arrives unaltered, in order, exactly once; and a user who *)
(* is told that the other side closed the Stream has received everything   *)
(* that was sent on it.                                                    *)
(***************************************************************************)
EXTENDS Naturals, Sequences

VARIABLES sent,      \* messages accepted by Stream::send
          received,  \* messages handed to the receiving user
          ended      \* whether the receiving user has seen the end

vars == <<sent, received, ended>>

Init ==
    /\ sent = <<>>
    /\ received = <<>>
    /\ ended = FALSE

(* One more message, whatever it is.                                       *)
Send ==
    /\ ~ended
    /\ Len(sent') = Len(sent) + 1
    /\ SubSeq(sent', 1, Len(sent)) = sent
    /\ UNCHANGED <<received, ended>>

Receive ==
    /\ ~ended
    /\ Len(received) < Len(sent)
    /\ received' = Append(received, sent[Len(received) + 1])
    /\ UNCHANGED <<sent, ended>>

End ==
    /\ ~ended
    /\ received = sent
    /\ ended' = TRUE
    /\ UNCHANGED <<sent, received>>

Next == Send \/ Receive \/ End

Spec == Init /\ [][Next]_vars
=============================================================================
