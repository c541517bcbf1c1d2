---------------------------- MODULE MCDisconnect ----------------------------
(***************************************************************************)
(* Small instances of Disconnect: two Streams are enough for one close in  *)
(* flight while another one is queued; with two messages on each and two   *)
(* frames per tick a flush takes more than one tick.                       *)
(***************************************************************************)
EXTENDS Disconnect

CONSTANTS s1, s2
=============================================================================
