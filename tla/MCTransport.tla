---------------------------- MODULE MCTransport ----------------------------
(* Streams that side "a" opens, of the same or of two priorities.          *)
EXTENDS Transport, TLC

CONSTANTS s1, s2

OpenerA == [s \in SID |-> "a"]
SamePrio == [s \in SID |-> 0]
TwoPrios == [s \in SID |-> IF s = s1 THEN 0 ELSE 5]

(* "a" sends n messages on s1 and m on s2, "b" sends k on s1.              *)
Messages(n, m, k) == [x \in SIDE |-> [s \in SID |-> IF x = "b" THEN IF s = s1 THEN k ELSE 0
                                                    ELSE IF s = s1 THEN n ELSE m]]

(* Two Streams on a channel that lasts; one on a channel that may end on   *)
(* either side, with messages both ways, or one after the other.           *)
MCScenes == { [opens |-> {s1, s2}, messages |-> Messages(1, 1, 0), sizes |-> {2}, breaks |-> {}],
              [opens |-> {s1}, messages |-> Messages(1, 0, 1), sizes |-> {1}, breaks |-> SIDE],
              [opens |-> {s1}, messages |-> Messages(2, 0, 0), sizes |-> {1, 2}, breaks |-> SIDE] }

(* Two Streams with a message of two frames each.                          *)
OneEach == { [opens |-> {s1, s2}, messages |-> Messages(1, 1, 0), sizes |-> {2}, breaks |-> {}] }
=============================================================================
