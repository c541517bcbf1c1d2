------------------------------ MODULE MCSessions ------------------------------
(***************************************************************************)
(* One player who also deletes and creates characters, so that an id is    *)
(* given out again or not; one on two connections, and two, of whom one    *)
(* has a name that is not valid.                                           *)
(***************************************************************************)
EXTENDS Sessions

CONSTANTS a, b

Rows(owners) == [id \in CHARACTER |-> IF id \in DOMAIN owners THEN [owner |-> owners[id], progress |-> 0] ELSE NoRow]
MCScenes == { [rows |-> Rows(<<a>>), players |-> {a}, clients |-> {1}, edit |-> TRUE, faults |-> 1],
              [rows |-> Rows(<<a, b>>), players |-> {a}, clients |-> {1}, edit |-> TRUE, faults |-> 0],
              [rows |-> Rows(<<a>>), players |-> {a}, clients |-> {1, 2}, edit |-> FALSE, faults |-> 0],
              [rows |-> Rows(<<>>), players |-> {a, b}, clients |-> {1, 2}, edit |-> FALSE, faults |-> 0] }
=============================================================================
