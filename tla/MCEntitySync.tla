----------------------------- MODULE MCEntitySync -----------------------------
(***************************************************************************)
(* The watched client with one other entity on places of regions of 16 by  *)
(* 16 blocks: two close to a corner, one far away; or three in a row       *)
(* across a border; with a player and an NPC, or two NPCs, on two of them. *)
(***************************************************************************)
EXTENDS EntitySync

MCSpawn  == <<12, 7>>
Row      == {<<12, 7>>, <<15, 7>>, <<17, 7>>}
Corner   == {<<12, 7>>, <<15, 17>>, <<17, 17>>, <<40, 8>>}
Diagonal == {<<12, 7>>, <<17, 17>>}
MCPlaces == Row \cup Corner
MCScenes == { [places |-> Row, last |-> 2, players |-> {}],
              [places |-> Corner, last |-> 2, players |-> {}],
              [places |-> Diagonal, last |-> 3, players |-> {2}],
              [places |-> Diagonal, last |-> 3, players |-> {}] }
=============================================================================
