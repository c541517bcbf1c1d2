------------------------------- MODULE MCChunks -------------------------------
EXTENDS Chunks
CONSTANTS k1, k2

(* Two chunks beside each other, places beside, in and far from them.      *)
MCKeys   == {<<0, 0>>, <<1, 0>>}
MCPlaces == {<<-1, 0>>, <<0, 0>>, <<9, 0>>}
Only(p) == (k1 :> p) @@ (k2 :> Away)

(* A player who walks away and back, one who walks while assets are        *)
(* reloaded, one who is beside a chunk and in another, two players.        *)
MCScenes == { [places |-> {<<-1, 0>>, <<9, 0>>}, start |-> Only(<<-1, 0>>), moves |-> 2, reloads |-> 0],
              [places |-> {<<-1, 0>>, <<9, 0>>}, start |-> Only(<<-1, 0>>), moves |-> 1, reloads |-> 1],
              [places |-> {<<0, 0>>}, start |-> Only(<<0, 0>>), moves |-> 0, reloads |-> 0],
              [places |-> {<<-1, 0>>}, start |-> [k \in Clients |-> <<-1, 0>>], moves |-> 0, reloads |-> 0] }
=============================================================================
