--------------------------- MODULE MCSimTransport ---------------------------
(* Model checking of SimTransport: a call of a few frames. *)
EXTENDS SimTransport

Groups == {1, 3}
Pairs  == {2}
=============================================================================
