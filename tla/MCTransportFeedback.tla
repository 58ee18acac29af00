------------------------ MODULE MCTransportFeedback -------------------------
(* Model checking of TransportFeedback: numbers wrap within the call. *)
EXTENDS TransportFeedback
=============================================================================
