--------------------------- MODULE MCSimReceiver ---------------------------
(* Model checking of SimReceiver: a short video over a small ring. *)
EXTENDS SimReceiver

\* Groups of three frames, two of them of two packets; the ring is shorter than
\* the video, so slots are used again.
Groups == {1, 4, 7}
Pairs  == {2, 4}
=============================================================================
