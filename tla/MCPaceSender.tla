---------------------------- MODULE MCPaceSender ----------------------------
(* Model checking of PaceSender with the intervals of the code. *)
EXTENDS PaceSender

\* Two packets of a header and SIM_VIDEO_SIZE bytes: they come in either order, and
\* again when they were sent.
Two   == 1 .. 2
Sizes == [s \in Two |-> 1000]

\* MIN_BITRATE, and a middling rate; the loop is as late as k_max_interval_ms allows.
TwoRates  == {80, 320}
Heartbeat == {30}
=============================================================================
