--------------------------- MODULE MCRateControl ---------------------------
(* Model checking of RateControl; a unit of the rates is about 1.3 Mbps. *)
EXTENDS RateControl

TwoOffers == {4, 9}
\* The bitrates of sim_internal.h, and others set during the call.
Standard == [min |-> 1, start |-> 3, max |-> 12]
Other    == {[min |-> 2, start |-> 9, max |-> 10]}
\* None or a quarter: reports that add up cover less than 2 % and 10 %, and more.
TwoLosses == {0, 64}
TwoCounts == {1, 2}
=============================================================================
