---------------------------- MODULE MCMultipath ----------------------------
(* Model checking of Multipath with two paths and frames of two packets. *)
EXTENDS Multipath

TwoPaths == 1 .. 2
\* Nothing, a debt, a credit.
Leftovers == {-5, 0, 4}
=============================================================================
