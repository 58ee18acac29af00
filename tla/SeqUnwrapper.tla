---------------------------- MODULE SeqUnwrapper ----------------------------
(***************************************************************************)
(* cf_unwrapper.c: packets are numbered without end and carry their number *)
(* modulo 2^16; each reader recovers the number from the last one it saw.  *)
(***************************************************************************)
EXTENDS Integers

CONSTANT Half       \* 2^15: half of the numbers a packet can carry

ASSUME HalfAssumption == Half \in Nat \ {0}

Modulus == 2 * Half

\* What a header can hold of a number.
Carried(n) == n % Modulus

\* wrap16_is_newer, IS_NEWER.  The mutants: the plain
\* order of the numbers; every number is ahead.
NewerPlain(val, prev)  == val > prev
NewerAlways(val, prev) == TRUE
Newer(val, prev) ==
    \/ val > prev /\ val - prev <= Half
    \/ val < prev /\ val + Modulus - prev < Half

\* wrap16_update: the number nearest to last that is carried as val.
Wrap(last, val) ==
    LET cropped == Carried(last)
        delta   == val - cropped
    IN  IF Newer(val, cropped)
        THEN last + (IF delta < 0 THEN delta + Modulus ELSE delta)
        ELSE last + (IF delta > 0 /\ last + delta - Modulus >= 0
                     THEN delta - Modulus ELSE delta)
=============================================================================
