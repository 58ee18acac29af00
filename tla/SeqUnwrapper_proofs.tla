------------------------ MODULE SeqUnwrapper_proofs -------------------------
(***************************************************************************)
(* wrap_uint16 recovers every number that is less than 2^15 away from the  *)
(* last one, however often the 16 bits have wrapped before.                *)
(***************************************************************************)
EXTENDS SeqUnwrapper, NumberFacts

\* A number is made of what a header holds of it and of whole rounds.
LEMMA CarriedRange ==
    ASSUME NEW n \in Nat
    PROVE  /\ Carried(n) \in 0 .. Modulus - 1
           /\ n = (Modulus * (n \div Modulus)) + Carried(n)
           /\ n \div Modulus \in Nat
<1>1. Modulus \in Nat /\ Modulus > 0 BY HalfAssumption DEF Modulus
<1> QED BY <1>1 DEF Carried

\* Two rounds apart is two moduli apart.
LEMMA Rings ==
    ASSUME NEW a \in Int, NEW b \in Int, a >= b + 2
    PROVE  Modulus * a >= Modulus * b + 2 * Modulus
  BY HalfAssumption DEF Modulus

\* wrap16_update finds the number that was meant, ahead of the last one or behind it.
THEOREM WrapIsExact ==
    ASSUME NEW last \in Nat, NEW n \in Nat, n - last < Half, last - n < Half
    PROVE  Wrap(last, Carried(n)) = n
<1> DEFINE q == n \div Modulus
           r == last \div Modulus
<1>1. /\ Carried(n) \in 0 .. Modulus - 1 /\ n = Modulus * q + Carried(n) /\ q \in Nat
      /\ Carried(last) \in 0 .. Modulus - 1 /\ last = Modulus * r + Carried(last) /\ r \in Nat
  BY CarriedRange
<1>2. Modulus \in Nat /\ Modulus = 2 * Half /\ Half \in Nat /\ Half > 0
  BY HalfAssumption DEF Modulus
<1> HIDE DEF q, r
<1>3. q = r \/ q = r + 1 \/ q = r - 1
  <2>1. CASE q >= r + 2 BY <1>1, <1>2, <2>1, Rings
  <2>2. CASE r >= q + 2 BY <1>1, <1>2, <2>2, Rings
  <2> QED BY <1>1, <2>1, <2>2
<1>4. CASE q = r
  BY <1>1, <1>2, <1>4 DEF Wrap, Newer
<1>5. CASE q = r + 1
  <2>1. Modulus * q = Modulus * r + Modulus BY <1>1, <1>2, <1>5
  <2> QED BY <1>1, <1>2, <2>1 DEF Wrap, Newer
<1>6. CASE q = r - 1
  <2>1. Modulus * q = Modulus * r - Modulus BY <1>1, <1>2, <1>6
  <2> QED BY <1>1, <1>2, <2>1 DEF Wrap, Newer
<1> QED BY <1>3, <1>4, <1>5, <1>6
=============================================================================
