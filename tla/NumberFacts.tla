----------------------------- MODULE NumberFacts -----------------------------
(* What the proofs of several modules need of the natural numbers and of sums. *)
EXTENDS FiniteSets, FiniteSetsExt, Integers, FiniteSetTheorems, WellFoundedInduction, TLAPS

\* A set of naturals has a least member: what the proofs that follow use in place of
\* induction.
LEMMA LeastNatural ==
    ASSUME NEW S, S \subseteq Nat, S # {}
    PROVE  \E m \in S : \A k \in S : m <= k
<1>1. \E x \in S : \A y \in S : ~ (<<y, x>> \in OpToRel(<, Nat))
  BY NatLessThanWellFounded, WFMin
<1>2. \A x, y \in Nat : <<y, x>> \in OpToRel(<, Nat) <=> y < x
  BY DEF OpToRel
<1>3. \A x, y \in Nat : ~ (y < x) => x <= y
  OBVIOUS
<1> QED BY <1>1, <1>2, <1>3, Zenon

-----------------------------------------------------------------------------
(* Sums over finite sets, as MapThenSumSet computes them. *)

SumOver(w, S) == MapThenSumSet(LAMBDA x : w[x], S)

Pick(T) == CHOOSE x \in T : TRUE

\* g holds the sum of w over every subset of S.
IsSum(w, S, g) ==
    \A T \in SUBSET S : g[T] = IF T = {} THEN 0 ELSE w[Pick(T)] + g[T \ {Pick(T)}]

\* A member is taken from a finite set.
LEMMA OneLess ==
    ASSUME NEW T, IsFiniteSet(T), NEW x \in T
    PROVE  /\ IsFiniteSet(T \ {x})
           /\ Cardinality(T) \in Nat \ {0} /\ Cardinality(T \ {x}) = Cardinality(T) - 1
<1>1. IsFiniteSet(T \ {x}) /\ Cardinality(T \ {x}) = Cardinality(T) - 1
  BY FS_RemoveElement
<1>2. Cardinality(T) \in Nat /\ Cardinality(T \ {x}) \in Nat
  BY <1>1, FS_CardinalityType
<1> QED BY <1>1, <1>2

LEMMA PickIs == \A T : T # {} => Pick(T) \in T
BY DEF Pick

\* The recursion of the fold defines a function.
Recurs(w, S, g) == g = [T \in SUBSET S |-> IF T = {} THEN 0 ELSE w[Pick(T)] + g[T \ {Pick(T)}]]

LEMMA SumExists ==
    ASSUME NEW w, NEW S, IsFiniteSet(S)
    PROVE  \E g : Recurs(w, S, g)
<1> DEFINE Step(g, T) == IF T = {} THEN 0 ELSE w[Pick(T)] + g[T \ {Pick(T)}]
           UpTo(g, n) == \A T \in SUBSET S : Cardinality(T) <= n => g[T] = Step(g, T)
           Bad == {n \in Nat : ~ \E g : UpTo(g, n)}
<1>1. \A T \in SUBSET S : IsFiniteSet(T) /\ Cardinality(T) \in Nat
  BY FS_Subset, FS_CardinalityType
<1>2. \A T \in SUBSET S : T # {} => /\ T \ {Pick(T)} \in SUBSET S
                                    /\ Cardinality(T \ {Pick(T)}) = Cardinality(T) - 1
  BY <1>1, PickIs, OneLess
<1>3. Bad = {}
  <2>1. SUFFICES ASSUME Bad # {} PROVE FALSE
    OBVIOUS
  <2>2. PICK n \in Bad : \A m \in Bad : n <= m
    <3>1. Bad \subseteq Nat
      OBVIOUS
    <3> HIDE DEF Bad
    <3> QED BY <2>1, <3>1, LeastNatural
  <2>3. n \in Nat /\ ~ \E g : UpTo(g, n)
    BY <2>2
  <2>4. \E g : UpTo(g, n - 1)
    <3>1. CASE n = 0
      <4> DEFINE g == [T \in SUBSET S |-> 0]
      <4>1. \A T \in SUBSET S : ~ (Cardinality(T) <= 0 - 1)
        BY <1>1
      <4> QED BY <3>1, <4>1
    <3>2. CASE n # 0
      <4>1. n - 1 \in Nat /\ ~ (n <= n - 1)
        BY <2>3, <3>2
      <4> QED BY <2>2, <4>1
    <3> QED BY <3>1, <3>2
  <2>5. PICK g : UpTo(g, n - 1)
    BY <2>4
  <2> DEFINE h == [T \in SUBSET S |-> IF Cardinality(T) = n THEN Step(g, T) ELSE g[T]]
  <2>6. ASSUME NEW T \in SUBSET S, Cardinality(T) <= n PROVE h[T] = Step(h, T)
    <3>1. h[T] = Step(g, T)
      <4>1. Cardinality(T) # n => Cardinality(T) <= n - 1
        BY <1>1, <2>3, <2>6
      <4> HIDE DEF Step
      <4> QED BY <2>5, <4>1
    <3>2. T # {} => h[T \ {Pick(T)}] = g[T \ {Pick(T)}]
      <4>1. T # {} => T \ {Pick(T)} \in SUBSET S /\ Cardinality(T \ {Pick(T)}) # n
        BY <1>1, <1>2, <2>3, <2>6
      <4> HIDE DEF Step
      <4> QED BY <4>1
    <3> HIDE DEF h
    <3> QED BY <3>1, <3>2
  <2> QED BY <2>3, <2>6
<1>4. PICK g : UpTo(g, Cardinality(S))
  <2>1. Cardinality(S) \in Nat
    BY <1>1
  <2> HIDE DEF UpTo
  <2> QED BY <1>3, <2>1
<1>5. \A T \in SUBSET S : g[T] = Step(g, T)
  <2>1. \A T \in SUBSET S : Cardinality(T) <= Cardinality(S)
    BY FS_Subset
  <2> HIDE DEF Step
  <2> QED BY <1>4, <2>1
<1> DEFINE f == [T \in SUBSET S |-> g[T]]
<1>6. \A T \in SUBSET S : f[T] = Step(f, T)
  <2> TAKE T \in SUBSET S
  <2>1. f[T] = Step(g, T)
    BY <1>5
  <2>2. T # {} => f[T \ {Pick(T)}] = g[T \ {Pick(T)}]
    OBVIOUS
  <2> HIDE DEF f
  <2> QED BY <2>1, <2>2
<1>7. f = [T \in SUBSET S |-> f[T]]
  OBVIOUS
<1>8. Recurs(w, S, f)
  <2> HIDE DEF f
  <2> QED BY <1>6, <1>7 DEF Recurs
<1> QED BY <1>8

\* It does so in one way.
LEMMA SumIsUnique ==
    ASSUME NEW w, NEW S, IsFiniteSet(S), NEW R \in SUBSET S,
           NEW g, IsSum(w, S, g), NEW h, IsSum(w, R, h)
    PROVE  \A T \in SUBSET R : g[T] = h[T]
<1> DEFINE Bad == {n \in Nat : \E T \in SUBSET R : Cardinality(T) = n /\ g[T] # h[T]}
<1>1. \A T \in SUBSET R : T \in SUBSET S /\ IsFiniteSet(T) /\ Cardinality(T) \in Nat
  BY FS_Subset, FS_CardinalityType
<1>2. SUFFICES ASSUME Bad # {} PROVE FALSE
  BY <1>1
<1>3. PICK n \in Bad : \A m \in Bad : n <= m
  <2>1. Bad \subseteq Nat
    OBVIOUS
  <2> HIDE DEF Bad
  <2> QED BY <1>2, <2>1, LeastNatural
<1>4. PICK T \in SUBSET R : Cardinality(T) = n /\ g[T] # h[T]
  BY <1>3
<1>5. T # {}
  BY <1>1, <1>4 DEF IsSum
<1> DEFINE U == T \ {Pick(T)}
<1>6. U \in SUBSET R /\ n \in Nat \ {0} /\ Cardinality(U) = n - 1
  <2>1. Pick(T) \in T
    BY <1>5, PickIs
  <2> QED BY <1>1, <1>4, <2>1, OneLess
<1>7. g[U] = h[U]
  <2>1. n - 1 \in Nat /\ ~ (n <= n - 1)
    BY <1>6
  <2> HIDE DEF U
  <2> QED BY <1>3, <1>6, <2>1
<1>8. g[T] = w[Pick(T)] + g[U] /\ h[T] = w[Pick(T)] + h[U]
  BY <1>1, <1>5 DEF IsSum
<1> QED BY <1>4, <1>7, <1>8

\* Any member of a set may be the first to be counted.
LEMMA SumTakesAny ==
    ASSUME NEW w, NEW S, IsFiniteSet(S), \A x \in S : w[x] \in Int, NEW g, IsSum(w, S, g)
    PROVE  \A T \in SUBSET S : /\ g[T] \in Int
                               /\ \A x \in T : g[T] = w[x] + g[T \ {x}]
<1> DEFINE Good(T) == g[T] \in Int /\ \A x \in T : g[T] = w[x] + g[T \ {x}]
           Bad == {n \in Nat : \E T \in SUBSET S : Cardinality(T) = n /\ ~ Good(T)}
<1>1. \A T \in SUBSET S : IsFiniteSet(T) /\ Cardinality(T) \in Nat
  BY FS_Subset, FS_CardinalityType
<1>2. SUFFICES ASSUME Bad # {} PROVE FALSE
  BY <1>1
<1>3. PICK n \in Bad : \A m \in Bad : n <= m
  <2>1. Bad \subseteq Nat
    OBVIOUS
  <2> HIDE DEF Bad
  <2> QED BY <1>2, <2>1, LeastNatural
<1>4. PICK T \in SUBSET S : Cardinality(T) = n /\ ~ Good(T)
  BY <1>3
<1>5. T # {}
  <2>1. SUFFICES ASSUME T = {} PROVE Good(T)
    BY <1>4
  <2>2. g[T] = 0
    BY <2>1 DEF IsSum
  <2> QED BY <2>1, <2>2
<1>6. ASSUME NEW x \in T PROVE Good(T \ {x})
  <2>1. T \ {x} \in SUBSET S /\ n \in Nat \ {0} /\ Cardinality(T \ {x}) = n - 1
    BY <1>1, <1>4, OneLess
  <2>2. n - 1 \in Nat /\ ~ (n <= n - 1)
    BY <2>1
  <2> HIDE DEF Good
  <2> QED BY <1>3, <2>1, <2>2
<1> DEFINE p == Pick(T)
<1>7. p \in T /\ g[T] = w[p] + g[T \ {p}]
  BY <1>5, PickIs DEF IsSum
<1> HIDE DEF p
<1>8. g[T] \in Int
  <2>1. w[p] \in Int /\ g[T \ {p}] \in Int
    BY <1>6, <1>7
  <2> QED BY <1>7, <2>1
<1>9. ASSUME NEW x \in T, x # p PROVE g[T] = w[x] + g[T \ {x}]
  <2>1. g[T \ {p}] = w[x] + g[(T \ {p}) \ {x}]
    BY <1>6, <1>7, <1>9
  <2>2. g[T \ {x}] = w[p] + g[(T \ {x}) \ {p}]
    BY <1>6, <1>7, <1>9
  <2>3. (T \ {p}) \ {x} = (T \ {x}) \ {p}
    OBVIOUS
  <2>4. g[(T \ {x}) \ {p}] \in Int
    <3>1. p \in T \ {x}
      BY <1>7, <1>9
    <3>2. g[T \ {x}] \in Int /\ w[p] \in Int
      BY <1>6, <1>7
    <3>3. g[T \ {p}] \in Int /\ w[x] \in Int
      BY <1>6, <1>7
    <3>4. (T \ {x}) \ {p} \in SUBSET S
      OBVIOUS
    <3>5. Cardinality((T \ {x}) \ {p}) = (n - 1) - 1 /\ (n - 1) - 1 \in Nat /\ n \in Nat
      <4>1. IsFiniteSet(T \ {x}) /\ Cardinality(T \ {x}) = n - 1 /\ n \in Nat
        BY <1>1, <1>4, OneLess
      <4>2. n - 1 \in Nat \ {0} /\ Cardinality((T \ {x}) \ {p}) = (n - 1) - 1
        BY <3>1, <4>1, OneLess
      <4> QED BY <4>1, <4>2
    <3>6. ~ (n <= (n - 1) - 1)
      BY <3>5
    <3> HIDE DEF Good
    <3>7. Good((T \ {x}) \ {p})
      BY <1>3, <3>4, <3>5, <3>6
    <3> QED BY <3>7 DEF Good
  <2> DEFINE rest == g[(T \ {x}) \ {p}]
  <2>5. w[x] \in Int /\ w[p] \in Int /\ rest \in Int
    BY <1>7, <2>4
  <2>6. g[T] = w[p] + (w[x] + rest) /\ g[T \ {x}] = w[p] + rest
    BY <1>7, <2>1, <2>2, <2>3
  <2> HIDE DEF rest
  <2> QED BY <2>5, <2>6
<1> QED BY <1>4, <1>7, <1>8, <1>9

\* The fold is that function's value.
LEMMA SumIsLast ==
    ASSUME NEW w, NEW S, IsFiniteSet(S)
    PROVE  \E g : IsSum(w, S, g) /\ SumOver(w, S) = g[S]
<1> DEFINE g == CHOOSE h : Recurs(w, S, h)
<1>1. SumOver(w, S) = g[S]
  BY DEF SumOver, MapThenSumSet, MapThenFoldSet, Pick, Recurs
<1>2. Recurs(w, S, g)
  BY SumExists
<1> HIDE DEF g
<1>3. IsSum(w, S, g)
  BY <1>2 DEF IsSum, Recurs
<1> QED BY <1>1, <1>3

LEMMA SumOverIs ==
    ASSUME NEW w, NEW S, IsFiniteSet(S)
    PROVE  \E g : IsSum(w, S, g) /\ \A T \in SUBSET S : SumOver(w, T) = g[T]
<1>1. ASSUME NEW T, IsFiniteSet(T) PROVE \E g : IsSum(w, T, g) /\ SumOver(w, T) = g[T]
  BY <1>1, SumIsLast
<1>2. PICK g : IsSum(w, S, g)
  BY <1>1
<1>3. ASSUME NEW T \in SUBSET S PROVE SumOver(w, T) = g[T]
  <2>1. IsFiniteSet(T)
    BY FS_Subset
  <2>2. PICK h : IsSum(w, T, h) /\ SumOver(w, T) = h[T]
    BY <1>1, <2>1
  <2>3. g[T] = h[T]
    BY <1>2, <2>2, SumIsUnique
  <2> QED BY <2>2, <2>3
<1> QED BY <1>2, <1>3

\* What the proofs about totals use: nothing sums up to 0, and of any other set a
\* member may be counted by itself.
LEMMA SumOfNothing == \A w : SumOver(w, {}) = 0
<1> TAKE w
<1>1. PICK g : IsSum(w, {}, g) /\ SumOver(w, {}) = g[{}]
  BY SumOverIs, FS_EmptySet
<1> QED BY <1>1 DEF IsSum

LEMMA SumWithout ==
    ASSUME NEW w, NEW S, IsFiniteSet(S), \A x \in S : w[x] \in Int
    PROVE  /\ SumOver(w, S) \in Int
           /\ \A x \in S : SumOver(w, S) = w[x] + SumOver(w, S \ {x})
<1>1. PICK g : IsSum(w, S, g) /\ \A T \in SUBSET S : SumOver(w, T) = g[T]
  BY SumOverIs
<1>2. \A T \in SUBSET S : g[T] \in Int /\ \A x \in T : g[T] = w[x] + g[T \ {x}]
  BY <1>1, SumTakesAny
<1>3. S \in SUBSET S /\ \A x \in S : S \ {x} \in SUBSET S
  OBVIOUS
<1> QED BY <1>1, <1>2, <1>3

LEMMA SumIsNat ==
    ASSUME NEW w, NEW S, IsFiniteSet(S), \A x \in S : w[x] \in Nat
    PROVE  SumOver(w, S) \in Nat
<1>1. PICK g : IsSum(w, S, g) /\ \A T \in SUBSET S : SumOver(w, T) = g[T]
  BY SumOverIs
<1> DEFINE Bad == {n \in Nat : \E T \in SUBSET S : Cardinality(T) = n /\ g[T] \notin Nat}
<1>2. \A T \in SUBSET S : IsFiniteSet(T) /\ Cardinality(T) \in Nat
  BY FS_Subset, FS_CardinalityType
<1>3. SUFFICES ASSUME Bad # {} PROVE FALSE
  BY <1>1, <1>2
<1>4. PICK n \in Bad : \A m \in Bad : n <= m
  <2>1. Bad \subseteq Nat
    OBVIOUS
  <2> HIDE DEF Bad
  <2> QED BY <1>3, <2>1, LeastNatural
<1>5. PICK T \in SUBSET S : Cardinality(T) = n /\ g[T] \notin Nat
  BY <1>4
<1>6. T # {} /\ g[T] = w[Pick(T)] + g[T \ {Pick(T)}]
  BY <1>1, <1>5 DEF IsSum
<1>7. Pick(T) \in T
  BY <1>6, PickIs
<1>8. T \ {Pick(T)} \in SUBSET S /\ n \in Nat \ {0} /\ Cardinality(T \ {Pick(T)}) = n - 1
  BY <1>2, <1>5, <1>7, OneLess
<1>9. g[T \ {Pick(T)}] \in Nat
  <2>1. n - 1 \in Nat /\ ~ (n <= n - 1)
    BY <1>8
  <2> QED BY <1>4, <1>8, <2>1
<1>10. w[Pick(T)] \in Nat
  BY <1>7
<1> QED BY <1>5, <1>6, <1>9, <1>10

-----------------------------------------------------------------------------
\* A set of numbers up to a bound has a greatest member.
LEMMA GreatestNatural ==
    ASSUME NEW n \in Nat, NEW S, S \subseteq 0 .. n, S # {}
    PROVE  \E m \in S : \A k \in S : k <= m
<1> DEFINE T == {n - k : k \in S}
<1>1. T \subseteq Nat /\ T # {}
  <2>1. \A k \in S : n - k \in Nat
    OBVIOUS
  <2> QED BY <2>1
<1>2. PICK t \in T : \A u \in T : t <= u
  <2> HIDE DEF T
  <2> QED BY <1>1, LeastNatural
<1>3. PICK m \in S : t = n - m
  OBVIOUS
<1>4. ASSUME NEW k \in S PROVE k <= m
  <2>1. n - m <= n - k
    BY <1>2, <1>3
  <2> QED BY <2>1
<1> QED BY <1>4
=============================================================================
