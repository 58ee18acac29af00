---------------------- MODULE TransportFeedback_proofs ----------------------
(***************************************************************************)
(* Every property of TransportFeedback, for any modulus, any windows, any  *)
(* length of the call and any number of faults.                            *)
(***************************************************************************)
EXTENDS TransportFeedback, SeqUnwrapper_proofs, FiniteSetTheorems, SequenceTheorems

(***************************************************************************)
(* Sets of numbers, and what a message has room for.                       *)
(***************************************************************************)

\* A set of numbers with a bound has a greatest.
LEMMA GreatestNumber ==
    ASSUME NEW S, NEW b \in Nat, S \subseteq 0 .. b, S # {}
    PROVE  \E m \in S : \A k \in S : k <= m
<1> DEFINE T == {x \in 0 .. b : b - x \in S}
<1>1. T \subseteq Nat /\ T # {}
  <2>1. PICK s \in S : TRUE
    OBVIOUS
  <2>2. b - s \in 0 .. b /\ b - (b - s) = s
    BY <2>1
  <2>3. b - s \in T
    BY <2>2
  <2>4. T \subseteq Nat
    OBVIOUS
  <2> HIDE DEF T
  <2> QED BY <2>3, <2>4
<1>2. PICK x \in T : \A y \in T : x <= y
  BY <1>1, LeastNatural
<1>3. b - x \in S
  BY <1>2
<1>4. ASSUME NEW k \in S PROVE k <= b - x
  <2>1. b - k \in 0 .. b /\ b - (b - k) = k
    OBVIOUS
  <2>2. b - k \in T
    BY <2>1
  <2>3. x <= b - k
    BY <1>2, <2>2
  <2> QED BY <2>3, <1>2
<1> QED BY <1>3, <1>4

LEMMA BoundedFinite ==
    ASSUME NEW S, NEW b \in Int, S \subseteq 0 .. b
    PROVE  IsFiniteSet(S) /\ Cardinality(S) \in Nat
<1>1. IsFiniteSet(0 .. b)
  BY FS_Interval
<1>2. IsFiniteSet(S)
  BY <1>1, FS_Subset
<1> QED BY <1>2, FS_CardinalityType

\* The n least numbers of a set are at most n, and whatever is left out is greater.
LEMMA LeastBounds ==
    ASSUME NEW S, NEW b \in Nat, S \subseteq 0 .. b, NEW n \in Nat
    PROVE  /\ Least(n, S) \subseteq S
           /\ Cardinality(Least(n, S)) <= n
           /\ \A k \in S \ Least(n, S), j \in Least(n, S) : j < k
<1> DEFINE Under(k) == {j \in S : j < k}
<1>1. Least(n, S) \subseteq S
  BY DEF Least
<1>2. ASSUME NEW k \in S PROVE IsFiniteSet(Under(k)) /\ Cardinality(Under(k)) \in Nat
  <2>1. Under(k) \subseteq 0 .. b
    OBVIOUS
  <2> HIDE DEF Under
  <2> QED BY <2>1, BoundedFinite
<1>3. ASSUME NEW k \in S \ Least(n, S), NEW j \in Least(n, S) PROVE j < k
  <2>1. Cardinality(Under(j)) < n /\ ~ (Cardinality(Under(k)) < n) /\ j \in S
    BY DEF Least
  <2>2. SUFFICES ASSUME k <= j PROVE FALSE
    BY <2>1
  <2>3. Under(k) \subseteq Under(j)
    <3>1. \A i \in S : i < k => i < j
      BY <2>1, <2>2
    <3> QED BY <3>1
  <2> HIDE DEF Under
  <2>4. Cardinality(Under(k)) <= Cardinality(Under(j))
    BY <1>2, <2>1, <2>3, FS_Subset
  <2> QED BY <1>2, <2>1, <2>4
<1>4. Cardinality(Least(n, S)) <= n
  <2>1. CASE Least(n, S) = {}
    BY <2>1, FS_EmptySet
  <2>2. CASE Least(n, S) # {}
    <3>1. PICK m \in Least(n, S) : \A k \in Least(n, S) : k <= m
      BY <1>1, <2>2, GreatestNumber
    <3>2. m \in S /\ Cardinality(Under(m)) < n
      BY <3>1 DEF Least
    <3>3. Least(n, S) \subseteq Under(m) \cup {m}
      <4>1. \A k \in Least(n, S) : k \in S /\ (k < m \/ k = m)
        BY <1>1, <3>1, <3>2
      <4> QED BY <4>1
    <3>0. m \notin Under(m)
      BY <3>2
    <3> HIDE DEF Under
    <3>4. /\ IsFiniteSet(Under(m) \cup {m})
          /\ Cardinality(Under(m) \cup {m}) = Cardinality(Under(m)) + 1
      BY <1>2, <3>2, <3>0, FS_AddElement
    <3>5. Cardinality(Least(n, S)) <= Cardinality(Under(m) \cup {m})
      BY <3>3, <3>4, FS_Subset
    <3>6. Cardinality(Least(n, S)) \in Nat
      <4>1. Least(n, S) \subseteq 0 .. b
        BY <1>1
      <4> QED BY <4>1, BoundedFinite
    <3> QED BY <1>2, <3>2, <3>4, <3>5, <3>6
  <2> QED BY <2>1, <2>2
<1> QED BY <1>1, <1>3, <1>4

(***************************************************************************)
(* Reading the samples of a message one after the other.                   *)
(***************************************************************************)

\* The function that Unwrapped defines by recursion exists.
Numbering(g, first, samples, len) ==
    g = [i \in 0 .. len |-> IF i = 0 THEN first ELSE Wrap(g[i - 1], samples[i].seq)]

LEMMA NumberExists ==
    ASSUME NEW first, NEW samples, NEW len \in Nat
    PROVE  \E g : Numbering(g, first, samples, len)
<1> USE DEF Numbering
<1> DEFINE Good(n) ==
        \E g : g = [i \in 0 .. n |-> IF i = 0 THEN first ELSE Wrap(g[i - 1], samples[i].seq)]
           Bad == {n \in Nat : ~Good(n)}
<1>1. SUFFICES Bad = {}
  OBVIOUS
<1>2. SUFFICES ASSUME Bad # {} PROVE FALSE
  OBVIOUS
<1>3. PICK n \in Bad : \A k \in Bad : n <= k
  BY <1>2, LeastNatural
<1>4. n \in Nat /\ ~Good(n)
  BY <1>3
<1>5. CASE n = 0
  <2> DEFINE g == [i \in 0 .. n |-> first]
  <2>1. g = [i \in 0 .. n |-> IF i = 0 THEN first ELSE Wrap(g[i - 1], samples[i].seq)]
    BY <1>5
  <2> QED BY <1>4, <2>1
<1>6. CASE n # 0
  <2>1. n - 1 \in Nat /\ n - 1 \notin Bad
    <3>1. n - 1 \in Nat /\ ~ (n <= n - 1)
      BY <1>4, <1>6
    <3> HIDE DEF Bad
    <3> QED BY <1>3, <3>1
  <2> HIDE DEF Good
  <2>0. Good(n - 1)
    BY <2>1
  <2> USE DEF Good
  <2>2. PICK g : g = [i \in 0 .. n - 1 |-> IF i = 0 THEN first ELSE Wrap(g[i - 1], samples[i].seq)]
    BY <2>0
  <2> DEFINE h == [i \in 0 .. n |-> IF i = n THEN Wrap(g[n - 1], samples[n].seq) ELSE g[i]]
  <2>3. ASSUME NEW i \in 0 .. n
        PROVE  h[i] = IF i = 0 THEN first ELSE Wrap(h[i - 1], samples[i].seq)
    <3>1. CASE i = n
      <4>1. h[i - 1] = g[n - 1]
        BY <1>4, <1>6, <3>1
      <4> QED BY <1>6, <3>1, <4>1
    <3>2. CASE i # n
      <4>1. i \in 0 .. n - 1 /\ h[i] = g[i]
        BY <1>4, <3>2
      <4>2. g[i] = IF i = 0 THEN first ELSE Wrap(g[i - 1], samples[i].seq)
        BY <2>2, <4>1
      <4>3. i # 0 => h[i - 1] = g[i - 1]
        BY <1>4, <4>1
      <4> QED BY <4>1, <4>2, <4>3
    <3> QED BY <3>1, <3>2
  <2>4. h = [i \in 0 .. n |-> IF i = 0 THEN first ELSE Wrap(h[i - 1], samples[i].seq)]
    <3> DEFINE f == [i \in 0 .. n |-> IF i = 0 THEN first ELSE Wrap(h[i - 1], samples[i].seq)]
    <3>1. DOMAIN h = 0 .. n /\ DOMAIN f = 0 .. n /\ h = [i \in 0 .. n |-> h[i]] /\ f = [i \in 0 .. n |-> f[i]]
      OBVIOUS
    <3>2. \A i \in 0 .. n : h[i] = f[i]
      BY <2>3
    <3> HIDE DEF h, f
    <3>3. h = f
      BY <3>1, <3>2
    <3> QED BY <3>3 DEF f
  <2> QED BY <1>4, <2>4
<1> QED BY <1>5, <1>6

\* Numbers from half a round.
Within(n, lo) == n \in Nat /\ lo <= n /\ n < lo + Half

\* Samples of numbers that are within half a round of each other and of the last
\* one are all read as the numbers they were taken from.
LEMMA UnwrappedExact ==
    ASSUME NEW h, NEW samples, NEW number, NEW lo \in Int,
           Len(samples) \in Nat, Within(h.last, lo),
           \A i \in 1 .. Len(samples) :
               Within(number[i], lo) /\ samples[i].seq = Carried(number[i])
    PROVE  /\ DOMAIN Unwrapped(h, samples) = 1 .. Len(samples)
           /\ \A i \in 1 .. Len(samples) : Unwrapped(h, samples)[i] = number[i]
<1> DEFINE len == Len(samples)
           g == CHOOSE f : f = [i \in 0 .. len |->
                    IF i = 0 THEN h.last ELSE Wrap(f[i - 1], samples[i].seq)]
<1>1. g = [i \in 0 .. len |-> IF i = 0 THEN h.last ELSE Wrap(g[i - 1], samples[i].seq)]
  <2>1. len \in Nat
    OBVIOUS
  <2> HIDE DEF len
  <2>2. \E f : Numbering(f, h.last, samples, len)
    BY <2>1, NumberExists
  <2> QED BY <2>2 DEF Numbering
<1>2. Unwrapped(h, samples) = [i \in 1 .. len |-> g[i]]
  BY DEF Unwrapped
<1> DEFINE Bad == {i \in 1 .. len : g[i] # number[i]}
<1> HIDE DEF g
<1>3. Bad = {}
  <2>1. SUFFICES ASSUME Bad # {} PROVE FALSE
    OBVIOUS
  <2>0. Bad \subseteq Nat
    OBVIOUS
  <2> HIDE DEF Bad
  <2>2. PICK i \in Bad : \A k \in Bad : i <= k
    BY <2>0, <2>1, LeastNatural
  <2> USE DEF Bad
  <2>3. i \in 1 .. len /\ g[i] # number[i] /\ i \in 0 .. len /\ i # 0
    BY <2>2
  <2>4. g[i] = Wrap(g[i - 1], samples[i].seq)
    BY <1>1, <2>3
  <2>5. Within(g[i - 1], lo)
    <3>1. CASE i = 1
      BY <1>1, <3>1
    <3>2. CASE i # 1
      <4>1. i - 1 \in 1 .. len /\ i - 1 \notin Bad
        BY <2>2, <2>3, <3>2
      <4> QED BY <4>1
    <3> QED BY <3>1, <3>2
  <2>6. Within(number[i], lo) /\ samples[i].seq = Carried(number[i])
    BY <2>3
  <2>7. /\ number[i] \in Nat /\ g[i - 1] \in Nat
        /\ number[i] - g[i - 1] < Half /\ g[i - 1] - number[i] < Half
    BY <2>5, <2>6, HalfAssumption DEF Within
  <2> QED BY <2>3, <2>4, <2>6, <2>7, WrapIsExact
<1> QED BY <1>2, <1>3

-----------------------------------------------------------------------------
(***************************************************************************)
(* The invariant: whatever can still be looked at is less than half of the *)
(* numbers behind the next transmission, so that every unwrapper finds it; *)
(* and records, arrivals and messages are of the numbers they are filed    *)
(* under.                                                                  *)
(***************************************************************************)

Sent == 0 .. seed - 1

\* What an unwrapper has last seen: a transmission, or nothing yet.
Reached(n) == n \in Nat /\ (n < seed \/ n = 0)

\* The arrivals that the next message carries lie less than 2^16 ms apart, which is
\* what survives their encoding ...
Spanned == \A j, k \in Sampled(proxy) : proxy.times[j] - proxy.times[k] < StampMod

\* ... if there is one to be sent.  In the code this fails only after more than a minute
\* in which fewer than three packets came.
SpansFit == Due /\ Reportable(proxy) => Spanned

\* The skiplists: functions from some numbers.
TimeLists   == UNION {[S -> Nat] : S \in SUBSET Nat}
PacketLists == UNION {[S -> [id : Nat, sent : Nat]] : S \in SUBSET Nat}

ProxyRecord == [last : Nat, start : Int, max : Int, beat : Int, times : TimeLists]
HistRecord == [last : Nat, acked : Nat, packets : PacketLists]
MsgRecord == [base : Int, samples : Seq([seq : Nat, ts : Int])]

Types ==
    /\ seed \in Nat /\ seed <= MaxSeq
    /\ clock \in Nat /\ clock <= MaxClock
    /\ net \subseteq Sent
    /\ hist \in HistRecord /\ proxy \in ProxyRecord /\ loss \in LossRecord
    /\ msgs \subseteq MsgRecord
    /\ arrivals \in [Seqs -> SUBSET (0 .. clock)]

InRange ==
    /\ Reached(hist.last) /\ Reached(proxy.last) /\ Reached(loss.last)
    /\ -1 <= proxy.start /\ proxy.start <= seed
    /\ \A n \in InView : seed - n <= Half

Remembered == \A k \in DOMAIN hist.packets : k \in Sent /\ hist.packets[k].id = k

Recorded ==
    /\ \A n \in Seqs : arrivals[n] # {} => n < seed
    /\ \A k \in DOMAIN proxy.times : k \in Seqs /\ proxy.times[k] \in arrivals[k]
    /\ proxy.start = -1 => DOMAIN proxy.times = {}
    /\ -1 <= loss.max /\ loss.max < seed

Acknowledged == hist.acked > 0 => hist.acked \in Seqs /\ arrivals[hist.acked] # {}

\* A sample of message m stands for the arrival of number k.
Means(m, i, k) ==
    /\ k \in Seqs /\ m.base <= k /\ arrivals[k] # {}
    /\ m.samples[i].seq = Carried(k)
Meant == \A m \in msgs :
    /\ Len(m.samples) > 0
    /\ \A i \in 1 .. Len(m.samples) : \E k \in Seqs : Means(m, i, k)

IInv == Types /\ InRange /\ Remembered /\ Recorded /\ Acknowledged /\ Meant

LEMMA Constants ==
    /\ Half \in Nat /\ Half > 0 /\ Modulus \in Nat
    /\ MaxSeq \in Nat /\ MaxClock \in Nat /\ MaxSamples \in Nat /\ StampMod \in Nat /\ StampMod > 0
    /\ HistoryTime \in Nat /\ BackWindow \in Nat /\ MaxDrop \in Nat
    /\ LossWindow \in Nat /\ LossDistance \in Nat /\ LossDistance > 0 /\ Interval \in Nat
BY HalfAssumption, ProxyAssumption, FeedbackAssumption, LossAssumption DEF Modulus

LEMMA InitIInv == FeedbackInit => IInv
<1>1. SUFFICES ASSUME FeedbackInit PROVE IInv
  OBVIOUS
<1>2. <<>> \in TimeLists
  <2>1. <<>> \in [{} -> Nat]
    OBVIOUS
  <2> QED BY <2>1 DEF TimeLists
<1>3. <<>> \in PacketLists
  <2>1. <<>> \in [{} -> [id : Nat, sent : Nat]]
    OBVIOUS
  <2> QED BY <2>1 DEF PacketLists
<1>4. Types
  <2>1. hist \in HistRecord
    BY <1>1, <1>3 DEF FeedbackInit, HistRecord
  <2>2. proxy \in ProxyRecord
    BY <1>1, <1>2 DEF FeedbackInit, ProxyInit, ProxyRecord, FreshProxy
  <2>3. loss \in LossRecord
    BY <1>1 DEF FeedbackInit, ProxyInit, LossRecord, FreshLoss
  <2>4. arrivals \in [Seqs -> SUBSET (0 .. clock)]
    BY <1>1 DEF FeedbackInit, ProxyInit
  <2> QED BY <1>1, <2>1, <2>2, <2>3, <2>4, Constants DEF FeedbackInit, ProxyInit, Types
<1>5. InRange
  BY <1>1, Constants DEF FeedbackInit, ProxyInit, InRange, Reached, InView, FreshProxy, FreshLoss
<1>6. Remembered /\ Recorded /\ Acknowledged /\ Meant
  BY <1>1, Constants DEF FeedbackInit, ProxyInit, Remembered, Recorded, Acknowledged, Meant,
     FreshProxy, FreshLoss
<1> QED BY <1>4, <1>5, <1>6 DEF IInv

\* Each of the unwrappers finds the number of a transmission that is in flight.
LEMMA ReadsTrue ==
    ASSUME IInv, NEW n \in net, NEW last, Reached(last), last \in InView
    PROVE  Wrap(last, Carried(n)) = n
<1>0. n \in InView
  BY DEF InView
<1>1. n \in Nat /\ n < seed /\ seed - n <= Half /\ seed - last <= Half /\ seed \in Nat
  BY <1>0 DEF IInv, Types, InRange, Sent
<1>2. last \in Nat /\ last < seed
  BY <1>1 DEF Reached
<1>3. n - last < Half /\ last - n < Half
  BY <1>1, <1>2, Constants
<1> QED BY <1>1, <1>2, <1>3, WrapIsExact

-----------------------------------------------------------------------------
(* What estimator_proxy_incoming and loss_statistics_incoming do to a      *)
(* transmission that is in flight.                                         *)

Kept(n) == DOMAIN proxy.times \ Expired(proxy, n, clock)

LEMMA InView1 ==
    /\ \A n \in net : n \in InView
    /\ hist.last \in InView /\ proxy.last \in InView /\ loss.last \in InView /\ proxy.start \in InView
    /\ \A m \in msgs : m.base \in InView
BY DEF InView

LEMMA InViewIsNumbers ==
    ASSUME IInv, NEW n \in InView
    PROVE  n \in Int
<1>1. net \subseteq Int /\ hist.last \in Int /\ proxy.last \in Int /\ loss.last \in Int
  BY DEF IInv, Types, InRange, Reached, Sent
<1>2. proxy.start \in Int
  BY DEF IInv, Types, ProxyRecord
<1>3. ASSUME NEW m \in msgs PROVE m.base \in Int
  BY DEF IInv, Types, MsgRecord
<1> QED BY <1>1, <1>2, <1>3 DEF InView

LEMMA StartIs ==
    ASSUME IInv, NEW n \in net
    PROVE  /\ Start(proxy, n, Carried(n)) = IF proxy.start = -1 \/ n < proxy.start THEN n ELSE proxy.start
           /\ ~ (n > proxy.start + Half - 1)
<1>1. /\ n \in Nat /\ n < seed /\ seed \in Nat /\ seed - proxy.start <= Half
      /\ proxy.start \in Int
  BY InView1 DEF IInv, Types, InRange, Sent, ProxyRecord
<1>2. ASSUME proxy.start = -1 PROVE Carried(n) = n
  <2>1. 0 <= n /\ n < 2 * Half
    BY <1>1, <1>2, Constants
  <2> QED BY <2>1, Constants, <1>1 DEF Carried, Modulus
<1> QED BY <1>1, <1>2, Constants DEF Start

LEMMA IncomingIs ==
    ASSUME IInv, NEW n \in net, NEW p, p = Incoming(proxy, Carried(n), clock)
    PROVE  /\ p \in ProxyRecord /\ p.last = n
           /\ p.start = IF proxy.start = -1 \/ n < proxy.start THEN n ELSE proxy.start
           /\ DOMAIN p.times = Kept(n) \cup {n}
           /\ \A k \in Kept(n) : p.times[k] = proxy.times[k]
           /\ n \notin Kept(n) => p.times[n] = clock
<1>1. Wrap(proxy.last, Carried(n)) = n
  BY ReadsTrue, InView1 DEF IInv, InRange
<1>2. n \in Nat /\ clock \in Nat /\ proxy \in ProxyRecord
  BY DEF IInv, Types, Sent
<1> DEFINE kept == Restrict(proxy.times, Kept(n))
           times == Record(kept, n, clock)
<1>3. p = [proxy EXCEPT !.last = n, !.start = Start(proxy, n, Carried(n)),
                        !.max = IF @ < n THEN n ELSE @, !.times = times]
  BY <1>1, StartIs DEF Incoming, Kept
<1>4. /\ DOMAIN times = Kept(n) \cup {n}
      /\ \A k \in Kept(n) : times[k] = proxy.times[k]
      /\ n \notin Kept(n) => times[n] = clock
  BY DEF Record, Restrict
<1>5. times \in TimeLists
  <2>1. PICK S \in SUBSET Nat : proxy.times \in [S -> Nat]
    BY <1>2 DEF ProxyRecord, TimeLists
  <2>2. times = [k \in Kept(n) \cup {n} |-> IF k \in Kept(n) THEN proxy.times[k] ELSE clock]
    BY DEF Record, Restrict
  <2>3. times \in [Kept(n) \cup {n} -> Nat]
    BY <1>2, <2>1, <2>2 DEF Kept
  <2>4. Kept(n) \cup {n} \in SUBSET Nat
    BY <1>2, <2>1 DEF Kept
  <2> QED BY <2>3, <2>4 DEF TimeLists
<1> HIDE DEF times
<1>6. Start(proxy, n, Carried(n)) \in Int
  BY <1>2, StartIs DEF ProxyRecord
<1> DEFINE max == IF proxy.max < n THEN n ELSE proxy.max
<1>8. max \in Int
  BY <1>2 DEF ProxyRecord
<1>9. p = [proxy EXCEPT !.last = n, !.start = Start(proxy, n, Carried(n)), !.max = max, !.times = times]
  BY <1>3
<1> HIDE DEF max
<1>7. p \in ProxyRecord /\ p.last = n /\ p.start = Start(proxy, n, Carried(n)) /\ p.times = times
  BY <1>2, <1>5, <1>6, <1>8, <1>9 DEF ProxyRecord
<1> QED BY <1>4, <1>7, StartIs

LEMMA LossIncomingIs ==
    ASSUME IInv, NEW n \in net, NEW l, l = LossIncoming(loss, Carried(n))
    PROVE  /\ l \in LossRecord /\ l.last = n /\ l.count = loss.count + 1
           /\ l.max = IF loss.max < n THEN n ELSE loss.max
           /\ l.prev = IF loss.prev = -1 /\ n > 0 THEN n - 1 ELSE loss.prev
           /\ l.at = loss.at
<1>1. Wrap(loss.last, Carried(n)) = n
  BY ReadsTrue, InView1 DEF IInv, InRange
<1>2. n \in Nat /\ loss \in LossRecord
  BY DEF IInv, Types, Sent
<1>3. l = [loss EXCEPT !.last = n, !.max = IF @ < n THEN n ELSE @, !.count = @ + 1,
                       !.prev = IF @ = -1 /\ n > 0 THEN n - 1 ELSE @]
  BY <1>1 DEF LossIncoming
<1> DEFINE max  == IF loss.max < n THEN n ELSE loss.max
           prev == IF loss.prev = -1 /\ n > 0 THEN n - 1 ELSE loss.prev
<1>4. max \in Int /\ prev \in Int /\ loss.count + 1 \in Nat
  BY <1>2 DEF LossRecord
<1>5. l = [loss EXCEPT !.last = n, !.max = max, !.count = loss.count + 1, !.prev = prev]
  BY <1>3
<1> HIDE DEF max, prev
<1>6. l.last = n /\ l.count = loss.count + 1 /\ l.max = max /\ l.prev = prev /\ l.at = loss.at
  BY <1>2, <1>5 DEF LossRecord
<1> DEFINE count == loss.count + 1
<1>7. n \in Int /\ count \in Nat
  BY <1>2, <1>4
<1>8. l = [loss EXCEPT !.last = n, !.max = max, !.count = count, !.prev = prev]
  BY <1>5
<1> HIDE DEF count
<1>9. l \in LossRecord
  BY <1>2, <1>4, <1>7, <1>8 DEF LossRecord
<1> QED BY <1>6, <1>9 DEF max, prev

-----------------------------------------------------------------------------
(* The steps.  Arrivals are only added to, so that what a message means    *)
(* and what has been acknowledged stays so.                                *)

Grows == \A k \in Seqs : arrivals[k] \subseteq arrivals'[k]

LEMMA MeantKept ==
    ASSUME Meant, Grows, msgs' \subseteq msgs
    PROVE  Meant'
<1>1. ASSUME NEW m \in msgs' PROVE m \in msgs
  BY <1>1
<1>2. ASSUME NEW m \in msgs, NEW i \in 1 .. Len(m.samples), NEW k \in Seqs, Means(m, i, k)
      PROVE  Means(m, i, k)'
  BY <1>2 DEF Means, Grows, Seqs
<1>3. ASSUME NEW m \in msgs', NEW i \in 1 .. Len(m.samples)
      PROVE  \E k \in Seqs : Means(m, i, k)'
  BY <1>1, <1>2, <1>3 DEF Meant
<1>4. \A m \in msgs' : Len(m.samples) > 0
  BY <1>1 DEF Meant
<1> QED BY <1>3, <1>4 DEF Meant, Seqs, Means

LEMMA ReachedIsSent ==
    ASSUME IInv, NEW n \in net
    PROVE  n \in Seqs /\ n < seed /\ Reached(n)
BY Constants DEF IInv, Types, Sent, Seqs, Reached

\* The network loses a datagram.
LEMMA LoseStep ==
    ASSUME IInv, net' \subseteq net, msgs' \subseteq msgs,
           UNCHANGED <<clock, proxyVars, seed, hist, told>>
    PROVE  IInv'
<1>1. UNCHANGED <<clock, proxy, loss, arrivals, seed, hist>>
  BY DEF proxyVars
<1>2. Types'
  BY <1>1 DEF IInv, Types, Sent
<1>3. InRange'
  <2>1. InView' \subseteq InView
    BY <1>1 DEF InView
  <2> QED BY <1>1, <2>1 DEF IInv, InRange, Reached
<1>4. Remembered' /\ Recorded' /\ Acknowledged'
  BY <1>1 DEF IInv, Remembered, Recorded, Acknowledged, Sent
<1>5. Meant'
  BY <1>1, MeantKept DEF IInv, Grows
<1> QED BY <1>2, <1>3, <1>4, <1>5 DEF IInv

LEMMA TickStep ==
    ASSUME IInv, Tick, UNCHANGED feedbackVars
    PROVE  IInv'
<1>1. /\ UNCHANGED <<proxy, loss, arrivals, seed, hist, net, msgs>>
      /\ clock < MaxClock /\ clock' = clock + 1
  BY DEF Tick, proxyVars, feedbackVars
<1>2. Types'
  <2>1. clock' \in Nat /\ clock' <= MaxClock /\ 0 .. clock \subseteq 0 .. clock'
    BY <1>1, Constants DEF IInv, Types
  <2>2. SUBSET (0 .. clock) \subseteq SUBSET (0 .. clock')
    BY <2>1
  <2>3. arrivals' \in [Seqs -> SUBSET (0 .. clock')]
    BY <1>1, <2>2 DEF IInv, Types
  <2> QED BY <1>1, <2>1, <2>3 DEF IInv, Types, Sent, Seqs
<1>3. InRange'
  BY <1>1 DEF IInv, InRange, InView, Reached
<1>4. Remembered' /\ Recorded' /\ Acknowledged'
  BY <1>1 DEF IInv, Remembered, Recorded, Acknowledged, Sent
<1>5. Meant'
  BY <1>1, MeantKept DEF IInv, Grows
<1> QED BY <1>2, <1>3, <1>4, <1>5 DEF IInv

\* A transmission arrives.
LEMMA DeliverStep ==
    ASSUME IInv, NEW n \in net, Deliver(n)
    PROVE  IInv'
<1>1. /\ proxy' = Incoming(proxy, Carried(n), clock)
      /\ loss' = LossIncoming(loss, Carried(n))
      /\ arrivals' = [arrivals EXCEPT ![n] = @ \cup {clock}]
      /\ UNCHANGED <<clock, seed, hist, msgs>>
      /\ net' \subseteq net
  BY DEF Deliver, Arrive
<1>2. n \in Seqs /\ n < seed /\ n \in Nat /\ Reached(n)
  BY ReachedIsSent DEF Seqs
<1>3. arrivals \in [Seqs -> SUBSET (0 .. clock)] /\ clock \in Nat /\ seed \in Nat
  BY DEF IInv, Types
<1>4. /\ \A k \in Seqs : arrivals'[k] = IF k = n THEN arrivals[n] \cup {clock} ELSE arrivals[k]
      /\ arrivals' \in [Seqs -> SUBSET (0 .. clock)]
  BY <1>1, <1>2, <1>3
<1>5. Grows
  BY <1>4 DEF Grows
<1>6. /\ proxy' \in ProxyRecord /\ proxy'.last = n
      /\ proxy'.start = IF proxy.start = -1 \/ n < proxy.start THEN n ELSE proxy.start
      /\ DOMAIN proxy'.times = Kept(n) \cup {n}
      /\ \A k \in Kept(n) : proxy'.times[k] = proxy.times[k]
      /\ n \notin Kept(n) => proxy'.times[n] = clock
  BY <1>1, IncomingIs
<1>7. /\ loss' \in LossRecord /\ loss'.last = n
      /\ loss'.max = IF loss.max < n THEN n ELSE loss.max
  BY <1>1, LossIncomingIs
<1>8. Types'
  BY <1>1, <1>4, <1>6, <1>7 DEF IInv, Types, Sent, Seqs
<1>9. InRange'
  <2>1. InView' \subseteq InView
    BY <1>1, <1>6, <1>7, InView1 DEF InView
  <2>2. -1 <= proxy'.start /\ proxy'.start <= seed'
    BY <1>1, <1>2, <1>3, <1>6 DEF IInv, Types, InRange, ProxyRecord
  <2>3. Reached(hist.last)' /\ Reached(proxy.last)' /\ Reached(loss.last)'
    BY <1>1, <1>2, <1>6, <1>7 DEF IInv, InRange, Reached
  <2> QED BY <1>1, <2>1, <2>2, <2>3 DEF IInv, InRange
<1>10. Recorded'
  <2>1. ASSUME NEW k \in DOMAIN proxy'.times PROVE k \in Seqs /\ proxy'.times[k] \in arrivals'[k]
    <3>1. CASE k \in Kept(n)
      BY <1>5, <1>6, <3>1 DEF IInv, Recorded, Kept, Grows
    <3>2. CASE k \notin Kept(n)
      BY <1>2, <1>4, <1>6, <3>2
    <3> QED BY <3>1, <3>2
  <2>2. \A k \in Seqs : arrivals'[k] # {} => k < seed'
    BY <1>1, <1>2, <1>4 DEF IInv, Recorded
  <2>3. proxy'.start # -1
    BY <1>2, <1>6
  <2>4. -1 <= loss'.max /\ loss'.max < seed'
    BY <1>1, <1>2, <1>7 DEF IInv, Recorded
  <2> QED BY <2>1, <2>2, <2>3, <2>4 DEF Recorded, Seqs
<1>11. Remembered' /\ Acknowledged'
  BY <1>1, <1>5 DEF IInv, Remembered, Acknowledged, Sent, Seqs, Grows
<1>12. Meant'
  BY <1>1, <1>5, MeantKept DEF IInv
<1> QED BY <1>8, <1>9, <1>10, <1>11, <1>12 DEF IInv

-----------------------------------------------------------------------------
(* Sending: what sender_history_add does.                                  *)

LEMMA RememberIs ==
    ASSUME IInv, Near, NEW h, h = Remember(hist, seed)
    PROVE  /\ h \in HistRecord /\ h.last = seed /\ h.acked = hist.acked
           /\ DOMAIN h.packets = (DOMAIN hist.packets \ Forgotten(hist)) \cup {seed}
           /\ \A k \in DOMAIN hist.packets \ Forgotten(hist) : h.packets[k] = hist.packets[k]
           /\ h.packets[seed] = [id |-> seed, sent |-> clock]
<1> DEFINE D == DOMAIN hist.packets \ Forgotten(hist)
           packets == [k \in D \cup {seed} |->
               IF k \in D THEN hist.packets[k] ELSE [id |-> seed, sent |-> clock]]
<1>1. seed \in Nat /\ clock \in Nat /\ hist \in HistRecord /\ seed \notin DOMAIN hist.packets
  BY DEF IInv, Types, Remembered, Sent
<1>2. Wrap(hist.last, Carried(seed)) = seed
  <2>1. seed - hist.last < Half
    BY InView1 DEF Near
  <2>2. hist.last \in Nat /\ hist.last <= seed
    BY <1>1 DEF IInv, InRange, Reached
  <2> QED BY <1>1, <2>1, <2>2, Constants, WrapIsExact
<1>3. h = [hist EXCEPT !.last = seed, !.packets = packets]
  BY <1>2 DEF Remember, Restrict
<1>4. packets \in PacketLists
  <2>1. PICK S \in SUBSET Nat : hist.packets \in [S -> [id : Nat, sent : Nat]]
    BY <1>1 DEF HistRecord, PacketLists
  <2>2. D \cup {seed} \in SUBSET Nat
    BY <1>1, <2>1
  <2>3. packets \in [D \cup {seed} -> [id : Nat, sent : Nat]]
    BY <1>1, <2>1
  <2> HIDE DEF packets, D
  <2> QED BY <2>2, <2>3 DEF PacketLists
<1>5. /\ DOMAIN packets = D \cup {seed}
      /\ \A k \in D : packets[k] = hist.packets[k]
      /\ packets[seed] = [id |-> seed, sent |-> clock]
  BY <1>1
<1> HIDE DEF packets
<1>6. h \in HistRecord /\ h.last = seed /\ h.acked = hist.acked /\ h.packets = packets
  BY <1>1, <1>3, <1>4 DEF HistRecord
<1> QED BY <1>5, <1>6

LEMMA SendStep ==
    ASSUME IInv, Send
    PROVE  IInv'
<1>1. /\ seed < MaxSeq /\ Near
      /\ hist' = Remember(hist, seed)
      /\ seed' = seed + 1 /\ net' = net \cup {seed}
      /\ UNCHANGED <<clock, proxy, loss, arrivals, msgs>>
  BY DEF Send, proxyVars
<1>2. seed \in Nat /\ clock \in Nat
  BY DEF IInv, Types
<1>3. /\ hist' \in HistRecord /\ hist'.last = seed /\ hist'.acked = hist.acked
      /\ DOMAIN hist'.packets = (DOMAIN hist.packets \ Forgotten(hist)) \cup {seed}
      /\ \A k \in DOMAIN hist.packets \ Forgotten(hist) : hist'.packets[k] = hist.packets[k]
      /\ hist'.packets[seed] = [id |-> seed, sent |-> clock]
  BY <1>1, RememberIs
<1>4. Types'
  <2>1. net' \subseteq Sent'
    BY <1>1, <1>2 DEF IInv, Types, Sent
  <2>2. seed' \in Nat /\ seed' <= MaxSeq
    BY <1>1, <1>2, Constants
  <2> QED BY <1>1, <1>3, <2>1, <2>2 DEF IInv, Types, Seqs
<1>5. InRange'
  <2>1. InView' \subseteq InView \cup {seed}
    BY <1>1, <1>3 DEF InView
  <2>2. ASSUME NEW n \in InView PROVE seed' - n <= Half
    <3>1. seed - n < Half
      BY <1>1 DEF Near
    <3>2. n \in Int
      BY InViewIsNumbers
    <3> QED BY <1>1, <1>2, <3>1, <3>2, Constants
  <2>3. seed' - seed <= Half
    BY <1>1, <1>2, Constants
  <2>4. Reached(hist.last)' /\ Reached(proxy.last)' /\ Reached(loss.last)'
    BY <1>1, <1>2, <1>3 DEF IInv, InRange, Reached
  <2>5. -1 <= proxy'.start /\ proxy'.start <= seed'
    BY <1>1, <1>2 DEF IInv, InRange, Types, ProxyRecord
  <2> QED BY <2>1, <2>2, <2>3, <2>4, <2>5 DEF InRange
<1>6. Remembered'
  BY <1>1, <1>2, <1>3 DEF IInv, Remembered, Sent
<1>7. Recorded'
  BY <1>1, <1>2, Constants DEF IInv, Recorded, Types, Seqs, LossRecord
<1>8. Acknowledged'
  BY <1>1, <1>3 DEF IInv, Acknowledged, Seqs
<1>9. Meant'
  BY <1>1, MeantKept DEF IInv, Grows
<1> QED BY <1>4, <1>5, <1>6, <1>7, <1>8, <1>9 DEF IInv

-----------------------------------------------------------------------------
(* The heartbeat of the receiver.                                          *)

LEMMA HeartbeatLoss ==
    ASSUME IInv, LossHeartbeat
    PROVE  loss' \in LossRecord /\ loss'.last = loss.last /\ loss'.max = loss.max
<1>1. loss \in LossRecord /\ clock \in Int
  BY DEF IInv, Types
<1>2. CASE loss' = loss
  BY <1>1, <1>2
<1>3. CASE loss' = LossReset(loss, clock)
  BY <1>1, <1>3 DEF LossReset, LossRecord
<1> QED BY <1>2, <1>3 DEF LossHeartbeat

LEMMA SilentStep ==
    ASSUME IInv, SilentHeartbeat, UNCHANGED feedbackVars
    PROVE  IInv'
<1>1. UNCHANGED <<clock, arrivals, seed, hist, net, msgs>>
  BY DEF SilentHeartbeat, feedbackVars
<1>2. loss' \in LossRecord /\ loss'.last = loss.last /\ loss'.max = loss.max
  BY HeartbeatLoss DEF SilentHeartbeat
<1>3. /\ proxy' \in ProxyRecord /\ proxy'.last = proxy.last
      /\ proxy'.start = proxy.start /\ proxy'.times = proxy.times
  <2>1. proxy \in ProxyRecord /\ clock \in Int
    BY DEF IInv, Types
  <2>2. CASE proxy' = proxy
    BY <2>1, <2>2
  <2>3. CASE proxy' = [proxy EXCEPT !.beat = clock]
    BY <2>1, <2>3 DEF ProxyRecord
  <2> QED BY <2>2, <2>3 DEF SilentHeartbeat
<1>4. Types'
  BY <1>1, <1>2, <1>3 DEF IInv, Types, Sent
<1>5. InRange'
  <2>1. InView' = InView
    BY <1>1, <1>2, <1>3 DEF InView
  <2> QED BY <1>1, <1>2, <1>3, <2>1 DEF IInv, InRange, Reached
<1>6. Remembered' /\ Recorded' /\ Acknowledged'
  BY <1>1, <1>2, <1>3 DEF IInv, Remembered, Recorded, Acknowledged, Sent
<1>7. Meant'
  BY <1>1, MeantKept DEF IInv, Grows
<1> QED BY <1>4, <1>5, <1>6, <1>7 DEF IInv

-----------------------------------------------------------------------------
(* A feedback message is put together.                                     *)

LEMMA SampledIs ==
    ASSUME IInv
    PROVE  /\ Sampled(proxy) \subseteq DOMAIN proxy.times
           /\ Sampled(proxy) \subseteq 0 .. seed - 1
           /\ \A k \in Sampled(proxy) : k \in Seqs /\ proxy.start <= k /\ k < seed
           /\ IsFiniteSet(Sampled(proxy)) /\ Cardinality(Sampled(proxy)) \in Nat
<1>1. Sampled(proxy) \subseteq Unreported(proxy)
  BY DEF Sampled, Least
<1>2. ASSUME NEW k \in Sampled(proxy)
      PROVE  k \in DOMAIN proxy.times /\ proxy.start <= k /\ k \in Seqs /\ k < seed
  <2>1. k \in DOMAIN proxy.times /\ k >= proxy.start
    BY <1>1 DEF Unreported
  <2>2. k \in Seqs /\ k < seed /\ k \in Int
    BY <2>1 DEF IInv, Recorded, Seqs
  <2>3. proxy.start \in Int
    BY DEF IInv, Types, ProxyRecord
  <2> QED BY <2>1, <2>2, <2>3
<1>3. Sampled(proxy) \subseteq 0 .. seed - 1
  BY <1>2 DEF Seqs, IInv, Types
<1>4. seed - 1 \in Int
  BY DEF IInv, Types
<1> QED BY <1>2, <1>3, <1>4, BoundedFinite

\* The number behind the greatest of the sampled ones.
LEMMA ReportIs ==
    ASSUME IInv, Reportable(proxy), NEW p, p = [Report(proxy) EXCEPT !.beat = clock]
    PROVE  /\ p \in ProxyRecord /\ p.last = proxy.last /\ p.times = proxy.times
           /\ p.max = proxy.max
           /\ p.start - 1 \in Sampled(proxy)
           /\ \A k \in Sampled(proxy) : k <= p.start - 1
<1> DEFINE top == CHOOSE k \in Sampled(proxy) : \A j \in Sampled(proxy) : j <= k
<1>1. Sampled(proxy) # {}
  BY FS_EmptySet DEF Reportable
<1>2. top \in Sampled(proxy) /\ \A j \in Sampled(proxy) : j <= top
  <2>1. Sampled(proxy) \subseteq 0 .. seed
    BY SampledIs DEF IInv, Types
  <2>2. \E k \in Sampled(proxy) : \A j \in Sampled(proxy) : j <= k
    BY <1>1, <2>1, GreatestNumber DEF IInv, Types
  <2> QED BY <2>2
<1>3. p = [proxy EXCEPT !.start = 1 + top, !.beat = clock]
  BY DEF Report
<1> HIDE DEF top
<1>4. top \in Int /\ proxy \in ProxyRecord /\ clock \in Int
  BY <1>2, SampledIs DEF IInv, Types, Seqs
<1> DEFINE next == 1 + top
<1>5. next \in Int /\ next - 1 = top
  BY <1>4
<1>6. p = [proxy EXCEPT !.start = next, !.beat = clock]
  BY <1>3
<1> HIDE DEF next
<1>7. /\ p \in ProxyRecord /\ p.last = proxy.last /\ p.times = proxy.times
      /\ p.max = proxy.max /\ p.start = next
  BY <1>4, <1>5, <1>6 DEF ProxyRecord
<1> QED BY <1>2, <1>5, <1>7

\* The times of a message are those of the records, if 16 bits are enough for what
\* they differ by.
LEMMA SampleIs ==
    ASSUME IInv, NEW k \in Sampled(proxy)
    PROVE  /\ Sample(proxy, k) \in [seq : Nat, ts : Int]
           /\ Sample(proxy, k).seq = Carried(k)
           /\ Spanned => Sample(proxy, k).ts = proxy.times[k]
<1> DEFINE T == {proxy.times[j] : j \in Sampled(proxy)}
           e == Earliest(proxy)
<1>1. \A j \in Sampled(proxy) : proxy.times[j] \in 0 .. clock
  BY SampledIs DEF IInv, Recorded, Types
<1>2. clock \in Nat /\ clock <= MaxClock /\ T \subseteq Nat /\ T # {}
  BY <1>1 DEF IInv, Types
<1>3. e \in T /\ \A j \in Sampled(proxy) : e <= proxy.times[j]
  <2> HIDE DEF T
  <2>1. \E t \in T : \A u \in T : t <= u
    BY <1>2, LeastNatural
  <2> USE DEF T
  <2>2. \E t \in T : \A j \in Sampled(proxy) : t <= proxy.times[j]
    BY <2>1
  <2> QED BY <2>2 DEF Earliest
<1> HIDE DEF e
<1>4. e \in 0 .. clock /\ e <= proxy.times[k] /\ proxy.times[k] \in 0 .. clock
  BY <1>1, <1>3
<1> DEFINE d == proxy.times[k] - e
<1>5. d \in 0 .. clock /\ e + d = proxy.times[k]
  BY <1>2, <1>4
<1> HIDE DEF d
<1>6. d % StampMod \in Int /\ (Spanned => d % StampMod = d)
  <2>1. Spanned => d < StampMod
    BY <1>3 DEF Spanned, d
  <2>. QED BY <1>2, <1>5, <2>1, Constants
<1>7. Sample(proxy, k) = [seq |-> Carried(k), ts |-> e + (d % StampMod)]
  BY DEF Sample, e, d
<1>8. Carried(k) \in Nat
  BY SampledIs, CarriedRange, Constants DEF Seqs
<1> QED BY <1>4, <1>5, <1>6, <1>7, <1>8

LEMMA SendFeedbackStep ==
    ASSUME IInv, SendFeedback
    PROVE  IInv'
<1>1. /\ Reportable(proxy) /\ LossHeartbeat
      /\ proxy' = [Report(proxy) EXCEPT !.beat = clock]
      /\ UNCHANGED <<clock, arrivals, seed, hist, net>>
  BY DEF SendFeedback, Feedback
<1>2. PICK order \in Ordered(Sampled(proxy)) :
          msgs' = msgs \cup {[base |-> proxy.start,
                              samples |-> [i \in DOMAIN order |-> Sample(proxy, order[i])]]}
  BY DEF SendFeedback
<1> DEFINE n == Cardinality(Sampled(proxy))
           samples == [i \in 1 .. n |-> Sample(proxy, order[i])]
<1>0. PICK m : m = [base |-> proxy.start, samples |-> samples]
  OBVIOUS
<1>3. /\ n \in Nat /\ n > 0 /\ DOMAIN order = 1 .. n
      /\ \A i \in 1 .. n : order[i] \in Sampled(proxy)
  BY <1>1, SampledIs DEF Ordered, Reportable
<1>4. msgs' = msgs \cup {m}
  BY <1>0, <1>2, <1>3
<1>5. samples \in Seq([seq : Nat, ts : Int]) /\ Len(samples) = n
  <2>1. \A i \in 1 .. n : Sample(proxy, order[i]) \in [seq : Nat, ts : Int]
    BY <1>3, SampleIs
  <2> HIDE DEF n
  <2>2. samples \in Seq([seq : Nat, ts : Int])
    BY <1>3, <2>1
  <2> QED BY <1>3, <2>2
<1>6. \A i \in 1 .. n : samples[i] = Sample(proxy, order[i])
  OBVIOUS
<1> HIDE DEF samples
<1>7. m \in MsgRecord /\ m.base = proxy.start /\ m.samples = samples
  BY <1>0, <1>5 DEF MsgRecord, IInv, Types, ProxyRecord
<1> HIDE DEF n
<1>8. loss' \in LossRecord /\ loss'.last = loss.last /\ loss'.max = loss.max
  BY <1>1, HeartbeatLoss
<1>9. /\ proxy' \in ProxyRecord /\ proxy'.last = proxy.last /\ proxy'.times = proxy.times
      /\ proxy'.start - 1 \in Sampled(proxy)
  BY <1>1, ReportIs
<1>10. /\ proxy'.start \in Int /\ proxy.start \in Int /\ seed \in Nat
       /\ proxy.start < proxy'.start /\ proxy'.start <= seed
  <2>1. proxy'.start \in Int /\ proxy.start \in Int /\ seed \in Nat
    BY <1>9 DEF IInv, Types, ProxyRecord
  <2>2. proxy.start <= proxy'.start - 1 /\ proxy'.start - 1 < seed
    BY <1>9, SampledIs
  <2> QED BY <2>1, <2>2
<1>11. Types'
  BY <1>1, <1>4, <1>7, <1>8, <1>9 DEF IInv, Types, Sent, Seqs
<1>12. InRange'
  <2>1. InView' \subseteq InView \cup {proxy'.start}
    BY <1>1, <1>4, <1>7, <1>8, <1>9, InView1 DEF InView
  <2>2. seed' - proxy'.start <= Half
    <3>1. seed - proxy.start <= Half
      BY InView1 DEF IInv, InRange
    <3> QED BY <1>1, <1>10, <3>1, Constants
  <2>3. -1 <= proxy'.start /\ proxy'.start <= seed'
    BY <1>1, <1>10 DEF IInv, InRange
  <2>4. Reached(hist.last)' /\ Reached(proxy.last)' /\ Reached(loss.last)'
    BY <1>1, <1>8, <1>9 DEF IInv, InRange, Reached
  <2> QED BY <1>1, <2>1, <2>2, <2>3, <2>4 DEF IInv, InRange
<1>13. Remembered' /\ Acknowledged'
  BY <1>1 DEF IInv, Remembered, Acknowledged, Sent
<1>14. Recorded'
  <2>1. proxy'.start # -1
    BY <1>10 DEF IInv, InRange
  <2> QED BY <1>1, <1>8, <1>9, <2>1 DEF IInv, Recorded, Seqs
<1>15. Meant'
  <2>1. ASSUME NEW i \in 1 .. n PROVE Means(m, i, order[i])'
    <3>1. order[i] \in Sampled(proxy)
      BY <1>3 DEF n
    <3>2. /\ order[i] \in Seqs /\ proxy.start <= order[i]
          /\ proxy.times[order[i]] \in arrivals[order[i]]
      BY <3>1, SampledIs DEF IInv, Recorded
    <3>3. m.samples[i].seq = Carried(order[i])
      BY <1>6, <1>7, <3>1, SampleIs DEF n
    <3> QED BY <1>1, <1>7, <3>2, <3>3 DEF Means, Seqs
  <2>2. ASSUME NEW o \in msgs, NEW i \in 1 .. Len(o.samples), NEW k \in Seqs, Means(o, i, k)
        PROVE  Means(o, i, k)'
    BY <1>1, <2>2 DEF Means, Seqs
  <2>3. ASSUME NEW o \in msgs', NEW i \in 1 .. Len(o.samples)
        PROVE  \E k \in Seqs : Means(o, i, k)'
    <3>1. CASE o \in msgs
      BY <2>2, <2>3, <3>1 DEF IInv, Meant
    <3>2. CASE o = m
      <4>1. i \in 1 .. n
        BY <1>5, <1>7, <2>3, <3>2 DEF n
      <4>2. order[i] \in Seqs
        BY <1>3, <4>1, SampledIs DEF n
      <4> QED BY <2>1, <3>2, <4>1, <4>2
    <3> QED BY <1>4, <2>3, <3>1, <3>2
  <2>4. \A o \in msgs' : Len(o.samples) > 0
    BY <1>3, <1>4, <1>5, <1>7 DEF IInv, Meant, n
  <2> QED BY <2>3, <2>4 DEF Meant, Seqs, Means
<1> QED BY <1>11, <1>12, <1>13, <1>14, <1>15 DEF IInv

-----------------------------------------------------------------------------
(* A feedback message is handled.                                          *)

\* Every sample of a message is read as a number it stands for.
LEMMA NumbersMeant ==
    ASSUME IInv, NEW m \in msgs, NEW numbers, numbers = Unwrapped(hist, m.samples)
    PROVE  /\ Len(m.samples) \in Nat /\ Len(m.samples) > 0
           /\ DOMAIN numbers = 1 .. Len(m.samples)
           /\ \A i \in DOMAIN numbers : Means(m, i, numbers[i])
           /\ \A i \in DOMAIN numbers : numbers[i] \in Nat /\ numbers[i] < seed
                                        /\ seed - numbers[i] <= Half
           /\ Len(numbers) = Len(m.samples)
<1> DEFINE samples == m.samples
           number == [i \in 1 .. Len(samples) |-> CHOOSE k \in Seqs : Means(m, i, k)]
           lo == seed - Half
<1>1. m \in MsgRecord /\ Len(samples) > 0
  BY DEF IInv, Types, Meant
<1>2. Len(samples) \in Nat
  BY <1>1, LenProperties DEF MsgRecord
<1>3. ASSUME NEW i \in 1 .. Len(samples) PROVE number[i] \in Seqs /\ Means(m, i, number[i])
  <2>1. \E k \in Seqs : Means(m, i, k)
    BY DEF IInv, Meant
  <2> QED BY <2>1
<1> HIDE DEF number
<1>4. seed \in Nat /\ hist.last \in Nat /\ m.base \in Int /\ seed - m.base <= Half
      /\ seed - hist.last <= Half
  BY <1>1, InView1 DEF IInv, Types, InRange, Reached, MsgRecord
<1>5. ASSUME NEW i \in 1 .. Len(samples)
      PROVE  /\ number[i] \in Nat /\ lo <= number[i] /\ number[i] < lo + Half
             /\ samples[i].seq = Carried(number[i])
             /\ number[i] < seed /\ seed - number[i] <= Half
  <2>1. number[i] \in Nat /\ number[i] < seed
    BY <1>3 DEF IInv, Recorded, Means, Seqs
  <2>2. m.base <= number[i] /\ samples[i].seq = Carried(number[i])
    BY <1>3 DEF Means
  <2> QED BY <1>4, <2>1, <2>2, Constants
<1>6. hist.last < lo + Half
  <2>1. 1 \in 1 .. Len(samples)
    BY <1>1, <1>2
  <2>2. seed > 0
    BY <1>4, <1>5, <2>1
  <2> QED BY <1>4, <2>2, Constants DEF IInv, InRange, Reached
<1>7. lo \in Int /\ lo <= hist.last
  BY <1>4, Constants
<1> HIDE DEF lo, samples
<1>8. /\ DOMAIN Unwrapped(hist, samples) = 1 .. Len(samples)
      /\ \A i \in 1 .. Len(samples) : Unwrapped(hist, samples)[i] = number[i]
  <2>1. \A i \in 1 .. Len(samples) :
            Within(number[i], lo) /\ samples[i].seq = Carried(number[i])
    BY <1>5 DEF Within
  <2>2. Within(hist.last, lo)
    BY <1>4, <1>6, <1>7 DEF Within
  <2> QED BY <1>2, <1>7, <2>1, <2>2, UnwrappedExact
<1>9. DOMAIN numbers = 1 .. Len(samples) /\ \A i \in 1 .. Len(samples) : numbers[i] = number[i]
  BY <1>8 DEF samples
<1>10. Len(numbers) = Len(samples)
  BY <1>2, <1>9
<1> QED BY <1>1, <1>2, <1>3, <1>5, <1>9, <1>10 DEF samples

LEMMA LookIs ==
    ASSUME IInv, NEW m \in msgs, NEW h, h = Look(hist, m.samples),
           NEW numbers, numbers = Unwrapped(hist, m.samples)
    PROVE  /\ h \in HistRecord
           /\ \E i \in DOMAIN numbers : h.last = numbers[i]
           /\ h.acked = hist.acked \/ \E i \in DOMAIN numbers : h.acked = numbers[i]
           /\ DOMAIN h.packets = DOMAIN hist.packets \ Range(numbers)
           /\ \A k \in DOMAIN h.packets : h.packets[k] = hist.packets[k]
<1>1. /\ Len(numbers) \in DOMAIN numbers
      /\ \A i \in DOMAIN numbers : numbers[i] \in Nat /\ numbers[i] < seed
  <2>1. /\ Len(m.samples) \in Nat /\ Len(m.samples) > 0
        /\ DOMAIN numbers = 1 .. Len(m.samples) /\ Len(numbers) = Len(m.samples)
        /\ \A i \in DOMAIN numbers : numbers[i] \in Nat /\ numbers[i] < seed
    BY NumbersMeant
  <2> QED BY <2>1
<1> DEFINE R == Range(numbers) \cup {hist.acked}
           newest == CHOOSE n \in R : \A o \in R : o <= n
           packets == TakeOut(hist, numbers)
           last == numbers[Len(numbers)]
<1>2. hist \in HistRecord /\ seed \in Nat
  BY DEF IInv, Types
<1>3. newest \in R
  <2>1. R \subseteq 0 .. seed + hist.acked
    BY <1>1, <1>2 DEF Range, HistRecord
  <2>2. seed + hist.acked \in Nat /\ R # {}
    BY <1>2 DEF HistRecord
  <2> HIDE DEF R
  <2>3. \E n \in R : \A o \in R : o <= n
    BY <2>1, <2>2, GreatestNumber
  <2> QED BY <2>3
<1>4. h = [last |-> last, acked |-> newest, packets |-> packets]
  BY DEF Look
<1> HIDE DEF newest
<1>5. newest \in Nat /\ (newest = hist.acked \/ \E i \in DOMAIN numbers : newest = numbers[i])
  BY <1>1, <1>2, <1>3 DEF Range, HistRecord
<1>6. /\ DOMAIN packets = DOMAIN hist.packets \ Range(numbers)
      /\ \A k \in DOMAIN packets : packets[k] = hist.packets[k]
  BY DEF TakeOut, Restrict
<1>7. packets \in PacketLists
  <2>1. PICK S \in SUBSET Nat : hist.packets \in [S -> [id : Nat, sent : Nat]]
    BY <1>2 DEF HistRecord, PacketLists
  <2>2. packets \in [S \ Range(numbers) -> [id : Nat, sent : Nat]]
    BY <2>1 DEF TakeOut, Restrict
  <2>3. S \ Range(numbers) \in SUBSET Nat
    BY <2>1
  <2> HIDE DEF packets
  <2> QED BY <2>2, <2>3 DEF PacketLists
<1> HIDE DEF packets
<1>8. last \in Nat /\ \E i \in DOMAIN numbers : last = numbers[i]
  BY <1>1
<1> HIDE DEF last
<1>9. h \in HistRecord /\ h.last = last /\ h.acked = newest /\ h.packets = packets
  BY <1>4, <1>5, <1>7, <1>8 DEF HistRecord
<1> QED BY <1>5, <1>6, <1>8, <1>9

LEMMA HandleFeedbackStep ==
    ASSUME IInv, NEW m \in msgs, HandleFeedback(m)
    PROVE  IInv'
<1>1. /\ hist' = Look(hist, m.samples)
      /\ msgs' \subseteq msgs
      /\ UNCHANGED <<clock, proxy, loss, arrivals, seed, net>>
  BY DEF HandleFeedback, proxyVars
<1> DEFINE numbers == Unwrapped(hist, m.samples)
<1>2. \A i \in DOMAIN numbers :
          /\ numbers[i] \in Nat /\ numbers[i] < seed /\ seed - numbers[i] <= Half
          /\ Means(m, i, numbers[i])
  BY NumbersMeant
<1>3. /\ hist' \in HistRecord
      /\ \E i \in DOMAIN numbers : hist'.last = numbers[i]
      /\ hist'.acked = hist.acked \/ \E i \in DOMAIN numbers : hist'.acked = numbers[i]
      /\ DOMAIN hist'.packets \subseteq DOMAIN hist.packets
      /\ \A k \in DOMAIN hist'.packets : hist'.packets[k] = hist.packets[k]
  BY <1>1, LookIs
<1> HIDE DEF numbers
<1>4. Types'
  BY <1>1, <1>3 DEF IInv, Types, Sent, Seqs
<1>5. InRange'
  <2>1. InView' \subseteq InView \cup {hist'.last}
    BY <1>1 DEF InView
  <2>2. Reached(hist.last)' /\ seed - hist'.last <= Half
    BY <1>1, <1>2, <1>3 DEF Reached
  <2> QED BY <1>1, <2>1, <2>2 DEF IInv, InRange, Reached
<1>6. Remembered' /\ Recorded'
  BY <1>1, <1>3 DEF IInv, Remembered, Recorded, Sent, Seqs
<1>7. Acknowledged'
  BY <1>1, <1>2, <1>3 DEF IInv, Acknowledged, Means, Seqs
<1>8. Meant'
  BY <1>1, MeantKept DEF IInv, Grows
<1> QED BY <1>4, <1>5, <1>6, <1>7, <1>8 DEF IInv

-----------------------------------------------------------------------------
(* The invariant holds, and with it NumbersAreTrue.                        *)

LEMMA StepIInv ==
    ASSUME IInv, [Next]_allVars
    PROVE  IInv'
<1>1. CASE Send
  BY <1>1, SendStep
<1>2. CASE SendFeedback
  BY <1>2, SendFeedbackStep
<1>3. CASE SilentHeartbeat /\ UNCHANGED feedbackVars
  BY <1>3, SilentStep
<1>4. CASE Tick /\ UNCHANGED feedbackVars
  BY <1>4, TickStep
<1>5. ASSUME NEW n \in net, Deliver(n) PROVE IInv'
  BY <1>5, DeliverStep
<1>6. ASSUME NEW n \in net, LosePacket(n) PROVE IInv'
  <2>1. net' \subseteq net /\ msgs' \subseteq msgs /\ UNCHANGED <<clock, proxyVars, seed, hist, told>>
    BY <1>6 DEF LosePacket
  <2> QED BY <2>1, LoseStep
<1>7. ASSUME NEW m \in msgs, HandleFeedback(m) PROVE IInv'
  BY <1>7, HandleFeedbackStep
<1>8. ASSUME NEW m \in msgs, LoseFeedback(m) PROVE IInv'
  <2>1. net' \subseteq net /\ msgs' \subseteq msgs /\ UNCHANGED <<clock, proxyVars, seed, hist, told>>
    BY <1>8 DEF LoseFeedback
  <2> QED BY <2>1, LoseStep
<1>9. CASE UNCHANGED allVars
  <2>1. net' \subseteq net /\ msgs' \subseteq msgs /\ UNCHANGED <<clock, proxyVars, seed, hist, told>>
    BY <1>9 DEF allVars, feedbackVars
  <2> QED BY <2>1, LoseStep
<1> QED BY <1>1, <1>2, <1>3, <1>4, <1>5, <1>6, <1>7, <1>8, <1>9 DEF Next

\* What keeps the three unwrappers right whatever is lost, late or repeated: all they
\* can still meet is within half of the numbers of the next transmission.
THEOREM FeedbackInvariant == Spec => []IInv
<1>1. FeedbackInit => IInv
  BY InitIInv
<1>2. IInv /\ [Next]_allVars => IInv'
  BY StepIInv
<1> QED BY <1>1, <1>2, PTL DEF Spec

\* NumbersAreTrue: no record of the sender's history or of the proxy is filed under
\* the number of another transmission, and what is acknowledged did arrive,
\* whatever the network loses, delays, reorders or repeats.
THEOREM NumbersCorrect == Spec => []NumbersAreTrue
<1>1. IInv => NumbersAreTrue
  <2>1. SUFFICES ASSUME IInv PROVE NumbersAreTrue
    OBVIOUS
  <2>2. loss.max \in -1 .. seed - 1
    <3>1. loss.max \in Int /\ seed \in Nat /\ -1 <= loss.max /\ loss.max < seed
      BY <2>1 DEF IInv, Recorded, Types, LossRecord
    <3> QED BY <3>1
  <2>3. \A k \in DOMAIN hist.packets : hist.packets[k].id = k
    BY <2>1 DEF IInv, Remembered
  <2>4. \A k \in DOMAIN proxy.times : k \in Seqs /\ proxy.times[k] \in arrivals[k]
    BY <2>1 DEF IInv, Recorded
  <2> QED BY <2>1, <2>2, <2>3, <2>4 DEF IInv, Acknowledged, NumbersAreTrue
<1> QED BY <1>1, FeedbackInvariant, PTL

-----------------------------------------------------------------------------
(***************************************************************************)
(* What the sender remembers is recent, because the list is in the order   *)
(* in which the packets were sent.                                         *)
(***************************************************************************)

InOrder ==
    /\ \A j \in DOMAIN hist.packets : hist.packets[j].sent <= clock
    /\ \A j, k \in DOMAIN hist.packets : j <= k => hist.packets[j].sent <= hist.packets[k].sent

LEMMA SentTimes ==
    ASSUME IInv, NEW k \in DOMAIN hist.packets
    PROVE  hist.packets[k].sent \in Nat /\ k \in Nat /\ k < seed
<1>1. PICK S \in SUBSET Nat : hist.packets \in [S -> [id : Nat, sent : Nat]]
  BY DEF IInv, Types, HistRecord, PacketLists
<1> QED BY <1>1 DEF IInv, Remembered, Sent, Types

LEMMA RecentStep ==
    ASSUME IInv, IInv', InOrder, HistoryIsRecent, [Next]_allVars
    PROVE  InOrder' /\ HistoryIsRecent'
<1> DEFINE Fewer == /\ DOMAIN hist'.packets \subseteq DOMAIN hist.packets
                    /\ \A k \in DOMAIN hist'.packets : hist'.packets[k] = hist.packets[k]
                    /\ clock' \in Nat /\ clock <= clock'
<1>0. clock \in Nat /\ seed \in Nat /\ HistoryTime \in Nat
  BY Constants DEF IInv, Types
<1>1. CASE Fewer
  <2>1. ASSUME NEW j \in DOMAIN hist'.packets PROVE hist'.packets[j].sent <= clock'
    <3>1. /\ j \in DOMAIN hist.packets /\ hist'.packets[j].sent = hist.packets[j].sent
          /\ clock' \in Nat /\ clock <= clock'
      BY <1>1
    <3>2. hist.packets[j].sent \in Nat /\ hist.packets[j].sent <= clock
      BY <3>1, SentTimes DEF InOrder
    <3> QED BY <1>0, <3>1, <3>2
  <2>2. \A j, k \in DOMAIN hist'.packets :
            j <= k => hist'.packets[j].sent <= hist'.packets[k].sent
    BY <1>1 DEF InOrder
  <2>3. HistoryIsRecent'
    BY <1>1 DEF HistoryIsRecent
  <2> QED BY <2>1, <2>2, <2>3 DEF InOrder
<1>2. CASE Send
  <2>1. /\ UNCHANGED clock
        /\ DOMAIN hist'.packets = (DOMAIN hist.packets \ Forgotten(hist)) \cup {seed}
        /\ \A k \in DOMAIN hist.packets \ Forgotten(hist) : hist'.packets[k] = hist.packets[k]
        /\ hist'.packets[seed] = [id |-> seed, sent |-> clock]
    BY <1>2, RememberIs DEF Send
  <2>2. hist'.packets[seed].sent = clock
    BY <2>1
  <2>3. ASSUME NEW k \in DOMAIN hist.packets \ Forgotten(hist)
        PROVE  /\ hist'.packets[k].sent = hist.packets[k].sent
               /\ hist.packets[k].sent \in Nat /\ k \in Nat /\ k < seed
               /\ hist.packets[k].sent <= clock /\ clock <= hist.packets[k].sent + HistoryTime
    <3>1. PICK j \in DOMAIN hist.packets : j <= k /\ ~ Old(hist, j)
      BY DEF Forgotten
    <3>2. hist.packets[j].sent \in Nat /\ hist.packets[k].sent \in Nat /\ k \in Nat /\ k < seed
      BY SentTimes
    <3>3. clock <= hist.packets[j].sent + HistoryTime
      BY <1>0, <3>1, <3>2 DEF Old
    <3>4. hist.packets[j].sent <= hist.packets[k].sent /\ hist.packets[k].sent <= clock
      BY <3>1 DEF InOrder
    <3> QED BY <1>0, <2>1, <3>2, <3>3, <3>4
  <2>4. InOrder'
    <3>1. ASSUME NEW j \in DOMAIN hist'.packets PROVE hist'.packets[j].sent <= clock
      BY <1>0, <2>1, <2>2, <2>3
    <3>2. ASSUME NEW j \in DOMAIN hist'.packets, NEW k \in DOMAIN hist'.packets, j <= k
          PROVE  hist'.packets[j].sent <= hist'.packets[k].sent
      <4>1. CASE k = seed
        BY <2>2, <3>1, <4>1
      <4>2. CASE k # seed
        <5>1. k \in DOMAIN hist.packets \ Forgotten(hist) /\ j # seed
          BY <1>0, <2>1, <2>3, <3>2, <4>2
        <5>2. j \in DOMAIN hist.packets \ Forgotten(hist)
          BY <2>1, <5>1
        <5> QED BY <2>1, <3>2, <5>1, <5>2 DEF InOrder
      <4> QED BY <4>1, <4>2
    <3> QED BY <2>1, <3>1, <3>2 DEF InOrder
  <2>5. HistoryIsRecent'
    <3>1. ASSUME NEW j \in DOMAIN hist'.packets
          PROVE  /\ hist'.packets[j].sent \in Nat /\ hist'.packets[j].sent <= clock
                 /\ clock <= hist'.packets[j].sent + HistoryTime
      BY <1>0, <2>1, <2>2, <2>3
    <3>2. ASSUME NEW j \in DOMAIN hist'.packets, NEW k \in DOMAIN hist'.packets
          PROVE  hist'.packets[j].sent - hist'.packets[k].sent <= HistoryTime
      BY <1>0, <3>1
    <3> QED BY <3>2 DEF HistoryIsRecent
  <2> QED BY <2>4, <2>5
<1>3. ASSUME NEW m \in msgs, HandleFeedback(m) PROVE Fewer
  BY <1>0, <1>3, LookIs DEF HandleFeedback
<1>4. CASE Tick /\ UNCHANGED feedbackVars
  BY <1>0, <1>1, <1>4 DEF Tick, feedbackVars
<1>5. CASE UNCHANGED <<hist, clock>>
  BY <1>0, <1>1, <1>5
<1>6. CASE SendFeedback
  BY <1>5, <1>6 DEF SendFeedback, Feedback
<1>7. CASE SilentHeartbeat /\ UNCHANGED feedbackVars
  BY <1>5, <1>7 DEF SilentHeartbeat, feedbackVars
<1>8. ASSUME NEW n \in net, Deliver(n) \/ LosePacket(n) PROVE UNCHANGED <<hist, clock>>
  BY <1>8 DEF Deliver, Arrive, LosePacket
<1>9. ASSUME NEW m \in msgs, LoseFeedback(m) PROVE UNCHANGED <<hist, clock>>
  BY <1>9 DEF LoseFeedback
<1>10. CASE UNCHANGED allVars
  BY <1>5, <1>10 DEF allVars, feedbackVars
<1> HIDE DEF Fewer
<1> QED BY <1>1, <1>2, <1>3, <1>4, <1>5, <1>6, <1>7, <1>8, <1>9, <1>10 DEF Next

\* HistoryIsRecent: sender_history_add, which only looks at the front of its list,
\* leaves no packet in it that is more than k_history_cache_ms older than another.
THEOREM HistoryCorrect == Spec => []HistoryIsRecent
<1>1. FeedbackInit => InOrder /\ HistoryIsRecent
  BY DEF FeedbackInit, InOrder, HistoryIsRecent
<1>2. IInv /\ IInv' /\ InOrder /\ HistoryIsRecent /\ [Next]_allVars => InOrder' /\ HistoryIsRecent'
  BY RecentStep
<1> QED BY <1>1, <1>2, FeedbackInvariant, PTL DEF Spec

-----------------------------------------------------------------------------
(***************************************************************************)
(* No arrival is passed over.                                              *)
(***************************************************************************)

LEMMA NoneSkippedStep ==
    ASSUME IInv, IInv', NoneSkipped, [Next]_allVars
    PROVE  NoneSkipped'
<1>0. clock \in Nat /\ BackWindow \in Nat
  BY Constants DEF IInv, Types
<1>1. CASE UNCHANGED <<clock, arrivals, reported, proxy>>
  BY <1>1 DEF NoneSkipped, Unreported, Seqs
<1>2. CASE Tick /\ UNCHANGED feedbackVars
  <2>1. UNCHANGED <<arrivals, reported, proxy>> /\ clock' = clock + 1
    BY <1>2 DEF Tick, proxyVars
  <2>2. ASSUME NEW n \in Seqs, NEW t \in arrivals[n], t + BackWindow <= clock
        PROVE  t + BackWindow <= clock'
    <3>1. t \in Nat
      BY DEF IInv, Types
    <3> QED BY <1>0, <2>1, <2>2, <3>1
  <2> QED BY <2>1, <2>2 DEF NoneSkipped, Unreported, Seqs
<1>3. CASE SilentHeartbeat /\ UNCHANGED feedbackVars
  <2>1. UNCHANGED <<clock, arrivals, reported>>
    BY <1>3 DEF SilentHeartbeat
  <2>2. proxy'.start = proxy.start /\ proxy'.times = proxy.times
    <3>1. proxy \in ProxyRecord
      BY DEF IInv, Types
    <3>2. proxy' = proxy \/ proxy' = [proxy EXCEPT !.beat = clock]
      BY <1>3 DEF SilentHeartbeat
    <3> QED BY <3>1, <3>2 DEF ProxyRecord
  <2> QED BY <2>1, <2>2 DEF NoneSkipped, Unreported, Seqs
<1>4. ASSUME NEW n \in net, Deliver(n) PROVE NoneSkipped'
  <2>1. /\ proxy' = Incoming(proxy, Carried(n), clock)
        /\ arrivals' = [arrivals EXCEPT ![n] = @ \cup {clock}]
        /\ UNCHANGED <<clock, reported>>
    BY <1>4 DEF Deliver, Arrive
  <2>2. /\ n \in Seqs /\ n \in Nat
        /\ \A k \in Seqs : arrivals'[k] = IF k = n THEN arrivals[n] \cup {clock} ELSE arrivals[k]
    BY <2>1, ReachedIsSent DEF Seqs, IInv, Types
  <2>3. /\ proxy'.start = IF proxy.start = -1 \/ n < proxy.start THEN n ELSE proxy.start
        /\ DOMAIN proxy'.times = Kept(n) \cup {n}
    BY <2>1, IncomingIs
  <2>4. proxy.start \in Int
    BY DEF IInv, Types, ProxyRecord
  <2>5. ASSUME NEW k \in Seqs, arrivals'[k] # {}
        PROVE  \/ k \in reported' \/ k \in Unreported(proxy')
               \/ \E t \in arrivals'[k] : t + BackWindow <= clock'
    <3>1. CASE k = n
      BY <2>2, <2>3, <2>4, <3>1 DEF Unreported
    <3>2. CASE k # n /\ k \in Unreported(proxy)
      <4>1. k \in DOMAIN proxy.times /\ k >= proxy.start /\ k \in Int
        BY <3>2 DEF Unreported, Seqs
      <4>2. CASE k \in Kept(n)
        <5>1. proxy.start # -1
          BY <4>1 DEF IInv, Recorded
        <5>2. k >= proxy'.start
          BY <2>2, <2>3, <2>4, <4>1, <5>1
        <5> QED BY <2>3, <4>2, <5>2 DEF Unreported
      <4>3. CASE k \notin Kept(n)
        <5>1. clock >= proxy.times[k] + BackWindow
          BY <4>1, <4>3 DEF Kept, Expired, Least
        <5>2. proxy.times[k] \in arrivals[k] /\ proxy.times[k] \in Nat
          BY <4>1 DEF IInv, Recorded, Types
        <5>3. proxy.times[k] \in arrivals'[k] /\ proxy.times[k] + BackWindow <= clock'
          BY <1>0, <2>1, <2>2, <3>2, <5>1, <5>2
        <5> QED BY <5>3
      <4> QED BY <4>2, <4>3
    <3>3. CASE k # n /\ k \notin Unreported(proxy)
      BY <2>1, <2>2, <2>5, <3>3 DEF NoneSkipped
    <3> QED BY <3>1, <3>2, <3>3
  <2> QED BY <2>5 DEF NoneSkipped, Seqs, Unreported
<1>5. CASE SendFeedback
  <2>1. /\ Reportable(proxy) /\ proxy' = [Report(proxy) EXCEPT !.beat = clock]
        /\ reported' = reported \cup Sampled(proxy) /\ UNCHANGED <<clock, arrivals>>
    BY <1>5 DEF SendFeedback, Feedback
  <2>2. /\ proxy' \in ProxyRecord /\ proxy'.times = proxy.times
        /\ proxy'.start - 1 \in Sampled(proxy)
    BY <2>1, ReportIs
  <2>3. ASSUME NEW k \in Unreported(proxy) PROVE k \in reported' \/ k \in Unreported(proxy')
    <3>1. k \in Seqs /\ k \in DOMAIN proxy.times
      BY DEF Unreported, IInv, Recorded
    <3>2. CASE k \in Sampled(proxy)
      BY <2>1, <3>2
    <3>3. CASE k \notin Sampled(proxy)
      <4>1. Unreported(proxy) \subseteq 0 .. MaxSeq
        BY Constants DEF Unreported, IInv, Recorded, Seqs
      <4>2. proxy'.start - 1 < k
        BY <2>2, <3>3, <4>1, LeastBounds, Constants DEF Sampled
      <4>3. k >= proxy'.start
        BY <2>2, <3>1, <4>2 DEF ProxyRecord, Seqs
      <4> QED BY <2>2, <3>1, <4>3 DEF Unreported
    <3> QED BY <3>2, <3>3
  <2> QED BY <2>1, <2>3 DEF NoneSkipped, Seqs, Unreported
<1>6. ASSUME NEW n \in net, LosePacket(n) PROVE UNCHANGED <<clock, arrivals, reported, proxy>>
  BY <1>6 DEF LosePacket, proxyVars
<1>7. ASSUME NEW m \in msgs, HandleFeedback(m) \/ LoseFeedback(m)
      PROVE  UNCHANGED <<clock, arrivals, reported, proxy>>
  BY <1>7 DEF HandleFeedback, LoseFeedback, proxyVars
<1>8. CASE Send \/ UNCHANGED allVars
  BY <1>1, <1>8 DEF Send, allVars, proxyVars
<1> QED BY <1>1, <1>2, <1>3, <1>4, <1>5, <1>6, <1>7, <1>8 DEF Next

\* NoneSkipped: whatever the window of estimator_proxy_t did, a packet that arrived
\* has been put in a message, is still to be put in one, or its record was old
\* enough to be thrown away.
THEOREM ArrivalsCorrect == Spec => []NoneSkipped
<1>1. FeedbackInit => NoneSkipped
  BY DEF FeedbackInit, ProxyInit, NoneSkipped
<1>2. IInv /\ IInv' /\ NoneSkipped /\ [Next]_allVars => NoneSkipped'
  BY NoneSkippedStep
<1> QED BY <1>1, <1>2, FeedbackInvariant, PTL DEF Spec

-----------------------------------------------------------------------------
(***************************************************************************)
(* What cc_loss_stat.c counts.                                             *)
(***************************************************************************)

Period  == loss.prev + 1 .. loss.max
Arrived == {n \in Period : arrivals[n] # {}}

\* Every packet of the period that arrived has been counted.
Counted ==
    /\ -1 <= loss.prev /\ loss.prev <= loss.max
    /\ \A n \in Seqs : arrivals[n] # {} => n <= loss.max
    /\ Cardinality(Arrived) <= loss.count

LEMMA ArrivedFinite ==
    ASSUME IInv, Counted
    PROVE  /\ loss.prev \in Int /\ loss.max \in Int /\ loss.count \in Nat
           /\ Period \subseteq 0 .. loss.max /\ Arrived \subseteq 0 .. loss.max
           /\ IsFiniteSet(Arrived) /\ Cardinality(Arrived) \in Nat
<1>1. loss.prev \in Int /\ loss.max \in Int /\ loss.count \in Nat
  BY DEF IInv, Types, LossRecord
<1>2. Period \subseteq 0 .. loss.max /\ Arrived \subseteq 0 .. loss.max
  BY <1>1 DEF Counted, Period, Arrived
<1> QED BY <1>1, <1>2, BoundedFinite

LEMMA CountedStep ==
    ASSUME IInv, IInv', Counted, [Next]_allVars
    PROVE  Counted'
<1>0. loss \in LossRecord /\ clock \in Nat
  BY DEF IInv, Types
<1>1. CASE UNCHANGED <<loss, arrivals>>
  BY <1>1 DEF Counted, Arrived, Period, Seqs
<1>2. CASE LossHeartbeat /\ UNCHANGED arrivals
  <2>1. CASE loss' = loss
    BY <1>1, <1>2, <2>1
  <2>2. CASE loss' = LossReset(loss, clock)
    <3>1. loss'.prev = loss.max /\ loss'.max = loss.max /\ loss'.count = 0
      BY <1>0, <2>2 DEF LossReset, LossRecord
    <3>2. Arrived' = {}
      BY <1>0, <3>1 DEF Arrived, Period, LossRecord
    <3>3. Cardinality(Arrived') = 0
      BY <3>2, FS_EmptySet
    <3>4. -1 <= loss'.prev /\ loss'.prev <= loss'.max
      BY <1>0, <3>1 DEF Counted, LossRecord
    <3>5. \A n \in Seqs : arrivals'[n] # {} => n <= loss'.max
      BY <1>2, <3>1 DEF Counted
    <3>6. Cardinality(Arrived)' <= loss'.count
      BY <3>1, <3>3
    <3> QED BY <3>4, <3>5, <3>6 DEF Counted, Seqs
  <2> QED BY <1>2, <2>1, <2>2 DEF LossHeartbeat
<1>3. ASSUME NEW n \in net, Deliver(n) PROVE Counted'
  <2>1. /\ loss' = LossIncoming(loss, Carried(n))
        /\ arrivals' = [arrivals EXCEPT ![n] = @ \cup {clock}]
    BY <1>3 DEF Deliver, Arrive
  <2>2. /\ loss' \in LossRecord /\ loss'.count = loss.count + 1
        /\ loss'.max = IF loss.max < n THEN n ELSE loss.max
        /\ loss'.prev = IF loss.prev = -1 /\ n > 0 THEN n - 1 ELSE loss.prev
    BY <2>1, LossIncomingIs
  <2>3. /\ n \in Seqs /\ n \in Nat
        /\ \A k \in Seqs : arrivals'[k] = IF k = n THEN arrivals[n] \cup {clock} ELSE arrivals[k]
        /\ DOMAIN arrivals' = Seqs
    BY <2>1, ReachedIsSent DEF Seqs, IInv, Types
  <2>4. loss.prev \in Int /\ loss.max \in Int /\ loss.count \in Nat
    BY <1>0 DEF LossRecord
  <2>5. -1 <= loss'.prev /\ loss'.prev <= loss'.max
    BY <2>2, <2>3, <2>4 DEF Counted
  <2>6. \A k \in Seqs : arrivals'[k] # {} => k <= loss'.max
    <3>1. ASSUME NEW k \in Seqs, arrivals'[k] # {} PROVE k <= loss'.max
      <4>1. k \in Int /\ (k = n \/ k <= loss.max)
        BY <2>3, <3>1 DEF Counted, Seqs
      <4> QED BY <2>2, <2>3, <2>4, <4>1
    <3> QED BY <3>1
  <2>7. Arrived' \subseteq Arrived \cup {n}
    <3>1. ASSUME NEW k \in Arrived', k # n PROVE k \in Arrived
      <4>1. k \in Int /\ loss'.prev < k /\ k <= loss'.max /\ arrivals'[k] # {}
        BY <2>2 DEF Arrived, Period, LossRecord
      <4>2. k \in Seqs
        <5>1. loss'.max < seed' /\ seed' <= MaxSeq /\ seed' \in Int /\ loss'.max \in Int
          BY <2>2 DEF IInv, Recorded, Types, LossRecord
        <5> QED BY <2>5, <2>2, <4>1, <5>1, Constants DEF Seqs, LossRecord
      <4>3. arrivals[k] # {}
        BY <2>3, <3>1, <4>1, <4>2
      <4>4. k <= loss.max
        BY <4>2, <4>3 DEF Counted
      <4>5. loss.prev < k
        BY <2>2, <2>3, <2>4, <2>5, <4>1 DEF Counted
      <4> QED BY <2>4, <4>1, <4>3, <4>4, <4>5 DEF Arrived, Period
    <3> QED BY <3>1
  <2>8. Cardinality(Arrived)' <= loss'.count
    <3> DEFINE A == Arrived
               B == Arrived'
               c == Cardinality(Arrived)
    <3>0. IsFiniteSet(A) /\ c \in Nat /\ Cardinality(A) = c /\ c <= loss.count
      BY ArrivedFinite DEF Counted
    <3> HIDE DEF A, B, c
    <3>1. IsFiniteSet(A \cup {n}) /\ Cardinality(A \cup {n}) <= c + 1 /\ Cardinality(A \cup {n}) \in Nat
      <4>1. CASE n \in A
        <5>1. A \cup {n} = A
          BY <4>1
        <5> QED BY <3>0, <5>1
      <4>2. CASE n \notin A
        BY <3>0, <4>2, FS_AddElement
      <4> QED BY <4>1, <4>2
    <3>2. Cardinality(B) <= Cardinality(A \cup {n}) /\ Cardinality(B) \in Nat
      <4>1. B \subseteq A \cup {n}
        BY <2>7 DEF A, B
      <4>2. IsFiniteSet(B) /\ Cardinality(B) <= Cardinality(A \cup {n})
        BY <3>1, <4>1, FS_Subset
      <4> QED BY <4>2, FS_CardinalityType
    <3>3. Cardinality(B) <= loss'.count
      BY <2>2, <2>4, <3>0, <3>1, <3>2
    <3> QED BY <3>3 DEF B
  <2> QED BY <2>5, <2>6, <2>8 DEF Counted, Seqs
<1>4. CASE SendFeedback
  BY <1>2, <1>4 DEF SendFeedback, Feedback
<1>5. CASE SilentHeartbeat /\ UNCHANGED feedbackVars
  BY <1>2, <1>5 DEF SilentHeartbeat
<1>6. CASE Tick /\ UNCHANGED feedbackVars
  BY <1>1, <1>6 DEF Tick, proxyVars
<1>7. ASSUME NEW n \in net, LosePacket(n) PROVE UNCHANGED <<loss, arrivals>>
  BY <1>7 DEF LosePacket, proxyVars
<1>8. ASSUME NEW m \in msgs, HandleFeedback(m) \/ LoseFeedback(m) PROVE UNCHANGED <<loss, arrivals>>
  BY <1>8 DEF HandleFeedback, LoseFeedback, proxyVars
<1>9. CASE Send \/ UNCHANGED allVars
  BY <1>1, <1>9 DEF Send, allVars, proxyVars
<1> QED BY <1>1, <1>3, <1>4, <1>5, <1>6, <1>7, <1>8, <1>9 DEF Next

\* What is called lost is at most what is missing.
LEMMA LostIsMissing ==
    ASSUME IInv, Counted
    PROVE  Lost(loss) <= Cardinality({n \in Period : arrivals[n] = {}})
<1> DEFINE M == {n \in Period : arrivals[n] = {}}
           A == Arrived
<1>1. /\ loss.prev \in Int /\ loss.max \in Int /\ loss.count \in Nat
      /\ Period \subseteq 0 .. loss.max
      /\ IsFiniteSet(A) /\ Cardinality(A) \in Nat /\ Cardinality(A) <= loss.count
  BY ArrivedFinite DEF Counted
<1>2. IsFiniteSet(M) /\ Cardinality(M) \in Nat
  <2>1. M \subseteq 0 .. loss.max
    BY <1>1
  <2> HIDE DEF M
  <2> QED BY <1>1, <2>1, BoundedFinite
<1>3. Cardinality(Period) = loss.max - loss.prev
  <2> DEFINE a == loss.prev + 1
             b == loss.max
  <2>1. a \in Int /\ b \in Int /\ ~ (a > b + 1) /\ b - a + 1 = loss.max - loss.prev
    BY <1>1 DEF Counted
  <2>2. Period = a .. b
    BY DEF Period
  <2> HIDE DEF a, b
  <2>3. Cardinality(a .. b) = IF a > b THEN 0 ELSE b - a + 1
    BY <2>1, FS_Interval
  <2>4. Cardinality(a .. b) = b - a + 1
    BY <2>1, <2>3
  <2> QED BY <2>1, <2>2, <2>4
<1>4. M \cup A = Period /\ M \cap A = {}
  BY DEF Arrived
<1> HIDE DEF M, A
<1>5. Cardinality(Period) = Cardinality(M) + Cardinality(A)
  <2>1. Cardinality(M \cap A) = 0
    BY <1>4, FS_EmptySet
  <2>2. Cardinality(M \cup A) = Cardinality(M) + Cardinality(A) - Cardinality(M \cap A)
    BY <1>1, <1>2, FS_Union
  <2>3. Cardinality(M \cup A) = Cardinality(Period)
    BY <1>4, Zenon
  <2> QED BY <1>1, <1>2, <2>1, <2>2, <2>3
<1>6. Lost(loss) <= Cardinality(M)
  BY <1>1, <1>2, <1>3, <1>5 DEF Lost, Covered
<1> QED BY <1>6 DEF M

\* LossNotOverstated: loss_statistics_calculate counts late and repeated arrivals
\* against numbers, and never reports more losses than packets are missing.
THEOREM LossCorrect == Spec => LossNotOverstated
<1>1. FeedbackInit => Counted
  <2>1. SUFFICES ASSUME FeedbackInit PROVE Counted
    OBVIOUS
  <2>2. Arrived = {}
    BY <2>1 DEF FeedbackInit, ProxyInit, FreshLoss, Arrived, Period
  <2>3. Cardinality(Arrived) = 0
    BY <2>2, FS_EmptySet
  <2> QED BY <2>1, <2>3 DEF FeedbackInit, ProxyInit, FreshLoss, Counted
<1>2. IInv /\ IInv' /\ Counted /\ [Next]_allVars => Counted'
  BY CountedStep
<1>3. IInv /\ Counted => (loss'.at # loss.at =>
          Lost(loss) <= Cardinality({n \in loss.prev + 1 .. loss.max : arrivals[n] = {}}))
  BY LostIsMissing DEF Period
<1> QED BY <1>1, <1>2, <1>3, FeedbackInvariant, PTL DEF Spec, LossNotOverstated

-----------------------------------------------------------------------------
(***************************************************************************)
(* The feedback loop implements PacketReports.                             *)
(***************************************************************************)

\* What is still in the history, or not sent yet, has not been told of.
Untold ==
    /\ told \in [Seqs -> Seq(0 .. MaxClock)]
    /\ \A n \in Seqs : n \in DOMAIN hist.packets \/ n >= seed => told[n] = <<>>

\* Every sample in flight has the time at which the transmission it is of arrived.
Truthful == \A m \in msgs : \A i \in 1 .. Len(m.samples) :
    \E k \in Seqs : Means(m, i, k) /\ m.samples[i].ts \in arrivals[k]

LEMMA TruthMeant ==
    ASSUME IInv, Truthful, NEW m \in msgs, NEW i \in 1 .. Len(m.samples),
           NEW n, Means(m, i, n)
    PROVE  m.samples[i].ts \in arrivals[n]
<1>1. PICK k \in Seqs : Means(m, i, k) /\ m.samples[i].ts \in arrivals[k]
  BY DEF Truthful
<1>2. /\ k \in Nat /\ n \in Nat /\ m.base \in Int /\ seed \in Nat
      /\ m.base <= k /\ k < seed /\ m.base <= n /\ n < seed
      /\ seed - m.base <= Half
  <2>1. k \in Seqs /\ n \in Seqs /\ m.base <= k /\ m.base <= n
    BY <1>1 DEF Means
  <2>2. k < seed /\ n < seed
    BY <1>1, <2>1 DEF Means, IInv, Recorded
  <2>3. m.base \in Int /\ seed \in Nat
    BY DEF IInv, Types, MsgRecord
  <2>4. seed - m.base <= Half
    BY InView1 DEF IInv, InRange
  <2> QED BY <2>1, <2>2, <2>3, <2>4 DEF Seqs
<1>3. n - k < Half /\ k - n < Half
  BY <1>2, Constants
<1>4. Carried(n) = Carried(k)
  BY <1>1 DEF Means
<1>5. Wrap(k, Carried(n)) = n /\ Wrap(k, Carried(k)) = k
  BY <1>2, <1>3, Constants, WrapIsExact
<1> QED BY <1>1, <1>4, <1>5

LEMMA TruthfulKept ==
    ASSUME Truthful, Grows, msgs' \subseteq msgs
    PROVE  Truthful'
<1>1. ASSUME NEW m \in msgs', NEW i \in 1 .. Len(m.samples)
      PROVE  \E k \in Seqs : Means(m, i, k)' /\ m.samples[i].ts \in arrivals'[k]
  <2>1. PICK k \in Seqs : Means(m, i, k) /\ m.samples[i].ts \in arrivals[k]
    BY <1>1 DEF Truthful
  <2>2. Means(m, i, k)' /\ m.samples[i].ts \in arrivals'[k]
    BY <2>1 DEF Means, Grows, Seqs
  <2> QED BY <2>2
<1> QED BY <1>1 DEF Truthful, Means, Seqs

\* A message is put together from the records of the proxy.
LEMMA TruthfulSend ==
    ASSUME IInv, SpansFit, Truthful, SendFeedback
    PROVE  Truthful'
<1>1. Due /\ Reportable(proxy) /\ UNCHANGED arrivals
  BY DEF SendFeedback, Feedback
<1>2. Spanned
  BY <1>1 DEF SpansFit
<1>3. PICK order \in Ordered(Sampled(proxy)) :
          msgs' = msgs \cup {[base |-> proxy.start,
                              samples |-> [i \in DOMAIN order |-> Sample(proxy, order[i])]]}
  BY DEF SendFeedback
<1> DEFINE n == Cardinality(Sampled(proxy))
           samples == [i \in 1 .. n |-> Sample(proxy, order[i])]
<1>4. PICK m : m = [base |-> proxy.start, samples |-> samples]
  OBVIOUS
<1>5. /\ n \in Nat /\ DOMAIN order = 1 .. n
      /\ \A i \in 1 .. n : order[i] \in Sampled(proxy)
  BY SampledIs DEF Ordered
<1>6. msgs' = msgs \cup {m} /\ m.base = proxy.start /\ m.samples = samples
  BY <1>3, <1>4, <1>5
<1>7. Len(samples) = n /\ \A i \in 1 .. n : samples[i] = Sample(proxy, order[i])
  <2> HIDE DEF n
  <2> QED BY <1>5
<1> HIDE DEF samples, n
<1>8. ASSUME NEW i \in 1 .. n
      PROVE  \E k \in Seqs : Means(m, i, k)' /\ m.samples[i].ts \in arrivals'[k]
  <2>1. order[i] \in Sampled(proxy)
    BY <1>5, <1>8
  <2>2. /\ order[i] \in Seqs /\ proxy.start <= order[i]
        /\ proxy.times[order[i]] \in arrivals[order[i]]
    BY <2>1, SampledIs DEF IInv, Recorded
  <2>3. m.samples[i].seq = Carried(order[i]) /\ m.samples[i].ts = proxy.times[order[i]]
    BY <1>2, <1>6, <1>7, <1>8, <2>1, SampleIs
  <2> QED BY <1>1, <1>6, <2>2, <2>3 DEF Means, Seqs
<1>9. ASSUME NEW o \in msgs, NEW i \in 1 .. Len(o.samples)
      PROVE  \E k \in Seqs : Means(o, i, k)' /\ o.samples[i].ts \in arrivals'[k]
  <2>1. PICK k \in Seqs : Means(o, i, k) /\ o.samples[i].ts \in arrivals[k]
    BY <1>9 DEF Truthful
  <2>2. Means(o, i, k)'
    BY <1>1, <2>1 DEF Means, Seqs
  <2> QED BY <1>1, <2>1, <2>2
<1>10. ASSUME NEW o \in msgs', NEW i \in 1 .. Len(o.samples)
       PROVE  \E k \in Seqs : Means(o, i, k)' /\ o.samples[i].ts \in arrivals'[k]
  <2>1. CASE o \in msgs
    BY <1>9, <1>10, <2>1
  <2>2. CASE o = m
    BY <1>6, <1>7, <1>8, <1>10, <2>2
  <2> QED BY <1>6, <1>10, <2>1, <2>2
<1> QED BY <1>10 DEF Truthful, Means, Seqs

LEMMA TruthfulStep ==
    ASSUME IInv, SpansFit, Truthful, [Next]_allVars
    PROVE  Truthful'
<1>1. CASE UNCHANGED <<arrivals, msgs>>
  BY <1>1, TruthfulKept DEF Grows
<1>2. CASE SendFeedback
  BY <1>2, TruthfulSend
<1>3. CASE Send \/ (SilentHeartbeat /\ UNCHANGED feedbackVars) \/ (Tick /\ UNCHANGED feedbackVars)
  BY <1>1, <1>3 DEF Send, SilentHeartbeat, Tick, feedbackVars, proxyVars
<1>4. ASSUME NEW n \in net, Deliver(n) PROVE Truthful'
  <2>1. arrivals' = [arrivals EXCEPT ![n] = @ \cup {clock}] /\ UNCHANGED msgs
    BY <1>4 DEF Deliver, Arrive
  <2>2. Grows
    BY <2>1 DEF Grows, IInv, Types
  <2> QED BY <2>1, <2>2, TruthfulKept
<1>5. ASSUME NEW n \in net, LosePacket(n) PROVE UNCHANGED <<arrivals, msgs>>
  BY <1>5 DEF LosePacket, proxyVars
<1>6. ASSUME NEW m \in msgs, HandleFeedback(m) \/ LoseFeedback(m) PROVE Truthful'
  <2>1. UNCHANGED arrivals /\ msgs' \subseteq msgs
    BY <1>6 DEF HandleFeedback, LoseFeedback, proxyVars
  <2> QED BY <2>1, TruthfulKept DEF Grows
<1>7. CASE UNCHANGED allVars
  BY <1>1, <1>7 DEF allVars, feedbackVars, proxyVars
<1> QED BY <1>1, <1>2, <1>3, <1>4, <1>5, <1>6, <1>7 DEF Next

\* What the handler of a message says of transmission n.
LEMMA ReportedIs ==
    ASSUME IInv, Truthful, Untold, NEW m \in msgs, NEW n \in Seqs,
           NEW numbers, numbers = Unwrapped(hist, m.samples),
           NEW r, r = Reported(hist, numbers, m.samples, n)
    PROVE  \/ /\ r = <<>>
              /\ n \in DOMAIN hist.packets => n \notin Range(numbers)
           \/ /\ n \in DOMAIN hist.packets /\ n \in Range(numbers)
              /\ \E t \in arrivals[n] : r = <<t>>
<1> DEFINE of == {i \in Hits(hist, numbers) : hist.packets[numbers[i]].id = n}
<1>1. r = IF of = {} THEN <<>> ELSE <<m.samples[CHOOSE i \in of : TRUE].ts>>
  BY DEF Reported
<1>2. \A i \in DOMAIN numbers : Means(m, i, numbers[i]) /\ i \in 1 .. Len(m.samples)
  BY NumbersMeant
<1>3. ASSUME NEW i \in of PROVE /\ i \in DOMAIN numbers /\ numbers[i] = n
                                /\ n \in DOMAIN hist.packets
  BY DEF Hits, IInv, Remembered
<1>4. ASSUME NEW i \in DOMAIN numbers, numbers[i] = n, n \in DOMAIN hist.packets PROVE i \in of
  BY <1>4 DEF Hits, IInv, Remembered
<1> HIDE DEF of
<1>5. CASE of = {}
  BY <1>1, <1>4, <1>5 DEF Range
<1>6. CASE of # {}
  <2>1. PICK i \in of : i = CHOOSE j \in of : TRUE
    BY <1>6
  <2>2. r = <<m.samples[i].ts>>
    BY <1>1, <1>6, <2>1
  <2>3. Means(m, i, n) /\ i \in 1 .. Len(m.samples)
    BY <1>2, <1>3
  <2>4. m.samples[i].ts \in arrivals[n]
    BY <2>3, TruthMeant
  <2> QED BY <1>3, <2>2, <2>4 DEF Range
<1> QED BY <1>5, <1>6

\* The effect of a message on what has been told.
LEMMA ToldIs ==
    ASSUME IInv, Truthful, Untold, NEW m \in msgs, HandleFeedback(m)
    PROVE  /\ told' \in [Seqs -> Seq(0 .. MaxClock)]
           /\ \A n \in Seqs : told'[n] # told[n] =>
                  /\ told[n] = <<>> /\ \E t \in arrivals[n] : told'[n] = <<t>>
           /\ \A n \in Seqs : n \in DOMAIN hist'.packets \/ n >= seed => told'[n] = <<>>
<1> DEFINE numbers == Unwrapped(hist, m.samples)
           said(n) == Reported(hist, numbers, m.samples, n)
<1>1. told' = [n \in Seqs |-> told[n] \o said(n)] /\ hist' = Look(hist, m.samples)
  BY DEF HandleFeedback
<1>2. DOMAIN hist'.packets = DOMAIN hist.packets \ Range(numbers)
  BY <1>1, LookIs
<1>3. ASSUME NEW n \in Seqs
      PROVE  \/ /\ said(n) = <<>>
                /\ n \in DOMAIN hist.packets => n \notin Range(numbers)
             \/ /\ n \in DOMAIN hist.packets /\ n \in Range(numbers)
                /\ \E t \in arrivals[n] : said(n) = <<t>>
  BY ReportedIs
<1>4. \A n \in Seqs : told'[n] = told[n] \o said(n)
  BY <1>1
<1> HIDE DEF numbers, said
<1>5. ASSUME NEW n \in Seqs
      PROVE  /\ told'[n] \in Seq(0 .. MaxClock)
             /\ told'[n] # told[n] =>
                  told[n] = <<>> /\ \E t \in arrivals[n] : told'[n] = <<t>>
             /\ n \in DOMAIN hist'.packets \/ n >= seed => told'[n] = <<>>
  <2>1. told[n] \in Seq(0 .. MaxClock)
    BY DEF Untold
  <2>2. CASE said(n) = <<>> /\ (n \in DOMAIN hist.packets => n \notin Range(numbers))
    <3>1. told'[n] = told[n]
      BY <1>4, <2>1, <2>2, ConcatEmptySeq
    <3> QED BY <1>2, <2>1, <2>2, <3>1 DEF Untold
  <2>3. CASE /\ n \in DOMAIN hist.packets /\ n \in Range(numbers)
             /\ \E t \in arrivals[n] : said(n) = <<t>>
    <3>1. PICK t \in arrivals[n] : said(n) = <<t>>
      BY <2>3
    <3>2. told[n] = <<>>
      BY <2>3 DEF Untold
    <3>3. t \in 0 .. MaxClock
      <4>1. t \in 0 .. clock /\ clock <= MaxClock /\ clock \in Nat
        BY DEF IInv, Types
      <4> QED BY <4>1, Constants
    <3>4. told'[n] = <<t>>
      <4>1. <<t>> \in Seq(0 .. MaxClock)
        BY <3>3
      <4>2. <<>> \o <<t>> = <<t>>
        BY <4>1, ConcatEmptySeq
      <4> QED BY <1>4, <3>1, <3>2, <4>2
    <3>5. n \notin DOMAIN hist'.packets /\ ~ (n >= seed)
      <4>1. n \in Int /\ n < seed /\ seed \in Int
        BY <2>3, SentTimes DEF IInv, Types
      <4> QED BY <1>2, <2>3, <4>1
    <3>6. told'[n] \in Seq(0 .. MaxClock)
      BY <3>3, <3>4
    <3> QED BY <3>2, <3>4, <3>5, <3>6
  <2> QED BY <1>3, <2>2, <2>3
<1>6. told' \in [Seqs -> Seq(0 .. MaxClock)]
  BY <1>1, <1>4, <1>5
<1> QED BY <1>5, <1>6

LEMMA UntoldStep ==
    ASSUME IInv, IInv', Truthful, Untold, [Next]_allVars
    PROVE  Untold'
<1>0. seed \in Nat
  BY DEF IInv, Types
<1>1. CASE UNCHANGED <<told, seed, hist>>
  BY <1>1 DEF Untold, Seqs
<1>2. CASE Send
  <2>1. /\ UNCHANGED told /\ seed' = seed + 1
        /\ DOMAIN hist'.packets \subseteq DOMAIN hist.packets \cup {seed}
    BY <1>2, RememberIs DEF Send
  <2>2. ASSUME NEW n \in Seqs, n \in DOMAIN hist'.packets \/ n >= seed'
        PROVE  n \in DOMAIN hist.packets \/ n >= seed
    BY <1>0, <2>1, <2>2 DEF Seqs
  <2> QED BY <2>1, <2>2 DEF Untold, Seqs
<1>3. ASSUME NEW m \in msgs, HandleFeedback(m) PROVE Untold'
  <2>1. seed' = seed
    BY <1>3 DEF HandleFeedback
  <2> QED BY <1>3, <2>1, ToldIs DEF Untold, Seqs
<1>4. CASE SendFeedback \/ (SilentHeartbeat /\ UNCHANGED feedbackVars) \/ (Tick /\ UNCHANGED feedbackVars)
  BY <1>1, <1>4 DEF SendFeedback, feedbackVars
<1>5. ASSUME NEW n \in net, Deliver(n) \/ LosePacket(n) PROVE UNCHANGED <<told, seed, hist>>
  BY <1>5 DEF Deliver, LosePacket
<1>6. ASSUME NEW m \in msgs, LoseFeedback(m) PROVE UNCHANGED <<told, seed, hist>>
  BY <1>6 DEF LoseFeedback
<1>7. CASE UNCHANGED allVars
  BY <1>1, <1>7 DEF allVars, feedbackVars
<1> QED BY <1>1, <1>2, <1>3, <1>4, <1>5, <1>6, <1>7 DEF Next

\* Every step of the loop is one of PacketReports, or does not change what it sees.
LEMMA ReportsStep ==
    ASSUME IInv, Truthful, Untold, [Next]_allVars
    PROVE  [Reports!Transmit \/ Reports!See \/ Reports!Tell]_<<0 .. seed - 1, arrivals, told>>
<1>0. seed \in Nat
  BY DEF IInv, Types
<1>1. CASE UNCHANGED <<seed, arrivals, told>>
  BY <1>1
<1>2. CASE Send
  <2>1. seed < MaxSeq /\ seed' = seed + 1 /\ UNCHANGED <<arrivals, told>>
    BY <1>2 DEF Send, proxyVars
  <2>2. seed \in Seqs \ (0 .. seed - 1) /\ (0 .. seed - 1)' = 0 .. seed - 1 \cup {seed}
    BY <1>0, <2>1, Constants DEF Seqs
  <2>3. Reports!Transmit
    BY <2>1, <2>2 DEF Reports!Transmit
  <2> QED BY <2>3
<1>3. ASSUME NEW n \in net, Deliver(n) PROVE Reports!See
  <2>1. /\ arrivals' = [arrivals EXCEPT ![n] = @ \cup {clock}]
        /\ UNCHANGED <<seed, told>>
    BY <1>3 DEF Deliver, Arrive
  <2>2. n \in 0 .. seed - 1 /\ clock \in 0 .. MaxClock
    BY Constants DEF IInv, Types, Sent
  <2> QED BY <2>1, <2>2 DEF Reports!See
<1>4. ASSUME NEW m \in msgs, HandleFeedback(m) PROVE Reports!Tell
  <2>1. UNCHANGED <<seed, arrivals>>
    BY <1>4 DEF HandleFeedback, proxyVars
  <2> QED BY <1>4, <2>1, ToldIs DEF Reports!Tell
<1>5. CASE SendFeedback \/ (SilentHeartbeat /\ UNCHANGED feedbackVars) \/ (Tick /\ UNCHANGED feedbackVars)
  BY <1>1, <1>5 DEF SendFeedback, Feedback, SilentHeartbeat, Tick, feedbackVars, proxyVars
<1>6. ASSUME NEW n \in net, LosePacket(n) PROVE UNCHANGED <<seed, arrivals, told>>
  BY <1>6 DEF LosePacket, proxyVars
<1>7. ASSUME NEW m \in msgs, LoseFeedback(m) PROVE UNCHANGED <<seed, arrivals, told>>
  BY <1>7 DEF LoseFeedback, proxyVars
<1>8. CASE UNCHANGED allVars
  BY <1>1, <1>8 DEF allVars, feedbackVars, proxyVars
<1> QED BY <1>1, <1>2, <1>3, <1>4, <1>5, <1>6, <1>7, <1>8 DEF Next

\* ImplementsReports: as long as no message spans more time than a sample can carry,
\* the congestion controller is told of a transmission at most once, only if it
\* arrived, and with a time at which it did.
THEOREM ReportsCorrect == Spec /\ []SpansFit => ImplementsReports
<1>1. FeedbackInit => Truthful /\ Untold /\ Reports!Init
  BY Constants DEF FeedbackInit, ProxyInit, Truthful, Untold, Reports!Init
<1>2. IInv /\ IInv' /\ Truthful /\ Untold /\ [Next]_allVars => Untold'
  BY UntoldStep
<1>3. IInv /\ Truthful /\ SpansFit /\ [Next]_allVars => Truthful'
  BY TruthfulStep
<1>4. IInv /\ Truthful /\ Untold /\ [Next]_allVars =>
          [Reports!Transmit \/ Reports!See \/ Reports!Tell]_<<0 .. seed - 1, arrivals, told>>
  BY ReportsStep
<1> QED BY <1>1, <1>2, <1>3, <1>4, FeedbackInvariant, PTL DEF Spec, ImplementsReports, Reports!Spec
=============================================================================
