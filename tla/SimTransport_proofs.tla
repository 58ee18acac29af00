------------------------ MODULE SimTransport_proofs -------------------------
(***************************************************************************)
(* Safety of the media path, of the receiver alone and of sender and       *)
(* receiver over the network, for any video, ring, limits and faults.      *)
(***************************************************************************)
EXTENDS SimTransport, FiniteSetTheorems, NumberFacts

(***************************************************************************)
(* The numbers of frames and packets.                                      *)
(***************************************************************************)

\* Congruent numbers are equal or a ring apart.
LEMMA Congruent ==
    ASSUME NEW n \in Nat \ {0}, NEW a \in Nat, NEW b \in Nat, a < b, a % n = b % n
    PROVE  a + n <= b
<1> DEFINE q == a \div n
           r == b \div n
<1>1. /\ q \in Nat /\ r \in Nat
      /\ a = n * q + (a % n) /\ b = n * r + (b % n)
      /\ a % n \in 0 .. n - 1 /\ b % n \in 0 .. n - 1
  OBVIOUS
<1> HIDE DEF q, r
<1>2. CASE r <= q
  <2>1. n * r <= n * q
    BY <1>1, <1>2
  <2> QED BY <1>1, <2>1
<1>3. CASE q + 1 <= r
  <2>1. n * q + n <= n * r
    BY <1>1, <1>3
  <2> QED BY <1>1, <2>1
<1> QED BY <1>1, <1>2, <1>3

\* A number and the one a ring behind it share their slot.
LEMMA RingBehind ==
    ASSUME NEW n \in Nat \ {0}, NEW a \in Nat
    PROVE  (a + n) % n = a % n
<1> DEFINE b == a + n
           q == a \div n
           r == b \div n
<1>1. /\ q \in Nat /\ r \in Nat /\ b \in Nat
      /\ a = n * q + (a % n) /\ b = n * r + (b % n)
      /\ a % n \in 0 .. n - 1 /\ b % n \in 0 .. n - 1
  OBVIOUS
<1>2. b = a + n
  OBVIOUS
<1> HIDE DEF q, r, b
<1>3. CASE r <= q
  <2>1. n * r <= n * q
    BY <1>1, <1>3
  <2> QED BY <1>1, <1>2, <2>1
<1>4. CASE r = q + 1
  <2>1. n * r = n * q + n
    BY <1>1, <1>4
  <2>2. b % n = a % n
    BY <1>1, <1>2, <2>1
  <2> QED BY <2>2 DEF b
<1>5. CASE q + 2 <= r
  <2>1. n * q + n + n <= n * r
    BY <1>1, <1>5
  <2> QED BY <1>1, <1>2, <2>1
<1> QED BY <1>1, <1>3, <1>4, <1>5

\* The constants, one by one.
LEMMA Constants ==
    /\ MaxFrame \in Nat /\ 1 <= MaxFrame /\ Size \in Nat /\ 1 <= Size
    /\ \A f \in BigFrames : f \in Nat /\ 1 <= f /\ f <= MaxFrame
    /\ \A f \in Frame : f \in Nat /\ 1 <= f /\ f <= MaxFrame /\ f - 1 \in 0 .. MaxFrame
    /\ \A f \in 0 .. MaxFrame : f \in Nat /\ f <= MaxFrame
<1>1. MaxFrame \in Nat \ {0} /\ Size \in Nat \ {0} /\ BigFrames \subseteq 1 .. MaxFrame
  BY VideoAssumption
<1> QED BY <1>1 DEF Frame

\* The big frames up to a frame.
Under(f) == {g \in BigFrames : g <= f}

LEMMA UnderFinite ==
    ASSUME NEW f \in Int
    PROVE  IsFiniteSet(Under(f)) /\ Cardinality(Under(f)) \in Nat
<1>1. IsFiniteSet(1 .. MaxFrame)
  BY FS_Interval, VideoAssumption
<1>2. Under(f) \in SUBSET (1 .. MaxFrame)
  BY Constants DEF Under
<1>3. IsFiniteSet(Under(f))
  BY <1>1, <1>2, FS_Subset
<1> QED BY <1>3, FS_CardinalityType

\* sim_sender_put numbers the packets of the frames one after the other.
LEMMA LastIdIs ==
    /\ LastId[0] = 0
    /\ \A f \in 0 .. MaxFrame : LastId[f] \in Nat
    /\ \A f \in Frame : LastId[f] = LastId[f - 1] + Total(f) /\ Total(f) \in 1 .. 2
<1>1. \A f \in 0 .. MaxFrame : LastId[f] = f + Cardinality(Under(f))
  BY DEF LastId, Under
<1>2. \A f \in 0 .. MaxFrame : LastId[f] \in Nat
  <2>1. \A f \in 0 .. MaxFrame : Cardinality(Under(f)) \in Nat
    BY UnderFinite
  <2> QED BY <1>1, <2>1
<1>3. LastId[0] = 0
  <2>1. Under(0) = {}
    BY Constants DEF Under
  <2>2. Cardinality(Under(0)) = 0
    BY <2>1, FS_EmptySet
  <2>3. 0 \in 0 .. MaxFrame
    BY Constants
  <2> QED BY <1>1, <2>2, <2>3
<1>4. ASSUME NEW f \in Frame
      PROVE  LastId[f] = LastId[f - 1] + Total(f) /\ Total(f) \in 1 .. 2
  <2>1. f \in 0 .. MaxFrame /\ f - 1 \in 0 .. MaxFrame /\ f \in Nat
    BY Constants DEF Frame
  <2>4. /\ Cardinality(Under(f)) \in Nat /\ Cardinality(Under(f - 1)) \in Nat
        /\ IsFiniteSet(Under(f - 1))
    BY <2>1, UnderFinite
  <2>5. LastId[f] = f + Cardinality(Under(f)) /\ LastId[f - 1] = f - 1 + Cardinality(Under(f - 1))
    BY <1>1, <2>1
  <2>2. CASE f \in BigFrames
    <3>1. Under(f) = Under(f - 1) \cup {f} /\ f \notin Under(f - 1)
      <4>1. ASSUME NEW g \in BigFrames PROVE g <= f <=> g <= f - 1 \/ g = f
        BY <2>1, Constants
      <4>2. ~ (f <= f - 1) /\ f <= f
        BY <2>1
      <4> QED BY <2>2, <4>1, <4>2 DEF Under
    <3>2. Cardinality(Under(f)) = Cardinality(Under(f - 1)) + 1
      BY <3>1, <2>4, FS_AddElement
    <3>3. Total(f) = 2
      BY <2>2 DEF Total
    <3> QED BY <2>1, <2>4, <2>5, <3>2, <3>3
  <2>3. CASE f \notin BigFrames
    <3>1. Under(f) = Under(f - 1)
      <4>1. ASSUME NEW g \in BigFrames PROVE g <= f <=> g <= f - 1
        BY <2>1, <2>3, Constants
      <4> QED BY <4>1 DEF Under
    <3>2. Total(f) = 1
      BY <2>3 DEF Total
    <3> QED BY <2>1, <2>4, <2>5, <3>1, <3>2
  <2> QED BY <2>2, <2>3
<1> QED BY <1>2, <1>3, <1>4

LEMMA LastIdGrows ==
    ASSUME NEW f \in 0 .. MaxFrame, NEW g \in 0 .. MaxFrame, f < g
    PROVE  LastId[f] < LastId[g]
<1>1. LastId[f] = f + Cardinality(Under(f)) /\ LastId[g] = g + Cardinality(Under(g))
  BY DEF LastId, Under
<1>2. Under(f) \in SUBSET Under(g)
  BY Constants DEF Under
<1>3. /\ Cardinality(Under(f)) \in Nat /\ Cardinality(Under(g)) \in Nat
      /\ IsFiniteSet(Under(g))
  BY UnderFinite
<1>4. Cardinality(Under(f)) <= Cardinality(Under(g))
  BY <1>2, <1>3, FS_Subset
<1> QED BY <1>1, <1>3, <1>4

LEMMA LastIdBounds ==
    /\ MaxPacket \in Nat
    /\ \A f \in 0 .. MaxFrame : LastId[f] \in 0 .. MaxPacket
    /\ \A f, g \in 0 .. MaxFrame : f <= g => LastId[f] <= LastId[g]
    /\ \A f, g \in 0 .. MaxFrame : LastId[f] < LastId[g] => f < g
<1>1. MaxFrame \in 0 .. MaxFrame
  BY VideoAssumption
<1>2. ASSUME NEW f \in 0 .. MaxFrame, NEW g \in 0 .. MaxFrame, f <= g
      PROVE  LastId[f] <= LastId[g]
  <2>1. CASE f = g BY <2>1, LastIdIs
  <2>2. CASE f < g
    <3>1. LastId[f] < LastId[g]
      BY <2>2, LastIdGrows
    <3> QED BY <3>1, LastIdIs
  <2> QED BY <1>2, <2>1, <2>2
<1>3. \A f, g \in 0 .. MaxFrame : LastId[f] < LastId[g] => f < g
  BY <1>2, LastIdIs
<1> QED BY <1>1, <1>2, <1>3, LastIdIs, Constants DEF MaxPacket

\* Every packet belongs to one frame.
LEMMA FrameOfIs ==
    ASSUME NEW p \in Packet
    PROVE  /\ FrameOf[p] \in Frame
           /\ p \in Packets(FrameOf[p])
           /\ \A f \in Frame : p \in Packets(f) => f = FrameOf[p]
<1> DEFINE S == {f \in 0 .. MaxFrame : p <= LastId[f]}
<1>1. p \in Nat /\ 1 <= p /\ p <= LastId[MaxFrame] /\ MaxFrame \in S
  BY LastIdBounds, Constants DEF Packet, MaxPacket
<1>2. PICK f \in S : \A g \in S : f <= g
  <2>1. S \subseteq Nat /\ S # {}
    BY <1>1
  <2> HIDE DEF S
  <2> QED BY <2>1, LeastNatural
<1>3. f # 0
  BY <1>1, LastIdIs
<1>4. f \in Frame /\ f - 1 \in 0 .. MaxFrame /\ f - 1 \notin S
  BY <1>2, <1>3, Constants DEF Frame
<1>5. p \in Packets(f)
  BY <1>1, <1>2, <1>4, LastIdIs DEF Packets
<1>6. FrameOf[p] = CHOOSE g \in Frame : p \in Packets(g)
  BY DEF FrameOf
<1>7. FrameOf[p] \in Frame /\ p \in Packets(FrameOf[p])
  BY <1>4, <1>5, <1>6
<1>8. ASSUME NEW g \in Frame, NEW h \in Frame, p \in Packets(g), p \in Packets(h), g < h
      PROVE  FALSE
  <2>1. g \in 0 .. MaxFrame /\ h - 1 \in 0 .. MaxFrame /\ g <= h - 1
    BY <1>8, Constants DEF Frame
  <2>2. LastId[g] <= LastId[h - 1]
    BY <2>1, LastIdBounds
  <2> QED BY <1>1, <1>8, <2>1, <2>2, LastIdIs DEF Packets
<1>9. ASSUME NEW g \in Frame, p \in Packets(g) PROVE g = FrameOf[p]
  <2>1. g \in Nat /\ FrameOf[p] \in Nat
    BY <1>7, Constants
  <2> QED BY <1>7, <1>8, <1>9, <2>1
<1> QED BY <1>7, <1>9

(***************************************************************************)
(* The ring.                                                               *)
(***************************************************************************)

Slots == 0 .. Size - 1

\* A slot is free and empty, or holds some packets of the frame its fid names.
Empty(s) == s.total = 0 /\ s.segs = {} /\ ~s.key
Holds(s) ==
    s.total = Total(s.fid) /\ s.segs # {} /\ s.segs \subseteq Packets(s.fid)

\* What the functions of sim_frame_cache_t keep: the frames in use are within one
\* ring behind min_fid, each in its slot.
Ring(c) ==
    /\ c \in Cache
    /\ c.min_fid <= c.max_fid /\ c.max_fid <= c.min_fid + Size
    /\ c.min_seq <= LastId[c.min_fid]
    /\ \A i \in Slots :
        \/ Empty(c.slot[i])
        \/ /\ c.slot[i].total # 0
           /\ c.slot[i].fid % Size = i
           /\ c.min_fid < c.slot[i].fid /\ c.slot[i].fid <= c.max_fid
           /\ Holds(c.slot[i])

\* All frames in use are above a number.
Ahead(c, w) == \A i \in Slots : c.slot[i].total # 0 => w < c.slot[i].fid

\* Cleaning frees slots and does nothing else to them.
Freed(c, d) == \A i \in Slots : d.slot[i] = c.slot[i] \/ Empty(d.slot[i])

LEMMA CacheIs ==
    ASSUME NEW c \in Cache
    PROVE  /\ c.min_seq \in Nat /\ c.min_seq \in 0 .. MaxPacket
           /\ c.min_fid \in 0 .. MaxFrame /\ c.max_fid \in 0 .. MaxFrame
           /\ c.min_fid \in Nat /\ c.max_fid \in Nat
           /\ c.slot \in [Slots -> Slot]
           /\ \A i \in Slots : /\ c.slot[i] \in Slot /\ c.slot[i].fid \in 0 .. MaxFrame
                               /\ c.slot[i].fid \in Nat /\ c.slot[i].segs \subseteq Packet
<1>1. /\ c.min_seq \in 0 .. MaxPacket /\ c.slot \in [Slots -> Slot]
      /\ c.min_fid \in 0 .. MaxFrame /\ c.max_fid \in 0 .. MaxFrame
  BY DEF Cache, Slots
<1>2. \A i \in Slots : c.slot[i] \in Slot /\ c.slot[i].fid \in 0 .. MaxFrame /\ c.slot[i].segs \subseteq Packet
  BY <1>1 DEF Slot
<1> QED BY <1>1, <1>2, Constants, LastIdBounds

LEMMA InSlots ==
    ASSUME NEW f \in Nat
    PROVE  f % Size \in Slots
BY Constants DEF Slots

LEMMA SlotIs ==
    ASSUME NEW k \in 0 .. MaxFrame, NEW b \in BOOLEAN, NEW t \in 0 .. 2, NEW g \in SUBSET Packet
    PROVE  [fid |-> k, key |-> b, total |-> t, segs |-> g] \in Slot
BY DEF Slot

LEMMA FreeIs ==
    ASSUME NEW k \in 0 .. MaxFrame, NEW free, free = [FreeSlot EXCEPT !.fid = k]
    PROVE  free \in Slot /\ Empty(free) /\ free.fid = k
<1>1. free = [fid |-> k, key |-> FALSE, total |-> 0, segs |-> {}]
  BY DEF FreeSlot
<1>2. free \in Slot
  <2>1. 0 \in 0 .. 2 /\ {} \in SUBSET Packet /\ FALSE \in BOOLEAN
    OBVIOUS
  <2>2. \A b \in BOOLEAN : [fid |-> k, key |-> b, total |-> 0, segs |-> {}] \in Slot
    BY <2>1, SlotIs
  <2>3. [fid |-> k, key |-> FALSE, total |-> 0, segs |-> {}] \in Slot
    BY <2>1, <2>2, Zenon
  <2> QED BY <1>1, <2>3, Zenon
<1> QED BY <1>1, <1>2 DEF Empty

\* What a slot that is in use holds, when all frames in use are the ring above w.
LEMMA MeantSlot ==
    ASSUME NEW c, Ring(c), NEW f \in Nat, NEW w \in Int, f = w + 1 \/ f = w + 1 + Size,
           c.max_fid <= w + Size, Ahead(c, w), c.slot[f % Size].total # 0
    PROVE  c.slot[f % Size].fid = w + 1
<1> DEFINE k == c.slot[f % Size].fid
<1>1. /\ k \in Nat /\ k % Size = f % Size /\ w < k /\ k <= c.max_fid
      /\ c.max_fid \in Nat
  BY CacheIs, InSlots DEF Ring, Ahead, Empty
<1> HIDE DEF k
<1>2. Size \in Nat \ {0}
  BY Constants
<1>3. CASE f = w + 1
  <2>1. ASSUME f < k PROVE FALSE
    <3>1. f % Size = k % Size
      BY <1>1
    <3>2. f + Size <= k
      BY <1>1, <1>2, <2>1, <3>1, Congruent
    <3>3. k <= w + Size /\ Size \in Nat
      BY <1>1, <1>2
    <3> QED BY <1>1, <1>3, <3>2, <3>3
  <2>2. k = w + 1
    BY <1>1, <1>3, <2>1
  <2> QED BY <2>2 DEF k
<1>4. CASE f = w + 1 + Size
  <2>1. k < f
    BY <1>1, <1>2, <1>4
  <2>2. k % Size = f % Size
    BY <1>1
  <2>3. k + Size <= f
    BY <1>1, <1>2, <2>1, <2>2, Congruent
  <2>4. k = w + 1
    BY <1>1, <1>2, <1>4, <2>3
  <2> QED BY <2>4 DEF k
<1> QED BY <1>3, <1>4

\* real_video_clean_frame, when it is called for the least frame in use.
LEMMA CleanIs ==
    ASSUME NEW c, Ring(c), NEW f \in Nat, NEW w \in Int, f = w + 1 \/ f = w + 1 + Size,
           c.max_fid <= w + Size, Ahead(c, w), NEW d, d = Clean(c, f)
    PROVE  /\ Ring(d) /\ Ahead(d, w + 1) /\ Freed(c, d) /\ d.max_fid = c.max_fid
           /\ \/ d = c
              \/ /\ c.min_fid < w + 1 /\ d.min_fid = w + 1 /\ d.min_seq = LastId[w + 1]
                 /\ c.slot[f % Size].total # 0 /\ c.slot[f % Size].fid = w + 1
<1> DEFINE i == f % Size
           s == c.slot[i]
<1>1. i \in Slots /\ At(c, f) = s /\ c \in Cache
  BY InSlots DEF At, Ring
<1>2. CASE s.total = 0
  <2>1. d = c
    BY <1>1, <1>2 DEF Clean, Busy
  <2>2. ASSUME NEW j \in Slots, c.slot[j].total # 0
        PROVE  w + 1 < c.slot[j].fid
    <3>1. c.slot[j].fid \in Nat /\ w < c.slot[j].fid /\ c.slot[j].fid <= c.max_fid
          /\ c.slot[j].fid % Size = j /\ c.max_fid \in Nat
      BY <1>1, <2>2, CacheIs DEF Ahead, Ring, Empty
    <3>2. c.slot[j].fid # w + 1
      <4>1. SUFFICES ASSUME c.slot[j].fid = w + 1 PROVE FALSE
        OBVIOUS
      <4>2. CASE f = w + 1
        <5>1. j = i
          BY <3>1, <4>1, <4>2
        <5> QED BY <1>2, <2>2, <5>1
      <4>3. CASE f = w + 1 + Size
        <5>1. (w + 1 + Size) % Size = (w + 1) % Size
          <6>1. Size \in Nat \ {0} /\ w + 1 \in Nat
            BY <3>1, <4>1, Constants
          <6> QED BY <6>1, RingBehind
        <5>2. j = i
          BY <3>1, <4>1, <4>3, <5>1
        <5> QED BY <1>2, <2>2, <5>2
      <4> QED BY <4>2, <4>3
    <3> QED BY <3>1, <3>2
  <2> QED BY <2>1, <2>2 DEF Ahead, Freed
<1>3. CASE s.total # 0
  <2>1. s.fid = w + 1
    BY <1>3, MeantSlot
  <2>2. d = [c EXCEPT !.min_seq = LastId[s.fid], !.min_fid = s.fid,
                      !.slot[i] = [FreeSlot EXCEPT !.fid = s.fid]]
    BY <1>1, <1>3 DEF Clean, Busy
  <2>3. /\ s.fid \in 0 .. MaxFrame /\ s.fid \in Nat /\ c.min_fid < s.fid /\ s.fid <= c.max_fid
        /\ c.slot \in [Slots -> Slot] /\ c.max_fid \in Nat /\ c.min_fid \in Nat
        /\ LastId[s.fid] \in 0 .. MaxPacket
    BY <1>1, <1>3, CacheIs, LastIdBounds DEF Ring, Empty
  <2>4. /\ d.min_seq = LastId[s.fid] /\ d.min_fid = s.fid /\ d.max_fid = c.max_fid
        /\ d.slot = [c.slot EXCEPT ![i] = [FreeSlot EXCEPT !.fid = s.fid]]
        /\ d = [min_seq |-> LastId[s.fid], min_fid |-> s.fid, max_fid |-> c.max_fid,
                slot |-> [c.slot EXCEPT ![i] = [FreeSlot EXCEPT !.fid = s.fid]]]
    <3>1. c = [min_seq |-> c.min_seq, min_fid |-> c.min_fid, max_fid |-> c.max_fid,
               slot |-> c.slot]
      BY <1>1 DEF Cache
    <3> DEFINE free == [FreeSlot EXCEPT !.fid = s.fid]
               seq == LastId[s.fid]
               fid == s.fid
    <3>2. d = [c EXCEPT !.min_seq = seq, !.min_fid = fid, !.slot[i] = free]
      BY <2>2
    <3> HIDE DEF i, s, free, seq, fid
    <3>3. d = [min_seq |-> seq, min_fid |-> fid, max_fid |-> c.max_fid,
               slot |-> [c.slot EXCEPT ![i] = free]]
      BY <3>1, <3>2
    <3> QED BY <3>3 DEF free, seq, fid
  <2>5. d.slot[i] = [FreeSlot EXCEPT !.fid = s.fid] /\ \A j \in Slots \ {i} : d.slot[j] = c.slot[j]
    BY <1>1, <2>3, <2>4
  <2>6. Empty(d.slot[i]) /\ d.slot[i] \in Slot
    BY <2>3, <2>5, FreeIs
  <2>7. d \in Cache
    BY <1>1, <2>3, <2>4, <2>5, <2>6 DEF Cache, Slots
  <2>8. ASSUME NEW j \in Slots, d.slot[j].total # 0
        PROVE  /\ j # i /\ d.slot[j] = c.slot[j] /\ s.fid < c.slot[j].fid
    <3>1. j # i /\ d.slot[j] = c.slot[j]
      BY <2>5, <2>6, <2>8 DEF Empty
    <3>2. /\ c.slot[j].fid \in Nat /\ w < c.slot[j].fid /\ c.slot[j].fid % Size = j
          /\ s.fid % Size = i
      BY <1>1, <1>3, <2>8, <3>1, CacheIs DEF Ahead, Ring, Empty
    <3> QED BY <2>1, <2>3, <3>1, <3>2
  <2>9. Ahead(d, w + 1)
    BY <2>1, <2>5, <2>8 DEF Ahead
  <2>10. Freed(c, d)
    BY <2>5, <2>6 DEF Freed
  <2>11. Ring(d)
    <3>1. ASSUME NEW j \in Slots
          PROVE  \/ Empty(d.slot[j])
                 \/ /\ d.slot[j].total # 0
                    /\ d.slot[j].fid % Size = j
                    /\ d.min_fid < d.slot[j].fid /\ d.slot[j].fid <= d.max_fid
                    /\ Holds(d.slot[j])
      <4>1. CASE d.slot[j].total = 0
        BY <2>5, <2>6, <4>1 DEF Ring, Empty
      <4>2. CASE d.slot[j].total # 0
        BY <2>4, <2>8, <4>2 DEF Ring, Empty
      <4> QED BY <4>1, <4>2
    <3>2. d.min_fid <= d.max_fid /\ d.max_fid <= d.min_fid + Size /\ d.min_seq <= LastId[d.min_fid]
      BY <2>1, <2>3, <2>4, Constants
    <3> QED BY <2>7, <3>1, <3>2 DEF Ring
  <2> QED BY <1>3, <2>1, <2>3, <2>4, <2>9, <2>10, <2>11
<1> QED BY <1>2, <1>3

\* The caches that a loop of real_video_clean_frame goes through, up to frame n.
Loop(c, a, g, f) == IF f < a THEN c ELSE Clean(g[f - 1], f)
UpTo(c, a, g, n) == \A f \in 0 .. n : g[f] = Loop(c, a, g, f)

LEMMA LoopIsUnique ==
    ASSUME NEW c, NEW a \in Nat, 1 <= a, NEW n \in Nat, NEW g, NEW h,
           UpTo(c, a, g, n), UpTo(c, a, h, n), NEW f \in 0 .. n
    PROVE  g[f] = h[f]
<1> DEFINE S == {k \in 0 .. n : g[k] # h[k]}
<1>1. SUFFICES ASSUME S # {} PROVE FALSE
  OBVIOUS
<1>2. PICK k \in S : \A m \in S : k <= m
  <2>1. S \subseteq Nat
    OBVIOUS
  <2> HIDE DEF S
  <2> QED BY <1>1, <2>1, LeastNatural
<1>3. g[k] = Loop(c, a, g, k) /\ h[k] = Loop(c, a, h, k) /\ k \in Nat
  BY <1>2 DEF UpTo
<1>4. CASE k < a
  BY <1>2, <1>3, <1>4 DEF Loop
<1>5. CASE ~ (k < a)
  <2>1. k - 1 \in 0 .. n /\ ~ (k <= k - 1)
    BY <1>2, <1>3, <1>5
  <2>2. g[k - 1] = h[k - 1]
    BY <1>2, <2>1
  <2> QED BY <1>2, <1>3, <1>5, <2>2 DEF Loop
<1> QED BY <1>4, <1>5

LEMMA LoopUpTo ==
    ASSUME NEW c, NEW a \in Nat, 1 <= a, NEW n \in Nat
    PROVE  \E g : UpTo(c, a, g, n)
<1> DEFINE S == {k \in Nat : ~ \E g : UpTo(c, a, g, k)}
<1>1. SUFFICES ASSUME S # {} PROVE FALSE
  OBVIOUS
<1>2. PICK k \in S : \A m \in S : k <= m
  <2>1. S \subseteq Nat
    OBVIOUS
  <2> HIDE DEF S
  <2> QED BY <1>1, <2>1, LeastNatural
<1>3. k \in Nat /\ ~ \E g : UpTo(c, a, g, k)
  BY <1>2
<1>4. CASE k < a
  <2> DEFINE g == [f \in Nat |-> c]
  <2>1. UpTo(c, a, g, k)
    BY <1>3, <1>4 DEF UpTo, Loop
  <2> QED BY <1>3, <2>1
<1>5. CASE ~ (k < a)
  <2>1. k - 1 \in Nat /\ ~ (k <= k - 1)
    BY <1>3, <1>5
  <2>2. PICK g : UpTo(c, a, g, k - 1)
    BY <1>2, <2>1
  <2> DEFINE next == Clean(g[k - 1], k)
             h == [f \in Nat |-> IF f = k THEN next ELSE g[f]]
  <2>3. ASSUME NEW f \in 0 .. k PROVE h[f] = Loop(c, a, h, f)
    <3>1. CASE f = k
      <4>1. h[k] = next /\ h[k - 1] = g[k - 1]
        BY <1>3, <2>1
      <4>2. Loop(c, a, h, k) = Clean(h[k - 1], k)
        BY <1>5 DEF Loop
      <4> HIDE DEF h
      <4> QED BY <3>1, <4>1, <4>2
    <3>2. CASE f # k
      <4>1. f \in 0 .. k - 1 /\ f \in Nat
        BY <1>3, <3>2
      <4>2. h[f] = g[f] /\ g[f] = Loop(c, a, g, f)
        BY <2>2, <3>2, <4>1 DEF UpTo
      <4>3. CASE f < a
        BY <4>2, <4>3 DEF Loop
      <4>4. CASE ~ (f < a)
        <5>1. f - 1 \in Nat /\ f - 1 # k
          BY <4>1, <4>4
        <5>2. h[f - 1] = g[f - 1]
          BY <5>1
        <5> HIDE DEF h
        <5> QED BY <4>2, <4>4, <5>2 DEF Loop
      <4> QED BY <4>3, <4>4
    <3> QED BY <3>1, <3>2
  <2>4. UpTo(c, a, h, k)
    BY <2>3 DEF UpTo
  <2> QED BY <1>3, <2>4
<1> QED BY <1>4, <1>5

LEMMA LoopExists ==
    ASSUME NEW c, NEW a \in Nat, 1 <= a
    PROVE  \E g : g = [f \in Nat |-> IF f < a THEN c ELSE Clean(g[f - 1], f)]
<1> DEFINE part(n) == CHOOSE g : UpTo(c, a, g, n)
           g == [f \in Nat |-> part(f)[f]]
<1>1. \A n \in Nat : UpTo(c, a, part(n), n)
  <2> TAKE n \in Nat
  <2>1. \E h : UpTo(c, a, h, n)
    BY LoopUpTo
  <2> QED BY <2>1
<1>2. ASSUME NEW f \in Nat PROVE g[f] = Loop(c, a, g, f)
  <2>1. part(f)[f] = Loop(c, a, part(f), f)
    BY <1>1 DEF UpTo
  <2>2. g[f] = part(f)[f]
    OBVIOUS
  <2>3. CASE f < a
    BY <2>1, <2>2, <2>3 DEF Loop
  <2>4. CASE ~ (f < a)
    <3>1. f - 1 \in Nat /\ f - 1 \in 0 .. f - 1
      BY <2>4
    <3>2. g[f - 1] = part(f - 1)[f - 1]
      BY <3>1
    <3>3. UpTo(c, a, part(f), f - 1)
      BY <1>1, <3>1 DEF UpTo
    <3>4. UpTo(c, a, part(f - 1), f - 1)
      BY <1>1, <3>1
    <3> HIDE DEF part
    <3>5. part(f)[f - 1] = part(f - 1)[f - 1]
      BY <3>1, <3>3, <3>4, LoopIsUnique
    <3> HIDE DEF g
    <3> QED BY <2>1, <2>2, <2>4, <3>2, <3>5 DEF Loop
  <2> QED BY <2>3, <2>4
<1>3. g = [f \in Nat |-> IF f < a THEN c ELSE Clean(g[f - 1], f)]
  <2>1. g = [f \in Nat |-> g[f]]
    OBVIOUS
  <2> HIDE DEF g
  <2>2. \A f \in Nat : g[f] = IF f < a THEN c ELSE Clean(g[f - 1], f)
    BY <1>2 DEF Loop
  <2> QED BY <2>1, <2>2
<1> QED BY <1>3

\* The caches that CleanRange goes through.
IsLoop(c, a, b, g) ==
    /\ CleanRange(c, a, b) = g[b] /\ g[a - 1] = c
    /\ \A f \in Nat : a <= f => g[f] = Clean(g[f - 1], f)

LEMMA CleanRangeIs ==
    ASSUME NEW c, NEW a \in Nat, 1 <= a, NEW b \in Nat, a <= b
    PROVE  \E g : IsLoop(c, a, b, g)
<1> DEFINE g == CHOOSE h : h = [f \in Nat |-> IF f < a THEN c ELSE Clean(h[f - 1], f)]
<1>1. CleanRange(c, a, b) = g[b]
  BY DEF CleanRange
<1>2. g = [f \in Nat |-> IF f < a THEN c ELSE Clean(g[f - 1], f)]
  BY LoopExists
<1> HIDE DEF g
<1>3. g[a - 1] = c
  BY <1>2
<1>4. \A f \in Nat : a <= f => g[f] = Clean(g[f - 1], f)
  BY <1>2
<1> QED BY <1>1, <1>3, <1>4 DEF IsLoop

\* Frames are given up from the oldest on: min_fid and min_seq move together or stay.
Forward(c, d) ==
    /\ Ring(d) /\ Freed(c, d) /\ d.max_fid = c.max_fid
    /\ \/ d.min_fid = c.min_fid /\ d.min_seq = c.min_seq
       \/ c.min_fid < d.min_fid /\ d.min_seq = LastId[d.min_fid]

Cleaned(c, d, v) ==
    Forward(c, d) /\ Ahead(d, v) /\ (d.min_fid = c.min_fid \/ d.min_fid <= v)

LEMMA ForwardTwice ==
    ASSUME NEW c, Ring(c), NEW d, Forward(c, d), NEW e, Forward(d, e)
    PROVE  Forward(c, e)
<1>1. /\ c.min_fid \in Nat /\ d.min_fid \in Nat /\ e.min_fid \in Nat
  BY CacheIs DEF Ring, Forward
<1>2. Freed(c, e)
  BY DEF Forward, Freed
<1> QED BY <1>1, <1>2 DEF Forward

LEMMA LoopIs ==
    ASSUME NEW c, Ring(c), NEW a \in Nat, 1 <= a, NEW w \in Int, a = w + 1 \/ a = w + 1 + Size,
           c.max_fid <= w + Size, Ahead(c, w), NEW b \in Nat, a <= b
    PROVE  Cleaned(c, CleanRange(c, a, b), w + 1 + b - a)
<1>0. PICK g : IsLoop(c, a, b, g)
  BY CleanRangeIs
<1>1. /\ CleanRange(c, a, b) = g[b] /\ g[a - 1] = c
      /\ \A f \in Nat : a <= f => g[f] = Clean(g[f - 1], f)
  BY <1>0 DEF IsLoop
<1> DEFINE S == {f \in Nat : a - 1 <= f /\ ~ Cleaned(c, g[f], w + 1 + f - a)}
<1>2. Size \in Nat \ {0} /\ c.max_fid \in Nat
  BY Constants, CacheIs DEF Ring
<1>3. Cleaned(c, g[a - 1], w)
  BY <1>1 DEF Cleaned, Forward, Freed
<1>4. S = {}
  <2>1. SUFFICES ASSUME S # {} PROVE FALSE
    OBVIOUS
  <2>2. PICK f \in S : \A m \in S : f <= m
    <3>1. S \subseteq Nat
      OBVIOUS
    <3> HIDE DEF S
    <3> QED BY <2>1, <3>1, LeastNatural
  <2>3. f \in Nat /\ a - 1 <= f /\ ~ Cleaned(c, g[f], w + 1 + f - a)
    BY <2>2
  <2>4. a <= f
    <3>1. w + 1 + (a - 1) - a = w
      OBVIOUS
    <3> QED BY <1>3, <2>3, <3>1
  <2> DEFINE u == w + f - a
  <2>5. /\ f - 1 \in Nat /\ a - 1 <= f - 1 /\ ~ (f <= f - 1) /\ w + 1 + (f - 1) - a = u
        /\ u \in Int /\ w <= u /\ w + 1 + f - a = u + 1
        /\ f = u + 1 \/ f = u + 1 + Size
    BY <1>2, <2>3, <2>4
  <2> HIDE DEF u
  <2>6. Cleaned(c, g[f - 1], u)
    BY <2>2, <2>5
  <2> DEFINE d == g[f - 1]
             e == g[f]
  <2>7. e = Clean(d, f)
    BY <1>1, <2>3, <2>4
  <2>8. Ring(d) /\ d.max_fid = c.max_fid /\ Ahead(d, u) /\ d.max_fid <= u + Size
    BY <1>2, <2>5, <2>6 DEF Cleaned, Forward
  <2> HIDE DEF d, e
  <2>9. /\ Ring(e) /\ Ahead(e, u + 1) /\ Freed(d, e) /\ e.max_fid = d.max_fid
        /\ \/ e = d
           \/ d.min_fid < u + 1 /\ e.min_fid = u + 1 /\ e.min_seq = LastId[u + 1]
    BY <2>3, <2>5, <2>7, <2>8, CleanIs
  <2>10. Forward(c, d) /\ (d.min_fid = c.min_fid \/ d.min_fid <= u)
    BY <2>6 DEF Cleaned, d
  <2>11. Forward(d, e)
    BY <2>9 DEF Forward
  <2>12. Forward(c, e)
    BY <2>10, <2>11, ForwardTwice
  <2>13. e.min_fid = c.min_fid \/ e.min_fid <= u + 1
    <3>1. d.min_fid \in Nat
      BY <2>8, CacheIs DEF Ring
    <3> QED BY <2>5, <2>9, <2>10, <3>1
  <2>14. Cleaned(c, e, u + 1)
    BY <2>9, <2>12, <2>13 DEF Cleaned
  <2> QED BY <2>3, <2>5, <2>14 DEF e
<1> HIDE DEF S
<1>5. b \notin S /\ b \in Nat /\ a - 1 <= b
  BY <1>4
<1> QED BY <1>1, <1>5 DEF S

LEMMA RangeIs ==
    ASSUME NEW c, Ring(c), NEW a \in Nat, 1 <= a, NEW w \in Int, a = w + 1 \/ a = w + 1 + Size,
           c.max_fid <= w + Size, Ahead(c, w), NEW b \in Int, NEW d, d = CleanRange(c, a, b)
    PROVE  /\ Forward(c, d)
           /\ a <= b => Ahead(d, w + 1 + b - a)
           /\ d.min_fid = c.min_fid \/ d.min_fid <= w + 1 + b - a
<1>1. CASE b < a
  <2>1. d = c /\ ~ (a <= b)
    BY <1>1 DEF CleanRange
  <2> QED BY <2>1 DEF Forward, Freed
<1>2. CASE a <= b
  BY <1>2, LoopIs DEF Cleaned
<1> QED BY <1>1, <1>2

\* All frames in use are above min_fid.
LEMMA RingAhead ==
    ASSUME NEW c, Ring(c)
    PROVE  Ahead(c, c.min_fid)
BY DEF Ring, Ahead, Empty

LEMMA FirstKeyIs ==
    ASSUME NEW c, NEW from \in Int, NEW to \in Int, NEW default \in Int, 0 <= from,
           NEW k, k = FirstKey(c, from, to, default)
    PROVE  k = default \/ (k \in from .. to /\ At(c, k).key)
<1> DEFINE keys == {f \in from .. to : At(c, f).key}
<1>1. CASE keys = {}
  BY <1>1 DEF FirstKey
<1>2. CASE keys # {}
  <2>1. keys \subseteq Nat
    OBVIOUS
  <2>2. k = CHOOSE f \in keys : \A g \in keys : f <= g
    BY <1>2 DEF FirstKey
  <2> HIDE DEF keys
  <2>3. \E f \in keys : \A g \in keys : f <= g
    BY <1>2, <2>1, LeastNatural
  <2>4. k \in keys
    BY <2>2, <2>3
  <2> QED BY <2>4 DEF keys
<1> QED BY <1>1, <1>2

\* real_video_evict_frame makes room for a newer frame.
LEMMA EvictFrameIs ==
    ASSUME NEW c, Ring(c), NEW f \in Nat, c.max_fid < f, NEW d, d = EvictFrame(c, f)
    PROVE  Forward(c, d) /\ Empty(d.slot[f % Size])
<1> DEFINE room == CleanRange(c, c.max_fid + 1, f)
           next == FirstKey(room, room.min_fid + 1, room.max_fid - 1,
                       IF room.min_fid + 1 < room.max_fid THEN room.max_fid ELSE room.min_fid + 1)
           rest == CleanRange(room, room.min_fid + 1, next - 1)
<1>1. /\ Size \in Nat \ {0} /\ c.max_fid \in Nat /\ c.min_fid \in Nat
      /\ c.max_fid <= c.min_fid + Size
  BY Constants, CacheIs DEF Ring
<1>8. d = room \/ d = rest
  BY DEF EvictFrame
<1>2. Forward(c, room) /\ Ahead(room, f - Size)
  <2> DEFINE w == c.max_fid - Size
  <2>1. /\ w \in Int /\ c.max_fid + 1 = w + 1 + Size /\ c.max_fid <= w + Size
        /\ w + 1 + f - (c.max_fid + 1) = f - Size /\ c.max_fid + 1 \in Nat /\ 1 <= c.max_fid + 1
        /\ c.max_fid + 1 <= f /\ w <= c.min_fid
    BY <1>1
  <2>2. Ahead(c, w)
    BY <1>1, <2>1, CacheIs, RingAhead DEF Ahead, Ring
  <2> HIDE DEF w
  <2> QED BY <2>1, <2>2, RangeIs
<1> HIDE DEF room
<1>3. Ring(room) /\ room.min_fid \in Nat /\ room.max_fid \in Nat /\ room.max_fid = c.max_fid
  BY <1>2, CacheIs DEF Forward, Ring
<1>4. Empty(room.slot[f % Size])
  <2> DEFINE i == f % Size
  <2>1. i \in Slots
    BY InSlots
  <2>2. SUFFICES ASSUME room.slot[i].total # 0 PROVE FALSE
    BY <1>3, <2>1 DEF Ring
  <2>3. /\ room.slot[i].fid \in Nat /\ room.slot[i].fid % Size = f % Size
        /\ room.slot[i].fid <= c.max_fid /\ f - Size < room.slot[i].fid
    BY <1>2, <1>3, <2>1, <2>2, CacheIs DEF Ring, Empty, Ahead
  <2>4. room.slot[i].fid < f
    BY <1>1, <2>3
  <2>5. room.slot[i].fid + Size <= f
    BY <1>1, <2>3, <2>4, Congruent
  <2> QED BY <1>1, <2>3, <2>5
<1>5. Forward(room, rest)
  <2>1. next \in Int
    <3> DEFINE low == IF room.min_fid + 1 < room.max_fid THEN room.max_fid ELSE room.min_fid + 1
    <3>1. low \in Int /\ room.min_fid + 1 \in Int /\ room.max_fid - 1 \in Int /\ 0 <= room.min_fid + 1
      BY <1>3
    <3> HIDE DEF low
    <3>2. next = FirstKey(room, room.min_fid + 1, room.max_fid - 1, low)
      BY DEF low
    <3> HIDE DEF next
    <3> QED BY <3>1, <3>2, FirstKeyIs
  <2> HIDE DEF next
  <2>2. /\ room.min_fid + 1 \in Nat /\ 1 <= room.min_fid + 1 /\ room.min_fid \in Int
        /\ room.max_fid <= room.min_fid + Size /\ next - 1 \in Int
    BY <1>3, <2>1 DEF Ring
  <2>3. Ahead(room, room.min_fid)
    BY <1>3, RingAhead
  <2> QED BY <1>3, <2>2, <2>3, RangeIs
<1> HIDE DEF rest
<1>6. Forward(c, rest)
  BY <1>2, <1>5, ForwardTwice
<1>7. Empty(rest.slot[f % Size])
  BY <1>4, <1>5, InSlots DEF Forward, Freed
<1> QED BY <1>2, <1>4, <1>6, <1>7, <1>8

\* evict_gop_frame drops frames before the newest only.
LEMMA EvictGopIs ==
    ASSUME NEW c, Ring(c), NEW d, d = EvictGop(c)
    PROVE  Forward(c, d) /\ (d.min_fid = c.min_fid \/ d.min_fid < c.max_fid)
<1>1. c.min_fid \in Nat /\ c.max_fid \in Nat
  BY CacheIs DEF Ring
<1>2. CASE GopKey(c) = 0
  BY <1>2 DEF EvictGop, Forward, Freed
<1>3. CASE GopKey(c) # 0
  <2> DEFINE k == GopKey(c)
  <2>1. k \in c.min_fid + 2 .. c.max_fid - 1
    <3>1. c.min_fid + 2 \in Int /\ c.max_fid - 1 \in Int /\ 0 \in Int /\ 0 <= c.min_fid + 2
      BY <1>1
    <3>2. k = FirstKey(c, c.min_fid + 2, c.max_fid - 1, 0)
      BY DEF GopKey
    <3> HIDE DEF k
    <3>3. k = 0 \/ k \in c.min_fid + 2 .. c.max_fid - 1
      BY <3>1, <3>2, FirstKeyIs
    <3> QED BY <1>3, <3>3 DEF k
  <2>2. d = CleanRange(c, c.min_fid + 1, k - 1)
    BY <1>3 DEF EvictGop
  <2> HIDE DEF k
  <2>3. /\ c.min_fid + 1 \in Nat /\ 1 <= c.min_fid + 1 /\ c.min_fid \in Int /\ k - 1 \in Int
        /\ c.max_fid <= c.min_fid + Size
        /\ c.min_fid + 1 + (k - 1) - (c.min_fid + 1) = k - 1
    BY <1>1, <2>1 DEF Ring
  <2>4. Forward(c, d) /\ (d.min_fid = c.min_fid \/ d.min_fid <= k - 1)
    BY <2>2, <2>3, RingAhead, RangeIs
  <2>5. d.min_fid \in Nat
    BY <2>4, CacheIs DEF Forward, Ring
  <2> QED BY <1>1, <2>1, <2>4, <2>5
<1> QED BY <1>2, <1>3

\* A segment of a newer frame makes room for it.
LEMMA AdmitIs ==
    ASSUME NEW c, Ring(c), NEW f \in Frame, c.min_fid < f, NEW a, a = Admit(c, f),
           f > c.max_fid /\ c.max_fid > 0 => f <= EvictFrame(c, f).min_fid + Size
    PROVE  /\ Ring(a) /\ Freed(c, a) /\ c.min_fid <= a.min_fid /\ a.min_fid < f
           /\ a.max_fid = IF f <= c.max_fid THEN c.max_fid ELSE f
           /\ f <= c.max_fid => a = c
           /\ ~ (f <= c.max_fid) => Empty(a.slot[f % Size])
           /\ c.max_fid = 0 => a.min_fid = f - 1
<1>1. /\ c.min_fid \in Nat /\ c.max_fid \in Nat /\ c \in Cache /\ c.min_fid <= c.max_fid
      /\ f \in Nat /\ 1 <= f /\ f <= MaxFrame /\ Size \in Nat /\ 1 <= Size
  BY CacheIs, Constants DEF Ring
<1>2. CASE f <= c.max_fid
  <2>1. a = c
    BY <1>2 DEF Admit
  <2> QED BY <1>1, <1>2, <2>1 DEF Freed
<1>3. CASE ~ (f <= c.max_fid) /\ c.max_fid > 0
  <2> DEFINE e == EvictFrame(c, f)
  <2>1. Forward(c, e) /\ Empty(e.slot[f % Size])
    BY <1>1, <1>3, EvictFrameIs
  <2>2. a = [e EXCEPT !.max_fid = f]
    BY <1>3 DEF Admit
  <2>3. f <= e.min_fid + Size
    BY <1>1, <1>3
  <2> HIDE DEF e
  <2>4. /\ e \in Cache /\ e.min_fid \in Nat /\ e.max_fid = c.max_fid /\ e.min_fid <= e.max_fid
        /\ c.min_fid <= e.min_fid
    BY <1>1, <2>1, CacheIs DEF Forward, Ring
  <2>5. /\ a \in Cache /\ a.max_fid = f /\ a.min_fid = e.min_fid /\ a.min_seq = e.min_seq
        /\ a.slot = e.slot
    BY <1>1, <2>2, <2>4 DEF Cache
  <2>6. \A i \in Slots : e.slot[i].total # 0 => e.slot[i].fid \in Nat /\ e.slot[i].fid <= f
    BY <1>1, <1>3, <2>1, <2>4, CacheIs DEF Forward, Ring, Empty
  <2>7. Ring(a)
    <3>1. ASSUME NEW i \in Slots
          PROVE  \/ Empty(a.slot[i])
                 \/ /\ a.slot[i].total # 0
                    /\ a.slot[i].fid % Size = i
                    /\ a.min_fid < a.slot[i].fid /\ a.slot[i].fid <= a.max_fid
                    /\ Holds(a.slot[i])
      BY <2>1, <2>5, <2>6 DEF Forward, Ring
    <3>2. a.min_fid <= a.max_fid /\ a.max_fid <= a.min_fid + Size /\ a.min_seq <= LastId[a.min_fid]
      BY <1>1, <1>3, <2>1, <2>3, <2>4, <2>5 DEF Forward, Ring
    <3> QED BY <2>5, <3>1, <3>2 DEF Ring
  <2>8. Freed(c, a)
    BY <2>1, <2>5 DEF Forward, Freed
  <2> QED BY <1>1, <1>3, <2>1, <2>4, <2>5, <2>7, <2>8
<1>4. CASE c.max_fid = 0
  <2>1. c.min_fid = 0 /\ ~ (f <= c.max_fid)
    BY <1>1, <1>4
  <2>2. a = [[c EXCEPT !.min_fid = f - 1] EXCEPT !.max_fid = f]
    BY <1>4, <2>1 DEF Admit
  <2>3. f \in 0 .. MaxFrame /\ f - 1 \in 0 .. MaxFrame /\ f - 1 \in Nat
    BY <1>1, Constants
  <2>4. /\ a \in Cache /\ a.max_fid = f /\ a.min_fid = f - 1 /\ a.min_seq = c.min_seq
        /\ a.slot = c.slot
    BY <1>1, <2>2, <2>3 DEF Cache
  <2>5. \A i \in Slots : Empty(c.slot[i])
    BY <1>1, <1>4, <2>1, CacheIs DEF Ring
  <2>6. c.min_seq = 0 /\ 0 <= LastId[f - 1]
    <3>1. c.min_seq \in Nat /\ c.min_seq <= LastId[0]
      BY <1>1, <2>1, CacheIs DEF Ring
    <3>2. LastId[f - 1] \in Nat
      BY <2>3, LastIdIs
    <3> QED BY <3>1, <3>2, LastIdIs
  <2>7. Ring(a)
    BY <1>1, <2>3, <2>4, <2>5, <2>6 DEF Ring
  <2>8. Freed(c, a)
    BY <2>4 DEF Freed
  <2> QED BY <1>1, <1>4, <2>1, <2>3, <2>4, <2>5, <2>7, <2>8, InSlots
<1> QED BY <1>1, <1>2, <1>3, <1>4

\* The slot that a segment ends in is free or has segments of its frame.
LEMMA SlotOf ==
    ASSUME NEW a, Ring(a), NEW f \in Frame, a.min_fid < f, f <= a.max_fid,
           NEW s, s = a.slot[f % Size]
    PROVE  s \in Slot /\ (Empty(s) \/ (s.fid = f /\ Holds(s) /\ s.total # 0))
<1>1. /\ f \in Nat /\ f % Size \in Slots /\ Size \in Nat \ {0} /\ a \in Cache
      /\ a.min_fid \in Nat /\ a.max_fid \in Nat /\ a.max_fid <= a.min_fid + Size
  BY Constants, InSlots, CacheIs DEF Ring
<1>2. s \in Slot /\ s.fid \in Nat
  BY <1>1, CacheIs
<1>3. ASSUME ~ Empty(s) PROVE s.fid = f /\ Holds(s) /\ s.total # 0
  <2>1. /\ s.fid % Size = f % Size /\ a.min_fid < s.fid /\ s.fid <= a.max_fid /\ Holds(s)
        /\ s.total # 0
    BY <1>1, <1>3 DEF Ring
  <2>2. ~ (s.fid < f)
    BY <1>1, <1>2, <2>1, Congruent
  <2>3. ~ (f < s.fid)
    BY <1>1, <1>2, <2>1, Congruent
  <2> QED BY <1>1, <1>2, <2>1, <2>2, <2>3
<1> QED BY <1>2, <1>3

\* real_video_cache_put stores a segment once, and changes nothing when it is there.
LEMMA CachePutIs ==
    ASSUME NEW c, Ring(c), NEW p \in Packet, NEW f, f = FrameOf[p], c.min_fid < f,
           WithinRing(c, p), NEW d, d = CachePut(c, p)
    PROVE  /\ Ring(d) /\ c.min_fid <= d.min_fid
           /\ ~Stores(c, p) =>
                /\ p \in c.slot[f % Size].segs
                /\ d.min_fid = c.min_fid /\ d.max_fid = c.max_fid
                /\ \A i \in Slots : d.slot[i].segs \subseteq c.slot[i].segs
           /\ Stores(c, p) =>
                /\ d.max_fid = IF f <= c.max_fid THEN c.max_fid ELSE f
                /\ d.min_fid < f
                /\ c.max_fid = 0 => d.min_fid = f - 1
                /\ \A i \in Slots : d.slot[i].segs \subseteq c.slot[i].segs \cup {p}
<1> DEFINE a == Admit(c, f)
           i == f % Size
           s == a.slot[i]
           g == IF Stores(c, p) THEN s.segs \cup {p} ELSE s.segs
           t == IF s.total = 0 THEN Total(f) ELSE s.total
           b == IsKey(p)
           new == [fid |-> f, key |-> b, total |-> t, segs |-> g]
<1>1. /\ f \in Frame /\ f \in Nat /\ p \in Packets(f) /\ f \in 0 .. MaxFrame
      /\ i \in Slots /\ Size \in Nat /\ c.min_fid \in Nat /\ c.max_fid \in Nat
  <2>1. f \in Frame /\ p \in Packets(f)
    BY FrameOfIs
  <2> QED BY <2>1, Constants, InSlots, CacheIs DEF Ring
<1>2. /\ Ring(a) /\ Freed(c, a) /\ c.min_fid <= a.min_fid /\ a.min_fid < f
      /\ a.max_fid = IF f <= c.max_fid THEN c.max_fid ELSE f
      /\ f <= c.max_fid => a = c
      /\ ~ (f <= c.max_fid) => Empty(a.slot[i])
      /\ c.max_fid = 0 => a.min_fid = f - 1
  <2>1. f > c.max_fid /\ c.max_fid > 0 => f <= EvictFrame(c, f).min_fid + Size
    BY DEF WithinRing
  <2> HIDE DEF a
  <2> QED BY <1>1, <2>1, AdmitIs DEF a
<1>3. d = [a EXCEPT !.slot[i] = new]
  <2>1. ~ (f <= c.min_fid)
    BY <1>1
  <2> QED BY <2>1 DEF CachePut, At
<1>4. Stores(c, p) <=> \A q \in s.segs : IndexOf(q) # IndexOf(p)
  BY <1>1 DEF Stores, At
<1> HIDE DEF a, i
<1>5. f <= a.max_fid /\ a \in Cache /\ a.min_fid \in Nat /\ a.max_fid \in Nat
  BY <1>1, <1>2, CacheIs DEF Ring
<1>6. s \in Slot /\ (Empty(s) \/ (s.fid = f /\ Holds(s) /\ s.total # 0))
  BY <1>1, <1>2, <1>5, SlotOf DEF i
<1>7. ~Stores(c, p) => ~Empty(s) /\ p \in s.segs
  <2>1. SUFFICES ASSUME ~Stores(c, p) PROVE ~Empty(s) /\ p \in s.segs
    OBVIOUS
  <2>2. PICK q \in s.segs : IndexOf(q) = IndexOf(p)
    BY <1>4, <2>1
  <2>3. ~Empty(s)
    BY <2>2 DEF Empty
  <2>4. q \in Packets(f) /\ q \in Packet
    BY <1>6, <2>2, <2>3 DEF Holds, Slot
  <2>5. FrameOf[q] = f
    BY <1>1, <2>4, FrameOfIs
  <2>6. LastId[f - 1] \in Nat /\ q \in Nat /\ p \in Nat
    BY <1>1, <2>4, Constants, LastIdIs, LastIdBounds DEF Packet
  <2>7. q - LastId[f - 1] - 1 = p - LastId[f - 1] - 1
    BY <2>2, <2>5 DEF IndexOf
  <2>8. q = p
    BY <2>6, <2>7
  <2> QED BY <2>2, <2>3, <2>8
<1>8. /\ g \subseteq Packets(f) /\ g \subseteq Packet /\ g # {} /\ p \in g
      /\ s.segs \subseteq g /\ g \subseteq s.segs \cup {p}
  BY <1>1, <1>6, <1>7 DEF Empty, Holds, Slot
<1>9. t = Total(f) /\ t \in 1 .. 2
  BY <1>1, <1>6, LastIdIs DEF Empty, Holds
<1>10. b \in BOOLEAN
  BY DEF IsKey
<1> HIDE DEF s, g, t, b
<1>11. new \in Slot
  <2>1. t \in 0 .. 2 /\ g \in SUBSET Packet
    BY <1>8, <1>9
  <2> QED BY <1>1, <1>10, <2>1, SlotIs
<1>12. new.fid = f /\ new.total = t /\ new.segs = g
  OBVIOUS
<1> HIDE DEF new
<1>13. /\ d \in Cache /\ d.min_fid = a.min_fid /\ d.max_fid = a.max_fid /\ d.min_seq = a.min_seq
       /\ d.slot[i] = new /\ \A j \in Slots \ {i} : d.slot[j] = a.slot[j]
  <2>1. a.slot \in [Slots -> Slot]
    BY <1>5 DEF Cache, Slots
  <2>2. d = [a EXCEPT !.slot = [a.slot EXCEPT ![i] = new]]
    BY <1>3
  <2>3. [a.slot EXCEPT ![i] = new] \in [Slots -> Slot]
    BY <1>11, <2>1
  <2> QED BY <1>1, <1>5, <2>1, <2>2, <2>3 DEF Cache, Slots
<1>14. Ring(d)
  <2>1. ASSUME NEW j \in Slots
        PROVE  \/ Empty(d.slot[j])
               \/ /\ d.slot[j].total # 0
                  /\ d.slot[j].fid % Size = j
                  /\ d.min_fid < d.slot[j].fid /\ d.slot[j].fid <= d.max_fid
                  /\ Holds(d.slot[j])
    <3>1. CASE j = i
      <4>1. d.slot[j].total # 0 /\ Holds(d.slot[j])
        BY <1>8, <1>9, <1>12, <1>13, <3>1 DEF Holds
      <4>2. d.slot[j].fid % Size = j
        BY <1>12, <1>13, <3>1 DEF i
      <4> QED BY <1>2, <1>5, <1>12, <1>13, <3>1, <4>1, <4>2
    <3>2. CASE j # i
      <4>1. d.slot[j] = a.slot[j]
        BY <1>13, <3>2
      <4> QED BY <1>2, <1>13, <4>1 DEF Ring
    <3> QED BY <3>1, <3>2
  <2> QED BY <1>2, <1>13, <2>1 DEF Ring
<1>15. \A j \in Slots : a.slot[j].segs \subseteq c.slot[j].segs
  BY <1>2 DEF Freed, Empty
<1>16. ASSUME ~Stores(c, p)
       PROVE  /\ p \in c.slot[i].segs
              /\ d.min_fid = c.min_fid /\ d.max_fid = c.max_fid
              /\ \A j \in Slots : d.slot[j].segs \subseteq c.slot[j].segs
  <2>1. p \in s.segs /\ f <= c.max_fid
    BY <1>2, <1>7, <1>16 DEF s
  <2>2. a = c
    BY <1>2, <2>1
  <2>3. p \in c.slot[i].segs /\ g = c.slot[i].segs
    BY <1>16, <2>1, <2>2 DEF s, g
  <2>4. d.min_fid = c.min_fid /\ d.max_fid = c.max_fid
    BY <1>13, <2>2
  <2>5. \A j \in Slots : d.slot[j].segs \subseteq c.slot[j].segs
    BY <1>12, <1>13, <2>2, <2>3
  <2> QED BY <2>3, <2>4, <2>5
<1>17. \A j \in Slots : d.slot[j].segs \subseteq c.slot[j].segs \cup {p}
  <2> TAKE j \in Slots
  <2>1. CASE j = i
    BY <1>1, <1>8, <1>12, <1>13, <1>15, <2>1 DEF s
  <2>2. CASE j # i
    BY <1>13, <1>15, <2>2
  <2> QED BY <2>1, <2>2
<1> QED BY <1>2, <1>13, <1>14, <1>16, <1>17 DEF i

(***************************************************************************)
(* The receiver.                                                           *)
(***************************************************************************)

\* A receiver r that has stored the packets g.
Sound(r, g) ==
    /\ IsReceiver(r) /\ Ring(r.cache) /\ g \subseteq Packet
    /\ \A i \in Slots : r.cache.slot[i].segs \subseteq g
    /\ r.base <= r.max
    /\ r.max = 0 => r.cache.max_fid = 0 /\ g = {}
    /\ LastId[r.cache.min_fid] <= r.max
    /\ r.cache.max_fid > 0 => LastId[r.cache.max_fid - 1] < r.max
    /\ \A p \in g : p <= r.max /\ p \notin DOMAIN r.loss
    /\ \A p \in DOMAIN r.loss : p < r.max
    /\ \A p \in Packet : p <= r.base => p \in g \/ FrameOf[p] <= r.cache.min_fid
    /\ \A p \in r.base + 1 .. r.max :
           p \in g \/ p \in DOMAIN r.loss \/ FrameOf[p] <= r.cache.min_fid

LEMMA SoundIs ==
    ASSUME NEW r, NEW g, Sound(r, g)
    PROVE  /\ DOMAIN r = {"cache", "base", "max", "loss"}
           /\ r.cache \in Cache /\ r.cache.min_fid \in Nat /\ r.cache.max_fid \in Nat
           /\ r.cache.min_fid \in 0 .. MaxFrame /\ r.cache.max_fid \in 0 .. MaxFrame
           /\ r.cache.min_fid <= r.cache.max_fid
           /\ r.cache.min_seq \in Nat /\ r.cache.min_seq \in 0 .. MaxPacket
           /\ r.base \in Nat /\ r.base \in 0 .. MaxPacket
           /\ r.max \in Nat /\ r.max \in 0 .. MaxPacket
           /\ MaxPacket \in Nat /\ MaxNack \in Nat
<1>1. r.cache \in Cache /\ r.cache.min_fid <= r.cache.max_fid
  BY DEF Sound, Ring
<1>2. MaxPacket \in Nat /\ MaxNack \in Nat
  BY LastIdBounds, ReceiverAssumption
<1> QED BY <1>1, <1>2, CacheIs DEF Sound, IsReceiver

\* The packets up to the last of a frame are of that frame or of those before.
LEMMA FrameBelow ==
    ASSUME NEW p \in Packet, NEW k \in 0 .. MaxFrame
    PROVE  /\ p <= LastId[k] <=> FrameOf[p] <= k
           /\ p \in Nat /\ 1 <= p /\ p <= MaxPacket
           /\ FrameOf[p] \in Frame /\ FrameOf[p] \in Nat /\ 1 <= FrameOf[p]
           /\ FrameOf[p] - 1 \in 0 .. MaxFrame /\ FrameOf[p] \in 0 .. MaxFrame
           /\ LastId[FrameOf[p] - 1] \in Nat /\ LastId[FrameOf[p] - 1] \in 0 .. MaxPacket
           /\ LastId[FrameOf[p] - 1] < p /\ p <= LastId[FrameOf[p]]
           /\ p - IndexOf(p) - 1 = LastId[FrameOf[p] - 1]
<1> DEFINE f == FrameOf[p]
<1>1. f \in Frame /\ p \in Packets(f)
  BY FrameOfIs
<1> HIDE DEF f
<1>2. /\ f \in Nat /\ 1 <= f /\ f - 1 \in 0 .. MaxFrame /\ f \in 0 .. MaxFrame /\ k \in Nat
      /\ MaxPacket \in Nat
  BY <1>1, Constants, LastIdBounds
<1>3. /\ LastId[f - 1] \in 0 .. MaxPacket /\ LastId[f] \in 0 .. MaxPacket
      /\ LastId[k] \in 0 .. MaxPacket
  BY <1>2, LastIdBounds
<1>4. p \in Nat /\ 1 <= p /\ p <= MaxPacket /\ LastId[f - 1] < p /\ p <= LastId[f]
  BY <1>1, <1>2, <1>3 DEF Packet, Packets
<1>5. CASE f <= k
  <2>1. LastId[f] <= LastId[k]
    BY <1>2, <1>5, LastIdBounds
  <2>2. p <= LastId[k]
    BY <1>3, <1>4, <2>1
  <2> QED BY <1>2, <1>3, <1>4, <1>5, <2>2, <1>1 DEF f, IndexOf
<1>6. CASE ~ (f <= k)
  <2>1. k <= f - 1
    BY <1>2, <1>6
  <2>2. LastId[k] <= LastId[f - 1]
    BY <1>2, <2>1, LastIdBounds
  <2>3. ~ (p <= LastId[k])
    BY <1>3, <1>4, <2>2
  <2> QED BY <1>2, <1>3, <1>4, <1>6, <2>3, <1>1 DEF f, IndexOf
<1> QED BY <1>5, <1>6

\* sim_receiver_put until the cache is asked: a first key frame sets the numbers,
\* and what was skipped is listed.
LEMMA NotedIs ==
    ASSUME NEW r, NEW g, Sound(r, g), NEW p \in Packet, Wanted(r, p), NEW n, n = Noted(r, p)
    PROVE  /\ DOMAIN n = {"cache", "base", "max", "loss"} /\ n.cache = r.cache
           /\ r.max # 0 => n.max = r.max /\ n.base = r.base
           /\ r.max = 0 => n.max = LastId[FrameOf[p] - 1] /\ n.base = LastId[FrameOf[p] - 1]
           /\ n.max \in 0 .. MaxPacket /\ n.base \in 0 .. MaxPacket
           /\ n.max \in Nat /\ n.base \in Nat
           /\ r.base <= n.base /\ r.max <= n.max /\ n.base <= n.max
           /\ DOMAIN n.loss = (DOMAIN r.loss \cup n.max + 1 .. p - 1) \ {p}
           /\ \A q \in DOMAIN n.loss : q \in Packet /\ n.loss[q] \in 0 .. MaxNack
<1> DEFINE m == Synced(r, p)
           first == LastId[FrameOf[p] - 1]
<1>1. /\ first \in Nat /\ first \in 0 .. MaxPacket /\ p - IndexOf(p) - 1 = first
      /\ p \in Nat /\ 1 <= p /\ p <= MaxPacket /\ MaxPacket \in Nat
  BY FrameBelow, Constants, LastIdBounds
<1> HIDE DEF first
<1>2. /\ DOMAIN m = {"cache", "base", "max", "loss"} /\ m.cache = r.cache /\ m.loss = r.loss
      /\ r.max # 0 => m.max = r.max /\ m.base = r.base
      /\ r.max = 0 => m.max = first /\ m.base = first
  BY <1>1, SoundIs DEF Synced
<1> HIDE DEF m
<1>3. /\ DOMAIN n = {"cache", "base", "max", "loss"} /\ n.cache = m.cache /\ n.max = m.max
      /\ n.base = m.base /\ n.loss = Missing(m, p)
  BY <1>2 DEF Noted, m
<1>4. n.max \in 0 .. MaxPacket /\ n.base \in 0 .. MaxPacket /\ n.max \in Nat /\ n.base \in Nat
  BY <1>1, <1>2, <1>3, SoundIs
<1>5. r.base <= n.base /\ r.max <= n.max /\ n.base <= n.max
  <2>1. r.base <= r.max
    BY DEF Sound
  <2> QED BY <1>1, <1>2, <1>3, <2>1, SoundIs
<1>6. DOMAIN n.loss = (DOMAIN r.loss \cup n.max + 1 .. p - 1) \ {p}
  BY <1>2, <1>3 DEF Missing
<1>7. ASSUME NEW q \in DOMAIN n.loss PROVE q \in Packet /\ n.loss[q] \in 0 .. MaxNack
  <2>1. n.loss[q] = IF q \in DOMAIN r.loss THEN r.loss[q] ELSE 0
    BY <1>2, <1>3, <1>6, <1>7 DEF Missing
  <2>2. CASE q \in DOMAIN r.loss
    BY <2>1, <2>2 DEF Sound, IsReceiver
  <2>3. CASE q \notin DOMAIN r.loss
    <3>1. q \in n.max + 1 .. p - 1
      BY <1>6, <1>7, <2>3
    <3>2. q \in Packet
      BY <1>1, <1>4, <3>1 DEF Packet
    <3>3. 0 \in 0 .. MaxNack
      BY SoundIs
    <3> QED BY <2>1, <2>3, <3>2, <3>3
  <2> QED BY <2>2, <2>3
<1> QED BY <1>2, <1>3, <1>4, <1>5, <1>6, <1>7 DEF first

\* What is missing at or below a number is of a frame that was passed, or listed.
Covered(r, g) ==
    /\ \A p \in Packet : p <= r.base => p \in g \/ FrameOf[p] <= r.cache.min_fid
    /\ \A p \in r.base + 1 .. r.max :
           p \in g \/ p \in DOMAIN r.loss \/ FrameOf[p] <= r.cache.min_fid

\* A packet that the cache does not take changes its slot at most.
LEMMA PutRefused ==
    ASSUME NEW r, NEW g, Sound(r, g), NEW p \in Packet, Wanted(r, p), WithinRing(r.cache, p),
           ~Stores(Noted(r, p).cache, p), NEW s, s = Put(r, p)
    PROVE  Sound(s, g) /\ s.base = r.base /\ s.max = r.max /\ s.cache.min_fid = r.cache.min_fid
<1> DEFINE n == Noted(r, p)
           f == FrameOf[p]
           d == CachePut(r.cache, p)
<1>1. /\ DOMAIN n = {"cache", "base", "max", "loss"} /\ n.cache = r.cache
      /\ r.max # 0 => n.max = r.max /\ n.base = r.base
      /\ n.max \in 0 .. MaxPacket /\ n.base \in 0 .. MaxPacket
      /\ DOMAIN n.loss = (DOMAIN r.loss \cup n.max + 1 .. p - 1) \ {p}
      /\ \A q \in DOMAIN n.loss : q \in Packet /\ n.loss[q] \in 0 .. MaxNack
  BY NotedIs
<1>2. s = [n EXCEPT !.cache = d]
  BY <1>1 DEF Put
<1>3. ~Stores(r.cache, p)
  BY <1>1
<1>4. /\ f \in Nat /\ f \in Frame /\ r.cache.min_fid \in Nat /\ r.max \in Nat /\ p \in Nat
      /\ r.cache.min_fid \in 0 .. MaxFrame /\ LastId[r.cache.min_fid] \in Nat
  BY FrameBelow, SoundIs, LastIdBounds
<1>5. p <= LastId[r.cache.min_fid] <=> f <= r.cache.min_fid
  BY <1>4, FrameBelow
<1> HIDE DEF n, f, d
<1>6. /\ Ring(d) /\ d.min_fid = r.cache.min_fid /\ d.max_fid = r.cache.max_fid
      /\ \A i \in Slots : d.slot[i].segs \subseteq g
      /\ p <= r.max /\ r.max # 0
  <2>1. /\ Ring(r.cache) /\ \A i \in Slots : r.cache.slot[i].segs \subseteq g
        /\ LastId[r.cache.min_fid] <= r.max /\ \A q \in g : q <= r.max
        /\ r.max = 0 => g = {} /\ r.cache.max_fid = 0
    BY DEF Sound
  <2>2. CASE f <= r.cache.min_fid
    <3>1. d = r.cache
      BY <2>2 DEF d, f, CachePut
    <3>2. p <= r.max
      BY <1>4, <1>5, <2>1, <2>2
    <3>3. 1 <= p
      BY FrameBelow, <1>4
    <3> QED BY <1>4, <2>1, <3>1, <3>2, <3>3
  <2>3. CASE ~ (f <= r.cache.min_fid)
    <3>1. r.cache.min_fid < f
      BY <1>4, <2>3
    <3>2. /\ Ring(d) /\ p \in r.cache.slot[f % Size].segs
          /\ d.min_fid = r.cache.min_fid /\ d.max_fid = r.cache.max_fid
          /\ \A i \in Slots : d.slot[i].segs \subseteq r.cache.slot[i].segs
      BY <1>3, <2>1, <3>1, CachePutIs DEF f, d
    <3>3. f % Size \in Slots
      BY <1>4, InSlots
    <3>4. p \in g
      BY <2>1, <3>2, <3>3
    <3> QED BY <2>1, <3>2, <3>4
  <2> QED BY <2>2, <2>3
<1>7. DOMAIN n.loss = DOMAIN r.loss \ {p}
  BY <1>1, <1>4, <1>6
<1>8. /\ DOMAIN s = {"cache", "base", "max", "loss"} /\ s.cache = d /\ s.base = r.base
      /\ s.max = r.max /\ s.loss = n.loss
  BY <1>1, <1>2, <1>6
<1>9. IsReceiver(s)
  <2>1. d \in Cache
    BY <1>6 DEF Ring
  <2> QED BY <1>1, <1>6, <1>8, <2>1 DEF IsReceiver
<1>10. Covered(s, g)
  <2>1. Covered(r, g)
    BY DEF Sound, Covered
  <2>2. p \in g \/ f <= r.cache.min_fid
    <3>1. CASE f <= r.cache.min_fid
      BY <3>1
    <3>2. CASE ~ (f <= r.cache.min_fid)
      <4>1. r.cache.min_fid < f
        BY <1>4, <3>2
      <4>2. Ring(r.cache) /\ \A i \in Slots : r.cache.slot[i].segs \subseteq g
        BY DEF Sound
      <4>3. p \in r.cache.slot[f % Size].segs
        BY <1>3, <4>1, <4>2, CachePutIs DEF f, d
      <4>4. f % Size \in Slots
        BY <1>4, InSlots
      <4> QED BY <4>2, <4>3, <4>4
    <3> QED BY <3>1, <3>2
  <2> QED BY <1>6, <1>7, <1>8, <2>1, <2>2 DEF Covered, f
<1>11. /\ g \subseteq Packet /\ r.base <= r.max /\ LastId[r.cache.min_fid] <= r.max
       /\ r.cache.max_fid > 0 => LastId[r.cache.max_fid - 1] < r.max
       /\ \A q \in g : q <= r.max /\ q \notin DOMAIN r.loss
       /\ \A q \in DOMAIN r.loss : q < r.max
  BY DEF Sound
<1>12. Sound(s, g)
  BY <1>6, <1>7, <1>8, <1>9, <1>10, <1>11 DEF Sound, Covered
<1> QED BY <1>6, <1>8, <1>12

\* A packet that the cache stores is the newest, fills a gap or comes before both.
LEMMA PutStored ==
    ASSUME NEW r, NEW g, Sound(r, g), NEW p \in Packet, Wanted(r, p), WithinRing(r.cache, p),
           Stores(Noted(r, p).cache, p), NEW s, s = Put(r, p)
    PROVE  /\ Sound(s, g \cup {p}) /\ r.base <= s.base /\ (s.max = r.max \/ s.max = p)
           /\ r.cache.min_fid <= s.cache.min_fid
<1> DEFINE n == Noted(r, p)
           f == FrameOf[p]
           d == CachePut(r.cache, p)
           h == g \cup {p}
<1>1. /\ DOMAIN n = {"cache", "base", "max", "loss"} /\ n.cache = r.cache
      /\ r.max # 0 => n.max = r.max /\ n.base = r.base
      /\ r.max = 0 => n.max = LastId[f - 1] /\ n.base = LastId[f - 1]
      /\ n.max \in 0 .. MaxPacket /\ n.base \in 0 .. MaxPacket
      /\ n.max \in Nat /\ n.base \in Nat
      /\ r.base <= n.base /\ r.max <= n.max /\ n.base <= n.max
      /\ DOMAIN n.loss = (DOMAIN r.loss \cup n.max + 1 .. p - 1) \ {p}
      /\ \A q \in DOMAIN n.loss : q \in Packet /\ n.loss[q] \in 0 .. MaxNack
  BY NotedIs
<1>2. s = [n EXCEPT !.cache = d, !.base = BaseAfter(n, p), !.max = MaxAfter(n, p)]
  BY <1>1 DEF Put
<1>3. Stores(r.cache, p) /\ f > r.cache.min_fid
  BY <1>1 DEF Stores
<1>4. /\ f \in Nat /\ f \in Frame /\ r.cache.min_fid \in Nat /\ r.max \in Nat /\ r.base \in Nat
      /\ p \in Nat /\ p \in 0 .. MaxPacket /\ MaxPacket \in Nat /\ r.cache.max_fid \in Nat
      /\ LastId[f - 1] \in Nat /\ LastId[f - 1] < p /\ f - 1 \in 0 .. MaxFrame
      /\ r.cache.max_fid \in 0 .. MaxFrame
  BY FrameBelow, SoundIs, LastIdBounds
<1>5. /\ IsReceiver(r) /\ Ring(r.cache) /\ g \subseteq Packet
      /\ \A i \in Slots : r.cache.slot[i].segs \subseteq g
      /\ r.base <= r.max /\ (r.max = 0 => r.cache.max_fid = 0 /\ g = {})
      /\ LastId[r.cache.min_fid] <= r.max
      /\ r.cache.max_fid > 0 => LastId[r.cache.max_fid - 1] < r.max
      /\ \A q \in g : q <= r.max /\ q \notin DOMAIN r.loss
      /\ \A q \in DOMAIN r.loss : q < r.max
      /\ Covered(r, g)
  BY DEF Sound, Covered
<1> HIDE DEF n, f, d
<1>6. /\ Ring(d) /\ r.cache.min_fid <= d.min_fid /\ d.min_fid < f
      /\ d.max_fid = IF f <= r.cache.max_fid THEN r.cache.max_fid ELSE f
      /\ r.cache.max_fid = 0 => d.min_fid = f - 1
      /\ \A i \in Slots : d.slot[i].segs \subseteq r.cache.slot[i].segs \cup {p}
  <2>1. r.cache.min_fid < f
    BY <1>3, <1>4
  <2> QED BY <1>3, <1>5, <2>1, CachePutIs DEF f, d
<1>7. /\ DOMAIN s = {"cache", "base", "max", "loss"} /\ s.cache = d /\ s.loss = n.loss
      /\ s.base = IF p = n.base + 1 THEN p ELSE n.base
      /\ s.max = IF p > n.max THEN p ELSE n.max
  BY <1>1, <1>2 DEF BaseAfter, MaxAfter
<1>8. /\ s.base \in Nat /\ s.max \in Nat /\ s.base \in 0 .. MaxPacket /\ s.max \in 0 .. MaxPacket
      /\ p <= s.max /\ n.max <= s.max /\ s.base <= s.max /\ r.base <= s.base
      /\ s.max # 0 /\ (s.max = r.max \/ s.max = p) /\ n.base <= s.base
  BY <1>1, <1>4, <1>7
<1>9. IsReceiver(s)
  <2>1. d \in Cache
    BY <1>6 DEF Ring
  <2> QED BY <1>1, <1>7, <1>8, <2>1 DEF IsReceiver
<1>10. d.min_fid \in 0 .. MaxFrame /\ d.min_fid \in Nat /\ d.max_fid \in Nat
  BY <1>6, CacheIs DEF Ring
<1>11. LastId[d.min_fid] <= s.max
  <2>1. d.min_fid <= f - 1
    BY <1>4, <1>6, <1>10
  <2>2. LastId[d.min_fid] <= LastId[f - 1] /\ LastId[d.min_fid] \in 0 .. MaxPacket
    BY <1>4, <1>10, <2>1, LastIdBounds
  <2> QED BY <1>4, <1>8, <2>2
<1>12. ASSUME d.max_fid > 0 PROVE LastId[d.max_fid - 1] < s.max
  <2>1. CASE f <= r.cache.max_fid
    <3>1. d.max_fid = r.cache.max_fid /\ r.cache.max_fid - 1 \in 0 .. MaxFrame
      BY <1>4, <1>6, <1>12, <2>1, Constants
    <3>2. LastId[r.cache.max_fid - 1] \in 0 .. MaxPacket
      BY <3>1, LastIdBounds
    <3> QED BY <1>1, <1>4, <1>5, <1>8, <1>12, <3>1, <3>2
  <2>2. CASE ~ (f <= r.cache.max_fid)
    BY <1>4, <1>6, <1>8, <2>2
  <2> QED BY <2>1, <2>2
<1>13. ASSUME NEW q \in h PROVE q <= s.max /\ q \notin DOMAIN s.loss
  <2>1. CASE q = p
    BY <1>1, <1>7, <1>8, <2>1
  <2>2. CASE q # p
    <3>1. q \in g /\ q <= r.max /\ q \notin DOMAIN r.loss /\ q \in Packet /\ r.max # 0
      BY <1>5, <1>13, <2>2
    <3>2. q \in Nat
      BY <3>1, FrameBelow, <1>10
    <3> QED BY <1>1, <1>4, <1>7, <1>8, <3>1, <3>2
  <2> QED BY <2>1, <2>2
<1>14. ASSUME NEW q \in DOMAIN s.loss PROVE q < s.max
  <2>1. q \in Packet /\ q \in Nat
    BY <1>1, <1>7, FrameBelow, <1>10
  <2>2. CASE q \in DOMAIN r.loss
    <3>1. q < r.max
      BY <1>5, <2>2
    <3> QED BY <1>1, <1>4, <1>8, <2>1, <3>1
  <2>3. CASE q \notin DOMAIN r.loss
    <3>1. q \in n.max + 1 .. p - 1
      BY <1>1, <1>7, <1>14, <2>3
    <3> QED BY <1>1, <1>4, <1>8, <2>1, <3>1
  <2> QED BY <2>2, <2>3
<1>15. ASSUME NEW q \in Packet, q <= s.base PROVE q \in h \/ FrameOf[q] <= d.min_fid
  <2>1. /\ q \in Nat /\ FrameOf[q] \in Nat /\ 1 <= q
        /\ q <= LastId[f - 1] <=> FrameOf[q] <= f - 1
    BY <1>4, FrameBelow
  <2>2. CASE q = p
    BY <2>2
  <2>3. CASE q # p /\ r.max = 0
    BY <1>1, <1>4, <1>5, <1>6, <1>7, <1>15, <2>1, <2>3
  <2>4. CASE q # p /\ r.max # 0
    <3>1. q <= r.base
      BY <1>1, <1>4, <1>7, <1>15, <2>1, <2>4
    <3>2. q \in g \/ FrameOf[q] <= r.cache.min_fid
      BY <1>5, <3>1 DEF Covered
    <3> QED BY <1>4, <1>6, <1>10, <2>1, <3>2
  <2> QED BY <2>2, <2>3, <2>4
<1>16. ASSUME NEW q \in s.base + 1 .. s.max
       PROVE  q \in h \/ q \in DOMAIN s.loss \/ FrameOf[q] <= d.min_fid
  <2>1. q \in Nat /\ q \in Packet
    BY <1>4, <1>8, <1>16 DEF Packet
  <2>2. FrameOf[q] \in Nat
    BY <2>1, FrameBelow, <1>10
  <2>3. CASE q = p
    BY <2>3
  <2>4. CASE q # p /\ q > n.max
    <3>1. q \in n.max + 1 .. p - 1
      BY <1>1, <1>4, <1>7, <1>8, <1>16, <2>1, <2>4
    <3> QED BY <1>1, <1>7, <2>4, <3>1
  <2>5. CASE q # p /\ ~ (q > n.max)
    <3>1. r.max # 0 /\ q \in r.base + 1 .. r.max
      BY <1>1, <1>4, <1>8, <1>16, <2>1, <2>5
    <3>2. q \in g \/ q \in DOMAIN r.loss \/ FrameOf[q] <= r.cache.min_fid
      BY <1>5, <3>1 DEF Covered
    <3>3. CASE q \in DOMAIN r.loss
      BY <1>1, <1>7, <2>5, <3>3
    <3>4. CASE FrameOf[q] <= r.cache.min_fid
      BY <1>4, <1>6, <1>10, <2>2, <3>4
    <3> QED BY <3>2, <3>3, <3>4
  <2> QED BY <2>3, <2>4, <2>5
<1>17. \A i \in Slots : d.slot[i].segs \subseteq h
  BY <1>5, <1>6
<1>18. h \subseteq Packet
  BY <1>5
<1>19. Sound(s, h)
  BY <1>6, <1>7, <1>8, <1>9, <1>11, <1>12, <1>13, <1>14, <1>15, <1>16, <1>17, <1>18
     DEF Sound
<1> QED BY <1>6, <1>7, <1>8, <1>19

\* video_real_ack: the base follows the cache, and requests are counted.
LEMMA AckGood ==
    ASSUME NEW r, NEW g, Sound(r, g), NEW nacks, nacks \subseteq Due(Settled(r)),
           NEW s, s = Acked(r, nacks)
    PROVE  /\ Sound(s, g) /\ r.base <= s.base /\ s.max = r.max /\ s.cache = r.cache
           /\ nacks \subseteq Packet /\ s.base \in 0 .. MaxPacket
<1> DEFINE t == Settled(r)
           c == r.cache
<1>1. /\ DOMAIN r = {"cache", "base", "max", "loss"} /\ c \in Cache /\ c.min_fid \in 0 .. MaxFrame
      /\ c.min_seq \in Nat /\ c.min_seq \in 0 .. MaxPacket /\ c.min_fid \in Nat
      /\ r.base \in Nat /\ r.base \in 0 .. MaxPacket /\ r.max \in Nat /\ r.max \in 0 .. MaxPacket
      /\ MaxPacket \in Nat /\ MaxNack \in Nat
      /\ LastId[c.min_fid] \in Nat
  BY SoundIs, LastIdBounds
<1>2. /\ IsReceiver(r) /\ Ring(c) /\ g \subseteq Packet /\ LastId[c.min_fid] <= r.max
      /\ \A i \in Slots : c.slot[i].segs \subseteq g
      /\ r.base <= r.max /\ (r.max = 0 => c.max_fid = 0 /\ g = {})
      /\ c.max_fid > 0 => LastId[c.max_fid - 1] < r.max
      /\ \A p \in g : p <= r.max /\ p \notin DOMAIN r.loss
      /\ \A p \in DOMAIN r.loss : p < r.max
      /\ Covered(r, g)
  BY DEF Sound, Covered
<1>3. /\ DOMAIN t = {"cache", "base", "max", "loss"} /\ t.cache = c /\ t.max = r.max
      /\ t.base = IF c.min_seq <= r.base THEN r.base ELSE c.min_seq
      /\ DOMAIN t.loss = IF c.min_seq <= r.base THEN DOMAIN r.loss
                         ELSE DOMAIN r.loss \ (r.base + 1 .. c.min_seq)
      /\ \A p \in DOMAIN t.loss : t.loss[p] = r.loss[p]
  BY <1>1 DEF Settled, Restrict
<1> HIDE DEF t
<1>4. s = [t EXCEPT !.loss = [p \in DOMAIN @ |-> IF p \in nacks THEN @[p] + 1 ELSE @[p]]]
  BY DEF Acked, t
<1> HIDE DEF c
<1>5. /\ DOMAIN s = {"cache", "base", "max", "loss"} /\ s.cache = c /\ s.max = r.max
      /\ s.base = t.base /\ DOMAIN s.loss = DOMAIN t.loss
      /\ \A p \in DOMAIN t.loss : s.loss[p] = IF p \in nacks THEN t.loss[p] + 1 ELSE t.loss[p]
  BY <1>3, <1>4
<1>6. s.base \in Nat /\ s.base \in 0 .. MaxPacket /\ r.base <= s.base /\ s.base <= s.max
  <2>1. c.min_seq <= LastId[c.min_fid]
    BY <1>2 DEF Ring
  <2> QED BY <1>1, <1>2, <1>3, <1>5, <2>1
<1>7. DOMAIN s.loss \subseteq DOMAIN r.loss
  BY <1>3, <1>5
<1>8. ASSUME NEW p \in DOMAIN s.loss PROVE p \in Packet /\ s.loss[p] \in 0 .. MaxNack
  <2>1. p \in Packet /\ r.loss[p] \in 0 .. MaxNack /\ t.loss[p] = r.loss[p]
    BY <1>2, <1>3, <1>5, <1>7, <1>8 DEF IsReceiver
  <2>2. CASE p \in nacks
    <3>1. t.loss[p] < MaxNack
      BY <2>2 DEF Due, t
    <3> QED BY <1>1, <1>5, <1>8, <2>1, <2>2, <3>1
  <2>3. CASE p \notin nacks
    BY <1>5, <1>8, <2>1, <2>3
  <2> QED BY <2>2, <2>3
<1>9. IsReceiver(s)
  BY <1>1, <1>5, <1>6, <1>8 DEF IsReceiver
<1>10. ASSUME NEW p \in Packet, p <= s.base PROVE p \in g \/ FrameOf[p] <= c.min_fid
  <2>1. p \in Nat /\ (p <= LastId[c.min_fid] <=> FrameOf[p] <= c.min_fid)
    BY <1>1, FrameBelow
  <2>2. CASE p <= r.base
    BY <1>2, <2>2 DEF Covered, c
  <2>3. CASE ~ (p <= r.base)
    <3>1. p <= c.min_seq /\ c.min_seq <= LastId[c.min_fid]
      BY <1>2, <1>3, <1>5, <1>10, <2>3 DEF Ring
    <3> QED BY <1>1, <2>1, <3>1
  <2> QED BY <2>2, <2>3
<1>11. ASSUME NEW p \in s.base + 1 .. s.max
       PROVE  p \in g \/ p \in DOMAIN s.loss \/ FrameOf[p] <= c.min_fid
  <2>1. p \in r.base + 1 .. r.max
    BY <1>1, <1>5, <1>6, <1>11
  <2>2. p \in g \/ p \in DOMAIN r.loss \/ FrameOf[p] <= c.min_fid
    BY <1>2, <2>1 DEF Covered, c
  <2>3. ASSUME p \in DOMAIN r.loss PROVE p \in DOMAIN s.loss
    BY <1>1, <1>3, <1>5, <1>6, <1>11, <2>3
  <2> QED BY <2>2, <2>3
<1>12. Sound(s, g)
  BY <1>2, <1>5, <1>6, <1>7, <1>9, <1>10, <1>11 DEF Sound
<1>13. nacks \subseteq Packet
  <2>1. nacks \subseteq DOMAIN t.loss
    BY DEF Due, t
  <2> QED BY <1>2, <1>5, <1>7, <2>1 DEF IsReceiver
<1> QED BY <1>5, <1>6, <1>12, <1>13 DEF c

\* Cleaning the cache takes nothing from what the receiver knows.
LEMMA ForwardGood ==
    ASSUME NEW r, NEW g, Sound(r, g), NEW d, Forward(r.cache, d), LastId[d.min_fid] <= r.max,
           NEW s, s = [r EXCEPT !.cache = d]
    PROVE  /\ Sound(s, g) /\ s.base = r.base /\ s.max = r.max /\ s.cache = d
           /\ r.cache.min_fid <= d.min_fid
<1> DEFINE c == r.cache
<1>1. /\ DOMAIN r = {"cache", "base", "max", "loss"} /\ c \in Cache /\ c.min_fid \in Nat
      /\ r.base \in Nat /\ r.max \in Nat /\ MaxPacket \in Nat
  BY SoundIs
<1>2. /\ IsReceiver(r) /\ Ring(c) /\ g \subseteq Packet
      /\ \A i \in Slots : c.slot[i].segs \subseteq g
      /\ r.base <= r.max /\ (r.max = 0 => c.max_fid = 0 /\ g = {})
      /\ c.max_fid > 0 => LastId[c.max_fid - 1] < r.max
      /\ \A p \in g : p <= r.max /\ p \notin DOMAIN r.loss
      /\ \A p \in DOMAIN r.loss : p < r.max
      /\ Covered(r, g)
  BY DEF Sound, Covered
<1>3. /\ DOMAIN s = {"cache", "base", "max", "loss"} /\ s.cache = d /\ s.max = r.max
      /\ s.base = r.base /\ s.loss = r.loss
  BY <1>1
<1> HIDE DEF c
<1>4. Ring(d) /\ Freed(c, d) /\ d.max_fid = c.max_fid /\ d \in Cache /\ d.min_fid \in Nat
  BY CacheIs DEF Forward, Ring, c
<1>5. c.min_fid <= d.min_fid
  BY <1>1, <1>4 DEF Forward, c
<1>6. \A i \in Slots : d.slot[i].segs \subseteq g
  BY <1>2, <1>4 DEF Freed, Empty
<1>7. \A p \in Packet : FrameOf[p] \in Nat
  BY FrameOfIs, Constants
<1>8. \A p \in Packet : p <= s.base => p \in g \/ FrameOf[p] <= d.min_fid
  BY <1>1, <1>2, <1>3, <1>4, <1>5, <1>7 DEF Covered, c
<1>9. \A p \in s.base + 1 .. s.max : p \in g \/ p \in DOMAIN s.loss \/ FrameOf[p] <= d.min_fid
  <2> TAKE p \in s.base + 1 .. s.max
  <2>1. p \in Packet
    BY <1>1, <1>2, <1>3 DEF Packet, IsReceiver
  <2> QED BY <1>1, <1>2, <1>3, <1>4, <1>5, <1>7, <2>1 DEF Covered, c
<1>10. IsReceiver(s)
  BY <1>2, <1>3, <1>4 DEF IsReceiver
<1>11. Sound(s, g)
  BY <1>2, <1>3, <1>4, <1>6, <1>8, <1>9, <1>10 DEF Sound
<1> QED BY <1>3, <1>5, <1>11 DEF c

LEMMA TrimIs ==
    ASSUME NEW r, NEW g, Sound(r, g), r.cache.min_fid # r.cache.max_fid,
           NEW c, c = EvictGop(r.cache)
    PROVE  Forward(r.cache, c) /\ LastId[c.min_fid] <= r.max
<1> DEFINE b == r.cache
<1>1. /\ b.min_fid \in Nat /\ b.max_fid \in Nat /\ b.min_fid <= b.max_fid
      /\ b.max_fid \in 0 .. MaxFrame /\ r.max \in Nat /\ MaxPacket \in Nat
  BY SoundIs
<1>2. /\ Ring(b) /\ LastId[b.min_fid] <= r.max
      /\ b.max_fid > 0 => LastId[b.max_fid - 1] < r.max
  BY DEF Sound
<1> HIDE DEF b
<1>3. Forward(b, c) /\ (c.min_fid = b.min_fid \/ c.min_fid < b.max_fid)
  BY <1>2, EvictGopIs DEF b
<1>4. CASE c.min_fid = b.min_fid
  BY <1>2, <1>3, <1>4 DEF b
<1>5. CASE c.min_fid < b.max_fid
  <2>1. c.min_fid \in 0 .. MaxFrame /\ c.min_fid \in Nat
    BY <1>3, CacheIs DEF Forward, Ring
  <2>2. b.max_fid > 0 /\ b.max_fid - 1 \in 0 .. MaxFrame /\ c.min_fid <= b.max_fid - 1
    BY <1>1, <1>5, <2>1, Constants
  <2>3. /\ LastId[c.min_fid] <= LastId[b.max_fid - 1]
        /\ LastId[c.min_fid] \in 0 .. MaxPacket /\ LastId[b.max_fid - 1] \in 0 .. MaxPacket
    BY <2>1, <2>2, LastIdBounds
  <2> QED BY <1>1, <1>2, <1>3, <2>2, <2>3 DEF b
<1> QED BY <1>3, <1>4, <1>5

\* The frame that is played is the next one, and all its packets were stored.
LEMMA PlayIs ==
    ASSUME NEW c, Ring(c), NEW g, \A i \in Slots : c.slot[i].segs \subseteq g, Playable(c),
           NEW d, d = Clean(c, c.min_fid + 1)
    PROVE  /\ Forward(c, d) /\ d.min_fid = c.min_fid + 1 /\ Head(c).fid = c.min_fid + 1
           /\ d.min_fid \in Frame /\ Packets(d.min_fid) \subseteq g
           /\ LastId[d.min_fid] \in g
<1> DEFINE w == c.min_fid
           f == w + 1
           h == c.slot[f % Size]
<1>1. /\ w \in Nat /\ c.max_fid \in Nat /\ c.max_fid \in 0 .. MaxFrame /\ f \in Nat /\ w \in Int
      /\ c.max_fid <= w + Size /\ MaxFrame \in Nat
  BY CacheIs, Constants DEF Ring
<1>2. f % Size \in Slots /\ h \in Slot
  BY <1>1, InSlots, CacheIs DEF Ring
<1>3. Head(c) = h /\ h.total > 0 /\ Cardinality(h.segs) = h.total
  BY DEF Head, At, Playable, HeadFull
<1>4. h.total # 0 /\ Ahead(c, w)
  BY <1>2, <1>3, RingAhead DEF Slot
<1>5. h.fid = f
  BY <1>1, <1>4, MeantSlot
<1>6. h.fid <= c.max_fid /\ Holds(h)
  BY <1>2, <1>4 DEF Ring, Empty
<1>7. f \in Frame /\ f - 1 = w /\ w \in 0 .. MaxFrame
  BY <1>1, <1>5, <1>6 DEF Frame
<1>8. Forward(c, d) /\ d.min_fid = f
  <2> DEFINE fid == c.slot[f % Size].fid
  <2>1. /\ Ring(d) /\ Freed(c, d) /\ d.max_fid = c.max_fid
        /\ \/ d = c
           \/ c.min_fid < w + 1 /\ d.min_fid = w + 1 /\ d.min_seq = LastId[w + 1]
    BY <1>1, <1>4, CleanIs
  <2>2. DOMAIN c = {"min_seq", "min_fid", "max_fid", "slot"}
    BY DEF Ring, Cache
  <2>3. d.min_fid = f
    <3>1. At(c, f) = h /\ Busy(c, f)
      BY <1>4 DEF At, Busy
    <3>2. d = [c EXCEPT !.min_seq = LastId[h.fid], !.min_fid = h.fid,
                        !.slot[f % Size] = [FreeSlot EXCEPT !.fid = h.fid]]
      BY <3>1 DEF Clean
    <3> HIDE DEF h, f, w
    <3> QED BY <1>5, <2>2, <3>2
  <2>4. d # c
    BY <1>1, <2>3
  <2> QED BY <1>1, <2>1, <2>3, <2>4 DEF Forward
<1>9. h.segs = Packets(f)
  <2>1. LastId[w] \in Nat /\ LastId[f] = LastId[w] + Total(f) /\ Total(f) \in 1 .. 2
    BY <1>7, LastIdIs
  <2>2. Packets(f) = LastId[w] + 1 .. LastId[f]
    BY <1>7 DEF Packets
  <2>3. IsFiniteSet(Packets(f)) /\ Cardinality(Packets(f)) = Total(f)
    <3>1. /\ IsFiniteSet(LastId[w] + 1 .. LastId[f])
          /\ LastId[w] + 1 <= LastId[f]
          /\ Cardinality(LastId[w] + 1 .. LastId[f]) = LastId[f] - (LastId[w] + 1) + 1
      BY <2>1, FS_Interval
    <3> QED BY <2>1, <2>2, <3>1
  <2>4. h.segs \subseteq Packets(f) /\ Cardinality(h.segs) = Total(f)
    BY <1>3, <1>5, <1>6 DEF Holds
  <2> QED BY <2>3, <2>4, FS_Subset
<1>10. LastId[f] \in Packets(f)
  <2>1. LastId[w] \in Nat /\ LastId[f] = LastId[w] + Total(f) /\ Total(f) \in 1 .. 2
    BY <1>7, LastIdIs
  <2> QED BY <1>7, <2>1 DEF Packets
<1> QED BY <1>2, <1>3, <1>5, <1>7, <1>8, <1>9, <1>10

\* What every call made under session->mutex leaves true of the receiver.
RInv ==
    /\ Sound(rx, got)
    /\ last \in Nat /\ plays \in Nat /\ restarts \in 0 .. MaxRestarts
    /\ plays <= last /\ last <= rx.cache.min_fid

LEMMA NewIsSound == Sound(NewReceiver, {})
<1> DEFINE c == EmptyCache
<1>1. MaxPacket \in Nat /\ MaxFrame \in Nat /\ Size \in Nat /\ 1 <= Size /\ LastId[0] = 0
  BY LastIdBounds, Constants, LastIdIs
<1>2. FreeSlot \in Slot /\ Empty(FreeSlot)
  BY <1>1 DEF FreeSlot, Slot, Empty
<1>3. /\ c.min_seq = 0 /\ c.min_fid = 0 /\ c.max_fid = 0
      /\ c.slot = [i \in Slots |-> FreeSlot]
  BY DEF EmptyCache, Slots
<1>4. c \in Cache
  BY <1>1, <1>2 DEF EmptyCache, Cache
<1>5. \A i \in Slots : Empty(c.slot[i])
  BY <1>2, <1>3
<1> HIDE DEF c
<1>6. Ring(c)
  BY <1>1, <1>3, <1>4, <1>5 DEF Ring
<1>7. /\ DOMAIN NewReceiver = {"cache", "base", "max", "loss"} /\ NewReceiver.cache = c
      /\ NewReceiver.base = 0 /\ NewReceiver.max = 0 /\ DOMAIN NewReceiver.loss = {}
  BY DEF NewReceiver, c
<1>8. IsReceiver(NewReceiver)
  BY <1>1, <1>4, <1>7 DEF IsReceiver
<1>9. \A p \in Packet : ~ (p <= 0)
  BY <1>1 DEF Packet
<1>10. \A p \in 0 + 1 .. 0 : FALSE
  OBVIOUS
<1>11. \A i \in Slots : c.slot[i].segs \subseteq {}
  BY <1>5 DEF Empty
<1> QED BY <1>1, <1>3, <1>6, <1>7, <1>8, <1>9, <1>10, <1>11 DEF Sound

\* Forward keeps what was given to the application behind the buffer.
LEMMA MovesOn ==
    ASSUME RInv, NEW r, NEW g, Sound(r, g), rx.cache.min_fid <= r.cache.min_fid
    PROVE  last <= r.cache.min_fid
BY SoundIs DEF RInv

LEMMA ArriveKeeps ==
    ASSUME RInv, NEW p \in Packet, Arrive(p)
    PROVE  /\ RInv' /\ rx.base <= rx'.base /\ rx.cache.min_fid <= rx'.cache.min_fid
           /\ rx'.max = rx.max \/ rx'.max = p
           /\ got \subseteq got'
<1>1. /\ Sound(rx, got) /\ Wanted(rx, p) /\ WithinRing(rx.cache, p) /\ rx' = Put(rx, p)
      /\ UNCHANGED <<last, plays, restarts>>
  BY DEF Arrive, RInv
<1>2. /\ rx.base \in Nat /\ rx.cache.min_fid \in Nat
  BY <1>1, SoundIs
<1>3. CASE Stores(Noted(rx, p).cache, p)
  <2>1. got' = got \cup {p}
    BY <1>3 DEF Arrive
  <2>2. /\ Sound(rx', got') /\ rx.base <= rx'.base /\ (rx'.max = rx.max \/ rx'.max = p)
        /\ rx.cache.min_fid <= rx'.cache.min_fid
    BY <1>1, <1>3, <2>1, PutStored
  <2>3. last <= rx'.cache.min_fid
    BY <2>2, MovesOn
  <2> QED BY <1>1, <2>1, <2>2, <2>3 DEF RInv
<1>4. CASE ~Stores(Noted(rx, p).cache, p)
  <2>1. got' = got
    BY <1>4 DEF Arrive
  <2>2. /\ Sound(rx', got') /\ rx'.base = rx.base /\ rx'.max = rx.max
        /\ rx'.cache.min_fid = rx.cache.min_fid
    BY <1>1, <1>4, <2>1, PutRefused
  <2> QED BY <1>1, <1>2, <2>1, <2>2 DEF RInv
<1> QED BY <1>3, <1>4

LEMMA ArriveAndAckKeeps ==
    ASSUME RInv, NEW p \in Packet, NEW nacks \in Nacks(Put(rx, p)), ArriveAndAck(p, nacks)
    PROVE  /\ RInv' /\ rx.base <= rx'.base /\ rx.cache.min_fid <= rx'.cache.min_fid
           /\ rx'.max = rx.max \/ rx'.max = p
           /\ got \subseteq got' /\ nacks \subseteq Packet
<1> DEFINE m == Put(rx, p)
<1>1. /\ Sound(rx, got) /\ Wanted(rx, p) /\ WithinRing(rx.cache, p)
      /\ Stores(Noted(rx, p).cache, p) /\ rx' = Acked(m, nacks) /\ got' = got \cup {p}
      /\ UNCHANGED <<last, plays, restarts>>
  BY DEF ArriveAndAck, RInv
<1>2. nacks \subseteq Due(Settled(m))
  BY DEF Nacks
<1>3. rx.base \in Nat
  BY <1>1, SoundIs
<1> HIDE DEF m
<1>4. /\ Sound(m, got') /\ rx.base <= m.base /\ (m.max = rx.max \/ m.max = p)
      /\ rx.cache.min_fid <= m.cache.min_fid
  BY <1>1, PutStored DEF m
<1>5. /\ Sound(rx', got') /\ m.base <= rx'.base /\ rx'.max = m.max /\ rx'.cache = m.cache
      /\ nacks \subseteq Packet
  BY <1>1, <1>2, <1>4, AckGood
<1>6. m.base \in Nat /\ rx'.base \in Nat
  BY <1>4, <1>5, SoundIs
<1>7. rx.base <= rx'.base
  BY <1>3, <1>4, <1>5, <1>6
<1>8. last <= rx'.cache.min_fid
  BY <1>4, <1>5, MovesOn
<1> QED BY <1>1, <1>4, <1>5, <1>7, <1>8 DEF RInv

LEMMA TimerAckKeeps ==
    ASSUME RInv, NEW nacks \in Nacks(rx), TimerAck(nacks)
    PROVE  /\ RInv' /\ rx.base <= rx'.base /\ rx'.cache = rx.cache /\ rx'.max = rx.max
           /\ nacks \subseteq Packet
<1>1. Sound(rx, got) /\ rx' = Acked(rx, nacks) /\ UNCHANGED <<got, last, plays, restarts>>
  BY DEF TimerAck, RInv
<1>2. nacks \subseteq Due(Settled(rx))
  BY DEF Nacks
<1>3. /\ Sound(rx', got) /\ rx.base <= rx'.base /\ rx'.max = rx.max /\ rx'.cache = rx.cache
      /\ nacks \subseteq Packet
  BY <1>1, <1>2, AckGood
<1> QED BY <1>1, <1>3 DEF RInv

LEMMA TrimKeeps ==
    ASSUME RInv, Trim
    PROVE  /\ RInv' /\ rx'.base = rx.base /\ rx'.max = rx.max
           /\ rx.cache.min_fid <= rx'.cache.min_fid
<1> DEFINE c == EvictGop(rx.cache)
<1>1. /\ Sound(rx, got) /\ rx.cache.min_fid # rx.cache.max_fid /\ rx' = [rx EXCEPT !.cache = c]
      /\ UNCHANGED <<got, last, plays, restarts>>
  BY DEF Trim, RInv
<1>2. Forward(rx.cache, c) /\ LastId[c.min_fid] <= rx.max
  BY <1>1, TrimIs
<1> HIDE DEF c
<1>3. /\ Sound(rx', got) /\ rx'.base = rx.base /\ rx'.max = rx.max
      /\ rx.cache.min_fid <= rx'.cache.min_fid
  BY <1>1, <1>2, ForwardGood
<1>4. last <= rx'.cache.min_fid
  BY <1>3, MovesOn
<1> QED BY <1>1, <1>3, <1>4 DEF RInv

LEMMA PlayKeeps ==
    ASSUME RInv, NEW late \in BOOLEAN, Play(late)
    PROVE  /\ RInv' /\ rx'.base = rx.base /\ rx'.max = rx.max /\ got' = got
           /\ rx.cache.min_fid <= rx'.cache.min_fid
           /\ last < last' /\ plays' = plays + 1
           /\ last' \in Frame /\ LastId[last'] \in got
<1> DEFINE c == Trimmed(late)
           d == Clean(c, c.min_fid + 1)
<1>1. /\ Sound(rx, got) /\ rx.cache.min_fid # rx.cache.max_fid /\ Playable(c)
      /\ rx' = [rx EXCEPT !.cache = d] /\ last' = Head(c).fid /\ plays' = plays + 1
      /\ UNCHANGED <<got, restarts>>
  BY DEF Play, RInv
<1>2. Ring(rx.cache) /\ LastId[rx.cache.min_fid] <= rx.max
  BY <1>1 DEF Sound
<1>3. Forward(rx.cache, c) /\ LastId[c.min_fid] <= rx.max
  <2>1. CASE late
    BY <1>1, <2>1, TrimIs DEF Trimmed
  <2>2. CASE ~late
    BY <1>2, <2>2 DEF Trimmed, Forward, Freed
  <2> QED BY <2>1, <2>2
<1> HIDE DEF c
<1>4. Ring(c) /\ \A i \in Slots : c.slot[i].segs \subseteq got
  BY <1>1, <1>3 DEF Forward, Freed, Empty, Sound
<1>5. /\ Forward(c, d) /\ d.min_fid = c.min_fid + 1 /\ last' = c.min_fid + 1
      /\ d.min_fid \in Frame /\ LastId[d.min_fid] \in got
  BY <1>1, <1>4, PlayIs
<1> HIDE DEF d
<1>6. Forward(rx.cache, d) /\ LastId[d.min_fid] <= rx.max
  BY <1>1, <1>2, <1>3, <1>5, ForwardTwice DEF Sound
<1>7. /\ Sound(rx', got) /\ rx'.base = rx.base /\ rx'.max = rx.max /\ rx'.cache = d
      /\ rx.cache.min_fid <= d.min_fid
  BY <1>1, <1>6, ForwardGood
<1>8. /\ rx.cache.min_fid \in Nat /\ c.min_fid \in Nat /\ last \in Nat /\ plays \in Nat
      /\ plays <= last /\ last <= rx.cache.min_fid
  BY <1>1, <1>4, SoundIs, CacheIs DEF RInv, Ring
<1>9. rx.cache.min_fid <= c.min_fid
  BY <1>3, <1>4, <1>8 DEF Forward
<1>10. last < last' /\ last' \in Nat /\ plays' \in Nat /\ plays' <= last'
  BY <1>1, <1>5, <1>8, <1>9
<1>11. last' = rx'.cache.min_fid
  BY <1>5, <1>7
<1> QED BY <1>1, <1>5, <1>7, <1>10, <1>11 DEF RInv

LEMMA ReceiverStarts == ReceiverInit => RInv
<1> SUFFICES ASSUME ReceiverInit PROVE RInv
  OBVIOUS
<1>1. NewReceiver.cache.min_fid = 0
  BY DEF NewReceiver, EmptyCache
<1> QED BY <1>1, NewIsSound, ReceiverAssumption DEF ReceiverInit, RInv

LEMMA RestartKeeps ==
    ASSUME RInv, Restart
    PROVE  RInv' /\ plays' = 0 /\ restarts' # restarts
<1>1. NewReceiver.cache.min_fid = 0
  BY DEF NewReceiver, EmptyCache
<1>2. restarts \in Nat /\ restarts' \in 0 .. MaxRestarts
  BY ReceiverAssumption DEF RInv, Restart
<1> QED BY <1>1, <1>2, NewIsSound DEF Restart, RInv

\* What a step of the receiver may do to what was played and passed.
GoesForward ==
    /\ plays' > plays => last' > last
    /\ \/ restarts' # restarts
       \/ rx'.cache.min_fid >= rx.cache.min_fid /\ rx'.base >= rx.base

LEMMA ReceiverSteps ==
    ASSUME RInv, [ReceiverNext]_receiverVars
    PROVE  RInv' /\ (GoesForward \/ UNCHANGED receiverVars)
<1>1. /\ rx.base \in Nat /\ rx.cache.min_fid \in Nat /\ plays \in Nat /\ last \in Nat
  BY SoundIs DEF RInv
<1>2. RInv' => rx'.base \in Nat /\ rx'.cache.min_fid \in Nat /\ last' \in Nat
  <2> SUFFICES ASSUME RInv' PROVE rx'.base \in Nat /\ rx'.cache.min_fid \in Nat /\ last' \in Nat
    OBVIOUS
  <2>1. Sound(rx', got') /\ last' \in Nat
    BY DEF RInv
  <2> QED BY <2>1, SoundIs
<1>3. CASE UNCHANGED receiverVars
  BY <1>3 DEF RInv, receiverVars
<1>4. ASSUME NEW p \in Packet, Drop(p) PROVE RInv' /\ UNCHANGED receiverVars
  BY <1>4 DEF Drop, RInv, receiverVars
<1>5. ASSUME NEW p \in Packet, Arrive(p) PROVE RInv' /\ GoesForward
  <2>1. /\ RInv' /\ rx.base <= rx'.base /\ rx.cache.min_fid <= rx'.cache.min_fid
        /\ plays' = plays
    BY <1>5, ArriveKeeps DEF Arrive
  <2> QED BY <1>1, <1>2, <2>1 DEF GoesForward
<1>6. ASSUME NEW p \in Packet, NEW nacks \in Nacks(Put(rx, p)), ArriveAndAck(p, nacks)
      PROVE  RInv' /\ GoesForward
  <2>1. /\ RInv' /\ rx.base <= rx'.base /\ rx.cache.min_fid <= rx'.cache.min_fid
        /\ plays' = plays
    BY <1>6, ArriveAndAckKeeps DEF ArriveAndAck
  <2> QED BY <1>1, <1>2, <2>1 DEF GoesForward
<1>7. ASSUME NEW nacks \in Nacks(rx), TimerAck(nacks) PROVE RInv' /\ GoesForward
  <2>1. RInv' /\ rx.base <= rx'.base /\ rx'.cache = rx.cache /\ plays' = plays
    BY <1>7, TimerAckKeeps DEF TimerAck
  <2> QED BY <1>1, <1>2, <2>1 DEF GoesForward
<1>8. CASE Trim
  <2>1. /\ RInv' /\ rx'.base = rx.base /\ rx.cache.min_fid <= rx'.cache.min_fid
        /\ plays' = plays
    BY <1>8, TrimKeeps DEF Trim
  <2> QED BY <1>1, <1>2, <2>1 DEF GoesForward
<1>9. ASSUME NEW late \in BOOLEAN, Play(late) PROVE RInv' /\ GoesForward
  <2>1. /\ RInv' /\ rx'.base = rx.base /\ rx.cache.min_fid <= rx'.cache.min_fid
        /\ last < last' /\ plays' = plays + 1
    BY <1>9, PlayKeeps
  <2> QED BY <1>1, <1>2, <2>1 DEF GoesForward
<1>10. CASE Restart
  <2>1. RInv' /\ plays' = 0 /\ restarts' # restarts
    BY <1>10, RestartKeeps
  <2> QED BY <1>1, <2>1 DEF GoesForward
<1> QED BY <1>3, <1>4, <1>5, <1>6, <1>7, <1>8, <1>9, <1>10 DEF ReceiverNext

\* The inductive invariant of the receiver: no call made under session->mutex, in
\* whatever order packets, timers, reads and restarts come, breaks RInv.
THEOREM ReceiverInvariant == ReceiverSpec => []RInv
<1>1. RInv /\ [ReceiverNext]_receiverVars => RInv'
  BY ReceiverSteps
<1> QED BY ReceiverStarts, <1>1, PTL DEF ReceiverSpec

\* Type correctness of sim_receiver_t, for every ring, video and number of packets:
\* a packet is asked for at most MaxNack times (the 30 of video_real_ack).
THEOREM ReceiverTyped == ReceiverSpec => []ReceiverTypeOK
<1>1. RInv => ReceiverTypeOK
  <2> SUFFICES ASSUME RInv PROVE ReceiverTypeOK
    OBVIOUS
  <2>1. /\ IsReceiver(rx) /\ got \subseteq Packet /\ rx.cache.min_fid \in 0 .. MaxFrame
        /\ MaxFrame \in Nat
    BY SoundIs, Constants DEF RInv, Sound
  <2> QED BY <2>1 DEF RInv, ReceiverTypeOK
<1> QED BY ReceiverInvariant, <1>1, PTL

\* The ring of real_video_cache_put is never confused: a slot in use holds stored
\* packets of the one frame its fid names, one that is still ahead of min_fid.
THEOREM SlotsAreClean == ReceiverSpec => []SlotsHoldTheirFrame
<1>1. RInv => SlotsHoldTheirFrame
  <2> SUFFICES ASSUME RInv PROVE SlotsHoldTheirFrame
    OBVIOUS
  <2>1. Ring(rx.cache) /\ \A i \in Slots : rx.cache.slot[i].segs \subseteq got
    BY DEF RInv, Sound
  <2> QED BY <2>1 DEF SlotsHoldTheirFrame, Ring, Empty, Holds, Slots
<1> QED BY ReceiverInvariant, <1>1, PTL

\* base_seq, which lets sim_sender_update_base free segments, covers only packets
\* that were stored or whose frame was played or given up.
THEOREM AcknowledgedIsDone == ReceiverSpec => []NothingWantedIsAcknowledged
<1>1. RInv => NothingWantedIsAcknowledged
  BY DEF RInv, Sound, NothingWantedIsAcknowledged
<1> QED BY ReceiverInvariant, <1>1, PTL

\* The loss list of sim_receiver_update_loss is exactly what is missing between
\* base_seq and max_seq: nothing forgotten, nothing asked for that is stored.
THEOREM LossListHolds == ReceiverSpec => []LossListIsExact
<1>1. RInv => LossListIsExact
  <2> SUFFICES ASSUME RInv PROVE LossListIsExact
    OBVIOUS
  <2>1. GapsAreListed
    BY DEF RInv, Sound, GapsAreListed
  <2>2. NothingStoredIsAskedFor
    BY DEF RInv, Sound, NothingStoredIsAskedFor, Slots
  <2>3. AcknowledgedWasSeen
    BY DEF RInv, Sound, AcknowledgedWasSeen
  <2> QED BY <2>1, <2>2, <2>3 DEF LossListIsExact
<1> QED BY ReceiverInvariant, <1>1, PTL

\* sim_receiver_get gives frames in increasing order, none twice, and neither
\* min_fid nor base_seq goes back, whatever is late, evicted or dropped.
THEOREM PlaysGoForward == ReceiverSpec => PlaysForward
<1>1. RInv /\ [ReceiverNext]_receiverVars => [GoesForward]_receiverVars
  BY ReceiverSteps
<1>2. ReceiverSpec => [][GoesForward]_receiverVars
  BY ReceiverInvariant, <1>1, PTL DEF ReceiverSpec
<1> QED BY <1>2 DEF PlaysForward, GoesForward

-----------------------------------------------------------------------------
(***************************************************************************)
(* Both ends and the network.                                              *)
(***************************************************************************)

\* What has left the sender was put, and no acknowledgement is ahead of the receiver.
TInv ==
    /\ RInv
    /\ DOMAIN tx = {"frame", "seed", "base", "cache"}
    /\ tx.frame \in 0 .. MaxFrame /\ tx.seed = LastId[tx.frame]
    /\ tx.base \in Nat /\ tx.cache = tx.base + 1 .. tx.seed
    /\ tx.base <= rx.base /\ rx.max <= tx.seed
    /\ pacer \subseteq 1 .. tx.seed /\ segs \subseteq 1 .. tx.seed
    /\ \A m \in acks : m.base \in Nat /\ m.base <= rx.base

LEMMA TInvNumbers ==
    ASSUME TInv
    PROVE  /\ rx.base \in Nat /\ rx.max \in Nat /\ rx.base <= rx.max /\ tx.seed \in Nat
           /\ tx.base \in Nat /\ tx.frame \in Nat /\ MaxPacket \in Nat
           /\ tx.base <= rx.base /\ rx.max <= tx.seed /\ tx.seed <= MaxPacket
           /\ 1 .. tx.seed \subseteq Packet
<1>1. /\ Sound(rx, got) /\ tx.base \in Nat /\ tx.base <= rx.base /\ rx.max <= tx.seed
      /\ tx.frame \in 0 .. MaxFrame /\ tx.seed = LastId[tx.frame]
  BY DEF TInv, RInv
<1>2. rx.base \in Nat /\ rx.max \in Nat /\ rx.base <= rx.max
  BY <1>1, SoundIs DEF Sound
<1>3. LastId[tx.frame] \in 0 .. MaxPacket /\ MaxPacket \in Nat /\ tx.frame \in Nat
  BY <1>1, LastIdBounds, Constants
<1> QED BY <1>1, <1>2, <1>3 DEF Packet

LEMMA UpdateIs ==
    ASSUME TInv, NEW base \in Nat, base <= rx.base, NEW t, t = UpdateBase(tx, base)
    PROVE  /\ DOMAIN t = {"frame", "seed", "base", "cache"}
           /\ t.frame = tx.frame /\ t.seed = tx.seed
           /\ t.base \in Nat /\ t.base <= rx.base /\ t.cache = t.base + 1 .. t.seed
<1>1. /\ DOMAIN tx = {"frame", "seed", "base", "cache"} /\ tx.cache = tx.base + 1 .. tx.seed
  BY DEF TInv
<1>2. /\ DOMAIN t = {"frame", "seed", "base", "cache"} /\ t.frame = tx.frame /\ t.seed = tx.seed
      /\ t.base = IF base > tx.base THEN base ELSE tx.base
      /\ t.cache = tx.cache \ (tx.base .. base)
  BY <1>1 DEF UpdateBase
<1>3. t.base \in Nat /\ t.base <= rx.base
  BY <1>2, TInvNumbers
<1>4. t.cache = t.base + 1 .. t.seed
  BY <1>1, <1>2, TInvNumbers
<1> QED BY <1>2, <1>3, <1>4

\* A step of the receiver that takes what was sent, or a step of the network.
LEMMA ReceiverSideKeeps ==
    ASSUME TInv, RInv', rx.base <= rx'.base, rx'.max <= tx.seed,
           tx' = tx, pacer' = pacer, segs' \subseteq segs,
           \A m \in acks' : m \in acks \/ m.base = rx'.base
    PROVE  TInv'
<1>1. rx'.base \in Nat
  <2>1. Sound(rx', got')
    BY DEF RInv
  <2> QED BY <2>1, SoundIs
<1>2. tx.base <= rx'.base
  BY <1>1, TInvNumbers
<1>3. \A m \in acks' : m.base \in Nat /\ m.base <= rx'.base
  BY <1>1, TInvNumbers DEF TInv
<1> QED BY <1>2, <1>3 DEF TInv

LEMMA SendAckIs ==
    ASSUME NEW type, NEW base, NEW nacks, SendAck(type, base, nacks)
    PROVE  \A m \in acks' : m \in acks \/ m.base = base
BY DEF SendAck

LEMMA PutFrameKeeps ==
    ASSUME TInv, PutFrame
    PROVE  TInv' /\ tx'.frame = tx.frame + 1 /\ tx.frame < MaxFrame /\ UNCHANGED receiverVars
<1> DEFINE f == tx.frame + 1
<1>1. /\ tx.frame < MaxFrame /\ UNCHANGED <<receiverVars, segs, acks, faults>>
      /\ tx' = [tx EXCEPT !.frame = f, !.seed = LastId[f], !.cache = @ \cup Packets(f)]
      /\ pacer' = pacer \cup Packets(f)
  BY DEF PutFrame
<1>2. tx.frame \in Nat /\ f \in Frame /\ f \in 0 .. MaxFrame /\ f - 1 = tx.frame
  BY <1>1, TInvNumbers, Constants DEF Frame
<1>3. LastId[f] \in Nat /\ tx.seed <= LastId[f] /\ Packets(f) = tx.seed + 1 .. LastId[f]
  BY <1>2, LastIdIs, TInvNumbers DEF TInv, Packets
<1> HIDE DEF f
<1>4. /\ DOMAIN tx' = {"frame", "seed", "base", "cache"} /\ tx'.frame = f
      /\ tx'.seed = LastId[f] /\ tx'.base = tx.base /\ tx'.cache = tx.cache \cup Packets(f)
  BY <1>1 DEF TInv
<1>5. tx'.cache = tx'.base + 1 .. tx'.seed
  BY <1>3, <1>4, TInvNumbers DEF TInv
<1>6. pacer' \subseteq 1 .. tx'.seed /\ segs' \subseteq 1 .. tx'.seed /\ rx'.max <= tx'.seed
  BY <1>1, <1>3, <1>4, TInvNumbers DEF TInv, receiverVars
<1>7. RInv'
  BY <1>1 DEF TInv, RInv, receiverVars
<1>8. TInv'
  BY <1>1, <1>2, <1>4, <1>5, <1>6, <1>7 DEF TInv, receiverVars
<1> QED BY <1>1, <1>4, <1>8 DEF f

LEMMA PaceKeeps ==
    ASSUME TInv, Pace
    PROVE  TInv' /\ UNCHANGED receiverVars /\ tx' = tx
<1> DEFINE p == CHOOSE q \in pacer : \A o \in pacer : q <= o
<1>1. /\ UNCHANGED <<receiverVars, tx, acks, faults>> /\ pacer' = pacer \ {p}
      /\ segs' = IF p \in tx.cache THEN segs \cup {p} ELSE segs
  BY DEF Pace
<1> HIDE DEF p
<1>2. tx.cache \subseteq 1 .. tx.seed
  BY TInvNumbers DEF TInv
<1>3. segs' \subseteq 1 .. tx.seed /\ pacer' \subseteq 1 .. tx.seed
  BY <1>1, <1>2 DEF TInv
<1> QED BY <1>1, <1>3 DEF TInv, RInv, receiverVars

\* Acknowledgements: late, repeated, out of order.
LEMMA AnswerKeeps ==
    ASSUME TInv, NEW m \in acks, HandleAck(m) \/ HandleFeedback(m)
    PROVE  TInv' /\ UNCHANGED receiverVars /\ tx'.frame = tx.frame
<1>1. UNCHANGED <<receiverVars, segs>> /\ acks' = acks \ {m}
  BY DEF HandleAck, HandleFeedback
<1>2. m.base \in Nat /\ m.base <= rx.base
  BY DEF TInv
<1> DEFINE t == UpdateBase(tx, m.base)
<1>3. /\ DOMAIN t = {"frame", "seed", "base", "cache"}
      /\ t.frame = tx.frame /\ t.seed = tx.seed
      /\ t.base \in Nat /\ t.base <= rx.base /\ t.cache = t.base + 1 .. t.seed
  BY <1>2, UpdateIs
<1>4. \/ tx' = tx /\ pacer' = pacer
      \/ tx' = t /\ (pacer' = pacer \/ pacer' \subseteq pacer \cup t.cache)
  <2>1. CASE HandleFeedback(m)
    BY <2>1 DEF HandleFeedback
  <2>2. CASE HandleAck(m) /\ m.base > tx.seed
    BY <2>2 DEF HandleAck
  <2>3. CASE HandleAck(m) /\ ~ (m.base > tx.seed)
    <3>1. /\ tx' = t
          /\ \E refused \in SUBSET (m.nacks \cap tx'.cache) :
                 pacer' = pacer \cup ((m.nacks \cap tx'.cache) \ refused)
      BY <2>3 DEF HandleAck
    <3>2. PICK refused : pacer' = pacer \cup ((m.nacks \cap tx'.cache) \ refused)
      BY <3>1
    <3> HIDE DEF t
    <3> QED BY <3>1, <3>2
  <2> QED BY <2>1, <2>2, <2>3
<1> HIDE DEF t
<1>5. RInv' /\ rx' = rx
  BY <1>1 DEF TInv, RInv, receiverVars
<1>6. CASE tx' = tx /\ pacer' = pacer
  BY <1>1, <1>5, <1>6 DEF TInv
<1>7. CASE tx' = t /\ (pacer' = pacer \/ pacer' \subseteq pacer \cup t.cache)
  <2>1. pacer' \subseteq 1 .. t.seed
    <3>1. pacer \subseteq 1 .. t.seed
      BY <1>3 DEF TInv
    <3>2. t.cache \subseteq 1 .. t.seed
      BY <1>3, TInvNumbers
    <3> QED BY <1>7, <3>1, <3>2
  <2>2. t.seed = LastId[t.frame] /\ t.frame \in 0 .. MaxFrame /\ rx.max <= t.seed
    BY <1>3 DEF TInv
  <2> QED BY <1>1, <1>3, <1>5, <1>7, <2>1, <2>2 DEF TInv
<1> QED BY <1>1, <1>3, <1>4, <1>6, <1>7

LEMMA SegsArrive ==
    ASSUME TInv, NEW p \in segs, Taken(p)
    PROVE  p \in Packet /\ p <= tx.seed /\ segs' \subseteq segs
<1>1. p \in 1 .. tx.seed
  BY DEF TInv
<1>2. segs' \subseteq segs
  BY DEF Taken
<1> QED BY <1>1, <1>2, TInvNumbers

LEMMA NetworkKeeps ==
    ASSUME TInv, Network
    PROVE  TInv' /\ UNCHANGED receiverVars /\ tx' = tx
<1>1. /\ UNCHANGED receiverVars /\ tx' = tx /\ pacer' = pacer
      /\ segs' \subseteq segs /\ acks' \subseteq acks
  BY DEF Network, LoseSeg, LoseAck
<1> QED BY <1>1 DEF TInv, RInv, receiverVars

LEMMA SendFeedbackKeeps ==
    ASSUME TInv, SendFeedback
    PROVE  TInv' /\ UNCHANGED receiverVars /\ tx' = tx
<1>1. /\ UNCHANGED <<receiverVars, tx, pacer, segs, faults>>
      /\ \A m \in acks' : m \in acks \/ m.base = rx.base
  BY SendAckIs DEF SendFeedback
<1>2. RInv' /\ rx' = rx /\ rx.base \in Nat /\ rx.base <= rx'.base /\ rx'.max <= tx.seed
  BY <1>1, TInvNumbers DEF TInv, RInv, receiverVars
<1>3. TInv'
  BY <1>1, <1>2, ReceiverSideKeeps
<1> QED BY <1>1, <1>3

LEMMA ReceiveSegKeeps ==
    ASSUME TInv, NEW p \in segs, ReceiveSeg(p)
    PROVE  TInv' /\ UNCHANGED <<tx, last, plays>>
<1>1. Taken(p) /\ UNCHANGED <<tx, pacer, acks>> /\ (Drop(p) \/ Arrive(p))
  BY DEF ReceiveSeg
<1>2. p \in Packet /\ p <= tx.seed /\ segs' \subseteq segs
  BY <1>1, SegsArrive
<1>3. RInv
  BY DEF TInv
<1>4. /\ RInv' /\ rx.base <= rx'.base /\ rx'.max <= tx.seed /\ UNCHANGED <<last, plays>>
  <2>1. CASE Drop(p)
    <3>1. UNCHANGED receiverVars
      BY <2>1 DEF Drop
    <3>2. rx' = rx /\ RInv'
      BY <1>3, <3>1 DEF RInv, receiverVars
    <3> QED BY <3>1, <3>2, TInvNumbers DEF receiverVars
  <2>2. CASE Arrive(p)
    <3>1. /\ RInv' /\ rx.base <= rx'.base /\ (rx'.max = rx.max \/ rx'.max = p)
          /\ UNCHANGED <<last, plays>>
      BY <1>2, <1>3, <2>2, ArriveKeeps DEF Arrive
    <3> QED BY <1>2, <3>1, TInvNumbers
  <2> QED BY <1>1, <2>1, <2>2
<1>5. TInv'
  BY <1>1, <1>2, <1>4, ReceiverSideKeeps
<1> QED BY <1>1, <1>4, <1>5

LEMMA ReceiveAndAckKeeps ==
    ASSUME TInv, NEW p \in segs, NEW nacks \in Nacks(Put(rx, p)), ReceiveAndAck(p, nacks)
    PROVE  TInv' /\ UNCHANGED <<tx, last, plays>>
<1>1. /\ Taken(p) /\ UNCHANGED <<tx, pacer>> /\ ArriveAndAck(p, nacks)
      /\ SendAck("SEG_ACK", rx'.base, nacks)
  BY DEF ReceiveAndAck
<1>2. p \in Packet /\ p <= tx.seed /\ segs' \subseteq segs
  BY <1>1, SegsArrive
<1>3. RInv
  BY DEF TInv
<1>4. /\ RInv' /\ rx.base <= rx'.base /\ (rx'.max = rx.max \/ rx'.max = p)
  BY <1>1, <1>2, <1>3, ArriveAndAckKeeps
<1>5. rx'.max <= tx.seed
  BY <1>2, <1>4, TInvNumbers
<1>6. \A m \in acks' : m \in acks \/ m.base = rx'.base
  BY <1>1 DEF SendAck
<1>7. TInv'
  BY <1>1, <1>2, <1>4, <1>5, <1>6, ReceiverSideKeeps
<1>8. UNCHANGED <<last, plays>>
  BY <1>1 DEF ArriveAndAck
<1> QED BY <1>1, <1>7, <1>8

LEMMA HeartbeatAckKeeps ==
    ASSUME TInv, NEW nacks \in Nacks(rx), HeartbeatAck(nacks)
    PROVE  TInv' /\ UNCHANGED <<tx, last, plays>>
<1>1. /\ TimerAck(nacks) /\ UNCHANGED <<tx, pacer, segs, faults>>
      /\ SendAck("SEG_ACK", rx'.base, nacks)
  BY DEF HeartbeatAck
<1>2. RInv
  BY DEF TInv
<1>3. RInv' /\ rx.base <= rx'.base /\ rx'.max = rx.max
  BY <1>1, <1>2, TimerAckKeeps
<1>4. rx'.max <= tx.seed
  BY <1>3, TInvNumbers
<1>5. \A m \in acks' : m \in acks \/ m.base = rx'.base
  BY <1>1 DEF SendAck
<1>6. TInv'
  BY <1>1, <1>3, <1>4, <1>5, ReceiverSideKeeps
<1>7. UNCHANGED <<last, plays>>
  BY <1>1 DEF TimerAck
<1> QED BY <1>1, <1>6, <1>7

\* A frame that is played was put: its last packet came from the sender.
LEMMA WatchKeeps ==
    ASSUME TInv, Watch
    PROVE  /\ TInv' /\ tx' = tx
           /\ \/ UNCHANGED <<last, plays>>
              \/ last' \in last + 1 .. tx.frame /\ plays' = plays + 1
<1>1. RInv /\ tx' = tx /\ UNCHANGED transportVars
  BY DEF TInv, Watch, transportVars
<1>2. CASE Trim
  <2>1. RInv' /\ rx'.base = rx.base /\ rx'.max = rx.max /\ UNCHANGED <<last, plays>>
    BY <1>1, <1>2, TrimKeeps DEF Trim
  <2>2. TInv'
    BY <1>1, <2>1, TInvNumbers, ReceiverSideKeeps DEF transportVars
  <2> QED BY <1>1, <2>1, <2>2
<1>3. ASSUME NEW late \in BOOLEAN, Play(late)
      PROVE  TInv' /\ last' \in last + 1 .. tx.frame /\ plays' = plays + 1
  <2>1. /\ RInv' /\ rx'.base = rx.base /\ rx'.max = rx.max /\ got' = got
        /\ last < last' /\ plays' = plays + 1 /\ last' \in Frame /\ LastId[last'] \in got
    BY <1>1, <1>3, PlayKeeps
  <2>2. TInv'
    BY <1>1, <2>1, TInvNumbers, ReceiverSideKeeps DEF transportVars
  <2>3. LastId[last'] <= rx.max
    BY <1>1, <2>1 DEF RInv, Sound
  <2>4. /\ last' \in 0 .. MaxFrame /\ last' \in Nat /\ last \in Nat
        /\ tx.frame \in 0 .. MaxFrame /\ tx.seed = LastId[tx.frame]
    BY <1>1, <2>1, Constants DEF TInv, RInv, Frame
  <2>5. last' <= tx.frame
    <3> SUFFICES ASSUME tx.frame < last' PROVE FALSE
      BY <2>4, TInvNumbers
    <3>1. LastId[tx.frame] < LastId[last']
      BY <2>4, LastIdGrows
    <3>2. LastId[last'] \in Nat
      BY <2>4, LastIdIs
    <3> QED BY <2>3, <2>4, <3>1, <3>2, TInvNumbers
  <2> QED BY <2>1, <2>2, <2>4, <2>5, TInvNumbers
<1> QED BY <1>1, <1>2, <1>3 DEF Watch

LEMMA TransportStarts == TransportInit => TInv
<1> SUFFICES ASSUME TransportInit PROVE TInv
  OBVIOUS
<1>1. RInv /\ rx = NewReceiver /\ LastId[0] = 0 /\ MaxFrame \in Nat
  BY ReceiverStarts, LastIdIs, Constants DEF TransportInit, ReceiverInit
<1>2. rx.base = 0 /\ rx.max = 0
  BY <1>1 DEF NewReceiver
<1> QED BY <1>1, <1>2 DEF TransportInit, TInv

\* A step of the transport, seen by the two applications.
ChannelStep == \/ tx'.frame = tx.frame + 1 /\ tx.frame < MaxFrame /\ UNCHANGED <<last, plays>>
               \/ last' \in last + 1 .. tx.frame /\ plays' = plays + 1 /\ tx'.frame = tx.frame
               \/ tx'.frame = tx.frame /\ UNCHANGED <<last, plays>>

LEMMA TransportSteps ==
    ASSUME TInv, [TransportNext]_allVars
    PROVE  TInv' /\ ChannelStep
<1>1. CASE UNCHANGED allVars
  BY <1>1 DEF TInv, RInv, allVars, receiverVars, transportVars, ChannelStep
<1>2. CASE PutFrame
  BY <1>2, PutFrameKeeps DEF ChannelStep, receiverVars
<1>3. CASE Pace
  BY <1>3, PaceKeeps DEF ChannelStep, receiverVars
<1>4. CASE SendFeedback
  BY <1>4, SendFeedbackKeeps DEF ChannelStep, receiverVars
<1>5. CASE Watch
  BY <1>5, WatchKeeps DEF ChannelStep
<1>6. CASE Network
  BY <1>6, NetworkKeeps DEF ChannelStep, receiverVars
<1>7. ASSUME NEW m \in acks, HandleAck(m) \/ HandleFeedback(m) PROVE TInv' /\ ChannelStep
  BY <1>7, AnswerKeeps DEF ChannelStep, receiverVars
<1>8. ASSUME NEW p \in segs, ReceiveSeg(p) PROVE TInv' /\ ChannelStep
  BY <1>8, ReceiveSegKeeps DEF ChannelStep
<1>9. ASSUME NEW p \in segs, NEW nacks \in Nacks(Put(rx, p)), ReceiveAndAck(p, nacks)
      PROVE  TInv' /\ ChannelStep
  BY <1>9, ReceiveAndAckKeeps DEF ChannelStep
<1>10. ASSUME NEW nacks \in Nacks(rx), HeartbeatAck(nacks) PROVE TInv' /\ ChannelStep
  BY <1>10, HeartbeatAckKeeps DEF ChannelStep
<1> QED BY <1>1, <1>2, <1>3, <1>4, <1>5, <1>6, <1>7, <1>8, <1>9, <1>10 DEF TransportNext

\* The inductive invariant of the media path: no step of either end or of the network
\* breaks TInv.
THEOREM TransportInvariant == TransportSpec => []TInv
<1>1. TInv /\ [TransportNext]_allVars => TInv'
  BY TransportSteps
<1> QED BY TransportStarts, <1>1, PTL DEF TransportSpec

\* The windows of sim_sender_update_base and of the receiver fit, for any number of
\* packets in flight, lost, repeated or overtaken: the sender holds exactly what was put
\* and not acknowledged, and whatever the receiver may still ask for.
THEOREM WindowsAlwaysFit == TransportSpec => []WindowsFit
<1>1. TInv => WindowsFit
  <2> SUFFICES ASSUME TInv PROVE WindowsFit
    OBVIOUS
  <2>1. CacheIsWindow
    BY DEF TInv, CacheIsWindow
  <2>2. SenderBehindReceiver
    BY TInvNumbers DEF SenderBehindReceiver
  <2>3. ASSUME NEW p \in DOMAIN rx.loss, p > rx.base PROVE p \in tx.cache
    <3>1. p < rx.max /\ p \in Packet
      BY DEF TInv, RInv, Sound, IsReceiver
    <3>2. p \in Nat
      BY <3>1, TInvNumbers DEF Packet
    <3> QED BY <2>1, <2>3, <3>1, <3>2, TInvNumbers DEF CacheIsWindow
  <2> QED BY <2>1, <2>2, <2>3 DEF WindowsFit, NacksCanBeAnswered
<1> QED BY TransportInvariant, <1>1, PTL

\* A packet that sim_sender_put queued stays in the sender's cache until the receiver
\* has stored it or passed over its frame.
THEOREM PacketsDoNotVanish == TransportSpec => []NothingVanishes
<1>1. TInv => NothingVanishes
  <2> SUFFICES ASSUME TInv, NEW p \in 1 .. tx.seed
               PROVE  p \in got \/ FrameOf[p] <= rx.cache.min_fid \/ p \in tx.cache
    BY DEF NothingVanishes
  <2>1. p \in Packet /\ p \in Nat
    BY TInvNumbers
  <2>2. CASE p <= rx.base
    BY <2>1, <2>2 DEF TInv, RInv, Sound
  <2>3. CASE ~ (p <= rx.base)
    BY <2>1, <2>3, TInvNumbers DEF TInv
  <2> QED BY <2>2, <2>3
<1> QED BY TransportInvariant, <1>1, PTL

\* The media path implements the FrameChannel: what sim_session_recv_video gives are
\* frames that sim_session_send_video was given, in their order, none twice.
THEOREM TransportIsChannel == TransportSpec => ImplementsChannel
<1>1. TransportInit => Channel!ChannelInit
  BY DEF TransportInit, ReceiverInit, Channel!ChannelInit
<1>2. TInv /\ [TransportNext]_allVars =>
          [Channel!Send \/ Channel!Show]_(Channel!channelVars)
  <2> SUFFICES ASSUME TInv, [TransportNext]_allVars
               PROVE  [Channel!Send \/ Channel!Show]_(Channel!channelVars)
    OBVIOUS
  <2>1. ChannelStep
    BY TransportSteps
  <2> QED BY <2>1 DEF ChannelStep, Channel!Send, Channel!Show, Channel!channelVars
<1> QED BY <1>1, <1>2, TransportInvariant, PTL
        DEF TransportSpec, ImplementsChannel, Channel!ChannelSpec
=============================================================================
