--------------------------- MODULE Multipath_proofs ---------------------------
(***************************************************************************)
(* Safety of Multipath for any paths, sizes, budgets and length of the     *)
(* video: every path has one pacer, sends every packet in order, fails no  *)
(* assertion, and never owes more than one packet.  The last needs that    *)
(* the bytes of a queue, a fold in the model, are a sum.                   *)
(***************************************************************************)
EXTENDS Multipath, SequenceTheorems, NumberFacts

Packet == [id : Nat, len : Int]

\* The two are one number, and so is every packet in the order they were made.
Types ==
    /\ pathState \in [Paths -> States]
    /\ rxConEvent \in [Paths -> BOOLEAN]
    /\ pacers \in [Paths -> Int]
    /\ queue \in [Paths -> Seq(Packet)] /\ sent \in [Paths -> Seq(Nat)]
    /\ connects \in [Paths -> Int] /\ acks \in [Paths -> Int]
    /\ packetId \in Nat
    /\ started \in BOOLEAN /\ stopped \in BOOLEAN /\ aborted \in BOOLEAN

\* The phases of the application are those of its paths.
Phases ==
    \A p \in Paths :
        /\ pathState[p] = "idle" <=> ~started
        /\ ~started => acks[p] = 0 /\ connects[p] = 0
        /\ pathState[p] = "deleted" <=> stopped

\* A path that is not connected has nothing; what a connected one has and has sent
\* are the last packets, in their order, and the buffer has those that it has.
Holds(p) ==
    /\ pathState[p] # "connected" => queue[p] = <<>> /\ sent[p] = <<>>
    /\ \A i \in 1 .. Len(sent[p]) :
           sent[p][i] = packetId - Len(sent[p]) - Len(queue[p]) + i - 1
    /\ \A i \in 1 .. Len(queue[p]) : queue[p][i].id = packetId - Len(queue[p]) + i - 1
Buffered(p) == \A i \in 1 .. Len(queue[p]) : queue[p][i].id \in txBuffer
Queues == \A p \in Paths : Holds(p) /\ Buffered(p)

IInv == Types /\ Phases /\ OnePacer /\ Queues /\ AssertionsHold

\* The sizes of the pieces of a frame are a sequence of numbers.
LEMMA NewPacketsAre ==
    ASSUME packetId \in Nat
    PROVE  /\ NewPackets \in Seq(Packet) /\ Len(NewPackets) \in Nat
           /\ \A i \in 1 .. Len(NewPackets) : NewPackets[i].id = packetId + i - 1
           /\ DOMAIN NewPackets = 1 .. Len(NewPackets)
<1> DEFINE sizes == FrameSplit(FrameBytes)
           packet(i) == [id |-> packetId + i - 1, len |-> sizes[i] + HeaderLen]
<1>1. FrameBytes \in Nat /\ SegmentSize \in Nat \ {0} /\ HeaderLen \in Nat
  BY MultipathAssumption
<1>2. sizes \in Seq(Nat)
  <2>1. CASE FrameBytes < SegmentSize
    BY <1>1, <2>1 DEF FrameSplit
  <2>2. CASE ~ (FrameBytes < SegmentSize)
    <3> DEFINE n == FrameBytes \div SegmentSize
               rest == FrameBytes % SegmentSize
               whole == [i \in 1 .. n |-> SegmentSize]
               last == IF rest > 0 THEN <<rest>> ELSE <<>>
    <3>1. n \in Nat /\ rest \in Nat
      BY <1>1
    <3>2. sizes = whole \o last
      BY <2>2 DEF FrameSplit
    <3> HIDE DEF n, rest
    <3>3. whole \in Seq(Nat)
      BY <1>1, <3>1
    <3>4. last \in Seq(Nat)
      BY <3>1
    <3> HIDE DEF whole, last
    <3> QED BY <3>2, <3>3, <3>4, ConcatProperties
  <2> QED BY <2>1, <2>2
<1>3. Len(sizes) \in Nat /\ DOMAIN sizes = 1 .. Len(sizes) /\ \A i \in 1 .. Len(sizes) : sizes[i] \in Nat
  BY <1>2, LenProperties, ElementOfSeq
<1>4. NewPackets = [i \in 1 .. Len(sizes) |-> packet(i)]
  BY <1>3 DEF NewPackets
<1> HIDE DEF sizes
<1>5. \A i \in 1 .. Len(sizes) : packet(i) \in Packet /\ packet(i).id = packetId + i - 1
  BY <1>1, <1>3 DEF Packet
<1> HIDE DEF packet
<1>6. NewPackets \in Seq(Packet) /\ Len(NewPackets) = Len(sizes)
  BY <1>3, <1>4, <1>5
<1> QED BY <1>3, <1>4, <1>5, <1>6

\* PaceCallback sends some number of the packets that are queued.
LEMMA SendsIs ==
    ASSUME NEW p \in Paths, Types
    PROVE  /\ Sends(p) \in 0 .. Len(queue[p])
           /\ \A m \in 0 .. Sends(p) - 1 : ~ (Left(p, m) < 0)
           /\ Sends(p) < Len(queue[p]) => Left(p, Sends(p)) < 0
<1> DEFINE len == Len(queue[p])
           Stops == {n \in 0 .. len : n = len \/ Left(p, n) < 0}
           Good(n) == n \in Stops /\ \A m \in 0 .. n - 1 : m \notin Stops
<1>1. len \in Nat
  BY LenProperties DEF Types
<1> HIDE DEF len
<1>2. \E n \in Nat : Good(n)
  <2>1. SUFFICES ASSUME \A n \in Nat : ~Good(n) PROVE FALSE
    OBVIOUS
  <2>2. Stops \subseteq Nat /\ len \in Stops
    BY <1>1
  <2>3. \E n \in Stops : \A m \in Stops : n <= m
    BY <2>2, LeastNatural
  <2>4. PICK n \in Stops : \A m \in Stops : n <= m
    BY <2>3
  <2>5. n \in Nat /\ \A m \in 0 .. n - 1 : m \notin Stops
    BY <2>2, <2>4
  <2> QED BY <2>1, <2>4, <2>5
<1>3. PICK n \in Nat : Good(n)
  BY <1>2
<1>4. /\ n \in 0 .. len
      /\ \A m \in 0 .. n - 1 : ~ (Left(p, m) < 0)
      /\ n < len => Left(p, n) < 0
  BY <1>1, <1>3
<1>5. \E k \in 0 .. Len(queue[p]) :
        /\ \A m \in 0 .. k - 1 : ~ (Left(p, m) < 0)
        /\ k < Len(queue[p]) => Left(p, k) < 0
  BY <1>4 DEF len
<1> QED BY <1>5 DEF Sends

\* A sequence and what is left of it behind its first n.
LEMMA RestIs ==
    ASSUME NEW S, NEW s \in Seq(S), NEW n \in 0 .. Len(s), NEW r, r = SubSeq(s, n + 1, Len(s))
    PROVE  /\ r \in Seq(S) /\ Len(r) = Len(s) - n
           /\ \A i \in 1 .. Len(r) : r[i] = s[n + i]
<1>1. Len(s) \in Nat /\ n \in Nat
  BY LenProperties
<1>2. \A i \in n + 1 .. Len(s) : s[i] \in S
  BY <1>1, ElementOfSeq
<1>3. r \in Seq(S) /\ Len(r) = IF n + 1 <= Len(s) THEN Len(s) - (n + 1) + 1 ELSE 0
  BY <1>1, <1>2, SubSeqProperties
<1>4. \A i \in 1 .. Len(s) - (n + 1) + 1 : r[i] = s[(n + 1) + i - 1]
  BY <1>1, <1>2, SubSeqProperties
<1>5. Len(r) = Len(s) - n
  BY <1>1, <1>3
<1>6. ASSUME NEW i \in 1 .. Len(r) PROVE r[i] = s[n + i]
  <2>1. i \in 1 .. Len(s) - (n + 1) + 1 /\ (n + 1) + i - 1 = n + i
    BY <1>1, <1>5
  <2> QED BY <1>4, <2>1
<1> QED BY <1>3, <1>5, <1>6

-----------------------------------------------------------------------------
(* The steps.                                                              *)

LEMMA InitIInv == Init => IInv
<1>1. SUFFICES ASSUME Init PROVE IInv
  OBVIOUS
<1>2. Types
  <2>1. <<>> \in Seq(Packet) /\ <<>> \in Seq(Nat)
    BY EmptySeq
  <2>2. queue \in [Paths -> Seq(Packet)] /\ sent \in [Paths -> Seq(Nat)]
    BY <1>1, <2>1 DEF Init
  <2>3. started \in BOOLEAN /\ stopped \in BOOLEAN /\ aborted \in BOOLEAN
    BY <1>1 DEF Init
  <2> QED BY <1>1, <2>2, <2>3 DEF Init, Types, States
<1>3. Queues
  <2>1. \A p \in Paths : queue[p] = <<>> /\ sent[p] = <<>>
    BY <1>1 DEF Init
  <2> QED BY <2>1 DEF Queues, Holds, Buffered
<1> QED BY <1>1, <1>2, <1>3 DEF Init, IInv, Phases, OnePacer, AssertionsHold

\* A step that leaves the queues alone, and connects no path that has something.
LEMMA QueuesKept ==
    ASSUME Queues, UNCHANGED <<queue, sent, packetId, txBuffer>>,
           \A p \in Paths : pathState[p] = "connected" => pathState'[p] = "connected"
    PROVE  Queues'
BY DEF Queues, Holds, Buffered

\* A step of the network, and of a timer that only sends.
LEMMA NetworkStep ==
    ASSUME IInv, connects' \in [Paths -> Int], acks' \in [Paths -> Int],
           UNCHANGED <<started, stopped, pathState, pacers, queue, sent, genVars>>,
           rxConEvent' \in [Paths -> BOOLEAN], aborted' \in BOOLEAN, started,
           \A p \in Paths : rxConEvent'[p] = rxConEvent[p] \/ pathState[p] = "deleted",
           aborted' => stopped \/ aborted
    PROVE  IInv'
<1>1. UNCHANGED <<packetId, txBuffer>>
  BY DEF genVars
<1>2. Types'
  BY <1>1 DEF IInv, Types
<1>3. Phases'
  BY DEF IInv, Phases
<1>4. OnePacer'
  BY DEF IInv, OnePacer
<1>5. Queues'
  BY <1>1, QueuesKept DEF IInv
<1>6. AssertionsHold'
  BY DEF IInv, AssertionsHold
<1> QED BY <1>2, <1>3, <1>4, <1>5, <1>6 DEF IInv

\* Nothing is on the way before the application starts.
LEMMA OnTheWay ==
    ASSUME IInv, NEW p \in Paths, connects[p] > 0 \/ acks[p] > 0
    PROVE  started
BY DEF IInv, Phases

LEMMA Counts ==
    ASSUME NEW f \in [Paths -> Int], NEW p \in Paths
    PROVE  More(f, p) \in [Paths -> Int] /\ Fewer(f, p) \in [Paths -> Int]
<1>1. NetCap \in Int
  BY MultipathAssumption
<1>2. Least(f[p] + 1, NetCap) \in Int /\ f[p] - 1 \in Int
  BY <1>1 DEF Least
<1> QED BY <1>2 DEF More, Fewer

LEMMA StartStep ==
    ASSUME IInv, Start
    PROVE  IInv'
<1>1. /\ ~started /\ started'
      /\ pathState' = [p \in Paths |-> "connecting"]
      /\ rxConEvent' = [p \in Paths |-> TRUE] /\ connects' = [p \in Paths |-> 1]
      /\ UNCHANGED <<stopped, pacers, queue, sent, acks, packetId, txBuffer, aborted>>
      /\ started' \in BOOLEAN
  BY DEF Start, genVars
<1>2. \A p \in Paths : pathState[p] = "idle"
  BY <1>1 DEF IInv, Phases
<1>3. Types'
  BY <1>1 DEF IInv, Types, States
<1>4. ~stopped
  <2>1. PICK p \in Paths : TRUE
    BY MultipathAssumption
  <2> QED BY <1>2, <2>1 DEF IInv, Phases
<1>5. Phases'
  BY <1>1, <1>4 DEF Phases
<1>6. OnePacer'
  BY <1>1, <1>2 DEF IInv, OnePacer
<1>7. Queues'
  BY <1>1, <1>2, QueuesKept DEF IInv
<1> QED BY <1>1, <1>3, <1>5, <1>6, <1>7 DEF IInv, AssertionsHold

LEMMA StopStep ==
    ASSUME IInv, Stop
    PROVE  IInv'
<1>1. /\ started /\ stopped' /\ stopped' \in BOOLEAN
      /\ pathState' = [p \in Paths |-> "deleted"]
      /\ pacers' = [p \in Paths |-> 0]
      /\ queue' = [p \in Paths |-> <<>>] /\ sent' = [p \in Paths |-> <<>>]
      /\ UNCHANGED <<started, rxConEvent, connects, acks, packetId, txBuffer, aborted>>
  BY DEF Stop, netVars, genVars
<1>2. Types'
  BY <1>1, EmptySeq DEF IInv, Types, States
<1>3. Queues'
  <2>1. \A p \in Paths : queue'[p] = <<>> /\ sent'[p] = <<>>
    BY <1>1
  <2> QED BY <2>1 DEF Queues, Holds, Buffered
<1>4. Phases' /\ OnePacer' /\ AssertionsHold'
  BY <1>1 DEF IInv, Phases, OnePacer, AssertionsHold
<1> QED BY <1>2, <1>3, <1>4 DEF IInv

\* The answer to a CONNECT: a path that was connecting has nothing yet.
LEMMA HandleAckStep ==
    ASSUME IInv, NEW p \in Paths, HandleAck(p)
    PROVE  IInv'
<1>1. /\ acks[p] > 0 /\ acks' = Fewer(acks, p) /\ Found(Address(p)) = {p}
      /\ pathState' = [pathState EXCEPT ![p] = "connected"]
      /\ rxConEvent' = [rxConEvent EXCEPT ![p] = FALSE]
      /\ pacers' = [pacers EXCEPT ![p] = IF PacerStarts(p) THEN @ + 1 ELSE @]
      /\ UNCHANGED <<started, stopped, queue, sent, connects, packetId, txBuffer, aborted>>
  BY DEF HandleAck
<1>2. pathState[p] # "deleted"
  BY <1>1 DEF Found, Existing
<1>3. started /\ ~stopped /\ (pathState[p] = "connecting" \/ pathState[p] = "connected")
  BY <1>1, <1>2, OnTheWay DEF IInv, Phases, Types, States
<1>4. Types'
  <2>1. acks' \in [Paths -> Int]
    BY <1>1, Counts DEF IInv, Types
  <2>2. pacers' \in [Paths -> Int]
    BY <1>1 DEF IInv, Types
  <2>3. pathState' \in [Paths -> States] /\ rxConEvent' \in [Paths -> BOOLEAN]
    BY <1>1 DEF IInv, Types, States
  <2> QED BY <1>1, <2>1, <2>2, <2>3 DEF IInv, Types
<1>5. Phases'
  BY <1>1, <1>3 DEF IInv, Phases, Types
<1>6. OnePacer'
  <2>1. ASSUME NEW q \in Paths
        PROVE  /\ pacers'[q] = IF pathState'[q] = "connected" THEN 1 ELSE 0
               /\ pathState'[q] = "connecting" => rxConEvent'[q]
               /\ pathState'[q] = "connected" => ~rxConEvent'[q]
    <3>1. CASE q # p
      BY <1>1, <3>1 DEF IInv, OnePacer, Types
    <3>2. CASE q = p
      BY <1>1, <1>3, <3>2 DEF IInv, OnePacer, Types, PacerStarts
    <3> QED BY <3>1, <3>2
  <2> QED BY <2>1 DEF OnePacer
<1>7. Queues'
  BY <1>1, QueuesKept DEF IInv, Types
<1> QED BY <1>1, <1>4, <1>5, <1>6, <1>7 DEF IInv, AssertionsHold

\* GetPath finds a path that is there, as long as the address of the path is not in
\* comp_path's order before itself.
LEMMA PathIsFound ==
    ASSUME RemotePort <= LocalPort, NEW p \in Existing
    PROVE  p \in Found(Address(p))
<1>1. p \in Nat
  BY MultipathAssumption DEF Existing
<1>2. ~ Before(Address(p), Address(p))
  BY <1>1, MultipathAssumption DEF Before, Address
<1> QED BY <1>2 DEF Found

LEMMA HandleUnknownAckStep ==
    ASSUME RemotePort <= LocalPort, IInv, NEW p \in Paths, HandleUnknownAck(p)
    PROVE  IInv'
<1>1. /\ acks[p] > 0 /\ acks' = Fewer(acks, p) /\ Found(Address(p)) = {} /\ aborted'
      /\ UNCHANGED <<started, stopped, pathState, pacers, queue, sent, genVars, rxConEvent, connects>>
      /\ aborted' \in BOOLEAN
  BY DEF HandleUnknownAck, pathVars
<1>2. pathState[p] = "deleted"
  BY <1>1, PathIsFound DEF Existing
<1>3. stopped /\ started
  BY <1>1, <1>2, OnTheWay DEF IInv, Phases
<1>4. acks' \in [Paths -> Int] /\ connects' \in [Paths -> Int] /\ rxConEvent' \in [Paths -> BOOLEAN]
  BY <1>1, Counts DEF IInv, Types
<1> QED BY <1>1, <1>3, <1>4, NetworkStep

\* Schedule: the pieces of a frame go behind what the connected paths have.
LEMMA FakePacketStep ==
    ASSUME IInv, FakePacket
    PROVE  IInv'
<1> DEFINE new == NewPackets
           n == Len(NewPackets)
<1>1. /\ packetId' = packetId + n
      /\ txBuffer' = txBuffer \cup {new[i].id : i \in DOMAIN new}
      /\ queue' = [p \in Paths |-> IF p \in Targets THEN queue[p] \o new ELSE queue[p]]
      /\ UNCHANGED <<started, stopped, pathState, rxConEvent, pacers, sent, connects, acks, aborted>>
  BY DEF FakePacket, netVars
<1>2. /\ packetId \in Nat /\ queue \in [Paths -> Seq(Packet)] /\ sent \in [Paths -> Seq(Nat)]
  BY DEF IInv, Types
<1>3. /\ new \in Seq(Packet) /\ n \in Nat /\ Len(new) = n /\ DOMAIN new = 1 .. n
      /\ \A i \in 1 .. n : new[i].id = packetId + i - 1
  BY <1>2, NewPacketsAre
<1> HIDE DEF new, n
<1>4. ASSUME NEW p \in Paths
      PROVE  /\ queue[p] \in Seq(Packet) /\ Len(queue[p]) \in Nat
             /\ sent[p] \in Seq(Nat) /\ Len(sent[p]) \in Nat
  BY <1>2, LenProperties
<1>5. ASSUME NEW p \in Paths, pathState[p] = "connected"
      PROVE  /\ queue'[p] \in Seq(Packet) /\ Len(queue'[p]) = Len(queue[p]) + n
             /\ \A i \in 1 .. Len(queue[p]) + n :
                    queue'[p][i] = IF i <= Len(queue[p]) THEN queue[p][i] ELSE new[i - Len(queue[p])]
  <2>1. queue'[p] = queue[p] \o new
    BY <1>1, <1>5 DEF Targets, Connected
  <2> DEFINE q == queue[p]
  <2>2. q \in Seq(Packet)
    BY <1>4
  <2> HIDE DEF q
  <2>3. /\ q \o new \in Seq(Packet) /\ Len(q \o new) = Len(q) + n
        /\ \A i \in 1 .. Len(q) + n : (q \o new)[i] = IF i <= Len(q) THEN q[i] ELSE new[i - Len(q)]
    BY <1>3, <2>2, ConcatProperties
  <2> QED BY <2>1, <2>3 DEF q
<1>6. ASSUME NEW p \in Paths, pathState[p] # "connected" PROVE queue'[p] = queue[p]
  BY <1>1, <1>6 DEF Targets, Connected
<1>7. Types'
  <2>1. \A p \in Paths : queue'[p] \in Seq(Packet)
    BY <1>4, <1>5, <1>6
  <2>2. queue' \in [Paths -> Seq(Packet)]
    BY <1>1, <2>1
  <2>3. packetId' \in Nat
    BY <1>1, <1>2, <1>3
  <2> QED BY <1>1, <2>2, <2>3 DEF IInv, Types
<1>8. ASSUME NEW p \in Paths PROVE (Holds(p) /\ Buffered(p))'
  <2>0. Holds(p) /\ Buffered(p)
    BY DEF IInv, Queues
  <2>1. CASE pathState[p] # "connected"
    <3>1. queue'[p] = <<>> /\ sent'[p] = <<>>
      BY <1>1, <1>6, <2>0, <2>1 DEF Holds
    <3> QED BY <3>1 DEF Holds, Buffered
  <2>2. CASE pathState[p] = "connected"
    <3>1. pathState'[p] = "connected" /\ sent'[p] = sent[p]
      BY <1>1, <2>2
    <3>2. Len(queue'[p]) = Len(queue[p]) + n
      BY <1>5, <2>2
    <3>3. \A i \in 1 .. Len(sent'[p]) :
              sent'[p][i] = packetId' - Len(sent'[p]) - Len(queue'[p]) + i - 1
      BY <1>1, <1>2, <1>3, <1>4, <2>0, <3>1, <3>2 DEF Holds
    <3>4. ASSUME NEW i \in 1 .. Len(queue'[p])
          PROVE  /\ queue'[p][i].id = packetId' - Len(queue'[p]) + i - 1
                 /\ queue'[p][i].id \in txBuffer'
      <4>0. packetId' - Len(queue'[p]) + i - 1 = packetId - Len(queue[p]) + i - 1
        <5>1. packetId' = packetId + n /\ packetId \in Int /\ n \in Int /\ Len(queue[p]) \in Int
          BY <1>1, <1>2, <1>3, <1>4
        <5> QED BY <3>2, <5>1
      <4>1. i \in 1 .. Len(queue[p]) + n
        BY <3>2
      <4>2. CASE i <= Len(queue[p])
        <5>1. i \in 1 .. Len(queue[p]) /\ queue'[p][i] = queue[p][i]
          BY <1>4, <1>5, <2>2, <4>1, <4>2
        <5>2. queue[p][i].id = packetId - Len(queue[p]) + i - 1 /\ queue[p][i].id \in txBuffer
          BY <2>0, <5>1 DEF Holds, Buffered
        <5>3. txBuffer \subseteq txBuffer'
          BY <1>1
        <5> QED BY <4>0, <5>1, <5>2, <5>3
      <4>3. CASE ~ (i <= Len(queue[p]))
        <5> DEFINE j == i - Len(queue[p])
        <5>0. j \in 1 .. n
          BY <1>3, <1>4, <4>1, <4>3
        <5>1. j \in 1 .. n /\ queue'[p][i] = new[j]
          BY <1>5, <2>2, <4>1, <4>3, <5>0
        <5>2. new[j].id = packetId + j - 1 /\ new[j].id \in txBuffer'
          BY <1>1, <1>3, <5>1
        <5>3. j = i - Len(queue[p]) /\ j \in Int /\ Len(queue[p]) \in Int /\ packetId \in Int
          BY <1>2, <1>4, <5>0
        <5> HIDE DEF j
        <5>4. packetId - Len(queue[p]) + i - 1 = packetId + j - 1
          BY <5>3
        <5> QED BY <4>0, <5>1, <5>2, <5>4
      <4> QED BY <4>2, <4>3
    <3> QED BY <3>1, <3>3, <3>4 DEF Holds, Buffered
  <2> QED BY <2>1, <2>2
<1>9. Phases' /\ OnePacer' /\ AssertionsHold'
  BY <1>1 DEF IInv, Phases, OnePacer, AssertionsHold
<1> QED BY <1>7, <1>8, <1>9 DEF IInv, Queues

\* Path::PaceCallback: packets move from the queue to those that are sent; none is
\* taken out of the buffer, so that none that is queued is missed.
LEMMA PaceCallbackStep ==
    ASSUME IInv, NEW p \in Paths, PaceCallback(p)
    PROVE  IInv'
<1> DEFINE n == Sends(p)
           q == queue[p]
           s == sent[p]
           ids == {q[i].id : i \in 1 .. n}
           out == [i \in 1 .. n |-> q[i].id]
<1>1. /\ pacers[p] > 0
      /\ aborted' = ~(ids \subseteq txBuffer)
      /\ txBuffer' = txBuffer \ Erased(ids)
      /\ sent' = [sent EXCEPT ![p] = s \o out]
      /\ queue' = [queue EXCEPT ![p] = SubSeq(q, n + 1, Len(q))]
      /\ UNCHANGED <<started, stopped, pathState, rxConEvent, pacers, connects, acks, packetId>>
  BY DEF PaceCallback, netVars
<1>2. n \in 0 .. Len(q)
  BY SendsIs DEF IInv
<1>3. /\ packetId \in Nat /\ q \in Seq(Packet) /\ s \in Seq(Nat)
      /\ queue \in [Paths -> Seq(Packet)] /\ sent \in [Paths -> Seq(Nat)]
      /\ Len(q) \in Nat /\ Len(s) \in Nat
  BY LenProperties DEF IInv, Types
<1>4. Holds(p) /\ Buffered(p)
  BY DEF IInv, Queues
<1> DEFINE r == SubSeq(q, n + 1, Len(q))
<1> HIDE DEF n
<1>5. /\ r \in Seq(Packet) /\ Len(r) = Len(q) - n
      /\ \A i \in 1 .. Len(r) : r[i] = q[n + i]
  BY <1>2, <1>3, RestIs
<1>6. out \in Seq(Nat) /\ Len(out) = n /\ \A i \in 1 .. n : out[i] = q[i].id
  <2>1. \A i \in 1 .. n : i \in 1 .. Len(q) /\ q[i] \in Packet
    BY <1>2, <1>3, ElementOfSeq
  <2>2. \A i \in 1 .. n : q[i].id \in Nat
    BY <2>1 DEF Packet
  <2>3. n \in Nat
    BY <1>2, <1>3
  <2> HIDE DEF q
  <2> QED BY <2>2, <2>3
<1>7. txBuffer' = txBuffer /\ ids \subseteq txBuffer
  <2>1. Erased(ids) = {}
    BY DEF Erased, References
  <2>2. ids \subseteq txBuffer
    BY <1>2, <1>3, <1>4 DEF Buffered
  <2> QED BY <1>1, <2>1, <2>2
<1> HIDE DEF ids, out, r
<1>8. /\ s \o out \in Seq(Nat) /\ Len(s \o out) = Len(s) + n
      /\ \A i \in 1 .. Len(s) + n : (s \o out)[i] = IF i <= Len(s) THEN s[i] ELSE out[i - Len(s)]
  BY <1>3, <1>6, ConcatProperties
<1> DEFINE t == s \o out
<1>9. /\ queue'[p] = r /\ sent'[p] = t
      /\ \A o \in Paths : o # p => queue'[o] = queue[o] /\ sent'[o] = sent[o]
  BY <1>1, <1>3 DEF r
<1>10. ~aborted' /\ aborted' \in BOOLEAN
  BY <1>1, <1>7
<1>11. Types'
  <2>1. queue' \in [Paths -> Seq(Packet)]
    BY <1>1, <1>3, <1>5 DEF r
  <2>2. sent' \in [Paths -> Seq(Nat)]
    BY <1>1, <1>3, <1>8
  <2> QED BY <1>1, <1>10, <2>1, <2>2 DEF IInv, Types
<1>12. (Holds(p) /\ Buffered(p))'
  <2>1. pathState'[p] = "connected"
    BY <1>1 DEF IInv, OnePacer
  <2> HIDE DEF t, q, s
  <2>2. /\ Len(t) = Len(s) + n /\ Len(r) = Len(q) - n /\ n \in Nat /\ n <= Len(q)
        /\ Len(q) \in Nat /\ Len(s) \in Nat
    BY <1>2, <1>3, <1>5, <1>8 DEF t
  <2>3. ASSUME NEW i \in 1 .. Len(t) PROVE t[i] = packetId - Len(t) - Len(r) + i - 1
    <3>1. CASE i <= Len(s)
      <4>1. t[i] = s[i] /\ i \in 1 .. Len(s)
        BY <1>8, <2>2, <3>1 DEF t
      <4>2. s[i] = packetId - Len(s) - Len(q) + i - 1
        BY <1>4, <4>1 DEF Holds, s, q
      <4> QED BY <1>3, <2>2, <4>1, <4>2
    <3>2. CASE ~ (i <= Len(s))
      <4> DEFINE j == i - Len(s)
      <4>1. j \in 1 .. n /\ j \in 1 .. Len(q) /\ i \in 1 .. Len(s) + n
        BY <2>2, <3>2
      <4>2. t[i] = out[j]
        BY <1>8, <3>2, <4>1 DEF t
      <4>3. out[j] = q[j].id
        BY <1>6, <4>1
      <4>4. q[j].id = packetId - Len(q) + j - 1
        BY <1>4, <4>1 DEF Holds, q
      <4>5. j = i - Len(s) /\ j \in Int
        BY <2>2
      <4> HIDE DEF j
      <4>6. packetId - Len(q) + j - 1 = packetId - Len(t) - Len(r) + i - 1
        BY <1>3, <2>2, <4>5
      <4> QED BY <4>2, <4>3, <4>4, <4>6
    <3> QED BY <3>1, <3>2
  <2>4. ASSUME NEW i \in 1 .. Len(r)
        PROVE  r[i].id = packetId - Len(r) + i - 1 /\ r[i].id \in txBuffer
    <3>1. r[i] = q[n + i] /\ n + i \in 1 .. Len(q)
      BY <1>5, <2>2
    <3>2. q[n + i].id = packetId - Len(q) + (n + i) - 1 /\ q[n + i].id \in txBuffer
      BY <1>4, <3>1 DEF Holds, Buffered, q
    <3> QED BY <1>3, <2>2, <3>1, <3>2
  <2> QED BY <1>1, <1>7, <1>9, <2>1, <2>3, <2>4 DEF Holds, Buffered
<1>13. ASSUME NEW o \in Paths, o # p PROVE (Holds(o) /\ Buffered(o))'
  <2>1. Holds(o) /\ Buffered(o)
    BY DEF IInv, Queues
  <2>2. queue'[o] = queue[o] /\ sent'[o] = sent[o]
    BY <1>9, <1>13
  <2> QED BY <1>1, <1>7, <2>1, <2>2 DEF Holds, Buffered
<1>14. Phases' /\ OnePacer' /\ AssertionsHold'
  BY <1>1, <1>10 DEF IInv, Phases, OnePacer, AssertionsHold
<1> QED BY <1>11, <1>12, <1>13, <1>14 DEF IInv, Queues

-----------------------------------------------------------------------------
(* The theorems.                                                           *)

LEMMA StepIInv ==
    ASSUME RemotePort <= LocalPort, IInv, [Next]_vars
    PROVE  IInv'
<1>1. CASE Start
  BY <1>1, StartStep
<1>2. CASE Stop
  BY <1>2, StopStep
<1>3. CASE FakePacket
  BY <1>3, FakePacketStep
<1>4. ASSUME NEW p \in Paths, HandleAck(p) PROVE IInv'
  BY <1>4, HandleAckStep
<1>5. ASSUME NEW p \in Paths, HandleUnknownAck(p) PROVE IInv'
  BY <1>5, HandleUnknownAckStep
<1>6. ASSUME NEW p \in Paths, PaceCallback(p) PROVE IInv'
  BY <1>6, PaceCallbackStep
<1>7. ASSUME NEW p \in Paths, Reconnect(p) \/ Answer(p) \/ LoseConnect(p) \/ LoseAck(p)
      PROVE  IInv'
  <2>1. UNCHANGED <<started, stopped, pathState, pacers, queue, sent, genVars, rxConEvent, aborted>>
    BY <1>7 DEF Reconnect, Answer, LoseConnect, LoseAck, pathVars
  <2>2. /\ connects \in [Paths -> Int] /\ acks \in [Paths -> Int]
        /\ rxConEvent \in [Paths -> BOOLEAN] /\ aborted \in BOOLEAN
    BY DEF IInv, Types
  <2>3. connects' \in [Paths -> Int] /\ acks' \in [Paths -> Int]
    BY <1>7, <2>2, Counts DEF Reconnect, Answer, LoseConnect, LoseAck
  <2>4. started
    <3>1. CASE Reconnect(p)
      BY <3>1 DEF Reconnect, IInv, Phases
    <3>2. CASE Answer(p) \/ LoseConnect(p) \/ LoseAck(p)
      BY <3>2, OnTheWay DEF Answer, LoseConnect, LoseAck
    <3> QED BY <1>7, <3>1, <3>2
  <2> QED BY <2>1, <2>2, <2>3, <2>4, NetworkStep
<1>8. ASSUME NEW p \in Paths, ReconnectDeleted(p) PROVE IInv'
  <2>1. /\ pathState[p] = "deleted"
        /\ UNCHANGED <<started, stopped, pathState, pacers, queue, sent, genVars, acks>>
    BY <1>8 DEF ReconnectDeleted
  <2>2. /\ connects \in [Paths -> Int] /\ acks \in [Paths -> Int]
        /\ rxConEvent \in [Paths -> BOOLEAN] /\ aborted \in BOOLEAN
    BY DEF IInv, Types
  <2>3. connects' \in [Paths -> Int] /\ acks' \in [Paths -> Int]
    BY <1>8, <2>1, <2>2, Counts DEF ReconnectDeleted
  <2>4. /\ rxConEvent' \in [Paths -> BOOLEAN] /\ aborted' \in BOOLEAN
        /\ \A o \in Paths : rxConEvent'[o] = rxConEvent[o] \/ pathState[o] = "deleted"
    BY <1>8, <2>1, <2>2 DEF ReconnectDeleted
  <2>5. started /\ stopped
    BY <2>1 DEF IInv, Phases
  <2> QED BY <2>1, <2>3, <2>4, <2>5, NetworkStep
<1>9. CASE UNCHANGED vars
  <2>1. UNCHANGED <<started, stopped, aborted, pathState, rxConEvent, pacers, queue, sent,
                    connects, acks, packetId, txBuffer>>
    BY <1>9 DEF vars, pathVars, netVars, genVars
  <2> QED BY <2>1, QueuesKept DEF IInv, Types, Phases, OnePacer, AssertionsHold
<1> QED BY <1>1, <1>2, <1>3, <1>4, <1>5, <1>6, <1>7, <1>8, <1>9 DEF Next

\* What a path has sent and has queued are the last packets in their order.
LEMMA AllOfThem ==
    ASSUME IInv
    PROVE  EveryPathSendsAll
<1>1. ASSUME NEW p \in Connected,
             NEW all, all = sent[p] \o [i \in DOMAIN queue[p] |-> queue[p][i].id],
             NEW i \in DOMAIN all
      PROVE  all[i] = packetId - Len(all) + i - 1
  <2> DEFINE q == queue[p]
             s == sent[p]
             rest == [k \in DOMAIN q |-> q[k].id]
  <2>1. /\ q \in Seq(Packet) /\ s \in Seq(Nat) /\ packetId \in Nat
        /\ Len(q) \in Nat /\ Len(s) \in Nat /\ DOMAIN q = 1 .. Len(q)
    BY LenProperties DEF IInv, Types, Connected
  <2>2. \A k \in 1 .. Len(q) : q[k].id \in Nat /\ q[k].id = packetId - Len(q) + k - 1
    <3>1. \A k \in 1 .. Len(q) : q[k] \in Packet
      BY <2>1, ElementOfSeq
    <3> QED BY <3>1 DEF IInv, Queues, Holds, Connected, Packet
  <2>3. \A k \in 1 .. Len(s) : s[k] = packetId - Len(s) - Len(q) + k - 1
    BY DEF IInv, Queues, Holds, Connected
  <2> HIDE DEF q, s
  <2>4. rest \in Seq(Nat) /\ Len(rest) = Len(q) /\ \A k \in 1 .. Len(q) : rest[k] = q[k].id
    BY <2>1, <2>2
  <2>5. all = s \o rest
    BY <1>1 DEF s, q
  <2> HIDE DEF rest
  <2>6. /\ all \in Seq(Nat) /\ Len(all) = Len(s) + Len(q)
        /\ \A k \in 1 .. Len(s) + Len(q) : all[k] = IF k <= Len(s) THEN s[k] ELSE rest[k - Len(s)]
    <3>1. /\ s \o rest \in Seq(Nat) /\ Len(s \o rest) = Len(s) + Len(rest)
          /\ \A k \in 1 .. Len(s) + Len(rest) :
                 (s \o rest)[k] = IF k <= Len(s) THEN s[k] ELSE rest[k - Len(s)]
      BY <2>1, <2>4, ConcatProperties
    <3> QED BY <2>4, <2>5, <3>1
  <2>7. i \in 1 .. Len(s) + Len(q)
    BY <1>1, <2>6, LenProperties
  <2>8. CASE i <= Len(s)
    <3>1. i \in 1 .. Len(s) /\ all[i] = s[i]
      BY <2>1, <2>6, <2>7, <2>8
    <3>2. s[i] = packetId - Len(s) - Len(q) + i - 1
      BY <2>3, <3>1
    <3> QED BY <2>1, <2>6, <2>7, <3>1, <3>2
  <2>9. CASE ~ (i <= Len(s))
    <3> DEFINE k == i - Len(s)
    <3>1. k \in 1 .. Len(q) /\ all[i] = rest[k]
      BY <2>1, <2>6, <2>7, <2>9
    <3>2. rest[k] = packetId - Len(q) + k - 1
      BY <2>2, <2>4, <3>1
    <3> QED BY <2>1, <2>6, <2>7, <3>1, <3>2
  <2> QED BY <2>8, <2>9
<1> QED BY <1>1 DEF EveryPathSendsAll

\* What keeps the paths right while CONNECTs and answers are lost and repeated: a queued
\* packet is in the buffer, and a path's packets are the last ones in their order.
THEOREM MultipathInvariant ==
    ASSUME RemotePort <= LocalPort
    PROVE  Spec => []IInv
<1>1. Init => IInv
  BY InitIInv
<1>2. IInv /\ [Next]_vars => IInv'
  BY StepIInv
<1> QED BY <1>1, <1>2, PTL DEF Spec

\* OnePacer: however often CONNECTs are repeated and answered, a connected path has
\* one pacer and stops connecting.
THEOREM PacersCorrect ==
    ASSUME RemotePort <= LocalPort
    PROVE  Spec => []OnePacer
BY MultipathInvariant, PTL DEF IInv

\* EveryPathSendsAll: every path sends, once and in order, every packet since it was
\* connected.
THEOREM PathsCorrect ==
    ASSUME RemotePort <= LocalPort
    PROVE  Spec => []EveryPathSendsAll
<1>1. IInv => EveryPathSendsAll
  BY AllOfThem
<1> QED BY <1>1, MultipathInvariant, PTL

\* AssertionsHold: before StopApplication no path sends what is not in the buffer
\* (mpsender.cc:173), and the path of every answer is found (268).
THEOREM NoAssertionFails ==
    ASSUME RemotePort <= LocalPort
    PROVE  Spec => []AssertionsHold
BY MultipathInvariant, PTL DEF IInv

-----------------------------------------------------------------------------
(* The bytes of a queue and the debt of a path.                            *)

\* What FoldLeft computes: the last element is added at last.
Adds(w, S, g) == g = [T \in SUBSET S |-> IF T = {} THEN 0 ELSE g[T \ {Max(T)}] + w[Max(T)]]

LEMMA MaxIs ==
    ASSUME NEW n \in Nat, NEW T \in SUBSET (1 .. n), T # {}
    PROVE  Max(T) \in T
<1>1. PICK m \in T : \A k \in T : k <= m
  <2>1. T \subseteq 0 .. n
    OBVIOUS
  <2> QED BY <2>1, GreatestNatural
<1>2. \A k \in T : m >= k
  BY <1>1
<1> QED BY <1>2 DEF Max

LEMMA PartsAreFinite ==
    ASSUME NEW n \in Nat, NEW T \in SUBSET (1 .. n)
    PROVE  IsFiniteSet(T) /\ Cardinality(T) \in Nat
<1>1. IsFiniteSet(1 .. n)
  <2>1. 1 \in Int /\ n \in Int
    OBVIOUS
  <2> QED BY <2>1, FS_Interval
<1>2. T \subseteq 1 .. n
  OBVIOUS
<1>3. IsFiniteSet(T)
  BY <1>1, <1>2, FS_Subset
<1> QED BY <1>3, FS_CardinalityType

\* Any sum of integers can be computed so, and in no other way.
LEMMA AddsExists ==
    ASSUME NEW n \in Nat, NEW w, \A i \in 1 .. n : w[i] \in Int
    PROVE  Adds(w, 1 .. n, [T \in SUBSET (1 .. n) |-> SumOver(w, T)])
<1> DEFINE S == 1 .. n
           g == [T \in SUBSET S |-> SumOver(w, T)]
<1>1. ASSUME NEW T \in SUBSET S
      PROVE  g[T] = IF T = {} THEN 0 ELSE g[T \ {Max(T)}] + w[Max(T)]
  <2>1. IsFiniteSet(T) /\ \A x \in T : w[x] \in Int
    BY PartsAreFinite
  <2>2. CASE T = {}
    BY <2>2, SumOfNothing
  <2>3. CASE T # {}
    <3> DEFINE m == Max(T)
    <3>1. m \in T
      BY <2>3, MaxIs
    <3> HIDE DEF m
    <3>2. SumOver(w, T) = w[m] + SumOver(w, T \ {m})
      <4>1. \A x \in T : SumOver(w, T) = w[x] + SumOver(w, T \ {x})
        BY <2>1, SumWithout
      <4> HIDE DEF g, S
      <4> QED BY <3>1, <4>1
    <3>3. w[m] \in Int /\ SumOver(w, T \ {m}) \in Int
      <4>1. IsFiniteSet(T \ {m}) /\ \A x \in T \ {m} : w[x] \in Int
        BY <2>1, FS_Subset
      <4> QED BY <2>1, <3>1, <4>1, SumWithout
    <3>4. g[T] = SumOver(w, T) /\ g[T \ {m}] = SumOver(w, T \ {m})
      OBVIOUS
    <3> HIDE DEF g
    <3>5. g[T] = g[T \ {m}] + w[m]
      BY <3>2, <3>3, <3>4
    <3> QED BY <2>3, <3>5 DEF m
  <2> QED BY <2>2, <2>3
<1>2. g = [T \in SUBSET S |-> g[T]]
  OBVIOUS
<1> HIDE DEF g
<1>3. g = [T \in SUBSET S |-> IF T = {} THEN 0 ELSE g[T \ {Max(T)}] + w[Max(T)]]
  BY <1>1, <1>2
<1> QED BY <1>3 DEF Adds, g

LEMMA AddsIsUnique ==
    ASSUME NEW n \in Nat, NEW w, NEW g, Adds(w, 1 .. n, g), NEW h, Adds(w, 1 .. n, h)
    PROVE  g[1 .. n] = h[1 .. n]
<1> DEFINE S == 1 .. n
           Bad == {k \in Nat : \E T \in SUBSET S : Cardinality(T) = k /\ g[T] # h[T]}
<1>1. \A T \in SUBSET S : IsFiniteSet(T) /\ Cardinality(T) \in Nat
  BY PartsAreFinite
<1>2. SUFFICES ASSUME Bad # {} PROVE FALSE
  BY <1>1
<1>3. PICK k \in Bad : \A j \in Bad : k <= j
  <2>1. Bad \subseteq Nat
    OBVIOUS
  <2> HIDE DEF Bad
  <2> QED BY <1>2, <2>1, LeastNatural
<1>4. PICK T \in SUBSET S : Cardinality(T) = k /\ g[T] # h[T]
  BY <1>3
<1> DEFINE m == Max(T)
<1>5. /\ g[T] = IF T = {} THEN 0 ELSE g[T \ {m}] + w[m]
      /\ h[T] = IF T = {} THEN 0 ELSE h[T \ {m}] + w[m]
  BY DEF Adds
<1>6. T # {} /\ m \in T
  BY <1>4, <1>5, MaxIs
<1> HIDE DEF m
<1>7. T \ {m} \in SUBSET S /\ k \in Nat \ {0} /\ Cardinality(T \ {m}) = k - 1
  BY <1>1, <1>4, <1>6, OneLess
<1>8. g[T \ {m}] = h[T \ {m}]
  <2>1. k - 1 \in Nat /\ ~ (k <= k - 1)
    BY <1>7
  <2>2. k - 1 \notin Bad
    <3> HIDE DEF Bad
    <3> QED BY <1>3, <2>1
  <2> QED BY <1>7, <2>1, <2>2
<1> QED BY <1>4, <1>5, <1>6, <1>8

\* Bytes adds up the lengths.
LEMMA BytesIs ==
    ASSUME NEW n \in Nat, NEW s, DOMAIN s = 1 .. n,
           NEW w, \A i \in 1 .. n : w[i] \in Int /\ s[i].len = w[i]
    PROVE  Bytes(s) = SumOver(w, 1 .. n)
<1> DEFINE F(g) == g = [T \in SUBSET (1 .. n) |->
                           IF T = {} THEN 0 ELSE g[T \ {Max(T)}] + s[Max(T)].len]
<1>1. Bytes(s) = (CHOOSE g : F(g))[1 .. n]
  BY DEF Bytes, FoldLeft, MapThenFoldSet
<1>2. ASSUME NEW g PROVE F(g) <=> Adds(w, 1 .. n, g)
  <2>1. ASSUME NEW T \in SUBSET (1 .. n)
        PROVE  (IF T = {} THEN 0 ELSE g[T \ {Max(T)}] + s[Max(T)].len)
                   = (IF T = {} THEN 0 ELSE g[T \ {Max(T)}] + w[Max(T)])
    <3>1. T # {} => s[Max(T)].len = w[Max(T)]
      BY MaxIs
    <3> QED BY <3>1
  <2>2. [T \in SUBSET (1 .. n) |-> IF T = {} THEN 0 ELSE g[T \ {Max(T)}] + s[Max(T)].len]
            = [T \in SUBSET (1 .. n) |-> IF T = {} THEN 0 ELSE g[T \ {Max(T)}] + w[Max(T)]]
    BY <2>1
  <2> QED BY <2>2 DEF Adds
<1> DEFINE sum == [T \in SUBSET (1 .. n) |-> SumOver(w, T)]
           f == CHOOSE g : F(g)
<1>3. Adds(w, 1 .. n, sum)
  BY AddsExists
<1>4. F(f)
  <2>1. F(sum)
    BY <1>2, <1>3
  <2> HIDE DEF F, sum
  <2> QED BY <2>1
<1>5. Adds(w, 1 .. n, f)
  <2> HIDE DEF F, f
  <2> QED BY <1>2, <1>4
<1>6. sum[1 .. n] = SumOver(w, 1 .. n)
  OBVIOUS
<1>7. Bytes(s) = f[1 .. n]
  BY <1>1
<1> HIDE DEF f, sum, F
<1> QED BY <1>3, <1>5, <1>6, <1>7, AddsIsUnique

LEMMA PrefixBytes ==
    ASSUME NEW q \in Seq(Packet)
    PROVE  /\ Bytes(SubSeq(q, 1, 0)) = 0
           /\ \A n \in 0 .. Len(q) : Bytes(SubSeq(q, 1, n)) \in Int
           /\ \A n \in 1 .. Len(q) :
                  Bytes(SubSeq(q, 1, n)) = q[n].len + Bytes(SubSeq(q, 1, n - 1))
<1> DEFINE w == [i \in 1 .. Len(q) |-> q[i].len]
<1>1. Len(q) \in Nat /\ \A i \in 1 .. Len(q) : q[i] \in Packet
  BY LenProperties, ElementOfSeq
<1>2. \A i \in 1 .. Len(q) : w[i] = q[i].len /\ w[i] \in Int
  BY <1>1 DEF Packet
<1> HIDE DEF w
<1>3. ASSUME NEW n \in 0 .. Len(q) PROVE Bytes(SubSeq(q, 1, n)) = SumOver(w, 1 .. n)
  <2> DEFINE s == SubSeq(q, 1, n)
  <2>1. n \in Nat /\ \A i \in 1 .. n : i \in 1 .. Len(q)
    BY <1>1
  <2>2. DOMAIN s = 1 .. n /\ \A i \in 1 .. n : s[i] = q[i]
    <3>1. \A i \in 1 .. n : q[i] \in Packet
      BY <1>1, <2>1
    <3> QED BY <1>1, <2>1, <3>1
  <2> HIDE DEF s
  <2>3. \A i \in 1 .. n : w[i] \in Int /\ s[i].len = w[i]
    BY <1>2, <2>1, <2>2
  <2>4. Bytes(s) = SumOver(w, 1 .. n)
    BY <2>1, <2>2, <2>3, BytesIs
  <2> QED BY <2>4 DEF s
<1>4. ASSUME NEW n \in 0 .. Len(q)
      PROVE  /\ SumOver(w, 1 .. n) \in Int
             /\ \A x \in 1 .. n : SumOver(w, 1 .. n) = w[x] + SumOver(w, (1 .. n) \ {x})
  <2>1. n \in Nat /\ \A x \in 1 .. n : w[x] \in Int
    BY <1>1, <1>2
  <2>2. 1 .. n \in SUBSET (1 .. n)
    OBVIOUS
  <2>3. IsFiniteSet(1 .. n)
    BY <2>1, <2>2, PartsAreFinite
  <2> QED BY <2>1, <2>3, SumWithout
<1>5. Bytes(SubSeq(q, 1, 0)) = 0
  <2>1. 0 \in 0 .. Len(q) /\ 1 .. 0 = {}
    BY <1>1
  <2>2. Bytes(SubSeq(q, 1, 0)) = SumOver(w, 1 .. 0)
    BY <1>3, <2>1
  <2> QED BY <2>1, <2>2, SumOfNothing
<1>6. ASSUME NEW n \in 1 .. Len(q)
      PROVE  Bytes(SubSeq(q, 1, n)) = q[n].len + Bytes(SubSeq(q, 1, n - 1))
  <2>1. n \in 0 .. Len(q) /\ n - 1 \in 0 .. Len(q) /\ n \in 1 .. n /\ (1 .. n) \ {n} = 1 .. n - 1
    BY <1>1
  <2>2. SumOver(w, 1 .. n) = w[n] + SumOver(w, 1 .. n - 1)
    BY <1>4, <2>1
  <2> QED BY <1>2, <1>3, <2>1, <2>2
<1>7. \A n \in 0 .. Len(q) : Bytes(SubSeq(q, 1, n)) \in Int
  BY <1>3, <1>4
<1> QED BY <1>5, <1>6, <1>7

\* No packet is longer than a segment and its header.
Short(packets) ==
    \A i \in 1 .. Len(packets) : packets[i].len \in Nat /\ packets[i].len <= MaxLen

LEMMA NewPacketsAreShort ==
    ASSUME packetId \in Nat
    PROVE  Short(NewPackets)
<1> DEFINE sizes == FrameSplit(FrameBytes)
           most == Least(FrameBytes, SegmentSize)
<1>1. FrameBytes \in Nat \ {0} /\ SegmentSize \in Nat \ {0} /\ HeaderLen \in Nat
  BY MultipathAssumption
<1>2. \A i \in DOMAIN sizes : sizes[i] \in Nat /\ sizes[i] <= most
  <2>1. CASE FrameBytes < SegmentSize
    <3>1. sizes = <<FrameBytes>> /\ most = FrameBytes
      BY <2>1 DEF FrameSplit, Least
    <3> QED BY <1>1, <3>1
  <2>2. CASE ~ (FrameBytes < SegmentSize)
    <3> DEFINE n == FrameBytes \div SegmentSize
               rest == FrameBytes % SegmentSize
               whole == [i \in 1 .. n |-> SegmentSize]
               last == IF rest > 0 THEN <<rest>> ELSE <<>>
    <3>1. n \in Nat /\ rest \in Nat /\ rest <= SegmentSize /\ most = SegmentSize
      BY <1>1, <2>2 DEF Least
    <3>2. sizes = whole \o last
      BY <2>2 DEF FrameSplit
    <3> HIDE DEF n, rest, most
    <3> DEFINE Small == {x \in Nat : x <= SegmentSize}
    <3>3. whole \in Seq(Small)
      <4>1. SegmentSize \in Small
        BY <1>1
      <4> HIDE DEF Small
      <4> QED BY <3>1, <4>1
    <3>4. last \in Seq(Small)
      <4>1. rest \in Small
        BY <3>1
      <4> HIDE DEF Small
      <4> QED BY <4>1
    <3> HIDE DEF whole, last, sizes, Small
    <3>5. sizes \in Seq(Small)
      BY <3>2, <3>3, <3>4, ConcatProperties
    <3>6. \A i \in DOMAIN sizes : sizes[i] \in Small
      BY <3>5, LenProperties, ElementOfSeq
    <3> QED BY <3>1, <3>6 DEF Small
  <2> QED BY <2>1, <2>2
<1>3. NewPackets = [i \in DOMAIN sizes |-> [id |-> packetId + i - 1, len |-> sizes[i] + HeaderLen]]
  BY DEF NewPackets
<1>4. MaxLen = most + HeaderLen /\ most \in Nat
  BY <1>1 DEF MaxLen, Least
<1>5. DOMAIN NewPackets = 1 .. Len(NewPackets)
  BY NewPacketsAre
<1> HIDE DEF sizes, most
<1>6. ASSUME NEW i \in 1 .. Len(NewPackets)
      PROVE  NewPackets[i].len \in Nat /\ NewPackets[i].len <= MaxLen
  <2>1. i \in DOMAIN sizes
    BY <1>3, <1>5
  <2>2. NewPackets[i].len = sizes[i] + HeaderLen
    BY <1>3, <2>1
  <2>3. sizes[i] \in Nat /\ sizes[i] <= most
    BY <1>2, <2>1
  <2> QED BY <1>1, <1>4, <2>2, <2>3
<1> QED BY <1>6 DEF Short

\* The debt of a path is that of one packet, or what it was created with.
Owes(rest) == rest \in Int /\ (rest >= -MaxLen \/ \E g \in Garbage : rest >= g)

\* What a budget comes to, when no more than one packet was sent with less than nothing.
LEMMA PaceKeepsDebt ==
    ASSUME IInv, NEW p \in Paths, Short(queue[p]), elapsed[p] \in Nat, Owes(remaining[p]),
           NEW n, n = Sends(p),
           NEW rest, rest = IF n = Len(queue[p]) THEN Least(Left(p, n), 0) ELSE Left(p, n)
    PROVE  Owes(rest)
<1> DEFINE q == queue[p]
           left(m) == Left(p, m)
           budget == Increased(p)
<1>1. q \in Seq(Packet) /\ Len(q) \in Nat
  BY LenProperties DEF IInv, Types
<1>2. /\ n \in 0 .. Len(q)
      /\ \A m \in 0 .. n - 1 : ~ (left(m) < 0)
  BY SendsIs DEF IInv
<1>3. MaxLen \in Nat
  BY MultipathAssumption DEF MaxLen, Least
<1>4. budget \in Int /\ (budget >= 0 \/ budget >= remaining[p]) /\ remaining[p] \in Int
  BY DEF Increased, Owes
<1>5. Owes(budget)
  <2>1. CASE budget >= 0
    BY <1>3, <1>4, <2>1 DEF Owes
  <2>2. CASE budget >= remaining[p] /\ remaining[p] >= -MaxLen
    BY <1>3, <1>4, <2>2 DEF Owes
  <2>3. ASSUME NEW g \in Garbage, budget >= remaining[p], remaining[p] >= g PROVE Owes(budget)
    <3>1. g \in Int
      BY MultipathAssumption
    <3>2. budget >= g
      BY <1>4, <2>3, <3>1
    <3> QED BY <1>4, <3>2 DEF Owes
  <2> QED BY <1>4, <2>1, <2>2, <2>3 DEF Owes
<1>6. \A m \in 0 .. Len(q) : left(m) = budget - Bytes(SubSeq(q, 1, m)) /\ left(m) \in Int
  BY <1>1, <1>4, PrefixBytes DEF Left
<1>7. left(0) = budget
  <2>1. 0 \in 0 .. Len(q)
    BY <1>1
  <2> QED BY <1>1, <1>4, <1>6, <2>1, PrefixBytes
<1>8. ASSUME n # 0 PROVE left(n) >= -MaxLen
  <2>1. /\ n - 1 \in 0 .. n - 1 /\ n - 1 \in 0 .. Len(q) /\ n \in 0 .. Len(q) /\ n \in 1 .. Len(q)
    BY <1>1, <1>2, <1>8
  <2>2. left(n - 1) \in Int /\ ~ (left(n - 1) < 0)
    BY <1>2, <1>6, <2>1
  <2>3. q[n].len \in Nat /\ q[n].len <= MaxLen
    BY <2>1 DEF Short
  <2> DEFINE b == Bytes(SubSeq(q, 1, n - 1))
  <2>4. b \in Int /\ Bytes(SubSeq(q, 1, n)) = q[n].len + b
    BY <1>1, <2>1, PrefixBytes
  <2>5. left(n) = budget - (q[n].len + b) /\ left(n - 1) = budget - b
    BY <1>6, <2>1, <2>4
  <2> HIDE DEF b, left, budget, q
  <2> QED BY <1>3, <1>4, <2>2, <2>3, <2>4, <2>5
<1>9. left(n) \in Int /\ Owes(left(n))
  <2>1. left(n) \in Int
    BY <1>2, <1>6
  <2> QED BY <1>5, <1>7, <1>8, <2>1 DEF Owes
<1>10. rest = left(n) \/ rest = 0
  BY DEF Least
<1>11. Owes(0)
  BY <1>3 DEF Owes
<1> HIDE DEF left
<1> QED BY <1>9, <1>10, <1>11

\* What type correctness takes besides IInv.
Bounds ==
    /\ connects \in [Paths -> 0 .. NetCap] /\ acks \in [Paths -> 0 .. NetCap]
    /\ elapsed \in [Paths -> {0, PaceBytes}]
    /\ remaining \in [Paths -> Int] /\ \A p \in Paths : Owes(remaining[p])
    /\ \A p \in Paths : Short(queue[p])
    /\ txBuffer \subseteq 0 .. packetId - 1 /\ generating \in BOOLEAN

LEMMA InitBounds == Init => Bounds
<1> SUFFICES ASSUME Init PROVE Bounds
  OBVIOUS
<1>1. 0 \in 0 .. NetCap /\ Garbage \subseteq Int
  BY MultipathAssumption
<1>2. /\ connects = [p \in Paths |-> 0] /\ acks = [p \in Paths |-> 0]
      /\ elapsed = [p \in Paths |-> 0] /\ remaining \in [Paths -> Garbage]
      /\ queue = [p \in Paths |-> <<>>] /\ txBuffer = {}
  BY DEF Init
<1>3. remaining \in [Paths -> Int]
  BY <1>1, <1>2
<1>4. ASSUME NEW p \in Paths PROVE Owes(remaining[p])
  <2>1. remaining[p] \in Garbage
    BY <1>2
  <2>2. remaining[p] \in Int
    BY <1>1, <2>1
  <2>3. remaining[p] >= remaining[p]
    BY <2>2
  <2> QED BY <2>1, <2>2, <2>3 DEF Owes
<1>5. ASSUME NEW p \in Paths PROVE Short(queue[p])
  BY <1>2 DEF Short
<1>6. generating \in BOOLEAN
  BY DEF Init
<1> QED BY <1>1, <1>2, <1>3, <1>4, <1>5, <1>6 DEF Bounds

LEMMA CountsAreCapped ==
    ASSUME NEW f \in [Paths -> 0 .. NetCap], NEW p \in Paths
    PROVE  /\ More(f, p) \in [Paths -> 0 .. NetCap]
           /\ f[p] > 0 => Fewer(f, p) \in [Paths -> 0 .. NetCap]
<1>1. NetCap \in Nat /\ f[p] \in 0 .. NetCap
  BY MultipathAssumption
<1>2. /\ Least(f[p] + 1, NetCap) \in 0 .. NetCap
      /\ f[p] > 0 => f[p] - 1 \in 0 .. NetCap
  BY <1>1 DEF Least
<1> QED BY <1>2 DEF More, Fewer

\* The steps that leave packets and budgets alone.
LEMMA ConnectingStep ==
    ASSUME Bounds, UNCHANGED <<elapsed, remaining, queue, packetId, txBuffer, generating>>,
           connects' \in [Paths -> 0 .. NetCap], acks' \in [Paths -> 0 .. NetCap]
    PROVE  Bounds'
BY DEF Bounds, Short, Owes

LEMMA StepBounds ==
    ASSUME IInv, Bounds, [Next]_vars
    PROVE  Bounds'
<1>0. /\ connects \in [Paths -> 0 .. NetCap] /\ acks \in [Paths -> 0 .. NetCap]
      /\ elapsed \in [Paths -> {0, PaceBytes}]
      /\ remaining \in [Paths -> Int] /\ PaceBytes \in Nat
      /\ NetCap \in Nat \ {0} /\ packetId \in Nat /\ queue \in [Paths -> Seq(Packet)]
  BY MultipathAssumption DEF Bounds, IInv, Types
<1>1. CASE Start
  <2>1. /\ connects' = [p \in Paths |-> 1]
        /\ UNCHANGED <<elapsed, remaining, queue, packetId, txBuffer, generating, acks>>
    BY <1>1 DEF Start, genVars
  <2>2. connects' \in [Paths -> 0 .. NetCap] /\ acks' \in [Paths -> 0 .. NetCap]
    BY <1>0, <2>1
  <2> QED BY <2>1, <2>2, ConnectingStep
<1>2. CASE Stop
  <2>1. /\ queue' = [p \in Paths |-> <<>>]
        /\ UNCHANGED <<elapsed, remaining, packetId, txBuffer, generating, connects, acks>>
    BY <1>2 DEF Stop, netVars, genVars
  <2>2. \A p \in Paths : Short(queue'[p])
    BY <2>1 DEF Short
  <2> QED BY <2>1, <2>2 DEF Bounds, Owes, Short
<1>3. CASE FakePacket
  <2> DEFINE new == NewPackets
             n == Len(NewPackets)
  <2>1. /\ packetId' = packetId + n
        /\ txBuffer' = txBuffer \cup {new[i].id : i \in DOMAIN new}
        /\ queue' = [p \in Paths |-> IF p \in Targets THEN queue[p] \o new ELSE queue[p]]
        /\ UNCHANGED <<elapsed, remaining, connects, acks, generating>>
    BY <1>3 DEF FakePacket, netVars
  <2>2. /\ new \in Seq(Packet) /\ n \in Nat /\ Len(new) = n /\ DOMAIN new = 1 .. n
        /\ \A i \in 1 .. n : new[i].id = packetId + i - 1
    BY <1>0, NewPacketsAre
  <2>3. \A i \in 1 .. n : new[i].len \in Nat /\ new[i].len <= MaxLen
    BY <1>0, NewPacketsAreShort DEF Short
  <2> HIDE DEF new, n
  <2>4. ASSUME NEW p \in Paths PROVE Short(queue'[p])
    <3> DEFINE q == queue[p]
    <3>1. q \in Seq(Packet) /\ Len(q) \in Nat
      BY <1>0, LenProperties
    <3>2. \A i \in 1 .. Len(q) : q[i].len \in Nat /\ q[i].len <= MaxLen
      BY DEF Bounds, Short
    <3>3. queue'[p] = q \/ queue'[p] = q \o new
      BY <2>1
    <3> HIDE DEF q
    <3>4. /\ Len(q \o new) = Len(q) + n
          /\ \A i \in 1 .. Len(q) + n : (q \o new)[i] = IF i <= Len(q) THEN q[i] ELSE new[i - Len(q)]
      BY <2>2, <3>1, ConcatProperties
    <3>5. ASSUME NEW i \in 1 .. Len(q) + n
          PROVE  (q \o new)[i].len \in Nat /\ (q \o new)[i].len <= MaxLen
      <4>1. CASE i <= Len(q)
        <5>1. i \in 1 .. Len(q) /\ (q \o new)[i] = q[i]
          BY <2>2, <3>1, <3>4, <4>1
        <5> QED BY <3>2, <5>1
      <4>2. CASE ~ (i <= Len(q))
        <5>1. i - Len(q) \in 1 .. n /\ (q \o new)[i] = new[i - Len(q)]
          BY <2>2, <3>1, <3>4, <4>2
        <5> QED BY <2>3, <5>1
      <4> QED BY <4>1, <4>2
    <3> QED BY <3>2, <3>3, <3>4, <3>5 DEF Short
  <2>5. txBuffer' \subseteq 0 .. packetId' - 1
    <3>1. txBuffer \subseteq 0 .. packetId - 1
      BY DEF Bounds
    <3>2. \A x \in 0 .. packetId - 1 : x \in 0 .. packetId + n - 1
      BY <1>0, <2>2
    <3>3. \A i \in 1 .. n : packetId + i - 1 \in 0 .. packetId + n - 1
      BY <1>0, <2>2
    <3>4. \A i \in 1 .. n : new[i].id \in 0 .. packetId + n - 1
      BY <2>2, <3>3
    <3>5. ASSUME NEW x \in txBuffer' PROVE x \in 0 .. packetId' - 1
      <4>1. x \in txBuffer \/ \E i \in 1 .. n : x = new[i].id
        BY <2>1, <2>2
      <4>2. x \in 0 .. packetId + n - 1
        BY <3>1, <3>2, <3>4, <4>1
      <4>3. packetId' - 1 = packetId + n - 1
        <5>1. packetId' = packetId + n /\ packetId \in Int /\ n \in Int
          BY <1>0, <2>1, <2>2
        <5> QED BY <5>1
      <4> QED BY <4>2, <4>3
    <3> QED BY <3>5
  <2> QED BY <2>1, <2>4, <2>5 DEF Bounds, Owes, Short
<1>4. ASSUME NEW p \in Paths, HandleAck(p) PROVE Bounds'
  <2>1. /\ acks[p] > 0 /\ acks' = Fewer(acks, p)
        /\ elapsed' = [elapsed EXCEPT ![p] = IF PacerStarts(p) THEN 0 ELSE @]
        /\ UNCHANGED <<remaining, queue, connects, packetId, txBuffer>> /\ generating' \in BOOLEAN
    BY <1>4 DEF HandleAck
  <2>2. acks' \in [Paths -> 0 .. NetCap]
    BY <1>0, <2>1, CountsAreCapped
  <2>3. elapsed' \in [Paths -> {0, PaceBytes}]
    BY <1>0, <2>1
  <2> QED BY <1>0, <2>1, <2>2, <2>3 DEF Bounds, Owes, Short
<1>5. ASSUME NEW p \in Paths, PaceCallback(p) PROVE Bounds'
  <2> DEFINE n == Sends(p)
             q == queue[p]
             r == SubSeq(q, n + 1, Len(q))
             left == IF n = Len(q) THEN Least(Left(p, n), 0) ELSE Left(p, n)
             ids == {q[i].id : i \in 1 .. n}
  <2>1. /\ txBuffer' = txBuffer \ Erased(ids)
        /\ queue' = [queue EXCEPT ![p] = r]
        /\ remaining' = [remaining EXCEPT ![p] = left]
        /\ elapsed' = [elapsed EXCEPT ![p] = PaceBytes]
        /\ UNCHANGED <<connects, acks, packetId, generating>>
    BY <1>5 DEF PaceCallback, netVars
  <2>2. Short(q) /\ elapsed[p] \in Nat /\ Owes(remaining[p])
    <3>1. Short(queue[p]) /\ Owes(remaining[p])
      BY DEF Bounds
    <3>2. elapsed[p] \in {0, PaceBytes}
      BY <1>0
    <3>3. elapsed[p] \in Nat
      BY <1>0, <3>2
    <3> QED BY <3>1, <3>3
  <2>3. Owes(left)
    BY <2>2, PaceKeepsDebt
  <2>4. n \in 0 .. Len(q) /\ q \in Seq(Packet) /\ Len(q) \in Nat
    BY <1>0, SendsIs, LenProperties DEF IInv
  <2> HIDE DEF n
  <2>5. /\ r \in Seq(Packet) /\ Len(r) = Len(q) - n
        /\ \A i \in 1 .. Len(r) : r[i] = q[n + i]
    BY <2>4, RestIs
  <2>6. Short(r)
    <3>1. \A i \in 1 .. Len(r) : n + i \in 1 .. Len(q)
      BY <2>4, <2>5
    <3> HIDE DEF r, q
    <3> QED BY <2>2, <2>5, <3>1 DEF Short
  <2> HIDE DEF r, left, ids, q
  <2>7. \A o \in Paths : Short(queue'[o])
    BY <1>0, <2>1, <2>6 DEF Bounds
  <2>8. left \in Int
    BY <2>3 DEF Owes
  <2>9. remaining' \in [Paths -> Int] /\ \A o \in Paths : Owes(remaining'[o])
    BY <1>0, <2>1, <2>3, <2>8 DEF Bounds
  <2>10. elapsed' \in [Paths -> {0, PaceBytes}]
    BY <1>0, <2>1
  <2>11. txBuffer' \subseteq 0 .. packetId' - 1
    BY <2>1 DEF Bounds
  <2> QED BY <1>0, <2>1, <2>7, <2>9, <2>10, <2>11 DEF Bounds, Owes, Short
<1>6. ASSUME NEW p \in Paths,
             \/ Reconnect(p) \/ ReconnectDeleted(p) \/ Answer(p)
             \/ LoseConnect(p) \/ LoseAck(p) \/ HandleUnknownAck(p)
      PROVE  Bounds'
  <2>1. UNCHANGED <<elapsed, remaining, queue, packetId, txBuffer, generating>>
    BY <1>6 DEF Reconnect, ReconnectDeleted, Answer, LoseConnect, LoseAck, HandleUnknownAck,
                pathVars, genVars
  <2>2. \/ connects' = connects \/ connects' = More(connects, p)
        \/ connects[p] > 0 /\ connects' = Fewer(connects, p)
    BY <1>6 DEF Reconnect, ReconnectDeleted, Answer, LoseConnect, LoseAck, HandleUnknownAck
  <2>3. \/ acks' = acks \/ acks' = More(acks, p)
        \/ acks[p] > 0 /\ acks' = Fewer(acks, p)
    BY <1>6 DEF Reconnect, ReconnectDeleted, Answer, LoseConnect, LoseAck, HandleUnknownAck
  <2>4. connects' \in [Paths -> 0 .. NetCap] /\ acks' \in [Paths -> 0 .. NetCap]
    BY <1>0, <2>2, <2>3, CountsAreCapped
  <2> QED BY <2>1, <2>4, ConnectingStep
<1>7. CASE UNCHANGED vars
  <2>1. UNCHANGED <<elapsed, remaining, queue, connects, acks, packetId, txBuffer, generating>>
    BY <1>7 DEF vars, pathVars, netVars, genVars
  <2> QED BY <1>0, <2>1, ConnectingStep
<1> QED BY <1>1, <1>2, <1>3, <1>4, <1>5, <1>6, <1>7 DEF Next

\* MultipathTypeOK: besides the types, that a path is never deeper in debt than by one
\* packet, or than the uninitialised budget it was created with: PaceCallback stops as soon
\* as the budget is negative, and IncreaseBudget saves nothing up.
THEOREM MultipathTypeCorrect ==
    ASSUME RemotePort <= LocalPort
    PROVE  Spec => []MultipathTypeOK
<1>1. Init => Bounds
  BY InitBounds
<1>2. IInv /\ Bounds /\ [Next]_vars => Bounds'
  BY StepBounds
<1>3. Spec => []IInv
  BY MultipathInvariant
<1>4. IInv /\ Bounds => MultipathTypeOK
  <2> SUFFICES ASSUME IInv, Bounds PROVE MultipathTypeOK
    OBVIOUS
  <2>1. pacers \in [Paths -> 0 .. 1]
    <3>1. \A p \in Paths : pacers[p] \in 0 .. 1
      BY DEF IInv, OnePacer
    <3> QED BY <3>1 DEF IInv, Types
  <2>2. \A p \in Paths : remaining[p] >= -MaxLen \/ \E g \in Garbage : remaining[p] >= g
    BY DEF Bounds, Owes
  <2>3. {started, stopped, generating, aborted} \subseteq BOOLEAN
    <3>1. started \in BOOLEAN /\ stopped \in BOOLEAN /\ aborted \in BOOLEAN
      BY DEF IInv, Types
    <3>2. generating \in BOOLEAN
      BY DEF Bounds
    <3> QED BY <3>1, <3>2
  <2> QED BY <2>1, <2>2, <2>3 DEF MultipathTypeOK, Bounds, IInv, Types
<1> QED BY <1>1, <1>2, <1>3, <1>4, PTL DEF Spec
=============================================================================
