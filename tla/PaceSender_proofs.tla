------------------------- MODULE PaceSender_proofs -------------------------
(***************************************************************************)
(* Proofs about the pacer for any packets, sizes, rates and intervals: its *)
(* list and skip list agree, the head of the list is never a packet that   *)
(* was sent, oldest_ts is the longest time any packet has waited, a call   *)
(* sends no more than its share and one packet, the pacer implements       *)
(* PacketBag, its byte count is what is still to be sent, and no packet    *)
(* waits too long.  The last four rest on the invariants of the first part.*)
(***************************************************************************)
EXTENDS PaceSender, NumberFacts

\* What the walks through list and skip list rely on, together.
IInv == TypeOK /\ ListIsCache /\ HeadIsUnsent /\ AgesInOrder

-----------------------------------------------------------------------------
\* The products of rates and intervals are naturals; the width of 32 bits is left out.
LEMMA ProductIsNat == \A a, b \in Nat : a * b \in Nat OBVIOUS

\* The integer divisions of the code stay within the naturals.
LEMMA DivisionIsNat ==
    ASSUME NEW a \in Nat, NEW b \in Nat \ {0} PROVE a \div b \in Nat
OBVIOUS

\* pacer_queue_target_bitrate_kbps never divides by zero.
LEMMA QueueRateIsNat == ASSUME IInv PROVE QueueRate \in Nat
<1>1. Space \in Nat \ {0}
    <2>1. oldest \in Int BY PaceAssumption DEF IInv, TypeOK, NoTime
    <2>2. MaxQue \in Nat \ {0, 1} BY PaceAssumption
    <2>3. QED BY <2>1, <2>2 DEF Space
<1>2. total * 8 \in Nat BY DEF IInv, TypeOK
<1>3. QED BY <1>1, <1>2, DivisionIsNat DEF QueueRate

\* set_target_rate_kbps and increase_budget yield integers.
LEMMA BudgetIsInt ==
    ASSUME NEW kbps \in Nat, NEW ms \in Nat, remaining \in Int
    PROVE  Budget(kbps, ms) \in Int /\ MaxBudget(kbps) \in Nat
<1>1. Window * kbps \in Nat /\ kbps * ms \in Nat BY PaceAssumption, ProductIsNat
<1>2. MaxBudget(kbps) \in Nat BY <1>1, DivisionIsNat DEF MaxBudget
<1>3. (kbps * ms) \div 8 \in Nat BY <1>1, DivisionIsNat
<1>4. Clamped(kbps) \in Int BY <1>2 DEF Clamped, Least, Greatest
<1>5. QED BY <1>2, <1>3, <1>4 DEF Budget, Least

\* pacer_queue_front finds a packet that is not sent, the least of them.
LEMMA FrontIsLeastUnsent ==
    ASSUME IInv, DOMAIN cache # {}
    PROVE  Front \in Unsent /\ \A o \in Unsent : Front <= o
<1>1. list # <<>> BY DEF IInv, ListIsCache
<1>2. list[1] \in Unsent
    <2>1. 1 \in DOMAIN list BY <1>1 DEF IInv, TypeOK
    <2>2. QED BY <1>1, <2>1 DEF IInv, ListIsCache, HeadIsUnsent, Unsent
<1>3. Unsent \subseteq Nat BY PaceAssumption DEF IInv, TypeOK, Unsent
<1>4. \E s \in Unsent : \A o \in Unsent : s <= o BY <1>2, <1>3, LeastNatural
<1>5. QED BY <1>2, <1>4 DEF Front

\* pacer_queue_final stops at the first packet of the list that is still to be sent.
LEMMA FirstUnsentStops ==
    ASSUME IInv, NEW s \in DOMAIN cache
    PROVE  /\ FirstUnsent(s) \in 1 .. Len(list) + 1
           /\ \A i \in 1 .. Len(list) : list[i] # s /\ ~cache[list[i]].sent => FirstUnsent(s) <= i
           /\ FirstUnsent(s) <= Len(list) =>
                list[FirstUnsent(s)] # s /\ ~cache[list[FirstUnsent(s)]].sent
<1> DEFINE unsent == {i \in 1 .. Len(list) : list[i] # s /\ ~cache[list[i]].sent}
<1>1. Len(list) \in Nat BY DEF IInv, TypeOK
<1>2. CASE unsent = {}
    <2>1. FirstUnsent(s) = Len(list) + 1 BY <1>2 DEF FirstUnsent
    <2>2. QED BY <1>1, <1>2, <2>1
<1>3. CASE unsent # {}
    <2>1. unsent \subseteq Nat BY <1>1
    <2>2. \E i \in unsent : \A j \in unsent : i <= j BY <1>3, <2>1, LeastNatural
    <2>3. FirstUnsent(s) \in unsent /\ \A j \in unsent : FirstUnsent(s) <= j
        BY <1>3, <2>2 DEF FirstUnsent
    <2>4. QED BY <1>1, <2>3
<1>4. QED BY <1>2, <1>3

\* What pacer_queue_sent leaves of the list.
LEMMA RestOfList ==
    ASSUME IInv, NEW s \in DOMAIN cache, NEW rest,
           rest = SubSeq(list, FirstUnsent(s), Len(list))
    PROVE  /\ rest \in Seq(Packets)
           /\ Len(rest) = Len(list) - FirstUnsent(s) + 1
           /\ \A i \in DOMAIN rest : /\ FirstUnsent(s) + i - 1 \in DOMAIN list
                                     /\ rest[i] = list[FirstUnsent(s) + i - 1]
<1> DEFINE n == FirstUnsent(s)
<1>1. n \in 1 .. Len(list) + 1 BY FirstUnsentStops
<1>2. list \in Seq(Packets) BY DEF IInv, TypeOK
<1> HIDE DEF n
<1>3. /\ SubSeq(list, n, Len(list)) \in Seq(Packets)
      /\ Len(SubSeq(list, n, Len(list))) = Len(list) - n + 1
      /\ \A i \in 1 .. Len(list) - n + 1 : SubSeq(list, n, Len(list))[i] = list[n + i - 1]
    BY <1>1, <1>2
<1>4. QED BY <1>1, <1>2, <1>3 DEF n

-----------------------------------------------------------------------------
LEMMA InitIInv == Init => IInv
<1>1. SUFFICES ASSUME Init PROVE IInv OBVIOUS
<1>2. list \in Seq(Packets) /\ DOMAIN list = {} BY <1>1 DEF Init
<1>3. DOMAIN cache = {} BY <1>1 DEF Init
<1>4. cache \in [DOMAIN cache -> Event] BY <1>1, <1>3 DEF Init
<1>5. TypeOK
    <2>1. 0 \in 0 .. MaxElapsed BY PaceAssumption
    <2>2. total \in Nat /\ remaining \in Int /\ target \in Nat /\ burst \in Nat BY <1>1 DEF Init
    <2>3. QED BY <1>1, <1>2, <1>3, <1>4, <2>1, <2>2 DEF Init, TypeOK
<1>6. ListIsCache BY <1>2, <1>3 DEF ListIsCache
<1>7. HeadIsUnsent /\ AgesInOrder BY <1>1, <1>2 DEF Init, HeadIsUnsent, AgesInOrder
<1>8. QED BY <1>5, <1>6, <1>7 DEF IInv

\* pacer_queue_push: the youngest packet goes to the end of the list.
LEMMA InsertStep ==
    ASSUME IInv, NEW s \in Packets, Insert(s) PROVE IInv'
<1>1. /\ list \in Seq(Packets) /\ list' = Append(list, s)
      /\ s \notin DOMAIN cache
      /\ cache' = [r \in DOMAIN cache \cup {s} |->
                      IF r = s THEN [age |-> 0, sent |-> FALSE] ELSE cache[r]]
      /\ cache \in [DOMAIN cache -> Event] /\ DOMAIN cache \subseteq Packets
    BY DEF Insert, IInv, TypeOK
<1>2. /\ list' \in Seq(Packets) /\ DOMAIN list' = 1 .. Len(list) + 1
      /\ Len(list) \in Nat /\ DOMAIN list = 1 .. Len(list)
      /\ \A i \in 1 .. Len(list) : list'[i] = list[i]
      /\ list'[Len(list) + 1] = s
    BY <1>1
<1>3. DOMAIN cache' = DOMAIN cache \cup {s} BY <1>1
<1>4. \A i \in 1 .. Len(list) : list[i] \in DOMAIN cache /\ list[i] # s
    BY <1>1, <1>2 DEF IInv, ListIsCache
<1>5. TypeOK'
    <2>1. [age |-> 0, sent |-> FALSE] \in Event BY PaceAssumption DEF Event
    <2>2. cache' \in [DOMAIN cache' -> Event] BY <1>1, <1>3, <2>1
    <2>3. total' \in Nat /\ oldest' \in 0 .. MaxAge \cup {NoTime}
        <3>1. SizeOf[s] \in Nat /\ 0 \in 0 .. MaxAge BY PaceAssumption
        <3>2. QED BY <3>1 DEF IInv, TypeOK, Insert
    <2>4. QED BY <1>1, <1>2, <1>3, <2>2, <2>3 DEF IInv, TypeOK, Insert
<1>6. ListIsCache'
    <2>1. DOMAIN cache' = {list'[i] : i \in DOMAIN list'}
        <3>1. DOMAIN cache = {list[i] : i \in DOMAIN list} BY DEF IInv, ListIsCache
        <3>2. QED BY <1>2, <1>3, <3>1
    <2>2. \A i, j \in DOMAIN list' : list'[i] = list'[j] => i = j
        BY <1>2, <1>4 DEF IInv, ListIsCache
    <2>3. QED BY <2>1, <2>2 DEF ListIsCache
<1>7. \A i \in 1 .. Len(list) : cache'[list'[i]] = cache[list[i]]
    BY <1>1, <1>2, <1>4
<1>8. cache'[s] = [age |-> 0, sent |-> FALSE] BY <1>1
<1>9. HeadIsUnsent'
    <2>1. CASE list = <<>> BY <1>2, <1>8, <2>1 DEF HeadIsUnsent
    <2>2. CASE list # <<>>
        <3>1. 1 \in 1 .. Len(list) BY <1>1, <1>2, <2>2
        <3>2. QED BY <1>7, <2>2, <3>1 DEF IInv, HeadIsUnsent
    <2>3. QED BY <2>1, <2>2
<1>10. AgesInOrder'
    <2>1. oldest' = IF list' = <<>> THEN NoTime ELSE cache'[list'[1]].age
        <3>1. list' # <<>> BY <1>2
        <3>2. CASE list = <<>>
            BY <1>2, <1>8, <3>1, <3>2 DEF IInv, AgesInOrder, Insert
        <3>3. CASE list # <<>>
            <4>1. 1 \in 1 .. Len(list) BY <1>1, <1>2, <3>3
            <4>2. cache[list[1]].age \in Nat
                <5>1. cache[list[1]] \in Event BY <1>1, <1>4, <4>1
                <5>2. QED BY <5>1, PaceAssumption DEF Event
            <4>3. oldest = cache[list[1]].age /\ oldest # NoTime
                BY <3>3, <4>2 DEF IInv, AgesInOrder, NoTime
            <4>4. QED BY <1>7, <3>1, <4>1, <4>3 DEF Insert
        <3>4. QED BY <3>2, <3>3
    <2>2. ASSUME NEW i \in DOMAIN list', NEW j \in DOMAIN list', i <= j
          PROVE  cache'[list'[j]].age <= cache'[list'[i]].age
        <3>1. CASE j = Len(list) + 1
            <4>1. cache'[list'[j]].age = 0 BY <1>2, <1>8, <3>1
            <4>2. cache'[list'[i]].age \in Nat
                <5>1. CASE i = Len(list) + 1 BY <1>2, <1>8, <5>1
                <5>2. CASE i \in 1 .. Len(list)
                    <6>1. cache[list[i]] \in Event BY <1>1, <1>4, <5>2
                    <6>2. QED BY <1>7, <5>2, <6>1, PaceAssumption DEF Event
                <5>3. QED BY <1>2, <5>1, <5>2
            <4>3. QED BY <4>1, <4>2
        <3>2. CASE j \in 1 .. Len(list)
            <4>1. i \in 1 .. Len(list) BY <1>2, <2>2, <3>2
            <4>2. QED BY <1>2, <1>7, <2>2, <3>2, <4>1 DEF IInv, AgesInOrder
        <3>3. QED BY <1>2, <3>1, <3>2
    <2>3. QED BY <2>1, <2>2 DEF AgesInOrder
<1>11. QED BY <1>5, <1>6, <1>9, <1>10 DEF IInv

\* All packets age by the same time, up to the bound.
LEMMA TickStep ==
    ASSUME IInv, NEW ms \in Steps, Tick(ms) PROVE IInv'
<1>1. /\ list \in Seq(Packets) /\ list' = list
      /\ cache \in [DOMAIN cache -> Event]
      /\ cache' = [s \in DOMAIN cache |-> [cache[s] EXCEPT !.age = Older(@, ms)]]
    BY DEF Tick, IInv, TypeOK
<1>2. ms \in Nat /\ MaxAge \in Nat BY PaceAssumption
<1>3. \A a \in 0 .. MaxAge : Older(a, ms) \in 0 .. MaxAge
    BY <1>2 DEF Older, Least
<1>4. \A a, b \in 0 .. MaxAge : a <= b => Older(a, ms) <= Older(b, ms)
    BY <1>2 DEF Older, Least
<1>5. \A s \in DOMAIN cache : /\ cache[s].age \in 0 .. MaxAge
                              /\ cache'[s] \in Event
                              /\ cache'[s].age = Older(cache[s].age, ms)
                              /\ cache'[s].sent = cache[s].sent
    BY <1>1, <1>3 DEF Event
<1>6. DOMAIN cache' = DOMAIN cache BY <1>1
<1>7. \A i \in DOMAIN list : list[i] \in DOMAIN cache BY DEF IInv, ListIsCache
<1>8. TypeOK'
    <2>1. cache' \in [DOMAIN cache' -> Event] BY <1>1, <1>5, <1>6
    <2>2. oldest' \in 0 .. MaxAge \cup {NoTime} BY <1>3 DEF IInv, TypeOK, Tick
    <2>3. idle' \in 0 .. MaxElapsed
        BY <1>2, PaceAssumption DEF IInv, TypeOK, Tick, Elapsed, Least
    <2>4. QED BY <1>1, <1>6, <2>1, <2>2, <2>3 DEF IInv, TypeOK, Tick
<1>9. ListIsCache' BY <1>1, <1>6 DEF IInv, ListIsCache
<1>10. list # <<>> => 1 \in DOMAIN list BY <1>1
<1>11. HeadIsUnsent' BY <1>1, <1>5, <1>7, <1>10 DEF IInv, HeadIsUnsent
<1>12. AgesInOrder'
    <2>1. oldest' = IF list' = <<>> THEN NoTime ELSE cache'[list'[1]].age
        <3>1. CASE list = <<>> BY <1>1, <3>1 DEF IInv, AgesInOrder, Tick
        <3>2. CASE list # <<>>
            <4>1. oldest = cache[list[1]].age BY <3>2 DEF IInv, AgesInOrder
            <4>2. oldest # NoTime BY <1>5, <1>7, <1>10, <3>2, <4>1 DEF NoTime
            <4>3. QED BY <1>1, <1>5, <1>7, <1>10, <3>2, <4>1, <4>2 DEF Tick
        <3>3. QED BY <3>1, <3>2
    <2>2. ASSUME NEW i \in DOMAIN list', NEW j \in DOMAIN list', i <= j
          PROVE  cache'[list'[j]].age <= cache'[list'[i]].age
        <3>1. cache[list[j]].age <= cache[list[i]].age
            BY <1>1, <2>2 DEF IInv, AgesInOrder
        <3>2. list[i] \in DOMAIN cache /\ list[j] \in DOMAIN cache BY <1>1, <1>7, <2>2
        <3>3. Older(cache[list[j]].age, ms) <= Older(cache[list[i]].age, ms)
            BY <1>4, <1>5, <3>1, <3>2
        <3>4. QED BY <1>1, <1>5, <3>2, <3>3
    <2>3. QED BY <2>1, <2>2 DEF AgesInOrder
<1>13. QED BY <1>8, <1>9, <1>11, <1>12 DEF IInv

\* What does not touch the queue: the rate, and the two ends of pace_try_transmit.
LEMMA QueueUntouched ==
    ASSUME IInv, TypeOK', UNCHANGED queVars PROVE IInv'
BY DEF IInv, queVars, ListIsCache, HeadIsUnsent, AgesInOrder

LEMMA SetRateStep == ASSUME IInv, SetRate PROVE IInv'
<1>1. TypeOK' BY DEF IInv, TypeOK, SetRate, queVars
<1>2. QED BY <1>1, QueueUntouched DEF SetRate

LEMMA BeginTransmitStep == ASSUME IInv, BeginTransmit PROVE IInv'
<1>1. target' \in Nat
    <2>1. QueueRate \in Nat /\ rate \in Nat
        BY QueueRateIsNat, PaceAssumption DEF IInv, TypeOK
    <2>2. QED BY <2>1 DEF BeginTransmit, Greatest
<1>2. remaining' \in Int
    <2>1. idle \in Nat /\ remaining \in Int BY PaceAssumption DEF IInv, TypeOK
    <2>2. QED BY <1>1, <2>1, BudgetIsInt DEF BeginTransmit
<1>3. TypeOK' BY <1>1, <1>2 DEF IInv, TypeOK, BeginTransmit, queVars
<1>4. QED BY <1>3, QueueUntouched DEF BeginTransmit

LEMMA EndTransmitStep == ASSUME IInv, EndTransmit PROVE IInv'
<1>1. 0 \in 0 .. MaxElapsed BY PaceAssumption
<1>2. TypeOK' BY <1>1 DEF IInv, TypeOK, EndTransmit, queVars
<1>3. QED BY <1>2, QueueUntouched DEF EndTransmit

-----------------------------------------------------------------------------
\* The queue after pacer_queue_sent: of the skip list there remain the packets of
\* the rest of the list, with the one just sent marked.
LEMMA AfterSent ==
    ASSUME IInv, NEW s \in DOMAIN cache, Sent(s)
    PROVE  /\ list' \in Seq(Packets)
           /\ DOMAIN cache' = {list'[i] : i \in DOMAIN list'}
           /\ \A i \in DOMAIN list' :
                /\ FirstUnsent(s) + i - 1 \in DOMAIN list
                /\ list'[i] = list[FirstUnsent(s) + i - 1]
                /\ list'[i] \in DOMAIN cache
           /\ \A r \in DOMAIN cache' : /\ r \in DOMAIN cache /\ cache'[r] \in Event
                                       /\ cache'[r].age = cache[r].age
                                       /\ cache'[r].sent = (cache[r].sent \/ r = s)
<1>1. list' = SubSeq(list, FirstUnsent(s), Len(list)) /\ cache' = Kept(s, list')
    BY DEF Sent
<1>2. /\ list' \in Seq(Packets)
      /\ \A i \in DOMAIN list' : /\ FirstUnsent(s) + i - 1 \in DOMAIN list
                                 /\ list'[i] = list[FirstUnsent(s) + i - 1]
    BY <1>1, RestOfList
<1>3. \A i \in DOMAIN list' : list'[i] \in DOMAIN cache
    BY <1>2 DEF IInv, ListIsCache
<1>4. DOMAIN cache' = {list'[i] : i \in DOMAIN list'} BY <1>1 DEF Kept
<1>5. ASSUME NEW r \in DOMAIN cache'
      PROVE  /\ r \in DOMAIN cache /\ cache'[r] \in Event
             /\ cache'[r].age = cache[r].age
             /\ cache'[r].sent = (cache[r].sent \/ r = s)
    <2>1. r \in DOMAIN cache BY <1>3, <1>4
    <2>2. cache[r] \in Event BY <2>1 DEF IInv, TypeOK
    <2>3. cache'[r] = [cache[r] EXCEPT !.sent = @ \/ r = s] BY <1>1, <1>4 DEF Kept
    <2>4. QED BY <2>1, <2>2, <2>3 DEF Event
<1>6. QED BY <1>2, <1>3, <1>4, <1>5

LEMMA SendStep == ASSUME IInv, Send PROVE IInv'
<1> DEFINE s == Front
<1> DEFINE n == FirstUnsent(s)
<1>1. s \in DOMAIN cache /\ Sent(s) BY FrontIsLeastUnsent DEF Send, Unsent
<1>2. s \in Packets /\ SizeOf[s] \in Nat \ {0}
    BY <1>1, PaceAssumption DEF IInv, TypeOK
<1> HIDE DEF s
<1>3. /\ n \in 1 .. Len(list) + 1 /\ Len(list) \in Nat
      /\ n <= Len(list) => list[n] # s /\ ~cache[list[n]].sent
    BY <1>1, FirstUnsentStops DEF IInv, TypeOK
<1> HIDE DEF n
<1>4. /\ list' \in Seq(Packets)
      /\ DOMAIN cache' = {list'[i] : i \in DOMAIN list'}
      /\ \A i \in DOMAIN list' : /\ n + i - 1 \in DOMAIN list
                                 /\ list'[i] = list[n + i - 1]
                                 /\ list'[i] \in DOMAIN cache
      /\ \A r \in DOMAIN cache' : /\ r \in DOMAIN cache /\ cache'[r] \in Event
                                  /\ cache'[r].age = cache[r].age
                                  /\ cache'[r].sent = (cache[r].sent \/ r = s)
    BY <1>1, AfterSent DEF n
<1>5. /\ \A i \in DOMAIN list' : i \in Nat /\ i >= 1 /\ list'[i] \in DOMAIN cache'
      /\ list' # <<>> => 1 \in DOMAIN list'
    BY <1>4
<1>6. list' # <<>> => list'[1] = list[n] /\ list'[1] # s /\ ~cache[list'[1]].sent
    <2>1. SUFFICES ASSUME list' # <<>> PROVE list'[1] = list[n] /\ n <= Len(list)
        BY <1>3
    <2>2. n + 1 - 1 = n BY <1>3
    <2>3. list'[1] = list[n] /\ n \in DOMAIN list BY <1>4, <1>5, <2>1, <2>2
    <2>4. DOMAIN list = 1 .. Len(list) BY DEF IInv, TypeOK
    <2>5. QED BY <2>3, <2>4
<1>7. oldest' = IF list' = <<>> THEN NoTime ELSE cache'[list'[1]].age
    <2>1. oldest' = IF list' = <<>> THEN NoTime ELSE cache[list'[1]].age
        BY <1>1 DEF Sent, OldestAfter
    <2>2. QED BY <1>4, <1>5, <2>1
<1>8. TypeOK'
    <2>1. cache' \in [DOMAIN cache' -> Event]
        <3>1. cache' = [r \in DOMAIN cache' |-> cache'[r]] BY <1>1 DEF Sent, Kept
        <3>2. QED BY <1>4, <3>1
    <2>2. DOMAIN cache' \subseteq Packets BY <1>4 DEF IInv, TypeOK
    <2>3. total' \in Nat
        <3>1. total' = TotalAfter(s, list') /\ total \in Nat
            BY <1>1 DEF Sent, IInv, TypeOK
        <3>2. QED BY <1>2, <3>1 DEF TotalAfter, Greatest
    <2>4. oldest' \in 0 .. MaxAge \cup {NoTime} BY <1>4, <1>5, <1>7 DEF Event
    <2>5. remaining' \in Int /\ burst' \in Nat
        <3>1. MaxBudget(target) \in Nat
            <4>1. 0 \in Nat /\ target \in Nat /\ remaining \in Int BY DEF IInv, TypeOK
            <4>2. QED BY <4>1, BudgetIsInt
        <3>2. /\ remaining' = Greatest(-MaxBudget(target), remaining - SizeOf[s])
              /\ burst' = burst + SizeOf[s]
            BY DEF Send, s
        <3>3. remaining \in Int /\ burst \in Nat BY DEF IInv, TypeOK
        <3>4. QED BY <1>2, <3>1, <3>2, <3>3 DEF Greatest
    <2>6. QED BY <1>4, <2>1, <2>2, <2>3, <2>4, <2>5 DEF IInv, TypeOK, Send
<1>9. ListIsCache'
    <2>1. ASSUME NEW i \in DOMAIN list', NEW j \in DOMAIN list', list'[i] = list'[j]
          PROVE  i = j
        <3>1. n + i - 1 = n + j - 1 BY <1>4, <2>1 DEF IInv, ListIsCache
        <3>2. QED BY <1>3, <1>5, <3>1
    <2>2. QED BY <1>4, <2>1 DEF ListIsCache
<1>10. HeadIsUnsent' BY <1>4, <1>5, <1>6 DEF HeadIsUnsent
<1>11. AgesInOrder'
    <2>1. ASSUME NEW i \in DOMAIN list', NEW j \in DOMAIN list', i <= j
          PROVE  cache'[list'[j]].age <= cache'[list'[i]].age
        <3>1. n + i - 1 <= n + j - 1 BY <1>3, <1>5, <2>1
        <3>2. cache[list'[j]].age <= cache[list'[i]].age
            BY <1>4, <3>1 DEF IInv, AgesInOrder
        <3>3. QED BY <1>4, <1>5, <3>2
    <2>2. QED BY <1>7, <2>1 DEF AgesInOrder
<1>12. QED BY <1>8, <1>9, <1>10, <1>11 DEF IInv

LEMMA StepIInv == IInv /\ [Next]_vars => IInv'
<1>1. SUFFICES ASSUME IInv, [Next]_vars PROVE IInv' OBVIOUS
<1>2. CASE \E s \in Packets : Insert(s) BY <1>1, <1>2, InsertStep
<1>3. CASE SetRate BY <1>1, <1>3, SetRateStep
<1>4. CASE \E ms \in Steps : Tick(ms) BY <1>1, <1>4, TickStep
<1>5. CASE BeginTransmit BY <1>1, <1>5, BeginTransmitStep
<1>6. CASE Send BY <1>1, <1>6, SendStep
<1>7. CASE EndTransmit BY <1>1, <1>7, EndTransmitStep
<1>8. CASE UNCHANGED vars
    <2>1. TypeOK' BY <1>1, <1>8 DEF IInv, TypeOK, vars, queVars
    <2>2. QED BY <1>1, <1>8, <2>1, QueueUntouched DEF vars
<1>9. QED BY <1>1, <1>2, <1>3, <1>4, <1>5, <1>6, <1>7, <1>8 DEF Next

\* The invariants of the queue, together.
THEOREM Invariance == Spec => []IInv
BY InitIInv, StepIInv, PTL DEF Spec

-----------------------------------------------------------------------------
\* The pacer is type correct: the rate it computes from its queue is a natural
\* number (pacer_queue_target_bitrate_kbps divides by what is left of max_que_ms).
THEOREM TypeCorrect == Spec => []TypeOK
<1>1. IInv => TypeOK BY DEF IInv
<1>2. QED BY <1>1, Invariance, PTL

\* que->l and que->cache hold the same packets, the head of que->l is not sent, so that
\* pacer_queue_front returns one that is not, and que->oldest_ts is the arrival of the
\* packet that has waited the longest.
THEOREM QueueCorrect == Spec => []QueueIsConsistent
<1>1. ASSUME IInv PROVE OldestIsOldest
    <2>1. CASE list = <<>>
        <3>1. Unsent = {} BY <1>1, <2>1 DEF IInv, ListIsCache, Unsent
        <3>2. QED BY <1>1, <2>1, <3>1 DEF IInv, AgesInOrder, OldestIsOldest
    <2>2. CASE list # <<>>
        <3>1. 1 \in DOMAIN list /\ \A i \in DOMAIN list : 1 <= i
            BY <1>1, <2>2 DEF IInv, TypeOK
        <3>2. list[1] \in Unsent
            BY <1>1, <2>2, <3>1 DEF IInv, ListIsCache, HeadIsUnsent, Unsent
        <3>3. oldest = cache[list[1]].age BY <1>1, <2>2 DEF IInv, AgesInOrder
        <3>4. ASSUME NEW s \in Unsent PROVE cache[s].age <= oldest
            <4>1. PICK i \in DOMAIN list : s = list[i]
                BY <1>1 DEF IInv, ListIsCache, Unsent
            <4>2. QED BY <1>1, <3>1, <3>3, <4>1 DEF IInv, AgesInOrder
        <3>5. QED BY <3>2, <3>3, <3>4 DEF OldestIsOldest
    <2>3. QED BY <2>1, <2>2
<1>2. IInv => QueueIsConsistent BY <1>1 DEF IInv, QueueIsConsistent
<1>3. QED BY <1>2, Invariance, PTL

-----------------------------------------------------------------------------
\* What the longest interval that counts is worth at the present rate.
Share == (target * MaxElapsed) \div 8

\* While there is budget, what was sent and what is left are within that share:
\* use_budget cuts the debt to -max_bytes_in_budget only when no budget is left.
BudgetCounted == sending /\ remaining > 0 => burst + remaining <= Share

\* That share is a number of bytes, whatever the rate is set to.
LEMMA ShareIsNat == ASSUME TypeOK PROVE Share \in Nat
<1>1. target \in Nat /\ MaxElapsed \in Nat BY PaceAssumption DEF TypeOK
<1>2. target * MaxElapsed \in Nat BY <1>1, ProductIsNat
<1>3. QED BY <1>2, DivisionIsNat DEF Share

\* A transmission begins with no more than the share of the time that passed.
LEMMA BudgetWithinShare ==
    ASSUME NEW kbps \in Nat, NEW ms \in 0 .. MaxElapsed, remaining \in Int
    PROVE  Budget(kbps, ms) <= (kbps * MaxElapsed) \div 8
<1>1. ms \in Nat /\ MaxElapsed \in Nat /\ ms <= MaxElapsed BY PaceAssumption
<1>2. kbps * ms <= kbps * MaxElapsed
    <2>1. PICK d \in Nat : MaxElapsed = ms + d
        <3>1. MaxElapsed - ms \in Nat /\ MaxElapsed = ms + (MaxElapsed - ms) BY <1>1
        <3>2. QED BY <3>1
    <2>2. kbps * MaxElapsed = kbps * ms + kbps * d BY <1>1, <2>1
    <2>3. kbps * d \in Nat /\ kbps * ms \in Nat BY <1>1, <2>1, ProductIsNat
    <2>4. QED BY <2>2, <2>3
<1>3. kbps * ms \in Nat /\ kbps * MaxElapsed \in Nat BY <1>1, ProductIsNat
<1>4. (kbps * ms) \div 8 <= (kbps * MaxElapsed) \div 8
    <2>1. \A a, b \in Nat : a <= b => a \div 8 <= b \div 8 OBVIOUS
    <2>2. QED BY <1>2, <1>3, <2>1
<1>5. (kbps * ms) \div 8 \in Nat /\ (kbps * MaxElapsed) \div 8 \in Nat
    BY <1>3, DivisionIsNat
<1>6. MaxBudget(kbps) \in Nat BY <1>1, BudgetIsInt
<1>7. Clamped(kbps) \in Int BY <1>6 DEF Clamped, Least, Greatest
<1>8. QED BY <1>4, <1>5, <1>6, <1>7 DEF Budget, Least

LEMMA StepBurst ==
    ASSUME IInv, BudgetCounted, BurstIsBounded, [Next]_vars
    PROVE  BudgetCounted' /\ BurstIsBounded'
<1>1. /\ TypeOK /\ TypeOK' /\ Share \in Nat /\ Share' \in Nat
    <2>1. TypeOK /\ TypeOK' BY StepIInv DEF IInv
    <2>2. Share' \in Nat
        <3>1. target' \in Nat /\ MaxElapsed \in Nat
            BY <2>1, PaceAssumption DEF TypeOK
        <3>2. target' * MaxElapsed \in Nat BY <3>1, ProductIsNat
        <3>3. QED BY <3>2, DivisionIsNat DEF Share
    <2>3. QED BY <2>1, <2>2, ShareIsNat
<1>2. \A s \in Packets : SizeOf[s] \in Nat \ {0} BY PaceAssumption
\* A transmission that has sent nothing yet is within any bound.
<1>3. burst' = 0 => BurstIsBounded'
    <2>1. PICK s \in Packets : TRUE BY PaceAssumption
    <2>2. QED BY <1>1, <1>2, <2>1 DEF BurstIsBounded, Share
<1>4. CASE UNCHANGED <<remaining, target, sending, burst>>
    BY <1>4 DEF BudgetCounted, BurstIsBounded, Share
<1>5. CASE BeginTransmit
    <2>1. remaining' <= Share'
        <3>1. remaining' = Budget(target', idle) BY <1>5 DEF BeginTransmit
        <3>2. target' \in Nat /\ idle \in 0 .. MaxElapsed /\ remaining \in Int
            BY <1>1 DEF TypeOK
        <3>3. QED BY <3>1, <3>2, BudgetWithinShare DEF Share
    <2>2. burst' = 0 BY <1>5 DEF BeginTransmit
    <2>3. QED BY <1>1, <1>3, <2>1, <2>2 DEF BudgetCounted, TypeOK
<1>6. CASE Send
    <2> DEFINE size == SizeOf[Front]
    <2>1. Front \in Packets /\ size \in Nat \ {0}
        BY <1>2, <1>6, FrontIsLeastUnsent DEF Send, Unsent, IInv, TypeOK
    <2>2. /\ remaining > 0 /\ burst + remaining <= Share
          /\ burst \in Nat /\ remaining \in Int /\ Share' = Share
        BY <1>1, <1>6 DEF Send, BudgetCounted, Share, TypeOK
    <2>3. MaxBudget(target) \in Nat
        <3>1. 0 \in Nat /\ target \in Nat BY <1>1 DEF TypeOK
        <3>2. QED BY <2>2, <3>1, BudgetIsInt
    <2>4. /\ remaining' = Greatest(-MaxBudget(target), remaining - size)
          /\ burst' = burst + size
        BY <1>6 DEF Send
    <2> HIDE DEF size
    <2>5. burst' < Share' + size /\ (remaining' > 0 => burst' + remaining' <= Share')
        BY <1>1, <2>1, <2>2, <2>3, <2>4 DEF Greatest
    <2>6. BurstIsBounded' BY <2>1, <2>5 DEF BurstIsBounded, Share, size
    <2>7. QED BY <2>5, <2>6 DEF BudgetCounted
<1>7. CASE EndTransmit BY <1>3, <1>7 DEF EndTransmit, BudgetCounted
<1>8. QED
    BY <1>4, <1>5, <1>6, <1>7 DEF Next, Insert, SetRate, Tick, vars

\* k_max_interval_ms bounds what one call of pace_try_transmit sends.
THEOREM BurstCorrect == Spec => []BurstIsBounded
<1>1. Init => BudgetCounted /\ BurstIsBounded
    <2>1. SUFFICES ASSUME Init PROVE BudgetCounted /\ BurstIsBounded OBVIOUS
    <2>2. TypeOK BY <2>1, InitIInv DEF IInv
    <2>3. PICK s \in Packets : SizeOf[s] \in Nat \ {0} BY PaceAssumption
    <2>4. burst < Share + SizeOf[s] BY <2>1, <2>2, <2>3, ShareIsNat DEF Init
    <2>5. QED BY <2>1, <2>4 DEF Init, BudgetCounted, BurstIsBounded, Share
<1>2. IInv /\ BudgetCounted /\ BurstIsBounded /\ [Next]_vars => BudgetCounted' /\ BurstIsBounded'
    BY StepBurst
<1>3. QED BY <1>1, <1>2, Invariance, PTL DEF Spec

-----------------------------------------------------------------------------
\* What is sent leaves the bag, and nothing else does: of the packets taken out of
\* the skip list each was sent, and of those that stay only one is newly marked.
LEMMA SendTakesTheLeast ==
    ASSUME IInv, Send
    PROVE  /\ Front \in Unsent /\ \A o \in Unsent : Front <= o
           /\ Unsent' = Unsent \ {Front}
<1> DEFINE s == Front
<1> DEFINE n == FirstUnsent(s)
<1>1. s \in Unsent /\ \A o \in Unsent : s <= o BY FrontIsLeastUnsent DEF Send
<1>2. s \in DOMAIN cache /\ Sent(s) BY <1>1 DEF Send, Unsent
<1> HIDE DEF s
<1>3. /\ n \in 1 .. Len(list) + 1
      /\ \A i \in 1 .. Len(list) : list[i] # s /\ ~cache[list[i]].sent => n <= i
    BY <1>2, FirstUnsentStops
<1>4. /\ DOMAIN cache' = {list'[i] : i \in DOMAIN list'}
      /\ \A r \in DOMAIN cache' : /\ r \in DOMAIN cache
                                  /\ cache'[r].sent = (cache[r].sent \/ r = s)
    BY <1>2, AfterSent
<1>5. /\ DOMAIN list' = 1 .. Len(list) - n + 1
      /\ \A i \in DOMAIN list' : list'[i] = list[n + i - 1]
    <2>1. list' = SubSeq(list, n, Len(list)) BY <1>2 DEF Sent
    <2>2. /\ list' \in Seq(Packets) /\ Len(list') = Len(list) - n + 1
          /\ \A i \in DOMAIN list' : list'[i] = list[n + i - 1]
        BY <1>2, <2>1, RestOfList
    <2>3. QED BY <2>2
<1> HIDE DEF n
<1>6. ASSUME NEW r \in Unsent, r # s PROVE r \in DOMAIN cache'
    <2>1. Len(list) \in Nat /\ DOMAIN list = 1 .. Len(list) BY DEF IInv, TypeOK
    <2>2. PICK i \in 1 .. Len(list) : r = list[i]
        BY <2>1 DEF IInv, ListIsCache, Unsent
    <2>3. n <= i BY <1>3, <1>6, <2>2 DEF Unsent
    <2>4. i - n + 1 \in DOMAIN list' BY <1>3, <1>5, <2>1, <2>2, <2>3
    <2>5. n + (i - n + 1) - 1 = i BY <1>3, <2>1, <2>2
    <2>6. list'[i - n + 1] = r BY <1>5, <2>2, <2>4, <2>5
    <2>7. QED BY <1>4, <2>4, <2>6
<1>7. Unsent' = Unsent \ {s}
    <2>1. Unsent' = {r \in DOMAIN cache' : ~cache'[r].sent} BY DEF Unsent
    <2>2. ASSUME NEW r \in Unsent' PROVE r \in Unsent \ {s}
        BY <1>4, <2>1, <2>2 DEF Unsent
    <2>3. ASSUME NEW r \in Unsent \ {s} PROVE r \in Unsent'
        BY <1>4, <1>6, <2>1, <2>3 DEF Unsent
    <2>4. QED BY <2>2, <2>3
<1>8. QED BY <1>1, <1>7 DEF s

LEMMA InsertIsInsert ==
    ASSUME IInv, NEW s \in Packets, Insert(s)
    PROVE  s \in Packets \ Unsent /\ Unsent' = Unsent \cup {s}
<1>1. /\ s \notin DOMAIN cache
      /\ cache' = [r \in DOMAIN cache \cup {s} |->
                      IF r = s THEN [age |-> 0, sent |-> FALSE] ELSE cache[r]]
    BY DEF Insert
<1>2. /\ DOMAIN cache' = DOMAIN cache \cup {s} /\ cache'[s].sent = FALSE
      /\ \A r \in DOMAIN cache : cache'[r] = cache[r]
    BY <1>1
<1>3. QED BY <1>1, <1>2 DEF Unsent

LEMMA TickKeepsUnsent ==
    ASSUME IInv, NEW ms \in Steps, Tick(ms) PROVE Unsent' = Unsent
<1>1. /\ cache \in [DOMAIN cache -> Event]
      /\ cache' = [s \in DOMAIN cache |-> [cache[s] EXCEPT !.age = Older(@, ms)]]
    BY DEF IInv, TypeOK, Tick
<1>2. DOMAIN cache' = DOMAIN cache /\ \A s \in DOMAIN cache : cache'[s].sent = cache[s].sent
    BY <1>1 DEF Event
<1>3. QED BY <1>2 DEF Unsent

\* The pacer implements PacketBag: whatever is queued is sent once, the least
\* sequence number first.
THEOREM BagCorrect == Spec => ImplementsBag
<1>1. Init => Bag!BagInit BY DEF Init, Bag!BagInit, Unsent
<1>2. IInv /\ [Next]_vars => [Bag!Insert \/ Bag!SendLeast]_Unsent
    <2>1. SUFFICES ASSUME IInv, [Next]_vars
                   PROVE  Bag!Insert \/ Bag!SendLeast \/ Unsent' = Unsent
        OBVIOUS
    <2>2. CASE \E s \in Packets : Insert(s)
        BY <2>1, <2>2, InsertIsInsert DEF Bag!Insert
    <2>3. CASE SetRate BY <2>3 DEF SetRate, queVars, Unsent
    <2>4. CASE \E ms \in Steps : Tick(ms) BY <2>1, <2>4, TickKeepsUnsent
    <2>5. CASE BeginTransmit BY <2>5 DEF BeginTransmit, queVars, Unsent
    <2>6. CASE Send BY <2>1, <2>6, SendTakesTheLeast DEF Bag!SendLeast
    <2>7. CASE EndTransmit BY <2>7 DEF EndTransmit, queVars, Unsent
    <2>8. CASE UNCHANGED vars BY <2>8 DEF vars, queVars, Unsent
    <2>9. QED BY <2>1, <2>2, <2>3, <2>4, <2>5, <2>6, <2>7, <2>8 DEF Next
<1>3. QED BY <1>1, <1>2, Invariance, PTL DEF Spec, ImplementsBag, Bag!BagSpec

-----------------------------------------------------------------------------
\* que->l holds finitely many packets, so that a sum over them is one.
LEMMA UnsentIsFinite ==
    ASSUME IInv
    PROVE  IsFiniteSet(Unsent) /\ \A s \in Unsent : SizeOf[s] \in Nat \ {0}
<1> DEFINE All == {list[i] : i \in DOMAIN list}
<1>1. list \in Seq(Packets) BY DEF IInv, TypeOK
<1>2. list \in Surjection(1 .. Len(list), All) BY <1>1 DEF Surjection
<1>3. IsFiniteSet(1 .. Len(list)) BY <1>1, FS_Interval
<1>4. IsFiniteSet(All) BY <1>2, <1>3, FS_Surjection
<1>5. Unsent \in SUBSET All BY DEF IInv, ListIsCache, Unsent
<1>6. Unsent \subseteq Packets BY DEF IInv, TypeOK, Unsent
<1>7. QED BY <1>4, <1>5, <1>6, FS_Subset, PaceAssumption

LEMMA TotalIsSum == TotalIsUnsent <=> total = SumOver(SizeOf, Unsent)
BY DEF TotalIsUnsent, SumOver, MapThenSumSet, MapThenFoldSet

LEMMA StepTotal ==
    ASSUME IInv, TotalIsUnsent, [Next]_vars
    PROVE  TotalIsUnsent'
<1>1. total = SumOver(SizeOf, Unsent) BY TotalIsSum
<1>2. IsFiniteSet(Unsent) /\ \A s \in Unsent : SizeOf[s] \in Nat \ {0} BY UnsentIsFinite
<1>3. SUFFICES total' = SumOver(SizeOf, Unsent')
    BY DEF TotalIsUnsent, SumOver, MapThenSumSet, MapThenFoldSet
<1>4. CASE total' = total /\ Unsent' = Unsent BY <1>1, <1>4
<1>5. ASSUME NEW s \in Packets, Insert(s) PROVE total' = SumOver(SizeOf, Unsent')
    <2>1. s \notin Unsent /\ Unsent' = Unsent \cup {s} BY <1>5, InsertIsInsert
    <2>2. total' = total + SizeOf[s] BY <1>5 DEF Insert
    <2>3. SizeOf[s] \in Nat \ {0} BY PaceAssumption
    <2>4. IsFiniteSet(Unsent') /\ \A r \in Unsent' : SizeOf[r] \in Int
        BY <1>2, <2>1, <2>3, FS_AddElement
    <2>5. s \in Unsent' /\ Unsent' \ {s} = Unsent BY <2>1
    <2>6. SumOver(SizeOf, Unsent') = SizeOf[s] + SumOver(SizeOf, Unsent)
        BY <2>4, <2>5, SumWithout
    <2>7. SumOver(SizeOf, Unsent) \in Nat BY <1>2, SumIsNat
    <2>8. QED BY <1>1, <2>2, <2>3, <2>6, <2>7
<1>6. ASSUME NEW ms \in Steps, Tick(ms) PROVE total' = total /\ Unsent' = Unsent
    BY <1>6, TickKeepsUnsent DEF Tick
<1>7. CASE Send
    <2> DEFINE s == Front
               left == SumOver(SizeOf, Unsent \ {s})
    <2>1. s \in Unsent /\ Unsent' = Unsent \ {s} BY <1>7, SendTakesTheLeast
    <2>2. SizeOf[s] \in Nat \ {0} /\ total = SizeOf[s] + left
        BY <1>1, <1>2, <2>1, SumWithout
    <2>3. left \in Nat
        <3>1. IsFiniteSet(Unsent \ {s}) /\ \A r \in Unsent \ {s} : SizeOf[r] \in Nat
            BY <1>2, FS_RemoveElement
        <3>2. QED BY <3>1, SumIsNat
    <2>4. Sent(s) BY <1>7 DEF Send
    <2>5. total' = TotalAfter(s, list') BY <2>4 DEF Sent
    <2> HIDE DEF s
    <2>6. list' = <<>> => left = 0
        <3>1. ListIsCache' BY StepIInv DEF IInv
        <3>2. list' = <<>> => Unsent' = {} BY <3>1 DEF ListIsCache, Unsent
        <3>3. QED BY <2>1, <3>2, SumOfNothing
    <2>7. total - SizeOf[s] = left
        <3> HIDE DEF left
        <3>1. QED BY <2>2, <2>3
    <2>8. total' = left BY <2>3, <2>5, <2>6, <2>7 DEF TotalAfter, Greatest
    <2>9. QED BY <2>1, <2>8
<1>8. QED
    BY <1>4, <1>5, <1>6, <1>7
    DEF Next, SetRate, BeginTransmit, EndTransmit, vars, queVars, Unsent

\* pacer_queue_push and pacer_queue_sent keep total_size the sum of what is still to be
\* sent, whatever stays in the queue behind its head; the rate that empties the queue in
\* time is computed from it.
THEOREM TotalCorrect == Spec => []TotalIsUnsent
<1>1. Init => TotalIsUnsent
    <2>1. SUFFICES ASSUME Init PROVE total = SumOver(SizeOf, Unsent) BY TotalIsSum
    <2>2. Unsent = {} /\ total = 0 BY <2>1 DEF Init, Unsent
    <2>3. QED BY <2>2, SumOfNothing
<1>2. IInv /\ TotalIsUnsent /\ [Next]_vars => TotalIsUnsent' BY StepTotal
<1>3. QED BY <1>1, <1>2, Invariance, PTL DEF Spec

-----------------------------------------------------------------------------
\* No packet is so large that the debt it leaves outweighs what the shortest interval
\* brings for the smallest one: at the rate that empties a queue at once, MinElapsed
\* times its size, of which one time pays for the packet.
DebtIsPaid ==
    /\ Window > 0
    /\ \A s, t \in Packets : SizeOf[s] <= (MinElapsed - 1) * SizeOf[t] + 1

\* What a transmission owes is less than one packet.
DebtIsOnePacket == \E s \in Packets : remaining + SizeOf[s] > 0

\* A transmission that began with a packet that is late has budget for the whole queue.
LateIsPaid == sending /\ oldest > MaxQue => remaining >= total

LEMMA ProductGrows ==
    ASSUME NEW a \in Nat, NEW b \in Nat, NEW c \in Nat, NEW d \in Nat, a <= b, c <= d
    PROVE  a * c <= b * d
<1>1. PICK x \in Nat : b = a + x
    <2>1. b - a \in Nat /\ b = a + (b - a) OBVIOUS
    <2>2. QED BY <2>1
<1>2. PICK y \in Nat : d = c + y
    <2>1. d - c \in Nat /\ d = c + (d - c) OBVIOUS
    <2>2. QED BY <2>1
<1>3. b * d = a * c + (x * c + b * y) BY <1>1, <1>2
<1>4. a * c \in Nat /\ x * c \in Nat /\ b * y \in Nat BY ProductIsNat
<1>5. QED BY <1>3, <1>4

\* A queue that is not empty weighs at least one of its packets.
LEMMA UnsentWeighs ==
    ASSUME IInv, TotalIsUnsent, Unsent # {}
    PROVE  \E t \in Packets : total >= SizeOf[t]
<1>1. IsFiniteSet(Unsent) /\ \A s \in Unsent : SizeOf[s] \in Nat \ {0} BY UnsentIsFinite
<1>2. PICK t \in Unsent : TRUE OBVIOUS
<1>3. total = SizeOf[t] + SumOver(SizeOf, Unsent \ {t}) BY <1>1, TotalIsSum, SumWithout
<1>4. SumOver(SizeOf, Unsent \ {t}) \in Nat
    <2>1. IsFiniteSet(Unsent \ {t}) BY <1>1, FS_RemoveElement
    <2>2. QED BY <1>1, <2>1, SumIsNat
<1>5. t \in Packets BY DEF Unsent, IInv, TypeOK
<1>6. QED BY <1>1, <1>3, <1>4, <1>5

\* Increasing the budget never adds to the debt.
LEMMA BudgetFrom ==
    ASSUME NEW kbps \in Nat, NEW ms \in Nat, remaining \in Int
    PROVE  \/ Budget(kbps, ms) = MaxBudget(kbps)
           \/ /\ Budget(kbps, ms) >= (kbps * ms) \div 8 + remaining
              /\ remaining < 0
           \/ Budget(kbps, ms) >= (kbps * ms) \div 8
<1> DEFINE more == (kbps * ms) \div 8
<1>1. more \in Nat BY ProductIsNat, DivisionIsNat
<1>2. MaxBudget(kbps) \in Nat BY BudgetIsInt
<1>3. /\ Clamped(kbps) \in Int
      /\ Clamped(kbps) < 0 => remaining < 0 /\ Clamped(kbps) >= remaining
    BY <1>2 DEF Clamped, Least, Greatest
<1>4. Budget(kbps, ms) = Least((IF Clamped(kbps) < 0 THEN Clamped(kbps) ELSE 0) + more, MaxBudget(kbps))
    BY DEF Budget
<1> HIDE DEF more
<1>5. \/ Budget(kbps, ms) = MaxBudget(kbps)
      \/ Budget(kbps, ms) >= more + remaining /\ remaining < 0
      \/ Budget(kbps, ms) >= more
    BY <1>1, <1>2, <1>3, <1>4 DEF Least
<1>6. QED BY <1>5 DEF more

\* What a late queue gets when a transmission begins.
LEMMA BeginPaysLate ==
    ASSUME IInv, TotalIsUnsent, DebtIsOnePacket, DebtIsPaid, BeginTransmit, oldest > MaxQue
    PROVE  remaining' >= total
<1>1. /\ total \in Nat /\ remaining \in Int /\ idle \in Nat /\ MinElapsed \in Nat \ {0}
      /\ idle >= MinElapsed /\ MaxQue \in Nat /\ oldest \in Int /\ rate \in Nat /\ Window \in Nat \ {0}
    BY PaceAssumption DEF IInv, TypeOK, BeginTransmit, NoTime, DebtIsPaid
<1>2. QueueRate = total * 8
    <2>1. Space = 1 BY <1>1 DEF Space
    <2>2. \A n \in Nat : n \div 1 = n OBVIOUS
    <2>3. total * 8 \in Nat BY <1>1
    <2>4. QED BY <1>1, <2>1, <2>2, <2>3 DEF QueueRate
<1>3. target' \in Nat /\ target' >= total * 8
    BY <1>1, <1>2 DEF BeginTransmit, Greatest
<1>4. remaining' = Budget(target', idle) BY DEF BeginTransmit
<1> DEFINE more == (target' * idle) \div 8
           most == (Window * target') \div 8
<1>5. \A n, m \in Nat : n * 8 <= m => n <= m \div 8 OBVIOUS
<1> DEFINE eight == total * 8
<1>5a. eight \in Nat /\ eight <= target' BY <1>1, <1>3
<1>6. most \in Nat /\ most >= total
    <2>1. eight * 1 <= target' * Window
        <3>1. 1 \in Nat /\ Window \in Nat /\ 1 <= Window BY <1>1
        <3> HIDE DEF eight
        <3>2. QED BY <1>3, <1>5a, <3>1, ProductGrows
    <2>2. target' * Window = Window * target' BY <1>1, <1>3
    <2>3. Window * target' \in Nat BY <1>1, <1>3, ProductIsNat
    <2>4. total * 8 <= Window * target' BY <1>1, <2>1, <2>2
    <2>5. QED BY <1>1, <1>5, <2>3, <2>4, DivisionIsNat
<1>7. more \in Nat /\ more >= total * MinElapsed
    <2>1. eight * MinElapsed <= target' * idle
        <3>1. MinElapsed \in Nat /\ idle \in Nat /\ MinElapsed <= idle BY <1>1
        <3> HIDE DEF eight
        <3>2. QED BY <1>3, <1>5a, <3>1, ProductGrows
    <2>2. (total * 8) * MinElapsed = (total * MinElapsed) * 8 BY <1>1
    <2>3. target' * idle \in Nat /\ total * MinElapsed \in Nat BY <1>1, <1>3, ProductIsNat
    <2>4. QED BY <1>5, <2>1, <2>2, <2>3, DivisionIsNat
<1>8. total * MinElapsed = total + (MinElapsed - 1) * total BY <1>1
<1> DEFINE rest == (MinElapsed - 1) * total
<1>9. rest \in Nat
    <2>1. MinElapsed - 1 \in Nat BY <1>1
    <2>2. QED BY <1>1, <2>1, ProductIsNat
<1>10. remaining + rest >= 0
    <2>1. PICK s \in Packets : remaining + SizeOf[s] > 0 BY DEF DebtIsOnePacket
    <2>2. PICK t \in Packets : total >= SizeOf[t]
        <3>1. Unsent # {}
            <4>1. list # <<>> BY <1>1 DEF IInv, AgesInOrder, NoTime
            <4>2. 1 \in DOMAIN list BY <4>1 DEF IInv, TypeOK
            <4>3. QED BY <4>1, <4>2 DEF IInv, ListIsCache, HeadIsUnsent, Unsent
        <3>2. QED BY <3>1, UnsentWeighs
    <2>3. SizeOf[s] <= (MinElapsed - 1) * SizeOf[t] + 1 BY DEF DebtIsPaid
    <2>4. SizeOf[s] \in Nat /\ SizeOf[t] \in Nat /\ MinElapsed - 1 \in Nat
        BY <1>1, PaceAssumption
    <2>5. (MinElapsed - 1) * SizeOf[t] <= rest BY <1>1, <2>2, <2>4, ProductGrows
    <2>6. (MinElapsed - 1) * SizeOf[t] \in Nat BY <2>4, ProductIsNat
    <2> HIDE DEF rest
    <2>7. QED BY <1>1, <1>9, <2>1, <2>3, <2>4, <2>5, <2>6
<1>11. \/ remaining' = most
       \/ remaining' >= more + remaining
       \/ remaining' >= more
    BY <1>1, <1>3, <1>4, BudgetFrom DEF MaxBudget
<1>12. remaining' \in Int BY <1>1, <1>3, <1>4, BudgetIsInt
<1>13. more >= total + rest BY <1>7, <1>8
<1> HIDE DEF more, most, rest
<1>14. QED BY <1>1, <1>6, <1>7, <1>9, <1>10, <1>11, <1>12, <1>13

Delay == TotalIsUnsent /\ DebtIsOnePacket /\ LateIsPaid

LEMMA StepDelay ==
    ASSUME IInv, Delay, DebtIsPaid, [Next]_vars
    PROVE  Delay' /\ (sending /\ ~sending' => oldest <= MaxQue)
<1>1. /\ TotalIsUnsent /\ DebtIsOnePacket /\ LateIsPaid /\ TotalIsUnsent'
    BY StepTotal DEF Delay
<1>2. /\ total \in Nat /\ total' \in Nat /\ remaining \in Int /\ remaining' \in Int
      /\ target \in Nat /\ MaxQue \in Nat /\ oldest \in Int /\ oldest' \in Int
    <2>1. TypeOK /\ TypeOK' BY StepIInv DEF IInv
    <2>2. MaxQue \in Nat /\ MaxAge \in Nat BY PaceAssumption
    <2>3. /\ total \in Nat /\ remaining \in Int /\ target \in Nat /\ oldest \in Int
        BY <2>1, <2>2 DEF TypeOK, NoTime
    <2>4. /\ total' \in Nat /\ remaining' \in Int /\ oldest' \in Int
        BY <2>1, <2>2 DEF TypeOK, NoTime
    <2>5. QED BY <2>2, <2>3, <2>4
<1>3. \A s \in Packets : SizeOf[s] \in Nat \ {0} BY PaceAssumption
<1>4. CASE UNCHANGED <<total, oldest, remaining, sending>>
    BY <1>1, <1>4 DEF Delay, DebtIsOnePacket, LateIsPaid
<1>5. CASE UNCHANGED remaining /\ ~sending /\ ~sending'
    BY <1>1, <1>5 DEF Delay, DebtIsOnePacket, LateIsPaid
<1>6. CASE BeginTransmit
    <2>1. target' \in Nat /\ idle \in Nat
        <3>1. TypeOK /\ TypeOK' BY StepIInv DEF IInv
        <3>2. QED BY <3>1, PaceAssumption DEF TypeOK
    <2>2. remaining' = Budget(target', idle) BY <1>6 DEF BeginTransmit
    <2>3. (target' * idle) \div 8 \in Nat /\ MaxBudget(target') \in Nat
        <3>1. target' * idle \in Nat BY <2>1, ProductIsNat
        <3>2. 8 \in Nat \ {0} OBVIOUS
        <3>3. (target' * idle) \div 8 \in Nat BY <3>1, <3>2, DivisionIsNat
        <3>4. MaxBudget(target') \in Nat BY <1>2, <2>1, BudgetIsInt
        <3>5. QED BY <3>3, <3>4
    <2>4. remaining' >= 0 \/ remaining' >= remaining
        <3> DEFINE more == (target' * idle) \div 8
        <3>1. \/ remaining' = MaxBudget(target')
              \/ remaining' >= more + remaining
              \/ remaining' >= more
            BY <1>2, <2>1, <2>2, BudgetFrom
        <3>2. more \in Nat BY <2>3
        <3> HIDE DEF more
        <3>3. QED BY <1>2, <2>3, <3>1, <3>2
    <2>5. DebtIsOnePacket' BY <1>1, <1>2, <1>3, <2>4 DEF DebtIsOnePacket
    <2>6. total' = total /\ oldest' = oldest /\ ~sending
        BY <1>6 DEF BeginTransmit, queVars
    <2>7. LateIsPaid' BY <1>1, <1>6, <2>6, BeginPaysLate DEF LateIsPaid
    <2>8. QED BY <1>1, <2>5, <2>6, <2>7 DEF Delay
<1>7. CASE Send
    <2> DEFINE s == Front
    <2>1. s \in Unsent /\ s \in DOMAIN cache /\ s \in Packets
        BY <1>7, FrontIsLeastUnsent DEF Send, Unsent, IInv, TypeOK
    <2>2. SizeOf[s] \in Nat \ {0} /\ MaxBudget(target) \in Nat
        <3>1. 0 \in Nat OBVIOUS
        <3>2. QED BY <1>2, <1>3, <2>1, <3>1, BudgetIsInt
    <2>3. /\ remaining > 0 /\ sending /\ sending' = sending
          /\ remaining' = Greatest(-MaxBudget(target), remaining - SizeOf[s])
          /\ Sent(s)
        BY <1>7 DEF Send
    <2> HIDE DEF s
    <2>4. remaining' >= remaining - SizeOf[s] BY <1>2, <2>2, <2>3 DEF Greatest
    <2>5. DebtIsOnePacket' BY <1>2, <2>1, <2>2, <2>3, <2>4 DEF DebtIsOnePacket
    <2>6. LateIsPaid'
        <3>1. SUFFICES ASSUME oldest' > MaxQue PROVE remaining' >= total'
            BY DEF LateIsPaid
        <3>2. list' # <<>> /\ oldest' = cache[list'[1]].age
            <4>1. oldest' = OldestAfter(list') BY <2>3 DEF Sent
            <4>2. oldest' # NoTime BY <1>2, <3>1 DEF NoTime
            <4>3. QED BY <4>1, <4>2 DEF OldestAfter
        <3>3. list'[1] \in DOMAIN cache
            <4>1. /\ list' \in Seq(Packets)
                  /\ \A i \in DOMAIN list' : list'[i] \in DOMAIN cache
                BY <2>1, <2>3, AfterSent
            <4>2. 1 \in DOMAIN list' BY <3>2, <4>1
            <4>3. QED BY <4>1, <4>2
        <3>4. oldest' <= oldest
            <4>1. PICK i \in DOMAIN list : list'[1] = list[i]
                BY <3>3 DEF IInv, ListIsCache
            <4>2. 1 \in DOMAIN list /\ 1 <= i /\ list # <<>> BY <4>1 DEF IInv, TypeOK
            <4>3. cache[list[i]].age <= cache[list[1]].age /\ oldest = cache[list[1]].age
                BY <4>1, <4>2 DEF IInv, AgesInOrder
            <4>4. QED BY <3>2, <4>1, <4>3
        <3>5. remaining >= total BY <1>1, <1>2, <2>3, <3>1, <3>4 DEF LateIsPaid
        <3>6. total' = total - SizeOf[s] \/ (total' = 0 /\ total - SizeOf[s] < 0)
            <4>1. total' = TotalAfter(s, list') BY <2>3 DEF Sent
            <4>2. total' = Greatest(total - SizeOf[s], 0) BY <3>2, <4>1 DEF TotalAfter
            <4>3. QED BY <1>2, <2>2, <4>2 DEF Greatest
        <3>7. total >= SizeOf[s]
            <4>1. IsFiniteSet(Unsent) /\ \A r \in Unsent : SizeOf[r] \in Nat \ {0}
                BY UnsentIsFinite
            <4>2. total = SizeOf[s] + SumOver(SizeOf, Unsent \ {s})
                BY <1>1, <2>1, <4>1, TotalIsSum, SumWithout
            <4>3. SumOver(SizeOf, Unsent \ {s}) \in Nat
                <5>1. IsFiniteSet(Unsent \ {s}) BY <4>1, FS_RemoveElement
                <5>2. QED BY <4>1, <5>1, SumIsNat
            <4>4. QED BY <2>2, <4>2, <4>3
        <3>8. QED BY <1>2, <2>2, <2>4, <3>5, <3>6, <3>7
    <2>7. QED BY <1>1, <2>3, <2>5, <2>6 DEF Delay
<1>8. CASE EndTransmit
    <2>1. ~sending' /\ UNCHANGED <<total, oldest, remaining>> BY <1>8 DEF EndTransmit, queVars
    <2>2. oldest <= MaxQue
        <3>1. SUFFICES ASSUME oldest > MaxQue, sending PROVE FALSE BY <1>2, <1>8 DEF EndTransmit
        <3>2. list # <<>> BY <1>2, <3>1 DEF IInv, AgesInOrder, NoTime
        <3>3. 1 \in DOMAIN list BY <3>2 DEF IInv, TypeOK
        <3>4. Unsent # {} /\ DOMAIN cache # {}
            BY <3>2, <3>3 DEF IInv, ListIsCache, HeadIsUnsent, Unsent
        <3>5. remaining <= 0 /\ remaining >= total
            BY <1>1, <1>8, <3>1, <3>4 DEF EndTransmit, LateIsPaid
        <3>6. PICK t \in Packets : total >= SizeOf[t] BY <1>1, <3>4, UnsentWeighs
        <3>7. QED BY <1>2, <1>3, <3>5, <3>6
    <2>3. QED BY <1>1, <2>1, <2>2 DEF Delay, DebtIsOnePacket, LateIsPaid
<1>9. QED
    <2>1. CASE \E s \in Packets : Insert(s) BY <1>5, <2>1 DEF Insert
    <2>2. CASE SetRate BY <1>4, <2>2 DEF SetRate, queVars
    <2>3. CASE \E ms \in Steps : Tick(ms) BY <1>5, <2>3 DEF Tick
    <2>4. CASE UNCHANGED vars BY <1>4, <2>4 DEF vars, queVars
    <2>5. QED BY <1>6, <1>7, <1>8, <2>1, <2>2, <2>3, <2>4 DEF Next

\* max_que_ms is kept, "the longest delay the pacer can accept", as long as no packet
\* is so large that its debt outweighs a smaller one: when pace_try_transmit ends, no
\* packet has waited longer.
THEOREM DelayCorrect == DebtIsPaid /\ Spec => NothingWaitsTooLong
<1>1. SUFFICES ASSUME DebtIsPaid PROVE Spec => NothingWaitsTooLong OBVIOUS
<1>2. Init => Delay
    <2>1. SUFFICES ASSUME Init PROVE Delay OBVIOUS
    <2>2. TotalIsUnsent
        <3>1. Unsent = {} /\ total = 0 BY <2>1 DEF Init, Unsent
        <3>2. QED BY <3>1, TotalIsSum, SumOfNothing
    <2>3. DebtIsOnePacket
        <3>1. PICK s \in Packets : SizeOf[s] \in Nat \ {0} BY PaceAssumption
        <3>2. remaining + SizeOf[s] > 0 BY <2>1, <3>1 DEF Init
        <3>3. QED BY <3>2 DEF DebtIsOnePacket
    <2>4. QED BY <2>1, <2>2, <2>3 DEF Delay, LateIsPaid, Init
<1>3. IInv /\ Delay /\ [Next]_vars => Delay' BY <1>1, StepDelay
<1>4. IInv /\ Delay /\ [Next]_vars => [sending /\ ~sending' => oldest <= MaxQue]_vars
    BY <1>1, StepDelay
<1>5. QED BY <1>2, <1>3, <1>4, Invariance, PTL DEF Spec, NothingWaitsTooLong
=============================================================================
