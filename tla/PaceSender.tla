----------------------------- MODULE PaceSender -----------------------------
(***************************************************************************)
(* The pacer of the sending side: pacer_queue.c, interval_budget.c and     *)
(* pace_sender.c.  Packets wait in a list in the order they came and in a  *)
(* skip list by sequence number; every heartbeat adds to a budget of bytes *)
(* and sends from the skip list until the budget is used up.               *)
(*                                                                         *)
(* All calls are made under session->mutex; pace_try_transmit is begun,    *)
(* sends packet by packet and ends, so that each packet is a step, and no  *)
(* packet is inserted in between.  Time is kept as ages in milliseconds;   *)
(* bytes, rates and intervals are those of the code.                       *)
(***************************************************************************)
EXTENDS Integers, Sequences, FiniteSets, FiniteSetsExt

CONSTANTS
    Packets,    \* sequence numbers of packets
    SizeOf,     \* their sizes in bytes
    Rates,      \* pacing rates in kbps
    Steps,      \* bound: the milliseconds between two events
    MaxAge,     \* bound: ages are counted up to it
    MaxQue,     \* max_que_ms
    Window,     \* k_window_ms
    MinElapsed, \* k_min_packet_limit_ms
    MaxElapsed  \* k_max_interval_ms

ASSUME PaceAssumption ==
    /\ Packets \subseteq Nat /\ Packets # {}
    /\ SizeOf \in [Packets -> Nat \ {0}]
    /\ Rates \subseteq Nat /\ Steps \subseteq Nat \ {0}
    /\ MaxAge \in Nat /\ MaxQue \in Nat \ {0, 1} /\ Window \in Nat
    /\ MinElapsed \in Nat \ {0} /\ MaxElapsed \in Nat /\ MinElapsed <= MaxElapsed

VARIABLES
    list,       \* que->l: sequence numbers in the order of their insertion
    cache,      \* que->cache: what the skip list holds for each of them
    total,      \* que->total_size
    oldest,     \* the age of que->oldest_ts, or NoTime
    remaining,  \* media_budget.bytes_remaining
    target,     \* media_budget.target_rate_kbps
    rate,       \* pacing_bitrate_kpbs
    idle,       \* elapsed_ms: now - last_update_ts, as far as it counts
    sending,    \* pace_try_transmit is in its loop
    burst       \* sent_bytes of that loop

queVars == <<list, cache, total, oldest>>
vars == <<queVars, remaining, target, rate, idle, sending, burst>>

NoTime == -1

Event == [age : 0 .. MaxAge, sent : BOOLEAN]

Least(a, b)    == IF a < b THEN a ELSE b
Greatest(a, b) == IF a < b THEN b ELSE a

Unsent == {s \in DOMAIN cache : ~cache[s].sent}

\* pace_create, pacer_queue_init, init_interval_budget.
Init ==
    /\ list = <<>> /\ cache = <<>> /\ total = 0 /\ oldest = NoTime
    /\ remaining = 0 /\ target = 0 /\ rate \in Rates
    /\ idle = 0 /\ sending = FALSE /\ burst = 0

\* pace_insert_packet, pacer_queue_push: a packet whose number is still in the
\* skip list is refused, also when it is there only because it was sent out of
\* the order of the list.
Insert(s) ==
    /\ ~sending /\ s \in Packets \ DOMAIN cache
    /\ cache' = [r \in DOMAIN cache \cup {s} |->
                    IF r = s THEN [age |-> 0, sent |-> FALSE] ELSE cache[r]]
    /\ list' = Append(list, s)
    /\ total' = total + SizeOf[s]
    /\ oldest' = IF oldest = NoTime THEN 0 ELSE oldest
    /\ UNCHANGED <<remaining, target, rate, idle, sending, burst>>

\* pace_set_estimate_bitrate, pace_set_bitrate_limits.
SetRate ==
    /\ ~sending
    /\ rate' \in Rates
    /\ UNCHANGED <<queVars, remaining, target, idle, sending, burst>>

\* Time passes; elapsed_ms is cut to k_max_interval_ms, which the mutant does not.
Older(age, ms) == Least(age + ms, MaxAge)
ElapsedAll(ms) == idle + ms
Elapsed(ms)    == Least(idle + ms, MaxElapsed)
Tick(ms) ==
    /\ ~sending
    /\ cache' = [s \in DOMAIN cache |-> [cache[s] EXCEPT !.age = Older(@, ms)]]
    /\ oldest' = IF oldest = NoTime THEN NoTime ELSE Older(oldest, ms)
    /\ idle' = Elapsed(ms)
    /\ UNCHANGED <<list, total, remaining, target, rate, sending, burst>>

\* pacer_queue_target_bitrate_kbps: what empties the queue before max_que_ms.
\* The mutant does not hurry as the queue gets older.
SpaceAtFirst == MaxQue - 1
Space == IF oldest > 0 THEN IF oldest >= MaxQue THEN 1 ELSE MaxQue - oldest ELSE MaxQue - 1
QueueRate == IF total > 0 THEN (total * 8) \div Space ELSE 0

\* set_target_rate_kbps, then increase_budget; what was not used is not saved up.
\* The mutant saves it up.
MaxBudget(kbps) == (Window * kbps) \div 8
Clamped(kbps)   == Least(Greatest(-MaxBudget(kbps), remaining), MaxBudget(kbps))
BudgetSaved(kbps, ms) ==
    Least(Clamped(kbps) + (kbps * ms) \div 8, MaxBudget(kbps))
Budget(kbps, ms) ==
    Least((IF Clamped(kbps) < 0 THEN Clamped(kbps) ELSE 0) + (kbps * ms) \div 8, MaxBudget(kbps))

\* pace_try_transmit up to its loop.
BeginTransmit ==
    /\ ~sending /\ idle >= MinElapsed
    /\ target' = Greatest(rate, QueueRate)
    /\ remaining' = Budget(target', idle)
    /\ sending' = TRUE /\ burst' = 0
    /\ UNCHANGED <<queVars, rate, idle>>

\* pacer_queue_front: the first in the skip list that is not sent; the last one if
\* all are.  The mutant takes the packets as they came.
FrontOfList == list[1]
Front ==
    IF Unsent # {} THEN CHOOSE s \in Unsent : \A o \in Unsent : s <= o
    ELSE CHOOSE s \in DOMAIN cache : \A o \in DOMAIN cache : o <= s

\* The first in the list that is not sent, were s sent.  The mutant looks at the
\* head only.
NextToHead(s) == IF list[1] = s THEN 2 ELSE 1
FirstUnsent(s) ==
    LET unsent == {i \in 1 .. Len(list) : list[i] # s /\ ~cache[list[i]].sent}
    IN  IF unsent = {} THEN Len(list) + 1
        ELSE CHOOSE i \in unsent : \A j \in unsent : i <= j

\* pacer_queue_sent: the packet is marked and its bytes are counted off; then
\* pacer_queue_final takes the marked packets at the head of the list, of which
\* only the rest remains, out of list and skip list.  The mutants: the skip list
\* keeps them; their bytes are counted off only now; oldest_ts stays.
KeptAll(s, rest) == [cache EXCEPT ![s].sent = TRUE]
Kept(s, rest) ==
    [r \in {rest[i] : i \in DOMAIN rest} |-> [cache[r] EXCEPT !.sent = @ \/ r = s]]

TotalOfFreed(s, rest) == IF rest = <<>> THEN 0 ELSE IF rest = list THEN total ELSE total - SizeOf[s]
TotalAfter(s, rest)   == IF rest = <<>> THEN 0 ELSE Greatest(total - SizeOf[s], 0)

OldestStays(rest) == IF rest = <<>> THEN NoTime ELSE oldest
OldestAfter(rest) == IF rest = <<>> THEN NoTime ELSE cache[rest[1]].age

Sent(s) ==
    LET rest == SubSeq(list, FirstUnsent(s), Len(list))
    IN  /\ list' = rest
        /\ cache' = Kept(s, rest)
        /\ total' = TotalAfter(s, rest)
        /\ oldest' = OldestAfter(rest)

\* pace_send and the loop of pace_try_transmit.
Send ==
    /\ sending /\ DOMAIN cache # {} /\ remaining > 0
    /\ Sent(Front)
    /\ remaining' = Greatest(-MaxBudget(target), remaining - SizeOf[Front])
    /\ burst' = burst + SizeOf[Front]
    /\ UNCHANGED <<target, rate, idle, sending>>

EndTransmit ==
    /\ sending /\ (DOMAIN cache = {} \/ remaining <= 0)
    /\ sending' = FALSE /\ idle' = 0 /\ burst' = 0
    /\ UNCHANGED <<queVars, remaining, target, rate>>

Next ==
    \/ \E s \in Packets : Insert(s)
    \/ SetRate
    \/ \E ms \in Steps : Tick(ms)
    \/ BeginTransmit \/ Send \/ EndTransmit

Spec == Init /\ [][Next]_vars
-----------------------------------------------------------------------------
\* Type correctness of the pacer.
TypeOK ==
    /\ list \in Seq(Packets) /\ cache \in [DOMAIN cache -> Event] /\ DOMAIN cache \subseteq Packets
    /\ total \in Nat /\ oldest \in 0 .. MaxAge \cup {NoTime}
    /\ remaining \in Int /\ target \in Nat /\ rate \in Rates
    /\ idle \in 0 .. MaxElapsed /\ sending \in BOOLEAN /\ burst \in Nat

\* The list and the skip list share their packets: pacer_queue_final frees one
\* only when it takes it out of both, and no packet is in the list twice.
ListIsCache ==
    /\ DOMAIN cache = {list[i] : i \in DOMAIN list}
    /\ \A i, j \in DOMAIN list : list[i] = list[j] => i = j

\* pacer_queue_front runs to the last packet when all are sent and would return one
\* that is: but whatever the order of sending, the head of the list is not sent.
HeadIsUnsent == list # <<>> => ~cache[list[1]].sent

\* The list is in the order in which its packets came, and oldest_ts is its head's.
AgesInOrder ==
    /\ oldest = IF list = <<>> THEN NoTime ELSE cache[list[1]].age
    /\ \A i, j \in DOMAIN list : i <= j => cache[list[j]].age <= cache[list[i]].age

\* The size by which the rate is chosen counts what is still to be sent, although
\* packets that were sent stay in the queue behind the head of the list.
TotalIsUnsent == total = MapThenSumSet(LAMBDA s : SizeOf[s], Unsent)

\* oldest_ts, set by pacer_queue_push and pacer_queue_final, is the longest time any
\* packet has waited, although packets are not sent in the order of the list.
OldestIsOldest ==
    IF Unsent = {} THEN oldest = NoTime
    ELSE /\ \E s \in Unsent : oldest = cache[s].age
         /\ \A s \in Unsent : cache[s].age <= oldest

\* k_max_interval_ms: however long nothing was sent, one call of pace_try_transmit
\* sends no more than the rate allows for that interval, and part of a packet.
BurstIsBounded ==
    \E s \in Packets : burst < (target * MaxElapsed) \div 8 + SizeOf[s]

\* pacer_queue.h: max_que_ms is "the longest delay the pacer can accept".  After a
\* transmission no packet has waited longer, but for the debt of one packet.
NothingWaitsTooLong == [][sending /\ ~sending' => oldest <= MaxQue]_vars

\* The pacer implements the bag it promises.
Bag == INSTANCE PacketBag WITH Seq0 <- Packets, queued <- Unsent
ImplementsBag == Bag!BagSpec

\* List, skip list and oldest_ts, which are updated at different moments (when a
\* packet is put, sent, and freed), stay true of the same packets.
QueueIsConsistent == ListIsCache /\ HeadIsUnsent /\ OldestIsOldest
=============================================================================
