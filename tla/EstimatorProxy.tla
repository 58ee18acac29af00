--------------------------- MODULE EstimatorProxy ---------------------------
(***************************************************************************)
(* The receiving half of a call's congestion control                       *)
(* (receiver_congestion_controller.c): the proxy that records when packets *)
(* arrive and feeds the times back (remote_estimator_proxy.c), and the     *)
(* loss statistics.  Time is counted in send intervals (100 ms).           *)
(***************************************************************************)
EXTENDS LossStatistics, Sequences, FiniteSets, Functions

CONSTANTS
    MaxSeq,         \* bound: transmissions of the call, numbered from 0
    MaxClock,       \* bound: time
    Interval,       \* send_interval_ms
    BackWindow,     \* BACK_WINDOWS_MS
    MaxSamples,     \* MAX_FEELBACK_COUNT
    MaxDrop,        \* MAX_IDS_NUM
    StampMod        \* 2^16: a sample carries its time modulo StampMod

ASSUME ProxyAssumption ==
    /\ {MaxSeq, MaxClock} \subseteq Nat
    /\ {Interval, BackWindow, MaxSamples, MaxDrop, StampMod} \subseteq Nat \ {0}

VARIABLES
    clock,
    proxy,          \* estimator_proxy_t
    loss,           \* cc_loss_statistics_t
    arrivals,       \* history: when each transmission arrived
    reported        \* history: the transmissions that samples were sent of

proxyVars == <<proxy, loss, arrivals, reported>>

Seqs == 0 .. MaxSeq - 1

\* arrival_times is a skiplist from numbers to times; -1 is no number, no time.
FreshProxy == [last |-> 0, start |-> -1, max |-> -1, beat |-> -1, times |-> <<>>]

ProxyInit ==
    /\ clock = 0
    /\ proxy = FreshProxy /\ loss = FreshLoss
    /\ arrivals = [n \in Seqs |-> {}]
    /\ reported = {}

\* The n least of a set of numbers: a skiplist is walked in the order of its keys.
Least(n, S) == {k \in S : Cardinality({j \in S : j < k}) < n}

\* estimator_proxy_incoming: records before number n that are old enough go, but
\* only when what has been reported reaches up to the newest of them.
Expired(p, n, now) == Least(MaxDrop,
    {k \in DOMAIN p.times : p.max <= p.start /\ k < n /\ now >= p.times[k] + BackWindow})

\* A record that is there keeps its time (skiplist_insert refuses a key twice).
Record(times, n, now) == [k \in DOMAIN times \cup {n} |-> IF k \in DOMAIN times THEN times[k] ELSE now]

\* The mutant does not go back for a late packet.
StartStays(p, n, val) == IF p.start = -1 THEN val ELSE p.start
Start(p, n, val) == IF p.start = -1 THEN val ELSE IF n < p.start THEN n ELSE p.start

\* estimator_proxy_incoming.
Incoming(p, val, now) ==
    LET n    == Wrap(p.last, val)
        kept == Restrict(p.times, DOMAIN p.times \ Expired(p, n, now))
    IN  IF n > p.start + Half - 1 THEN [p EXCEPT !.last = n]
        ELSE [p EXCEPT !.last = n, !.start = Start(p, n, val),
                       !.max = IF @ < n THEN n ELSE @, !.times = Record(kept, n, now)]

\* proxy_bulid_feelback_packet: the numbers whose times the next message carries ...
Unreported(p) == {k \in DOMAIN p.times : k >= p.start}
Sampled(p)    == Least(MaxSamples, Unreported(p))

\* ... if there are enough of them ...
Reportable(p) ==
    /\ ~(p.max <= p.start /\ Cardinality(DOMAIN p.times) > 2)
    /\ Cardinality(Sampled(p)) > 2

\* ... in the encoding of feedback_msg_encode and feedback_msg_decode, which keeps
\* the difference to the earliest time in 16 bits.
Earliest(p) == CHOOSE t \in {p.times[k] : k \in Sampled(p)} :
                   \A k \in Sampled(p) : t <= p.times[k]
Sample(p, k) ==
    [seq |-> Carried(k), ts |-> Earliest(p) + ((p.times[k] - Earliest(p)) % StampMod)]

\* The samples are written in the order of the skiplist, that of the numbers.
Ordered(S) ==
    {o \in [1 .. Cardinality(S) -> S] : \A i, j \in 1 .. Cardinality(S) : i < j => o[i] < o[j]}

\* The next message starts behind what this one carries.
Report(p)    == [p EXCEPT !.start = 1 + (CHOOSE k \in Sampled(p) : \A j \in Sampled(p) : j <= k)]

\* receiver_cc_on_received, for the transmission n.  Its branch for segments without
\* remb is not taken: sim_sender_put sets remb in every segment (sim_sender.c:227).
Arrive(n) ==
    /\ proxy' = Incoming(proxy, Carried(n), clock)
    /\ loss' = LossIncoming(loss, Carried(n))
    /\ arrivals' = [arrivals EXCEPT ![n] = @ \cup {clock}]
    /\ UNCHANGED <<clock, reported>>

\* receiver_cc_heartbeat, with the part of the loss statistics ...
LossHeartbeat == loss' = IF LossDue(loss, clock) THEN LossReset(loss, clock) ELSE loss

\* ... and estimator_proxy_heartbeat: nothing to send, or a message.
Due == clock >= proxy.beat + Interval
SilentHeartbeat ==
    /\ Due => ~Reportable(proxy)
    /\ LossHeartbeat
    /\ proxy' = IF Due THEN [proxy EXCEPT !.beat = clock] ELSE proxy
    /\ UNCHANGED <<clock, arrivals, reported>>
Feedback ==
    /\ Due /\ Reportable(proxy)
    /\ LossHeartbeat
    /\ proxy' = [Report(proxy) EXCEPT !.beat = clock]
    /\ reported' = reported \cup Sampled(proxy)
    /\ UNCHANGED <<clock, arrivals>>

Tick == clock < MaxClock /\ clock' = clock + 1 /\ UNCHANGED proxyVars
=============================================================================
