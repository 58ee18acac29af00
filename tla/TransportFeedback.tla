------------------------- MODULE TransportFeedback --------------------------
(***************************************************************************)
(* The feedback loop of a call: the sender numbers and remembers every     *)
(* transmission (sender_history.c), the receiver's proxy (EstimatorProxy)  *)
(* feeds back when they arrived, and the sender matches the feedback with  *)
(* what it remembers (feedback_adapter.c).  The network loses, reorders    *)
(* transmissions and feedback, and delivers some twice.                    *)
(***************************************************************************)
EXTENDS EstimatorProxy

CONSTANTS
    HistoryTime,    \* k_history_cache_ms
    MaxFaults,      \* bound: datagrams lost and delivered again
    MsgCap          \* bound: feedback messages in flight

ASSUME FeedbackAssumption == {HistoryTime, MaxFaults, MsgCap} \subseteq Nat

VARIABLES
    seed,           \* transport_seq_seed, without the wrap
    hist,           \* sender_history_t: unwrapper, last_ack_seq_num, packets
    net,            \* transmissions in flight
    msgs,           \* feedback messages in flight
    told,           \* history: what the congestion controller was told
    faults

feedbackVars == <<seed, hist, net, msgs, told, faults>>
allVars == <<clock, proxyVars, feedbackVars>>

FeedbackInit ==
    /\ ProxyInit
    /\ seed = 0 /\ net = {} /\ msgs = {} /\ faults = 0
    /\ told = [n \in Seqs |-> <<>>]
    /\ hist = [last |-> 0, acked |-> 0, packets |-> <<>>]

\* Bound on the network, for which 16 bits are enough: nothing that can still be
\* looked at is as much as half of the numbers behind the next transmission.
InView == net \cup {hist.last, proxy.last, loss.last, proxy.start} \cup {m.base : m \in msgs}
Near == \A n \in InView : seed - n < Half

\* sender_history_add: what is too old goes from the front of the list only.  The
\* mutant looks at the first only.
Old(h, k)    == h.packets[k].sent + HistoryTime < clock
ForgottenOne(h) == {k \in DOMAIN h.packets : Old(h, k) /\ \A j \in DOMAIN h.packets : k <= j}
Forgotten(h) == {k \in DOMAIN h.packets : \A j \in DOMAIN h.packets : j <= k => Old(h, j)}
Remember(h, n) ==
    LET key  == Wrap(h.last, Carried(n))
        kept == Restrict(h.packets, DOMAIN h.packets \ Forgotten(h))
    IN  [h EXCEPT !.last = key,
                  !.packets = [k \in DOMAIN kept \cup {key} |->
                      IF k \in DOMAIN kept THEN kept[k] ELSE [id |-> n, sent |-> clock]]]

\* sim_send_packet: every transmission, the first or a repetition, has its number.
Send ==
    /\ seed < MaxSeq /\ Near
    /\ hist' = Remember(hist, seed)
    /\ seed' = seed + 1 /\ net' = net \cup {seed}
    /\ UNCHANGED <<clock, proxyVars, msgs, told, faults>>

\* sender_history_get for each sample in its order: the numbers they unwrap to ...
Unwrapped(h, samples) ==
    LET number[i \in 0 .. Len(samples)] ==
            IF i = 0 THEN h.last ELSE Wrap(number[i - 1], samples[i].seq)
    IN  [i \in 1 .. Len(samples) |-> number[i]]

\* ... are looked up, taken out and passed on with the time of the sample.  The
\* mutant leaves them in the history.
TakeNone(h, numbers) == h.packets
TakeOut(h, numbers)  == Restrict(h.packets, DOMAIN h.packets \ Range(numbers))
Hits(h, numbers) == {i \in DOMAIN numbers : numbers[i] \in DOMAIN h.packets}
Reported(h, numbers, samples, n) ==
    LET of == {i \in Hits(h, numbers) : h.packets[numbers[i]].id = n}
    IN  IF of = {} THEN <<>> ELSE <<samples[CHOOSE i \in of : TRUE].ts>>

\* feedback_on_feedback.
Look(h, samples) ==
    LET numbers == Unwrapped(h, samples)
        newest  == CHOOSE n \in Range(numbers) \cup {h.acked} :
                       \A o \in Range(numbers) \cup {h.acked} : o <= n
    IN  [last |-> numbers[Len(numbers)], acked |-> newest, packets |-> TakeOut(h, numbers)]

\* A datagram leaves the network when it is delivered, or stays to be delivered again.
Fault == faults < MaxFaults /\ faults' = faults + 1

Deliver(n) ==
    /\ n \in net
    /\ Arrive(n)
    /\ \/ net' = net \ {n} /\ UNCHANGED faults
       \/ Fault /\ UNCHANGED net
    /\ UNCHANGED <<seed, hist, msgs, told>>

SendFeedback ==
    /\ Feedback
    /\ Cardinality(msgs) < MsgCap
    /\ \E order \in Ordered(Sampled(proxy)) :
           msgs' = msgs \cup {[base |-> proxy.start,
                               samples |-> [i \in DOMAIN order |-> Sample(proxy, order[i])]]}
    /\ UNCHANGED <<seed, hist, net, told, faults>>

\* sender_on_feedback, the part of the adapter.
HandleFeedback(m) ==
    /\ m \in msgs
    /\ hist' = Look(hist, m.samples)
    /\ told' = [n \in Seqs |->
                   told[n] \o Reported(hist, Unwrapped(hist, m.samples), m.samples, n)]
    /\ \/ msgs' = msgs \ {m} /\ UNCHANGED faults
       \/ Fault /\ UNCHANGED msgs
    /\ UNCHANGED <<clock, proxyVars, seed, net>>

LosePacket(n) ==
    n \in net /\ Fault /\ net' = net \ {n}
    /\ UNCHANGED <<clock, proxyVars, seed, hist, msgs, told>>
LoseFeedback(m) ==
    m \in msgs /\ Fault /\ msgs' = msgs \ {m}
    /\ UNCHANGED <<clock, proxyVars, seed, hist, net, told>>

Next ==
    \/ Send \/ SendFeedback
    \/ SilentHeartbeat /\ UNCHANGED feedbackVars
    \/ Tick /\ UNCHANGED feedbackVars
    \/ \E n \in net : Deliver(n) \/ LosePacket(n)
    \/ \E m \in msgs : HandleFeedback(m) \/ LoseFeedback(m)

Spec == FeedbackInit /\ [][Next]_allVars
-----------------------------------------------------------------------------
\* Three unwrappers read the numbers in three different orders, and each finds the
\* number that the sender meant: no record is filed under that of another packet, and
\* last_ack_seq_num, taken from numbers that are not looked up, did arrive.
NumbersAreTrue ==
    /\ \A k \in DOMAIN hist.packets : hist.packets[k].id = k
    /\ \A k \in DOMAIN proxy.times : k \in Seqs /\ proxy.times[k] \in arrivals[k]
    /\ loss.max \in -1 .. seed - 1
    /\ hist.acked > 0 => hist.acked \in Seqs /\ arrivals[hist.acked] # {}

\* estimator_proxy_incoming and proxy_bulid_feelback_packet move the window in both
\* directions and throw records away; a packet that arrived is nevertheless in some
\* message or still to be put in one, unless its record was old enough to go.
NoneSkipped == \A n \in Seqs : arrivals[n] # {} =>
    \/ n \in reported
    \/ n \in Unreported(proxy)
    \/ \E t \in arrivals[n] : t + BackWindow <= clock

\* sender_history_add looks only at the front of the list; it nevertheless keeps no
\* packet that is more than k_history_cache_ms older than the last.
HistoryIsRecent == \A j, k \in DOMAIN hist.packets :
    hist.packets[j].sent - hist.packets[k].sent <= HistoryTime

\* cc_loss_stat.c counts arrivals, late and repeated ones too, against numbers: it
\* may miss losses, but never reports more than are missing from what it covers.
LossNotOverstated == [][loss'.at # loss.at =>
    Lost(loss) <= Cardinality({n \in loss.prev + 1 .. loss.max : arrivals[n] = {}})]_allVars

\* The congestion controller is told what PacketReports promises.
Reports == INSTANCE PacketReports WITH Number <- Seqs, Time <- 0 .. MaxClock, sent <- 0 .. seed - 1, seen <- arrivals
ImplementsReports == Reports!Spec
=============================================================================
