-------------------------- MODULE SenderEstimation --------------------------
(***************************************************************************)
(* sender_bandwidth_estimator.c: the rate a sender may use, from the loss  *)
(* its receiver reports, bounded by the two estimates made elsewhere: the  *)
(* receiver's (REMB) and the sender's own from the delays.  Each operator  *)
(* is a function of the code, from an estimation to the next one.          *)
(***************************************************************************)
EXTENDS Integers, Sequences, FiniteSetsExt

CONSTANTS
    EstMin, EstMax,     \* the limits an estimation is created with
    MaxBitrate,         \* k_max_bitrate_bps
    RaiseStep,          \* what is added to a raise of 8 % (1000 bps)
    Word,               \* numbers a uint32_t holds, in the unit of the rates
    LowLoss, HighLoss,  \* 2 % and 10 % of 256
    LimitPackets,       \* k_limit_num_packets
    IncreaseInterval,   \* k_bwe_increase_interval_ms
    DecreaseInterval,   \* k_bwe_decrease_interval_ms
    StartPhase,         \* k_start_phase_ms
    FeedbackInterval,   \* k_feelback_interval_ms
    TimeoutIntervals,   \* k_feelback_timeout_intervals
    TimeoutInterval,    \* k_timeout_interval_ms
    HistorySize         \* MIN_HISTORY_ARR_SIZE

ASSUME EstimationAssumption ==
    /\ {EstMin, EstMax, MaxBitrate, RaiseStep, IncreaseInterval, DecreaseInterval,
        StartPhase, FeedbackInterval, TimeoutIntervals, TimeoutInterval} \subseteq Nat
    /\ {Word, LimitPackets, HistorySize} \subseteq Nat \ {0}
    /\ {LowLoss, HighLoss} \subseteq 0 .. 256 /\ LowLoss <= HighLoss

None == -1

Least(a, b)    == IF a < b THEN a ELSE b
Greatest(a, b) == IF a < b THEN b ELSE a

\* sender_estimation_t.  remb and delay are the two bounds, 0 for none; history
\* is the queue of min_bitrates from begin_index to end_index; lostQ8 and expected
\* add up reports until they cover LimitPackets.
Fresh ==
    [rate |-> 0, lo |-> EstMin, hi |-> EstMax, remb |-> 0, delay |-> 0,
     loss |-> 0, rtt |-> 0, decreased |-> FALSE, lostQ8 |-> 0, expected |-> 0,
     firstTs |-> None, feedbackTs |-> None, reportTs |-> None, timeoutTs |-> None,
     decreaseTs |-> 0, history |-> <<>>]

\* sender_estimation_set_minmax_bitrate: the least rate only ever grows.
SetMinMax(e, lo, hi) ==
    LET least == Greatest(e.lo, lo)
    IN  [e EXCEPT !.lo = least, !.hi = IF hi > 0 THEN Greatest(least, hi) ELSE MaxBitrate]

\* cap_bitrate_to_threshold.
Below(bound, rate) == IF bound > 0 THEN Least(rate, bound) ELSE rate
Cap(e, rate) ==
    [e EXCEPT !.rate = Greatest(Least(Below(e.delay, Below(e.remb, rate)), e.hi), e.lo)]

\* sender_estimation_set_send_bitrate.
SetSendRate(e, rate) == [Cap(e, rate) EXCEPT !.history = <<>>]

\* sender_estimation_update_remb, sender_estimation_update_delay_base.  The mutant
\* leaves the rate to the next update.
UpdateRembOnly(e, bound) == [e EXCEPT !.remb = bound]
UpdateRemb(e, bound)  == Cap([e EXCEPT !.remb = bound], e.rate)
UpdateDelay(e, bound) == Cap([e EXCEPT !.delay = bound], e.rate)

\* sender_estimation_is_start_phare.
Starting(e, now) == e.firstTs = None \/ now < e.firstTs + StartPhase

\* sender_estimation_update_history: entries of more than a second ago leave at
\* the front, up to the first that is not; those that are not less than the rate
\* at the back, down to the first that is; a full queue loses its head.  The mutant
\* adds the rate behind greater ones.
Expired(x, now) == x.ts + IncreaseInterval < now
Recent(h, now) ==
    SubSeq(h, Min({i \in 1 .. Len(h) + 1 : i <= Len(h) => ~Expired(h[i], now)}), Len(h))
Smaller(h, rate) ==
    SubSeq(h, 1, Max({i \in 0 .. Len(h) : i > 0 => h[i].rate < rate}))
Room(h) == IF Len(h) = HistorySize THEN Tail(h) ELSE h
RememberUnsorted(e, now) ==
    [e EXCEPT !.history = Append(Recent(@, now), [ts |-> now, rate |-> e.rate])]
Remember(e, now) ==
    [e EXCEPT !.history = Append(Room(Smaller(Recent(@, now), e.rate)),
                                 [ts |-> now, rate |-> e.rate])]

\* The rate after a second of little loss and after a loss of loss/256; the cut is
\* computed in 32 bits.
Raised(rate)    == (rate * 108 + 50) \div 100 + RaiseStep
Cut(rate, loss) == ((rate * (512 - loss)) % Word) \div 512

\* A loss of 10 % cuts the rate once for each report, and not again within an
\* interval and a round trip.  The mutant cuts at each update.
CutTwice(e, now) ==
    e.loss >= HighLoss /\ now >= e.decreaseTs + DecreaseInterval + e.rtt
MayCut(e, now) ==
    /\ e.loss >= HighLoss
    /\ ~e.decreased
    /\ now >= e.decreaseTs + DecreaseInterval + e.rtt

\* Loss reports are recent enough to go by; nothing has been heard for long.  The
\* mutant notices that once.
Informed(e, now) == 12 * (now - e.reportTs) < 10 * FeedbackInterval
SilentOnce(e, now) ==
    now - e.feedbackTs > TimeoutIntervals * FeedbackInterval /\ e.timeoutTs = None
Silent(e, now) ==
    /\ now - e.feedbackTs > TimeoutIntervals * FeedbackInterval
    /\ e.timeoutTs = None \/ now > e.timeoutTs + TimeoutInterval

\* sender_estimation_update.  At the start, without loss, the rate follows the two
\* estimates up and nothing else is done.
Estimates(e) == Greatest(e.delay, Greatest(e.remb, e.rate))

\* What is raised: the least rate of the last second.  The mutant: the present one.
LatestBase(e) == e.history[Len(e.history)].rate
Base(e) == e.history[1].rate

ByLoss(e, now) ==
    CASE e.loss < LowLoss -> Cap(e, Raised(Base(e)))
      [] MayCut(e, now)   -> Cap([e EXCEPT !.decreaseTs = now, !.decreased = TRUE],
                                 Cut(e.rate, e.loss))
      [] OTHER            -> Cap(e, e.rate)

BySilence(e, now) ==
    IF Silent(e, now)
    THEN Cap([e EXCEPT !.lostQ8 = 0, !.expected = 0, !.timeoutTs = now], (e.rate * 4) \div 5)
    ELSE Cap(e, e.rate)

Jumps(e, now) == e.loss = 0 /\ Starting(e, now) /\ Estimates(e) # e.rate

Update(e, now) ==
    IF Jumps(e, now)
    THEN Cap([e EXCEPT !.history = <<[ts |-> now, rate |-> e.rate]>>], Estimates(e))
    ELSE LET h == Remember(e, now)
         IN  IF h.reportTs = None THEN Cap(h, h.rate)
             ELSE IF Informed(h, now) THEN ByLoss(h, now) ELSE BySilence(h, now)

\* sender_estimation_update_block: a report of some packets.
Heard(e, loss, rtt, packets, now) ==
    [e EXCEPT !.feedbackTs = now, !.firstTs = IF @ = None THEN now ELSE @,
              !.rtt = IF rtt > 0 THEN rtt ELSE @,
              !.lostQ8 = @ + loss * packets, !.expected = @ + packets]
Judged(h, now) ==
    [h EXCEPT !.decreased = FALSE, !.loss = h.lostQ8 \div h.expected,
              !.lostQ8 = 0, !.expected = 0, !.reportTs = now]
UpdateBlock(e, loss, rtt, packets, now) ==
    LET h == Heard(e, loss, rtt, packets, now)
    IN  IF h.expected < LimitPackets THEN h ELSE Update(Judged(h, now), now)
=============================================================================
