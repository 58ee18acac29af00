---------------------------- MODULE RateControl ----------------------------
(***************************************************************************)
(* The rate of a sender: bitrate_controller.c around SenderEstimation, and *)
(* sender_congestion_controller.c, which feeds it with what the receiver   *)
(* reports and hands its decisions to the pacer and, by sim_bitrate_change *)
(* of sim_sender.c, to the encoder and to the limiter of retransmissions.  *)
(*                                                                         *)
(* An action is a call into the controller.  Time is a counter; the        *)
(* session's heartbeat comes every few milliseconds, so the controller's,  *)
(* which acts every 100 ms, is never late.  Nothing sets a reserved rate.  *)
(***************************************************************************)
EXTENDS SenderEstimation

CONSTANTS
    Rembs,          \* the rates the receiver may estimate
    Offers,         \* the rates the delay based estimate may have
    Defaults,       \* the session's bitrates: [min, start, max]
    Settings,       \* those sim_set_bitrates is called with
    Losses,         \* the losses that are reported, in 256ths
    Counts,         \* the numbers of packets a report may cover
    Rtts,           \* round trip times
    UpdateGap,      \* 100 ms, between two updates by the heartbeat
    NotifyTimer,    \* k_normal_notify_timer
    MaxClock,       \* bound: the time that passes
    MaxFeedback,    \* bound: feedback messages
    MaxSets         \* bound: calls of sim_set_bitrates during the call

ASSUME RateAssumption ==
    /\ Rembs \cup Offers \subseteq Nat \ {0} /\ Counts \subseteq Nat \ {0} /\ Rtts \subseteq Nat
    /\ Settings \cup {Defaults} \subseteq [min : Nat, start : Nat, max : Nat]
    /\ Losses \subseteq 0 .. 255
    /\ {UpdateGap, NotifyTimer, MaxClock, MaxFeedback, MaxSets} \subseteq Nat

VARIABLES
    clock,
    est,        \* ctrl->est
    note,       \* what the listeners know: told (last_bitrate_bps, last_fraction_loss,
                \* last_rtt), the estimate of the pacer, notify_ts
    updateTs,   \* last_bitrate_update_ts
    inputs,     \* feedback messages and settings so far
    log,        \* history variable: the rates at the updates of the last second
    spent       \* history variable: the last loss report has cut the rate

vars == <<clock, est, note, updateTs, inputs, log, spent>>

\* bitrate_controller_get_parameter.
Parameters(e) == [rate |-> Greatest(e.rate, e.lo), loss |-> e.loss, rtt |-> e.rtt]

\* sender_cc_on_change_bitrate, to which maybe_trigger_network_changed leads when a
\* parameter has changed.
Tell(e) == [told |-> Parameters(e), pacer |-> Parameters(e).rate, at |-> clock]
Trigger(n, e) == IF Parameters(e) = n.told THEN n ELSE Tell(e)

\* sender_cc_set_bitrates: the pacer is given the start rate after it was told of
\* the one the controller came to.
Clamp(s) == Least(Greatest(s.start, s.min), s.max)
Configured(e, s) == SetSendRate(SetMinMax(e, s.min, s.max), Clamp(s))
SetPacer(n, s) == [n EXCEPT !.pacer = Clamp(s)]

Untold == [told |-> [rate |-> 0, loss |-> 0, rtt |-> 0], pacer |-> 0, at |-> 0]

\* sim_sender_create or _reset, then process_sim_connect_ack sets the bitrates.
Init ==
    /\ clock = 0 /\ updateTs = 0 /\ inputs = [feedback |-> 0, sets |-> 0]
    /\ log = {} /\ spent = FALSE
    /\ est = Configured(Fresh, Defaults)
    /\ note = SetPacer(Trigger(Untold, est), Defaults)

\* sim_set_bitrates during the call.
SetBitrates(s) ==
    /\ inputs.sets < MaxSets
    /\ inputs' = [inputs EXCEPT !.sets = @ + 1]
    /\ est' = Configured(est, s)
    /\ note' = SetPacer(Trigger(note, est'), s)
    /\ log' = {}
    /\ UNCHANGED <<clock, updateTs, spent>>

\* What an update of e adds to the history variables.
Entry(e) == [ts |-> clock, rate |-> e.rate]
Logged(e) ==
    IF Jumps(e, clock) THEN {Entry(e)}
    ELSE {x \in log : ~Expired(x, clock)} \cup {Entry(e)}
CutBy(e, next) == next.decreaseTs = clock /\ next.decreased /\ ~e.decreased

\* sender_on_feedback, for a message that reports a packet the sender remembers: the
\* delay based estimate if it changed, then REMB, then the loss.  delay and remb are
\* 0, and report is NoReport, when the message has none.  (A message that reports
\* only packets that are forgotten is dropped whole.)
NoReport == [loss |-> 0, packets |-> 0]
Reports  == [loss : Losses, packets : Counts]

Offered(e, delay)   == IF delay = 0 THEN e ELSE UpdateDelay(e, delay)
Estimated(e, remb)  == IF remb = 0 THEN e ELSE UpdateRemb(e, remb)
Reported(e, r, rtt) == IF r = NoReport THEN e ELSE UpdateBlock(e, r.loss, rtt, r.packets, clock)

HandleFeedback(delay, remb, report, rtt) ==
    LET bounded == Estimated(Offered(est, delay), remb)
        heard   == Heard(bounded, report.loss, rtt, report.packets, clock)
        judges  == report # NoReport /\ heard.expected >= LimitPackets
    IN  /\ inputs.feedback < MaxFeedback
        /\ inputs' = [inputs EXCEPT !.feedback = @ + 1]
        /\ est' = Reported(bounded, report, rtt)
        /\ note' = Trigger(Trigger(Trigger(note, Offered(est, delay)), bounded), est')
        /\ log' = IF judges THEN Logged(Judged(heard, clock)) ELSE log
        /\ spent' = IF judges THEN CutBy(Judged(heard, clock), est') ELSE spent
        /\ UNCHANGED <<clock, updateTs>>

\* bitrate_controller_heartbeat: an update, and every two seconds the listeners are
\* told what they know already.  The mutants: not told again; not told at all.
NotAgain(n, e) == Trigger(n, e)
NotTold(n, e)  == n
Renotify(n, e) ==
    IF Parameters(e) # n.told \/ n.at + NotifyTimer <= clock THEN Tell(e) ELSE n

Heartbeat ==
    /\ clock >= updateTs + UpdateGap
    /\ est' = Update(est, clock)
    /\ note' = Renotify(note, est')
    /\ updateTs' = clock
    /\ log' = Logged(est)
    /\ spent' = (spent \/ CutBy(est, est'))
    /\ UNCHANGED <<clock, inputs>>

Tick ==
    /\ clock < MaxClock /\ clock < updateTs + UpdateGap
    /\ clock' = clock + 1
    /\ UNCHANGED <<est, note, updateTs, inputs, log, spent>>

Next ==
    \/ \E s \in Settings : SetBitrates(s)
    \/ \E delay \in Offers \cup {0}, remb \in Rembs \cup {0}, r \in Reports \cup {NoReport}, rtt \in Rtts :
        HandleFeedback(delay, remb, r, rtt)
    \/ Heartbeat
    \/ Tick

Spec == Init /\ [][Next]_vars

(***************************************************************************)
(* Properties.                                                             *)
(***************************************************************************)

Times == None .. MaxClock

\* Types, the limits, and what a report may have added up to.  The rate is within
\* the configured limits and above an estimate only where the least rate is
\* (cap_bitrate_to_threshold after each change of any of them).
EstTypeOK ==
    /\ clock \in 0 .. MaxClock /\ updateTs \in 0 .. clock /\ note.at \in 0 .. clock
    /\ est.lo <= est.rate /\ est.rate <= est.hi
    /\ est.remb > 0 => est.rate <= Greatest(est.remb, est.lo)
    /\ est.delay > 0 => est.rate <= Greatest(est.delay, est.lo)
    /\ est.expected \in 0 .. LimitPackets - 1 /\ est.lostQ8 <= 255 * est.expected
    /\ est.loss \in 0 .. 255
    /\ {est.firstTs, est.feedbackTs, est.reportTs, est.timeoutTs, est.decreaseTs} \subseteq Times
    /\ Len(est.history) <= HistorySize

\* The queue of the least rates (sender_estimation_update_history) is what it is
\* kept for: its head is the least rate of all updates of the last second, though
\* most of them are not in it any more.
HistoryIsMinimum ==
    /\ est.history = <<>> <=> log = {}
    /\ log # {} => /\ est.history[1] \in log
                   /\ \A x \in log : est.history[1].rate <= x.rate
    /\ \A i, j \in DOMAIN est.history : i < j => est.history[i].rate < est.history[j].rate

\* Whoever is told of rate, loss and round trip time (the encoder and the limiter,
\* through sim_bitrate_change) knows the present ones after every call.
ListenersAreCurrent == note.told = Parameters(est)

\* The pacer may be given another rate by sender_cc_set_bitrates while an estimate
\* holds the controller down; the repeated notification puts that right in time.
PacerCatchesUp ==
    note.pacer # note.told.rate => clock < note.at + NotifyTimer + UpdateGap

\* Encoder, limiter and pacer go by the rate that the controller has come to.
EveryoneIsTold == ListenersAreCurrent /\ PacerCatchesUp

\* A sender whose reports stop lowers its rate again and again: while nothing is
\* heard the last timeout is no older than its interval and the next heartbeat.
SilenceIsNoticed ==
    /\ est.reportTs # None
    /\ clock - est.feedbackTs > TimeoutIntervals * FeedbackInterval + UpdateGap
    => clock <= est.timeoutTs + TimeoutInterval + UpdateGap

ByUser == inputs'.sets # inputs.sets
NewReport == est'.reportTs = clock /\ inputs'.feedback # inputs.feedback

\* The rate rises only when the user sets it, at the start up to an estimate while
\* no loss is reported, or else, with little loss, to no more than 8 % above what
\* it was at any update of the last second.
RisesArePaced ==
    [][est'.rate > est.rate =>
        \/ ByUser
        \/ /\ est'.loss = 0 /\ Starting(est', clock)
           /\ est'.rate <= Greatest(est'.remb, est'.delay)
        \/ /\ est'.loss < LowLoss
           /\ \A x \in log' : est'.rate <= Greatest(Raised(x.rate), est'.lo)]_vars

\* The rate falls only when the user sets it, to a lower estimate, once for each
\* report of much loss and not soon after another cut, by a fifth in silence, or
\* back to what it was less than a second ago.
Ceiling(e) == Cap(e, e.hi).rate
FallsHaveCause ==
    [][est'.rate < est.rate =>
        \/ ByUser
        \/ est'.rate = Ceiling(est')
        \/ /\ est'.loss >= HighLoss
           /\ ~spent \/ NewReport
           /\ clock >= est.decreaseTs + DecreaseInterval + est'.rtt
           /\ 2 * (est'.rate + 1) > Least(est.rate, Ceiling(est'))
        \/ /\ clock > est.feedbackTs + TimeoutIntervals * FeedbackInterval
           /\ 5 * (est'.rate + 1) > 4 * Least(est.rate, Ceiling(est'))
        \/ /\ est'.loss < LowLoss
           /\ \E x \in log' : est'.rate = Raised(x.rate)]_vars

\* The comment at sender_bandwidth_estimator.c:233: with a loss of less than 2 % the
\* rate goes up.
LittleLossNeverLowers ==
    [][est'.rate < est.rate /\ est'.loss < LowLoss =>
        ByUser \/ est'.rate = Ceiling(est')
        \/ clock > est.feedbackTs + TimeoutIntervals * FeedbackInterval]_vars

\* The comment at sender_bandwidth_estimator.c:245: the rate is cut in proportion to
\* the loss.
CutIsInProportion ==
    [][est'.decreaseTs = clock /\ est'.decreased /\ ~est.decreased =>
        \/ est'.rate = Ceiling(est')
        \/ est'.rate >= (Least(est.rate, Ceiling(est')) * (512 - est'.loss)) \div 512]_vars
=============================================================================
