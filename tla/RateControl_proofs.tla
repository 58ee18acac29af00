-------------------------- MODULE RateControl_proofs --------------------------
(***************************************************************************)
(* The rate, for any limits, times and inputs: who is told of it, that     *)
(* silence is noticed, that it stays within its limits, that the queue of  *)
(* least rates has the minimum at its head, and why the rate may rise and  *)
(* fall.                                                                   *)
(***************************************************************************)
EXTENDS RateControl, NumberFacts

\* The time that passes between two heartbeats, and when the listeners were told.
Types ==
    /\ clock \in Nat /\ updateTs \in Nat
    /\ updateTs <= clock /\ clock <= updateTs + UpdateGap
    /\ DOMAIN note = {"told", "pacer", "at"} /\ note.at \in Nat /\ note.at <= clock

\* The last notification is less than NotifyTimer older than the last update.
Renotified == updateTs < note.at + NotifyTimer

TIInv == Types /\ Renotified /\ ListenersAreCurrent

LEMMA Constants ==
    /\ UpdateGap \in Nat /\ NotifyTimer \in Nat /\ TimeoutInterval \in Nat
    /\ TimeoutIntervals \in Nat /\ FeedbackInterval \in Nat /\ StartPhase \in Nat
BY RateAssumption, EstimationAssumption

(***************************************************************************)
(* The listeners.                                                          *)
(***************************************************************************)

LEMMA TriggerIs ==
    ASSUME NEW n, NEW e, DOMAIN n = {"told", "pacer", "at"},
           NEW m, m = Trigger(n, e), clock \in Nat, n.at \in Nat, n.at <= clock
    PROVE  /\ DOMAIN m = {"told", "pacer", "at"} /\ m.told = Parameters(e)
           /\ m.at \in Nat /\ n.at <= m.at /\ m.at <= clock
<1>1. CASE Parameters(e) = n.told
  BY <1>1 DEF Trigger
<1>2. CASE Parameters(e) # n.told
  BY <1>2 DEF Trigger, Tell
<1> QED BY <1>1, <1>2

LEMMA SetPacerIs ==
    ASSUME NEW n, NEW s, DOMAIN n = {"told", "pacer", "at"}, NEW m, m = SetPacer(n, s)
    PROVE  DOMAIN m = {"told", "pacer", "at"} /\ m.told = n.told /\ m.at = n.at
BY DEF SetPacer

LEMMA ToldInit ==
    ASSUME 0 < NotifyTimer, Init
    PROVE  TIInv
<1> DEFINE n == Trigger(Untold, est)
<1>1. clock = 0 /\ updateTs = 0 /\ note = SetPacer(n, Defaults)
  BY DEF Init
<1>2. DOMAIN Untold = {"told", "pacer", "at"} /\ Untold.at = 0
  BY DEF Untold
<1>3. DOMAIN n = {"told", "pacer", "at"} /\ n.told = Parameters(est) /\ n.at \in Nat /\ n.at <= 0
  BY <1>1, <1>2, TriggerIs
<1> HIDE DEF n
<1>4. DOMAIN note = {"told", "pacer", "at"} /\ note.told = n.told /\ note.at = n.at
  BY <1>1, <1>3, SetPacerIs
<1> QED BY <1>1, <1>3, <1>4, Constants DEF TIInv, Types, Renotified, ListenersAreCurrent

LEMMA ToldStep ==
    ASSUME 0 < NotifyTimer, TIInv, [Next]_vars
    PROVE  TIInv'
<1>0. /\ clock \in Nat /\ updateTs \in Nat /\ updateTs <= clock /\ clock <= updateTs + UpdateGap
      /\ DOMAIN note = {"told", "pacer", "at"} /\ note.at \in Nat /\ note.at <= clock
      /\ updateTs < note.at + NotifyTimer
  BY DEF TIInv, Types, Renotified
\* What suffices in a step that neither takes time nor is a heartbeat.
<1>1. ASSUME /\ UNCHANGED <<clock, updateTs>>
             /\ DOMAIN note' = {"told", "pacer", "at"} /\ note'.told = Parameters(est')
             /\ note'.at \in Nat /\ note.at <= note'.at /\ note'.at <= clock
      PROVE  TIInv'
  BY <1>0, <1>1, Constants DEF TIInv, Types, Renotified, ListenersAreCurrent, Parameters
<1>2. ASSUME NEW s \in Settings, SetBitrates(s) PROVE TIInv'
  <2> DEFINE n == Trigger(note, est')
  <2>1. UNCHANGED <<clock, updateTs>> /\ note' = SetPacer(n, s)
    BY <1>2 DEF SetBitrates
  <2>2. /\ DOMAIN n = {"told", "pacer", "at"} /\ n.told = Parameters(est')
        /\ n.at \in Nat /\ note.at <= n.at /\ n.at <= clock
    BY <1>0, TriggerIs
  <2> HIDE DEF n
  <2>3. DOMAIN note' = {"told", "pacer", "at"} /\ note'.told = n.told /\ note'.at = n.at
    BY <2>1, <2>2, SetPacerIs
  <2> QED BY <1>1, <2>1, <2>2, <2>3
<1>3. ASSUME NEW delay, NEW remb, NEW report, NEW rtt, HandleFeedback(delay, remb, report, rtt)
      PROVE  TIInv'
  <2> DEFINE offered == Offered(est, delay)
             bounded == Estimated(offered, remb)
             n == Trigger(note, offered)
             m == Trigger(n, bounded)
  <2>1. UNCHANGED <<clock, updateTs>> /\ note' = Trigger(m, est')
    BY <1>3 DEF HandleFeedback
  <2>2. /\ DOMAIN n = {"told", "pacer", "at"}
        /\ n.at \in Nat /\ note.at <= n.at /\ n.at <= clock
    BY <1>0, TriggerIs
  <2> HIDE DEF n, bounded
  <2>3. /\ DOMAIN m = {"told", "pacer", "at"}
        /\ m.at \in Nat /\ n.at <= m.at /\ m.at <= clock
    BY <1>0, <2>2, TriggerIs
  <2> HIDE DEF m
  <2>4. /\ DOMAIN note' = {"told", "pacer", "at"} /\ note'.told = Parameters(est')
        /\ note'.at \in Nat /\ m.at <= note'.at /\ note'.at <= clock
    BY <1>0, <2>1, <2>3, TriggerIs
  <2>5. note.at <= note'.at
    BY <1>0, <2>2, <2>3, <2>4
  <2> QED BY <1>1, <2>1, <2>4, <2>5
<1>4. CASE Heartbeat
  <2>1. note' = Renotify(note, est') /\ updateTs' = clock /\ clock' = clock
    BY <1>4 DEF Heartbeat
  <2>2. CASE Parameters(est') # note.told \/ note.at + NotifyTimer <= clock
    <3>1. note' = [told |-> Parameters(est'), pacer |-> Parameters(est').rate, at |-> clock]
      BY <2>1, <2>2 DEF Renotify, Tell
    <3>2. DOMAIN note' = {"told", "pacer", "at"} /\ note'.told = Parameters(est') /\ note'.at = clock
      BY <3>1
    <3> QED BY <1>0, <2>1, <3>2, Constants DEF TIInv, Types, Renotified, ListenersAreCurrent, Parameters
  <2>3. CASE ~ (Parameters(est') # note.told \/ note.at + NotifyTimer <= clock)
    <3>1. note' = note /\ note.told = Parameters(est')
      BY <2>1, <2>3 DEF Renotify
    <3> QED BY <1>0, <2>1, <2>3, <3>1, Constants DEF TIInv, Types, Renotified, ListenersAreCurrent, Parameters
  <2> QED BY <2>2, <2>3
<1>5. CASE Tick
  BY <1>0, <1>5, Constants DEF Tick, TIInv, Types, Renotified, ListenersAreCurrent, Parameters
<1>6. CASE UNCHANGED vars
  BY <1>6 DEF vars, TIInv, Types, Renotified, ListenersAreCurrent, Parameters
<1> QED BY <1>2, <1>3, <1>4, <1>5, <1>6 DEF Next

\* EveryoneIsTold: after every call encoder and limiter know the rate, the loss and
\* the round trip time of the controller, and the pacer does at the latest when the
\* notification is repeated.
THEOREM ListenersCorrect ==
    ASSUME 0 < NotifyTimer
    PROVE  Spec => []EveryoneIsTold
<1>1. Init => TIInv
  BY ToldInit
<1>2. TIInv /\ [Next]_vars => TIInv'
  BY ToldStep
<1>3. TIInv => EveryoneIsTold
  BY Constants DEF TIInv, Types, Renotified, EveryoneIsTold, PacerCatchesUp
<1> QED BY <1>1, <1>2, <1>3, PTL DEF Spec

(***************************************************************************)
(* Silence.                                                                *)
(***************************************************************************)

Fields == DOMAIN Fresh
Limit  == TimeoutIntervals * FeedbackInterval

\* Two estimations whose times are the same.
SameTimes(e, f) ==
    /\ DOMAIN f = DOMAIN e /\ f.firstTs = e.firstTs /\ f.feedbackTs = e.feedbackTs
    /\ f.reportTs = e.reportTs /\ f.timeoutTs = e.timeoutTs

\* When a sender has heard for the first and for the last time, and the last timeout.
Heeds ==
    /\ DOMAIN est = Fields
    /\ {est.firstTs, est.feedbackTs, est.reportTs, est.timeoutTs} \subseteq Int
    /\ est.firstTs <= est.feedbackTs /\ est.reportTs <= est.feedbackTs /\ est.feedbackTs <= clock
    /\ est.firstTs = None => est.reportTs = None
    /\ est.reportTs # None /\ updateTs - est.feedbackTs > Limit =>
           updateTs <= est.timeoutTs + TimeoutInterval

LEMMA FieldsAre ==
    {"rate", "lo", "hi", "remb", "delay", "loss", "rtt", "decreased", "lostQ8", "expected",
     "firstTs", "feedbackTs", "reportTs", "timeoutTs", "decreaseTs", "history"} \subseteq Fields
BY DEF Fields, Fresh

\* The operators that change no time.
LEMMA TimesKept ==
    ASSUME NEW e, DOMAIN e = Fields
    PROVE  /\ \A rate : SameTimes(e, Cap(e, rate))
           /\ \A now : SameTimes(e, Remember(e, now))
           /\ \A rate : SameTimes(e, SetSendRate(e, rate))
           /\ \A lo, hi : SameTimes(e, SetMinMax(e, lo, hi))
           /\ \A bound : SameTimes(e, UpdateRemb(e, bound)) /\ SameTimes(e, UpdateDelay(e, bound))
<1> USE FieldsAre
<1>1. ASSUME NEW f, DOMAIN f = Fields, NEW rate PROVE SameTimes(f, Cap(f, rate))
  BY <1>1 DEF Cap, SameTimes
<1>2. ASSUME NEW now PROVE SameTimes(e, Remember(e, now))
  <2>1. \E h : Remember(e, now) = [e EXCEPT !.history = h]
    BY DEF Remember
  <2> QED BY <2>1 DEF SameTimes
<1>3. ASSUME NEW rate PROVE SameTimes(e, SetSendRate(e, rate))
  <2>1. SameTimes(e, Cap(e, rate))
    BY <1>1
  <2> QED BY <2>1 DEF SetSendRate, SameTimes
<1>4. ASSUME NEW lo, NEW hi PROVE SameTimes(e, SetMinMax(e, lo, hi))
  BY DEF SetMinMax, SameTimes
<1>5. ASSUME NEW bound PROVE SameTimes(e, UpdateRemb(e, bound)) /\ SameTimes(e, UpdateDelay(e, bound))
  <2>1. /\ SameTimes(e, [e EXCEPT !.remb = bound]) /\ DOMAIN [e EXCEPT !.remb = bound] = Fields
        /\ SameTimes(e, [e EXCEPT !.delay = bound]) /\ DOMAIN [e EXCEPT !.delay = bound] = Fields
    BY DEF SameTimes
  <2>2. /\ SameTimes([e EXCEPT !.remb = bound], UpdateRemb(e, bound))
        /\ SameTimes([e EXCEPT !.delay = bound], UpdateDelay(e, bound))
    BY <1>1, <2>1 DEF UpdateRemb, UpdateDelay
  <2> QED BY <2>1, <2>2 DEF SameTimes
<1> QED BY <1>1, <1>2, <1>3, <1>4, <1>5

\* An update changes no time but that of the last timeout.
LEMMA UpdateIs ==
    ASSUME NEW e, DOMAIN e = Fields, NEW now, NEW f, f = Update(e, now)
    PROVE  /\ DOMAIN f = Fields /\ f.firstTs = e.firstTs /\ f.feedbackTs = e.feedbackTs
           /\ f.reportTs = e.reportTs
           /\ f.timeoutTs = now \/ f.timeoutTs = e.timeoutTs
           /\ e.reportTs # None /\ ~Jumps(e, now) /\ ~Informed(e, now) /\ Silent(e, now)
                  => f.timeoutTs = now
<1> USE FieldsAre
<1>1. CASE Jumps(e, now)
  <2> DEFINE g == [e EXCEPT !.history = <<[ts |-> now, rate |-> e.rate]>>]
  <2>1. SameTimes(e, g) /\ DOMAIN g = Fields
    BY DEF SameTimes
  <2>2. f = Cap(g, Estimates(e))
    BY <1>1 DEF Update
  <2> HIDE DEF g
  <2>3. SameTimes(g, f)
    BY <2>1, <2>2, TimesKept
  <2> QED BY <1>1, <2>1, <2>3 DEF SameTimes
<1>2. CASE ~Jumps(e, now)
  <2> DEFINE h == Remember(e, now)
  <2>1. SameTimes(e, h) /\ DOMAIN h = Fields
    BY TimesKept DEF SameTimes
  <2>2. f = IF h.reportTs = None THEN Cap(h, h.rate)
            ELSE IF Informed(h, now) THEN ByLoss(h, now) ELSE BySilence(h, now)
    BY <1>2 DEF Update
  <2> HIDE DEF h
  <2>3. /\ h.reportTs = e.reportTs
        /\ Informed(h, now) <=> Informed(e, now)
        /\ Silent(h, now) <=> Silent(e, now)
    BY <2>1 DEF SameTimes, Informed, Silent
  <2>4. CASE h.reportTs = None
    <3>1. SameTimes(h, f)
      BY <2>1, <2>2, <2>4, TimesKept
    <3> QED BY <2>1, <2>3, <2>4, <3>1 DEF SameTimes
  <2>5. CASE h.reportTs # None /\ Informed(h, now)
    <3>1. f = ByLoss(h, now)
      BY <2>2, <2>5
    <3>2. SameTimes(h, f)
      <4> DEFINE g == [h EXCEPT !.decreaseTs = now, !.decreased = TRUE]
      <4>1. SameTimes(h, g) /\ DOMAIN g = Fields
        BY <2>1 DEF SameTimes
      <4>2. f = Cap(h, Raised(Base(h))) \/ f = Cap(g, Cut(h.rate, h.loss)) \/ f = Cap(h, h.rate)
        BY <3>1 DEF ByLoss
      <4> HIDE DEF g
      <4>3. CASE f = Cap(g, Cut(h.rate, h.loss))
        <5>1. SameTimes(g, f)
          BY <4>1, <4>3, TimesKept
        <5> QED BY <4>1, <5>1 DEF SameTimes
      <4>4. CASE f = Cap(h, Raised(Base(h))) \/ f = Cap(h, h.rate)
        BY <2>1, <4>4, TimesKept
      <4> QED BY <4>2, <4>3, <4>4
    <3> QED BY <2>1, <2>3, <2>5, <3>2 DEF SameTimes
  <2>6. CASE h.reportTs # None /\ ~Informed(h, now)
    <3>1. f = BySilence(h, now)
      BY <2>2, <2>6
    <3>2. CASE Silent(h, now)
      <4> DEFINE g == [h EXCEPT !.lostQ8 = 0, !.expected = 0, !.timeoutTs = now]
      <4>1. /\ DOMAIN g = Fields /\ g.firstTs = h.firstTs /\ g.feedbackTs = h.feedbackTs
            /\ g.reportTs = h.reportTs /\ g.timeoutTs = now
        BY <2>1
      <4>2. f = Cap(g, (h.rate * 4) \div 5)
        BY <3>1, <3>2 DEF BySilence
      <4> HIDE DEF g
      <4>3. SameTimes(g, f)
        BY <4>1, <4>2, TimesKept
      <4> QED BY <2>1, <4>1, <4>3 DEF SameTimes
    <3>3. CASE ~Silent(h, now)
      <4>1. f = Cap(h, h.rate)
        BY <3>1, <3>3 DEF BySilence
      <4>2. SameTimes(h, f)
        BY <2>1, <4>1, TimesKept
      <4> QED BY <2>1, <2>3, <3>3, <4>2 DEF SameTimes
    <3> QED BY <3>2, <3>3
  <2> QED BY <2>4, <2>5, <2>6
<1> QED BY <1>1, <1>2

\* A report of packets is heard now.
LEMMA UpdateBlockIs ==
    ASSUME NEW e, DOMAIN e = Fields, NEW loss, NEW rtt, NEW packets, NEW now,
           NEW f, f = UpdateBlock(e, loss, rtt, packets, now)
    PROVE  /\ DOMAIN f = Fields /\ f.feedbackTs = now
           /\ f.firstTs = IF e.firstTs = None THEN now ELSE e.firstTs
           /\ f.reportTs = now \/ f.reportTs = e.reportTs
           /\ f.timeoutTs = now \/ f.timeoutTs = e.timeoutTs
<1> USE FieldsAre
<1> DEFINE h == Heard(e, loss, rtt, packets, now)
<1>1. /\ DOMAIN h = Fields /\ h.feedbackTs = now /\ h.reportTs = e.reportTs
      /\ h.timeoutTs = e.timeoutTs
      /\ h.firstTs = IF e.firstTs = None THEN now ELSE e.firstTs
  BY DEF Heard
<1>2. f = IF h.expected < LimitPackets THEN h ELSE Update(Judged(h, now), now)
  BY DEF UpdateBlock
<1> HIDE DEF h
<1> DEFINE j == Judged(h, now)
<1>3. /\ DOMAIN j = Fields /\ j.feedbackTs = now /\ j.reportTs = now
      /\ j.timeoutTs = h.timeoutTs /\ j.firstTs = h.firstTs
  BY <1>1 DEF Judged
<1> HIDE DEF j
<1>4. CASE f = h
  BY <1>1, <1>4
<1>5. CASE f = Update(j, now)
  BY <1>1, <1>3, <1>5, UpdateIs
<1> QED BY <1>2, <1>4, <1>5 DEF j

LEMMA LimitIs ==
    /\ Limit \in Nat
    /\ \A e, now : Silent(e, now) <=> /\ now - e.feedbackTs > Limit
                                      /\ e.timeoutTs = None \/ now > e.timeoutTs + TimeoutInterval
BY Constants DEF Limit, Silent

LEMMA SilenceInit ==
    ASSUME Init
    PROVE  Heeds
<1> DEFINE e == SetMinMax(Fresh, Defaults.min, Defaults.max)
<1>1. clock = 0 /\ updateTs = 0 /\ est = SetSendRate(e, Clamp(Defaults))
  BY DEF Init, Configured
<1>2. /\ DOMAIN Fresh = Fields
      /\ Fresh.firstTs = -1 /\ Fresh.feedbackTs = -1 /\ Fresh.reportTs = -1 /\ Fresh.timeoutTs = -1
  BY DEF Fields, Fresh, None
<1>3. SameTimes(Fresh, e) /\ DOMAIN e = Fields
  BY <1>2, TimesKept DEF SameTimes
<1> HIDE DEF e
<1>4. SameTimes(e, est)
  BY <1>1, <1>3, TimesKept
<1>5. /\ DOMAIN est = Fields
      /\ est.firstTs = -1 /\ est.feedbackTs = -1 /\ est.reportTs = -1 /\ est.timeoutTs = -1
  BY <1>2, <1>3, <1>4 DEF SameTimes
<1> QED BY <1>1, <1>5 DEF Heeds, None

LEMMA SilenceStep ==
    ASSUME StartPhase <= Limit, FeedbackInterval <= Limit, TIInv, Heeds, [Next]_vars
    PROVE  Heeds'
<1>0. /\ clock \in Nat /\ updateTs \in Nat /\ updateTs <= clock /\ Limit \in Nat
      /\ DOMAIN est = Fields
      /\ est.firstTs \in Int /\ est.feedbackTs \in Int /\ est.reportTs \in Int /\ est.timeoutTs \in Int
      /\ est.firstTs <= est.feedbackTs /\ est.reportTs <= est.feedbackTs /\ est.feedbackTs <= clock
      /\ est.firstTs = None => est.reportTs = None
  BY LimitIs DEF TIInv, Types, Heeds
<1>1. ASSUME SameTimes(est, est'), clock' \in Nat, clock <= clock', UNCHANGED updateTs
      PROVE  Heeds'
  BY <1>0, <1>1 DEF Heeds, SameTimes, Fields, Limit
<1>2. ASSUME NEW s \in Settings, SetBitrates(s) PROVE Heeds'
  <2> DEFINE e == SetMinMax(est, s.min, s.max)
  <2>1. UNCHANGED <<clock, updateTs>> /\ est' = SetSendRate(e, Clamp(s))
    BY <1>2 DEF SetBitrates, Configured
  <2>2. SameTimes(est, e) /\ DOMAIN e = Fields
    BY <1>0, TimesKept DEF SameTimes
  <2> HIDE DEF e
  <2>3. SameTimes(e, est')
    BY <2>1, <2>2, TimesKept
  <2>4. SameTimes(est, est')
    BY <2>2, <2>3 DEF SameTimes
  <2> QED BY <1>0, <1>1, <2>1, <2>4
<1>3. ASSUME NEW delay, NEW remb, NEW report, NEW rtt, HandleFeedback(delay, remb, report, rtt)
      PROVE  Heeds'
  <2> DEFINE o == Offered(est, delay)
             b == Estimated(o, remb)
  <2>1. UNCHANGED <<clock, updateTs>> /\ est' = Reported(b, report, rtt)
    BY <1>3 DEF HandleFeedback
  <2>2. SameTimes(est, o) /\ DOMAIN o = Fields
    <3>1. o = est \/ o = UpdateDelay(est, delay)
      BY DEF Offered
    <3>2. SameTimes(est, est)
      BY DEF SameTimes
    <3> HIDE DEF o
    <3>3. SameTimes(est, o)
      BY <1>0, <3>1, <3>2, TimesKept
    <3> QED BY <1>0, <3>3 DEF SameTimes
  <2> HIDE DEF o
  <2>3. SameTimes(o, b) /\ DOMAIN b = Fields
    <3>1. b = o \/ b = UpdateRemb(o, remb)
      BY DEF Estimated
    <3>2. SameTimes(o, o)
      BY DEF SameTimes
    <3> HIDE DEF b
    <3>3. SameTimes(o, b)
      BY <2>2, <3>1, <3>2, TimesKept
    <3> QED BY <2>2, <3>3 DEF SameTimes
  <2> HIDE DEF b
  <2>4. SameTimes(est, b)
    BY <2>2, <2>3 DEF SameTimes
  <2>5. CASE est' = b
    BY <1>0, <1>1, <2>1, <2>4, <2>5
  <2>6. CASE est' = UpdateBlock(b, report.loss, rtt, report.packets, clock)
    <3>1. /\ DOMAIN est' = Fields /\ est'.feedbackTs = clock
          /\ est'.firstTs = IF b.firstTs = None THEN clock ELSE b.firstTs
          /\ est'.reportTs = clock \/ est'.reportTs = b.reportTs
          /\ est'.timeoutTs = clock \/ est'.timeoutTs = b.timeoutTs
      BY <2>3, <2>6, UpdateBlockIs
    <3>2. b.firstTs = est.firstTs /\ b.reportTs = est.reportTs /\ b.timeoutTs = est.timeoutTs
      BY <2>4 DEF SameTimes
    <3>3. clock # None
      BY <1>0 DEF None
    <3>4. /\ est'.firstTs \in Int /\ est'.reportTs \in Int /\ est'.timeoutTs \in Int
          /\ est'.firstTs <= clock /\ est'.reportTs <= clock /\ est'.firstTs # None
      BY <1>0, <3>1, <3>2, <3>3
    <3>5. ~ (updateTs - clock > Limit)
      BY <1>0
    <3> QED BY <1>0, <2>1, <3>1, <3>4, <3>5 DEF Heeds, Fields, Limit
  <2> QED BY <2>1, <2>5, <2>6 DEF Reported
<1>4. CASE Heartbeat
  <2>1. est' = Update(est, clock) /\ updateTs' = clock /\ clock' = clock
    BY <1>4 DEF Heartbeat
  <2>2. /\ DOMAIN est' = Fields /\ est'.firstTs = est.firstTs /\ est'.feedbackTs = est.feedbackTs
        /\ est'.reportTs = est.reportTs
        /\ est'.timeoutTs = clock \/ est'.timeoutTs = est.timeoutTs
        /\ est.reportTs # None /\ ~Jumps(est, clock) /\ ~Informed(est, clock) /\ Silent(est, clock)
               => est'.timeoutTs = clock
    BY <1>0, <2>1, UpdateIs
  <2>3. ASSUME est.reportTs # None, clock - est.feedbackTs > Limit
        PROVE  clock <= est'.timeoutTs + TimeoutInterval
    <3>1. ~Jumps(est, clock)
      <4>1. est.firstTs # None /\ ~ (clock < est.firstTs + StartPhase)
        BY <1>0, <2>3, Constants
      <4> QED BY <4>1 DEF Jumps, Starting
    <3>2. ~Informed(est, clock)
      BY <1>0, <2>3, Constants DEF Informed
    <3>3. CASE Silent(est, clock)
      BY <1>0, <2>2, <2>3, <3>1, <3>2, <3>3, Constants
    <3>4. CASE ~Silent(est, clock)
      <4>1. ~ (clock > est.timeoutTs + TimeoutInterval)
        BY <2>3, <3>4, LimitIs
      <4> QED BY <1>0, <2>2, <4>1, Constants
    <3> QED BY <3>3, <3>4
  <2>4. est'.timeoutTs \in Int
    BY <1>0, <2>2
  <2> QED BY <1>0, <2>1, <2>2, <2>3, <2>4 DEF Heeds, Fields, Limit
<1>5. CASE Tick
  <2>1. UNCHANGED <<est, updateTs>> /\ clock' = clock + 1
    BY <1>5 DEF Tick
  <2>2. SameTimes(est, est')
    BY <2>1 DEF SameTimes
  <2> QED BY <1>0, <1>1, <2>1, <2>2
<1>6. CASE UNCHANGED vars
  <2>1. SameTimes(est, est') /\ UNCHANGED <<clock, updateTs>>
    BY <1>6 DEF vars, SameTimes
  <2> QED BY <1>0, <1>1, <2>1
<1> QED BY <1>2, <1>3, <1>4, <1>5, <1>6 DEF Next

\* SilenceIsNoticed: a sender whose reports have stopped lowers its rate again within
\* every timeout interval, if its start phase and one report interval are over before
\* silence counts as such.
THEOREM SilenceCorrect ==
    ASSUME 0 < NotifyTimer, StartPhase <= Limit, FeedbackInterval <= Limit
    PROVE  Spec => []SilenceIsNoticed
<1>1. Init => TIInv /\ Heeds
  BY ToldInit, SilenceInit
<1>2. TIInv /\ Heeds /\ [Next]_vars => TIInv' /\ Heeds'
  BY ToldStep, SilenceStep
<1>3. TIInv /\ Heeds => SilenceIsNoticed
  <2>1. SUFFICES ASSUME TIInv, Heeds PROVE SilenceIsNoticed
    OBVIOUS
  <2>2. /\ clock \in Nat /\ updateTs \in Nat /\ clock <= updateTs + UpdateGap /\ Limit \in Nat
        /\ est.feedbackTs \in Int /\ est.timeoutTs \in Int
    BY <2>1, LimitIs DEF TIInv, Types, Heeds
  <2>3. ASSUME est.reportTs # None, clock - est.feedbackTs > Limit + UpdateGap
        PROVE  clock <= est.timeoutTs + TimeoutInterval + UpdateGap
    <3>1. updateTs - est.feedbackTs > Limit
      BY <2>2, <2>3, Constants
    <3>2. updateTs <= est.timeoutTs + TimeoutInterval
      BY <2>1, <2>3, <3>1 DEF Heeds
    <3> QED BY <2>2, <3>2, Constants
  <2> QED BY <2>3 DEF SilenceIsNoticed, Limit
<1> QED BY <1>1, <1>2, <1>3, PTL DEF Spec

(***************************************************************************)
(* The queue of the least rates.                                           *)
(***************************************************************************)

Entries == [ts : Nat, rate : Nat]

\* The queue is in the order of the times, and the rates grow.
Sorted(h, now) ==
    /\ h \in Seq(Entries)
    /\ \A i \in 1 .. Len(h) : h[i].ts <= now
    /\ \A i, j \in 1 .. Len(h) : i < j => h[i].ts <= h[j].ts /\ h[i].rate < h[j].rate

LEMMA EntryIs ==
    ASSUME NEW h \in Seq(Entries)
    PROVE  /\ Len(h) \in Nat
           /\ \A i \in 1 .. Len(h) : h[i] \in Entries /\ h[i].ts \in Nat /\ h[i].rate \in Nat
<1>1. \A x \in Entries : x.ts \in Nat /\ x.rate \in Nat
  BY DEF Entries
<1>2. Len(h) \in Nat /\ \A i \in 1 .. Len(h) : h[i] \in Entries
  OBVIOUS
<1> QED BY <1>1, <1>2

\* The entries of h from a + 1 to b.
IsPart(g, h, a, b) ==
    /\ a \in 0 .. b /\ b \in 0 .. Len(h)
    /\ g \in Seq(Entries) /\ Len(g) = b - a
    /\ \A i \in 1 .. b - a : g[i] = h[a + i]

LEMMA PartIs ==
    ASSUME NEW h \in Seq(Entries), NEW b \in 0 .. Len(h), NEW a \in 0 .. b
    PROVE  IsPart(SubSeq(h, a + 1, b), h, a, b)
<1>1. a + 1 \in 1 .. Len(h) + 1 /\ Len(h) \in Nat
  OBVIOUS
<1>2. \A i \in a + 1 .. b : h[i] \in Entries
  OBVIOUS
<1>3. /\ SubSeq(h, a + 1, b) \in Seq(Entries) /\ Len(SubSeq(h, a + 1, b)) = b - a
      /\ \A i \in 1 .. b - a : SubSeq(h, a + 1, b)[i] = h[a + i]
  BY <1>1, <1>2
<1> QED BY <1>3 DEF IsPart

LEMMA PartOfPart ==
    ASSUME NEW h \in Seq(Entries), NEW a, NEW b, NEW f, IsPart(f, h, a, b),
           NEW c, NEW d, NEW g, IsPart(g, f, c, d)
    PROVE  IsPart(g, h, a + c, a + d)
<1>1. /\ a \in 0 .. b /\ b \in 0 .. Len(h) /\ Len(h) \in Nat
      /\ c \in 0 .. d /\ d \in 0 .. b - a /\ g \in Seq(Entries) /\ Len(g) = d - c
  BY DEF IsPart
<1>2. a + c \in 0 .. a + d /\ a + d \in 0 .. Len(h) /\ Len(g) = (a + d) - (a + c)
  BY <1>1
<1>3. ASSUME NEW i \in 1 .. d - c PROVE g[i] = h[(a + c) + i]
  <2>1. g[i] = f[c + i]
    BY <1>3 DEF IsPart
  <2>2. c + i \in 1 .. b - a /\ a + (c + i) = (a + c) + i
    BY <1>1
  <2>3. f[c + i] = h[a + (c + i)]
    BY <2>2 DEF IsPart
  <2> QED BY <2>1, <2>2, <2>3
<1>4. \A i \in 1 .. (a + d) - (a + c) : g[i] = h[(a + c) + i]
  <2>1. (a + d) - (a + c) = d - c
    BY <1>1
  <2> QED BY <1>3, <2>1
<1> QED BY <1>1, <1>2, <1>4 DEF IsPart

\* Entries leave at the front while they have expired.
LEMMA RecentIs ==
    ASSUME NEW now \in Nat, NEW h, Sorted(h, now)
    PROVE  \E a \in 0 .. Len(h) : /\ IsPart(Recent(h, now), h, a, Len(h))
                                  /\ \A i \in 1 .. a : Expired(h[i], now)
                                  /\ \A i \in a + 1 .. Len(h) : ~Expired(h[i], now)
<1> DEFINE S == {i \in 1 .. Len(h) + 1 : i <= Len(h) => ~Expired(h[i], now)}
           m == Min(S)
<1>1. h \in Seq(Entries) /\ Len(h) \in Nat
  BY DEF Sorted
<1>2. S \subseteq Nat /\ Len(h) + 1 \in S
  BY <1>1
<1>3. m \in S /\ \A i \in S : m <= i
  <2> HIDE DEF S
  <2>1. \E x \in S : \A y \in S : x <= y
    BY <1>2, LeastNatural
  <2> QED BY <2>1 DEF Min
<1>4. Recent(h, now) = SubSeq(h, m, Len(h))
  BY DEF Recent
<1> HIDE DEF m
<1>5. m - 1 \in 0 .. Len(h) /\ (m - 1) + 1 = m /\ m \in Nat
  BY <1>1, <1>3
<1>6. IsPart(Recent(h, now), h, m - 1, Len(h))
  <2>1. Len(h) \in 0 .. Len(h)
    BY <1>1
  <2>2. IsPart(SubSeq(h, (m - 1) + 1, Len(h)), h, m - 1, Len(h))
    BY <1>1, <1>5, <2>1, PartIs
  <2> QED BY <1>4, <1>5, <2>2
<1>7. ASSUME NEW i \in 1 .. m - 1 PROVE Expired(h[i], now)
  <2>1. i \in 1 .. Len(h) + 1 /\ i <= Len(h) /\ ~ (m <= i)
    BY <1>1, <1>5
  <2>2. i \notin S
    BY <1>3, <2>1
  <2> QED BY <2>1, <2>2
<1>8. ASSUME NEW i \in (m - 1) + 1 .. Len(h) PROVE ~Expired(h[i], now)
  <2>1. m \in 1 .. Len(h) /\ i \in 1 .. Len(h) /\ (m = i \/ m < i)
    BY <1>1, <1>5
  <2>2. ~Expired(h[m], now)
    BY <1>3, <2>1
  <2>3. h[m].ts \in Nat /\ h[i].ts \in Nat /\ IncreaseInterval \in Nat
    BY <1>1, <2>1, EntryIs, EstimationAssumption
  <2>4. h[m].ts <= h[i].ts
    BY <2>1, <2>3 DEF Sorted
  <2> QED BY <2>2, <2>3, <2>4 DEF Expired
<1> QED BY <1>5, <1>6, <1>7, <1>8

\* Entries leave at the back while they are not less than the rate.
LEMMA SmallerIs ==
    ASSUME NEW now \in Nat, NEW h, Sorted(h, now), NEW rate \in Nat
    PROVE  \E b \in 0 .. Len(h) : /\ IsPart(Smaller(h, rate), h, 0, b)
                                  /\ \A i \in 1 .. b : h[i].rate < rate
                                  /\ \A i \in b + 1 .. Len(h) : rate <= h[i].rate
<1> DEFINE S == {i \in 0 .. Len(h) : i > 0 => h[i].rate < rate}
           m == Max(S)
<1>1. h \in Seq(Entries) /\ Len(h) \in Nat
  BY DEF Sorted
<1>2. S \subseteq 0 .. Len(h) /\ 0 \in S
  BY <1>1
<1>3. m \in S /\ \A i \in S : i <= m
  <2> HIDE DEF S
  <2>1. \E x \in S : \A y \in S : y <= x
    BY <1>1, <1>2, GreatestNatural
  <2>2. \A x, y \in 0 .. Len(h) : y <= x <=> x >= y
    BY <1>1
  <2>3. \E x \in S : \A y \in S : x >= y
    BY <1>2, <2>1, <2>2
  <2> QED BY <1>2, <2>2, <2>3 DEF Max
<1>4. Smaller(h, rate) = SubSeq(h, 1, m)
  BY DEF Smaller
<1> HIDE DEF m
<1>5. m \in 0 .. Len(h)
  BY <1>3
<1>6. IsPart(Smaller(h, rate), h, 0, m)
  <2>1. 0 \in 0 .. m /\ 0 + 1 = 1
    BY <1>1, <1>5
  <2>2. IsPart(SubSeq(h, 0 + 1, m), h, 0, m)
    BY <1>1, <1>5, <2>1, PartIs
  <2> QED BY <1>4, <2>1, <2>2
<1>7. ASSUME NEW i \in 1 .. m PROVE h[i].rate < rate
  <2>1. m > 0 /\ m \in 1 .. Len(h) /\ i \in 1 .. Len(h) /\ (m = i \/ i < m)
    BY <1>1, <1>5
  <2>2. h[m].rate < rate
    BY <1>3, <2>1
  <2>3. h[i].rate \in Nat /\ h[m].rate \in Nat
    BY <1>1, <2>1, EntryIs
  <2>4. i = m \/ h[i].rate < h[m].rate
    BY <2>1 DEF Sorted
  <2> QED BY <2>2, <2>3, <2>4
<1>8. ASSUME NEW i \in m + 1 .. Len(h) PROVE rate <= h[i].rate
  <2>1. i \in 0 .. Len(h) /\ i > 0 /\ i \in 1 .. Len(h) /\ ~ (i <= m)
    BY <1>1, <1>5
  <2>2. i \notin S
    BY <1>3, <2>1
  <2>3. h[i].rate \in Nat
    BY <1>1, <2>1, EntryIs
  <2> QED BY <2>1, <2>2, <2>3
<1> QED BY <1>5, <1>6, <1>7, <1>8

LEMMA RoomIs ==
    ASSUME NEW h \in Seq(Entries), Len(h) <= HistorySize
    PROVE  \E a \in 0 .. Len(h) : /\ IsPart(Room(h), h, a, Len(h))
                                  /\ Len(h) - a < HistorySize
                                  /\ Len(h) # HistorySize => a = 0
<1>1. HistorySize \in Nat \ {0} /\ Len(h) \in Nat
  BY EstimationAssumption
<1>2. CASE Len(h) = HistorySize
  <2>1. Tail(h) = SubSeq(h, 1 + 1, Len(h)) /\ 1 \in 0 .. Len(h) /\ Len(h) \in 0 .. Len(h)
    BY <1>1, <1>2
  <2>2. IsPart(Tail(h), h, 1, Len(h))
    BY <2>1, PartIs
  <2> QED BY <1>1, <1>2, <2>1, <2>2 DEF Room
<1>3. CASE Len(h) # HistorySize
  <2>1. 0 \in 0 .. Len(h) /\ Len(h) \in 0 .. Len(h) /\ \A i \in 1 .. Len(h) - 0 : h[i] = h[0 + i]
    BY <1>1
  <2>2. IsPart(h, h, 0, Len(h))
    BY <1>1, <2>1 DEF IsPart
  <2> QED BY <1>1, <1>3, <2>1, <2>2 DEF Room
<1> QED BY <1>2, <1>3

LEMMA PartIsSorted ==
    ASSUME NEW now \in Nat, NEW h, Sorted(h, now), NEW a, NEW b, NEW g, IsPart(g, h, a, b)
    PROVE  Sorted(g, now) /\ Len(g) <= Len(h)
<1>1. /\ a \in 0 .. b /\ b \in 0 .. Len(h) /\ Len(h) \in Nat /\ Len(g) = b - a
      /\ g \in Seq(Entries) /\ \A i \in 1 .. b - a : g[i] = h[a + i]
  BY DEF IsPart, Sorted
<1>2. \A i \in 1 .. b - a : a + i \in 1 .. Len(h)
  BY <1>1
<1>3. \A i \in 1 .. Len(g) : g[i].ts <= now
  BY <1>1, <1>2 DEF Sorted
<1>4. ASSUME NEW i \in 1 .. Len(g), NEW j \in 1 .. Len(g), i < j
      PROVE  g[i].ts <= g[j].ts /\ g[i].rate < g[j].rate
  <2>1. a + i \in 1 .. Len(h) /\ a + j \in 1 .. Len(h) /\ a + i < a + j
    BY <1>1, <1>2, <1>4
  <2>2. g[i] = h[a + i] /\ g[j] = h[a + j]
    BY <1>1, <1>4
  <2> QED BY <2>1, <2>2 DEF Sorted
<1>5. Len(g) <= Len(h)
  BY <1>1
<1> QED BY <1>1, <1>3, <1>4, <1>5 DEF Sorted

NextHistory(h, rate, now) ==
    Append(Room(Smaller(Recent(h, now), rate)), [ts |-> now, rate |-> rate])

\* g has the entries of h from a + 1 to b and the rate at last: before them are those that
\* have expired, or the head of a full queue, behind them those that are not less.
Follows(g, h, a, b, rate, now) ==
    /\ a \in 0 .. b /\ b \in 0 .. Len(h) /\ g \in Seq(Entries)
    /\ Len(g) = b - a + 1 /\ Len(g) <= HistorySize
    /\ \A i \in 1 .. b - a : g[i] = h[a + i]
    /\ g[b - a + 1] = [ts |-> now, rate |-> rate]
    /\ \A i \in a + 1 .. b : ~Expired(h[i], now) /\ h[i].rate < rate
    /\ \A i \in b + 1 .. Len(h) : rate <= h[i].rate
    /\ Len(h) < HistorySize => \A i \in 1 .. a : Expired(h[i], now)

LEMMA HistoryFollows ==
    ASSUME NEW now \in Nat, NEW h, Sorted(h, now), Len(h) <= HistorySize, NEW rate \in Nat
    PROVE  \E a, b \in Nat : Follows(NextHistory(h, rate, now), h, a, b, rate, now)
<1> DEFINE f == Recent(h, now)
           k == Smaller(f, rate)
           r == Room(k)
           n == Len(h)
           entry == [ts |-> now, rate |-> rate]
<1>0. n \in Nat /\ h \in Seq(Entries) /\ HistorySize \in Nat \ {0}
  BY EstimationAssumption DEF Sorted
<1>1. PICK a1 \in 0 .. n : /\ IsPart(f, h, a1, n)
                           /\ \A i \in 1 .. a1 : Expired(h[i], now)
                           /\ \A i \in a1 + 1 .. n : ~Expired(h[i], now)
  BY RecentIs
<1> HIDE DEF f
<1>2. Sorted(f, now) /\ Len(f) = n - a1 /\ Len(f) <= n
  BY <1>1, PartIsSorted DEF IsPart
<1>3. PICK b1 \in 0 .. Len(f) : /\ IsPart(k, f, 0, b1)
                                /\ \A i \in 1 .. b1 : f[i].rate < rate
                                /\ \A i \in b1 + 1 .. Len(f) : rate <= f[i].rate
  BY <1>2, SmallerIs
<1> HIDE DEF k
<1>4. Sorted(k, now) /\ Len(k) <= Len(f) /\ Len(k) = b1
  <2>1. Len(k) = b1 - 0 /\ b1 - 0 = b1
    <3>1. Len(f) \in Nat
      BY <1>0, <1>2
    <3> QED BY <1>3, <3>1 DEF IsPart
  <2> QED BY <1>2, <1>3, <2>1, PartIsSorted
<1>5. k \in Seq(Entries) /\ Len(k) <= HistorySize
  BY <1>0, <1>2, <1>3, <1>4 DEF Sorted
<1>6. PICK a2 \in 0 .. Len(k) : /\ IsPart(r, k, a2, Len(k))
                                /\ Len(k) - a2 < HistorySize
                                /\ Len(k) # HistorySize => a2 = 0
  BY <1>5, RoomIs
<1> HIDE DEF r
<1>7. IsPart(r, h, a1 + a2, a1 + b1)
  <2>1. IsPart(k, h, a1 + 0, a1 + b1)
    BY <1>0, <1>1, <1>3, PartOfPart
  <2>2. a1 + 0 = a1
    BY <1>0, <1>1
  <2>3. IsPart(k, h, a1, a1 + b1)
    BY <2>1, <2>2
  <2> QED BY <1>0, <1>4, <1>6, <2>3, PartOfPart
<1> DEFINE a == a1 + a2
           b == a1 + b1
<1>8. /\ a \in Nat /\ b \in Nat /\ a \in 0 .. b /\ b \in 0 .. n
      /\ r \in Seq(Entries) /\ Len(r) = b - a /\ \A i \in 1 .. b - a : r[i] = h[a + i]
  BY <1>0, <1>7 DEF IsPart
<1>9. b - a + 1 <= HistorySize /\ a1 <= a
  BY <1>0, <1>1, <1>2, <1>3, <1>4, <1>6
<1>10. \A i \in a1 + 1 .. n : i - a1 \in 1 .. Len(f) /\ h[i] = f[i - a1]
  <2>1. \A i \in 1 .. n - a1 : f[i] = h[a1 + i]
    BY <1>1 DEF IsPart
  <2>2. \A i \in a1 + 1 .. n : i - a1 \in 1 .. n - a1 /\ a1 + (i - a1) = i
    BY <1>0, <1>1
  <2> QED BY <1>2, <2>1, <2>2
<1>11. ASSUME NEW i \in a + 1 .. b PROVE ~Expired(h[i], now) /\ h[i].rate < rate
  <2>1. i \in a1 + 1 .. n /\ i - a1 \in 1 .. b1
    BY <1>0, <1>1, <1>2, <1>3, <1>8, <1>9
  <2> QED BY <1>1, <1>3, <1>10, <2>1
<1>12. ASSUME NEW i \in b + 1 .. n PROVE rate <= h[i].rate
  <2>0. b = a1 + b1 /\ b1 \in 0 .. n - a1 /\ i \in Int
    BY <1>0, <1>1, <1>2, <1>3, <1>8
  <2>1. i \in a1 + 1 .. n /\ i - a1 \in b1 + 1 .. n - a1
    <3> HIDE DEF b
    <3> QED BY <1>0, <1>12, <2>0
  <2>2. i - a1 \in b1 + 1 .. Len(f)
    BY <1>2, <2>1
  <2> QED BY <1>3, <1>10, <2>1, <2>2
<1>13. n < HistorySize => a = a1
  BY <1>0, <1>1, <1>2, <1>3, <1>4, <1>6
<1>14. n < HistorySize => \A i \in 1 .. a : Expired(h[i], now)
  BY <1>1, <1>13
<1> DEFINE g == Append(r, entry)
<1> HIDE DEF a, b
<1>15. entry \in Entries
  BY DEF Entries
<1>16. /\ g \in Seq(Entries) /\ Len(g) = b - a + 1 /\ g[b - a + 1] = entry
       /\ \A i \in 1 .. b - a : g[i] = h[a + i]
  <2> HIDE DEF entry
  <2>1. /\ g \in Seq(Entries) /\ Len(g) = Len(r) + 1 /\ g[Len(r) + 1] = entry
        /\ \A i \in 1 .. Len(r) : g[i] = r[i]
    BY <1>8, <1>15
  <2> QED BY <1>8, <2>1
<1>17. g = NextHistory(h, rate, now)
  BY DEF NextHistory, r, k, f
<1> HIDE DEF g
<1>18. Follows(g, h, a, b, rate, now)
  BY <1>8, <1>9, <1>11, <1>12, <1>14, <1>16 DEF Follows
<1> QED BY <1>8, <1>17, <1>18

\* What the queue has to do with the rates of all updates: its entries are among them,
\* and for each there is an entry that is not greater and not older.
Listed(h, all) == \A i \in 1 .. Len(h) : h[i] \in all
Undercuts(h, all) ==
    \A x \in all : \E i \in 1 .. Len(h) : h[i].rate <= x.rate /\ x.ts <= h[i].ts

\* No entry is below the least rate.
AtLeast(h, lo) == \A i \in 1 .. Len(h) : lo <= h[i].rate

NextLog(all, rate, now) ==
    {x \in all : ~Expired(x, now)} \cup {[ts |-> now, rate |-> rate]}

LEMMA SortedFollows ==
    ASSUME NEW now \in Nat, NEW h, Sorted(h, now), NEW rate \in Nat,
           NEW a \in Nat, NEW b \in Nat, NEW g, Follows(g, h, a, b, rate, now)
    PROVE  Sorted(g, now)
<1> DEFINE n == b - a
<1>1. /\ a <= b /\ b <= Len(h) /\ Len(h) \in Nat /\ n \in Nat /\ Len(g) = n + 1 /\ g \in Seq(Entries)
      /\ \A i \in 1 .. n : g[i] = h[a + i]
      /\ g[n + 1] = [ts |-> now, rate |-> rate]
      /\ \A i \in a + 1 .. b : h[i].rate < rate
  BY DEF Follows, Sorted
<1>2. \A i \in 1 .. n : a + i \in 1 .. Len(h) /\ a + i \in a + 1 .. b
  BY <1>1
<1> HIDE DEF n
<1>3. g[n + 1].ts = now /\ g[n + 1].rate = rate
  BY <1>1
<1>4. \A i \in 1 .. n : g[i].ts <= now /\ g[i].rate < rate
  BY <1>1, <1>2 DEF Sorted
<1>5. \A i \in 1 .. n, j \in 1 .. n : i < j => g[i].ts <= g[j].ts /\ g[i].rate < g[j].rate
  <2> TAKE i \in 1 .. n, j \in 1 .. n
  <2>1. i < j => a + i < a + j
    BY <1>1
  <2> QED BY <1>1, <1>2, <2>1 DEF Sorted
<1>6. \A i \in 1 .. Len(g) : i \in 1 .. n \/ i = n + 1
  BY <1>1
<1>7. ASSUME NEW i \in 1 .. Len(g), NEW j \in 1 .. Len(g), i < j
      PROVE  g[i].ts <= g[j].ts /\ g[i].rate < g[j].rate
  <2>1. i \in 1 .. n
    BY <1>1, <1>7
  <2> QED BY <1>3, <1>4, <1>5, <1>6, <1>7, <2>1
<1>8. \A i \in 1 .. Len(g) : g[i].ts <= now
  BY <1>3, <1>4, <1>6
<1> QED BY <1>1, <1>7, <1>8 DEF Sorted

LEMMA ListedFollows ==
    ASSUME NEW now \in Nat, NEW h \in Seq(Entries), NEW rate \in Nat,
           NEW a \in Nat, NEW b \in Nat, NEW g, Follows(g, h, a, b, rate, now),
           NEW all, NEW lo \in Nat, lo <= rate
    PROVE  /\ Listed(h, all) => Listed(g, NextLog(all, rate, now))
           /\ AtLeast(h, lo) => AtLeast(g, lo)
<1> DEFINE entry == [ts |-> now, rate |-> rate]
<1>1. /\ a <= b /\ b <= Len(h) /\ Len(h) \in Nat /\ Len(g) = b - a + 1
      /\ \A i \in 1 .. b - a : g[i] = h[a + i]
      /\ g[b - a + 1] = entry
      /\ \A i \in a + 1 .. b : ~Expired(h[i], now)
  BY DEF Follows
<1>2. entry.rate = rate
  OBVIOUS
<1> HIDE DEF entry
<1>3. ASSUME NEW i \in 1 .. Len(g)
      PROVE  g[i] = entry \/ \E j \in 1 .. Len(h) : g[i] = h[j] /\ ~Expired(h[j], now)
  <2>1. CASE i = b - a + 1
    BY <1>1, <2>1
  <2>2. CASE i # b - a + 1
    <3>1. i \in 1 .. b - a /\ a + i \in 1 .. Len(h) /\ a + i \in a + 1 .. b
      BY <1>1, <2>2
    <3> QED BY <1>1, <3>1
  <2> QED BY <2>1, <2>2
<1>4. ASSUME Listed(h, all) PROVE Listed(g, NextLog(all, rate, now))
  <2>1. \A i \in 1 .. Len(g) : g[i] \in {x \in all : ~Expired(x, now)} \cup {entry}
    BY <1>3, <1>4 DEF Listed
  <2> QED BY <2>1 DEF Listed, NextLog, entry
<1>5. ASSUME AtLeast(h, lo) PROVE AtLeast(g, lo)
  BY <1>2, <1>3, <1>5 DEF AtLeast
<1> QED BY <1>4, <1>5

LEMMA UndercutsFollows ==
    ASSUME NEW now \in Nat, NEW h \in Seq(Entries), Len(h) < HistorySize, NEW rate \in Nat,
           NEW a \in Nat, NEW b \in Nat, NEW g, Follows(g, h, a, b, rate, now),
           NEW all, all \subseteq Entries, \A x \in all : x.ts <= now, Undercuts(h, all)
    PROVE  Undercuts(g, NextLog(all, rate, now))
<1> DEFINE entry == [ts |-> now, rate |-> rate]
<1>1. /\ a <= b /\ b <= Len(h) /\ Len(h) \in Nat /\ Len(g) = b - a + 1
      /\ \A i \in 1 .. b - a : g[i] = h[a + i]
      /\ g[b - a + 1] = entry
      /\ \A i \in b + 1 .. Len(h) : rate <= h[i].rate
      /\ \A i \in 1 .. a : Expired(h[i], now)
  BY DEF Follows
<1>2. entry.rate = rate /\ entry.ts = now
  OBVIOUS
<1> HIDE DEF entry
<1>3. b - a + 1 \in 1 .. Len(g)
  BY <1>1
<1>4. ASSUME NEW x \in all, ~Expired(x, now)
      PROVE  \E i \in 1 .. Len(g) : g[i].rate <= x.rate /\ x.ts <= g[i].ts
  <2>1. x.ts \in Nat /\ x.rate \in Nat /\ x.ts <= now
    BY DEF Entries
  <2>2. PICK i \in 1 .. Len(h) : h[i].rate <= x.rate /\ x.ts <= h[i].ts
    BY DEF Undercuts
  <2>3. h[i].ts \in Nat /\ h[i].rate \in Nat /\ i \in Nat
    BY <2>2, EntryIs
  <2>4. ~Expired(h[i], now)
    <3>1. IncreaseInterval \in Nat
      BY EstimationAssumption
    <3>2. ~ (x.ts + IncreaseInterval < now)
      BY <1>4 DEF Expired
    <3>3. ~ (h[i].ts + IncreaseInterval < now)
      BY <2>1, <2>2, <2>3, <3>1, <3>2
    <3> QED BY <3>3 DEF Expired
  <2>5. a < i
    BY <1>1, <2>2, <2>3, <2>4
  <2>6. CASE i <= b
    <3>1. i - a \in 1 .. b - a /\ a + (i - a) = i /\ i - a \in 1 .. Len(g)
      BY <1>1, <2>3, <2>5, <2>6
    <3>2. g[i - a] = h[i]
      BY <1>1, <3>1
    <3> QED BY <2>2, <3>1, <3>2
  <2>7. CASE ~ (i <= b)
    <3>1. i \in b + 1 .. Len(h)
      BY <2>2, <2>3, <2>7
    <3>2. rate <= h[i].rate
      BY <1>1, <3>1
    <3>3. rate <= x.rate
      BY <2>1, <2>2, <2>3, <3>2
    <3> QED BY <1>1, <1>2, <1>3, <2>1, <3>3
  <2> QED BY <2>6, <2>7
<1>5. entry.rate <= entry.rate /\ entry.ts <= entry.ts
  BY <1>2
<1>6. \A x \in {y \in all : ~Expired(y, now)} \cup {entry} :
          \E i \in 1 .. Len(g) : g[i].rate <= x.rate /\ x.ts <= g[i].ts
  BY <1>1, <1>3, <1>4, <1>5
<1> QED BY <1>6 DEF Undercuts, NextLog, entry

(***************************************************************************)
(* What an update makes of an estimation.                                  *)
(***************************************************************************)

\* The rate cap_bitrate_to_threshold sets.
Bounded(e, rate) == Greatest(Least(Below(e.delay, Below(e.remb, rate)), e.hi), e.lo)

Limits(e) == e.lo \in Nat /\ e.hi \in Nat /\ e.remb \in Nat /\ e.delay \in Nat /\ e.lo <= e.hi

\* The rate is within the limits and the estimates.
Within(e, rate) ==
    /\ rate \in Nat /\ e.lo <= rate /\ rate <= e.hi
    /\ e.remb > 0 => rate <= Greatest(e.remb, e.lo)
    /\ e.delay > 0 => rate <= Greatest(e.delay, e.lo)

SameLimits(e, f) == f.lo = e.lo /\ f.hi = e.hi /\ f.remb = e.remb /\ f.delay = e.delay

\* What an update leaves alone, and what it does but for a cut and a timeout.
Kept(e, f) ==
    /\ DOMAIN f = Fields /\ SameLimits(e, f) /\ f.loss = e.loss /\ f.rtt = e.rtt
    /\ f.firstTs = e.firstTs /\ f.feedbackTs = e.feedbackTs /\ f.reportTs = e.reportTs
NotCut(e, f)  == f.decreased = e.decreased /\ f.decreaseTs = e.decreaseTs
NotSilent(e, f) == f.timeoutTs = e.timeoutTs /\ f.lostQ8 = e.lostQ8 /\ f.expected = e.expected

\* The ways in which an update changes the rate.
Jumped(e, f, now) == Jumps(e, now) /\ f.rate = Bounded(e, Estimates(e))
Held(e, f, now)   == ~Jumps(e, now) /\ f.rate = Bounded(e, e.rate)
Lifted(e, f, now) ==
    ~Jumps(e, now) /\ e.loss < LowLoss /\ f.rate = Bounded(e, Raised(f.history[1].rate))
CutDown(e, f, now) ==
    /\ ~Jumps(e, now) /\ MayCut(e, now) /\ f.rate = Bounded(e, Cut(e.rate, e.loss))
    /\ f.decreased = TRUE /\ f.decreaseTs = now
Waned(e, f, now) ==
    /\ ~Jumps(e, now) /\ Silent(e, now) /\ f.rate = Bounded(e, (e.rate * 4) \div 5)
    /\ f.timeoutTs = now /\ f.lostQ8 = 0 /\ f.expected = 0

LEMMA BoundedIs ==
    ASSUME NEW e, Limits(e), NEW rate \in Nat
    PROVE  /\ Within(e, Bounded(e, rate))
           /\ Bounded(e, rate) = Least(Greatest(rate, e.lo), Bounded(e, e.hi))
BY DEF Limits, Within, Bounded, Greatest, Least, Below

LEMMA BoundedKeeps ==
    ASSUME NEW e, NEW f, SameLimits(e, f)
    PROVE  /\ \A rate : Bounded(f, rate) = Bounded(e, rate)
           /\ Limits(e) => Limits(f)
           /\ \A rate : Within(e, rate) => Within(f, rate)
BY DEF SameLimits, Bounded, Limits, Within

LEMMA CapIs ==
    ASSUME NEW e, DOMAIN e = Fields, NEW rate, NEW f, f = Cap(e, rate)
    PROVE  /\ DOMAIN f = Fields /\ f.rate = Bounded(e, rate) /\ Kept(e, f)
           /\ NotCut(e, f) /\ NotSilent(e, f) /\ f.history = e.history
BY FieldsAre DEF Cap, Bounded, Kept, SameLimits, NotCut, NotSilent

LEMMA CeilingIs ==
    ASSUME NEW e, DOMAIN e = Fields PROVE Ceiling(e) = Bounded(e, e.hi)
BY CapIs DEF Ceiling

LEMMA RememberIs ==
    ASSUME NEW e, DOMAIN e = Fields, NEW now, NEW f, f = Remember(e, now)
    PROVE  /\ Kept(e, f) /\ NotCut(e, f) /\ NotSilent(e, f) /\ f.rate = e.rate
           /\ f.history = NextHistory(e.history, e.rate, now)
<1>1. f = [e EXCEPT !.history = NextHistory(e.history, e.rate, now)]
  BY FieldsAre DEF Remember, NextHistory
<1> QED BY <1>1, FieldsAre DEF Kept, SameLimits, NotCut, NotSilent

LEMMA KeptTwice ==
    ASSUME NEW e, NEW f, Kept(e, f), NEW g, Kept(f, g)
    PROVE  Kept(e, g)
BY DEF Kept, SameLimits

LEMMA UpdateDoes ==
    ASSUME NEW e, DOMAIN e = Fields, NEW now, NEW f, f = Update(e, now)
    PROVE  /\ Kept(e, f)
           /\ f.history = IF Jumps(e, now) THEN <<[ts |-> now, rate |-> e.rate]>>
                          ELSE NextHistory(e.history, e.rate, now)
           /\ \/ Jumped(e, f, now) /\ NotCut(e, f) /\ NotSilent(e, f)
              \/ Held(e, f, now) /\ NotCut(e, f) /\ NotSilent(e, f)
              \/ Lifted(e, f, now) /\ NotCut(e, f) /\ NotSilent(e, f)
              \/ CutDown(e, f, now) /\ NotSilent(e, f)
              \/ Waned(e, f, now) /\ NotCut(e, f)
<1>1. CASE Jumps(e, now)
  <2> DEFINE g == [e EXCEPT !.history = <<[ts |-> now, rate |-> e.rate]>>]
  <2>1. /\ DOMAIN g = Fields /\ Kept(e, g) /\ NotCut(e, g) /\ NotSilent(e, g)
        /\ g.history = <<[ts |-> now, rate |-> e.rate]>>
    BY FieldsAre DEF Kept, SameLimits, NotCut, NotSilent
  <2>2. f = Cap(g, Estimates(e))
    BY <1>1 DEF Update
  <2> HIDE DEF g
  <2>3. /\ f.rate = Bounded(g, Estimates(e)) /\ Kept(g, f) /\ NotCut(g, f) /\ NotSilent(g, f)
        /\ f.history = g.history
    BY <2>1, <2>2, CapIs
  <2>4. Bounded(g, Estimates(e)) = Bounded(e, Estimates(e))
    BY <2>1, BoundedKeeps DEF Kept
  <2>5. Kept(e, f)
    BY <2>1, <2>3, KeptTwice
  <2> QED BY <1>1, <2>1, <2>3, <2>4, <2>5 DEF Jumped, NotCut, NotSilent
<1>2. CASE ~Jumps(e, now)
  <2> DEFINE h == Remember(e, now)
  <2>1. /\ Kept(e, h) /\ NotCut(e, h) /\ NotSilent(e, h) /\ h.rate = e.rate
        /\ h.history = NextHistory(e.history, e.rate, now) /\ DOMAIN h = Fields
    BY RememberIs DEF Kept
  <2>2. f = IF h.reportTs = None THEN Cap(h, h.rate)
            ELSE IF Informed(h, now) THEN ByLoss(h, now) ELSE BySilence(h, now)
    BY <1>2 DEF Update
  <2> HIDE DEF h
  <2>3. \A rate : Bounded(h, rate) = Bounded(e, rate)
    BY <2>1, BoundedKeeps DEF Kept
  <2>4. ASSUME NEW rate, f = Cap(h, rate)
        PROVE  /\ Kept(e, f) /\ f.history = h.history /\ f.rate = Bounded(e, rate)
               /\ NotCut(e, f) /\ NotSilent(e, f)
    <3>1. /\ f.rate = Bounded(h, rate) /\ Kept(h, f) /\ NotCut(h, f) /\ NotSilent(h, f)
          /\ f.history = h.history
      BY <2>1, <2>4, CapIs
    <3>2. Kept(e, f)
      BY <2>1, <3>1, KeptTwice
    <3> QED BY <2>1, <2>3, <3>1, <3>2 DEF NotCut, NotSilent
  <2>5. CASE f = Cap(h, h.rate)
    BY <1>2, <2>1, <2>4, <2>5 DEF Held
  <2>6. CASE f = Cap(h, Raised(Base(h))) /\ h.loss < LowLoss
    <3>1. f.rate = Bounded(e, Raised(f.history[1].rate)) /\ e.loss < LowLoss
      BY <2>1, <2>4, <2>6 DEF Base, Kept
    <3> QED BY <1>2, <2>1, <2>4, <2>6, <3>1 DEF Lifted
  <2>7. CASE /\ f = Cap([h EXCEPT !.decreaseTs = now, !.decreased = TRUE], Cut(h.rate, h.loss))
             /\ MayCut(h, now)
    <3> DEFINE g == [h EXCEPT !.decreaseTs = now, !.decreased = TRUE]
    <3>1. /\ DOMAIN g = Fields /\ Kept(h, g) /\ NotSilent(h, g)
          /\ g.decreased = TRUE /\ g.decreaseTs = now /\ g.history = h.history
      BY <2>1, FieldsAre DEF Kept, SameLimits, NotSilent
    <3>0. f = Cap(g, Cut(h.rate, h.loss))
      BY <2>7
    <3> HIDE DEF g
    <3>2. /\ f.rate = Bounded(g, Cut(h.rate, h.loss)) /\ Kept(g, f) /\ NotCut(g, f) /\ NotSilent(g, f)
          /\ f.history = g.history
      BY <3>0, <3>1, CapIs
    <3>3. Kept(e, f)
      BY <2>1, <3>1, <3>2, KeptTwice
    <3>4. Bounded(g, Cut(h.rate, h.loss)) = Bounded(e, Cut(h.rate, h.loss))
      BY <2>3, <3>1, BoundedKeeps DEF Kept
    <3>5. MayCut(e, now) /\ h.loss = e.loss
      BY <2>1, <2>7 DEF MayCut, Kept, NotCut
    <3> QED BY <1>2, <2>1, <3>1, <3>2, <3>3, <3>4, <3>5 DEF CutDown, NotCut, NotSilent
  <2>8. CASE /\ f = Cap([h EXCEPT !.lostQ8 = 0, !.expected = 0, !.timeoutTs = now], (h.rate * 4) \div 5)
             /\ Silent(h, now)
    <3> DEFINE g == [h EXCEPT !.lostQ8 = 0, !.expected = 0, !.timeoutTs = now]
    <3>1. /\ DOMAIN g = Fields /\ Kept(h, g) /\ NotCut(h, g)
          /\ g.lostQ8 = 0 /\ g.expected = 0 /\ g.timeoutTs = now /\ g.history = h.history
      BY <2>1, FieldsAre DEF Kept, SameLimits, NotCut
    <3>0. f = Cap(g, (h.rate * 4) \div 5)
      BY <2>8
    <3> HIDE DEF g
    <3>2. /\ f.rate = Bounded(g, (h.rate * 4) \div 5) /\ Kept(g, f) /\ NotCut(g, f) /\ NotSilent(g, f)
          /\ f.history = g.history
      BY <3>0, <3>1, CapIs
    <3>3. Kept(e, f)
      BY <2>1, <3>1, <3>2, KeptTwice
    <3>4. Bounded(g, (h.rate * 4) \div 5) = Bounded(e, (h.rate * 4) \div 5)
      BY <2>3, <3>1, BoundedKeeps DEF Kept
    <3>5. Silent(e, now)
      BY <2>1, <2>8 DEF Silent, Kept, NotSilent
    <3> QED BY <1>2, <2>1, <3>1, <3>2, <3>3, <3>4, <3>5 DEF Waned, NotCut, NotSilent
  <2>9. \/ f = Cap(h, h.rate)
        \/ f = Cap(h, Raised(Base(h))) /\ h.loss < LowLoss
        \/ /\ f = Cap([h EXCEPT !.decreaseTs = now, !.decreased = TRUE], Cut(h.rate, h.loss))
           /\ MayCut(h, now)
        \/ /\ f = Cap([h EXCEPT !.lostQ8 = 0, !.expected = 0, !.timeoutTs = now], (h.rate * 4) \div 5)
           /\ Silent(h, now)
    <3>1. CASE h.reportTs = None
      BY <2>2, <3>1
    <3>2. CASE h.reportTs # None /\ Informed(h, now)
      <4>1. f = ByLoss(h, now)
        BY <2>2, <3>2
      <4>2. CASE h.loss < LowLoss
        BY <4>1, <4>2 DEF ByLoss
      <4>3. CASE ~ (h.loss < LowLoss) /\ MayCut(h, now)
        BY <4>1, <4>3 DEF ByLoss
      <4>4. CASE ~ (h.loss < LowLoss) /\ ~MayCut(h, now)
        BY <4>1, <4>4 DEF ByLoss
      <4> QED BY <4>2, <4>3, <4>4
    <3>3. CASE h.reportTs # None /\ ~Informed(h, now)
      <4>1. f = BySilence(h, now)
        BY <2>2, <3>3
      <4> QED BY <4>1 DEF BySilence
    <3> QED BY <3>1, <3>2, <3>3
  <2> QED BY <2>5, <2>6, <2>7, <2>8, <2>9
<1> QED BY <1>1, <1>2

\* An estimation as the calls leave it behind: its numbers, what reports have added up to,
\* and its queue.
Proper(e) ==
    /\ DOMAIN e = Fields /\ Limits(e) /\ e.lo <= MaxBitrate /\ Within(e, e.rate)
    /\ e.loss \in 0 .. 255 /\ e.rtt \in Nat /\ e.decreased \in BOOLEAN
    /\ e.firstTs \in Times /\ e.feedbackTs \in Times /\ e.reportTs \in Times
    /\ e.timeoutTs \in Times /\ e.decreaseTs \in Times
Counted(e) ==
    /\ e.expected \in Nat /\ e.expected < LimitPackets
    /\ e.lostQ8 \in Nat /\ e.lostQ8 <= 255 * e.expected
Queued(e, now) ==
    Sorted(e.history, now) /\ Len(e.history) <= HistorySize /\ AtLeast(e.history, e.lo)

LEMMA SizesAre ==
    /\ HistorySize \in Nat \ {0} /\ LimitPackets \in Nat \ {0} /\ Word \in Nat \ {0}
    /\ RaiseStep \in Nat /\ MaxBitrate \in Nat /\ MaxClock \in Nat /\ IncreaseInterval \in Nat
    /\ EstMin \in Nat /\ EstMax \in Nat
    /\ LowLoss \in 0 .. 256 /\ HighLoss \in 0 .. 256 /\ LowLoss <= HighLoss
BY EstimationAssumption, RateAssumption

\* A raise is by 8 % and RaiseStep, so that it keeps an order.
LEMMA RaisedIs ==
    ASSUME NEW x \in Nat, NEW y \in Nat
    PROVE  /\ Raised(x) \in Nat /\ x <= Raised(x)
           /\ x <= y => Raised(x) <= Raised(y)
<1>1. \A a \in Nat : (a * 108 + 50) \div 100 \in Nat /\ a <= (a * 108 + 50) \div 100
  OBVIOUS
<1>2. x <= y => (x * 108 + 50) \div 100 <= (y * 108 + 50) \div 100
  OBVIOUS
<1> QED BY <1>1, <1>2, SizesAre DEF Raised

\* A loss cuts a rate to a half at most, if the product does not exceed a word.
LEMMA CutIs ==
    ASSUME NEW x \in Nat, NEW loss \in 0 .. 255
    PROVE  /\ Cut(x, loss) \in Nat /\ Cut(x, loss) <= x
           /\ 512 * x < Word => 2 * (Cut(x, loss) + 1) > x
<1> DEFINE p == x * (512 - loss)
           q == p % Word
<1>1. p \in Nat /\ p <= 512 * x /\ 257 * x <= p
  <2>1. p = 512 * x - x * loss /\ p = 257 * x + x * (255 - loss)
    OBVIOUS
  <2>2. \A a, b \in Nat : a * b \in Nat
    OBVIOUS
  <2>3. x * loss \in Nat /\ x * (255 - loss) \in Nat
    BY <2>2
  <2> HIDE DEF p
  <2> QED BY <2>1, <2>3
<1> HIDE DEF p
<1>2. q \in Nat /\ q <= p
  BY <1>1, SizesAre
<1>3. 512 * x < Word => q = p
  BY <1>1, SizesAre
<1> HIDE DEF q
<1>4. Cut(x, loss) = q \div 512
  BY DEF Cut, q, p
<1>5. q \div 512 \in Nat /\ 512 * (q \div 512) <= q /\ q < 512 * (q \div 512) + 512
  BY <1>2
<1> DEFINE c == q \div 512
<1> HIDE DEF c
<1>6. c \in Nat /\ 512 * c <= q /\ q < 512 * c + 512
  BY <1>5 DEF c
<1>7. c <= x
  BY <1>1, <1>2, <1>6
<1>8. q = p => 2 * (c + 1) > x
  BY <1>1, <1>2, <1>6
<1> QED BY <1>3, <1>4, <1>6, <1>7, <1>8 DEF c

LEMMA WaneIs ==
    ASSUME NEW x \in Nat
    PROVE  (x * 4) \div 5 \in Nat /\ (x * 4) \div 5 <= x /\ 5 * ((x * 4) \div 5 + 1) > 4 * x
OBVIOUS

LEMMA EstimatesAre ==
    ASSUME NEW e, Limits(e), e.rate \in Nat
    PROVE  /\ Estimates(e) \in Nat /\ e.rate <= Estimates(e)
           /\ Estimates(e) = e.rate \/ Estimates(e) = Greatest(e.remb, e.delay)
BY DEF Limits, Estimates, Greatest

\* The queue after an update, with its new head.
LEMMA UpdateQueues ==
    ASSUME NEW e, Proper(e), NEW now \in Nat, Queued(e, now), NEW f, f = Update(e, now)
    PROVE  /\ Queued(f, now) /\ Len(f.history) > 0
           /\ 1 \in 1 .. Len(f.history) /\ f.history[1].rate \in Nat /\ e.lo <= f.history[1].rate
<1>1. /\ DOMAIN e = Fields /\ e.lo \in Nat /\ e.rate \in Nat /\ e.lo <= e.rate
  BY DEF Proper, Limits, Within
<1>2. f.lo = e.lo
  BY <1>1, UpdateDoes DEF Kept, SameLimits
<1>3. Queued(f, now) /\ Len(f.history) > 0
  <2>1. CASE Jumps(e, now)
    <3> DEFINE entry == [ts |-> now, rate |-> e.rate]
    <3>1. f.history = <<entry>>
      BY <1>1, <2>1, UpdateDoes
    <3>2. entry \in Entries /\ entry.ts = now /\ entry.rate = e.rate
      BY <1>1 DEF Entries
    <3> HIDE DEF entry
    <3>3. f.history \in Seq(Entries) /\ Len(f.history) = 1 /\ f.history[1] = entry
      BY <3>1, <3>2
    <3>4. Sorted(f.history, now)
      BY <3>2, <3>3 DEF Sorted
    <3>5. AtLeast(f.history, f.lo)
      BY <1>1, <1>2, <3>2, <3>3 DEF AtLeast
    <3> QED BY <3>3, <3>4, <3>5, SizesAre DEF Queued
  <2>2. CASE ~Jumps(e, now)
    <3>1. f.history = NextHistory(e.history, e.rate, now)
      BY <1>1, <2>2, UpdateDoes
    <3>2. Sorted(e.history, now) /\ Len(e.history) <= HistorySize /\ AtLeast(e.history, e.lo)
      BY DEF Queued
    <3> DEFINE h == e.history
               r == e.rate
    <3> HIDE DEF h, r
    <3>a. Sorted(h, now) /\ Len(h) <= HistorySize /\ r \in Nat /\ h = e.history /\ r = e.rate
      BY <1>1, <3>2 DEF h, r
    <3>b. \E a, b \in Nat : Follows(NextHistory(h, r, now), h, a, b, r, now)
      BY <3>a, HistoryFollows
    <3>3. PICK a \in Nat, b \in Nat : Follows(f.history, e.history, a, b, e.rate, now)
      BY <3>1, <3>a, <3>b
    <3>4. Sorted(f.history, now)
      BY <1>1, <3>2, <3>3, SortedFollows
    <3>5. e.history \in Seq(Entries)
      BY <3>2 DEF Sorted
    <3>6. AtLeast(f.history, f.lo)
      BY <1>1, <1>2, <3>2, <3>3, <3>5, ListedFollows
    <3>7. Len(f.history) <= HistorySize /\ Len(f.history) = b - a + 1 /\ a \in 0 .. b
      BY <3>3 DEF Follows
    <3> QED BY <3>4, <3>6, <3>7 DEF Queued
  <2> QED BY <2>1, <2>2
<1>4. f.history \in Seq(Entries) /\ Len(f.history) \in Nat
  BY <1>3 DEF Queued, Sorted
<1>5. 1 \in 1 .. Len(f.history)
  BY <1>3, <1>4
<1>6. f.history[1].rate \in Nat /\ e.lo <= f.history[1].rate
  BY <1>2, <1>3, <1>4, <1>5, EntryIs DEF Queued, AtLeast
<1> QED BY <1>3, <1>5, <1>6

LEMMA UpdateKeepsProper ==
    ASSUME NEW e, Proper(e), NEW now \in 0 .. MaxClock, Queued(e, now), NEW f, f = Update(e, now)
    PROVE  /\ Proper(f) /\ Within(e, f.rate) /\ SameLimits(e, f)
           /\ Counted(e) => Counted(f)
<1>1. /\ DOMAIN e = Fields /\ Limits(e) /\ e.rate \in Nat /\ e.loss \in 0 .. 255
  BY DEF Proper, Within
<1>2. now \in Nat /\ now \in Times
  BY SizesAre DEF Times, None
<1>3. \E rate \in Nat : f.rate = Bounded(e, rate)
  <2>1. f.history[1].rate \in Nat
    BY <1>2, UpdateQueues
  <2>2. /\ Estimates(e) \in Nat /\ Raised(f.history[1].rate) \in Nat
        /\ Cut(e.rate, e.loss) \in Nat /\ (e.rate * 4) \div 5 \in Nat
    BY <1>1, <2>1, EstimatesAre, RaisedIs, CutIs, WaneIs
  <2>3. \/ f.rate = Bounded(e, Estimates(e)) \/ f.rate = Bounded(e, e.rate)
        \/ f.rate = Bounded(e, Raised(f.history[1].rate))
        \/ f.rate = Bounded(e, Cut(e.rate, e.loss))
        \/ f.rate = Bounded(e, (e.rate * 4) \div 5)
    BY <1>1, UpdateDoes DEF Jumped, Held, Lifted, CutDown, Waned
  <2> QED BY <1>1, <2>2, <2>3
<1>4. Within(e, f.rate)
  BY <1>1, <1>3, BoundedIs
<1>5. Kept(e, f)
  BY <1>1, UpdateDoes
<1>6. Limits(f) /\ Within(f, f.rate) /\ SameLimits(e, f)
  BY <1>1, <1>4, <1>5, BoundedKeeps DEF Kept
<1>7. /\ f.decreased \in BOOLEAN /\ f.decreaseTs \in Times /\ f.timeoutTs \in Times
      /\ Counted(e) => Counted(f)
  <2>1. CASE NotCut(e, f) /\ NotSilent(e, f)
    BY <2>1 DEF NotCut, NotSilent, Proper, Counted
  <2>2. CASE CutDown(e, f, now) /\ NotSilent(e, f)
    BY <1>2, <2>2 DEF CutDown, NotSilent, Proper, Counted
  <2>3. CASE Waned(e, f, now) /\ NotCut(e, f)
    BY <1>2, <2>3, SizesAre DEF Waned, NotCut, Proper, Counted
  <2> QED BY <1>1, <2>1, <2>2, <2>3, UpdateDoes
<1>8. /\ DOMAIN f = Fields /\ f.lo <= MaxBitrate /\ f.loss \in 0 .. 255 /\ f.rtt \in Nat
      /\ f.firstTs \in Times /\ f.feedbackTs \in Times /\ f.reportTs \in Times
  BY <1>5 DEF Kept, SameLimits, Proper
<1> QED BY <1>4, <1>6, <1>7, <1>8 DEF Proper

(***************************************************************************)
(* The calls of the controller, from an estimation to the next.            *)
(***************************************************************************)

\* The limits that are set go with the highest rate there is.
LimitsFit == EstMin <= MaxBitrate /\ \A s \in Settings \cup {Defaults} : s.min <= MaxBitrate

\* An estimation whose rate and upper limit are yet to be set.
Basic(e) ==
    /\ DOMAIN e = Fields /\ e.lo \in Nat /\ e.lo <= MaxBitrate
    /\ e.remb \in Nat /\ e.delay \in Nat
    /\ e.loss \in 0 .. 255 /\ e.rtt \in Nat /\ e.decreased \in BOOLEAN
    /\ e.firstTs \in Times /\ e.feedbackTs \in Times /\ e.reportTs \in Times
    /\ e.timeoutTs \in Times /\ e.decreaseTs \in Times

LEMMA SettingIs ==
    ASSUME LimitsFit, NEW s \in Settings \cup {Defaults}
    PROVE  /\ s.min \in Nat /\ s.start \in Nat /\ s.max \in Nat /\ s.min <= MaxBitrate
           /\ Clamp(s) \in Nat
<1>1. s \in [min : Nat, start : Nat, max : Nat]
  BY RateAssumption
<1>2. s.min \in Nat /\ s.start \in Nat /\ s.max \in Nat
  BY <1>1
<1>3. s.min <= MaxBitrate
  BY DEF LimitsFit
<1> QED BY <1>2, <1>3 DEF Clamp, Least, Greatest

LEMMA ConfiguredIs ==
    ASSUME LimitsFit, NEW s \in Settings \cup {Defaults}, NEW e, Basic(e), NEW f, f = Configured(e, s)
    PROVE  /\ Proper(f) /\ f.history = <<>> /\ f.decreased = e.decreased
           /\ f.expected = e.expected /\ f.lostQ8 = e.lostQ8
<1> DEFINE g == SetMinMax(e, s.min, s.max)
           c == Cap(g, Clamp(s))
<1>1. /\ s.min \in Nat /\ s.max \in Nat /\ s.min <= MaxBitrate /\ Clamp(s) \in Nat
      /\ MaxBitrate \in Nat
  BY SettingIs, SizesAre
<1>2. DOMAIN e = Fields /\ e.lo \in Nat /\ e.lo <= MaxBitrate
  BY DEF Basic
<1>3. /\ DOMAIN g = Fields /\ g.lo = Greatest(e.lo, s.min)
      /\ g.hi = IF s.max > 0 THEN Greatest(g.lo, s.max) ELSE MaxBitrate
      /\ g.remb = e.remb /\ g.delay = e.delay /\ g.loss = e.loss /\ g.rtt = e.rtt
      /\ g.decreased = e.decreased /\ g.decreaseTs = e.decreaseTs
      /\ g.firstTs = e.firstTs /\ g.feedbackTs = e.feedbackTs /\ g.reportTs = e.reportTs
      /\ g.timeoutTs = e.timeoutTs /\ g.expected = e.expected /\ g.lostQ8 = e.lostQ8
  BY <1>2, FieldsAre DEF SetMinMax
<1>4. f = [c EXCEPT !.history = <<>>]
  BY DEF Configured, SetSendRate
<1> HIDE DEF g
<1>5. g.lo \in Nat /\ g.lo <= MaxBitrate /\ g.hi \in Nat /\ g.lo <= g.hi
  BY <1>1, <1>2, <1>3 DEF Greatest
<1>6. Limits(g)
  BY <1>3, <1>5 DEF Limits, Basic
<1>7. /\ DOMAIN c = Fields /\ c.rate = Bounded(g, Clamp(s)) /\ Kept(g, c)
      /\ NotCut(g, c) /\ NotSilent(g, c)
  BY <1>3, CapIs
<1> HIDE DEF c
<1>8. /\ DOMAIN f = Fields /\ f.history = <<>> /\ f.rate = c.rate /\ Kept(g, f)
      /\ NotCut(g, f) /\ NotSilent(g, f)
  BY <1>4, <1>7, FieldsAre DEF Kept, SameLimits, NotCut, NotSilent
<1>9. Within(g, f.rate)
  BY <1>1, <1>6, <1>7, <1>8, BoundedIs
<1>10. Limits(f) /\ Within(f, f.rate)
  BY <1>6, <1>8, <1>9, BoundedKeeps DEF Kept
<1> QED BY <1>3, <1>5, <1>8, <1>10 DEF Proper, Basic, Kept, SameLimits, NotCut, NotSilent

\* What the two estimates leave alone.
OnlyBound(e, f) ==
    /\ DOMAIN f = Fields /\ f.lo = e.lo /\ f.hi = e.hi /\ f.loss = e.loss /\ f.rtt = e.rtt
    /\ f.firstTs = e.firstTs /\ f.feedbackTs = e.feedbackTs /\ f.reportTs = e.reportTs
    /\ NotCut(e, f) /\ NotSilent(e, f) /\ f.history = e.history

LEMMA OfferedIs ==
    ASSUME NEW e, Proper(e), NEW bound \in Nat, NEW f, f = Offered(e, bound)
    PROVE  /\ Proper(f) /\ OnlyBound(e, f) /\ f.remb = e.remb
           /\ f.delay = IF bound = 0 THEN e.delay ELSE bound
           /\ f.rate = IF bound = 0 THEN e.rate ELSE Least(e.rate, Greatest(bound, e.lo))
<1> DEFINE g == [e EXCEPT !.delay = bound]
<1>1. DOMAIN e = Fields /\ Limits(e) /\ Within(e, e.rate) /\ e.rate \in Nat
  BY DEF Proper, Within
<1>2. CASE bound = 0
  BY <1>1, <1>2 DEF Offered, OnlyBound, NotCut, NotSilent
<1>3. CASE bound # 0
  <2>1. f = Cap(g, e.rate)
    BY <1>3 DEF Offered, UpdateDelay
  <2>2. /\ DOMAIN g = Fields /\ g.delay = bound /\ g.remb = e.remb /\ OnlyBound(e, g)
    BY <1>1, FieldsAre DEF OnlyBound, NotCut, NotSilent
  <2> HIDE DEF g
  <2>3. Limits(g)
    BY <1>1, <2>2 DEF Limits, OnlyBound
  <2>4. /\ DOMAIN f = Fields /\ f.rate = Bounded(g, e.rate) /\ Kept(g, f)
        /\ NotCut(g, f) /\ NotSilent(g, f) /\ f.history = g.history
    BY <2>1, <2>2, CapIs
  <2>5. OnlyBound(e, f) /\ f.delay = bound /\ f.remb = e.remb
    BY <2>2, <2>4 DEF OnlyBound, Kept, SameLimits, NotCut, NotSilent
  <2>6. Within(g, f.rate)
    BY <1>1, <2>3, <2>4, BoundedIs
  <2>7. Limits(f) /\ Within(f, f.rate)
    BY <2>3, <2>4, <2>6, BoundedKeeps DEF Kept
  <2>8. Proper(f)
    BY <2>5, <2>7 DEF Proper, OnlyBound, NotCut, NotSilent
  <2>9. f.rate = Least(e.rate, Greatest(bound, e.lo))
    <3>1. g.lo = e.lo /\ g.hi = e.hi
      BY <2>2 DEF OnlyBound
    <3> QED BY <1>1, <1>3, <2>2, <2>4, <3>1 DEF Bounded, Below, Within, Limits, Least, Greatest
  <2> QED BY <1>3, <2>5, <2>8, <2>9
<1> QED BY <1>2, <1>3

LEMMA EstimatedIs ==
    ASSUME NEW e, Proper(e), NEW bound \in Nat, NEW f, f = Estimated(e, bound)
    PROVE  /\ Proper(f) /\ OnlyBound(e, f) /\ f.delay = e.delay
           /\ f.remb = IF bound = 0 THEN e.remb ELSE bound
           /\ f.rate = IF bound = 0 THEN e.rate ELSE Least(e.rate, Greatest(bound, e.lo))
<1> DEFINE g == [e EXCEPT !.remb = bound]
<1>1. DOMAIN e = Fields /\ Limits(e) /\ Within(e, e.rate) /\ e.rate \in Nat
  BY DEF Proper, Within
<1>2. CASE bound = 0
  BY <1>1, <1>2 DEF Estimated, OnlyBound, NotCut, NotSilent
<1>3. CASE bound # 0
  <2>1. f = Cap(g, e.rate)
    BY <1>3 DEF Estimated, UpdateRemb
  <2>2. /\ DOMAIN g = Fields /\ g.remb = bound /\ g.delay = e.delay /\ OnlyBound(e, g)
    BY <1>1, FieldsAre DEF OnlyBound, NotCut, NotSilent
  <2> HIDE DEF g
  <2>3. Limits(g)
    BY <1>1, <2>2 DEF Limits, OnlyBound
  <2>4. /\ DOMAIN f = Fields /\ f.rate = Bounded(g, e.rate) /\ Kept(g, f)
        /\ NotCut(g, f) /\ NotSilent(g, f) /\ f.history = g.history
    BY <2>1, <2>2, CapIs
  <2>5. OnlyBound(e, f) /\ f.remb = bound /\ f.delay = e.delay
    BY <2>2, <2>4 DEF OnlyBound, Kept, SameLimits, NotCut, NotSilent
  <2>6. Within(g, f.rate)
    BY <1>1, <2>3, <2>4, BoundedIs
  <2>7. Limits(f) /\ Within(f, f.rate)
    BY <2>3, <2>4, <2>6, BoundedKeeps DEF Kept
  <2>8. Proper(f)
    BY <2>5, <2>7 DEF Proper, OnlyBound, NotCut, NotSilent
  <2>9. f.rate = Least(e.rate, Greatest(bound, e.lo))
    <3>1. g.lo = e.lo /\ g.hi = e.hi
      BY <2>2 DEF OnlyBound
    <3> QED BY <1>1, <1>3, <2>2, <2>4, <3>1 DEF Bounded, Below, Within, Limits, Least, Greatest
  <2> QED BY <1>3, <2>5, <2>8, <2>9
<1> QED BY <1>2, <1>3

\* After both estimates the rate is what it was, or the highest they admit.
LEMMA BothAre ==
    ASSUME NEW e, Proper(e), NEW delay \in Nat, NEW remb \in Nat,
           NEW f, f = Estimated(Offered(e, delay), remb)
    PROVE  /\ Proper(f) /\ OnlyBound(e, f)
           /\ f.rate <= e.rate /\ f.rate = Least(e.rate, Bounded(f, f.hi))
<1> DEFINE o == Offered(e, delay)
<1>1. /\ Proper(o) /\ OnlyBound(e, o) /\ o.remb = e.remb
      /\ o.delay = IF delay = 0 THEN e.delay ELSE delay
      /\ o.rate = IF delay = 0 THEN e.rate ELSE Least(e.rate, Greatest(delay, e.lo))
  BY OfferedIs
<1>2. f = Estimated(o, remb)
  OBVIOUS
<1> HIDE DEF o
<1>3. /\ Proper(f) /\ OnlyBound(o, f) /\ f.delay = o.delay
      /\ f.remb = IF remb = 0 THEN o.remb ELSE remb
      /\ f.rate = IF remb = 0 THEN o.rate ELSE Least(o.rate, Greatest(remb, o.lo))
  BY <1>1, <1>2, EstimatedIs
<1>4. OnlyBound(e, f)
  BY <1>1, <1>3 DEF OnlyBound, NotCut, NotSilent
<1>5. o.lo = e.lo /\ f.lo = e.lo /\ f.hi = e.hi
  BY <1>1, <1>4 DEF OnlyBound
<1>6. /\ e.lo \in Nat /\ e.hi \in Nat /\ e.lo <= e.rate /\ e.rate <= e.hi /\ e.rate \in Nat
      /\ e.remb \in Nat /\ e.delay \in Nat
      /\ e.remb > 0 => e.rate <= Greatest(e.remb, e.lo)
      /\ e.delay > 0 => e.rate <= Greatest(e.delay, e.lo)
  BY DEF Proper, Limits, Within
<1>7. f.rate <= e.rate
  BY <1>1, <1>3, <1>5, <1>6 DEF Least, Greatest
<1> DEFINE d == f.delay
           r == f.remb
           top == Bounded(f, f.hi)
<1>8. d \in Nat /\ r \in Nat
  BY <1>3 DEF Proper, Limits
<1>9. top = Greatest(Least(Below(d, Below(r, e.hi)), e.hi), e.lo)
  BY <1>5 DEF Bounded
<1>10. o.rate = IF delay = 0 THEN e.rate ELSE Least(e.rate, Greatest(d, e.lo))
  BY <1>1, <1>3
<1>11. f.rate = IF remb = 0 THEN o.rate ELSE Least(o.rate, Greatest(r, e.lo))
  BY <1>3, <1>5
<1>12. (delay = 0 => d = e.delay) /\ (delay # 0 => d > 0) /\ (remb = 0 => r = e.remb) /\ (remb # 0 => r > 0)
  BY <1>1, <1>3, <1>8
<1> HIDE DEF d, r, top
<1>13. f.rate = Least(e.rate, top)
  BY <1>6, <1>8, <1>9, <1>10, <1>11, <1>12 DEF Below, Least, Greatest
<1> QED BY <1>3, <1>4, <1>7, <1>13 DEF top

\* The reports a feedback may bring.
LEMMA InputsAre ==
    ASSUME NEW delay \in Offers \cup {0}, NEW remb \in Rembs \cup {0},
           NEW r \in Reports \cup {NoReport}, NEW rtt \in Rtts
    PROVE  /\ delay \in Nat /\ remb \in Nat /\ rtt \in Nat
           /\ r # NoReport => r.loss \in 0 .. 255 /\ r.packets \in Nat \ {0}
<1>1. Offers \subseteq Nat /\ Rembs \subseteq Nat /\ Rtts \subseteq Nat
      /\ Counts \subseteq Nat \ {0} /\ Losses \subseteq 0 .. 255
  BY RateAssumption
<1>2. \A x \in Reports : x.loss \in Losses /\ x.packets \in Counts
  BY DEF Reports
<1>3. r # NoReport => r.loss \in Losses /\ r.packets \in Counts
  BY <1>2
<1>4. r # NoReport => r.loss \in 0 .. 255
  BY <1>1, <1>3
<1>5. r # NoReport => r.packets \in Nat \ {0}
  BY <1>1, <1>3
<1>6. delay \in Nat /\ remb \in Nat /\ rtt \in Nat
  BY <1>1
<1> QED BY <1>4, <1>5, <1>6

\* What reports have added up to, when they cover a packet.
Covers(e) == e.expected \in Nat \ {0} /\ e.lostQ8 \in Nat /\ e.lostQ8 <= 255 * e.expected

LEMMA HeardIs ==
    ASSUME NEW e, Proper(e), Counted(e), NEW loss \in 0 .. 255, NEW rtt \in Nat,
           NEW packets \in Nat \ {0}, NEW now \in 0 .. MaxClock,
           NEW h, h = Heard(e, loss, rtt, packets, now)
    PROVE  /\ Proper(h) /\ SameLimits(e, h) /\ h.rate = e.rate /\ h.history = e.history
           /\ NotCut(e, h) /\ h.feedbackTs = now /\ Covers(h)
<1>1. DOMAIN e = Fields /\ e.rtt \in Nat /\ e.firstTs \in Times
  BY DEF Proper
<1>2. /\ DOMAIN h = Fields /\ SameLimits(e, h) /\ h.rate = e.rate /\ h.history = e.history
      /\ NotCut(e, h) /\ h.feedbackTs = now /\ h.loss = e.loss
      /\ h.firstTs = (IF e.firstTs = None THEN now ELSE e.firstTs)
      /\ h.rtt = (IF rtt > 0 THEN rtt ELSE e.rtt)
      /\ h.reportTs = e.reportTs /\ h.timeoutTs = e.timeoutTs
      /\ h.lostQ8 = e.lostQ8 + loss * packets /\ h.expected = e.expected + packets
  BY <1>1, FieldsAre DEF Heard, SameLimits, NotCut
<1>3. now \in Times
  BY SizesAre DEF Times, None
<1>4. Limits(h) /\ Within(h, h.rate)
  BY <1>2, BoundedKeeps DEF Proper
<1>5. Proper(h)
  BY <1>1, <1>2, <1>3, <1>4 DEF Proper, SameLimits, NotCut
<1>6. h.expected \in Nat \ {0} /\ h.lostQ8 \in Nat /\ h.lostQ8 <= 255 * h.expected
  <2> DEFINE a == e.lostQ8
             b == e.expected
             p == loss * packets
  <2>1. a \in Nat /\ b \in Nat /\ a <= 255 * b
    BY DEF Counted
  <2>2. p \in Nat /\ p <= 255 * packets
    <3>1. \A x, y \in Nat : x * y \in Nat
      OBVIOUS
    <3>2. (255 - loss) * packets \in Nat /\ loss * packets \in Nat
      BY <3>1
    <3>3. p = 255 * packets - (255 - loss) * packets
      OBVIOUS
    <3> QED BY <3>2, <3>3
  <2>3. h.lostQ8 = a + p /\ h.expected = b + packets
    BY <1>2
  <2> HIDE DEF a, b, p
  <2> QED BY <2>1, <2>2, <2>3
<1> QED BY <1>2, <1>5, <1>6 DEF Covers

\* A new report may lead to a cut.
Pardoned(e, f) == f.decreased = FALSE /\ f.decreaseTs = e.decreaseTs

LEMMA JudgedIs ==
    ASSUME NEW h, Proper(h), Covers(h), NEW now \in 0 .. MaxClock, NEW j, j = Judged(h, now)
    PROVE  /\ Proper(j) /\ Counted(j) /\ SameLimits(h, j) /\ j.rate = h.rate
           /\ j.history = h.history /\ Pardoned(h, j)
           /\ j.reportTs = now /\ j.feedbackTs = h.feedbackTs
<1>1. DOMAIN h = Fields
  BY DEF Proper
<1>2. /\ DOMAIN j = Fields /\ SameLimits(h, j) /\ j.rate = h.rate /\ j.history = h.history
      /\ j.decreased = FALSE /\ j.decreaseTs = h.decreaseTs /\ j.reportTs = now
      /\ j.feedbackTs = h.feedbackTs /\ j.firstTs = h.firstTs /\ j.timeoutTs = h.timeoutTs
      /\ j.rtt = h.rtt /\ j.loss = h.lostQ8 \div h.expected /\ j.lostQ8 = 0 /\ j.expected = 0
  BY <1>1, FieldsAre DEF Judged, SameLimits
<1>3. now \in Times
  BY SizesAre DEF Times, None
<1>4. Limits(j) /\ Within(j, j.rate)
  BY <1>2, BoundedKeeps DEF Proper
<1>5. j.loss \in 0 .. 255
  <2>1. \A x \in Nat, y \in Nat \ {0} : x <= 255 * y => x \div y \in 0 .. 255
    OBVIOUS
  <2> QED BY <1>2, <2>1 DEF Covers
<1>6. Proper(j)
  BY <1>2, <1>3, <1>4, <1>5 DEF Proper, SameLimits
<1>7. Counted(j)
  BY <1>2, SizesAre DEF Counted
<1> QED BY <1>2, <1>6, <1>7 DEF Pardoned

\* A feedback whose report does not suffice, and one that leads to an update of e.
Bare(e, lower) ==
    /\ Proper(e) /\ Counted(e) /\ e.history = est.history
    /\ e.lo = est.lo /\ e.hi = est.hi
    /\ e.rate <= est.rate /\ e.rate = Least(est.rate, Bounded(e, e.hi))
    /\ e.decreaseTs = est.decreaseTs /\ e.decreased = lower
Ignored == Bare(est', est.decreased) /\ log' = log /\ spent' = spent
Judges(e) ==
    /\ Bare(e, FALSE) /\ e.reportTs = clock /\ e.feedbackTs = clock
    /\ est' = Update(e, clock) /\ log' = Logged(e) /\ spent' = CutBy(e, est')

LEMMA FeedbackIs ==
    ASSUME Proper(est), Counted(est), clock \in 0 .. MaxClock,
           NEW delay \in Offers \cup {0}, NEW remb \in Rembs \cup {0},
           NEW r \in Reports \cup {NoReport}, NEW rtt \in Rtts,
           HandleFeedback(delay, remb, r, rtt)
    PROVE  Ignored \/ \E e : Judges(e)
<1> DEFINE b == Estimated(Offered(est, delay), remb)
           h == Heard(b, r.loss, rtt, r.packets, clock)
<1>1. delay \in Nat /\ remb \in Nat /\ rtt \in Nat
  BY InputsAre
<1>2. b = Estimated(Offered(est, delay), remb)
  OBVIOUS
<1>3. /\ est' = Reported(b, r, rtt)
      /\ log' = IF r # NoReport /\ h.expected >= LimitPackets THEN Logged(Judged(h, clock)) ELSE log
      /\ spent' = IF r # NoReport /\ h.expected >= LimitPackets
                  THEN CutBy(Judged(h, clock), est') ELSE spent
  BY DEF HandleFeedback
<1> HIDE DEF b
<1>4a. /\ Proper(b) /\ OnlyBound(est, b)
      /\ b.rate <= est.rate /\ b.rate = Least(est.rate, Bounded(b, b.hi))
  BY <1>1, <1>2, BothAre
<1>4. Bare(b, est.decreased)
  BY <1>4a DEF Bare, OnlyBound, NotCut, NotSilent, Counted
<1>5. CASE r = NoReport
  BY <1>3, <1>4, <1>5 DEF Reported, Ignored
<1>6. CASE r # NoReport
  <2>1. /\ Proper(h) /\ SameLimits(b, h) /\ h.rate = b.rate /\ h.history = b.history
        /\ NotCut(b, h) /\ h.feedbackTs = clock /\ Covers(h)
    <3>1. r.loss \in 0 .. 255 /\ r.packets \in Nat \ {0} /\ Counted(b)
      BY <1>4, <1>6, InputsAre DEF Bare
    <3> QED BY <1>1, <1>4a, <3>1, HeardIs
  <2>2. est' = IF h.expected < LimitPackets THEN h ELSE Update(Judged(h, clock), clock)
    BY <1>3, <1>6 DEF Reported, UpdateBlock
  <2> HIDE DEF h
  <2>3. Bounded(h, h.hi) = Bounded(b, b.hi)
    BY <2>1, BoundedKeeps DEF SameLimits
  <2>4. CASE h.expected < LimitPackets
    <3>1. est' = h /\ log' = log /\ spent' = spent
      BY <1>3, <2>1, <2>2, <2>4, SizesAre DEF Covers
    <3>2. Bare(h, est.decreased)
      BY <1>4, <2>1, <2>3, <2>4 DEF Bare, Counted, Covers, SameLimits, NotCut
    <3> QED BY <3>1, <3>2 DEF Ignored
  <2>5. CASE ~ (h.expected < LimitPackets)
    <3> DEFINE j == Judged(h, clock)
    <3>0. j = Judged(h, clock)
      OBVIOUS
    <3>2. est' = Update(j, clock) /\ log' = Logged(j) /\ spent' = CutBy(j, est')
      BY <1>3, <1>6, <2>1, <2>2, <2>5, SizesAre DEF Covers
    <3> HIDE DEF j
    <3>1. /\ Proper(j) /\ Counted(j) /\ SameLimits(h, j) /\ j.rate = h.rate
          /\ j.history = h.history /\ Pardoned(h, j)
          /\ j.reportTs = clock /\ j.feedbackTs = h.feedbackTs
      BY <2>1, <3>0, JudgedIs
    <3>3. Bounded(j, j.hi) = Bounded(h, h.hi)
      BY <3>1, BoundedKeeps DEF SameLimits
    <3>4. Bare(j, FALSE)
      BY <1>4, <2>1, <2>3, <3>1, <3>3 DEF Bare, SameLimits, NotCut, Pardoned
    <3>5. Judges(j)
      BY <2>1, <3>1, <3>2, <3>4 DEF Judges
    <3> QED BY <3>5
  <2> QED BY <2>4, <2>5
<1> QED BY <1>5, <1>6

(***************************************************************************)
(* The invariant.                                                          *)
(***************************************************************************)

\* What an update adds to the rates of the last second.
Recorded(all, now) == all \subseteq Entries /\ \A x \in all : x.ts <= now

LEMMA LoggedFollows ==
    ASSUME NEW e, Proper(e), clock \in Nat, Queued(e, clock),
           Recorded(log, clock), Listed(e.history, log), NEW f, f = Update(e, clock)
    PROVE  /\ Recorded(Logged(e), clock) /\ Listed(f.history, Logged(e))
           /\ Undercuts(e.history, log) /\ Len(e.history) < HistorySize
                  => Undercuts(f.history, Logged(e))
<1> DEFINE h == e.history
           r == e.rate
           entry == [ts |-> clock, rate |-> r]
<1>1. DOMAIN e = Fields /\ r \in Nat
  BY DEF Proper, Within
<1>2. Sorted(h, clock) /\ Len(h) <= HistorySize /\ h \in Seq(Entries)
  BY DEF Queued, Sorted
<1>3. entry \in Entries /\ entry.ts = clock /\ entry.rate = r
  BY <1>1 DEF Entries
<1>4. /\ Entry(e) = entry
      /\ Logged(e) = IF Jumps(e, clock) THEN {entry} ELSE NextLog(log, r, clock)
  BY DEF Logged, Entry, NextLog
<1>5. CASE Jumps(e, clock)
  <2>1. f.history = <<entry>> /\ Logged(e) = {entry}
    BY <1>1, <1>4, <1>5, UpdateDoes
  <2> HIDE DEF entry
  <2>2. Len(f.history) = 1 /\ f.history[1] = entry
    BY <2>1
  <2>3. \A i \in 1 .. Len(f.history) : f.history[i] = entry
    BY <2>2
  <2>4. Recorded(Logged(e), clock)
    BY <1>3, <2>1 DEF Recorded
  <2>5. Listed(f.history, Logged(e))
    BY <2>1, <2>3 DEF Listed
  <2>6. Undercuts(f.history, Logged(e))
    <3>1. 1 \in 1 .. Len(f.history)
      BY <2>2
    <3>2. r <= r /\ clock <= clock
      BY <1>1
    <3> QED BY <1>3, <2>1, <2>2, <3>1, <3>2 DEF Undercuts
  <2> QED BY <2>4, <2>5, <2>6
<1>6. CASE ~Jumps(e, clock)
  <2>1. f.history = NextHistory(h, r, clock) /\ Logged(e) = NextLog(log, r, clock)
    BY <1>1, <1>4, <1>6, UpdateDoes
  <2>2. Recorded(log, clock) /\ Listed(h, log)
    OBVIOUS
  <2>3. Recorded(Logged(e), clock)
    BY <1>1, <1>3, <2>1 DEF Recorded, NextLog
  <2>a. Undercuts(e.history, log) /\ Len(e.history) < HistorySize
            <=> Undercuts(h, log) /\ Len(h) < HistorySize
    OBVIOUS
  <2> HIDE DEF h, r
  <2>b. \E a, b \in Nat : Follows(NextHistory(h, r, clock), h, a, b, r, clock)
    BY <1>1, <1>2, HistoryFollows
  <2>4. PICK a \in Nat, b \in Nat : Follows(f.history, h, a, b, r, clock)
    BY <2>1, <2>b
  <2>5. Listed(f.history, Logged(e))
    <3>1. Listed(f.history, NextLog(log, r, clock))
      <4>1. 0 \in Nat /\ 0 <= r
        BY <1>1
      <4> QED BY <1>1, <1>2, <2>2, <2>4, <4>1, ListedFollows
    <3> QED BY <2>1, <3>1
  <2>6. Undercuts(h, log) /\ Len(h) < HistorySize => Undercuts(f.history, Logged(e))
    <3>1. log \subseteq Entries /\ \A x \in log : x.ts <= clock
      BY <2>2 DEF Recorded
    <3>2. ASSUME Undercuts(h, log), Len(h) < HistorySize
          PROVE  Undercuts(f.history, NextLog(log, r, clock))
      BY <1>1, <1>2, <2>4, <3>1, <3>2, UndercutsFollows
    <3> QED BY <2>1, <3>2
  <2> QED BY <2>3, <2>5, <2>6, <2>a
<1> QED BY <1>5, <1>6

\* What holds of the estimation and of the history variables between two calls.
RateInv ==
    /\ clock \in 0 .. MaxClock
    /\ Proper(est) /\ Counted(est) /\ Queued(est, clock)
    /\ Recorded(log, clock) /\ Listed(est.history, log)
    /\ spent => est.decreased
    /\ inputs \in [feedback : Nat, sets : Nat]

LEMMA EmptyIs ==
    ASSUME NEW e, e.history = <<>>, NEW now
    PROVE  /\ Queued(e, now) /\ Recorded({}, now) /\ Listed(e.history, {})
           /\ Undercuts(e.history, {})
<1>1. <<>> \in Seq(Entries) /\ Len(<<>>) = 0
  OBVIOUS
<1>2. \A i \in 1 .. 0 : FALSE
  OBVIOUS
<1>3. Sorted(e.history, now) /\ AtLeast(e.history, e.lo) /\ Listed(e.history, {})
  BY <1>1, <1>2 DEF Sorted, AtLeast, Listed
<1>4. Queued(e, now)
  BY <1>1, <1>3, SizesAre DEF Queued
<1>5. Recorded({}, now) /\ Undercuts(e.history, {})
  BY DEF Recorded, Undercuts
<1> QED BY <1>3, <1>4, <1>5

LEMMA RateInit ==
    ASSUME LimitsFit, Init
    PROVE  RateInv /\ Undercuts(est.history, log)
<1>1. /\ clock = 0 /\ inputs = [feedback |-> 0, sets |-> 0] /\ log = {} /\ spent = FALSE
      /\ est = Configured(Fresh, Defaults)
  BY DEF Init
<1>2. Basic(Fresh) /\ Fresh.expected = 0 /\ Fresh.lostQ8 = 0
  <2>1. /\ Fresh.lo = EstMin /\ Fresh.remb = 0 /\ Fresh.delay = 0 /\ Fresh.loss = 0 /\ Fresh.rtt = 0
        /\ Fresh.decreased = FALSE /\ Fresh.firstTs = None /\ Fresh.feedbackTs = None
        /\ Fresh.reportTs = None /\ Fresh.timeoutTs = None /\ Fresh.decreaseTs = 0
        /\ Fresh.expected = 0 /\ Fresh.lostQ8 = 0
    BY DEF Fresh
  <2>2. None \in Times /\ 0 \in Times
    BY SizesAre DEF Times, None
  <2>3. EstMin \in Nat /\ EstMin <= MaxBitrate
    BY SizesAre DEF LimitsFit
  <2>4. Fresh.decreased \in BOOLEAN
    BY <2>1
  <2>5. DOMAIN Fresh = Fields
    BY DEF Fields
  <2>6. Fresh.lo \in Nat /\ Fresh.lo <= MaxBitrate
    BY <2>1, <2>3
  <2>7. Fresh.remb \in Nat /\ Fresh.delay \in Nat /\ Fresh.loss \in 0 .. 255 /\ Fresh.rtt \in Nat
    BY <2>1
  <2>8. /\ Fresh.firstTs \in Times /\ Fresh.feedbackTs \in Times /\ Fresh.reportTs \in Times
        /\ Fresh.timeoutTs \in Times /\ Fresh.decreaseTs \in Times
    BY <2>1, <2>2
  <2> QED BY <2>1, <2>4, <2>5, <2>6, <2>7, <2>8 DEF Basic
<1>3. Defaults \in Settings \cup {Defaults}
  OBVIOUS
<1>4. Proper(est) /\ est.history = <<>> /\ est.expected = 0 /\ est.lostQ8 = 0
  BY <1>1, <1>2, <1>3, ConfiguredIs
<1>5. Counted(est)
  BY <1>4, SizesAre DEF Counted
<1>6. /\ Queued(est, clock) /\ Recorded(log, clock) /\ Listed(est.history, log)
      /\ Undercuts(est.history, log)
  BY <1>1, <1>4, EmptyIs
<1>7. clock \in 0 .. MaxClock
  BY <1>1, SizesAre
<1> QED BY <1>1, <1>4, <1>5, <1>6, <1>7 DEF RateInv

\* The steps of the controller.  A later time leaves the queue as it is.
LEMMA LaterQueued ==
    ASSUME NEW e, NEW now \in Nat, Queued(e, now), NEW all, Recorded(all, now)
    PROVE  Queued(e, now + 1) /\ Recorded(all, now + 1)
<1>1. e.history \in Seq(Entries)
  BY DEF Queued, Sorted
<1>2. \A i \in 1 .. Len(e.history) : e.history[i].ts \in Nat /\ e.history[i].ts <= now
  BY <1>1, EntryIs DEF Queued, Sorted
<1>3. \A i \in 1 .. Len(e.history) : e.history[i].ts <= now + 1
  BY <1>2
<1>4. Queued(e, now + 1)
  BY <1>3 DEF Queued, Sorted
<1>5. \A x \in all : x.ts \in Nat /\ x.ts <= now
  BY DEF Recorded, Entries
<1>6. \A x \in all : x.ts <= now + 1
  BY <1>5
<1> QED BY <1>4, <1>6 DEF Recorded

\* An update of an estimation that has the present queue.
LEMMA UpdateKeepsInv ==
    ASSUME RateInv, NEW e, Proper(e), Counted(e), e.history = est.history, e.lo = est.lo,
           est' = Update(e, clock), log' = Logged(e), clock' = clock
    PROVE  /\ Proper(est') /\ Counted(est') /\ Queued(est', clock')
           /\ Recorded(log', clock') /\ Listed(est'.history, log')
           /\ e.decreased => est'.decreased
           /\ Undercuts(est.history, log) /\ Len(est.history) < HistorySize
                  => Undercuts(est'.history, log')
<1>1. /\ clock \in 0 .. MaxClock /\ clock \in Nat /\ Queued(e, clock)
      /\ Recorded(log, clock) /\ Listed(e.history, log)
  BY DEF RateInv, Queued
<1>2. Proper(est') /\ Counted(est')
  BY <1>1, UpdateKeepsProper
<1>3. Queued(est', clock')
  BY <1>1, UpdateQueues
<1>4. /\ Recorded(log', clock') /\ Listed(est'.history, log')
      /\ Undercuts(e.history, log) /\ Len(e.history) < HistorySize
             => Undercuts(est'.history, log')
  BY <1>1, LoggedFollows
<1>5. e.decreased => est'.decreased
  <2>1. DOMAIN e = Fields
    BY DEF Proper
  <2>2. NotCut(e, est') \/ CutDown(e, est', clock)
    BY <2>1, UpdateDoes
  <2> QED BY <2>2 DEF NotCut, CutDown
<1> QED BY <1>2, <1>3, <1>4, <1>5

LEMMA RateStep ==
    ASSUME LimitsFit, RateInv, [Next]_vars
    PROVE  /\ RateInv'
           /\ Undercuts(est.history, log) /\ Len(est.history) < HistorySize
                  => Undercuts(est.history, log)'
<1>0. /\ clock \in 0 .. MaxClock /\ Proper(est) /\ Counted(est) /\ Queued(est, clock)
      /\ Recorded(log, clock) /\ Listed(est.history, log)
      /\ spent => est.decreased
      /\ inputs \in [feedback : Nat, sets : Nat]
  BY DEF RateInv
<1>1. ASSUME NEW s \in Settings, SetBitrates(s)
      PROVE  RateInv' /\ Undercuts(est.history, log)'
  <2>1. /\ inputs' = [inputs EXCEPT !.sets = @ + 1] /\ est' = Configured(est, s)
        /\ log' = {} /\ clock' = clock /\ spent' = spent
    BY <1>1 DEF SetBitrates
  <2>2. Basic(est) /\ s \in Settings \cup {Defaults}
    BY <1>0 DEF Basic, Proper, Limits
  <2>3. /\ Proper(est') /\ est'.history = <<>> /\ est'.decreased = est.decreased
        /\ est'.expected = est.expected /\ est'.lostQ8 = est.lostQ8
    BY <2>1, <2>2, ConfiguredIs
  <2>4. Counted(est')
    BY <1>0, <2>3 DEF Counted
  <2>5. /\ Queued(est', clock') /\ Recorded(log', clock') /\ Listed(est'.history, log')
        /\ Undercuts(est'.history, log')
    BY <2>1, <2>3, EmptyIs
  <2>6. inputs' \in [feedback : Nat, sets : Nat]
    BY <1>0, <2>1
  <2> QED BY <1>0, <2>1, <2>3, <2>4, <2>5, <2>6 DEF RateInv
<1>2. ASSUME NEW delay \in Offers \cup {0}, NEW remb \in Rembs \cup {0},
             NEW r \in Reports \cup {NoReport}, NEW rtt \in Rtts,
             HandleFeedback(delay, remb, r, rtt)
      PROVE  /\ RateInv'
             /\ Undercuts(est.history, log) /\ Len(est.history) < HistorySize
                    => Undercuts(est.history, log)'
  <2>1. clock' = clock /\ inputs' = [inputs EXCEPT !.feedback = @ + 1]
    BY <1>2 DEF HandleFeedback
  <2>2. inputs' \in [feedback : Nat, sets : Nat]
    BY <1>0, <2>1
  <2>3. CASE Ignored
    <3>1. /\ Proper(est') /\ Counted(est') /\ est'.history = est.history /\ est'.lo = est.lo
          /\ est'.decreased = est.decreased /\ log' = log /\ spent' = spent
      BY <2>3 DEF Ignored, Bare
    <3>2. Queued(est', clock')
      BY <1>0, <2>1, <3>1 DEF Queued
    <3> QED BY <1>0, <2>1, <2>2, <3>1, <3>2 DEF RateInv
  <2>4. ASSUME NEW e, Judges(e)
        PROVE  /\ RateInv'
               /\ Undercuts(est.history, log) /\ Len(est.history) < HistorySize
                      => Undercuts(est.history, log)'
    <3>1. /\ Proper(e) /\ Counted(e) /\ e.history = est.history /\ e.lo = est.lo
          /\ est' = Update(e, clock) /\ log' = Logged(e) /\ spent' = CutBy(e, est')
      BY <2>4 DEF Judges, Bare
    <3>2. /\ Proper(est') /\ Counted(est') /\ Queued(est', clock')
          /\ Recorded(log', clock') /\ Listed(est'.history, log')
          /\ Undercuts(est.history, log) /\ Len(est.history) < HistorySize
                 => Undercuts(est'.history, log')
      BY <2>1, <3>1, UpdateKeepsInv
    <3>3. spent' => est'.decreased
      BY <3>1 DEF CutBy
    <3> QED BY <1>0, <2>1, <2>2, <3>2, <3>3 DEF RateInv
  <2> QED BY <1>0, <1>2, <2>3, <2>4, FeedbackIs
<1>3. ASSUME Heartbeat
      PROVE  /\ RateInv'
             /\ Undercuts(est.history, log) /\ Len(est.history) < HistorySize
                    => Undercuts(est.history, log)'
  <2>1. /\ est' = Update(est, clock) /\ log' = Logged(est) /\ clock' = clock /\ inputs' = inputs
        /\ spent' = (spent \/ CutBy(est, est'))
    BY <1>3 DEF Heartbeat
  <2>2. /\ Proper(est') /\ Counted(est') /\ Queued(est', clock')
        /\ Recorded(log', clock') /\ Listed(est'.history, log')
        /\ est.decreased => est'.decreased
        /\ Undercuts(est.history, log) /\ Len(est.history) < HistorySize
               => Undercuts(est'.history, log')
    BY <1>0, <2>1, UpdateKeepsInv
  <2>3. spent' => est'.decreased
    <3>1. spent' => spent \/ CutBy(est, est')
      BY <2>1
    <3>2. spent => est'.decreased
      <4>1. spent => est.decreased
        BY <1>0
      <4>2. est.decreased => est'.decreased
        BY <2>2
      <4> QED BY <4>1, <4>2
    <3>3. CutBy(est, est') => est'.decreased
      BY DEF CutBy
    <3> QED BY <3>1, <3>2, <3>3
  <2> QED BY <1>0, <2>1, <2>2, <2>3 DEF RateInv
<1>4. ASSUME Tick
      PROVE  /\ RateInv'
             /\ Undercuts(est.history, log) => Undercuts(est.history, log)'
  <2>1. /\ clock < MaxClock /\ clock' = clock + 1
        /\ UNCHANGED <<est, log, inputs, spent>>
    BY <1>4 DEF Tick
  <2>2. clock \in Nat /\ clock' \in 0 .. MaxClock
    BY <1>0, <2>1, SizesAre
  <2>3. Queued(est', clock') /\ Recorded(log', clock')
    <3>1. Queued(est, clock + 1) /\ Recorded(log, clock + 1)
      <4>1. clock \in Nat /\ Queued(est, clock) /\ Recorded(log, clock)
        BY <1>0, <2>2
      <4> QED BY <4>1, LaterQueued
    <3>2. est' = est /\ log' = log
      BY <2>1
    <3> QED BY <2>1, <3>1, <3>2
  <2> QED BY <1>0, <2>1, <2>2, <2>3 DEF RateInv
<1>5. ASSUME UNCHANGED vars
      PROVE  /\ RateInv'
             /\ Undercuts(est.history, log) => Undercuts(est.history, log)'
  BY <1>5 DEF vars, RateInv
<1> QED BY <1>1, <1>2, <1>3, <1>4, <1>5 DEF Next

LEMMA RateCorrect ==
    ASSUME LimitsFit
    PROVE  Spec => []RateInv
<1>1. Init => RateInv
  BY RateInit
<1>2. RateInv /\ [Next]_vars => RateInv'
  BY RateStep
<1> QED BY <1>1, <1>2, PTL DEF Spec

\* EstTypeOK: the rate is within the limits and the estimates, what reports have added up
\* to is less than a report that is judged, and the queue does not outgrow its array,
\* after every call of the controller.
THEOREM EstTypeCorrect ==
    ASSUME LimitsFit, 0 < NotifyTimer
    PROVE  Spec => []EstTypeOK
<1>1. Init => TIInv
  BY ToldInit
<1>2. TIInv /\ [Next]_vars => TIInv'
  BY ToldStep
<1>3. Spec => []RateInv
  BY RateCorrect
<1>4. TIInv /\ RateInv => EstTypeOK
  <2> SUFFICES ASSUME TIInv, RateInv PROVE EstTypeOK
    OBVIOUS
  <2>1. clock \in 0 .. MaxClock /\ Proper(est) /\ Counted(est) /\ Queued(est, clock)
    BY DEF RateInv
  <2>2. updateTs \in 0 .. clock /\ note.at \in 0 .. clock
    BY DEF TIInv, Types
  <2>3. /\ est.lo <= est.rate /\ est.rate <= est.hi
        /\ est.remb > 0 => est.rate <= Greatest(est.remb, est.lo)
        /\ est.delay > 0 => est.rate <= Greatest(est.delay, est.lo)
        /\ est.loss \in 0 .. 255
        /\ {est.firstTs, est.feedbackTs, est.reportTs, est.timeoutTs, est.decreaseTs} \subseteq Times
    BY <2>1 DEF Proper, Within
  <2>4. est.expected \in 0 .. LimitPackets - 1 /\ est.lostQ8 <= 255 * est.expected
    <3>1. /\ est.expected \in Nat /\ est.expected < LimitPackets /\ LimitPackets \in Nat
          /\ est.lostQ8 <= 255 * est.expected
      BY <2>1, SizesAre DEF Counted
    <3> QED BY <3>1
  <2>5. Len(est.history) <= HistorySize
    BY <2>1 DEF Queued
  <2> QED BY <2>1, <2>2, <2>3, <2>4, <2>5 DEF EstTypeOK
<1> QED BY <1>1, <1>2, <1>3, <1>4, PTL DEF Spec

(***************************************************************************)
(* The least rate of the last second.                                      *)
(***************************************************************************)

\* The queue has room for one more rate: nothing need leave it but for its age.
RoomLeft == Len(est.history) < HistorySize
Covered  == Undercuts(est.history, log)

LEMMA HeadIsLeast ==
    ASSUME NEW h, NEW now, Sorted(h, now), NEW all \in SUBSET Entries, Undercuts(h, all),
           NEW x \in all
    PROVE  1 \in 1 .. Len(h) /\ h[1].rate \in Nat /\ x.rate \in Nat /\ h[1].rate <= x.rate
<1>1. h \in Seq(Entries) /\ Len(h) \in Nat
  BY DEF Sorted
<1>2. PICK i \in 1 .. Len(h) : h[i].rate <= x.rate
  BY DEF Undercuts
<1>3. 1 \in 1 .. Len(h) /\ (i = 1 \/ 1 < i)
  BY <1>1, <1>2
<1>4. h[1].rate \in Nat /\ h[i].rate \in Nat /\ x.rate \in Nat
  BY <1>1, <1>2, <1>3, EntryIs DEF Entries
<1>5. i = 1 \/ h[1].rate < h[i].rate
  BY <1>2, <1>3 DEF Sorted
<1> QED BY <1>2, <1>3, <1>4, <1>5

\* HistoryIsMinimum: the head of the queue of min_bitrates is the least rate of all updates
\* of the last second, as long as its array has room.
THEOREM HistoryCorrect ==
    ASSUME LimitsFit
    PROVE  Spec /\ []RoomLeft => []HistoryIsMinimum
<1>1. Init => Covered
  BY RateInit DEF Covered
<1>2. RateInv /\ RoomLeft /\ Covered /\ [Next]_vars => Covered'
  BY RateStep DEF Covered, RoomLeft
<1>3. Spec => []RateInv
  BY RateCorrect
<1>4. RateInv /\ Covered => HistoryIsMinimum
  <2> SUFFICES ASSUME RateInv, Covered PROVE HistoryIsMinimum
    OBVIOUS
  <2> DEFINE h == est.history
  <2>1. /\ Sorted(h, clock) /\ Listed(h, log) /\ Undercuts(h, log) /\ log \in SUBSET Entries
    BY DEF RateInv, Covered, Queued, Recorded
  <2>2. h \in Seq(Entries) /\ Len(h) \in Nat /\ DOMAIN h = 1 .. Len(h)
    BY <2>1 DEF Sorted
  <2> HIDE DEF h
  <2>3. \A x \in log : 1 \in 1 .. Len(h) /\ h[1].rate <= x.rate
    BY <2>1, HeadIsLeast
  <2>4. 1 \in 1 .. Len(h) => h[1] \in log
    BY <2>1 DEF Listed
  <2>5. h = <<>> => ~ (1 \in 1 .. Len(h))
    BY <2>2
  <2>6. h # <<>> => 1 \in 1 .. Len(h)
    BY <2>2
  <2>7. h = <<>> <=> log = {}
    BY <2>3, <2>4, <2>5, <2>6
  <2>8. \A i, j \in DOMAIN h : i < j => h[i].rate < h[j].rate
    BY <2>1, <2>2 DEF Sorted
  <2> QED BY <2>3, <2>4, <2>6, <2>7, <2>8 DEF HistoryIsMinimum, h
<1> QED BY <1>1, <1>2, <1>3, <1>4, PTL DEF Spec

(***************************************************************************)
(* Why the rate rises and falls.                                           *)
(***************************************************************************)

\* An update raises the rate at the start, up to an estimate, or from the head of the queue.
LEMMA UpdateRises ==
    ASSUME NEW e, Proper(e), NEW now \in 0 .. MaxClock, Queued(e, now),
           NEW f, f = Update(e, now), f.rate > e.rate
    PROVE  \/ f.loss = 0 /\ Starting(f, now) /\ f.rate <= Greatest(f.remb, f.delay)
           \/ f.loss < LowLoss /\ f.rate <= Greatest(Raised(f.history[1].rate), f.lo)
<1>1. /\ DOMAIN e = Fields /\ Limits(e) /\ Within(e, e.rate) /\ e.rate \in Nat
      /\ e.loss \in 0 .. 255 /\ e.lo <= e.rate
  BY DEF Proper, Within
<1>2. e.lo \in Nat /\ e.remb \in Nat /\ e.delay \in Nat
  BY <1>1 DEF Limits
<1>3. /\ f.loss = e.loss /\ f.lo = e.lo /\ f.remb = e.remb /\ f.delay = e.delay
      /\ f.firstTs = e.firstTs
  <2>1. Kept(e, f)
    BY <1>1, UpdateDoes
  <2> QED BY <2>1 DEF Kept, SameLimits
<1>4. now \in Nat /\ f.history[1].rate \in Nat
  <2>1. now \in Nat
    OBVIOUS
  <2> QED BY <2>1, UpdateQueues
<1>5. ASSUME NEW rate \in Nat
      PROVE  Bounded(e, rate) \in Nat /\ Bounded(e, rate) <= Greatest(rate, e.lo)
  <2>1. Bounded(e, rate) = Least(Greatest(rate, e.lo), Bounded(e, e.hi))
    BY <1>1, <1>5, BoundedIs
  <2>2. Bounded(e, rate) \in Nat /\ Bounded(e, e.hi) \in Nat
    BY <1>1, <1>5, BoundedIs DEF Within, Limits
  <2> QED BY <1>2, <2>1, <2>2 DEF Least, Greatest
<1>6. CASE Jumped(e, f, now)
  <2>1. Jumps(e, now) /\ f.rate = Bounded(e, Estimates(e))
    BY <1>6 DEF Jumped
  <2>2. /\ Estimates(e) \in Nat
        /\ Estimates(e) = e.rate \/ Estimates(e) = Greatest(e.remb, e.delay)
    BY <1>1, EstimatesAre
  <2>3. f.rate \in Nat /\ f.rate <= Greatest(Estimates(e), e.lo)
    BY <1>5, <2>1, <2>2
  <2>4. f.rate <= Greatest(e.remb, e.delay)
    BY <1>1, <1>2, <2>2, <2>3 DEF Greatest
  <2> QED BY <1>3, <2>1, <2>4 DEF Jumps, Starting
<1>7. CASE Lifted(e, f, now)
  <2>1. Raised(f.history[1].rate) \in Nat
    BY <1>4, RaisedIs
  <2> QED BY <1>3, <1>5, <1>7, <2>1 DEF Lifted
<1>8. ~Held(e, f, now)
  BY <1>1, <1>2, <1>5 DEF Held, Greatest
<1>9. ~CutDown(e, f, now)
  <2>1. Cut(e.rate, e.loss) \in Nat /\ Cut(e.rate, e.loss) <= e.rate
    BY <1>1, CutIs
  <2> QED BY <1>1, <1>2, <1>5, <2>1 DEF CutDown, Greatest
<1>10. ~Waned(e, f, now)
  <2>1. (e.rate * 4) \div 5 \in Nat /\ (e.rate * 4) \div 5 <= e.rate
    BY <1>1, WaneIs
  <2> QED BY <1>1, <1>2, <1>5, <2>1 DEF Waned, Greatest
<1> QED BY <1>1, <1>6, <1>7, <1>8, <1>9, <1>10, UpdateDoes

LEMMA RisesStep ==
    ASSUME LimitsFit, RateInv, RoomLeft, Covered, [Next]_vars, est'.rate > est.rate
    PROVE  \/ ByUser
           \/ /\ est'.loss = 0 /\ Starting(est', clock)
              /\ est'.rate <= Greatest(est'.remb, est'.delay)
           \/ /\ est'.loss < LowLoss
              /\ \A x \in log' : est'.rate <= Greatest(Raised(x.rate), est'.lo)
<1>1. /\ clock \in 0 .. MaxClock /\ Proper(est) /\ Counted(est) /\ Queued(est, clock)
      /\ est.rate \in Nat /\ inputs \in [feedback : Nat, sets : Nat]
  BY DEF RateInv, Proper, Within
<1>2. RateInv' /\ Covered'
  BY RateStep DEF RoomLeft, Covered
<1>3. ASSUME NEW e, Proper(e), Queued(e, clock), e.rate <= est.rate, est' = Update(e, clock)
      PROVE  \/ /\ est'.loss = 0 /\ Starting(est', clock)
                /\ est'.rate <= Greatest(est'.remb, est'.delay)
             \/ /\ est'.loss < LowLoss
                /\ \A x \in log' : est'.rate <= Greatest(Raised(x.rate), est'.lo)
  <2> DEFINE base == est'.history[1].rate
  <2>1. e.rate \in Nat /\ est'.rate \in Nat
    BY <1>2, <1>3 DEF RateInv, Proper, Within
  <2>2. est'.rate > e.rate
    BY <1>1, <1>3, <2>1
  <2>3. \/ est'.loss = 0 /\ Starting(est', clock) /\ est'.rate <= Greatest(est'.remb, est'.delay)
        \/ est'.loss < LowLoss /\ est'.rate <= Greatest(Raised(base), est'.lo)
    BY <1>1, <1>3, <2>2, UpdateRises
  <2>4. ASSUME NEW x \in log', est'.rate <= Greatest(Raised(base), est'.lo)
        PROVE  est'.rate <= Greatest(Raised(x.rate), est'.lo)
    <3>1. /\ Sorted(est'.history, clock') /\ log' \in SUBSET Entries
          /\ Undercuts(est'.history, log') /\ est'.lo \in Nat
      BY <1>2 DEF RateInv, Covered, Queued, Recorded, Proper, Limits
    <3>2. base \in Nat /\ x.rate \in Nat /\ base <= x.rate
      BY <2>4, <3>1, HeadIsLeast
    <3> HIDE DEF base
    <3>3. /\ Raised(base) \in Nat /\ Raised(x.rate) \in Nat /\ Raised(base) <= Raised(x.rate)
      BY <3>2, RaisedIs
    <3> QED BY <2>1, <2>4, <3>1, <3>3 DEF Greatest
  <2> QED BY <2>3, <2>4
<1>4. ASSUME NEW s \in Settings, SetBitrates(s) PROVE ByUser
  BY <1>1, <1>4 DEF SetBitrates, ByUser
<1>5. ASSUME NEW delay \in Offers \cup {0}, NEW remb \in Rembs \cup {0},
             NEW r \in Reports \cup {NoReport}, NEW rtt \in Rtts,
             HandleFeedback(delay, remb, r, rtt)
      PROVE  \E e : /\ Proper(e) /\ Queued(e, clock) /\ e.rate <= est.rate
                    /\ est' = Update(e, clock)
  <2>1. ~Ignored
    <3>1. ASSUME Ignored PROVE FALSE
      <4>1. est'.rate <= est.rate /\ est'.rate \in Nat
        BY <1>2, <3>1 DEF Ignored, Bare, RateInv, Proper, Within
      <4> QED BY <1>1, <4>1
    <3> QED BY <3>1
  <2>2. PICK e : Judges(e)
    BY <1>1, <1>5, <2>1, FeedbackIs
  <2> QED BY <1>1, <2>2 DEF Judges, Bare, Queued
<1>6. CASE Heartbeat
  <2>1. est' = Update(est, clock) /\ est.rate <= est.rate
    BY <1>1, <1>6 DEF Heartbeat
  <2> QED BY <1>1, <1>3, <2>1
<1>7. ~Tick /\ ~UNCHANGED vars
  BY <1>1 DEF Tick, vars
<1> QED BY <1>3, <1>4, <1>5, <1>6, <1>7 DEF Next

\* RisesArePaced: the rate rises when the user sets it, at the start up to an estimate, or
\* to no more than 8 % above what it was at any update of the last second.
THEOREM RisesCorrect ==
    ASSUME LimitsFit
    PROVE  Spec /\ []RoomLeft => RisesArePaced
<1>1. Init => Covered
  BY RateInit DEF Covered
<1>2. RateInv /\ RoomLeft /\ Covered /\ [Next]_vars => Covered'
  BY RateStep DEF Covered, RoomLeft
<1>3. Spec => []RateInv
  BY RateCorrect
<1>4. RateInv /\ RoomLeft /\ Covered /\ [Next]_vars =>
        [est'.rate > est.rate =>
            \/ ByUser
            \/ /\ est'.loss = 0 /\ Starting(est', clock)
               /\ est'.rate <= Greatest(est'.remb, est'.delay)
            \/ /\ est'.loss < LowLoss
               /\ \A x \in log' : est'.rate <= Greatest(Raised(x.rate), est'.lo)]_vars
  BY RisesStep
<1> QED BY <1>1, <1>2, <1>3, <1>4, PTL DEF Spec, RisesArePaced

\* An update that leaves the rate below what it was before the estimates came (top) has
\* lowered it to the highest they admit, for the loss, for the silence, or to a raise of
\* the head of the queue.
LEMMA UpdateFalls ==
    ASSUME NEW e, Proper(e), NEW now \in 0 .. MaxClock, Queued(e, now), 512 * e.rate < Word,
           NEW f, f = Update(e, now),
           NEW top \in Nat, e.rate = Least(top, Bounded(e, e.hi)), f.rate < top
    PROVE  \/ f.rate = Ceiling(f)
           \/ MayCut(e, now) /\ 2 * (f.rate + 1) > Least(top, Ceiling(f))
           \/ Silent(e, now) /\ 5 * (f.rate + 1) > 4 * Least(top, Ceiling(f))
           \/ f.loss < LowLoss /\ f.rate = Raised(f.history[1].rate)
<1> DEFINE highest == Bounded(e, e.hi)
<1>1. /\ DOMAIN e = Fields /\ Limits(e) /\ e.rate \in Nat /\ e.loss \in 0 .. 255
      /\ e.lo \in Nat /\ e.lo <= e.rate
  BY DEF Proper, Within, Limits
<1>2. /\ f.loss = e.loss /\ Ceiling(f) = highest
  <2>1. Kept(e, f)
    BY <1>1, UpdateDoes
  <2>2. DOMAIN f = Fields /\ f.loss = e.loss /\ SameLimits(e, f) /\ f.hi = e.hi
    BY <2>1 DEF Kept, SameLimits
  <2> QED BY <2>2, CeilingIs, BoundedKeeps
<1>3. now \in Nat /\ f.history[1].rate \in Nat /\ e.lo <= f.history[1].rate
  <2>1. now \in Nat
    OBVIOUS
  <2> QED BY <2>1, UpdateQueues
<1>4. highest \in Nat /\ \A rate \in Nat : Bounded(e, rate) = Least(Greatest(rate, e.lo), highest)
  <2>1. e.hi \in Nat
    BY <1>1 DEF Limits
  <2> QED BY <1>1, <2>1, BoundedIs DEF Within
<1>5. e.rate = Least(top, highest)
  OBVIOUS
<1> HIDE DEF highest
<1>6. ASSUME NEW rate \in Nat, e.rate <= rate, f.rate = Bounded(e, rate)
      PROVE  f.rate = highest
  <2>1. f.rate = Least(Greatest(rate, e.lo), highest)
    BY <1>4, <1>6
  <2> QED BY <1>1, <1>4, <1>5, <1>6, <2>1 DEF Least, Greatest
<1>7. ASSUME NEW rate \in Nat, f.rate = Bounded(e, rate)
      PROVE  f.rate = highest \/ (f.rate \in Nat /\ rate <= f.rate)
  <2>1. f.rate = Least(Greatest(rate, e.lo), highest)
    BY <1>4, <1>7
  <2> QED BY <1>1, <1>4, <2>1 DEF Least, Greatest
<1>8. CASE Jumped(e, f, now) \/ Held(e, f, now)
  <2>1. Estimates(e) \in Nat /\ e.rate <= Estimates(e) /\ e.rate <= e.rate
    BY <1>1, EstimatesAre
  <2> QED BY <1>1, <1>2, <1>6, <1>8, <2>1 DEF Jumped, Held
<1>9. CASE Lifted(e, f, now)
  <2> DEFINE base == f.history[1].rate
             raised == Raised(base)
  <2>1. raised \in Nat /\ base <= raised
    BY <1>3, RaisedIs
  <2>2. f.loss < LowLoss /\ f.rate = Bounded(e, raised)
    BY <1>2, <1>9 DEF Lifted
  <2>3. base \in Nat /\ e.lo <= base
    BY <1>3
  <2>4. raised = Raised(f.history[1].rate)
    OBVIOUS
  <2> HIDE DEF base, raised
  <2>5. f.rate = Least(Greatest(raised, e.lo), highest) /\ Greatest(raised, e.lo) = raised
    BY <1>1, <1>4, <2>1, <2>2, <2>3 DEF Greatest
  <2>6. f.rate = highest \/ f.rate = raised
    BY <2>5 DEF Least
  <2> QED BY <1>2, <2>2, <2>4, <2>6
<1>10. CASE CutDown(e, f, now)
  <2> DEFINE cut == Cut(e.rate, e.loss)
  <2>1. cut \in Nat /\ 2 * (cut + 1) > e.rate
    BY <1>1, CutIs
  <2>2. MayCut(e, now) /\ f.rate = Bounded(e, cut)
    BY <1>10 DEF CutDown
  <2> HIDE DEF cut
  <2>3. f.rate = highest \/ (f.rate \in Nat /\ cut <= f.rate)
    BY <1>7, <2>1, <2>2
  <2>4. f.rate = highest \/ 2 * (f.rate + 1) > e.rate
    BY <1>1, <2>1, <2>3
  <2> QED BY <1>2, <1>5, <2>2, <2>4
<1>11. CASE Waned(e, f, now)
  <2> DEFINE waned == (e.rate * 4) \div 5
  <2>1. waned \in Nat /\ 5 * (waned + 1) > 4 * e.rate
    BY <1>1, WaneIs
  <2>2. Silent(e, now) /\ f.rate = Bounded(e, waned)
    BY <1>11 DEF Waned
  <2> HIDE DEF waned
  <2>3. f.rate = highest \/ (f.rate \in Nat /\ waned <= f.rate)
    BY <1>7, <2>1, <2>2
  <2>4. f.rate = highest \/ 5 * (f.rate + 1) > 4 * e.rate
    BY <1>1, <2>1, <2>3
  <2> QED BY <1>2, <1>5, <2>2, <2>4
<1> QED BY <1>1, <1>8, <1>9, <1>10, <1>11, UpdateDoes

\* The product of which a cut is computed does not exceed a word.
NoWrap == 512 * est.rate < Word

LEMMA FallsStep ==
    ASSUME LimitsFit, RateInv, NoWrap, [Next]_vars, est'.rate < est.rate
    PROVE  \/ ByUser
           \/ est'.rate = Ceiling(est')
           \/ /\ est'.loss >= HighLoss
              /\ ~spent \/ NewReport
              /\ clock >= est.decreaseTs + DecreaseInterval + est'.rtt
              /\ 2 * (est'.rate + 1) > Least(est.rate, Ceiling(est'))
           \/ /\ clock > est.feedbackTs + TimeoutIntervals * FeedbackInterval
              /\ 5 * (est'.rate + 1) > 4 * Least(est.rate, Ceiling(est'))
           \/ /\ est'.loss < LowLoss
              /\ \E x \in log' : est'.rate = Raised(x.rate)
<1>1. /\ clock \in 0 .. MaxClock /\ clock \in Nat /\ Proper(est) /\ Counted(est)
      /\ Queued(est, clock) /\ est.rate \in Nat /\ inputs \in [feedback : Nat, sets : Nat]
      /\ est.feedbackTs \in Int /\ 512 * est.rate < Word /\ Word \in Nat
  <2>1. est.feedbackTs \in Times
    BY DEF RateInv, Proper
  <2>2. est.feedbackTs \in Int
    BY <2>1, SizesAre DEF Times, None
  <2> QED BY <2>2, SizesAre DEF RateInv, NoWrap, Proper, Within
<1>2. RateInv'
  BY RateStep
<1>3. est'.rate \in Nat
  BY <1>2 DEF RateInv, Proper, Within
\* What an update of e, which is est or what a report has made of it, says of est'.
<1>4. ASSUME NEW e, Proper(e), Queued(e, clock), e.rate <= est.rate,
             e.rate = Least(est.rate, Bounded(e, e.hi)), est' = Update(e, clock)
      PROVE  /\ est'.loss = e.loss /\ est'.rtt = e.rtt /\ est'.reportTs = e.reportTs
             /\ \/ est'.rate = Ceiling(est')
                \/ MayCut(e, clock) /\ 2 * (est'.rate + 1) > Least(est.rate, Ceiling(est'))
                \/ Silent(e, clock) /\ 5 * (est'.rate + 1) > 4 * Least(est.rate, Ceiling(est'))
                \/ /\ est'.loss < LowLoss
                   /\ \E x \in log' : est'.rate = Raised(x.rate)
  <2>1. e.rate \in Nat /\ DOMAIN e = Fields
    BY <1>4 DEF Proper, Within
  <2>2. 512 * e.rate < Word
    BY <1>1, <1>4, <2>1
  <2>3. \/ est'.rate = Ceiling(est')
        \/ MayCut(e, clock) /\ 2 * (est'.rate + 1) > Least(est.rate, Ceiling(est'))
        \/ Silent(e, clock) /\ 5 * (est'.rate + 1) > 4 * Least(est.rate, Ceiling(est'))
        \/ est'.loss < LowLoss /\ est'.rate = Raised(est'.history[1].rate)
    BY <1>1, <1>4, <2>2, UpdateFalls
  <2>4. est'.history[1] \in log'
    <3>1. 1 \in 1 .. Len(est'.history)
      BY <1>1, <1>4, UpdateQueues
    <3> QED BY <1>2, <3>1 DEF RateInv, Listed
  <2>5. Kept(e, est')
    BY <1>4, <2>1, UpdateDoes
  <2> QED BY <2>3, <2>4, <2>5 DEF Kept
<1>5. ASSUME NEW s \in Settings, SetBitrates(s) PROVE ByUser
  BY <1>1, <1>5 DEF SetBitrates, ByUser
<1>6. ASSUME NEW delay \in Offers \cup {0}, NEW remb \in Rembs \cup {0},
             NEW r \in Reports \cup {NoReport}, NEW rtt \in Rtts,
             HandleFeedback(delay, remb, r, rtt)
      PROVE  \/ est'.rate = Ceiling(est')
             \/ /\ est'.loss >= HighLoss /\ NewReport
                /\ clock >= est.decreaseTs + DecreaseInterval + est'.rtt
                /\ 2 * (est'.rate + 1) > Least(est.rate, Ceiling(est'))
             \/ /\ est'.loss < LowLoss
                /\ \E x \in log' : est'.rate = Raised(x.rate)
  <2>1. CASE Ignored
    <3>1. est'.rate = Least(est.rate, Bounded(est', est'.hi)) /\ DOMAIN est' = Fields
      BY <1>2, <2>1 DEF Ignored, Bare, RateInv, Proper
    <3>2. est'.rate = Bounded(est', est'.hi)
      BY <1>1, <1>3, <3>1 DEF Least
    <3> QED BY <3>1, <3>2, CeilingIs
  <2>2. ASSUME NEW e, Judges(e)
        PROVE  \/ est'.rate = Ceiling(est')
               \/ /\ est'.loss >= HighLoss /\ NewReport
                  /\ clock >= est.decreaseTs + DecreaseInterval + est'.rtt
                  /\ 2 * (est'.rate + 1) > Least(est.rate, Ceiling(est'))
               \/ /\ est'.loss < LowLoss
                  /\ \E x \in log' : est'.rate = Raised(x.rate)
    <3>1. /\ Proper(e) /\ Queued(e, clock) /\ e.rate <= est.rate
          /\ e.rate = Least(est.rate, Bounded(e, e.hi)) /\ est' = Update(e, clock)
          /\ e.reportTs = clock /\ e.feedbackTs = clock /\ e.decreaseTs = est.decreaseTs
      BY <1>1, <2>2 DEF Judges, Bare, Queued
    <3>2. /\ est'.loss = e.loss /\ est'.rtt = e.rtt /\ est'.reportTs = e.reportTs
          /\ \/ est'.rate = Ceiling(est')
             \/ MayCut(e, clock) /\ 2 * (est'.rate + 1) > Least(est.rate, Ceiling(est'))
             \/ Silent(e, clock)
             \/ /\ est'.loss < LowLoss
                /\ \E x \in log' : est'.rate = Raised(x.rate)
      BY <1>4, <3>1
    <3>3. ~Silent(e, clock)
      BY <1>1, <3>1, LimitIs
    <3>4. NewReport
      BY <1>1, <1>6, <3>1, <3>2 DEF NewReport, HandleFeedback
    <3>5. MayCut(e, clock) => /\ est'.loss >= HighLoss
                              /\ clock >= est.decreaseTs + DecreaseInterval + est'.rtt
      BY <3>1, <3>2 DEF MayCut
    <3> QED BY <3>2, <3>3, <3>4, <3>5
  <2> QED BY <1>1, <1>6, <2>1, <2>2, FeedbackIs
<1>7. CASE Heartbeat
  <2>1. est' = Update(est, clock) /\ est.rate <= est.rate
    BY <1>1, <1>7 DEF Heartbeat
  <2>2. est.rate = Least(est.rate, Bounded(est, est.hi))
    <3>1. Limits(est) /\ Within(est, est.rate)
      BY <1>1 DEF Proper
    <3>2. /\ est.lo \in Nat /\ est.hi \in Nat /\ est.remb \in Nat /\ est.delay \in Nat
          /\ est.lo <= est.rate /\ est.rate <= est.hi
          /\ est.remb > 0 => est.rate <= Greatest(est.remb, est.lo)
          /\ est.delay > 0 => est.rate <= Greatest(est.delay, est.lo)
      BY <3>1 DEF Limits, Within
    <3> QED BY <1>1, <3>2 DEF Bounded, Below, Least, Greatest
  <2>3. /\ est'.loss = est.loss /\ est'.rtt = est.rtt
        /\ \/ est'.rate = Ceiling(est')
           \/ MayCut(est, clock) /\ 2 * (est'.rate + 1) > Least(est.rate, Ceiling(est'))
           \/ Silent(est, clock) /\ 5 * (est'.rate + 1) > 4 * Least(est.rate, Ceiling(est'))
           \/ /\ est'.loss < LowLoss
              /\ \E x \in log' : est'.rate = Raised(x.rate)
    BY <1>1, <1>4, <2>1, <2>2
  <2>4. MayCut(est, clock) => /\ est'.loss >= HighLoss /\ ~spent
                              /\ clock >= est.decreaseTs + DecreaseInterval + est'.rtt
    <3>1. spent => est.decreased
      BY DEF RateInv
    <3> QED BY <2>3, <3>1 DEF MayCut
  <2>5. Silent(est, clock) => clock > est.feedbackTs + TimeoutIntervals * FeedbackInterval
    <3>1. Silent(est, clock) => clock - est.feedbackTs > Limit
      BY LimitIs
    <3>2. Limit \in Nat
      BY LimitIs
    <3>3. Silent(est, clock) => clock > est.feedbackTs + Limit
      BY <1>1, <3>1, <3>2
    <3> QED BY <3>3 DEF Limit
  <2> QED BY <2>3, <2>4, <2>5
<1>8. ~Tick /\ ~UNCHANGED vars
  BY <1>1 DEF Tick, vars
<1> QED BY <1>5, <1>6, <1>7, <1>8 DEF Next

\* FallsHaveCause: the rate falls when the user sets it, to an estimate, once for a report
\* of much loss and by a half at most, by a fifth in silence, or to a raise of the least
\* rate of the last second.
THEOREM FallsCorrect ==
    ASSUME LimitsFit
    PROVE  Spec /\ []NoWrap => FallsHaveCause
<1>1. Spec => []RateInv
  BY RateCorrect
<1>2. RateInv /\ NoWrap /\ [Next]_vars =>
        [est'.rate < est.rate =>
            \/ ByUser
            \/ est'.rate = Ceiling(est')
            \/ /\ est'.loss >= HighLoss
               /\ ~spent \/ NewReport
               /\ clock >= est.decreaseTs + DecreaseInterval + est'.rtt
               /\ 2 * (est'.rate + 1) > Least(est.rate, Ceiling(est'))
            \/ /\ clock > est.feedbackTs + TimeoutIntervals * FeedbackInterval
               /\ 5 * (est'.rate + 1) > 4 * Least(est.rate, Ceiling(est'))
            \/ /\ est'.loss < LowLoss
               /\ \E x \in log' : est'.rate = Raised(x.rate)]_vars
  BY FallsStep
<1> QED BY <1>1, <1>2, PTL DEF Spec, FallsHaveCause
=============================================================================
