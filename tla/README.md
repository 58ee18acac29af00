# A TLA+ model of razor's media transport

This directory models the core of the repository: `razor`, the C implementation of WebRTC-style
real-time video transport that lives under `src/razor-ns3/model/razor`, and the multipath video
application of `src/multipathvideo`.  It has TLA+ modules for the signalling of a session, the media
path between a sender and a receiver, the pacer, the transport feedback and the rate control behind
congestion control, and for one stream over several paths; TLC configurations that check them on small
instances; and proofs, checked by TLAPS, for every value of their constants.

Paths below are relative to `src/razor-ns3/model/razor` unless they start with `src/`.

    tlc -workers 2 -config SimSession_safety.cfg MCSimSession.tla     one run
    tlapm PaceSender_proofs.tla                                       one module's proofs

## 1. The system

### What is in the repository

| component | where | state | operations |
|---|---|---|---|
| session | `sim_transport/sim_session.c` | state, sender, receiver, `interrupt`, `resend`, `commad_ts`, `cid`, `peer` | connect, disconnect, send/receive video, set bitrates, destroy; one handler per message; heartbeat with two timers |
| sender | `sim_transport/sim_sender.c` | id seeds, `base_packet_id`, cache of segments | put a frame, SEG_ACK, FEEDBACK, send callback of the pacer |
| retransmission limiter | `sim_transport/sim_limiter.c` | a rate window | try, update, set rate |
| receiver | `sim_transport/sim_receiver.c` | ring of frames, `base_seq`, `max_seq`, list of lost packets | put a segment, get a frame, timer, reset |
| codec | `sim_transport/sim_proto.c` | none | encode and decode messages |
| pacer | `pacing/pacer_queue.c`, `pace_sender.c`, `interval_budget.c` | list, skip list, `total_size`, `oldest_ts`, byte budget | insert, set rate, transmit |
| ALR detector | `pacing/alr_detector.c` | a second budget, `alr_started_ts` | bytes sent, set rate |
| transport feedback | `estimator/sender_history.c`, `feedback_adapter.c`, `remote_estimator_proxy.c`, `cc_loss_stat.c` | histories of sent and received sequence numbers | record, report, match |
| rate control | `estimator/aimd_rate_control.c`, `bitrate_controller.c`, `sender_bandwidth_estimator.c`, `ack_bitrate_estimator.c`, `rate_stat.c` | rates, phases, windows | on report, on overuse, heartbeat |
| delay filters | `estimator/inter_arrival.c`, `kalman_filter.c`, `trendline.c`, `overuse_detector.c`, `delay_base_bwe.c`, `remote_bitrate_estimator.c` | floating point filters | on packet |
| congestion controllers | `cc/` | the objects above | glue: heartbeat, add packet, on feedback |
| containers | `common/` | skip list, list, stream, 16-bit unwrapper, crc | |
| ns-3 port of razor | `src/razor-ns3/model/*.cc` | a reduced session, sender and receiver on simulator events | |
| multipath video | `src/multipathvideo/model` | state, queue, budget and timers of each path; the shared buffer of packets | start, stop, generate a frame, connect again, answer, pace out |
| SCReAM, NADA, WebRTC | `src/scream`, `src/nada`, `src/webrtc-ns3`, `src/webrtc-lib` | other congestion controllers, mostly copies of other projects | |

### How the parts interact

Every host runs one session with one loop thread (`sim_session_loop_event`): it takes a datagram
off the socket and handles it, and every 5 ms it runs the heartbeat.  The application's threads
call connect, disconnect, send and receive.  All of them take `session->mutex`, but for
`sim_session_set_bitrates`.  So one call, one datagram and one heartbeat are atomic, and what
interleaves is their order, the network, and the one call that does not lock.

A call goes one way: the caller's CONNECT creates a receiver at the callee, the callee's
CONNECT_ACK a sender at the caller.  The application puts frames into the sender, which cuts them
into numbered segments, keeps them in a cache and queues their numbers in the pacer.  The pacer's
callback looks a number up in the cache and sends the segment.  The receiver puts segments in a
ring of frames, lists the numbers it skipped, and acknowledges: a SEG_ACK carries `base_packet_id`,
up to which the sender may forget, and the numbers to be sent again.  FEEDBACK carries the base
too, for the congestion controller.  The application takes frames out in order, and frames that
are too late are evicted up to a key frame.

Congestion control is a second loop through the same two hosts.  The pacer's send callback gives every
transmission a 16-bit number and records it (`sender_history.c`); the receiver's proxy records when each
arrived and feeds the times back (`remote_estimator_proxy.c`), together with a count of what was lost
(`cc_loss_stat.c`); the sender matches the report with its record (`feedback_adapter.c`) and gives it to
the estimators.  What they find, what the receiver estimates (REMB) and the reported loss meet in
`sender_bandwidth_estimator.c`, on every report and on every heartbeat; `bitrate_controller.c` and
`sender_congestion_controller.c` tell pacer, encoder and limiter of the rate that comes out.

The multipath application is a simulation of its own: one sender connects several paths, cuts every
frame into packets, keeps them in one buffer and queues their numbers on every connected path, which
paces them out by itself.

### What is hard about it

* Two timers, the command timer (1000 ms) and the ping timer (250 ms), share `commad_ts` and
  `resend`, so each disturbs the other's counting.
* UDP loses, repeats and reorders; nothing but CONNECT and DISCONNECT carries a call id, and nobody
  compares it.  Segments, acknowledgements and commands of a call arrive after it ended.
* `base_packet_id` is computed at the receiver from what was stored, played and evicted, travels
  in messages that may be late, and frees memory at the sender.
* The ring's slots are used again; a free slot and a frame of which nothing came look the same.
* Pacer packets are sent by number and freed in the order they came; a byte count, a time and
  a budget are kept beside two containers.

* Three unwrappers read the same 16-bit numbers in three orders (of sending, of arrival, of reports), each with
  its own gaps, repetitions and stragglers; one that errs by a turn files a packet under the number of another.
* The proxy's window moves back for a late packet and forward with each report, and throws records away in between.
* The rate is changed by reports, heartbeats, silence and the user, under limits that each of them moves; products of rates are
  computed in 32 bits; whoever uses the rate holds a copy of it.
* A path is connected while frames are queued on others, packets are freed when the last path sent them, and a CONNECT
  that is repeated may be answered twice.

### What makes each part correct

Session: a sender and a receiver exist exactly when the application may use them; nothing is given
up while the peer is heard, and nothing is kept for long once it is not; a vanished peer is noticed.  Media path:
frames come out in order, at most once, and only if they went in; the sender keeps what may still
be asked for and the receiver forgets no gap; a frame whose packets can still be had comes out.
Pacer: every queued packet is sent once and in order, in bounded bursts, within the time the queue
promises.  Feedback: every number stands for one transmission, every arrival is reported, none twice, and losses are
not overstated.  Rate control: the rate rises slowly and falls for a cause, silence lowers it, and everyone who uses it knows
it.  Multipath: each path is connected once and sends every packet once and in order.  Section 3 says which property states which of these.

The hazards of the code, at their lines and with the properties that watch them, are listed in
`PROJECT.json`, those no property covers yet with the reason.

## 2. The modules

    SessionLifecycle  <- implemented by -  SimSession        - MCSimSession
                                           SimSession_proofs
    FrameChannel      <- implemented by -  SimTransport      - MCSimTransport
                                             extends SimReceiver - MCSimReceiver
                                                       extends FrameCache
                                           SimTransport_proofs
    PacketBag         <- implemented by -  PaceSender        - MCPaceSender
                                           PaceSender_proofs
    PacketReports     <- implemented by -  TransportFeedback - MCTransportFeedback
                                             extends EstimatorProxy
                                                       extends LossStatistics
                                                       extends SeqUnwrapper
                                           TransportFeedback_proofs, SeqUnwrapper_proofs
                                           RateControl       - MCRateControl
                                             extends SenderEstimation
                                           RateControl_proofs
                                           Multipath         - MCMultipath
                                           Multipath_proofs

**SimSession** is `sim_session.c` at every host of a network.  Its variables are the fields of
`sim_session_t` as functions of the host, and `net`, the datagrams in flight.  An action is one API
call (`Connect`, `Disconnect`, `SendVideo`, `Destroy`), one handler of `sim_session_process`
(`ReceiveConnect`, ...), which includes what happens before and after its switch (`Heard`,
`Recovered`), or one outcome of a heartbeat (`CommandAgain`, `Ping`, `GiveUp`, `Wait`).
`SetBitratesTest` and `SetBitratesUse` are the two halves of the call that does not lock.  Time
is `age`, the whole ping periods since `commad_ts`.  `silence` and `playing` are history: how long
nothing was heard (told apart up to `MaxSilence`), and what the application was told.

**SessionLifecycle** is what the application sees of it: the phases, whether video flows (`flowing`), and whether it has destroyed the
session (`alive`).  On a session that lives, video of a connected call stops only by `Cut`, which needs a silence of `CutAfter`, by hanging
up, or by a destruction, which happens once; it comes back (`Resume`), and a call is answered or ended by the peer, only in a step that hears
the peer; and a session expires only after `ExpireAfter` periods, with no video flowing any more.

**FrameCache** has the functions of `sim_frame_cache_t` as operators: `Clean`, `EvictFrame`,
`EvictGop`, `CachePut` and `Playable` are the C functions of like names.  The video (which frames
are key frames, which have two packets) is a constant; packets are numbered through as
`sim_sender_put` does.

**SimReceiver** is `sim_receiver_t` around that ring: `Arrive` is `sim_receiver_put`,
`ArriveAndAck` the same when the real-time acknowledgement is due, `TimerAck` the acknowledgement of
the timer, `Play` and `Trim` are `sim_receiver_get` with and without a frame as its result, and
`Restart` is the reset by a second CONNECT.  All clocks are choices: which listed packet has waited
long enough, whether the buffer is too long, whether a frame's time has come.

**SimTransport** adds the sender and a network with faults in both directions.  The pacer is a set
of numbers, of which the least is sent; limiter and pacer may refuse any retransmission, at the
cost of a fault.  **FrameChannel** is what the two applications see of it.

**PaceSender** is the pacer with its bytes, rates and milliseconds.  `pace_try_transmit` is three
actions, `BeginTransmit`, `Send` for each packet, `EndTransmit`, between which nothing else happens
(they run under the mutex); `Tick` lets time pass.  **PacketBag** is what it promises: each packet
once, the least number first.

**SeqUnwrapper** is `cf_unwrapper.c` (`Wrap` is `wrap16_update`), with `2 * Half` numbers for the code's 2^16.  **LossStatistics** is
`cc_loss_stat.c`: `LossIncoming`, and `LossDue`, `Lost` and `LossReset` for `loss_statistics_calculate`.  **EstimatorProxy** is `remote_estimator_proxy.c` and the heartbeat of the receiver's
congestion controller: `Incoming` is `estimator_proxy_incoming`, `Sampled` what `proxy_bulid_feelback_packet` puts in a message.
**TransportFeedback** adds the sender and the network: `Send` numbers and records a transmission (`sender_history_add`),
`HandleFeedback` takes the reported packets out of the history (`feedback_on_feedback`, `sender_history_get`).  `arrivals`, `reported`
and `told` are history.  **PacketReports** is what the congestion controller is promised: of each packet at most
one arrival time, and a true one.

**SenderEstimation** is `sender_bandwidth_estimator.c`: a record with the fields of `sender_estimation_t`, and an operator for
each of its functions.  **RateControl** is the sender's congestion controller around it: a feedback message (`HandleFeedback`: REMB, loss report, round
trip time and delay estimate, in the order of `sender_on_feedback`), the heartbeat, `SetBitrates`, and the notification of pacer, encoder and
limiter (`Trigger` is `maybe_trigger_network_changed`; `note` is what they were told).  The delay-based estimate is an
input: any of a few rates at any message.  `log` is history: the rates of all updates of the last second.

**Multipath** is `mpsender.cc` and `path.cc`, with the answers of the receiver.  An action is one event of the
simulator.  `comp_path`, by which the code's `std::map` orders the paths, is there with its last clause as it is written.

**NumberFacts** has what several proof modules need: a set of natural numbers that is not empty has a least, one that has a bound has a greatest,
and the sum over a finite set (`MapThenSumSet`), whose recursion is shown to have exactly one solution (`SumExists`, `SumIsUnique`).

Operators that only mutants use (`...Keeps`, `...Saved`, `StaysInterrupted` and so on) stand before
the definition they replace and are described in its comment: each is a plausible mistake in that
piece of code, with which the property named in `PROJECT.json` fails.

## 3. The runs

### Session

* **session_safety** (`SimSession_safety.cfg`, 700 000 states): both hosts call.  `TypeOK`; `CallIsConsistent`
  ties sender and receiver to the state and to what the application was told, and says that whoever must send has an
  address; `InterruptIsHonest`: the interrupt flag neither outlives the silence nor goes unprobed;
  `NoFalseTimeout`: the shared counter never ends a session early; `NoLateTimeout`: nor late, the silence in which a session still pings or
  repeats a command is bounded, whichever timer postpones the other; `ImplementsLifecycle`.  Nobody is destroyed in this run.
* **session_peerloss** (300 000 states): both hosts call, so a session has a sender, a receiver or both, and one of them may be destroyed at any
  moment, with datagrams still in flight.  Under fair heartbeats alone, `PeerLossDetected` and `InterruptResolves`.
* **session_stuck** (finds a violation of `DisconnectResolves`): a lost DISCONNECT is never repeated
  while the session has a sender, because the ping timer renews `commad_ts` before the command timer
  expires; the peer's PONGs keep `resend` at 0, so the session never gives up.  By the same mechanism a host that is called while it
  connects may never repeat a lost CONNECT: its receiver pings, and the pings are answered.  That a call which is being set up ends in
  an answer is therefore not claimed; `NoLateTimeout` says what does hold, that it ends when the peer is silent.

### Media path

* **receiver_safety** (`SimReceiver_safety.cfg`, 227 000 states): eight frames in groups of three, two of
  them of two packets, over a ring of four slots, in every order, with losses, repetitions, evictions,
  acknowledgements and one reset.  `SlotsHoldTheirFrame` is about the ring; `PlaysForward`: frames come out in order and
  neither `min_fid` nor `base_seq` goes back; `NothingWantedIsAcknowledged`: `base_seq` covers only what was stored or passed
  over; `LossListIsExact`: the list has every gap and nothing that is stored; `ReceiverTypeOK` bounds the requests.
* **transport_safety** (378 000 states): three frames, a ring of two slots, two acknowledgements in flight, two faults.
  `WindowsFit`: the sender's cache is what was put and not acknowledged, and what the receiver asks for is in it, however
  late an acknowledgement is;
  `NothingVanishes`: a packet is stored, passed over, or still in the sender's cache; `ImplementsChannel`.
* **transport_repair** (22 000 states): `FramesComeOut`, play-out and repair together under fairness.

### Pacer

* **pacer_safety** (4.3 million states): two full packets that come in either order, and again, and two rates.
  `QueueIsConsistent` and `TotalIsUnsent` relate list, skip list, `oldest_ts` and byte count; `BurstIsBounded`: what one call sends; `ImplementsBag`; `NothingWaitsTooLong`: after a transmission no
  packet has waited longer than `max_que_ms`, which is the interplay of the rate that grows with the queue's age, the
  budget and the order of sending.

### Feedback and rate

* **feedback_safety** (1.8 million states): nine transmissions, whose numbers wrap after six, over a network that loses,
  reorders and repeats; several feedback messages are made, also of numbers behind the wrap, and each may come late or twice.  `NumbersAreTrue`: no record of either side is filed under another's number; `NoneSkipped`: what arrived is reported
  unless its record was old; `HistoryIsRecent`; `LossNotOverstated`; `ImplementsReports`.
* **rate_safety** (1.4 million states): every order of feedback messages with and without losses, heartbeats and one change of the
  bitrates.  `EstTypeOK` keeps the rate within the limits of the user and of the estimates; `HistoryIsMinimum`: the queue of least rates has
  the least of the last second at its head; `EveryoneIsTold`; `SilenceIsNoticed`; `RisesArePaced` and `FallsHaveCause`: every change of
  the rate is one the code means, of the size it means, and a loss is answered once.
* **rate_rise** (violation of `LittleLossNeverLowers`): the start phase takes the rate up to the receiver's estimate but leaves the old rate
  in the queue of least rates, so the next report without loss takes it down again.
* **rate_overflow** (violation of `CutIsInProportion`): the product of rate and loss wraps in 32 bits; `Word` is that limit in the run's unit.

### Multipath

* **multipath_safety** (22 800 states): two paths, two frames of two packets, CONNECTs and answers lost and late, a stop at any moment.
  `OnePacer`: a connected path has one pacer; `EveryPathSendsAll`: it sends every packet since it was connected, once and in order;
  `AssertionsHold`: until the stop the assertions of `OnPacePacket` and `GetPath` hold (those of `Schedule` and `FrameSplit` compare
  configured sizes, or look up what was inserted just before, and are not modelled); `EveryPathConnects` and `QueuesDrain` under fairness.

### The bounds, and why they are enough

* Session: two hosts, as a session has one peer.  The limits keep the order of the code's: a command period is two ping periods (four in
  the code), giving up takes two commands (ten), the interrupt comes before giving up.  `PingTries` is 4 for the code's 40, as long as the
  command's tries, but in session_peerloss, where two pings give up.  Only in session_peerloss is a session destroyed and
  are bitrates set by a second thread.  `MaxSilence` bounds the history `silence` just above what `NoLateTimeout` allows; the runs whose properties do not
  mention silence have 0.
  `MaxCid` lets calls follow each other, so that messages of an earlier one are stale; `NetCap` and `MaxDups` bound
  the network, not the code: a full network loses, which UDP may do anyway.  `MaxStall` < `CommandTick`: no
  heartbeat is late by a command period; `NoFalseTimeout` needs it.
* Ring: shorter than the video, so slots are used again; with `Size` 4 and 2 an eviction happens both with and
  without a key frame in the ring.  `WithinRing` excludes packets that are a whole ring late or early (1024 frames
  in the code, some 40 seconds of video): they would share a slot with another frame.  It is an assumption
  about the network; what happens without it is listed as a hazard.
* `MaxNack` is 1 to 3 for the code's 30, `NackNum` 2 for its 80.  In transport_repair `MaxNack` > `MaxFaults`: a
  packet that fails as often as it may be asked for is never asked for again, in the code as in the model.
* Pacer: two packets are enough for every order of arrival and sending, and for a retransmission of what was
  sent and not yet freed; packets are of full size, rates those of the code's minimum and four times that.  Ages are counted just beyond `max_que_ms`.  `Tick` is
  30 ms, the longest interval for which `pace_try_transmit` credits budget: with later heartbeats the pacer
  may fall behind its promise.

* Feedback: `Half` 3 and nine numbers, so numbers wrap within the call and there are messages on both sides of the wrap.  A transmission is made only while everything still under way is
  less than `Half` numbers behind it (`Near` of the code's 32768: a minute of video at least); that is the assumption about the network without which
  no unwrapper of this kind works.  `StampMod` is greater than any time of the run.  Time is counted in send intervals.
* Rate: a unit is some 1.3 Mbps, so rises of 8 % and cuts of a fifth can be told apart in integers; in rate_safety `Word` is out of reach, in
  rate_overflow it is 2^32 in that unit.  Six steps of time hold a start phase, a timeout and the gap after a cut.  `DecreaseInterval` is 0
  with a round trip of 1, `LimitPackets` 2 for the code's 20.
* Multipath: `NetCap` 1, since a CONNECT is repeated whether or not the last was lost.  `LocalPort` is not below
  `RemotePort`: `comp_path` compares a source port with a destination port, and with a sender's port below the receiver's no path is
  found again (in the simulations the sender's is ephemeral).  `Garbage` is what the uninitialised `m_byteRemaining` may hold: nothing, a debt or a credit.
* The runs of session, feedback, rate and multipath switch the deadlock check off: their bounded clocks, calls and frames run out.

### Fairness

* The loop thread never stops: weak fairness of the heartbeat (`TimedSpec`), and, in `FairTransport`, of
  the pacer, of receiving what is in flight and of handling acknowledgements.  The application keeps reading (`Play`).
* `NetworkFairness` says that the network does not lose every datagram of a type that is sent again and again: strong
  fairness of hearing one.  `FairSpec` (session_stuck) has it of every type, so the violation is not the network's; the properties of
  session_peerloss do without it: noticing silence must not depend on luck.
* Multipath: the simulator runs every event that is scheduled (weak fairness of frames, CONNECT timers and pacers), and a link does not lose
  every CONNECT and every answer (strong fairness of `Answer` and `HandleAck`).
* In `FairTransport` asking for a packet (`AskFor`) is strongly fair because `AckCap`, a bound of the model, may disable it over and over;
  the code's socket has no such bound.  `Patient` stands for the rtt estimate: a request is repeated only when its
  answer is no longer on its way.  Without it the 30 requests can be used up before the first answer, which is so in the code too.

## 4. The proofs

**SimSession_proofs**, for all hosts, limits and bounds.  The invariants need each other: a handler sends a well-formed
datagram because the session knows its peer, it knows its peer because it has a sender only inside a call, and so
on.  `IInv` is therefore `TypeOK`, the parts of `CallIsConsistent` and `InterruptIsHonest` (`SenderMatchesState`, `PeerKnown`, `InterruptIsProbed`, `ReceiverIsPlaying`) and
`SilenceCounted`: in a connected session `resend` counts pings only, one for each silent period, so it measures
the silence, and the interrupt flag is set exactly while it is past `InterruptPings`.  Each action preserves it in a lemma of its own.  `TypeCorrect`, `CallCorrect` and
`InterruptCorrect` follow.  `TimeoutCorrect`, `TimeoutComes` and `LifecycleCorrect` need more (`TimersCounted`: commands count for a whole
command period of silence, also when pings are mixed in), and the assumption `Timely`: heartbeats are
less than a command period apart, a command period is not longer than its share of the give-up time, and the history `silence` is
not cut short before that time.  `TimeoutComes` is `NoLateTimeout`, by `NotLate`: of a session that pings, the silence is at most what its
tries account for, `MaxStall` periods each; of one that only repeats a command, `Slowest` periods for each try and the age of the last.  `LifecycleCorrect` has one case for each way in which phase or video changes: an expiring session has
made all its pings, more than `InterruptPings`, so its flag is set and its video already cut (`ExpiresCut`); a flag that is set was set by a
ping after that much silence, and is cleared, like a call is answered or ended, only by a datagram.

**SimTransport_proofs**, for any video (which frames are key frames and which are big), ring, limits and faults.  It goes up in three
layers.  `Ring` says of the buffer that every slot in use holds packets of the one frame its `fid` names, and that the frames in use lie
within one ring ahead of `min_fid`.  That is why cleaning goes forward: two frames with one slot are a whole ring apart (`Congruent`), so
the slot that `real_video_clean_frame` empties for a frame is that frame's (`MeantSlot`), also in the first loop of
`real_video_evict_frame`, which counts from above `max_fid` and so finds the oldest frames one ring below.  `CleanRange` is a recursive
function; that there is one, and that it is a loop, is shown by least counterexample (`LoopExists`, `CleanRangeIs`).  `Sound` says of the
receiver that the ring holds only what was stored, and that a packet up to `max_seq` is stored, listed or passed over, up to `base_seq`
not even listed; `PutStored`, `PutRefused`, `AckGood`, `ForwardGood` and `PlayIs` show that every call keeps it (`ReceiverInvariant`).
`ReceiverTyped`, `SlotsAreClean`, `AcknowledgedIsDone`, `LossListHolds` and `PlaysGoForward` follow.  `TInv` adds the sender: its cache is a
window between its base and its seed, and no acknowledgement in flight, however old, is ahead of the receiver.  From it come
`WindowsAlwaysFit`, `PacketsDoNotVanish` and `TransportIsChannel`, the refinement of FrameChannel.  They hold under `WithinRing` (section 3),
which is in the model's guards.

**PaceSender_proofs**, for all packets, sizes, rates and intervals.  `IInv` is `TypeOK`, `ListIsCache`, `HeadIsUnsent` and
`AgesInOrder` (the list is in the order of arrival and `oldest_ts` is its head's).  The argument turns on the two walks of the code:
the one through the skip list finds the least unsent number because the head of the list is one (`FrontIsLeastUnsent`), and the one
through the list stops at the first packet that is still to be sent (`FirstUnsentStops`), so the head is unsent again.
`TypeCorrect` and `QueueCorrect` follow; `BurstCorrect` adds `BudgetCounted`
(what was sent and what is left of the budget are within the rate's share of `k_max_interval_ms`), and
`BagCorrect` shows that every step is a step of PacketBag or leaves it alone.  `TotalCorrect`: the byte count is the sum of what is unsent, by the
sums of NumberFacts.  `DelayCorrect` is `NothingWaitsTooLong`.  Its argument: a queue that is late is emptied by one transmission,
since the rate is then computed for an interval of 1 ms, so `k_min_packet_limit_ms` of it pays for the whole queue and for what the budget owes
(`LateIsPaid`), if that debt is less than a packet (`DebtIsOnePacket`) and no packet is too large for the smallest one: `DebtIsPaid`, with
the code's 5 ms sizes within a factor of 4.  That is so for full segments; the last segment of a frame can be shorter, and one that
arrives alone at a low rate may wait longer than `max_que_ms` for the debt of a full one.

**SeqUnwrapper_proofs**, for any modulus: `WrapIsExact`, the unwrapper recovers every number that is less than `Half` away from the last one,
in either direction and across any number of wraps.  No induction is needed: where a library induction theorem would be used, the proofs
here take a least counterexample (`LeastNatural` of NumberFacts).

**TransportFeedback_proofs**, for any modulus, windows, length of the call and number of faults.  The invariant says of each of the three
unwrappers that all it can still meet is within `Half` of the next transmission (so `WrapIsExact` applies), and that every record is filed
under the number of the transmission it is about: `FeedbackInvariant`, `NumbersCorrect`.  `HistoryCorrect` adds that the history is in order
of time, `ArrivalsCorrect` follows the proxy's window, `LossCorrect` counts: arrivals in the window are at most those
counted (`Counted`).  `ReportsCorrect` is the refinement of PacketReports, by `Untold`: what is still in the history was not told;
and `Truthful`: each sample of a message tells a time at which its packet arrived.  It assumes `[]SpansFit`: the arrivals that one message
carries lie less than 2^16 ms apart, which is what its 16-bit differences can hold; the call itself may be of any length.  In the code this fails only
after a gap of more than a minute with fewer than three records waiting, whose old records then share a message with new ones, a listed hazard.

**Multipath_proofs**, for any paths, budgets and frames, assuming `RemotePort <= LocalPort` (above).  `MultipathInvariant`: what a path has sent and
queued are the last packets in order, and the queued ones are in the buffer; `PacersCorrect`, `PathsCorrect` and `NoAssertionFails` follow.
`MultipathTypeCorrect` adds that a path never owes more than one packet, or than the uninitialised budget it was created with.  For this the bytes
of a prefix of the queue, a fold in the model, are shown to be a sum (`BytesIs`): the callback sends the shortest prefix that uses the
budget up, so all but its last packet fitted (`PaceKeepsDebt`).

**RateControl_proofs**, for any rates, limits and times.  `ListenersCorrect` (`EveryoneIsTold`, for a positive notification interval) and `SilenceCorrect`
(`SilenceIsNoticed`, if the start phase and a feedback interval fit in the timeout, as in the code: 2 s and 5 s against 15 s)
hold for any inputs: the second follows only the times of the estimation, which most of its functions leave alone (`SameTimes`).
The others rest on `RateInv`.  It says of the estimation that its rate is within its limits (`Proper`) and its counters below a
report (`Counted`), and of the queue of least rates that it is in order of time and of rate and not older than a second
(`Queued`) and holds only updates that are in `log` (`Listed`).  `EstTypeCorrect` follows.  `HistoryCorrect` adds that each update in `log` is undercut
by an entry of the queue (`Covered`): the entries taken from its end are not less than the new one.  An update ends in one of five ways
(`Jumped` to the estimates, `Held`, `Lifted`, `CutDown`, `Waned`); from these come `RisesCorrect`, with the queue's head as the least rate, and
`FallsCorrect`.  What they assume:

* `LimitsFit`: no lower limit is above `k_max_bitrate_bps`; otherwise `sender_estimation_set_bitrates` and the caps contradict each other.
* `RoomLeft` (`HistoryCorrect`, `RisesCorrect`): the ring of `MIN_HISTORY_ARR_SIZE` (128) entries is not full.  A full one gives up its oldest entry,
  which is the least rate.  Only updates of the last second with increasing rates stay, so it takes more than a hundred
  rising reports a second to fill it.  It holds in every state of rate_safety.
* `NoWrap` (`FallsCorrect`): 512 times the rate is below 2^32, which is 8.4 Mbps.  Above that the cut wraps, which is what rate_overflow shows.

All rest on the assumptions that stand beside the constants (`SessionAssumption`, `PaceAssumption`, ...), which every run evaluates.

Only model-checked: the liveness properties (`PeerLossDetected`, `InterruptResolves`, `FramesComeOut`, `EveryPathConnects`,
`QueuesDrain`), as the proof system does not treat ENABLED and so no fairness; and the three violations.  Every invariant and every
action property of the passing runs is stated by a theorem, as are the four refinements.

## 5. Not modelled

* The limiter's window, rtt estimation, play-out timing and the adaptive wait timer are choices
  in the models: any outcome they can have is allowed.
* The codec's bytes and skip list and list as such: messages are records, containers are sets and sequences.
* The delay filters and the AIMD controller: floating point; what they decide is an input of RateControl, any rate at any message.  The acknowledged
  bitrate likewise.  The round trip times that the feedback adapter keeps are left out.
* The ALR detector: a second interval budget that only starts and ends probing by the delay estimate.
* The value the limiter and the encoder make of the rate (shares of it, a reserve for retransmission): arithmetic without state.
* The branch of `receiver_cc_on_received` for segments without remb: `sim_sender_put` always sets it (`sim_sender.c:227`).
* Multipath: the numbering of transmissions, probes, and the receiver's own map of paths and its log.
* The composition of SimSession and SimTransport over calls that follow each other: a segment carries no call id, which is a listed hazard.
* The ns-3 port of razor: a reduced variant of the C code, without retransmission.
* SCReAM, NADA, webrtc-ns3 and webrtc-lib: copies of, or glue to, other projects; topologies, traces,
  codecs and example programs: input and output of simulations.

## 6. Plan

Done, in this order: signalling (the state everything hangs on), its lifecycle and proofs; ring and receiver; the media
path and its channel; pacer, bag and proofs; feedback, its abstract promise and proofs; rate control and two proofs; multipath and
its proofs; the proofs of the media path; those of the pacer's byte count and delay, of the rate and its history, and of the debt of a path.
Left, the most important first:

1. **SimCall**, which composes SimSession and SimTransport over calls that follow each other: a SEG, SEG_ACK or FEEDBACK of
   an earlier call (`sim_sender_feedback` takes `base_packet_id` unchecked).
2. **AlrDetector** on the interval budget: hysteresis and its division by the budget; and the AIMD controller with integer rates.
3. The ns-3 endpoint as a variant of SimSession.
