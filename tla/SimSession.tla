----------------------------- MODULE SimSession -----------------------------
(***************************************************************************)
(* The signalling state machine of razor's sim transport (sim_session.c):  *)
(* endpoints that run the same session code over UDP.  Every API call, the *)
(* handling of one datagram and one heartbeat are atomic, because the code *)
(* runs each of them under session->mutex; sim_session_set_bitrates alone  *)
(* does not take it and is two actions here.                               *)
(*                                                                         *)
(* Time is counted in ping periods (TICK_DELAY_MS / 4 = 250 ms): age[e] is *)
(* the number of whole ping periods by which now exceeds s->commad_ts.     *)
(* Media is abstract: a SEG stands for any message of the data path, which *)
(* changes nothing of the session but what every datagram changes.         *)
(***************************************************************************)
EXTENDS Naturals, FiniteSets

CONSTANTS
    Endpoint,       \* the hosts that run a session
    Callers,        \* those whose application calls sim_session_connect
    Setters,        \* those with a thread that calls sim_session_set_bitrates
    Mortal,         \* those whose application may destroy the session
    None,           \* the address of a session that has no peer yet
    PingTries,      \* 10000 / (TICK_DELAY_MS / 4): pings before giving up
    CommandTries,   \* 10000 / TICK_DELAY_MS: (dis)connects before giving up
    CommandTick,    \* ping periods in TICK_DELAY_MS
    InterruptPings, \* the 12 of sim_session_send_ping
    MaxStall,       \* bound: ping periods between two heartbeats of a session
    MaxSilence,     \* bound: ping periods of silence that the history tells apart
    MaxCid,         \* bound: resets of a session that get a cid of their own
    MaxDups,        \* bound: datagrams that UDP delivers a second time
    NetCap          \* bound: datagrams in flight

ASSUME SessionAssumption ==
    /\ Callers \subseteq Endpoint /\ Setters \subseteq Endpoint /\ Mortal \subseteq Endpoint
    /\ None \notin Endpoint
    /\ PingTries \in Nat /\ CommandTries \in Nat /\ InterruptPings \in Nat
    /\ 0 < CommandTries /\ CommandTries <= PingTries
    /\ InterruptPings < PingTries
    /\ CommandTick \in Nat \ {0} /\ MaxStall \in Nat \ {0}
    /\ MaxSilence \in Nat
    /\ MaxCid \in Nat \ {0} /\ MaxDups \in Nat /\ NetCap \in Nat

VARIABLES
    state, sender, receiver, interrupt, resend, age, cid, peer, up,
    setting,    \* set_bitrates has seen s->sender # NULL and is about to use it
    playing,    \* what notify_cb told the application: between start and stop
    silence,    \* history: ping periods since e heard anything or was called
    net, dups

fields == <<state, sender, receiver, interrupt, resend, age, cid, peer>>
vars   == <<fields, up, setting, playing, silence, net, dups>>

State     == {"idle", "connecting", "connected", "disconnected"}
Interrupt == {"net_normal", "net_interrupt", "net_recover"}
Cid       == 0 .. MaxCid
CallType  == {"CONNECT", "CONNECT_ACK", "DISCONNECT", "DISCONNECT_ACK"}
Message   == [type : CallType \cup {"PING", "PONG", "SEG"},
              from : Endpoint, to : Endpoint, cid : Cid]

AtMost(n, bound) == IF n < bound THEN n ELSE bound

\* sim_session_network_send: one datagram to s->peer; the socket buffer is finite.
Datagram(e, to, type, c) == [type |-> type, from |-> e, to |-> to, cid |-> c]
Queue(flight, m) == IF Cardinality(flight) < NetCap THEN flight \cup {m} ELSE flight

\* rand() for s->cid: the next call id, until they run out.
NextCid(c) == AtMost(c + 1, MaxCid)

Init ==
    /\ state = [e \in Endpoint |-> "idle"]
    /\ sender = [e \in Endpoint |-> FALSE]
    /\ receiver = [e \in Endpoint |-> FALSE]
    /\ interrupt = [e \in Endpoint |-> "net_normal"]
    /\ resend = [e \in Endpoint |-> 0]
    /\ age = [e \in Endpoint |-> 0]
    /\ cid = [e \in Endpoint |-> 1]
    /\ peer = [e \in Endpoint |-> None]
    /\ up = [e \in Endpoint |-> TRUE]
    /\ setting = [e \in Endpoint |-> FALSE]
    /\ playing = [e \in Endpoint |-> FALSE]
    /\ silence = [e \in Endpoint |-> 0]
    /\ net = {} /\ dups = 0

\* The end of sim_session_reset; the mutant forgets the sender.
FreeMediaReceiverOnly(e) ==
    receiver' = [receiver EXCEPT ![e] = FALSE] /\ UNCHANGED sender
FreeMedia(e) ==
    /\ sender' = [sender EXCEPT ![e] = FALSE]
    /\ receiver' = [receiver EXCEPT ![e] = FALSE]

\* sim_session_reset: everything but s->peer; the sender and receiver go.
Reset(e) ==
    /\ state' = [state EXCEPT ![e] = "idle"]
    /\ cid' = [cid EXCEPT ![e] = NextCid(@)]
    /\ resend' = [resend EXCEPT ![e] = 0]
    /\ age' = [age EXCEPT ![e] = 0]
    /\ interrupt' = [interrupt EXCEPT ![e] = "net_normal"]
    /\ FreeMedia(e)

-----------------------------------------------------------------------------
(* The application's calls.                                                *)

\* sim_session_connect and the first sim_session_send_connect.
Connect(e, p) ==
    /\ up[e] /\ e \in Callers /\ p # e /\ cid[e] < MaxCid
    /\ state[e] = "idle"
    /\ state' = [state EXCEPT ![e] = "connecting"]
    /\ peer' = [peer EXCEPT ![e] = p]
    /\ resend' = [resend EXCEPT ![e] = 1]
    /\ age' = [age EXCEPT ![e] = 0]
    /\ silence' = [silence EXCEPT ![e] = 0]
    /\ net' = Queue(net, Datagram(e, p, "CONNECT", cid[e]))
    /\ UNCHANGED <<sender, receiver, interrupt, cid, up, setting, playing, dups>>

\* sim_session_disconnect and the first sim_session_send_disconnect.
Disconnect(e) ==
    /\ up[e] /\ state[e] \in {"connecting", "connected"}
    /\ state' = [state EXCEPT ![e] = "disconnected"]
    /\ resend' = [resend EXCEPT ![e] = 1]
    /\ age' = [age EXCEPT ![e] = 0]
    /\ silence' = [silence EXCEPT ![e] = 0]
    /\ net' = Queue(net, Datagram(e, peer[e], "DISCONNECT", cid[e]))
    /\ UNCHANGED <<sender, receiver, interrupt, cid, peer, up, setting, playing, dups>>

\* sim_session_send_video: refused unless connected, and while interrupted.
VideoAccepted(e) == state[e] = "connected" /\ interrupt[e] # "net_interrupt" /\ sender[e]

SendVideo(e) ==
    /\ up[e] /\ VideoAccepted(e)
    /\ net' = Queue(net, Datagram(e, peer[e], "SEG", 0))
    /\ UNCHANGED <<fields, up, setting, playing, silence, dups>>

\* sim_session_set_bitrates tests s->sender without the mutex ...
SetBitratesTest(e) ==
    /\ up[e] /\ e \in Setters /\ ~setting[e] /\ sender[e]
    /\ setting' = [setting EXCEPT ![e] = TRUE]
    /\ UNCHANGED <<fields, up, playing, silence, net, dups>>

\* ... and then calls into it.
SetBitratesUse(e) ==
    /\ up[e] /\ setting[e]
    /\ setting' = [setting EXCEPT ![e] = FALSE]
    /\ UNCHANGED <<fields, up, playing, silence, net, dups>>

\* sim_session_destroy, by an application that no longer calls into the session.
Destroy(e) ==
    /\ up[e] /\ e \in Mortal /\ ~setting[e]
    /\ up' = [up EXCEPT ![e] = FALSE]
    /\ FreeMedia(e)
    /\ UNCHANGED <<state, interrupt, resend, age, cid, peer, setting, playing, silence, net, dups>>

-----------------------------------------------------------------------------
(* sim_session_process: one datagram off the socket.                       *)

\* su_addr_to_addr; the mutant trusts the address that connect was given.
LearnNothing(e, m) == UNCHANGED peer
LearnPeer(e, m)    == peer' = [peer EXCEPT ![e] = m.from]

\* What every valid message does before the switch on its type.  The datagram
\* leaves the network, or UDP will deliver it once more (again).
Heard(e, m, again) ==
    /\ up[e] /\ m \in net /\ m.to = e
    /\ again => dups < MaxDups
    /\ LearnPeer(e, m)
    /\ silence' = [silence EXCEPT ![e] = 0]
    /\ dups' = IF again THEN dups + 1 ELSE dups
    /\ UNCHANGED <<up, setting>>

InFlight(m, again) == IF again THEN net ELSE net \ {m}

\* Mutants: the interrupt outlives the message, or the count of retries does.
StaysInterrupted(e) == resend' = [resend EXCEPT ![e] = 0] /\ UNCHANGED interrupt
KeepsCounting(e) ==
    /\ interrupt' = [interrupt EXCEPT ![e] = IF @ = "net_interrupt" THEN "net_recover" ELSE @]
    /\ UNCHANGED resend
Recovered(e) ==
    /\ resend' = [resend EXCEPT ![e] = 0]
    /\ interrupt' = [interrupt EXCEPT ![e] = IF @ = "net_interrupt" THEN "net_recover" ELSE @]

\* start_play_notify; the mutant tells only an application that made no call.
StartPlayIdle(e) == playing' = [playing EXCEPT ![e] = @ \/ (~receiver[e] /\ state[e] = "idle")]
StartPlay(e)     == playing' = [playing EXCEPT ![e] = @ \/ ~receiver[e]]

\* process_sim_connect: (re)starts the receiver whatever the state and the cid.
ReceiveConnect(e, m, again) ==
    /\ m.type = "CONNECT" /\ Heard(e, m, again) /\ Recovered(e)
    /\ receiver' = [receiver EXCEPT ![e] = TRUE]
    /\ StartPlay(e)
    /\ age' = [age EXCEPT ![e] = 0]
    /\ net' = Queue(InFlight(m, again), Datagram(e, m.from, "CONNECT_ACK", m.cid))
    /\ UNCHANGED <<state, sender, cid>>

\* The mutant takes a late ack in any state but "connected".
AckWelcome(e)  == state[e] # "connected"
AckExpected(e) == state[e] = "connecting"

\* process_sim_connect_ack: the peer's result is always 0, and its cid unread.
ReceiveConnectAck(e, m, again) ==
    /\ m.type = "CONNECT_ACK" /\ Heard(e, m, again) /\ AckExpected(e)
    /\ state' = [state EXCEPT ![e] = "connected"]
    /\ sender' = [sender EXCEPT ![e] = TRUE]
    /\ interrupt' = [interrupt EXCEPT ![e] = "net_recover"]
    /\ resend' = [resend EXCEPT ![e] = 0]
    /\ net' = InFlight(m, again)
    /\ UNCHANGED <<receiver, age, cid, playing>>

\* process_sim_disconnect: answers, and closes the receiver if there is one.
ReceiveDisconnect(e, m, again) ==
    /\ m.type = "DISCONNECT" /\ Heard(e, m, again) /\ Recovered(e)
    /\ receiver' = [receiver EXCEPT ![e] = FALSE]
    /\ playing' = [playing EXCEPT ![e] = @ /\ ~receiver[e]]
    /\ net' = Queue(InFlight(m, again), Datagram(e, m.from, "DISCONNECT_ACK", m.cid))
    /\ UNCHANGED <<state, sender, age, cid>>

\* process_sim_disconnect_ack: resets, and says nothing of the receiver it frees.
ReceiveDisconnectAck(e, m, again) ==
    /\ m.type = "DISCONNECT_ACK" /\ Heard(e, m, again)
    /\ state[e] = "disconnected"
    /\ Reset(e)
    /\ net' = InFlight(m, again)
    /\ UNCHANGED playing

ReceivePing(e, m, again) ==
    /\ m.type = "PING" /\ Heard(e, m, again) /\ Recovered(e)
    /\ net' = Queue(InFlight(m, again), Datagram(e, m.from, "PONG", 0))
    /\ UNCHANGED <<state, sender, receiver, age, cid, playing>>

\* PONG, the data path, and acks that come in another state.
ReceiveOther(e, m, again) ==
    /\ \/ m.type \in {"PONG", "SEG"}
       \/ m.type = "CONNECT_ACK" /\ ~AckExpected(e)
       \/ m.type = "DISCONNECT_ACK" /\ state[e] # "disconnected"
    /\ Heard(e, m, again) /\ Recovered(e)
    /\ net' = InFlight(m, again)
    /\ UNCHANGED <<state, sender, receiver, age, cid, playing>>

Lose(m) ==
    /\ m \in net
    /\ net' = net \ {m}
    /\ UNCHANGED <<fields, up, setting, playing, silence, dups>>

-----------------------------------------------------------------------------
(* sim_session_heartbeat, d ping periods after whatever happened before.   *)

Signalling(e) == state[e] \in {"connecting", "disconnected"}
Pinging(e)    == sender[e] \/ receiver[e]
Elapsed(e, d) == AtMost(age[e] + d, CommandTick)

\* A timer is due once commad_ts is more than its tick ago; the mutants leave the
\* CONNECT, the receiver's pings or an interrupted network's pings out.
ByeDue(e, d)     == state[e] = "disconnected" /\ Elapsed(e, d) >= CommandTick
CommandDue(e, d) == Signalling(e) /\ Elapsed(e, d) >= CommandTick

SenderPingDue(e, d) == ~CommandDue(e, d) /\ sender[e] /\ Elapsed(e, d) >= 1
CalmPingDue(e, d)   == /\ ~CommandDue(e, d) /\ Pinging(e) /\ Elapsed(e, d) >= 1
                       /\ interrupt[e] # "net_interrupt"
PingDue(e, d)       == ~CommandDue(e, d) /\ Pinging(e) /\ Elapsed(e, d) >= 1

\* resend * tick_delay < 10000; the mutant allows one ping more.
PingsLeftOneMore(e) == resend[e] <= PingTries
PingsLeft(e)        == resend[e] < PingTries
CommandsLeft(e)     == resend[e] < CommandTries

Heartbeat(e) == up[e] /\ UNCHANGED <<peer, up, setting, dups>>

Quiet(e, d) == silence' = [silence EXCEPT ![e] = AtMost(@ + d, MaxSilence)]

\* The state timer repeats the CONNECT or DISCONNECT ...
CommandAgain(e, d) ==
    /\ Heartbeat(e) /\ CommandDue(e, d) /\ CommandsLeft(e)
    /\ resend' = [resend EXCEPT ![e] = @ + 1]
    /\ age' = [age EXCEPT ![e] = 0]
    /\ Quiet(e, d)
    /\ net' = Queue(net, Datagram(e, peer[e],
                  IF state[e] = "connecting" THEN "CONNECT" ELSE "DISCONNECT", cid[e]))
    /\ UNCHANGED <<state, sender, receiver, interrupt, cid, playing>>

\* The pings after which the network counts as interrupted; the mutant confuses them
\* with those after which the session is given up.
InterruptLate(n)  == n > PingTries
InterruptAfter(n) == n > InterruptPings

\* ... the ping timer pings, on the same commad_ts and resend ...
Ping(e, d) ==
    /\ Heartbeat(e) /\ PingDue(e, d) /\ PingsLeft(e)
    /\ resend' = [resend EXCEPT ![e] = @ + 1]
    /\ age' = [age EXCEPT ![e] = 0]
    /\ interrupt' = [interrupt EXCEPT ![e] = IF InterruptAfter(resend[e] + 1)
                                             THEN "net_interrupt" ELSE @]
    /\ Quiet(e, d)
    /\ net' = Queue(net, Datagram(e, peer[e], "PING", 0))
    /\ UNCHANGED <<state, sender, receiver, cid, playing>>

\* ... and either of them gives the session up.
GiveUp(e, d) ==
    /\ Heartbeat(e)
    /\ \/ CommandDue(e, d) /\ ~CommandsLeft(e)
       \/ PingDue(e, d) /\ ~PingsLeft(e)
    /\ playing' = [playing EXCEPT ![e] = @ /\ ~receiver[e]]
    /\ Reset(e)
    /\ Quiet(e, d)
    /\ UNCHANGED net

\* No timer is due yet.
Wait(e, d) ==
    /\ Heartbeat(e) /\ (Signalling(e) \/ Pinging(e))
    /\ ~CommandDue(e, d) /\ ~PingDue(e, d)
    /\ age' = [age EXCEPT ![e] = Elapsed(e, d)]
    /\ Quiet(e, d)
    /\ UNCHANGED <<state, sender, receiver, interrupt, resend, cid, playing, net>>

Timers(e) == \E d \in 0 .. MaxStall :
    CommandAgain(e, d) \/ Ping(e, d) \/ GiveUp(e, d) \/ Wait(e, d)

Receive(e, m, again) ==
    \/ ReceiveConnect(e, m, again)    \/ ReceiveConnectAck(e, m, again)
    \/ ReceiveDisconnect(e, m, again) \/ ReceiveDisconnectAck(e, m, again)
    \/ ReceivePing(e, m, again)       \/ ReceiveOther(e, m, again)

Call(e) ==
    \/ \E p \in Endpoint : Connect(e, p)
    \/ Disconnect(e) \/ SendVideo(e)
    \/ SetBitratesTest(e) \/ SetBitratesUse(e) \/ Destroy(e)

Next ==
    \/ \E e \in Endpoint : Call(e) \/ Timers(e)
    \/ \E e \in Endpoint, m \in net, again \in BOOLEAN : Receive(e, m, again)
    \/ \E m \in net : Lose(m)

Spec == Init /\ [][Next]_vars

\* The loop thread of a session keeps running its heartbeat ...
HeartbeatFairness == \A e \in Endpoint : WF_vars(Timers(e))

\* ... and the network, which may lose any datagram, does not lose every one.
Hears(e, t) == \E m \in net, again \in BOOLEAN : m.type = t /\ Receive(e, m, again)
NetworkFairness(types) == \A e \in Endpoint, t \in types : SF_vars(Hears(e, t))

TimedSpec   == Spec /\ HeartbeatFairness
FairSpec    == TimedSpec /\ NetworkFairness(CallType \cup {"PING", "PONG"})

-----------------------------------------------------------------------------
(* Properties.                                                             *)

\* Every field keeps its range; the shared retry counter of the command and
\* ping timers never exceeds the larger of their two limits.
TypeOK ==
    /\ state \in [Endpoint -> State]
    /\ sender \in [Endpoint -> BOOLEAN] /\ receiver \in [Endpoint -> BOOLEAN]
    /\ interrupt \in [Endpoint -> Interrupt]
    /\ resend \in [Endpoint -> 0 .. PingTries]
    /\ age \in [Endpoint -> 0 .. CommandTick]
    /\ cid \in [Endpoint -> Cid] /\ peer \in [Endpoint -> Endpoint \cup {None}]
    /\ up \in [Endpoint -> BOOLEAN] /\ setting \in [Endpoint -> BOOLEAN]
    /\ playing \in [Endpoint -> BOOLEAN]
    /\ silence \in [Endpoint -> 0 .. MaxSilence]
    /\ net \subseteq Message /\ dups \in 0 .. MaxDups

\* A live session has a sender exactly from its CONNECT_ACK to its reset: video
\* that sim_session_send_video accepts in "connected" has somewhere to go, and
\* process_sim_connect_ack never finds a sender of an earlier call.
SenderMatchesState == \A e \in Endpoint : up[e] =>
    /\ state[e] = "connected" => sender[e]
    /\ sender[e] => state[e] \in {"connected", "disconnected"}

\* A session that has something to send is never without an address: whatever
\* timer or handler fires, network_send finds the peer of the call.
PeerKnown == \A e \in Endpoint : up[e] /\ (Signalling(e) \/ Pinging(e)) => peer[e] \in Endpoint

\* A connected session refuses video for an interrupted network only when the
\* peer has not been heard for InterruptPings ping periods (3 s in the code).
VideoDropsOnlyWhenSilent == \A e \in Endpoint :
    up[e] /\ state[e] = "connected" /\ ~VideoAccepted(e) => silence[e] >= InterruptPings

\* An interrupted network is always being probed: the ping timer runs, so the
\* interrupt ends with an answer or with the session.
InterruptIsProbed == \A e \in Endpoint :
    up[e] /\ interrupt[e] = "net_interrupt" => Pinging(e)

\* A receiver takes segments only while the application has been told to play.
ReceiverIsPlaying == \A e \in Endpoint : receiver[e] => playing[e]

\* The timers give a session up only after PingTries ping periods (10 s) in
\* which nothing came from the peer and the application asked for nothing, even
\* though two timers of different periods share commad_ts and resend.  Holds
\* for heartbeats less than TICK_DELAY_MS apart (MaxStall < CommandTick).
NoFalseTimeout == [][\A e \in Endpoint :
    (\E d \in 0 .. MaxStall : GiveUp(e, d)) => silence'[e] >= PingTries]_vars

\* And they do give it up: no session waits longer, in whatever state and with
\* whatever mixture of sender and receiver the peer left it.  A ping counts as a
\* try of the command it postpones, and no try comes later than a stalled heartbeat.
Slowest == CommandTick + MaxStall - 1
NoLateTimeout == \A e \in Endpoint : up[e] =>
    /\ Pinging(e) => silence[e] <= PingTries * MaxStall
    /\ Signalling(e) /\ ~Pinging(e) => silence[e] < CommandTries * Slowest + CommandTick

\* The application of every host sees the lifecycle of SessionLifecycle.
Lifecycle == INSTANCE SessionLifecycle WITH
    Host <- Endpoint, CutAfter <- InterruptPings, ExpireAfter <- PingTries,
    phase <- state, flowing <- [e \in Endpoint |-> VideoAccepted(e)], quiet <- silence,
    alive <- up

\* Sessions implement it: no connected session loses its video, or ends, but after
\* the silence that justifies it, and a session that expires has cut its video first.
ImplementsLifecycle == Lifecycle!Spec

\* When a peer's session is gone, which it is for good, every session that talked
\* to it ends, and again after each late datagram that opens it anew.
PeerLossDetected == \A q \in Mortal : \A e \in Endpoint \ {q} :
    []<>(up[q] \/ ~up[e] \/ ~(Signalling(e) \/ Pinging(e)))

\* An interrupt notification is followed by a recovery or by the session's end: no
\* session stays interrupted.
InterruptResolves == \A e \in Endpoint :
    []<>(~up[e] \/ interrupt[e] # "net_interrupt")

\* sim_internal.h: sim_session_disconnect "disconnects a receiver".
DisconnectResolves == \A e \in Endpoint :
    state[e] = "disconnected" ~> ~up[e] \/ state[e] # "disconnected"

\* What the handlers rely on without a test, whatever was lost, late or repeated:
\* the sender is there, its peer has an address, and the application knows of a
\* receiver.
CallIsConsistent == SenderMatchesState /\ PeerKnown /\ ReceiverIsPlaying

\* The interrupt flag, by which sim_session_send_video drops frames, neither comes
\* early nor outlives the probing that ends it.
InterruptIsHonest == VideoDropsOnlyWhenSilent /\ InterruptIsProbed
=============================================================================
