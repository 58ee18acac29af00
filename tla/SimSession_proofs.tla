-------------------------- MODULE SimSession_proofs --------------------------
(***************************************************************************)
(* Proofs about SimSession for every set of endpoints, every number of     *)
(* tries and every bound.  The invariants hold together: a datagram is     *)
(* well formed because the session that sends it knows its peer, it knows  *)
(* its peer because a sender exists only inside a call, and so on.         *)
(***************************************************************************)
EXTENDS SimSession, TLAPS

\* In a connected session resend counts pings alone, one per silent period, so
\* it measures the silence, and decides the interrupt; age may be stale only until
\* the first ping.
SilenceCounted == \A e \in Endpoint : up[e] /\ state[e] = "connected" =>
    /\ resend[e] <= silence[e] + 1 \/ silence[e] = MaxSilence
    /\ resend[e] > 0 => age[e] = 0
    /\ interrupt[e] = "net_interrupt" <=> resend[e] > InterruptPings

IInv ==
    /\ TypeOK /\ SenderMatchesState /\ PeerKnown
    /\ SilenceCounted /\ InterruptIsProbed /\ ReceiverIsPlaying

USE SessionAssumption

LEMMA SendType ==
    ASSUME NEW flight \in SUBSET Message, NEW e \in Endpoint, NEW to \in Endpoint,
           NEW type \in CallType \cup {"PING", "PONG", "SEG"}, NEW c \in Cid
    PROVE  Queue(flight, Datagram(e, to, type, c)) \in SUBSET Message
<1>1. Datagram(e, to, type, c) \in Message
  BY DEF Datagram, Message
<1>. QED BY <1>1 DEF Queue

LEMMA CidType ==
    /\ 0 \in Cid
    /\ \A c \in Cid : NextCid(c) \in Cid
BY DEF NextCid, AtMost, Cid

\* What a handler knows of the datagram it takes off the network.
LEMMA TakenType ==
    ASSUME TypeOK, NEW m \in net, NEW again \in BOOLEAN
    PROVE  /\ m.from \in Endpoint /\ m.cid \in Cid
           /\ InFlight(m, again) \in SUBSET Message
<1>1. m \in Message
  BY DEF TypeOK
<1>. QED BY <1>1 DEF TypeOK, InFlight, Message

\* A session that signals, pings or streams has the address it sends to.
LEMMA Addressed ==
    ASSUME IInv, NEW e \in Endpoint, up[e],
           Signalling(e) \/ Pinging(e) \/ state[e] = "connected"
    PROVE  peer[e] \in Endpoint
BY DEF IInv, PeerKnown, SenderMatchesState, Signalling, Pinging

\* A session begins with neither sender nor receiver and no timer running.
THEOREM InitIInv == Init => IInv
BY DEF Init, IInv, TypeOK, SenderMatchesState, PeerKnown, SilenceCounted, InterruptIsProbed,
       ReceiverIsPlaying, State, Interrupt, Cid, Signalling, Pinging

LEMMA ConnectStep ==
    ASSUME IInv, NEW e \in Endpoint, NEW p \in Endpoint, Connect(e, p)
    PROVE  IInv'
<1>. USE DEF Connect
<1>1. TypeOK'
  <2>1. net' \in SUBSET Message
    BY SendType, CidType DEF IInv, TypeOK, CallType
  <2>. QED BY <2>1, CidType DEF IInv, TypeOK, State, Interrupt
<1>2. SenderMatchesState' /\ PeerKnown'
  BY DEF IInv, TypeOK, SenderMatchesState, PeerKnown, Signalling, Pinging
<1>3. SilenceCounted'
  BY DEF IInv, TypeOK, SenderMatchesState, SilenceCounted, Signalling, Pinging
<1>4. InterruptIsProbed' /\ ReceiverIsPlaying'
  BY DEF IInv, TypeOK, InterruptIsProbed, ReceiverIsPlaying, Pinging
<1>. QED BY <1>1, <1>2, <1>3, <1>4 DEF IInv

LEMMA DisconnectStep ==
    ASSUME IInv, NEW e \in Endpoint, Disconnect(e)
    PROVE  IInv'
<1>. USE DEF Disconnect
<1>1. TypeOK'
  <2>1. net' \in SUBSET Message
    BY Addressed, SendType, CidType DEF IInv, TypeOK, CallType, Signalling
  <2>. QED BY <2>1, CidType DEF IInv, TypeOK, State, Interrupt
<1>2. SenderMatchesState' /\ PeerKnown'
  BY DEF IInv, TypeOK, SenderMatchesState, PeerKnown, Signalling, Pinging
<1>3. SilenceCounted'
  BY DEF IInv, TypeOK, SenderMatchesState, SilenceCounted, Signalling, Pinging
<1>4. InterruptIsProbed' /\ ReceiverIsPlaying'
  BY DEF IInv, TypeOK, InterruptIsProbed, ReceiverIsPlaying, Pinging
<1>. QED BY <1>1, <1>2, <1>3, <1>4 DEF IInv

LEMMA SendVideoStep ==
    ASSUME IInv, NEW e \in Endpoint, SendVideo(e)
    PROVE  IInv'
<1>. USE DEF SendVideo, fields
<1>1. TypeOK'
  <2>1. net' \in SUBSET Message
    BY Addressed, SendType, CidType DEF IInv, TypeOK, CallType, VideoAccepted
  <2>. QED BY <2>1, CidType DEF IInv, TypeOK, State, Interrupt
<1>2. SenderMatchesState' /\ PeerKnown'
  BY DEF IInv, TypeOK, SenderMatchesState, PeerKnown, Signalling, Pinging
<1>3. SilenceCounted'
  BY DEF IInv, TypeOK, SenderMatchesState, SilenceCounted, Signalling, Pinging
<1>4. InterruptIsProbed' /\ ReceiverIsPlaying'
  BY DEF IInv, TypeOK, InterruptIsProbed, ReceiverIsPlaying, Pinging
<1>. QED BY <1>1, <1>2, <1>3, <1>4 DEF IInv

LEMMA SetBitratesStep ==
    ASSUME IInv, NEW e \in Endpoint, SetBitratesTest(e) \/ SetBitratesUse(e)
    PROVE  IInv'
<1>. USE DEF SetBitratesTest, SetBitratesUse, fields
<1>1. TypeOK'
  BY CidType DEF IInv, TypeOK, State, Interrupt
<1>2. SenderMatchesState' /\ PeerKnown'
  BY DEF IInv, TypeOK, SenderMatchesState, PeerKnown, Signalling, Pinging
<1>3. SilenceCounted'
  BY DEF IInv, TypeOK, SenderMatchesState, SilenceCounted, Signalling, Pinging
<1>4. InterruptIsProbed' /\ ReceiverIsPlaying'
  BY DEF IInv, TypeOK, InterruptIsProbed, ReceiverIsPlaying, Pinging
<1>. QED BY <1>1, <1>2, <1>3, <1>4 DEF IInv

LEMMA DestroyStep ==
    ASSUME IInv, NEW e \in Endpoint, Destroy(e)
    PROVE  IInv'
<1>. USE DEF Destroy, FreeMedia
<1>1. TypeOK'
  BY CidType DEF IInv, TypeOK, State, Interrupt
<1>2. SenderMatchesState' /\ PeerKnown'
  BY DEF IInv, TypeOK, SenderMatchesState, PeerKnown, Signalling, Pinging
<1>3. SilenceCounted'
  BY DEF IInv, TypeOK, SenderMatchesState, SilenceCounted, Signalling, Pinging
<1>4. InterruptIsProbed' /\ ReceiverIsPlaying'
  BY DEF IInv, TypeOK, InterruptIsProbed, ReceiverIsPlaying, Pinging
<1>. QED BY <1>1, <1>2, <1>3, <1>4 DEF IInv

LEMMA ReceiveConnectStep ==
    ASSUME IInv, NEW e \in Endpoint, NEW m \in net, NEW again \in BOOLEAN,
           ReceiveConnect(e, m, again)
    PROVE  IInv'
<1>. USE DEF ReceiveConnect, Heard, LearnPeer, Recovered, StartPlay, AckExpected
<1>0. TypeOK /\ m.from \in Endpoint /\ m.cid \in Cid /\ InFlight(m, again) \in SUBSET Message
  BY TakenType DEF IInv
<1>1. TypeOK'
  <2>1. net' \in SUBSET Message
    BY <1>0, SendType, CidType DEF IInv, TypeOK, CallType
  <2>. QED BY <1>0, <2>1, CidType DEF IInv, TypeOK, State, Interrupt
<1>2. SenderMatchesState' /\ PeerKnown'
  BY <1>0 DEF IInv, TypeOK, SenderMatchesState, PeerKnown, Signalling, Pinging
<1>3. SilenceCounted'
  BY DEF IInv, TypeOK, SenderMatchesState, SilenceCounted, Signalling, Pinging
<1>4. InterruptIsProbed' /\ ReceiverIsPlaying'
  BY DEF IInv, TypeOK, InterruptIsProbed, ReceiverIsPlaying, Pinging
<1>. QED BY <1>1, <1>2, <1>3, <1>4 DEF IInv

LEMMA ReceiveConnectAckStep ==
    ASSUME IInv, NEW e \in Endpoint, NEW m \in net, NEW again \in BOOLEAN,
           ReceiveConnectAck(e, m, again)
    PROVE  IInv'
<1>. USE DEF ReceiveConnectAck, Heard, LearnPeer, Recovered, StartPlay, AckExpected
<1>0. TypeOK /\ m.from \in Endpoint /\ m.cid \in Cid /\ InFlight(m, again) \in SUBSET Message
  BY TakenType DEF IInv
<1>1. TypeOK'
  <2>1. net' \in SUBSET Message
    BY <1>0
  <2>. QED BY <1>0, <2>1, CidType DEF IInv, TypeOK, State, Interrupt
<1>2. SenderMatchesState' /\ PeerKnown'
  BY <1>0 DEF IInv, TypeOK, SenderMatchesState, PeerKnown, Signalling, Pinging
<1>3. SilenceCounted'
  BY DEF IInv, TypeOK, SenderMatchesState, SilenceCounted, Signalling, Pinging
<1>4. InterruptIsProbed' /\ ReceiverIsPlaying'
  BY DEF IInv, TypeOK, InterruptIsProbed, ReceiverIsPlaying, Pinging
<1>. QED BY <1>1, <1>2, <1>3, <1>4 DEF IInv

LEMMA ReceiveDisconnectStep ==
    ASSUME IInv, NEW e \in Endpoint, NEW m \in net, NEW again \in BOOLEAN,
           ReceiveDisconnect(e, m, again)
    PROVE  IInv'
<1>. USE DEF ReceiveDisconnect, Heard, LearnPeer, Recovered, StartPlay, AckExpected
<1>0. TypeOK /\ m.from \in Endpoint /\ m.cid \in Cid /\ InFlight(m, again) \in SUBSET Message
  BY TakenType DEF IInv
<1>1. TypeOK'
  <2>1. net' \in SUBSET Message
    BY <1>0, SendType, CidType DEF IInv, TypeOK, CallType
  <2>. QED BY <1>0, <2>1, CidType DEF IInv, TypeOK, State, Interrupt
<1>2. SenderMatchesState' /\ PeerKnown'
  BY <1>0 DEF IInv, TypeOK, SenderMatchesState, PeerKnown, Signalling, Pinging
<1>3. SilenceCounted'
  BY DEF IInv, TypeOK, SenderMatchesState, SilenceCounted, Signalling, Pinging
<1>4. InterruptIsProbed' /\ ReceiverIsPlaying'
  BY DEF IInv, TypeOK, InterruptIsProbed, ReceiverIsPlaying, Pinging
<1>. QED BY <1>1, <1>2, <1>3, <1>4 DEF IInv

LEMMA ReceiveDisconnectAckStep ==
    ASSUME IInv, NEW e \in Endpoint, NEW m \in net, NEW again \in BOOLEAN,
           ReceiveDisconnectAck(e, m, again)
    PROVE  IInv'
<1>. USE DEF ReceiveDisconnectAck, Heard, LearnPeer, Recovered, StartPlay, AckExpected,
    Reset, FreeMedia
<1>0. TypeOK /\ m.from \in Endpoint /\ m.cid \in Cid /\ InFlight(m, again) \in SUBSET Message
  BY TakenType DEF IInv
<1>1. TypeOK'
  <2>1. net' \in SUBSET Message
    BY <1>0
  <2>. QED BY <1>0, <2>1, CidType DEF IInv, TypeOK, State, Interrupt
<1>2. SenderMatchesState' /\ PeerKnown'
  BY <1>0 DEF IInv, TypeOK, SenderMatchesState, PeerKnown, Signalling, Pinging
<1>3. SilenceCounted'
  BY DEF IInv, TypeOK, SenderMatchesState, SilenceCounted, Signalling, Pinging
<1>4. InterruptIsProbed' /\ ReceiverIsPlaying'
  BY DEF IInv, TypeOK, InterruptIsProbed, ReceiverIsPlaying, Pinging
<1>. QED BY <1>1, <1>2, <1>3, <1>4 DEF IInv

LEMMA ReceivePingStep ==
    ASSUME IInv, NEW e \in Endpoint, NEW m \in net, NEW again \in BOOLEAN,
           ReceivePing(e, m, again)
    PROVE  IInv'
<1>. USE DEF ReceivePing, Heard, LearnPeer, Recovered, StartPlay, AckExpected
<1>0. TypeOK /\ m.from \in Endpoint /\ m.cid \in Cid /\ InFlight(m, again) \in SUBSET Message
  BY TakenType DEF IInv
<1>1. TypeOK'
  <2>1. net' \in SUBSET Message
    BY <1>0, SendType, CidType DEF IInv, TypeOK, CallType
  <2>. QED BY <1>0, <2>1, CidType DEF IInv, TypeOK, State, Interrupt
<1>2. SenderMatchesState' /\ PeerKnown'
  BY <1>0 DEF IInv, TypeOK, SenderMatchesState, PeerKnown, Signalling, Pinging
<1>3. SilenceCounted'
  BY DEF IInv, TypeOK, SenderMatchesState, SilenceCounted, Signalling, Pinging
<1>4. InterruptIsProbed' /\ ReceiverIsPlaying'
  BY DEF IInv, TypeOK, InterruptIsProbed, ReceiverIsPlaying, Pinging
<1>. QED BY <1>1, <1>2, <1>3, <1>4 DEF IInv

LEMMA ReceiveOtherStep ==
    ASSUME IInv, NEW e \in Endpoint, NEW m \in net, NEW again \in BOOLEAN,
           ReceiveOther(e, m, again)
    PROVE  IInv'
<1>. USE DEF ReceiveOther, Heard, LearnPeer, Recovered, StartPlay, AckExpected
<1>0. TypeOK /\ m.from \in Endpoint /\ m.cid \in Cid /\ InFlight(m, again) \in SUBSET Message
  BY TakenType DEF IInv
<1>1. TypeOK'
  <2>1. net' \in SUBSET Message
    BY <1>0
  <2>. QED BY <1>0, <2>1, CidType DEF IInv, TypeOK, State, Interrupt
<1>2. SenderMatchesState' /\ PeerKnown'
  BY <1>0 DEF IInv, TypeOK, SenderMatchesState, PeerKnown, Signalling, Pinging
<1>3. SilenceCounted'
  BY DEF IInv, TypeOK, SenderMatchesState, SilenceCounted, Signalling, Pinging
<1>4. InterruptIsProbed' /\ ReceiverIsPlaying'
  BY DEF IInv, TypeOK, InterruptIsProbed, ReceiverIsPlaying, Pinging
<1>. QED BY <1>1, <1>2, <1>3, <1>4 DEF IInv

LEMMA LoseStep ==
    ASSUME IInv, NEW m \in net, Lose(m)
    PROVE  IInv'
<1>. USE DEF Lose, fields
<1>1. TypeOK'
  BY CidType DEF IInv, TypeOK, State, Interrupt
<1>2. SenderMatchesState' /\ PeerKnown'
  BY DEF IInv, TypeOK, SenderMatchesState, PeerKnown, Signalling, Pinging
<1>3. SilenceCounted'
  BY DEF IInv, TypeOK, SenderMatchesState, SilenceCounted, Signalling, Pinging
<1>4. InterruptIsProbed' /\ ReceiverIsPlaying'
  BY DEF IInv, TypeOK, InterruptIsProbed, ReceiverIsPlaying, Pinging
<1>. QED BY <1>1, <1>2, <1>3, <1>4 DEF IInv

LEMMA CommandAgainStep ==
    ASSUME IInv, NEW e \in Endpoint, NEW d \in 0 .. MaxStall, CommandAgain(e, d)
    PROVE  IInv'
<1>. USE DEF CommandAgain, Heartbeat, Quiet, CommandDue, PingDue, PingsLeft,
    CommandsLeft, Elapsed, AtMost
<1>1. TypeOK'
  <2>1. net' \in SUBSET Message
    BY Addressed, SendType, CidType DEF IInv, TypeOK, CallType
  <2>. QED BY <2>1, CidType DEF IInv, TypeOK, State, Interrupt
<1>2. SenderMatchesState' /\ PeerKnown'
  BY DEF IInv, TypeOK, SenderMatchesState, PeerKnown, Signalling, Pinging
<1>3. SilenceCounted'
  BY DEF IInv, TypeOK, SenderMatchesState, SilenceCounted, Signalling, Pinging
<1>4. InterruptIsProbed' /\ ReceiverIsPlaying'
  BY DEF IInv, TypeOK, InterruptIsProbed, ReceiverIsPlaying, Pinging
<1>. QED BY <1>1, <1>2, <1>3, <1>4 DEF IInv

LEMMA PingStep ==
    ASSUME IInv, NEW e \in Endpoint, NEW d \in 0 .. MaxStall, Ping(e, d)
    PROVE  IInv'
<1>. USE DEF Ping, Heartbeat, Quiet, CommandDue, PingDue, PingsLeft, CommandsLeft,
    Elapsed, AtMost, InterruptAfter
<1>1. TypeOK'
  <2>1. net' \in SUBSET Message
    BY Addressed, SendType, CidType DEF IInv, TypeOK, CallType
  <2>. QED BY <2>1, CidType DEF IInv, TypeOK, State, Interrupt
<1>2. SenderMatchesState' /\ PeerKnown'
  BY DEF IInv, TypeOK, SenderMatchesState, PeerKnown, Signalling, Pinging
<1>3. SilenceCounted'
  BY DEF IInv, TypeOK, SenderMatchesState, SilenceCounted, Signalling, Pinging
<1>4. InterruptIsProbed' /\ ReceiverIsPlaying'
  BY DEF IInv, TypeOK, InterruptIsProbed, ReceiverIsPlaying, Pinging
<1>. QED BY <1>1, <1>2, <1>3, <1>4 DEF IInv

LEMMA GiveUpStep ==
    ASSUME IInv, NEW e \in Endpoint, NEW d \in 0 .. MaxStall, GiveUp(e, d)
    PROVE  IInv'
<1>. USE DEF GiveUp, Heartbeat, Quiet, CommandDue, PingDue, PingsLeft, CommandsLeft,
    Elapsed, AtMost, Reset, FreeMedia
<1>1. TypeOK'
  BY CidType DEF IInv, TypeOK, State, Interrupt
<1>2. SenderMatchesState' /\ PeerKnown'
  BY DEF IInv, TypeOK, SenderMatchesState, PeerKnown, Signalling, Pinging
<1>3. SilenceCounted'
  BY DEF IInv, TypeOK, SenderMatchesState, SilenceCounted, Signalling, Pinging
<1>4. InterruptIsProbed' /\ ReceiverIsPlaying'
  BY DEF IInv, TypeOK, InterruptIsProbed, ReceiverIsPlaying, Pinging
<1>. QED BY <1>1, <1>2, <1>3, <1>4 DEF IInv

LEMMA WaitStep ==
    ASSUME IInv, NEW e \in Endpoint, NEW d \in 0 .. MaxStall, Wait(e, d)
    PROVE  IInv'
<1>. USE DEF Wait, Heartbeat, Quiet, CommandDue, PingDue, PingsLeft, CommandsLeft,
    Elapsed, AtMost
<1>1. TypeOK'
  BY CidType DEF IInv, TypeOK, State, Interrupt
<1>2. SenderMatchesState' /\ PeerKnown'
  BY DEF IInv, TypeOK, SenderMatchesState, PeerKnown, Signalling, Pinging
<1>3. SilenceCounted'
  BY DEF IInv, TypeOK, SenderMatchesState, SilenceCounted, Signalling, Pinging
<1>4. InterruptIsProbed' /\ ReceiverIsPlaying'
  BY DEF IInv, TypeOK, InterruptIsProbed, ReceiverIsPlaying, Pinging
<1>. QED BY <1>1, <1>2, <1>3, <1>4 DEF IInv

LEMMA NextStep == IInv /\ [Next]_vars => IInv'
<1>. SUFFICES ASSUME IInv, [Next]_vars PROVE IInv'
  OBVIOUS
<1>1. CASE \E e \in Endpoint : Call(e)
  BY <1>1, ConnectStep, DisconnectStep, SendVideoStep, SetBitratesStep, DestroyStep DEF Call
<1>2. CASE \E e \in Endpoint : Timers(e)
  BY <1>2, CommandAgainStep, PingStep, GiveUpStep, WaitStep DEF Timers
<1>3. CASE \E e \in Endpoint, m \in net, again \in BOOLEAN : Receive(e, m, again)
  BY <1>3, ReceiveConnectStep, ReceiveConnectAckStep, ReceiveDisconnectStep,
     ReceiveDisconnectAckStep, ReceivePingStep, ReceiveOtherStep DEF Receive
<1>4. CASE \E m \in net : Lose(m)
  BY <1>4, LoseStep
<1>5. CASE UNCHANGED vars
  BY <1>5 DEF vars, fields, IInv, TypeOK, SenderMatchesState, PeerKnown, SilenceCounted,
     InterruptIsProbed, ReceiverIsPlaying, Signalling, Pinging
<1>. QED BY <1>1, <1>2, <1>3, <1>4, <1>5 DEF Next

\* The inductive invariant holds in every behaviour of the sessions.
THEOREM Invariance == Spec => []IInv
<1>. QED BY InitIInv, NextStep, PTL DEF Spec

-----------------------------------------------------------------------------
(* What the invariant says to a reader of sim_session.c.                   *)

\* Type correctness: in particular the retry counter that the command and ping
\* timers share stays within the larger of their limits.
THEOREM TypeCorrect == Spec => []TypeOK
<1>1. IInv => TypeOK
  BY DEF IInv
<1>. QED BY <1>1, Invariance, PTL

\* Connected sessions have a sender, no sender outlives its call, whatever a timer
\* or handler sends has an address, and a receiver implies that the application was
\* told to play.
THEOREM CallCorrect == Spec => []CallIsConsistent
<1>1. IInv => CallIsConsistent
  BY DEF IInv, CallIsConsistent
<1>. QED BY <1>1, Invariance, PTL

\* sim_session_send_video refuses a connected session's video only after
\* InterruptPings ping periods of silence, and while it does the peer is probed.
THEOREM InterruptCorrect ==
    ASSUME InterruptPings <= MaxSilence PROVE Spec => []InterruptIsHonest
<1>1. IInv => VideoDropsOnlyWhenSilent
  BY DEF IInv, TypeOK, SenderMatchesState, SilenceCounted, VideoAccepted,
     VideoDropsOnlyWhenSilent
<1>2. IInv => InterruptIsHonest
  BY <1>1 DEF IInv, InterruptIsHonest
<1>. QED BY <1>2, Invariance, PTL

-----------------------------------------------------------------------------
(* No session gives up before its time, when heartbeats are not delayed by *)
(* a whole command period (and the history of silence counts that far).    *)

Timely ==
    /\ MaxStall < CommandTick
    /\ PingTries <= CommandTries * CommandTick /\ PingTries <= MaxSilence

\* Where the ping timer runs it is the only one that fires, and resend counts
\* its periods; where it does not, resend counts command periods.
TimersCounted == \A e \in Endpoint : up[e] =>
    /\ Pinging(e) /\ Signalling(e) => age[e] = 0
    /\ Pinging(e) /\ resend[e] > 0 => age[e] = 0
    /\ Pinging(e) /\ resend[e] > 0 => silence[e] >= PingTries \/ resend[e] <= silence[e] + 1
    /\ ~Pinging(e) /\ Signalling(e) /\ resend[e] > 0 =>
          \/ silence[e] >= PingTries
          \/ silence[e] >= (resend[e] - 1) * CommandTick + age[e]

LEMMA Periods ==
    /\ \A n \in Nat : (n + 1 - 1) * CommandTick = n * CommandTick
    /\ \A n \in Nat \ {0} : (n - 1) * CommandTick + CommandTick = n * CommandTick
    /\ \A n \in Nat : n * CommandTick \in Nat
    /\ \A n \in Nat : n >= CommandTries => n * CommandTick >= CommandTries * CommandTick
OBVIOUS

LEMMA InitTimersCounted == Init => TimersCounted
BY DEF Init, TimersCounted, Signalling, Pinging

LEMMA CallCounted ==
    ASSUME Timely, IInv, TimersCounted, NEW e \in Endpoint, Call(e)
    PROVE  TimersCounted'
<1>. USE DEF Call, Connect, Disconnect, SendVideo, SetBitratesTest, SetBitratesUse,
    Destroy, FreeMedia, fields
<1>. QED BY Periods DEF IInv, TypeOK, SenderMatchesState, TimersCounted, Timely, Signalling, Pinging

LEMMA ReceiveConnectCounted ==
    ASSUME Timely, IInv, TimersCounted, NEW e \in Endpoint, NEW m \in net, NEW again \in BOOLEAN,
           ReceiveConnect(e, m, again)
    PROVE  TimersCounted'
<1>. USE DEF ReceiveConnect, Heard, LearnPeer, Recovered, StartPlay, AckExpected
<1>. QED BY Periods DEF IInv, TypeOK, SenderMatchesState, TimersCounted, Timely, Signalling, Pinging

LEMMA ReceiveConnectAckCounted ==
    ASSUME Timely, IInv, TimersCounted, NEW e \in Endpoint, NEW m \in net, NEW again \in BOOLEAN,
           ReceiveConnectAck(e, m, again)
    PROVE  TimersCounted'
<1>. USE DEF ReceiveConnectAck, Heard, LearnPeer, Recovered, StartPlay, AckExpected
<1>1. resend'[e] = 0 /\ ~Signalling(e)' /\ up' = up
  BY DEF IInv, TypeOK, Signalling
<1>2. \A h \in Endpoint \ {e} :
        /\ state'[h] = state[h] /\ sender'[h] = sender[h] /\ receiver'[h] = receiver[h]
        /\ resend'[h] = resend[h] /\ age'[h] = age[h] /\ silence'[h] = silence[h]
  BY DEF IInv, TypeOK
<1>. QED BY <1>1, <1>2 DEF TimersCounted, Signalling, Pinging

LEMMA ReceiveDisconnectCounted ==
    ASSUME Timely, IInv, TimersCounted, NEW e \in Endpoint, NEW m \in net, NEW again \in BOOLEAN,
           ReceiveDisconnect(e, m, again)
    PROVE  TimersCounted'
<1>. USE DEF ReceiveDisconnect, Heard, LearnPeer, Recovered, StartPlay, AckExpected
<1>1. resend'[e] = 0 /\ age'[e] = age[e] /\ state' = state /\ up' = up /\ (Pinging(e)' => Pinging(e))
  BY DEF IInv, TypeOK, Pinging
<1>2. \A h \in Endpoint \ {e} :
        /\ state'[h] = state[h] /\ sender'[h] = sender[h] /\ receiver'[h] = receiver[h]
        /\ resend'[h] = resend[h] /\ age'[h] = age[h] /\ silence'[h] = silence[h]
  BY DEF IInv, TypeOK
<1>. QED BY <1>1, <1>2 DEF TimersCounted, Signalling, Pinging

LEMMA ReceiveDisconnectAckCounted ==
    ASSUME Timely, IInv, TimersCounted, NEW e \in Endpoint, NEW m \in net, NEW again \in BOOLEAN,
           ReceiveDisconnectAck(e, m, again)
    PROVE  TimersCounted'
<1>. USE DEF ReceiveDisconnectAck, Heard, LearnPeer, Recovered, StartPlay, AckExpected,
    Reset, FreeMedia
<1>. QED BY Periods DEF IInv, TypeOK, SenderMatchesState, TimersCounted, Timely, Signalling, Pinging

LEMMA ReceivePingCounted ==
    ASSUME Timely, IInv, TimersCounted, NEW e \in Endpoint, NEW m \in net, NEW again \in BOOLEAN,
           ReceivePing(e, m, again)
    PROVE  TimersCounted'
<1>. USE DEF ReceivePing, Heard, LearnPeer, Recovered, StartPlay, AckExpected
<1>. QED BY Periods DEF IInv, TypeOK, SenderMatchesState, TimersCounted, Timely, Signalling, Pinging

LEMMA ReceiveOtherCounted ==
    ASSUME Timely, IInv, TimersCounted, NEW e \in Endpoint, NEW m \in net, NEW again \in BOOLEAN,
           ReceiveOther(e, m, again)
    PROVE  TimersCounted'
<1>. USE DEF ReceiveOther, Heard, LearnPeer, Recovered, StartPlay, AckExpected
<1>. QED BY Periods DEF IInv, TypeOK, SenderMatchesState, TimersCounted, Timely, Signalling, Pinging

LEMMA LoseCounted ==
    ASSUME Timely, IInv, TimersCounted, NEW m \in net, Lose(m)
    PROVE  TimersCounted'
<1>. USE DEF Lose, fields
<1>. QED BY Periods DEF IInv, TypeOK, SenderMatchesState, TimersCounted, Timely, Signalling, Pinging

LEMMA CommandAgainCounted ==
    ASSUME Timely, IInv, TimersCounted, NEW e \in Endpoint, NEW d \in 0 .. MaxStall, CommandAgain(e, d)
    PROVE  TimersCounted'
<1>. USE DEF CommandAgain, Heartbeat, Quiet, CommandDue, PingDue, PingsLeft,
    CommandsLeft, Elapsed, AtMost
<1>. QED BY Periods DEF IInv, TypeOK, SenderMatchesState, TimersCounted, Timely, Signalling, Pinging

LEMMA PingCounted ==
    ASSUME Timely, IInv, TimersCounted, NEW e \in Endpoint, NEW d \in 0 .. MaxStall, Ping(e, d)
    PROVE  TimersCounted'
<1>. USE DEF Ping, Heartbeat, Quiet, CommandDue, PingDue, PingsLeft, CommandsLeft,
    Elapsed, AtMost
<1>. QED BY Periods DEF IInv, TypeOK, SenderMatchesState, TimersCounted, Timely, Signalling, Pinging

LEMMA GiveUpCounted ==
    ASSUME Timely, IInv, TimersCounted, NEW e \in Endpoint, NEW d \in 0 .. MaxStall, GiveUp(e, d)
    PROVE  TimersCounted'
<1>. USE DEF GiveUp, Heartbeat, Quiet, CommandDue, PingDue, PingsLeft, CommandsLeft,
    Elapsed, AtMost, Reset, FreeMedia
<1>. QED BY Periods DEF IInv, TypeOK, SenderMatchesState, TimersCounted, Timely, Signalling, Pinging

LEMMA WaitCounted ==
    ASSUME Timely, IInv, TimersCounted, NEW e \in Endpoint, NEW d \in 0 .. MaxStall, Wait(e, d)
    PROVE  TimersCounted'
<1>. USE DEF Wait, Heartbeat, Quiet, CommandDue, PingDue, PingsLeft, CommandsLeft,
    Elapsed, AtMost
<1>. QED BY Periods DEF IInv, TypeOK, SenderMatchesState, TimersCounted, Timely, Signalling, Pinging

LEMMA NextCounted == Timely /\ IInv /\ TimersCounted /\ [Next]_vars => TimersCounted'
<1>. SUFFICES ASSUME Timely, IInv, TimersCounted, [Next]_vars PROVE TimersCounted'
  OBVIOUS
<1>1. CASE \E e \in Endpoint : Call(e)
  BY <1>1, CallCounted
<1>2. CASE \E e \in Endpoint : Timers(e)
  BY <1>2, CommandAgainCounted, PingCounted, GiveUpCounted, WaitCounted DEF Timers
<1>3. CASE \E e \in Endpoint, m \in net, again \in BOOLEAN : Receive(e, m, again)
  BY <1>3, ReceiveConnectCounted, ReceiveConnectAckCounted, ReceiveDisconnectCounted,
     ReceiveDisconnectAckCounted, ReceivePingCounted, ReceiveOtherCounted DEF Receive
<1>4. CASE \E m \in net : Lose(m)
  BY <1>4, LoseCounted
<1>5. CASE UNCHANGED vars
  BY <1>5 DEF vars, fields, TimersCounted, Signalling, Pinging
<1>. QED BY <1>1, <1>2, <1>3, <1>4, <1>5 DEF Next

LEMMA GivesUpInTime ==
    ASSUME Timely, IInv, TimersCounted, NEW e \in Endpoint, NEW d \in 0 .. MaxStall, GiveUp(e, d)
    PROVE  silence'[e] >= PingTries
<1>. USE DEF GiveUp, Heartbeat, Quiet, CommandDue, PingDue, PingsLeft, CommandsLeft,
    Elapsed, AtMost
<1>1. /\ PingTries <= MaxSilence /\ silence[e] \in 0 .. MaxSilence
      /\ silence'[e] = AtMost(silence[e] + d, MaxSilence)
  BY DEF IInv, TypeOK, Timely
<1>2. CASE silence[e] + d >= PingTries
  BY <1>1, <1>2
<1>3. CASE PingDue(e, d) /\ ~PingsLeft(e)
  <2>1. resend[e] > 0 /\ Pinging(e) /\ resend[e] \in Nat /\ resend[e] >= PingTries
    BY <1>3 DEF IInv, TypeOK
  <2>2. age[e] = 0 /\ (silence[e] >= PingTries \/ resend[e] <= silence[e] + 1)
    BY <2>1, <1>3 DEF TimersCounted
  <2>3. d >= 1
    BY <2>2, <1>3
  <2>. QED BY <1>1, <1>2, <2>1, <2>2, <2>3
<1>4. CASE CommandDue(e, d) /\ ~CommandsLeft(e)
  <2>1. ~Pinging(e)
    BY <1>4 DEF IInv, TypeOK, TimersCounted, Timely
  <2>2. resend[e] * CommandTick >= PingTries
    BY <1>4, Periods DEF IInv, TypeOK, Timely
  <2>3. \/ silence[e] >= PingTries
        \/ silence[e] + d >= resend[e] * CommandTick
    BY <1>4, <2>1, Periods DEF IInv, TypeOK, TimersCounted
  <2>. QED BY <1>1, <1>2, <2>2, <2>3, Periods DEF IInv, TypeOK
<1>. QED BY <1>3, <1>4

\* sim_session_state_timer resets a session only after ten seconds of silence,
\* although the ping timer advances the counter and the clock of the command
\* timer, provided no heartbeat is delayed by a whole TICK_DELAY_MS.
THEOREM TimeoutCorrect == ASSUME Timely PROVE Spec => NoFalseTimeout
<1>1. Init => IInv /\ TimersCounted
  BY InitIInv, InitTimersCounted
<1>2. IInv /\ TimersCounted /\ [Next]_vars => (IInv /\ TimersCounted)'
  BY NextStep, NextCounted
<1>3. IInv /\ TimersCounted /\ [Next]_vars =>
        [\A e \in Endpoint :
           (\E d \in 0 .. MaxStall : GiveUp(e, d)) => silence'[e] >= PingTries]_vars
  BY GivesUpInTime
<1>. QED BY <1>1, <1>2, <1>3, PTL DEF Spec, NoFalseTimeout

-----------------------------------------------------------------------------
(* Nor does it give up long after its time: every try, a ping or a command, *)
(* follows the one before within a stalled period of its own timer.         *)

NotLateAt(e) == up[e] =>
    /\ age[e] < CommandTick
    /\ Pinging(e) => silence[e] <= resend[e] * MaxStall
    /\ Signalling(e) /\ ~Pinging(e) =>
         resend[e] <= CommandTries /\ silence[e] <= resend[e] * Slowest + age[e]

NotLate == \A e \in Endpoint : NotLateAt(e)

LEMMA Tries ==
    /\ Slowest \in Nat
    /\ \A n, k \in Nat : n * k \in Nat
    /\ \A n, k \in Nat : (n + 1) * k = n * k + k
    /\ \A n, m, k \in Nat : n <= m => n * k <= m * k
BY DEF Slowest

\* What a step of session e does to the others.
Alone(e) == \A h \in Endpoint \ {e} :
    /\ up'[h] = up[h] /\ state'[h] = state[h] /\ sender'[h] = sender[h]
    /\ receiver'[h] = receiver[h] /\ resend'[h] = resend[h]
    /\ age'[h] = age[h] /\ silence'[h] = silence[h]

LEMMA AloneNotLate ==
    ASSUME NotLate, NEW e \in Endpoint, Alone(e), NotLateAt(e)'
    PROVE  NotLate'
BY DEF NotLate, NotLateAt, Alone, Signalling, Pinging

LEMMA CallNotLate == ASSUME IInv, NotLate, NEW e \in Endpoint, Call(e) PROVE NotLate'
<1>. USE DEF Call, Connect, Disconnect, SendVideo, SetBitratesTest, SetBitratesUse,
    Destroy, FreeMedia, fields
<1>1. Alone(e)
  BY DEF Alone, IInv, TypeOK
<1>2. CASE UNCHANGED <<fields, up, silence>>
  BY <1>2 DEF NotLate, NotLateAt, Signalling, Pinging
<1>3. CASE \E p \in Endpoint : Connect(e, p) \/ Disconnect(e)
  <2>1. resend'[e] = 1 /\ age'[e] = 0 /\ silence'[e] = 0
    BY <1>3 DEF IInv, TypeOK
  <2>. QED BY <1>1, <2>1, AloneNotLate, Tries DEF NotLateAt
<1>4. CASE Destroy(e)
  <2>1. ~up'[e]
    BY <1>4 DEF IInv, TypeOK
  <2>. QED BY <1>1, <2>1, AloneNotLate DEF NotLateAt
<1>. QED BY <1>2, <1>3, <1>4

LEMMA ReceiveNotLate ==
    ASSUME IInv, NotLate, NEW e \in Endpoint, NEW m \in net, NEW again \in BOOLEAN,
           Receive(e, m, again)
    PROVE  NotLate'
<1>. USE DEF Receive, ReceiveConnect, ReceiveConnectAck, ReceiveDisconnect,
    ReceiveDisconnectAck, ReceivePing, ReceiveOther, Heard, Recovered, Reset, FreeMedia
<1>1. Alone(e)
  BY DEF Alone, IInv, TypeOK
<1>2. resend'[e] = 0 /\ silence'[e] = 0 /\ age'[e] \in {0, age[e]} /\ up[e]
  BY DEF IInv, TypeOK
<1>3. age[e] \in Nat /\ age[e] < CommandTick
  BY <1>2 DEF NotLate, NotLateAt, IInv, TypeOK
<1>. QED BY <1>1, <1>2, <1>3, AloneNotLate, Tries DEF NotLateAt

LEMMA TimersNotLate ==
    ASSUME Timely, IInv, TimersCounted, NotLate, NEW e \in Endpoint, NEW d \in 0 .. MaxStall,
           CommandAgain(e, d) \/ Ping(e, d) \/ GiveUp(e, d) \/ Wait(e, d)
    PROVE  NotLate'
<1>1. Alone(e)
  BY DEF Alone, IInv, TypeOK, CommandAgain, Ping, GiveUp, Wait, Heartbeat, Quiet, Reset, FreeMedia
<1>2. /\ up[e] /\ NotLateAt(e)
      /\ resend[e] \in Nat /\ age[e] \in Nat /\ silence[e] \in Nat
      /\ silence'[e] \in Nat /\ silence'[e] <= silence[e] + d
  BY DEF IInv, TypeOK, NotLate, CommandAgain, Ping, GiveUp, Wait, Heartbeat, Quiet, AtMost
<1>3. Pinging(e) => ~CommandDue(e, d)
  BY <1>2 DEF TimersCounted, Timely, CommandDue, Elapsed, AtMost
<1>4. CASE CommandAgain(e, d)
  <2>1. ~Pinging(e) /\ Signalling(e) /\ ~Pinging(e)' /\ resend[e] < CommandTries
    BY <1>3, <1>4 DEF CommandAgain, CommandDue, CommandsLeft, Pinging
  <2>2. resend'[e] = resend[e] + 1 /\ age'[e] = 0
    BY <1>4 DEF CommandAgain, IInv, TypeOK
  <2>3. age[e] + d <= Slowest
    BY <1>2 DEF NotLateAt, Slowest
  <2>4. silence[e] <= resend[e] * Slowest + age[e]
    BY <1>2, <2>1 DEF NotLateAt
  <2>5. (resend[e] + 1) * Slowest = resend[e] * Slowest + Slowest /\ resend[e] * Slowest \in Nat
    BY <1>2, Tries
  <2>6. silence'[e] <= (resend[e] + 1) * Slowest
    BY <1>2, <2>3, <2>4, <2>5, Tries
  <2>7. silence'[e] <= resend'[e] * Slowest + age'[e]
    BY <1>2, <2>2, <2>5, <2>6, Tries
  <2>. QED BY <1>1, <1>2, <2>1, <2>2, <2>7, AloneNotLate DEF NotLateAt
<1>5. CASE Ping(e, d)
  <2>1. Pinging(e) /\ Pinging(e)' /\ resend'[e] = resend[e] + 1 /\ age'[e] = 0
    BY <1>5 DEF Ping, PingDue, Pinging, IInv, TypeOK
  <2>2. silence[e] <= resend[e] * MaxStall
    BY <1>2, <2>1 DEF NotLateAt
  <2>3. (resend[e] + 1) * MaxStall = resend[e] * MaxStall + MaxStall /\ resend[e] * MaxStall \in Nat
    BY <1>2, Tries
  <2>4. silence'[e] <= (resend[e] + 1) * MaxStall
    BY <1>2, <2>2, <2>3
  <2>5. silence'[e] <= resend'[e] * MaxStall
    BY <2>1, <2>4
  <2>. QED BY <1>1, <2>1, <2>5, AloneNotLate DEF NotLateAt
<1>6. CASE GiveUp(e, d)
  <2>1. ~Signalling(e)' /\ ~Pinging(e)' /\ age'[e] = 0
    BY <1>6 DEF GiveUp, Reset, FreeMedia, Signalling, Pinging, IInv, TypeOK
  <2>. QED BY <1>1, <2>1, AloneNotLate DEF NotLateAt
<1>7. CASE Wait(e, d)
  <2>1. /\ age'[e] = Elapsed(e, d) /\ UNCHANGED <<state, sender, receiver, resend>>
        /\ Signalling(e) \/ Pinging(e)
        /\ ~CommandDue(e, d) /\ ~PingDue(e, d)
    BY <1>7 DEF Wait, IInv, TypeOK
  <2>2. CASE Pinging(e)
    <3>1. age'[e] = 0 /\ d = 0
      BY <1>2, <2>1, <2>2 DEF PingDue, Elapsed, AtMost
    <3>2. silence'[e] <= silence[e]
      BY <1>2, <3>1 DEF IInv, TypeOK, Wait, Quiet
    <3>3. silence'[e] \in Nat
      BY <1>7 DEF IInv, TypeOK, Wait, Quiet, AtMost
    <3>4. silence'[e] <= resend[e] * MaxStall
      <4>1. resend[e] * MaxStall \in Nat /\ silence[e] <= resend[e] * MaxStall
        BY <1>2, <2>2, Tries DEF NotLateAt
      <4>. QED BY <1>2, <3>2, <3>3, <4>1
    <3>. QED BY <1>1, <2>1, <2>2, <3>1, <3>4, AloneNotLate DEF NotLateAt, Pinging
  <2>3. CASE ~Pinging(e)
    <3>1. Signalling(e) /\ age'[e] = age[e] + d /\ age'[e] < CommandTick
      BY <1>2, <2>1, <2>3 DEF CommandDue, Elapsed, AtMost
    <3>2. resend[e] <= CommandTries /\ silence[e] <= resend[e] * Slowest + age[e]
      BY <1>2, <2>3, <3>1 DEF NotLateAt
    <3>3. silence'[e] \in Nat
      BY <1>7 DEF IInv, TypeOK, Wait, Quiet, AtMost
    <3>4. silence'[e] <= resend[e] * Slowest + age'[e]
      <4>1. resend[e] * Slowest \in Nat
        BY <1>2, Tries
      <4>. QED BY <1>2, <3>1, <3>2, <3>3, <4>1
    <3>. QED BY <1>1, <2>1, <2>3, <3>1, <3>2, <3>4, AloneNotLate
         DEF NotLateAt, Pinging, Signalling
  <2>. QED BY <2>2, <2>3
<1>. QED BY <1>4, <1>5, <1>6, <1>7

LEMMA NextNotLate ==
    Timely /\ IInv /\ TimersCounted /\ NotLate /\ [Next]_vars => NotLate'
<1>. SUFFICES ASSUME Timely, IInv, TimersCounted, NotLate, [Next]_vars PROVE NotLate'
  OBVIOUS
<1>1. CASE \E e \in Endpoint : Call(e)
  BY <1>1, CallNotLate
<1>2. CASE \E e \in Endpoint : Timers(e)
  BY <1>2, TimersNotLate DEF Timers
<1>3. CASE \E e \in Endpoint, m \in net, again \in BOOLEAN : Receive(e, m, again)
  BY <1>3, ReceiveNotLate
<1>4. CASE UNCHANGED <<fields, up, silence>>
  BY <1>4 DEF fields, NotLate, NotLateAt, Signalling, Pinging
<1>. QED BY <1>1, <1>2, <1>3, <1>4 DEF Next, Lose, vars

\* sim_session_state_timer gives up a session that hears nothing before the next
\* try of its limit would be due, in whatever state and with whatever sender and
\* receiver it was left, although each of two timers postpones the other's tries.
THEOREM TimeoutComes == ASSUME Timely PROVE Spec => []NoLateTimeout
<1>1. Init => IInv /\ TimersCounted /\ NotLate
  BY InitIInv, InitTimersCounted DEF Init, NotLate, NotLateAt, Signalling, Pinging
<1>2. IInv /\ TimersCounted /\ NotLate /\ [Next]_vars => (IInv /\ TimersCounted /\ NotLate)'
  BY NextStep, NextCounted, NextNotLate
<1>3. IInv /\ NotLate => NoLateTimeout
  <2>. SUFFICES ASSUME IInv, NotLate, NEW e \in Endpoint, up[e]
                PROVE  /\ Pinging(e) => silence[e] <= PingTries * MaxStall
                       /\ Signalling(e) /\ ~Pinging(e) =>
                            silence[e] < CommandTries * Slowest + CommandTick
    BY DEF NoLateTimeout
  <2>1. /\ resend[e] \in 0 .. PingTries /\ age[e] \in Nat /\ silence[e] \in Nat
        /\ NotLateAt(e)
    BY DEF IInv, TypeOK, NotLate
  <2>2. CASE Pinging(e)
    <3>1. silence[e] <= resend[e] * MaxStall /\ resend[e] * MaxStall <= PingTries * MaxStall
      BY <2>1, <2>2, Tries DEF NotLateAt
    <3>. QED BY <2>1, <2>2, <3>1, Tries
  <2>3. CASE Signalling(e) /\ ~Pinging(e)
    <3>1. /\ silence[e] <= resend[e] * Slowest + age[e] /\ age[e] < CommandTick
          /\ resend[e] * Slowest <= CommandTries * Slowest
      BY <2>1, <2>3, Tries DEF NotLateAt
    <3>. QED BY <2>1, <2>3, <3>1, Tries
  <2>. QED BY <2>2, <2>3
<1>. QED BY <1>1, <1>2, <1>3, PTL DEF Spec

-----------------------------------------------------------------------------
(* Sessions implement the lifecycle that their applications are promised.  *)

Flowing == [e \in Endpoint |-> VideoAccepted(e)]

\* A step of session e that leaves the application's view of the others alone.
LEMMA OneSession ==
    ASSUME IInv, NEW e \in Endpoint, NEW to \in State, NEW video \in BOOLEAN,
           up[e], UNCHANGED up, state' = [state EXCEPT ![e] = to],
           \A h \in Endpoint \ {e} : VideoAccepted(h)' <=> VideoAccepted(h),
           VideoAccepted(e)' <=> video
    PROVE  Lifecycle!Goes(e, state[e], to, video)
<1>1. Flowing' = [Flowing EXCEPT ![e] = video]
  BY DEF Flowing, VideoAccepted
<1>. QED BY <1>1 DEF Lifecycle!Goes, Flowing

LEMMA Unseen ==
    ASSUME UNCHANGED <<state, up>>, \A h \in Endpoint : VideoAccepted(h)' <=> VideoAccepted(h)
    PROVE  Lifecycle!Listen
BY DEF Lifecycle!Listen, VideoAccepted

LEMMA CallLife == ASSUME IInv, NEW e \in Endpoint, Call(e) PROVE Lifecycle!Next
<1>. USE DEF IInv, TypeOK, VideoAccepted
<1>1. ASSUME NEW p \in Endpoint, Connect(e, p) PROVE Lifecycle!Call(e)
  <2>a. up[e] /\ UNCHANGED up /\ state' = [state EXCEPT ![e] = "connecting"]
    BY <1>1 DEF Connect
  <2>b. \A h \in Endpoint \ {e} : VideoAccepted(h)' <=> VideoAccepted(h)
    BY <1>1 DEF Connect
  <2>c. VideoAccepted(e)' <=> FALSE
    BY <1>1 DEF Connect
  <2>d. Lifecycle!Goes(e, state[e], "connecting", FALSE)
    BY <2>a, <2>b, <2>c, OneSession DEF State
  <2>. QED BY <1>1, <2>d DEF Connect, Lifecycle!Call
<1>2. CASE Disconnect(e)
  <2>1. Lifecycle!HangUp(e)
    BY <1>2, OneSession DEF Disconnect, Lifecycle!HangUp, State
  <2>. QED BY <2>1 DEF Lifecycle!Next
<1>3. CASE SendVideo(e) \/ SetBitratesTest(e) \/ SetBitratesUse(e)
  <2>1. Lifecycle!Listen
    BY <1>3, Unseen DEF SendVideo, SetBitratesTest, SetBitratesUse, fields
  <2>. QED BY <2>1 DEF Lifecycle!Next
<1>4. CASE Destroy(e)
  <2>1. Lifecycle!Destroy(e)
    BY <1>4 DEF Destroy, FreeMedia, Lifecycle!Destroy
  <2>. QED BY <2>1 DEF Lifecycle!Next
<1>. QED BY <1>1, <1>2, <1>3, <1>4 DEF Call, Lifecycle!Next

LEMMA ReceiveLife ==
    ASSUME IInv, NEW e \in Endpoint, NEW m \in net, NEW again \in BOOLEAN, Receive(e, m, again)
    PROVE  Lifecycle!Next
<1>. USE DEF IInv, TypeOK, VideoAccepted, Heard
<1>1. CASE ReceiveConnectAck(e, m, again)
  <2>1. Lifecycle!Answer(e)
    <3>a. up[e] /\ UNCHANGED up /\ state' = [state EXCEPT ![e] = "connected"]
      BY <1>1 DEF ReceiveConnectAck, AckExpected
    <3>b. \A h \in Endpoint \ {e} : VideoAccepted(h)' <=> VideoAccepted(h)
      BY <1>1 DEF ReceiveConnectAck, AckExpected
    <3>c. VideoAccepted(e)' <=> TRUE
      BY <1>1 DEF ReceiveConnectAck, AckExpected
    <3>d. Lifecycle!Goes(e, state[e], "connected", TRUE)
      BY <3>a, <3>b, <3>c, OneSession DEF State
    <3>e. Lifecycle!Hears(e)
      BY <1>1 DEF ReceiveConnectAck, Lifecycle!Hears
    <3>. QED BY <1>1, <3>d, <3>e DEF ReceiveConnectAck, AckExpected, Lifecycle!Answer
  <2>. QED BY <2>1 DEF Lifecycle!Next
<1>2. CASE ReceiveDisconnectAck(e, m, again)
  <2>1. Lifecycle!End(e)
    <3>a. up[e] /\ UNCHANGED up /\ state' = [state EXCEPT ![e] = "idle"]
      BY <1>2 DEF ReceiveDisconnectAck, Reset, FreeMedia
    <3>b. \A h \in Endpoint \ {e} : VideoAccepted(h)' <=> VideoAccepted(h)
      BY <1>2 DEF ReceiveDisconnectAck, Reset, FreeMedia
    <3>c. VideoAccepted(e)' <=> FALSE
      BY <1>2 DEF ReceiveDisconnectAck, Reset, FreeMedia
    <3>d. Lifecycle!Goes(e, state[e], "idle", FALSE)
      BY <3>a, <3>b, <3>c, OneSession DEF State
    <3>e. Lifecycle!Hears(e)
      BY <1>2 DEF ReceiveDisconnectAck, Lifecycle!Hears
    <3>. QED BY <1>2, <3>d, <3>e DEF ReceiveDisconnectAck, Lifecycle!End
  <2>. QED BY <2>1 DEF Lifecycle!Next
<1>3. CASE Heard(e, m, again) /\ Recovered(e) /\ UNCHANGED <<state, sender>>
  <2>1. CASE state[e] = "connected" /\ sender[e] /\ ~VideoAccepted(e)
    <3>1. Lifecycle!Resume(e)
      <4>a. up[e] /\ UNCHANGED up /\ state' = [state EXCEPT ![e] = "connected"]
        BY <1>3, <2>1 DEF Recovered, Interrupt
      <4>b. \A h \in Endpoint \ {e} : VideoAccepted(h)' <=> VideoAccepted(h)
        BY <1>3, <2>1 DEF Recovered, Interrupt
      <4>c. VideoAccepted(e)' <=> TRUE
        BY <1>3, <2>1 DEF Recovered, Interrupt
      <4>d. Lifecycle!Goes(e, state[e], "connected", TRUE)
        BY <4>a, <4>b, <4>c, OneSession DEF State
      <4>e. Lifecycle!Hears(e)
        BY <1>3 DEF Lifecycle!Hears
      <4>. QED BY <1>3, <2>1, <4>d, <4>e DEF Lifecycle!Resume
    <3>. QED BY <3>1 DEF Lifecycle!Next
  <2>2. CASE ~(state[e] = "connected" /\ sender[e] /\ ~VideoAccepted(e))
    <3>1. Lifecycle!Listen
      BY <1>3, <2>2, Unseen DEF Recovered
    <3>. QED BY <3>1 DEF Lifecycle!Next
  <2>. QED BY <2>1, <2>2
<1>. QED BY <1>1, <1>2, <1>3 DEF Receive, ReceiveConnect, ReceiveDisconnect, ReceivePing, ReceiveOther

\* A connected session that is given up has pinged more than InterruptPings times.
LEMMA ExpiresCut ==
    ASSUME IInv, NEW e \in Endpoint, NEW d \in 0 .. MaxStall, GiveUp(e, d)
    PROVE  ~VideoAccepted(e)
<1>. SUFFICES ASSUME state[e] = "connected" PROVE interrupt[e] = "net_interrupt"
  BY DEF VideoAccepted
<1>1. up[e] /\ ~PingsLeft(e)
  BY DEF GiveUp, Heartbeat, CommandDue, Signalling
<1>2. resend[e] > InterruptPings
  BY <1>1 DEF PingsLeft, IInv, TypeOK
<1>. QED BY <1>1, <1>2 DEF IInv, SilenceCounted

LEMMA TimersLife ==
    ASSUME Timely, IInv, IInv', TimersCounted, NEW e \in Endpoint, NEW d \in 0 .. MaxStall,
           CommandAgain(e, d) \/ Ping(e, d) \/ GiveUp(e, d) \/ Wait(e, d)
    PROVE  Lifecycle!Next
<1>. USE DEF IInv, TypeOK, VideoAccepted, Heartbeat
<1>1. CASE CommandAgain(e, d) \/ Wait(e, d)
  <2>1. Lifecycle!Listen
    BY <1>1, Unseen DEF CommandAgain, Wait
  <2>. QED BY <2>1 DEF Lifecycle!Next
<1>2. CASE Ping(e, d)
  <2>1. CASE VideoAccepted(e)' <=> VideoAccepted(e)
    <3>1. Lifecycle!Listen
      BY <1>2, <2>1, Unseen DEF Ping
    <3>. QED BY <3>1 DEF Lifecycle!Next
  <2>2. CASE ~(VideoAccepted(e)' <=> VideoAccepted(e))
    <3>1. state[e] = "connected" /\ ~VideoAccepted(e)' /\ up'[e] /\ interrupt'[e] = "net_interrupt"
      BY <1>2, <2>2 DEF Ping
    <3>2. silence'[e] >= InterruptPings
      <4>1. \/ resend'[e] <= silence'[e] + 1
            \/ silence'[e] = MaxSilence
        BY <1>2, <3>1 DEF Ping, SilenceCounted
      <4>2. resend'[e] > InterruptPings
        BY <1>2, <3>1 DEF Ping, SilenceCounted
      <4>. QED BY <4>1, <4>2 DEF Timely
    <3>3. Lifecycle!Cut(e)
      <4>a. up[e] /\ UNCHANGED up /\ state' = [state EXCEPT ![e] = "connected"]
        BY <1>2, <3>1 DEF Ping
      <4>b. \A h \in Endpoint \ {e} : VideoAccepted(h)' <=> VideoAccepted(h)
        BY <1>2, <3>1 DEF Ping
      <4>c. VideoAccepted(e)' <=> FALSE
        BY <1>2, <3>1 DEF Ping
      <4>d. Lifecycle!Goes(e, state[e], "connected", FALSE)
        BY <4>a, <4>b, <4>c, OneSession DEF State
      <4>e. VideoAccepted(e)
        BY <2>2, <4>c
      <4>. QED BY <1>2, <3>1, <3>2, <4>d, <4>e DEF Lifecycle!Cut
    <3>. QED BY <3>3 DEF Lifecycle!Next
  <2>. QED BY <2>1, <2>2
<1>3. CASE GiveUp(e, d)
  <2>1. silence'[e] >= PingTries
    BY <1>3, GivesUpInTime
  <2>2. CASE state[e] = "idle"
    <3>1. Lifecycle!Listen
      BY <1>3, <2>2, Unseen DEF GiveUp, Reset, FreeMedia
    <3>. QED BY <3>1 DEF Lifecycle!Next
  <2>3. CASE state[e] # "idle"
    <3>1. Lifecycle!Expire(e)
      <4>a. up[e] /\ UNCHANGED up /\ state' = [state EXCEPT ![e] = "idle"]
        BY <1>3, <2>1, <2>3 DEF GiveUp, Reset, FreeMedia
      <4>b. \A h \in Endpoint \ {e} : VideoAccepted(h)' <=> VideoAccepted(h)
        BY <1>3, <2>1, <2>3 DEF GiveUp, Reset, FreeMedia
      <4>c. VideoAccepted(e)' <=> FALSE
        BY <1>3, <2>1, <2>3 DEF GiveUp, Reset, FreeMedia
      <4>d. Lifecycle!Goes(e, state[e], "idle", FALSE)
        BY <4>a, <4>b, <4>c, OneSession DEF State
      <4>e. ~VideoAccepted(e)
        BY <1>3, ExpiresCut
      <4>. QED BY <1>3, <2>1, <2>3, <4>d, <4>e DEF State, Lifecycle!Expire
    <3>. QED BY <3>1 DEF Lifecycle!Next
  <2>. QED BY <2>2, <2>3
<1>. QED BY <1>1, <1>2, <1>3

\* Every behaviour of the sessions is one of SessionLifecycle: calls are answered,
\* hung up and ended in order, and neither the video nor the session is cut
\* without the silence that justifies it.
THEOREM LifecycleCorrect == ASSUME Timely PROVE Spec => ImplementsLifecycle
<1>1. Init => Lifecycle!Init
  BY DEF Init, Lifecycle!Init, VideoAccepted
<1>2. Init => IInv /\ TimersCounted
  BY InitIInv, InitTimersCounted
<1>3. IInv /\ TimersCounted /\ [Next]_vars => (IInv /\ TimersCounted)'
  BY NextStep, NextCounted
<1>4. IInv /\ IInv' /\ TimersCounted /\ [Next]_vars => [Lifecycle!Next]_Lifecycle!lifecycle
  <2>. SUFFICES ASSUME IInv, IInv', TimersCounted, [Next]_vars
                PROVE  Lifecycle!Next \/ UNCHANGED Lifecycle!lifecycle
    OBVIOUS
  <2>1. CASE \E e \in Endpoint : Call(e)
    BY <2>1, CallLife
  <2>2. CASE \E e \in Endpoint : Timers(e)
    BY <2>2, TimersLife DEF Timers
  <2>3. CASE \E e \in Endpoint, m \in net, again \in BOOLEAN : Receive(e, m, again)
    BY <2>3, ReceiveLife
  <2>4. CASE \E m \in net : Lose(m)
    BY <2>4, Unseen DEF Lose, fields, VideoAccepted, Lifecycle!Next
  <2>5. CASE UNCHANGED vars
    BY <2>5, Unseen DEF vars, fields, VideoAccepted, Lifecycle!Next
  <2>. QED BY <2>1, <2>2, <2>3, <2>4, <2>5 DEF Next
<1>. QED BY <1>1, <1>2, <1>3, <1>4, PTL DEF Spec, ImplementsLifecycle, Lifecycle!Spec
=============================================================================
