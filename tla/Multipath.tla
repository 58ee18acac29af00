----------------------------- MODULE Multipath -----------------------------
(***************************************************************************)
(* One video over several paths: mpsender.cc, path.cc, and of mpreceiver.cc*)
(* and recvpath.cc the answer to a CONNECT (segments are only logged       *)
(* there).  Each path is connected by itself, repeating its CONNECT until  *)
(* it is answered; every packet of the video is queued on all connected    *)
(* paths, and each path paces its queue out.                               *)
(*                                                                         *)
(* An action is an event of the ns-3 simulator; the timers (100 ms for     *)
(* CONNECT, 40 ms for frames, 5 ms for the pacers) fire in any order.      *)
(***************************************************************************)
EXTENDS Integers, Sequences, FiniteSets, SequencesExt

CONSTANTS
    Paths,          \* the destinations a path leads to, as numbers
    LocalPort,      \* the port of the sender's sockets
    RemotePort,     \* servPort
    FrameBytes,     \* the bytes of a frame
    SegmentSize,    \* m_segmentSize
    HeaderLen,      \* header_len
    PaceBytes,      \* what a pacer's budget grows by in m_paceGap
    Garbage,        \* what m_byteRemaining may hold, which is not initialised
    NetCap,         \* bound: CONNECTs, and their answers, on the way of a path
    MaxFrames       \* bound: frames

ASSUME MultipathAssumption ==
    /\ Paths \subseteq Nat /\ Paths # {}
    /\ {FrameBytes, SegmentSize, PaceBytes, NetCap} \subseteq Nat \ {0}
    /\ {LocalPort, RemotePort, HeaderLen, MaxFrames} \subseteq Nat
    /\ Garbage \subseteq Int /\ Garbage # {}

VARIABLES
    started, stopped,   \* StartApplication, StopApplication
    pathState,          \* m_pathState of each path; "deleted" when ~Path has run
    rxConEvent,         \* the path's next Connect is scheduled
    pacers,             \* how many calls of its PaceCallback are scheduled
    elapsed,            \* what its budget grows by at the next
    remaining,          \* m_byteRemaining
    queue,              \* m_paceQueue
    sent,               \* history variable: the packets it has sent
    connects, acks,     \* CONNECTs and CONNECT_ACKs on the way
    generating,         \* FakePacket is scheduled
    packetId,           \* m_packetId
    txBuffer,           \* the numbers in m_txBuffer
    aborted             \* an assertion has failed, or freed memory was used

pathVars == <<pathState, rxConEvent, pacers, elapsed, remaining, queue, sent>>
netVars  == <<connects, acks>>
genVars  == <<generating, packetId, txBuffer>>
vars == <<started, stopped, pathVars, netVars, genVars, aborted>>

Least(a, b) == IF a < b THEN a ELSE b

(***************************************************************************)
(* The map of the paths.                                                   *)
(***************************************************************************)

Address(p) == [src |-> p, dest |-> p, srcPort |-> LocalPort, destPort |-> RemotePort]

\* comp_path.  The last clause compares the ports of the two ends.
Before(a, b) ==
    \/ a.src < b.src
    \/ a.src = b.src /\ a.dest < b.dest
    \/ a.src = b.src /\ a.dest = b.dest /\ a.srcPort < b.srcPort
    \/ a.src = b.src /\ a.dest = b.dest /\ a.srcPort = b.srcPort /\ a.srcPort < b.destPort

\* m_paths.find: the path for an address, if the map has it and the order lets it
\* be found.
Existing == {p \in Paths : pathState[p] # "deleted"}
Found(address) ==
    {p \in Existing : ~Before(Address(p), address) /\ ~Before(address, Address(p))}

(***************************************************************************)
(* Connecting.                                                             *)
(***************************************************************************)

\* Init, AddPath: a socket and a path for each destination.
Init ==
    /\ started = FALSE /\ stopped = FALSE
    /\ pathState = [p \in Paths |-> "idle"]
    /\ rxConEvent = [p \in Paths |-> FALSE]
    /\ pacers = [p \in Paths |-> 0] /\ elapsed = [p \in Paths |-> 0]
    /\ remaining \in [Paths -> Garbage]
    /\ queue = [p \in Paths |-> <<>>] /\ sent = [p \in Paths |-> <<>>]
    /\ connects = [p \in Paths |-> 0] /\ acks = [p \in Paths |-> 0]
    /\ generating = FALSE /\ packetId = 0 /\ txBuffer = {}
    /\ aborted = FALSE

\* One message more, or less, on the way of a path.
More(count, p) == [count EXCEPT ![p] = Least(@ + 1, NetCap)]
Fewer(count, p) == [count EXCEPT ![p] = @ - 1]

\* StartApplication, PathConnect: all paths call Connect.
Start ==
    /\ ~started /\ started' = TRUE
    /\ pathState' = [p \in Paths |-> "connecting"]
    /\ rxConEvent' = [p \in Paths |-> TRUE]
    /\ connects' = [p \in Paths |-> 1]
    /\ UNCHANGED <<stopped, pacers, elapsed, remaining, queue, sent, acks, genVars, aborted>>

\* Path::Connect by its timer, which it sets again.  The mutant does not.
ReconnectOnce(p) ==
    /\ ~aborted /\ rxConEvent[p] /\ pathState[p] = "connecting"
    /\ connects' = More(connects, p) /\ rxConEvent' = [rxConEvent EXCEPT ![p] = FALSE]
    /\ UNCHANGED <<started, stopped, pathState, pacers, elapsed, remaining, queue, sent,
                   acks, genVars, aborted>>
Reconnect(p) ==
    /\ ~aborted /\ rxConEvent[p] /\ pathState[p] = "connecting"
    /\ connects' = More(connects, p)
    /\ UNCHANGED <<started, stopped, pathVars, acks, genVars, aborted>>

\* ~Path leaves that timer: Connect runs in freed memory, which may still hold
\* what it held, or not.
ReconnectDeleted(p) ==
    /\ ~aborted /\ rxConEvent[p] /\ pathState[p] = "deleted"
    /\ \/ /\ connects' = More(connects, p) /\ UNCHANGED <<rxConEvent, aborted>>
       \/ /\ rxConEvent' = [rxConEvent EXCEPT ![p] = FALSE] /\ UNCHANGED <<connects, aborted>>
       \/ /\ aborted' = TRUE /\ UNCHANGED <<connects, rxConEvent>>
    /\ UNCHANGED <<started, stopped, pathState, pacers, elapsed, remaining, queue, sent,
                   acks, genVars>>

\* MpReceiver::RecvPacket, ReceivePath::ProcessConnect: a CONNECT is always answered.
Answer(p) ==
    /\ connects[p] > 0
    /\ connects' = Fewer(connects, p) /\ acks' = More(acks, p)
    /\ UNCHANGED <<started, stopped, pathVars, genVars, aborted>>

LoseConnect(p) ==
    /\ connects[p] > 0 /\ connects' = Fewer(connects, p)
    /\ UNCHANGED <<started, stopped, pathVars, acks, genVars, aborted>>

LoseAck(p) ==
    /\ acks[p] > 0 /\ acks' = Fewer(acks, p)
    /\ UNCHANGED <<started, stopped, pathVars, connects, genVars, aborted>>

\* MpSender::RecvPacket for a CONNECT_ACK: its path is connected, and only the first
\* answer starts the pacer.  The mutant starts it at each.
PacerStartsAgain(p) == TRUE
PacerStarts(p) == pathState[p] = "connecting"

HandleAck(p) ==
    /\ ~aborted /\ acks[p] > 0 /\ acks' = Fewer(acks, p)
    /\ Found(Address(p)) = {p}
    /\ pathState' = [pathState EXCEPT ![p] = "connected"]
    /\ rxConEvent' = [rxConEvent EXCEPT ![p] = FALSE]
    /\ pacers' = [pacers EXCEPT ![p] = IF PacerStarts(p) THEN @ + 1 ELSE @]
    /\ elapsed' = [elapsed EXCEPT ![p] = IF PacerStarts(p) THEN 0 ELSE @]
    /\ generating' = TRUE
    /\ UNCHANGED <<started, stopped, remaining, queue, sent, connects, packetId, txBuffer, aborted>>

\* The assertion of MpSender::GetPath.
HandleUnknownAck(p) ==
    /\ ~aborted /\ acks[p] > 0 /\ acks' = Fewer(acks, p)
    /\ Found(Address(p)) = {}
    /\ aborted' = TRUE
    /\ UNCHANGED <<started, stopped, pathVars, connects, genVars>>

\* StopApplication, ~Path.
Stop ==
    /\ started /\ ~stopped /\ ~aborted
    /\ stopped' = TRUE
    /\ pathState' = [p \in Paths |-> "deleted"]
    /\ pacers' = [p \in Paths |-> 0]
    /\ queue' = [p \in Paths |-> <<>>] /\ sent' = [p \in Paths |-> <<>>]
    /\ UNCHANGED <<started, rxConEvent, elapsed, remaining, netVars, genVars, aborted>>

(***************************************************************************)
(* Packets.                                                                *)
(***************************************************************************)

\* FrameSplit: the sizes of the pieces of size bytes.
FrameSplit(size) ==
    IF size < SegmentSize THEN <<size>>
    ELSE [i \in 1 .. size \div SegmentSize |-> SegmentSize] \o
         (IF size % SegmentSize > 0 THEN <<size % SegmentSize>> ELSE <<>>)

\* FakePacket, Schedule: the pieces of a frame go to the buffer and to the queues of
\* all paths that are connected.  The mutant takes the first of them only.
NewPackets ==
    LET sizes == FrameSplit(FrameBytes)
    IN  [i \in DOMAIN sizes |-> [id |-> packetId + i - 1, len |-> sizes[i] + HeaderLen]]

Connected == {p \in Paths : pathState[p] = "connected"}
FirstConnected == {p \in Connected : \A q \in Connected : p <= q}
Targets == Connected

FakePacket ==
    /\ ~aborted /\ generating /\ packetId < MaxFrames * Len(FrameSplit(FrameBytes))
    /\ packetId' = packetId + Len(NewPackets)
    /\ txBuffer' = txBuffer \cup {NewPackets[i].id : i \in DOMAIN NewPackets}
    /\ queue' = [p \in Paths |-> IF p \in Targets THEN queue[p] \o NewPackets ELSE queue[p]]
    /\ UNCHANGED <<started, stopped, pathState, rxConEvent, pacers, elapsed, remaining, sent,
                   netVars, generating, aborted>>

\* Path::IncreaseBudget: what was not used is not saved up.  The mutant does not let
\* a debt be paid.
DebtStays(p) == IF remaining[p] < 0 THEN remaining[p] ELSE elapsed[p]
Increased(p) == (IF remaining[p] < 0 THEN remaining[p] ELSE 0) + elapsed[p]

\* The loop of PaceCallback sends while the budget is not negative.  The mutant
\* looks at it once.
Bytes(packets) == FoldLeft(LAMBDA sum, x : sum + x.len, 0, packets)
Left(p, n) == Increased(p) - Bytes(SubSeq(queue[p], 1, n))
SendsAll(p) == IF Increased(p) >= 0 THEN Len(queue[p]) ELSE 0
Sends(p) ==
    CHOOSE n \in 0 .. Len(queue[p]) :
        /\ \A m \in 0 .. n - 1 : ~ (Left(p, m) < 0)
        /\ n < Len(queue[p]) => Left(p, n) < 0

\* OnPacePacket counts down a copy of the packet's reference count, in a byte; the
\* count in the buffer was counted up in a copy as well and is 0.  The mutant has
\* it count once for all paths.
CountedOnce(id) == 1
References(id) == 0
Erased(ids) == {id \in ids : (References(id) - 1) % 256 = 0}

\* Path::PaceCallback; a budget that is left when the queue is empty is used up by
\* probes, which are segments without data.
PaceCallback(p) ==
    LET n   == Sends(p)
        ids == {queue[p][i].id : i \in 1 .. n}
    IN  /\ ~aborted /\ pacers[p] > 0
        /\ aborted' = ~(ids \subseteq txBuffer)
        /\ txBuffer' = txBuffer \ Erased(ids)
        /\ sent' = [sent EXCEPT ![p] = @ \o [i \in 1 .. n |-> queue[p][i].id]]
        /\ queue' = [queue EXCEPT ![p] = SubSeq(@, n + 1, Len(@))]
        /\ remaining' = [remaining EXCEPT ![p] =
                            IF n = Len(queue[p]) THEN Least(Left(p, n), 0) ELSE Left(p, n)]
        /\ elapsed' = [elapsed EXCEPT ![p] = PaceBytes]
        /\ UNCHANGED <<started, stopped, pathState, rxConEvent, pacers, netVars,
                       generating, packetId>>

Next ==
    \/ Start
    \/ Stop
    \/ FakePacket
    \/ \E p \in Paths :
        \/ Reconnect(p)
        \/ ReconnectDeleted(p)
        \/ Answer(p)
        \/ LoseConnect(p)
        \/ LoseAck(p)
        \/ HandleAck(p)
        \/ HandleUnknownAck(p)
        \/ PaceCallback(p)

\* The simulator runs every event that is scheduled; a link that does not lose
\* everything delivers in the end what is sent again and again.
Fairness ==
    /\ WF_vars(Start) /\ WF_vars(FakePacket)
    /\ \A p \in Paths :
        /\ WF_vars(Reconnect(p)) /\ WF_vars(PaceCallback(p))
        /\ SF_vars(Answer(p)) /\ SF_vars(HandleAck(p))

Spec == Init /\ [][Next]_vars /\ Fairness

(***************************************************************************)
(* Properties.                                                             *)
(***************************************************************************)

States == {"idle", "connecting", "connected", "deleted"}
MaxLen == Least(FrameBytes, SegmentSize) + HeaderLen

\* Types; a path is never deeper in debt than by one packet, or than it was created.
MultipathTypeOK ==
    /\ pathState \in [Paths -> States]
    /\ rxConEvent \in [Paths -> BOOLEAN]
    /\ pacers \in [Paths -> 0 .. 1]
    /\ elapsed \in [Paths -> {0, PaceBytes}]
    /\ \A p \in Paths : remaining[p] >= -MaxLen \/ \E g \in Garbage : remaining[p] >= g
    /\ connects \in [Paths -> 0 .. NetCap] /\ acks \in [Paths -> 0 .. NetCap]
    /\ packetId \in Nat /\ txBuffer \subseteq 0 .. packetId - 1
    /\ {started, stopped, generating, aborted} \subseteq BOOLEAN

\* A connected path has one pacer, and no other has any, however many answers to
\* its CONNECTs come (MpSender::RecvPacket, Path::StartPace); it does not connect
\* again, and one that is connecting does.
OnePacer ==
    \A p \in Paths :
        /\ pacers[p] = IF pathState[p] = "connected" THEN 1 ELSE 0
        /\ pathState[p] = "connecting" => rxConEvent[p]
        /\ pathState[p] = "connected" => ~rxConEvent[p]

\* "send packet to all path" (mpsender.cc:117): a path has sent, or will, every
\* packet since it was connected, once and in order.
EveryPathSendsAll ==
    \A p \in Connected :
        LET all == sent[p] \o [i \in DOMAIN queue[p] |-> queue[p][i].id]
        IN  \A i \in DOMAIN all : all[i] = packetId - Len(all) + i - 1

\* Until the application is stopped the assertions of OnPacePacket (mpsender.cc:173)
\* and of GetPath (268) hold: a packet stays in the buffer until the last path has
\* sent it, and the path of every datagram is found.  Those of Schedule and
\* FrameSplit are not modelled: 81 and 147 compare the configured sizes, 122 finds
\* what was inserted just before.
AssertionsHold == aborted => stopped

\* Every path of an application that goes on gets connected, though CONNECTs and
\* their answers are lost (Path::Connect by its timer).
EveryPathConnects == []~stopped => \A p \in Paths : <>(pathState[p] = "connected")

\* What is queued is sent (PaceCallback schedules itself again).
QueuesDrain == \A p \in Paths : queue[p] # <<>> ~> queue[p] = <<>>
=============================================================================
