---------------------------- MODULE SimTransport ----------------------------
(***************************************************************************)
(* One direction of a call: the sending half of a session (sim_sender.c)   *)
(* and the receiving half (SimReceiver) over a network that loses,         *)
(* reorders and duplicates datagrams in both directions.                   *)
(*                                                                         *)
(* The pacer is a set of packet ids served in the order of the ids (its    *)
(* queue and budget are PaceSender); the limiter and the pacer may refuse  *)
(* a retransmission at any time.                                           *)
(***************************************************************************)
EXTENDS SimReceiver

CONSTANTS
    MaxFaults,  \* bound: losses, duplications and refused retransmissions
    AckCap,     \* bound: SEG_ACKs and FEEDBACKs in flight
    Patient     \* TRUE: the rtt estimate covers the real one (see Asked)

ASSUME TransportAssumption == MaxFaults \in Nat /\ AckCap \in Nat /\ Patient \in BOOLEAN

VARIABLES
    tx,         \* sim_sender_t: seeds, base_packet_id and the cache of segments
    pacer,      \* packet ids in the pacer
    segs,       \* SEGs in flight
    acks,       \* SEG_ACKs and FEEDBACKs in flight
    faults

transportVars == <<tx, pacer, segs, acks, faults>>
allVars == <<receiverVars, transportVars>>

Sender == [frame : 0 .. MaxFrame, seed : 0 .. MaxPacket, base : 0 .. MaxPacket,
           cache : SUBSET Packet]
Ack    == [type : {"SEG_ACK", "FEEDBACK"}, base : 0 .. MaxPacket, nacks : SUBSET Packet]

TransportInit ==
    /\ ReceiverInit
    /\ tx = [frame |-> 0, seed |-> 0, base |-> 0, cache |-> {}]
    /\ pacer = {} /\ segs = {} /\ acks = {} /\ faults = 0

\* sim_receiver_send_ack, send_sim_feedback: one more datagram on its way back.
SendAck(type, base, nacks) ==
    /\ Cardinality(acks) < AckCap
    /\ acks' = acks \cup {[type |-> type, base |-> base, nacks |-> nacks]}

Fault == faults < MaxFaults /\ faults' = faults + 1

\* sim_sender_put: the segments of the next frame go to the cache and the pacer.
PutFrame ==
    /\ tx.frame < MaxFrame
    /\ LET f == tx.frame + 1
       IN  /\ tx' = [tx EXCEPT !.frame = f, !.seed = LastId[f], !.cache = @ \cup Packets(f)]
           /\ pacer' = pacer \cup Packets(f)
    /\ UNCHANGED <<receiverVars, segs, acks, faults>>

\* pace_try_transmit, sim_send_packet: the least id is sent, unless its segment
\* was acknowledged while it was queued.
Pace ==
    /\ pacer # {}
    /\ LET p == CHOOSE q \in pacer : \A o \in pacer : q <= o
       IN  /\ pacer' = pacer \ {p}
           /\ segs' = IF p \in tx.cache THEN segs \cup {p} ELSE segs
    /\ UNCHANGED <<receiverVars, tx, acks, faults>>

\* sim_sender_update_base.  The mutants: everything that was put is let go; a base
\* that is behind moves it back.
UpdateAll(t, base) ==
    [t EXCEPT !.cache = {}, !.base = IF base > @ THEN base ELSE @]
UpdateBack(t, base) ==
    [t EXCEPT !.cache = @ \ t.base .. base, !.base = base]
UpdateBase(t, base) ==
    [t EXCEPT !.cache = @ \ t.base .. base, !.base = IF base > @ THEN base ELSE @]

\* sim_sender_ack: packets that are asked for and still in the cache are queued
\* again, but for those that the limiter or the pacer refuses.
HandleAck(m) ==
    /\ m \in acks /\ m.type = "SEG_ACK"
    /\ acks' = acks \ {m}
    /\ IF m.base > tx.seed THEN UNCHANGED <<tx, pacer, faults>>
       ELSE /\ tx' = UpdateBase(tx, m.base)
            /\ \E refused \in SUBSET (m.nacks \cap tx'.cache) :
                /\ pacer' = pacer \cup ((m.nacks \cap tx'.cache) \ refused)
                /\ IF refused = {} THEN UNCHANGED faults ELSE Fault
    /\ UNCHANGED <<receiverVars, segs>>

\* sim_sender_feedback: the base is taken as it is.
HandleFeedback(m) ==
    /\ m \in acks /\ m.type = "FEEDBACK"
    /\ acks' = acks \ {m}
    /\ tx' = UpdateBase(tx, m.base)
    /\ UNCHANGED <<receiverVars, pacer, segs, faults>>

\* The network.
LoseSeg(p) ==
    p \in segs /\ Fault /\ segs' = segs \ {p} /\ UNCHANGED <<receiverVars, tx, pacer, acks>>
LoseAck(m) ==
    m \in acks /\ Fault /\ acks' = acks \ {m} /\ UNCHANGED <<receiverVars, tx, pacer, segs>>

\* A SEG leaves the network, or is delivered and stays to be delivered again.
Taken(p) ==
    /\ p \in segs
    /\ \/ segs' = segs \ {p} /\ UNCHANGED faults
       \/ Fault /\ UNCHANGED segs

\* The rtt for which video_real_ack waits before it asks again: when the estimate
\* is right, what answers the last request is not in flight any more.
OnItsWay(p) == p \in pacer \cup segs \/ \E m \in acks : p \in m.nacks
Asked(nacks) == Patient => \A p \in nacks : ~OnItsWay(p)

ReceiveSeg(p) ==
    /\ Taken(p)
    /\ Drop(p) \/ Arrive(p)
    /\ UNCHANGED <<tx, pacer, acks>>

ReceiveAndAck(p, nacks) ==
    /\ Taken(p)
    /\ Asked(nacks) /\ ArriveAndAck(p, nacks)
    /\ SendAck("SEG_ACK", rx'.base, nacks)
    /\ UNCHANGED <<tx, pacer>>

HeartbeatAck(nacks) ==
    /\ Asked(nacks) /\ TimerAck(nacks)
    /\ SendAck("SEG_ACK", rx'.base, nacks)
    /\ UNCHANGED <<tx, pacer, segs, faults>>

\* send_sim_feedback, which the congestion controller of the receiver calls.
SendFeedback ==
    /\ SendAck("FEEDBACK", rx.base, {})
    /\ UNCHANGED <<receiverVars, tx, pacer, segs, faults>>

Watch == \/ Trim /\ UNCHANGED transportVars
         \/ \E late \in BOOLEAN : Play(late) /\ UNCHANGED transportVars

Network == \/ \E p \in segs : LoseSeg(p)
           \/ \E m \in acks : LoseAck(m)

TransportNext ==
    \/ PutFrame \/ Pace \/ SendFeedback \/ Watch \/ Network
    \/ \E m \in acks : HandleAck(m) \/ HandleFeedback(m)
    \/ \E p \in segs : ReceiveSeg(p)
    \/ \E p \in segs : \E nacks \in Nacks(Put(rx, p)) : ReceiveAndAck(p, nacks)
    \/ \E nacks \in Nacks(rx) : HeartbeatAck(nacks)

TransportSpec == TransportInit /\ [][TransportNext]_allVars

\* The loop thread keeps running on both sides (sim_session_loop_event), so the
\* pacer sends, what is in flight is handled and the heartbeat asks for what is
\* missing; strongly, as AckCap is a bound of the model.  The application reads.
AskFor(p)    == \E nacks \in Nacks(rx) : p \in nacks /\ HeartbeatAck(nacks)
AnswerFor(p) == \E m \in acks : p \in m.nacks /\ HandleAck(m)
Answer       == \E m \in acks : HandleAck(m) \/ HandleFeedback(m)

FairTransport ==
    /\ TransportSpec
    /\ WF_allVars(Pace) /\ WF_allVars(Answer)
    /\ WF_allVars(Play(FALSE) /\ UNCHANGED transportVars)
    /\ \A p \in Packet : /\ WF_allVars(ReceiveSeg(p))
                         /\ WF_allVars(AnswerFor(p))
                         /\ SF_allVars(AskFor(p))
-----------------------------------------------------------------------------
\* sim_sender_update_base runs on acknowledgements that are late, repeated or out
\* of order; what it keeps is exactly what was put and not acknowledged.
CacheIsWindow == tx.cache = tx.base + 1 .. tx.seed

\* However acknowledgements are delayed, the sender lets go only of what the
\* receiver has acknowledged.
SenderBehindReceiver == tx.base <= rx.base /\ rx.base <= tx.seed

\* A packet on the receiver's loss list can still be had: video_real_ack never
\* asks for a segment that sim_sender_ack no longer finds in its cache.
NacksCanBeAnswered == \A p \in DOMAIN rx.loss : p > rx.base => p \in tx.cache

\* The two windows fit: the sender holds what was put and not acknowledged, and with
\* it whatever the receiver may still ask for.
WindowsFit == CacheIsWindow /\ SenderBehindReceiver /\ NacksCanBeAnswered

\* A packet that sim_sender_put queued stays in the sender's cache, to be sent from the
\* pacer or again, until the receiver has stored it or passed over its frame.
NothingVanishes ==
    \A p \in 1 .. tx.seed :
        p \in got \/ FrameOf[p] <= rx.cache.min_fid \/ p \in tx.cache

\* Repair and play-out together: as long as fewer packets are lost than it may be
\* asked for, a frame whose last packet arrived is shown or passed over, although
\* what it waits for was lost, refused by the limiter or is still in the pacer.
FramesComeOut ==
    \A f \in Frame : LastId[f] \in got ~> rx.cache.min_fid >= f

\* The two applications see a FrameChannel.
Channel == INSTANCE FrameChannel WITH sent <- tx.frame, shown <- last, shows <- plays
ImplementsChannel == Channel!ChannelSpec
=============================================================================
