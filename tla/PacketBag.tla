----------------------------- MODULE PacketBag -----------------------------
(***************************************************************************)
(* What the pacer promises to the sender that queues packets: a packet     *)
(* that is queued is sent once, and of the queued packets the one with the *)
(* least sequence number is sent first (pacer_queue.h).                    *)
(***************************************************************************)
EXTENDS Naturals

CONSTANT Seq0   \* the sequence numbers

VARIABLE queued

BagInit == queued = {}

\* pace_insert_packet
Insert == \E s \in Seq0 \ queued : queued' = queued \cup {s}

\* send_cb
SendLeast == \E s \in queued : /\ \A o \in queued : s <= o
                               /\ queued' = queued \ {s}

BagSpec == BagInit /\ [][Insert \/ SendLeast]_queued
=============================================================================
