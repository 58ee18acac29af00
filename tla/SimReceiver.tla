---------------------------- MODULE SimReceiver ----------------------------
(***************************************************************************)
(* The receiving half of a session (sim_receiver.c): the play-out buffer,  *)
(* the list of missing packets and the acknowledgements.  Segments arrive  *)
(* in any order, any number of times or never; the application's thread    *)
(* asks for frames and the session's timer acknowledges at any moment, so  *)
(* the clocks of the code (wait_timer, frame_ts, ack_ts, the rtt) are      *)
(* choices here.  Every action is one call made under session->mutex.      *)
(***************************************************************************)
EXTENDS FrameCache

CONSTANTS
    MaxNack,    \* the 30 of video_real_ack: times a packet is asked for
    NackNum,    \* NACK_NUM: packets asked for in one SEG_ACK
    MaxRestarts \* bound: CONNECTs that reset the receiver within a call

ASSUME ReceiverAssumption ==
    /\ MaxNack \in Nat \ {0} /\ NackNum \in Nat \ {0} /\ MaxRestarts \in Nat

VARIABLES
    rx,         \* sim_receiver_t: its cache, base_seq, max_seq and loss list
    got,        \* history: the packets that were put in the cache
    last,       \* history: the last frame given to the application ...
    plays,      \* ... and how many there were
    restarts

receiverVars == <<rx, got, last, plays, restarts>>

\* loss maps the id of a missing packet to l->count.
IsReceiver(r) ==
    /\ DOMAIN r = {"cache", "base", "max", "loss"}
    /\ r.cache \in Cache /\ r.base \in 0 .. MaxPacket /\ r.max \in 0 .. MaxPacket
    /\ DOMAIN r.loss \subseteq Packet
    /\ \A p \in DOMAIN r.loss : r.loss[p] \in 0 .. MaxNack

NewReceiver == [cache |-> EmptyCache, base |-> 0, max |-> 0, loss |-> <<>>]

ReceiverInit == rx = NewReceiver /\ got = {} /\ last = 0 /\ plays = 0 /\ restarts = 0

\* sim_receiver_update_loss.  The mutants: a packet that came late stays on the
\* list; the first of the missing ones is left out.
StillMissing(r, p) ==
    [q \in DOMAIN r.loss \cup r.max + 1 .. p - 1 |-> IF q \in DOMAIN r.loss THEN r.loss[q] ELSE 0]
MissingButFirst(r, p) ==
    [q \in (DOMAIN r.loss \cup r.max + 2 .. p - 1) \ {p} |->
        IF q \in DOMAIN r.loss THEN r.loss[q] ELSE 0]
Missing(r, p) ==
    [q \in (DOMAIN r.loss \cup r.max + 1 .. p - 1) \ {p} |->
        IF q \in DOMAIN r.loss THEN r.loss[q] ELSE 0]

\* sim_receiver_put: the call starts with a key frame, and what is acknowledged
\* is not wanted again.
Wanted(r, p) == (r.max # 0 \/ IsKey(p)) /\ p > r.base

Synced(r, p) ==
    IF r.max = 0 THEN [r EXCEPT !.max = p - IndexOf(p) - 1, !.base = p - IndexOf(p) - 1] ELSE r

Noted(r, p) == LET s == Synced(r, p) IN [s EXCEPT !.loss = Missing(s, p)]

\* The mutant takes any newer packet for the next one.
BaseJumps(r, p) == IF p > r.base THEN p ELSE r.base
BaseAfter(r, p) == IF p = r.base + 1 THEN p ELSE r.base

\* SU_MAX.  The mutant takes the latest packet for the newest.
MaxIsLatest(r, p) == p
MaxAfter(r, p)    == IF p > r.max THEN p ELSE r.max

Put(r, p) ==
    LET n == Noted(r, p)
    IN  IF Stores(n.cache, p)
        THEN [n EXCEPT !.cache = CachePut(n.cache, p), !.base = BaseAfter(n, p),
                       !.max = MaxAfter(n, p)]
        ELSE [n EXCEPT !.cache = CachePut(n.cache, p)]

\* video_real_ack: base_seq follows what the cache has dropped or played ...  The
\* mutant does not look whether that is ahead.
SettledAnyway(r) ==
    [r EXCEPT !.base = r.cache.min_seq,
              !.loss = Restrict(@, DOMAIN @ \ r.base + 1 .. r.cache.min_seq)]
Settled(r) ==
    IF r.cache.min_seq <= r.base THEN r
    ELSE [r EXCEPT !.base = r.cache.min_seq,
                   !.loss = Restrict(@, DOMAIN @ \ r.base + 1 .. r.cache.min_seq)]

\* ... and the packets that may be asked for: which of them have waited long
\* enough is a choice.  The mutant never stops asking.
DueForEver(r) == {p \in DOMAIN r.loss : p > r.base}
Due(r)        == {p \in DOMAIN r.loss : p > r.base /\ r.loss[p] < MaxNack}
Nacks(r)      == {nacks \in SUBSET Due(Settled(r)) : Cardinality(nacks) <= NackNum}

Acked(r, nacks) ==
    LET s == Settled(r)
    IN  [s EXCEPT !.loss = [p \in DOMAIN @ |-> IF p \in nacks THEN @[p] + 1 ELSE @[p]]]

\* A packet that is late or early by a whole ring would share its slot with
\* another frame; the network is assumed not to be that late (README).
WithinRing(c, p) ==
    LET f == FrameOf[p]
    IN  /\ f + Size > c.max_fid
        /\ f > c.max_fid /\ c.max_fid > 0 => f <= EvictFrame(c, f).min_fid + Size

\* process_sim_seg, sim_receiver_put: a packet arrives and is not acknowledged yet.
Drop(p) == ~Wanted(rx, p) /\ UNCHANGED receiverVars

Arrive(p) ==
    /\ Wanted(rx, p) /\ WithinRing(rx.cache, p)
    /\ rx' = Put(rx, p)
    /\ got' = IF Stores(Noted(rx, p).cache, p) THEN got \cup {p} ELSE got
    /\ UNCHANGED <<last, plays, restarts>>

\* The same when ACK_REAL_TIME has passed: the packet's call sends the SEG_ACK.
ArriveAndAck(p, nacks) ==
    /\ Wanted(rx, p) /\ WithinRing(rx.cache, p)
    /\ Stores(Noted(rx, p).cache, p)
    /\ rx' = Acked(Put(rx, p), nacks)
    /\ got' = got \cup {p}
    /\ UNCHANGED <<last, plays, restarts>>

\* sim_receiver_timer: the heartbeat acknowledges when nothing arrived.
TimerAck(nacks) ==
    /\ rx' = Acked(rx, nacks)
    /\ UNCHANGED <<got, last, plays, restarts>>

\* sim_receiver_get: a buffer that is too long drops a group of pictures, and
\* the frame whose time has come is given to the application.
Trimmed(late) == IF late THEN EvictGop(rx.cache) ELSE rx.cache

Trim ==
    /\ rx.cache.min_fid # rx.cache.max_fid
    /\ rx' = [rx EXCEPT !.cache = EvictGop(rx.cache)]
    /\ UNCHANGED <<got, last, plays, restarts>>

Play(late) ==
    LET c == Trimmed(late)
    IN  /\ rx.cache.min_fid # rx.cache.max_fid
        /\ Playable(c)
        /\ rx' = [rx EXCEPT !.cache = Clean(c, c.min_fid + 1)]
        /\ last' = Head(c).fid /\ plays' = plays + 1
        /\ UNCHANGED <<got, restarts>>

\* process_sim_connect on a session that has a receiver: sim_receiver_reset.
Restart ==
    /\ restarts < MaxRestarts
    /\ rx' = NewReceiver /\ got' = {} /\ last' = 0 /\ plays' = 0
    /\ restarts' = restarts + 1

ReceiverNext ==
    \/ \E p \in Packet : Drop(p) \/ Arrive(p)
    \/ \E p \in Packet : \E nacks \in Nacks(Put(rx, p)) : ArriveAndAck(p, nacks)
    \/ \E nacks \in Nacks(rx) : TimerAck(nacks)
    \/ Trim
    \/ \E late \in BOOLEAN : Play(late)
    \/ Restart

ReceiverSpec == ReceiverInit /\ [][ReceiverNext]_receiverVars
-----------------------------------------------------------------------------
\* Type correctness of sim_receiver_t; a packet is asked for at most MaxNack times.
ReceiverTypeOK ==
    /\ IsReceiver(rx) /\ got \subseteq Packet /\ last \in 0 .. MaxFrame
    /\ plays \in 0 .. MaxFrame /\ restarts \in 0 .. MaxRestarts

\* A slot of the ring that is in use (real_video_cache_put) holds packets of the
\* one frame its fid names, at that frame's place, between min_fid and max_fid.
SlotsHoldTheirFrame ==
    \A i \in 0 .. Size - 1 :
        LET s == rx.cache.slot[i]
        IN  s.total # 0 =>
                /\ s.fid % Size = i
                /\ rx.cache.min_fid < s.fid /\ s.fid <= rx.cache.max_fid
                /\ s.segs # {} /\ s.segs \subseteq Packets(s.fid) \cap got

\* Whatever order packets arrive in, and whatever is dropped for being late,
\* sim_receiver_get gives the application frames in increasing order, none twice;
\* and what was passed stays passed: neither min_fid, which is taken from the slot
\* that real_video_clean_frame empties, nor base_seq goes back.
PlaysForward ==
    [][/\ plays' > plays => last' > last
       /\ \/ restarts' # restarts
          \/ rx'.cache.min_fid >= rx.cache.min_fid /\ rx'.base >= rx.base]_receiverVars

\* The sender frees what base_seq covers (sim_sender_update_base), so a packet is
\* covered only once it was stored or its frame was played or given up.
NothingWantedIsAcknowledged ==
    \A p \in Packet : p <= rx.base => p \in got \/ FrameOf[p] <= rx.cache.min_fid

\* Every packet that was skipped is remembered by sim_receiver_update_loss until
\* it comes or its frame is played or given up: no gap is forgotten.
GapsAreListed ==
    \A p \in rx.base + 1 .. rx.max :
        p \in got \/ p \in DOMAIN rx.loss \/ FrameOf[p] <= rx.cache.min_fid

\* sim_receiver_put strikes a packet from the list whether the cache takes it or
\* not, so video_real_ack never asks for one that is in the buffer.
NothingStoredIsAskedFor ==
    \A i \in 0 .. Size - 1 : rx.cache.slot[i].segs \cap DOMAIN rx.loss = {}

\* A packet is acknowledged, or missing, only once a later or equal one came.
AcknowledgedWasSeen ==
    rx.base <= rx.max /\ \A p \in DOMAIN rx.loss : p < rx.max

\* The loss list, filled from max_seq and emptied by packets and by base_seq, is
\* exactly what is missing: no gap is forgotten, nothing stored or new asked for.
LossListIsExact == GapsAreListed /\ NothingStoredIsAskedFor /\ AcknowledgedWasSeen
=============================================================================
