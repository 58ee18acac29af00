----------------------------- MODULE FrameCache -----------------------------
(***************************************************************************)
(* The play-out buffer of sim_receiver.c (sim_frame_cache_t): a ring of    *)
(* slots indexed by frame id, and the operators that its functions are.    *)
(*                                                                         *)
(* The video is given: frames 1 .. MaxFrame, which of them are key frames, *)
(* and which take two packets instead of one; packets are numbered through *)
(* as sim_sender_put numbers them.  A stored segment is its packet id.     *)
(***************************************************************************)
EXTENDS Naturals, FiniteSets, Functions

CONSTANTS
    MaxFrame,   \* bound: frames of the video
    KeyFrames,  \* the frames with ftype 1
    BigFrames,  \* the frames of two packets
    Size        \* CACHE_SIZE

ASSUME VideoAssumption ==
    /\ MaxFrame \in Nat \ {0} /\ Size \in Nat \ {0}
    /\ KeyFrames \subseteq 1 .. MaxFrame /\ BigFrames \subseteq 1 .. MaxFrame

Frame == 1 .. MaxFrame

\* seg->total of a frame's segments, and the packet id of its last segment.
Total(f) == IF f \in BigFrames THEN 2 ELSE 1
LastId   == [f \in 0 .. MaxFrame |-> f + Cardinality({g \in BigFrames : g <= f})]

MaxPacket  == LastId[MaxFrame]
Packet     == 1 .. MaxPacket
Packets(f) == LastId[f - 1] + 1 .. LastId[f]
FrameOf    == [p \in Packet |-> CHOOSE f \in Frame : p \in Packets(f)]
IsKey(p)   == FrameOf[p] \in KeyFrames
IndexOf(p) == p - LastId[FrameOf[p] - 1] - 1

\* sim_frame_t: total is seg_number, 0 for a free slot, which keeps its fid.
Slot  == [fid : 0 .. MaxFrame, key : BOOLEAN, total : 0 .. 2, segs : SUBSET Packet]
Cache == [min_seq : 0 .. MaxPacket, min_fid : 0 .. MaxFrame, max_fid : 0 .. MaxFrame,
          slot : [0 .. Size - 1 -> Slot]]

FreeSlot   == [fid |-> 0, key |-> FALSE, total |-> 0, segs |-> {}]
EmptyCache == [min_seq |-> 0, min_fid |-> 0, max_fid |-> 0,
               slot |-> [i \in 0 .. Size - 1 |-> FreeSlot]]

At(c, f)   == c.slot[f % Size]
Busy(c, f) == At(c, f).total # 0

\* real_video_clean_frame: only a slot that holds something moves min_fid.  The
\* mutant leaves the frame in its slot.
CleanKeeps(c, f) ==
    IF ~Busy(c, f) THEN c ELSE
    [c EXCEPT !.min_seq = LastId[At(c, f).fid], !.min_fid = At(c, f).fid]
Clean(c, f) ==
    IF ~Busy(c, f) THEN c ELSE
    [c EXCEPT !.min_seq = LastId[At(c, f).fid],
              !.min_fid = At(c, f).fid,
              !.slot[f % Size] = [FreeSlot EXCEPT !.fid = At(c, f).fid]]

CleanRange(c, from, to) ==
    LET cleaned[f \in Nat] == IF f < from THEN c ELSE Clean(cleaned[f - 1], f)
    IN  IF to < from THEN c ELSE cleaned[to]

\* The first frame id in a range whose slot holds a key frame, or the default.
FirstKey(c, from, to, default) ==
    LET keys == {f \in from .. to : At(c, f).key}
    IN  IF keys = {} THEN default ELSE CHOOSE f \in keys : \A g \in keys : f <= g

\* real_video_evict_frame: makes room for frame f, the newest so far.
EvictFrame(c, f) ==
    LET room == CleanRange(c, c.max_fid + 1, f)
        next == FirstKey(room, room.min_fid + 1, room.max_fid - 1,
                         IF room.min_fid + 1 < room.max_fid THEN room.max_fid ELSE room.min_fid + 1)
    IN  IF f < room.min_fid + Size THEN room ELSE CleanRange(room, room.min_fid + 1, next - 1)

\* evict_gop_frame: drops everything before the next key frame, if there is one.
\* The mutant leaves the first of the frames, which is still missing packets.
GopKey(c)   == FirstKey(c, c.min_fid + 2, c.max_fid - 1, 0)
EvictAllButFirst(c) ==
    IF GopKey(c) = 0 THEN c ELSE CleanRange(c, c.min_fid + 2, GopKey(c) - 1)
EvictGop(c) == IF GopKey(c) = 0 THEN c ELSE CleanRange(c, c.min_fid + 1, GopKey(c) - 1)

\* real_video_cache_put: what a segment of a newer frame does first ...
Admit(c, f) ==
    IF f <= c.max_fid THEN c
    ELSE [IF c.max_fid > 0 THEN EvictFrame(c, f)
          ELSE IF c.min_fid = 0 THEN [c EXCEPT !.min_fid = f - 1] ELSE c
          EXCEPT !.max_fid = f]

\* ... the slot it ends in, and whether it is new there (the result is 0).
Stores(c, p) ==
    /\ FrameOf[p] > c.min_fid
    /\ \A q \in At(Admit(c, FrameOf[p]), FrameOf[p]).segs : IndexOf(q) # IndexOf(p)

\* The mutant does not refuse a segment of a frame that was played or dropped.
CachePutLate(c, p) ==
    LET f == FrameOf[p]
        a == Admit(c, f)
        s == At(a, f)
    IN  [a EXCEPT !.slot[f % Size] =
            [fid |-> f, key |-> IsKey(p), total |-> IF s.total = 0 THEN Total(f) ELSE s.total,
             segs |-> s.segs \cup {p}]]
CachePut(c, p) ==
    LET f == FrameOf[p]
        a == Admit(c, f)
        s == At(a, f)
    IN  IF f <= c.min_fid THEN c ELSE
        [a EXCEPT !.slot[f % Size] =
            [fid |-> f, key |-> IsKey(p),
             total |-> IF s.total = 0 THEN Total(f) ELSE s.total,
             segs |-> IF Stores(c, p) THEN s.segs \cup {p} ELSE s.segs]]

\* real_video_cache_get: the frame that is next, if it may be played.
Head(c)     == At(c, c.min_fid + 1)
HeadFull(c) == Head(c).total > 0 /\ Cardinality(Head(c).segs) = Head(c).total
Playable(c) == /\ c.min_fid # c.max_fid
               /\ c.min_fid + 1 = Head(c).fid \/ Head(c).key
               /\ HeadFull(c)
=============================================================================
