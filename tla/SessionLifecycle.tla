-------------------------- MODULE SessionLifecycle --------------------------
(***************************************************************************)
(* What sim_external.h promises the application of each host, whatever the *)
(* network does: a session is called, answered, hung up and ended in this  *)
(* order, answered and ended by the peer alone; video flows only in        *)
(* between; the session cuts it only after a long enough silence, gives it *)
(* back only when the peer is heard, and expires by itself only after a    *)
(* longer silence, a connected one not before its video was cut.           *)
(***************************************************************************)
EXTENDS Naturals

CONSTANTS
    Host,
    CutAfter,    \* periods of silence after which video may be refused
    ExpireAfter  \* periods of silence after which the session may expire

VARIABLES
    phase,
    flowing,     \* video is accepted
    quiet,       \* periods since the peer was heard, as the network will have it
    alive        \* the application has not destroyed the session

lifecycle == <<phase, flowing, quiet, alive>>

Init ==
    /\ phase = [h \in Host |-> "idle"]
    /\ flowing = [h \in Host |-> FALSE]
    /\ quiet = [h \in Host |-> 0]
    /\ alive = [h \in Host |-> TRUE]

\* The session of h goes from one phase to another; video flows afterwards or not.
Goes(h, from, to, video) ==
    /\ alive[h] /\ phase[h] = from
    /\ phase' = [phase EXCEPT ![h] = to]
    /\ flowing' = [flowing EXCEPT ![h] = video]
    /\ UNCHANGED alive

Hears(h) == quiet'[h] = 0

Call(h)   == Goes(h, "idle", "connecting", FALSE)
Answer(h) == Hears(h) /\ Goes(h, "connecting", "connected", TRUE)
HangUp(h) == \E from \in {"connecting", "connected"} : Goes(h, from, "disconnected", FALSE)
End(h)    == Hears(h) /\ Goes(h, "disconnected", "idle", FALSE)
Expire(h) == /\ quiet'[h] >= ExpireAfter /\ ~flowing[h]
             /\ \E from \in {"connecting", "connected", "disconnected"} : Goes(h, from, "idle", FALSE)
Cut(h)    == quiet'[h] >= CutAfter /\ flowing[h] /\ Goes(h, "connected", "connected", FALSE)
Resume(h) == Hears(h) /\ ~flowing[h] /\ Goes(h, "connected", "connected", TRUE)
Destroy(h) ==
    /\ alive[h]
    /\ alive' = [alive EXCEPT ![h] = FALSE]
    /\ flowing' = [flowing EXCEPT ![h] = FALSE]
    /\ UNCHANGED phase
Listen    == UNCHANGED <<phase, flowing, alive>>

Next ==
    \/ Listen
    \/ \E h \in Host : \/ Call(h) \/ Answer(h) \/ HangUp(h) \/ End(h)
                       \/ Expire(h) \/ Cut(h) \/ Resume(h) \/ Destroy(h)

Spec == Init /\ [][Next]_lifecycle
=============================================================================
