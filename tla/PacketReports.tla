--------------------------- MODULE PacketReports ----------------------------
(***************************************************************************)
(* What transport feedback promises to the congestion controller: it is    *)
(* told of a transmission at most once, only if it arrived, and with a     *)
(* time at which it arrived.                                               *)
(***************************************************************************)
EXTENDS Integers, Sequences

CONSTANTS
    Number,     \* transmissions
    Time        \* of arrivals

VARIABLES
    sent,       \* transmissions so far
    seen,       \* when each transmission arrived: a set of times
    told        \* what the congestion controller was told: times of arrival

Init ==
    /\ sent = {}
    /\ seen = [n \in Number |-> {}]
    /\ told = [n \in Number |-> <<>>]

Transmit == \E n \in Number \ sent : sent' = sent \cup {n} /\ UNCHANGED <<seen, told>>

See == \E n \in sent, t \in Time :
    seen' = [seen EXCEPT ![n] = @ \cup {t}] /\ UNCHANGED <<sent, told>>

Tell ==
    /\ told' \in [Number -> Seq(Time)]
    /\ \A n \in Number : told'[n] # told[n] =>
           told[n] = <<>> /\ \E t \in seen[n] : told'[n] = <<t>>
    /\ UNCHANGED <<sent, seen>>

Spec == Init /\ [][Transmit \/ See \/ Tell]_<<sent, seen, told>>
=============================================================================
