--------------------------- MODULE LossStatistics ---------------------------
(* cc_loss_stat.c: how many of the packets of a period did not arrive. *)
EXTENDS SeqUnwrapper

CONSTANTS
    LossWindow,     \* k_loss_statistics_window_ms
    LossDistance    \* packets a report covers at least (20 in the code)

ASSUME LossAssumption == LossWindow \in Nat \ {0} /\ LossDistance \in Nat \ {0}

\* max and prev are numbers, -1 for none; at is the time of the last report.
LossRecord == [last : Int, max : Int, prev : Int, count : Nat, at : Int]
FreshLoss  == [last |-> 0, max |-> -1, prev |-> -1, count |-> 0, at |-> -1]

\* loss_statistics_incoming.
LossIncoming(l, val) ==
    LET id == Wrap(l.last, val)
    IN  [l EXCEPT !.last = id, !.max = IF @ < id THEN id ELSE @, !.count = @ + 1,
                  !.prev = IF @ = -1 /\ id > 0 THEN id - 1 ELSE @]

\* loss_statistics_calculate: the period is long enough and has enough packets ...
LossDue(l, now) ==
    /\ l.max # -1 /\ l.prev # -1
    /\ now >= l.at + LossWindow
    /\ l.max >= l.prev + LossDistance

\* ... how many packets the report covers and how many it calls lost ...
Covered(l) == l.max - l.prev
Lost(l)    == IF Covered(l) <= l.count THEN 0 ELSE Covered(l) - l.count

\* ... and the next period.  The mutant covers again what was reported.
LossCovers(l, now) == [l EXCEPT !.count = 0, !.at = now]
LossReset(l, now) == [l EXCEPT !.prev = l.max, !.count = 0, !.at = now]
=============================================================================
