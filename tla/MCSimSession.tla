---------------------------- MODULE MCSimSession ----------------------------
(***************************************************************************)
(* TLC instances of SimSession.  Ping and command limits are scaled down   *)
(* with their order kept: a command period is CommandTick ping periods,    *)
(* InterruptPings < PingTries.  Commands are tried as long as pings are    *)
(* (PingTries = CommandTries * CommandTick) but in peerloss, which has two *)
(* tries of each.                                                          *)
(***************************************************************************)
EXTENDS SimSession, TLC

\* Both hosts run the same code and, where all are Callers, the same calls.
Hosts == Permutations(Endpoint)
=============================================================================
