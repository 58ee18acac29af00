---------------------------- MODULE FrameChannel ----------------------------
(***************************************************************************)
(* What the media path of a call promises to the two applications: the     *)
(* frames that come out are frames that went in, each at most once and in  *)
(* their order.  Frames may be skipped; that is the bargain of a real-time *)
(* call.                                                                   *)
(***************************************************************************)
EXTENDS Naturals

CONSTANT MaxFrame

VARIABLES
    sent,   \* frames put in
    shown,  \* the last frame that came out
    shows   \* how many came out

channelVars == <<sent, shown, shows>>

ChannelInit == sent = 0 /\ shown = 0 /\ shows = 0

\* sim_session_send_video
Send == sent < MaxFrame /\ sent' = sent + 1 /\ UNCHANGED <<shown, shows>>

\* sim_session_recv_video
Show == shown' \in shown + 1 .. sent /\ shows' = shows + 1 /\ UNCHANGED sent

ChannelSpec == ChannelInit /\ [][Send \/ Show]_channelVars
=============================================================================
