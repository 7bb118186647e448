---------------------------- MODULE MCLiveServer ----------------------------
(* Two poll loops around the live helper server, for TLC. *)
EXTENDS LiveServer

CONSTANTS a1, a2

\* One agent takes anything; the other is a worker that streams generations.
MCAgents == {a1, a2}
MCStreams == {a2}
MCSteers == {}
MCLane == (a1 :> EventTypes) @@ (a2 :> {"generate"})

=============================================================================
