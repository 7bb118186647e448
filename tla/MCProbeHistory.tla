--------------------------- MODULE MCProbeHistory ---------------------------
(* Hours of two ticks for TLC. *)
EXTENDS ProbeHistory

TwoTicks(t) == t - (t % 2)
=============================================================================
