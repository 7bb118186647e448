-------------------------- MODULE MCOverviewCache --------------------------
(* A small cache for TLC: a few clients, models, probe rows and edits. *)
EXTENDS OverviewCache, TLC

CONSTANTS m1, m2

\* Probe rows belong to one model and endpoint edits to the other.
ModelOfWrite == [w \in Probes \cup EndpointEdits |-> IF w \in Probes THEN m1 ELSE m2]
=============================================================================
