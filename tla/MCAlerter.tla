----------------------------- MODULE MCAlerter -----------------------------
(* Instances of the alert evaluator for TLC. *)
EXTENDS Alerter, TLC

CONSTANTS e1, e2, acme

OneVendor == [e \in Endpoints |-> acme]

Off   == [on |-> FALSE, start |-> 0, end |-> 0]
Night == [on |-> TRUE, start |-> 3, end |-> 1]

NightOnly  == {Night}
NightOrNot == {Off, Night}

Interchangeable == Permutations(Endpoints)
=============================================================================
