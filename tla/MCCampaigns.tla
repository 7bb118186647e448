---------------------------- MODULE MCCampaigns ----------------------------
(* Small sets of campaigns, suites, models, requests and executors. *)
EXTENDS Campaigns, TLC

Symmetry == Permutations(Campaigns) \cup Permutations(Suites) \cup Permutations(Models)
              \cup Permutations(Handlers) \cup Permutations(Jobs)
=============================================================================
