--------------------------- MODULE MCJudgePipeline ---------------------------
(* Small batches of the judge pipeline for TLC. *)
EXTENDS JudgePipeline, TLC

CONSTANT r1

\* The cells of a batch, model by model.
OneCell    == <<r1>>
SameRun    == <<r1, r1>>

\* Two cases in the first cell, one in the others.
TwoThenOne == <<2, 1>>
OneCase    == <<1>>
=============================================================================
