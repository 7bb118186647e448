---------------------------- MODULE JudgePipeline ----------------------------
(***************************************************************************)
(* One batch of HubScope's evaluator from its first cell to the end of its *)
(* runs: executePrepared and runCellPool (evaluator/evaluator.go) feed the *)
(* cells, a run and a model each, to a pool of exam workers; these answer  *)
(* the cases and offer the votes of judged ones, over a channel without a  *)
(* buffer, to the pool of judge workers of evaluator/pipeline.go.  The     *)
(* batch is stopped by the operator, by its budget, or once every cell so  *)
(* far was dead.                                                           *)
(*                                                                         *)
(* A case has one sample.  Campaigns has what happens around a batch.      *)
(***************************************************************************)
EXTENDS Naturals, FiniteSets

CONSTANTS
    Runs,          \* the prepared runs
    NCells,        \* number of cells, offered in this order
    RunOf,         \* the run of each cell
    NCases,        \* the number of cases of each cell
    Jury,          \* judges of a model
    ExamWorkers, JudgeWorkers,
    Breaker,       \* circuitBreakerThreshold
    AbortCells,    \* campaignAbortCells
    HasBudget      \* eval_campaign_budget_minutes > 0

Cells == 1 .. NCells
Units == UNION {{c} \X (1 .. NCases[c]) : c \in Cells}

ASSUME PipelineAssumption ==
    /\ NCells \in Nat \ {0} /\ Jury \in Nat \ {0}
    /\ Breaker \in Nat \ {0} /\ AbortCells \in Nat \ {0}
    /\ RunOf \in [Cells -> Runs] /\ NCases \in [Cells -> Nat \ {0}]
    /\ HasBudget \in BOOLEAN /\ IsFiniteSet(JudgeWorkers)
    \* A run without cells is done before the pools start.
    /\ \A r \in Runs : \E c \in Cells : RunOf[c] = r

VARIABLES
    main,    \* the executor: the feed loop, the two waits, the end
    next,    \* the cell the feed loop is at
    exam,    \* the exam workers
    judge,   \* the judge workers
    votes,   \* sampleVotes.landed of each unit
    row,     \* eval_results: each unit's row, or "skipped" with its cell
    book,    \* pipeline.judgePending, cellsDone, finished; remaining
    tally,   \* completed and dead cells
    ctx,     \* whether the batch is canceled, and past its deadline
    status   \* eval_runs.status

vars == <<main, next, exam, judge, votes, row, book, tally, ctx, status>>

ExamWorker == [at : {"check", "take", "case", "offer", "done", "mark", "gone"},
               cell : Cells, case : Nat \ {0}, slot : 1 .. Jury,
               answered : BOOLEAN, failed : Nat]
JudgeWorker == [at : {"check", "take", "call", "settle", "drop", "gone"}, unit : Units]

TypeOK ==
    /\ main \in {"check", "offer", "wait", "drain", "returned"}
    /\ next \in 1 .. NCells + 1
    /\ exam \in [ExamWorkers -> ExamWorker]
    /\ judge \in [JudgeWorkers -> JudgeWorker]
    /\ votes \in [Units -> 0 .. Jury]
    /\ row \in [Units -> {"none", "stored", "skipped"}]
    /\ book \in [pending : [Runs -> Nat], remaining : [Runs -> 0 .. NCells],
                 cellsDone : SUBSET Runs, finished : SUBSET Runs]
    /\ tally \in [completed : 0 .. NCells, dead : 0 .. NCells]
    /\ ctx \in [canceled : BOOLEAN, expired : BOOLEAN]
    /\ status \in [Runs -> {"running", "done", "failed"}]

\* A worker between two cells, or two votes.
Idle == [at |-> "check", cell |-> 1, case |-> 1, slot |-> 1, answered |-> FALSE, failed |-> 0]
Waiting == [at |-> "check", unit |-> <<1, 1>>]

Init ==
    /\ main = "check" /\ next = 1
    /\ exam = [w \in ExamWorkers |-> Idle]
    /\ judge = [g \in JudgeWorkers |-> Waiting]
    /\ votes = [u \in Units |-> 0]
    /\ row = [u \in Units |-> "none"]
    /\ book = [pending |-> [r \in Runs |-> 0],
               remaining |-> [r \in Runs |-> Cardinality({c \in Cells : RunOf[c] = r})],
               cellsDone |-> {}, finished |-> {}]
    /\ tally = [completed |-> 0, dead |-> 0]
    /\ ctx = [canceled |-> FALSE, expired |-> FALSE]
    /\ status = [r \in Runs |-> "running"]

-----------------------------------------------------------------------------
(* The context: the operator, the deadline and the guards *)

Canceled == ctx.canceled
Expired == ctx.expired

Cancel ==
    /\ ~Canceled /\ main # "returned"
    /\ ctx' = [ctx EXCEPT !.canceled = TRUE]
    /\ UNCHANGED <<main, next, exam, judge, votes, row, book, tally, status>>

Deadline ==
    /\ HasBudget /\ ~Expired /\ main # "returned"
    /\ ctx' = [ctx EXCEPT !.expired = TRUE]
    /\ UNCHANGED <<main, next, exam, judge, votes, row, book, tally, status>>

\* The guard of the exam pool stops an expired batch by canceling it.
Guard == ctx' = [ctx EXCEPT !.canceled = @ \/ Expired]

-----------------------------------------------------------------------------
(* The feed loop *)

FeedCheck ==
    /\ main = "check"
    /\ IF next > NCells
       THEN main' = "wait" /\ UNCHANGED ctx
       ELSE /\ main' = IF Canceled \/ Expired THEN "wait" ELSE "offer"
            /\ Guard
    /\ UNCHANGED <<next, exam, judge, votes, row, book, tally, status>>

FeedStops ==
    /\ main = "offer" /\ Canceled
    /\ main' = "wait"
    /\ UNCHANGED <<next, exam, judge, votes, row, book, tally, ctx, status>>

\* A cell changes hands.
Feed(w) ==
    /\ main = "offer" /\ exam[w].at = "take"
    /\ main' = "check" /\ next' = next + 1
    /\ exam' = [exam EXCEPT ![w] = [Idle EXCEPT !.at = "case", !.cell = next]]
    /\ UNCHANGED <<judge, votes, row, book, tally, ctx, status>>

-----------------------------------------------------------------------------
(* Exam workers *)

ExamCheck(w) ==
    /\ exam[w].at = "check"
    /\ exam' = [exam EXCEPT ![w].at = IF Canceled \/ Expired THEN "gone" ELSE "take"]
    /\ Guard
    /\ UNCHANGED <<main, next, judge, votes, row, book, tally, status>>

\* Mutant: nobody closes the channel of cells.
ExamLeavesCanceled(w) ==
    /\ exam[w].at = "take" /\ Canceled
    /\ exam' = [exam EXCEPT ![w].at = "gone"]
    /\ UNCHANGED <<main, next, judge, votes, row, book, tally, ctx, status>>

ExamLeaves(w) ==
    /\ exam[w].at = "take" /\ (Canceled \/ main = "wait")
    /\ exam' = [exam EXCEPT ![w].at = "gone"]
    /\ UNCHANGED <<main, next, judge, votes, row, book, tally, ctx, status>>

\* The rows of worker w's cell from case k on.
RowsFrom(w, k, what) ==
    [u \in Units |-> IF u[1] = exam[w].cell /\ u[2] >= k THEN what ELSE row[u]]

\* evalModel gives the model up: "skipped" without rows, or with failed ones.
GiveUp(w, what) ==
    /\ exam[w].at = "case" /\ exam[w].case = 1 /\ ~exam[w].answered
    /\ row' = RowsFrom(w, 1, what)
    /\ exam' = [exam EXCEPT ![w].at = "done"]
    /\ UNCHANGED <<main, next, judge, votes, book, tally, ctx, status>>

\* After its case, a worker is at the next one, or through with its cell.
NextCase(x) ==
    IF x.case = NCases[x.cell] THEN [x EXCEPT !.at = "done"]
    ELSE [x EXCEPT !.at = "case", !.case = @ + 1, !.slot = 1]

\* No answer: a null row, and the circuit opens at the threshold.
Unanswered(w) ==
    LET x == [exam[w] EXCEPT !.failed = @ + 1]
        open == x.failed >= Breaker /\ x.case < NCases[x.cell]
    IN
    /\ exam[w].at = "case"
    /\ row' = IF open THEN RowsFrom(w, x.case, "stored")
              ELSE [row EXCEPT ![<<x.cell, x.case>>] = "stored"]
    /\ exam' = [exam EXCEPT ![w] = IF open THEN [x EXCEPT !.at = "done"] ELSE NextCase(x)]
    /\ UNCHANGED <<main, next, judge, votes, book, tally, ctx, status>>

\* Judged by a rule, or by nobody for want of a jury.
Ruled(w) ==
    LET x == [exam[w] EXCEPT !.answered = TRUE, !.failed = 0] IN
    /\ exam[w].at = "case"
    /\ row' = [row EXCEPT ![<<x.cell, x.case>>] = "stored"]
    /\ exam' = [exam EXCEPT ![w] = NextCase(x)]
    /\ UNCHANGED <<main, next, judge, votes, book, tally, ctx, status>>

\* Mutant: the votes are not counted before they are offered.
JudgedUncounted(w) ==
    /\ exam[w].at = "case"
    /\ exam' = [exam EXCEPT ![w] = [@ EXCEPT !.answered = TRUE, !.failed = 0, !.at = "offer"]]
    /\ UNCHANGED <<main, next, judge, votes, row, book, tally, ctx, status>>

\* enqueueVotes: all votes are outstanding before the first is offered.
Judged(w) ==
    LET x == [exam[w] EXCEPT !.answered = TRUE, !.failed = 0, !.at = "offer"] IN
    /\ exam[w].at = "case"
    /\ book' = [book EXCEPT !.pending[RunOf[x.cell]] = @ + Jury]
    /\ exam' = [exam EXCEPT ![w] = x]
    /\ UNCHANGED <<main, next, judge, votes, row, tally, ctx, status>>

\* A vote changes hands.
Offer(w, g) ==
    LET x == exam[w] IN
    /\ x.at = "offer" /\ judge[g].at = "take"
    /\ judge' = [judge EXCEPT ![g] = [at |-> "call", unit |-> <<x.cell, x.case>>]]
    /\ exam' = [exam EXCEPT ![w] = IF x.slot = Jury THEN NextCase(x)
                                   ELSE [x EXCEPT !.slot = @ + 1]]
    /\ UNCHANGED <<main, next, votes, row, book, tally, ctx, status>>

\* Canceled in the middle: the other votes stay owed.
OfferStops(w) ==
    /\ exam[w].at = "offer" /\ Canceled
    /\ exam' = [exam EXCEPT ![w] = NextCase(exam[w])]
    /\ UNCHANGED <<main, next, judge, votes, row, book, tally, ctx, status>>

\* The cell is over: the guards look at the batch.
Account(w) ==
    LET r == RunOf[exam[w].cell]
        completed == tally.completed + 1
        dead == tally.dead + IF exam[w].answered THEN 0 ELSE 1
        abort == completed >= AbortCells /\ dead = completed
    IN
    /\ exam[w].at = "done"
    /\ book' = [book EXCEPT !.remaining[r] = @ - 1]
    /\ tally' = [completed |-> completed, dead |-> dead]
    /\ ctx' = [ctx EXCEPT !.canceled = @ \/ abort \/ Expired]
    /\ exam' = [exam EXCEPT ![w] = IF book.remaining[r] = 1 THEN [exam[w] EXCEPT !.at = "mark"]
                                   ELSE Idle]
    /\ UNCHANGED <<main, next, judge, votes, row, status>>

\* Mutant: outstanding votes are forgotten.
FinishedEarly(b, r) == r \in b.cellsDone \ b.finished

\* runFinishedLocked: the run's cells and votes are through, for the first time.
Finished(b, r) == r \in b.cellsDone \ b.finished /\ b.pending[r] = 0

\* The books b, and the end of run r if they say so.
Booked(b, r) ==
    IF Finished(b, r)
    THEN /\ book' = [b EXCEPT !.finished = @ \cup {r}]
         /\ status' = [status EXCEPT ![r] = "done"]
    ELSE book' = b /\ UNCHANGED status

MarkCellsDone(w) ==
    LET r == RunOf[exam[w].cell] IN
    /\ exam[w].at = "mark"
    /\ Booked([book EXCEPT !.cellsDone = @ \cup {r}], r)
    /\ exam' = [exam EXCEPT ![w] = Idle]
    /\ UNCHANGED <<main, next, judge, votes, row, tally, ctx>>

-----------------------------------------------------------------------------
(* Judge workers *)

JudgeCheck(g) ==
    /\ judge[g].at = "check"
    /\ judge' = [judge EXCEPT ![g].at = IF Canceled \/ Expired THEN "gone" ELSE "take"]
    /\ UNCHANGED <<main, next, exam, votes, row, book, tally, ctx, status>>

\* Mutant: an idle worker waits for the queue to be closed.
JudgeLeavesAtClose(g) ==
    /\ judge[g].at = "take" /\ main = "drain" /\ ~Canceled
    /\ judge' = [judge EXCEPT ![g].at = "gone"]
    /\ UNCHANGED <<main, next, exam, votes, row, book, tally, ctx, status>>

JudgeLeaves(g) ==
    /\ judge[g].at = "take" /\ (Canceled \/ main = "drain")
    /\ judge' = [judge EXCEPT ![g].at = "gone"]
    /\ UNCHANGED <<main, next, exam, votes, row, book, tally, ctx, status>>

\* The verdict is in; the last one of a case settles it.
LandVote(g) ==
    LET u == judge[g].unit IN
    /\ judge[g].at = "call"
    /\ votes' = [votes EXCEPT ![u] = @ + 1]
    /\ judge' = [judge EXCEPT ![g].at = IF votes[u] + 1 = Jury THEN "settle" ELSE "drop"]
    /\ UNCHANGED <<main, next, exam, row, book, tally, ctx, status>>

SettleSample(g) ==
    /\ judge[g].at = "settle"
    /\ row' = [row EXCEPT ![judge[g].unit] = "stored"]
    /\ judge' = [judge EXCEPT ![g].at = "drop"]
    /\ UNCHANGED <<main, next, exam, votes, book, tally, ctx, status>>

\* Mutant: the count drops without a look at the run.
DropSilently(g) ==
    LET r == RunOf[judge[g].unit[1]] IN
    /\ judge[g].at = "drop"
    /\ book' = [book EXCEPT !.pending[r] = @ - 1]
    /\ judge' = [judge EXCEPT ![g] = Waiting]
    /\ UNCHANGED <<main, next, exam, votes, row, tally, ctx, status>>

DecrementPending(g) ==
    LET r == RunOf[judge[g].unit[1]] IN
    /\ judge[g].at = "drop"
    /\ Booked([book EXCEPT !.pending[r] = @ - 1], r)
    /\ judge' = [judge EXCEPT ![g] = Waiting]
    /\ UNCHANGED <<main, next, exam, votes, row, tally, ctx>>

-----------------------------------------------------------------------------
(* The end of the batch *)

Gone(workers) == \A w \in DOMAIN workers : workers[w].at = "gone"

CloseJudgeQueue ==
    /\ main = "wait" /\ Gone(exam)
    /\ main' = "drain"
    /\ UNCHANGED <<next, exam, judge, votes, row, book, tally, ctx, status>>

\* What is not finished fails.
Tail ==
    /\ main = "drain" /\ Gone(judge)
    /\ main' = "returned"
    /\ status' = [r \in Runs |-> IF r \in book.finished THEN status[r] ELSE "failed"]
    /\ UNCHANGED <<next, exam, judge, votes, row, book, tally, ctx>>

Examine(w) ==
    \/ ExamCheck(w) \/ ExamLeaves(w)
    \/ \E what \in {"skipped", "stored"} : GiveUp(w, what)
    \/ Unanswered(w) \/ Ruled(w) \/ Judged(w)
    \/ OfferStops(w) \/ Account(w) \/ MarkCellsDone(w)

Vote(g) ==
    JudgeCheck(g) \/ JudgeLeaves(g) \/ LandVote(g) \/ SettleSample(g) \/ DecrementPending(g)

Progress ==
    \/ FeedCheck \/ FeedStops \/ CloseJudgeQueue \/ Tail
    \/ \E w \in ExamWorkers : Feed(w) \/ Examine(w) \/ \E g \in JudgeWorkers : Offer(w, g)
    \/ \E g \in JudgeWorkers : Vote(g)

Next == Progress \/ Cancel \/ Deadline

Spec == Init /\ [][Next]_vars

\* Calls return: the goroutines of the batch do not all stop while one can go on.
FairSpec == Spec /\ WF_vars(Progress)

-----------------------------------------------------------------------------
(* Properties *)

\* The votes of run r that no worker has put away yet, or nobody ever will.
Owed(r) == book.pending[r] # 0

\* A run reads "done" only when its grid is complete: each of its cells was
\* executed, and every case that was not skipped with its model has its row,
\* although the rows of judged cases are written by other goroutines
\* (markCellsDone, decrementPending: "finishes once its judge queue is also
\* empty").
DoneRunsAreComplete ==
    \A r \in Runs : status[r] = "done" =>
        \A u \in Units : RunOf[u[1]] = r => row[u] # "none"

\* The exam and the judge stage decide together, in either order, that a run
\* is over; neither leaves it to the other and loses it.  A batch that has
\* returned fails exactly the runs with a dropped cell or an owed vote
\* (executePrepared's tail).
IncompleteRunsFail ==
    main = "returned" =>
        \A r \in Runs : status[r] = IF book.remaining[r] = 0 /\ ~Owed(r) THEN "done" ELSE "failed"

\* Past the deadline, with no judge left, a worker offers a vote for ever.
Starved ==
    /\ Expired /\ ~Canceled
    /\ Gone(judge) /\ \E w \in ExamWorkers : exam[w].at = "offer"

\* Two pools that wait for each other over channels without a buffer, and a
\* feed loop that waits for both: a batch returns, unless it stays starved by
\* its budget as BudgetEndsBatch says (executePrepared: "It returns after
\* all cells executed or the context was canceled").
BatchReturns == <>(main = "returned") \/ <>[]Starved

\* An operator's cancel ends the batch, a starved one too: every blocking
\* select of the two pools also listens to the context (CancelCampaign).
CancelEndsBatch == Canceled ~> main = "returned"

\* "once a batch outlives it, unstarted cells are dropped and their runs fail
\* with the budget reason" (SettingEvalCampaignBudgetMin, store/settings.go).
BudgetEndsBatch == Expired ~> main = "returned"

=============================================================================
