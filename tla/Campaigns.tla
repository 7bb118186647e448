------------------------------ MODULE Campaigns ------------------------------
(***************************************************************************)
(* The life of an evaluation campaign of HubScope: the HTTP handlers and   *)
(* the weekly worker that create, retry, resume and cancel one             *)
(* (server/evals.go, server/campaign_retry.go, scheduler/eval.go), the     *)
(* executors they start (evaluator/evaluator.go, campaign.go, retry.go,    *)
(* pipeline.go) and the state machine both drive in the store              *)
(* (store/campaign.go).                                                    *)
(*                                                                         *)
(* A run is one suite of a campaign.  A suite has one case here, so that a *)
(* unit, a result row and a cell are all a pair of a suite and a model; a  *)
(* case's samples and votes are one answer and one verdict.                *)
(***************************************************************************)
EXTENDS Naturals, FiniteSets

CONSTANTS
    Campaigns,   \* campaign ids
    Suites,      \* suites, and the case of each
    Models,      \* the models of every campaign
    Handlers,    \* requests, and weekly ticks, that can be in flight at once
    Jobs,        \* executor goroutines that can exist at once
    Kinds,       \* the kinds of executor that are started
    MaxRequests, \* bound: requests admitted
    MaxEdits,    \* bound: cases disabled
    MaxCancels,  \* bound: cancels and guard stops
    MaxRestarts, \* bound: process restarts
    None         \* no executor, no request, no cancel entry

AllKinds == {"sweep", "single", "weekly", "retryFailed", "retryUnits", "liveRetry", "resume"}
Fresh == {"sweep", "single", "weekly"}
ReAnswers == {"retryUnits", "liveRetry", "resume"}

ASSUME CampaignAssumption ==
    /\ Kinds \subseteq AllKinds
    /\ MaxRequests \in Nat /\ MaxEdits \in Nat
    /\ MaxCancels \in Nat /\ MaxRestarts \in Nat

Units == Suites \X Models
SuiteOf(u) == u[1]
Of(S) == {SuiteOf(u) : u \in S}

VARIABLES
    campaign,  \* campaigns.status
    run,       \* eval_runs.status, by campaign and suite
    result,    \* eval_results, by campaign and unit
    disabled,  \* the suites whose case is disabled
    admitted,  \* what each request has checked and is about to do
    jobs,      \* the executors
    cancels,   \* Evaluator.cancels: the executor an operator would cancel
    bounds     \* what the bounds count

store == <<campaign, run, result>>
vars == <<store, disabled, admitted, jobs, cancels, bounds>>

Settled == {"done", "failed"}

Job == [kind : AllKinds, camp : Campaigns, suites : SUBSET Suites, units : SUBSET Units,
        phase : {"begin", "plan", "gate", "reopen", "cells", "settle", "unregister"},
        todo : SUBSET Units, exam : SUBSET Units, judging : SUBSET Units, owed : SUBSET Units,
        marked : SUBSET Suites, finished : SUBSET Suites, canceled : BOOLEAN]
Request == [kind : AllKinds, camp : Campaigns, units : SUBSET Units]

ASSUME NoneIsNothing == None \notin Job /\ None \notin Request /\ None \notin Jobs

\* An executor that may own the cancel entry of campaign c.
Registered(job, c) ==
    /\ job # None
    /\ job.camp = c /\ job.phase # "begin"
    /\ ~(job.kind = "single" /\ job.phase = "settle")

TypeOK ==
    /\ campaign \in [Campaigns -> {"absent", "running"} \cup Settled]
    /\ run \in [Campaigns -> [Suites -> {"none", "running"} \cup Settled]]
    /\ result \in [Campaigns -> [Units -> {"none", "null", "scored"}]]
    /\ disabled \in SUBSET Suites
    /\ admitted \in [Handlers -> Request \cup {None}]
    /\ jobs \in [Jobs -> Job \cup {None}]
    /\ cancels \in [Campaigns -> Jobs \cup {None}]
    /\ bounds \in [requests : 0 .. MaxRequests, edits : 0 .. MaxEdits,
                   cancels : 0 .. MaxCancels, restarts : 0 .. MaxRestarts]
    /\ \A c \in Campaigns : cancels[c] # None => Registered(jobs[cancels[c]], c)

Init ==
    /\ campaign = [c \in Campaigns |-> "absent"]
    /\ run = [c \in Campaigns |-> [s \in Suites |-> "none"]]
    /\ result = [c \in Campaigns |-> [u \in Units |-> "none"]]
    /\ disabled = {}
    /\ admitted = [h \in Handlers |-> None]
    /\ jobs = [j \in Jobs |-> None]
    /\ cancels = [c \in Campaigns |-> None]
    /\ bounds = [requests |-> 0, edits |-> 0, cancels |-> 0, restarts |-> 0]

-----------------------------------------------------------------------------
(* store/campaign.go *)

HasUnfinishedCampaign == \E c \in Campaigns : campaign[c] = "running"

Nulls(c) == {u \in Units : result[c][u] = "null"}
Answered(c) == {u \in Units : result[c][u] # "none"}
Runs(c) == {s \in Suites : run[c][s] # "none"}

\* The runs of c with the suites S moved to a status.
Stamped(c, S, status) ==
    [run EXCEPT ![c] = [s \in Suites |-> IF s \in S THEN status ELSE run[c][s]]]

\* Mutant: the UPDATE forgets the status it moves from.
ReopenUnguarded(c, S) ==
    /\ campaign' = [campaign EXCEPT ![c] = "running"]
    /\ run' = Stamped(c, {s \in S : run[c][s] \in Settled}, "running")
    /\ UNCHANGED result

\* ReopenCampaign...: the campaign and the settled runs among S, if the
\* campaign is settled.
Reopen(c, S) ==
    /\ campaign[c] \in Settled
    /\ campaign' = [campaign EXCEPT ![c] = "running"]
    /\ run' = Stamped(c, {s \in S : run[c][s] \in Settled}, "running")
    /\ UNCHANGED result

\* Mutant: active runs are not looked for.
SettledStatusEager(c) ==
    IF campaign[c] \in Settled THEN campaign[c]
    ELSE IF Runs(c) = {} \/ \E s \in Suites : run[c][s] = "failed" THEN "failed"
    ELSE "done"

\* SettleCampaign: nothing while a run is active; the first settle wins.
SettledStatus(c) ==
    IF \E s \in Suites : run[c][s] = "running" THEN campaign[c]
    ELSE IF campaign[c] \in Settled THEN campaign[c]
    ELSE IF Runs(c) = {} \/ \E s \in Suites : run[c][s] = "failed" THEN "failed"
    ELSE "done"

-----------------------------------------------------------------------------
(* Admission: what a handler reads before it acts *)

NewJob(kind, c, S, U) ==
    [kind |-> kind, camp |-> c, suites |-> S, units |-> U, phase |-> "begin",
     todo |-> {}, exam |-> {}, judging |-> {}, owed |-> {},
     marked |-> {}, finished |-> {}, canceled |-> FALSE]

\* The checks of each handler.  The status and the mutex are two reads; the
\* status is checked again by the reopen, so they are one here.
Admissible(kind, c, U) ==
    CASE kind \in Fresh         -> ~HasUnfinishedCampaign /\ campaign[c] = "absent" /\ U = {}
      [] kind = "retryFailed"   -> /\ campaign[c] \in Settled /\ Nulls(c) # {} /\ U = {}
                                   /\ ~HasUnfinishedCampaign
      [] kind = "retryUnits"    -> /\ campaign[c] \in Settled /\ U # {} /\ U \subseteq Answered(c)
                                   /\ ~HasUnfinishedCampaign
      [] kind = "liveRetry"     -> campaign[c] = "running" /\ U # {} /\ U \subseteq Answered(c)
      [] kind = "resume"        -> campaign[c] \in Settled /\ U = {} /\ ~HasUnfinishedCampaign

Admit(h, kind, c, U) ==
    /\ admitted[h] = None /\ bounds.requests < MaxRequests
    /\ Admissible(kind, c, U)
    /\ admitted' = [admitted EXCEPT ![h] = [kind |-> kind, camp |-> c, units |-> U]]
    /\ bounds' = [bounds EXCEPT !.requests = @ + 1]
    /\ UNCHANGED <<store, disabled, jobs, cancels>>

Answer(h) == admitted' = [admitted EXCEPT ![h] = None]

\* The request is refused after all, or fails: nothing happened.
Refuse(h) ==
    /\ admitted[h] # None
    /\ Answer(h)
    /\ UNCHANGED <<store, disabled, jobs, cancels, bounds>>

Start(h, j, job) ==
    /\ admitted[h] # None /\ jobs[j] = None
    /\ jobs' = [jobs EXCEPT ![j] = job]
    /\ Answer(h)
    /\ UNCHANGED <<disabled, cancels, bounds>>

\* The first free id: another request may have created a campaign meanwhile.
Create(h, j, c, S) ==
    LET kind == admitted[h].kind IN
    /\ admitted[h] # None /\ kind \in Fresh /\ campaign[c] = "absent"
    /\ kind = "single" => Cardinality(S) = 1
    /\ campaign' = [campaign EXCEPT ![c] = "running"]
    /\ run' = IF kind = "single" THEN Stamped(c, S, "running") ELSE run
    /\ UNCHANGED result
    /\ Start(h, j, NewJob(kind, c, S, {}))

\* A single-suite trigger whose run cannot be created settles its campaign.
CreateFails(h, c) ==
    /\ admitted[h] # None /\ admitted[h].kind = "single" /\ campaign[c] = "absent"
    /\ campaign' = [campaign EXCEPT ![c] = "failed"]
    /\ Answer(h)
    /\ UNCHANGED <<run, result, disabled, jobs, cancels, bounds>>

\* Mutant: every run of the campaign is reopened.
ReopenedAll(request) == Runs(request.camp)

\* The runs a retry takes along: those that hold a row it re-evaluates.
ReopenedBy(request) ==
    IF request.kind = "retryFailed" THEN Of(Nulls(request.camp))
    ELSE Of(request.units \cap Answered(request.camp))

Retry(h, j) ==
    LET r == admitted[h] IN
    /\ r # None /\ r.kind \in {"retryFailed", "retryUnits"}
    /\ Reopen(r.camp, ReopenedBy(r))
    /\ Start(h, j, NewJob(r.kind, r.camp, {}, r.units))

\* A live retry only asks whether the campaign is executing here.
RetryLive(h, j) ==
    LET r == admitted[h] IN
    /\ r # None /\ r.kind = "liveRetry" /\ cancels[r.camp] # None
    /\ Start(h, j, NewJob(r.kind, r.camp, {}, r.units))
    /\ UNCHANGED store

\* A resume starts its executor, which reopens the campaign much later.
Resume(h, j) ==
    LET r == admitted[h] IN
    /\ r # None /\ r.kind = "resume"
    /\ Start(h, j, NewJob(r.kind, r.camp, {}, {}))
    /\ UNCHANGED store

-----------------------------------------------------------------------------
(* Executors: registration and plan *)

Is(j, phase) == jobs[j] # None /\ jobs[j].phase = phase
Becomes(j, job) == jobs' = [jobs EXCEPT ![j] = job]
Camp(j) == jobs[j].camp

\* registerCancel: the last executor of a campaign owns its cancel entry.
Register(j) ==
    /\ Is(j, "begin")
    /\ cancels' = [cancels EXCEPT ![Camp(j)] = j]
    /\ Becomes(j, [jobs[j] EXCEPT !.phase = "plan"])
    /\ UNCHANGED <<store, disabled, admitted, bounds>>

\* RunEval stages its run before it registers: the cases cannot be loaded.
PrepareFails(j) ==
    /\ Is(j, "begin") /\ jobs[j].kind = "single"
    /\ run' = Stamped(Camp(j), jobs[j].suites, "failed")
    /\ Becomes(j, [jobs[j] EXCEPT !.phase = "settle"])
    /\ UNCHANGED <<campaign, result, disabled, admitted, cancels, bounds>>

\* The cells U of job j are to be executed next.
Planned(j, phase, U) ==
    Becomes(j, [jobs[j] EXCEPT !.phase = phase, !.todo = U, !.suites = Of(U)])

\* No suites in the rotation: an empty batch is done.
PlanEmpty(j) ==
    /\ Is(j, "plan") /\ jobs[j].kind \in {"sweep", "weekly"} /\ jobs[j].suites = {}
    /\ campaign' = [campaign EXCEPT ![Camp(j)] = "done"]
    /\ Becomes(j, [jobs[j] EXCEPT !.phase = "unregister"])
    /\ UNCHANGED <<run, result, disabled, admitted, cancels, bounds>>

\* The runs of S are created, those of broken cannot be prepared and the
\* others not even be created; the models are probed and the juries chosen.
PlanFresh(j, S, broken, reachable) ==
    LET c    == Camp(j)
        kind == jobs[j].kind
        feed == IF jobs[j].canceled THEN Models ELSE reachable
        fed  == S # {} /\ feed # {}
    IN
    /\ Is(j, "plan") /\ kind \in Fresh /\ jobs[j].suites # {}
    /\ S \cup broken \subseteq jobs[j].suites /\ S \cap broken = {}
    /\ kind = "single" => S = jobs[j].suites
    /\ run' = [run EXCEPT ![c] = [s \in Suites |->
                  CASE s \in S -> IF fed THEN "running" ELSE "failed"
                    [] s \in broken -> "failed"
                    [] OTHER -> run[c][s]]]
    /\ Planned(j, CASE fed -> IF kind = "weekly" THEN "cells" ELSE "gate"
                    [] ~fed -> IF kind = "single" THEN "unregister" ELSE "settle",
               IF fed THEN S \X feed ELSE {})
    /\ UNCHANGED <<campaign, result, disabled, admitted, cancels, bounds>>

\* A manual batch waits at the gate for ConfirmCampaign, the timeout or a cancel.
LeaveGate(j) ==
    /\ Is(j, "gate")
    /\ Becomes(j, [jobs[j] EXCEPT !.phase = "cells"])
    /\ UNCHANGED <<store, disabled, admitted, cancels, bounds>>

\* retryNullScoreCells: the null units whose case is still enabled.  A run
\* that has nothing but disabled ones is done at once.
PlanRetryFailed(j) ==
    LET c == Camp(j)
        enabled == {u \in Nulls(c) : SuiteOf(u) \notin disabled}
    IN
    /\ Is(j, "plan") /\ jobs[j].kind = "retryFailed"
    /\ run' = Stamped(c, Of(Nulls(c)) \ Of(enabled), "done")
    /\ Planned(j, "cells", enabled)
    /\ UNCHANGED <<campaign, result, disabled, admitted, cancels, bounds>>

\* RetryAnsweredUnits: the requested units whose case is still enabled.
PlanRetryUnits(j) ==
    /\ Is(j, "plan") /\ jobs[j].kind \in {"retryUnits", "liveRetry"}
    /\ Planned(j, "cells", {u \in jobs[j].units : SuiteOf(u) \in Runs(Camp(j)) \ disabled})
    /\ UNCHANGED <<store, disabled, admitted, cancels, bounds>>

\* ResumeCampaign: what is missing or null, of the models that answer a probe.
PlanResume(j, reachable) ==
    LET c == Camp(j)
        missing == {u \in Units : /\ SuiteOf(u) \in Runs(c) \ disabled
                                  /\ u[2] \in reachable /\ result[c][u] # "scored"}
    IN
    /\ Is(j, "plan") /\ jobs[j].kind = "resume"
    /\ Planned(j, IF missing = {} THEN "unregister" ELSE "reopen", missing)
    /\ UNCHANGED <<store, disabled, admitted, cancels, bounds>>

ReopenRuns(j) ==
    /\ Is(j, "reopen")
    /\ Reopen(Camp(j), jobs[j].suites)
    /\ Becomes(j, [jobs[j] EXCEPT !.phase = "cells"])
    /\ UNCHANGED <<disabled, admitted, cancels, bounds>>

\* Another request reopened the campaign first.
LoseRace(j) ==
    /\ Is(j, "reopen") /\ campaign[Camp(j)] \notin Settled
    /\ Becomes(j, [jobs[j] EXCEPT !.phase = "unregister"])
    /\ UNCHANGED <<store, disabled, admitted, cancels, bounds>>

-----------------------------------------------------------------------------
(* Executors: cells, votes and runs *)

Write(c, u, row) == result' = [result EXCEPT ![c][u] = row]

\* A worker takes a cell; a retry deletes the row it will replace.
Take(j, u) ==
    LET c == Camp(j) IN
    /\ Is(j, "cells") /\ u \in jobs[j].todo /\ ~jobs[j].canceled
    /\ Becomes(j, [jobs[j] EXCEPT !.todo = @ \ {u}, !.exam = @ \cup {u}])
    /\ IF jobs[j].kind \in ReAnswers \/ (jobs[j].kind = "retryFailed" /\ result[c][u] = "null")
       THEN Write(c, u, "none") ELSE UNCHANGED result
    /\ UNCHANGED <<campaign, run, disabled, admitted, cancels, bounds>>

\* Mutant: each cell marks its run's cells done.
MarksEachCell(job, s) == TRUE

\* markCellsDone: by the last cell of a run, or by each cell of a re-answer.
Marks(job, s) ==
    job.kind \in ReAnswers \/ ~ \E u \in job.todo \cup job.exam : SuiteOf(u) = s

\* The job after a cell or a vote of suite s, and whether it ends the run:
\* all its cells are marked done and no vote of it is outstanding.
EndsRun(job, s) ==
    /\ s \in job.marked \ job.finished
    /\ ~ \E u \in job.judging \cup job.owed : SuiteOf(u) = s

Step(j, job, s) ==
    IF EndsRun(job, s)
    THEN /\ Becomes(j, [job EXCEPT !.finished = @ \cup {s}])
         /\ run' = IF job.kind = "liveRetry" THEN run ELSE Stamped(job.camp, {s}, "done")
    ELSE Becomes(j, job) /\ UNCHANGED run

Marked(job, s) == IF Marks(job, s) THEN [job EXCEPT !.marked = @ \cup {s}] ELSE job

\* The cell ends without asking: the model is retired, gone or down, or the
\* context was canceled.  The worker took it, and it leaves no row behind.
Skip(j, u) ==
    /\ Is(j, "cells") /\ u \in jobs[j].todo /\ ~jobs[j].canceled
    /\ Step(j, Marked([jobs[j] EXCEPT !.todo = @ \ {u}], SuiteOf(u)), SuiteOf(u))
    /\ UNCHANGED <<campaign, result, disabled, admitted, cancels, bounds>>

\* The answer fails or a rule judges it: the row is written by the cell.
Examine(j, u, row) ==
    /\ Is(j, "cells") /\ u \in jobs[j].exam
    /\ Write(Camp(j), u, row)
    /\ Step(j, Marked([jobs[j] EXCEPT !.exam = @ \ {u}], SuiteOf(u)), SuiteOf(u))
    /\ UNCHANGED <<campaign, disabled, admitted, cancels, bounds>>

\* The votes are offered to the judge pool.
Offer(j, u) ==
    /\ Is(j, "cells") /\ u \in jobs[j].exam
    /\ Step(j, Marked([jobs[j] EXCEPT !.exam = @ \ {u}, !.judging = @ \cup {u}], SuiteOf(u)),
            SuiteOf(u))
    /\ UNCHANGED <<campaign, result, disabled, admitted, cancels, bounds>>

\* Canceled in the middle of the offer: votes stay owed, in no queue.
Owe(j, u) ==
    /\ Is(j, "cells") /\ u \in jobs[j].exam /\ jobs[j].canceled
    /\ Step(j, Marked([jobs[j] EXCEPT !.exam = @ \ {u}, !.owed = @ \cup {u}], SuiteOf(u)),
            SuiteOf(u))
    /\ UNCHANGED <<campaign, result, disabled, admitted, cancels, bounds>>

\* The last vote lands: the row is written, and the run may end.
Land(j, u, row) ==
    /\ Is(j, "cells") /\ u \in jobs[j].judging
    /\ Write(Camp(j), u, row)
    /\ Step(j, [jobs[j] EXCEPT !.judging = @ \ {u}], SuiteOf(u))
    /\ UNCHANGED <<campaign, disabled, admitted, cancels, bounds>>

\* Mutant: the runs whose cells were dropped keep their status.
TailKeepsRuns(j) ==
    /\ Is(j, "cells") /\ jobs[j].exam = {} /\ jobs[j].judging = {}
    /\ jobs[j].todo = {} \/ jobs[j].canceled
    /\ Becomes(j, [jobs[j] EXCEPT !.phase = "settle"])
    /\ UNCHANGED <<store, disabled, admitted, cancels, bounds>>

\* Nothing is in flight and nothing will start: what did not finish fails.
Tail(j) ==
    LET job == jobs[j]
        kind == job.kind
    IN
    /\ Is(j, "cells") /\ job.exam = {} /\ job.judging = {}
    /\ job.todo = {} \/ job.canceled
    /\ run' = IF kind = "liveRetry" THEN run
              ELSE Stamped(job.camp, job.suites \ job.finished, "failed")
    /\ Becomes(j, [job EXCEPT !.phase = IF kind \in {"single", "liveRetry"}
                                        THEN "unregister" ELSE "settle"])
    /\ UNCHANGED <<campaign, result, disabled, admitted, cancels, bounds>>

\* A single run settles last, after its cancel entry is gone.
Settle(j) ==
    /\ Is(j, "settle")
    /\ campaign' = [campaign EXCEPT ![Camp(j)] = SettledStatus(Camp(j))]
    /\ Becomes(j, IF jobs[j].kind = "single" THEN None
                  ELSE [jobs[j] EXCEPT !.phase = "unregister"])
    /\ UNCHANGED <<run, result, disabled, admitted, cancels, bounds>>

\* Mutant: an executor returns without its deferred unregisterCancel.
UnregisterNothing(j) ==
    /\ Is(j, "unregister")
    /\ Becomes(j, None)
    /\ UNCHANGED <<store, disabled, admitted, cancels, bounds>>

\* unregisterCancel drops the campaign's entry, whoever registered it.
Unregister(j) ==
    /\ Is(j, "unregister")
    /\ cancels' = [cancels EXCEPT ![Camp(j)] = None]
    /\ Becomes(j, IF jobs[j].kind = "single"
                  THEN [jobs[j] EXCEPT !.phase = "settle"] ELSE None)
    /\ UNCHANGED <<store, disabled, admitted, bounds>>

-----------------------------------------------------------------------------
(* Cancels, guards, edits, restarts *)

\* CancelCampaign, for a campaign that is not settled and has an entry.
Cancel(c) ==
    LET j == cancels[c] IN
    /\ bounds.cancels < MaxCancels /\ campaign[c] = "running" /\ j # None
    /\ cancels' = [cancels EXCEPT ![c] = None]
    /\ jobs' = IF jobs[j] = None THEN jobs ELSE [jobs EXCEPT ![j].canceled = TRUE]
    /\ bounds' = [bounds EXCEPT !.cancels = @ + 1]
    /\ UNCHANGED <<store, disabled, admitted>>

\* The budget is spent, or every cell so far was dead.
GuardStops(j) ==
    /\ bounds.cancels < MaxCancels /\ Is(j, "cells") /\ jobs[j].kind \in Fresh
    /\ Becomes(j, [jobs[j] EXCEPT !.canceled = TRUE])
    /\ bounds' = [bounds EXCEPT !.cancels = @ + 1]
    /\ UNCHANGED <<store, disabled, admitted, cancels>>

DisableCase(s) ==
    /\ bounds.edits < MaxEdits /\ s \notin disabled
    /\ disabled' = disabled \cup {s}
    /\ bounds' = [bounds EXCEPT !.edits = @ + 1]
    /\ UNCHANGED <<store, admitted, jobs, cancels>>

\* The process dies; store.Open closes what it left running.
Restart ==
    /\ bounds.restarts < MaxRestarts
    /\ run' = [c \in Campaigns |-> [s \in Suites |->
                  IF run[c][s] = "running" THEN "failed" ELSE run[c][s]]]
    /\ campaign' = [c \in Campaigns |->
                  IF campaign[c] = "running" THEN "failed" ELSE campaign[c]]
    /\ admitted' = [h \in Handlers |-> None]
    /\ jobs' = [j \in Jobs |-> None]
    /\ cancels' = [c \in Campaigns |-> None]
    /\ bounds' = [bounds EXCEPT !.restarts = @ + 1]
    /\ UNCHANGED <<result, disabled>>

-----------------------------------------------------------------------------

Handle(h) ==
    \/ Refuse(h)
    \/ \E c \in Campaigns : CreateFails(h, c)
    \/ \E j \in Jobs :
          \/ \E c \in Campaigns, S \in SUBSET Suites : Create(h, j, c, S)
          \/ Retry(h, j) \/ RetryLive(h, j) \/ Resume(h, j)

Execute(j) ==
    \/ Register(j) \/ PrepareFails(j)
    \/ PlanEmpty(j) \/ PlanRetryFailed(j) \/ PlanRetryUnits(j)
    \/ \E S, broken \in SUBSET Suites, reachable \in SUBSET Models :
          PlanFresh(j, S, broken, reachable)
    \/ \E reachable \in SUBSET Models : PlanResume(j, reachable)
    \/ LeaveGate(j) \/ ReopenRuns(j) \/ LoseRace(j)
    \/ \E u \in Units :
          \/ Take(j, u) \/ Skip(j, u) \/ Offer(j, u) \/ Owe(j, u)
          \/ \E row \in {"null", "scored"} : Examine(j, u, row) \/ Land(j, u, row)
    \/ Tail(j) \/ Settle(j) \/ Unregister(j)

Next ==
    \/ \E h \in Handlers : Handle(h)
    \/ \E h \in Handlers, kind \in Kinds, c \in Campaigns, U \in SUBSET Units :
          Admit(h, kind, c, U)
    \/ \E j \in Jobs : Execute(j) \/ GuardStops(j)
    \/ \E c \in Campaigns : Cancel(c)
    \/ \E s \in Suites : DisableCase(s)
    \/ Restart

Spec == Init /\ [][Next]_vars

\* Requests are answered, calls return and executors keep running.
FairSpec ==
    /\ Spec
    /\ \A h \in Handlers : WF_vars(Handle(h))
    /\ \A j \in Jobs : WF_vars(Execute(j))

-----------------------------------------------------------------------------
(* Properties *)

\* The executor that will settle campaign c: a resume only once it reopened.
WillSettle(j, c) ==
    /\ jobs[j] # None /\ jobs[j].camp = c
    /\ jobs[j].kind # "liveRetry"
    /\ jobs[j].phase \in {"begin", "plan", "gate", "cells", "settle"}
          \/ (jobs[j].kind = "single" /\ jobs[j].phase = "unregister")
    /\ jobs[j].kind = "resume" => jobs[j].phase \in {"cells", "settle"}

\* A running campaign has an executor that will settle it: none is left
\* "running" forever, blocking every later evaluation (the GH #39 guard of the
\* reopens, the single settle of each executor, the cleanup of store.Open).
\* The exception is NoCampaignIsStranded's: a unit whose case is disabled.
RunningIsOwned ==
    \A c \in Campaigns : campaign[c] = "running" =>
        \/ \E j \in Jobs : WillSettle(j, c)
        \/ \E s \in disabled : run[c][s] = "running"

\* "each campaign is settled by exactly one goroutine" (SettleCampaign in
\* evaluator.go): however requests race, at most one executor of a campaign
\* is on its way to settling it, and until then the campaign is running, so
\* that the reopens' guard keeps the others out and the hook fires once.
OneSettler ==
    \A c \in Campaigns, i \in Jobs : WillSettle(i, c) =>
        /\ campaign[c] = "running"
        /\ \A j \in Jobs : WillSettle(j, c) => j = i

\* A settled campaign has no running run (SettleCampaign, the reopens, which
\* move both in one transaction, and live retries, which own no run).
SettledIsOver ==
    \A c \in Campaigns : campaign[c] \in Settled =>
        \A s \in Suites : run[c][s] # "running"

\* A canceled batch or retry-failed that dropped a cell settles failed, so
\* that it can be resumed ("their runs fail and the campaign settles failed",
\* handleCancelCampaign), whatever votes were still in flight.
DroppedCellsFail ==
    [][\A j \in Jobs :
          /\ Settle(j) /\ jobs[j].todo # {}
          /\ jobs[j].kind \in Fresh \cup {"retryFailed"}
          => campaign'[Camp(j)] # "done"]_vars

\* No campaign runs for ever: executors end, canceled or not, with what the
\* mutex of later evaluations waits for (executePrepared's tail, the retries'
\* own, and SettleCampaign after them), disabled cases apart as above.  That
\* the pools of an executor do not block is JudgePipeline's business.
CampaignsSettle ==
    \A c \in Campaigns : campaign[c] = "running" ~>
        (campaign[c] # "running" \/ \E s \in disabled : run[c][s] = "running")

\* "migrating them would strand them running with nothing to execute, blocking
\* the campaign's settle forever" (store/campaign.go on the reopens).
NoCampaignIsStranded ==
    \A c \in Campaigns : campaign[c] = "running" => \E j \in Jobs : WillSettle(j, c)

=============================================================================
