--------------------------- MODULE CampaignsProofs ---------------------------
(***************************************************************************)
(* Theorems about the campaign life cycle, for any number of campaigns,    *)
(* suites, models, requests and executors, and every mix of kinds.         *)
(***************************************************************************)
EXTENDS Campaigns, TLAPS

-----------------------------------------------------------------------------
(* The inductive invariant *)

\* Where an executor of each kind can be.
KindsInPhases ==
    \A j \in Jobs : jobs[j] # None =>
        /\ jobs[j].phase = "gate" => jobs[j].kind \in Fresh
        /\ jobs[j].phase = "reopen" => jobs[j].kind = "resume"
        /\ jobs[j].phase = "settle" => jobs[j].kind # "liveRetry"

\* A campaign has no runs before it exists, and none before its sweep plans.
NotYetRun ==
    /\ \A c \in Campaigns : campaign[c] = "absent" => \A s \in Suites : run[c][s] = "none"
    /\ \A j \in Jobs :
          /\ jobs[j] # None
          /\ jobs[j].kind \in {"sweep", "weekly"} /\ jobs[j].phase \in {"begin", "plan"}
          => \A s \in Suites : run[jobs[j].camp][s] = "none"

LifeInv == TypeOK /\ KindsInPhases /\ OneSettler /\ SettledIsOver /\ NotYetRun

-----------------------------------------------------------------------------
(* What one executor's step does to the executors *)

\* Executor j, which exists, is now at phase p; it kept its kind and campaign.
Moves(j, p) ==
    /\ jobs[j] # None /\ jobs'[j] # None
    /\ jobs' \in [Jobs -> Job \cup {None}]
    /\ \A i \in Jobs \ {j} : jobs'[i] = jobs[i]
    /\ jobs'[j].kind = jobs[j].kind /\ jobs'[j].camp = jobs[j].camp
    /\ jobs'[j].phase = p

Phases == {"begin", "plan", "gate", "reopen", "cells", "settle", "unregister"}

\* A job with some of its sets and its phase replaced is a job.
LEMMA BecomesMoves ==
    ASSUME TypeOK, NEW j \in Jobs, jobs[j] # None, NEW job \in Job, Becomes(j, job),
           job.kind = jobs[j].kind, job.camp = jobs[j].camp
    PROVE  Moves(j, job.phase)
  BY NoneIsNothing DEF TypeOK, Becomes, Moves

\* A registered executor that moves on within its work stays registered.
LEMMA MovesRegistered ==
    ASSUME TypeOK, NEW j \in Jobs, NEW p \in Phases, Moves(j, p),
           p = "begin" => jobs[j].phase = "begin",
           p = "settle" /\ jobs[j].kind = "single" => jobs[j].phase \in {"begin", "settle"},
           UNCHANGED cancels
    PROVE  \A c \in Campaigns : cancels'[c] # None => Registered(jobs'[cancels'[c]], c)
<1> TAKE c \in Campaigns
<1> SUFFICES ASSUME cancels[c] # None PROVE Registered(jobs'[cancels[c]], c)
  OBVIOUS
<1>1. cancels[c] \in Jobs /\ Registered(jobs[cancels[c]], c)
  BY DEF TypeOK
<1>2. CASE cancels[c] # j
  BY <1>1, <1>2 DEF Moves
<1>3. CASE cancels[c] = j
  BY <1>1, <1>3 DEF Moves, Registered
<1> QED
  BY <1>2, <1>3

\* An executor that settles and moves on with the campaign where it was is
\* still the only one; one that does not settle does not begin to.
LEMMA MovesSettlers ==
    ASSUME TypeOK, OneSettler, NEW j \in Jobs, NEW p \in Phases, Moves(j, p),
           UNCHANGED campaign,
           WillSettle(j, jobs[j].camp)' => WillSettle(j, jobs[j].camp)
    PROVE  OneSettler'
<1>1. \A i \in Jobs, c \in Campaigns : WillSettle(i, c)' => WillSettle(i, c)
  BY DEF Moves, WillSettle
<1> QED
  BY <1>1 DEF OneSettler

\* Runs change only in the campaign of executor j, and only if it settles it.
OwnRuns(j) ==
    /\ run' \in [Campaigns -> [Suites -> {"none", "running"} \cup Settled]]
    /\ run' # run =>
          /\ WillSettle(j, jobs[j].camp)
          /\ \A c \in Campaigns \ {jobs[j].camp} : run'[c] = run[c]

\* A step of an executor that moves no campaign keeps the invariant.
LEMMA MovesKeep ==
    ASSUME LifeInv, NEW j \in Jobs, NEW p \in Phases, Moves(j, p), OwnRuns(j),
           UNCHANGED campaign,
           WillSettle(j, jobs[j].camp)' => WillSettle(j, jobs[j].camp),
           p = "gate" => jobs[j].kind \in Fresh,
           p = "reopen" => jobs[j].kind = "resume",
           p = "settle" => jobs[j].kind # "liveRetry",
           p \in {"begin", "plan"} => jobs[j].phase \in {"begin", "plan"} /\ UNCHANGED run
    PROVE  KindsInPhases' /\ OneSettler' /\ SettledIsOver' /\ NotYetRun'
<1> USE DEF LifeInv
<1>1. KindsInPhases'
  BY DEF KindsInPhases, Moves
<1>2. OneSettler'
  BY MovesSettlers
<1>3. \A c \in Campaigns : campaign[c] # "running" => run'[c] = run[c]
  BY DEF OwnRuns, OneSettler, WillSettle
<1>4. SettledIsOver'
  BY <1>3 DEF SettledIsOver, Settled
<1>5. \A c \in Campaigns : campaign'[c] = "absent" =>
           \A s \in Suites : run'[c][s] = "none"
  BY <1>3 DEF NotYetRun
<1>6. ASSUME NEW i \in Jobs, jobs'[i] # None,
             jobs'[i].kind \in {"sweep", "weekly"}, jobs'[i].phase \in {"begin", "plan"}
      PROVE  \A s \in Suites : run'[jobs'[i].camp][s] = "none"
  <2>1. jobs[i] # None /\ jobs[i].camp = jobs'[i].camp /\ jobs[i].kind = jobs'[i].kind
        /\ jobs[i].camp \in Campaigns
    BY <1>6 DEF Moves, TypeOK, Job
  <2>2. jobs[i].phase \in {"begin", "plan"}
    BY <1>6 DEF Moves
  <2>3. \A s \in Suites : run[jobs[i].camp][s] = "none"
    BY <1>6, <2>1, <2>2 DEF NotYetRun
  <2>4. WillSettle(i, jobs[i].camp)
    BY <1>6, <2>1, <2>2 DEF WillSettle
  <2>5. run'[jobs[i].camp] = run[jobs[i].camp]
    <3>1. CASE i = j
      BY <1>6, <3>1 DEF Moves
    <3>2. CASE i # j
      <4>1. jobs[j].camp = jobs[i].camp => ~WillSettle(j, jobs[j].camp)
        BY <2>1, <2>4, <3>2 DEF OneSettler
      <4> QED
        BY <2>1, <4>1 DEF OwnRuns
    <3> QED
      BY <3>1, <3>2
  <2> QED
    BY <2>1, <2>3, <2>5
<1> QED
  BY <1>1, <1>2, <1>4, <1>5, <1>6 DEF NotYetRun

\* So does an executor that ends, once it has nothing left to settle.
LEMMA EndKeeps ==
    ASSUME LifeInv, NEW j \in Jobs, jobs[j] # None, Becomes(j, None),
           UNCHANGED <<campaign, run>>
    PROVE  KindsInPhases' /\ OneSettler' /\ SettledIsOver' /\ NotYetRun'
<1> USE DEF LifeInv
<1>1. /\ jobs' \in [Jobs -> Job \cup {None}] /\ jobs'[j] = None
      /\ \A i \in Jobs \ {j} : jobs'[i] = jobs[i]
  BY DEF TypeOK, Becomes
<1>2. \A i \in Jobs : jobs'[i] # None => jobs'[i] = jobs[i]
  BY <1>1
<1>3. KindsInPhases'
  BY <1>2 DEF KindsInPhases
<1>4. \A i \in Jobs, c \in Campaigns : WillSettle(i, c)' => WillSettle(i, c)
  BY <1>2 DEF WillSettle
<1>5. OneSettler'
  BY <1>4 DEF OneSettler
<1>6. SettledIsOver' /\ NotYetRun'
  BY <1>2 DEF SettledIsOver, NotYetRun
<1> QED
  BY <1>3, <1>5, <1>6

\* A status for runs of one campaign.
LEMMA StampedRuns ==
    ASSUME TypeOK, NEW c \in Campaigns, NEW S, NEW status \in {"none", "running"} \cup Settled,
           run' = Stamped(c, S, status)
    PROVE  /\ run' \in [Campaigns -> [Suites -> {"none", "running"} \cup Settled]]
           /\ \A d \in Campaigns \ {c} : run'[d] = run[d]
           /\ \A s \in Suites : run'[c][s] = IF s \in S THEN status ELSE run[c][s]
  BY DEF TypeOK, Stamped

\* Phase p is one that executor j may enter.
Enters(j, p) ==
    /\ WillSettle(j, jobs[j].camp)' => WillSettle(j, jobs[j].camp)
    /\ p = "gate" => jobs[j].kind \in Fresh
    /\ p = "reopen" => jobs[j].kind = "resume"
    /\ p = "settle" => jobs[j].kind # "liveRetry"
    /\ p = "settle" /\ jobs[j].kind = "single" => jobs[j].phase \in {"begin", "settle"}
    /\ p = "begin" => jobs[j].phase = "begin"
    /\ p \in {"begin", "plan"} => jobs[j].phase \in {"begin", "plan"} /\ UNCHANGED run

Results == [Campaigns -> [Units -> {"none", "null", "scored"}]]
Bounds == [requests : 0 .. MaxRequests, edits : 0 .. MaxEdits,
           cancels : 0 .. MaxCancels, restarts : 0 .. MaxRestarts]

\* A bound that is not reached can be counted up.
LEMMA BoundsCount ==
    ASSUME TypeOK
    PROVE  /\ bounds.requests < MaxRequests => [bounds EXCEPT !.requests = @ + 1] \in Bounds
           /\ bounds.edits < MaxEdits => [bounds EXCEPT !.edits = @ + 1] \in Bounds
           /\ bounds.cancels < MaxCancels => [bounds EXCEPT !.cancels = @ + 1] \in Bounds
           /\ bounds.restarts < MaxRestarts => [bounds EXCEPT !.restarts = @ + 1] \in Bounds
<1>1. bounds \in Bounds
  BY DEF TypeOK, Bounds
<1>2. \A m \in Nat : \A n \in 0 .. m : n < m => n + 1 \in 0 .. m
  OBVIOUS
<1>3. /\ bounds.requests \in 0 .. MaxRequests /\ bounds.edits \in 0 .. MaxEdits
      /\ bounds.cancels \in 0 .. MaxCancels /\ bounds.restarts \in 0 .. MaxRestarts
  BY <1>1 DEF Bounds
<1>4. /\ \A n \in 0 .. MaxRequests : [bounds EXCEPT !.requests = n] \in Bounds
      /\ \A n \in 0 .. MaxEdits : [bounds EXCEPT !.edits = n] \in Bounds
      /\ \A n \in 0 .. MaxCancels : [bounds EXCEPT !.cancels = n] \in Bounds
      /\ \A n \in 0 .. MaxRestarts : [bounds EXCEPT !.restarts = n] \in Bounds
  BY <1>1 DEF Bounds
<1>5. /\ bounds.requests < MaxRequests => bounds.requests + 1 \in 0 .. MaxRequests
      /\ bounds.edits < MaxEdits => bounds.edits + 1 \in 0 .. MaxEdits
      /\ bounds.cancels < MaxCancels => bounds.cancels + 1 \in 0 .. MaxCancels
      /\ bounds.restarts < MaxRestarts => bounds.restarts + 1 \in 0 .. MaxRestarts
  BY <1>2, <1>3, CampaignAssumption
<1> QED BY <1>4, <1>5

\* What every step of an executor between its registration and its settle does.
LEMMA WorkKeeps ==
    ASSUME LifeInv, NEW j \in Jobs, NEW p \in Phases, Moves(j, p), OwnRuns(j), Enters(j, p),
           result' \in Results, bounds' \in Bounds,
           UNCHANGED <<campaign, disabled, admitted, cancels>>
    PROVE  LifeInv'
<1> USE DEF LifeInv
<1>1. KindsInPhases' /\ OneSettler' /\ SettledIsOver' /\ NotYetRun'
  BY MovesKeep DEF Enters
<1>2. \A c \in Campaigns : cancels'[c] # None => Registered(jobs'[cancels'[c]], c)
  BY MovesRegistered DEF Enters
<1>3. TypeOK'
  BY <1>2 DEF TypeOK, Moves, OwnRuns, Results, Bounds
<1> QED
  BY <1>1, <1>3

\* Planning replaces the phase, the cells and the suites.
LEMMA PlannedMoves ==
    ASSUME TypeOK, NEW j \in Jobs, jobs[j] # None, NEW p \in Phases, NEW U \in SUBSET Units,
           Planned(j, p, U)
    PROVE  Moves(j, p)
<1> DEFINE job == [jobs[j] EXCEPT !.phase = p, !.todo = U, !.suites = Of(U)]
<1>1. jobs[j] \in Job
  BY DEF TypeOK
<1>2. Of(U) \in SUBSET Suites
  BY DEF Of, SuiteOf, Units
<1>3. job \in Job /\ job.kind = jobs[j].kind /\ job.camp = jobs[j].camp /\ job.phase = p
  BY <1>1, <1>2 DEF Job, Phases
<1>4. Becomes(j, job)
  BY DEF Planned
<1> HIDE DEF job
<1> QED
  BY <1>3, <1>4, BecomesMoves

\* Only a phase is replaced.
LEMMA PhaseMoves ==
    ASSUME TypeOK, NEW j \in Jobs, jobs[j] # None, NEW p \in Phases,
           Becomes(j, [jobs[j] EXCEPT !.phase = p])
    PROVE  Moves(j, p)
<1> DEFINE job == [jobs[j] EXCEPT !.phase = p]
<1>1. jobs[j] \in Job
  BY DEF TypeOK
<1>2. job \in Job /\ job.kind = jobs[j].kind /\ job.camp = jobs[j].camp /\ job.phase = p
  BY <1>1 DEF Job, Phases
<1>3. Becomes(j, job)
  OBVIOUS
<1> HIDE DEF job
<1> QED
  BY <1>2, <1>3, BecomesMoves

\* No run changes.
LEMMA SameRuns == ASSUME TypeOK, UNCHANGED run, NEW j \in Jobs PROVE OwnRuns(j)
  BY DEF TypeOK, OwnRuns

\* An executor that settles its campaign stamps runs of it.
LEMMA StampedOwn ==
    ASSUME TypeOK, NEW j \in Jobs, jobs[j] # None, WillSettle(j, Camp(j)),
           NEW S, NEW status \in {"none", "running"} \cup Settled,
           run' = Stamped(Camp(j), S, status)
    PROVE  OwnRuns(j)
<1>1. Camp(j) \in Campaigns
  BY DEF TypeOK, Job, Camp
<1> QED
  BY <1>1, StampedRuns DEF OwnRuns, Camp

\* A cell or a vote is accounted for, and may end its run.
LEMMA StepMoves ==
    ASSUME TypeOK, NEW j \in Jobs, Is(j, "cells"), NEW s \in Suites, NEW job \in Job,
           job.kind = jobs[j].kind, job.camp = jobs[j].camp, job.phase = "cells",
           Step(j, job, s)
    PROVE  Moves(j, "cells") /\ OwnRuns(j) /\ Enters(j, "cells")
<1> DEFINE ended == [job EXCEPT !.finished = @ \cup {s}]
<1>1. jobs[j] # None /\ jobs[j].phase = "cells"
  BY DEF Is
<1>2. /\ ended \in Job /\ ended.kind = jobs[j].kind
      /\ ended.camp = jobs[j].camp /\ ended.phase = "cells"
  BY DEF Job
<1>3. Becomes(j, job) \/ Becomes(j, ended)
  BY DEF Step
<1> HIDE DEF ended
<1>4. Moves(j, "cells")
  BY <1>1, <1>2, <1>3, BecomesMoves
<1>5. OwnRuns(j)
  <2>1. CASE UNCHANGED run
    BY <2>1, SameRuns
  <2>2. CASE run' = Stamped(job.camp, {s}, "done") /\ job.kind # "liveRetry"
    <3>1. WillSettle(j, Camp(j))
      BY <1>1, <2>2 DEF WillSettle, Camp
    <3> QED
      BY <1>1, <2>2, <3>1, StampedOwn DEF Camp, Settled
  <2> QED
    BY <2>1, <2>2 DEF Step
<1>6. Enters(j, "cells")
  BY <1>1, <1>4 DEF Enters, Moves, WillSettle
<1> QED
  BY <1>4, <1>5, <1>6

-----------------------------------------------------------------------------
(* The steps of an executor *)

\* Bounds and results that stay are typed.
LEMMA KeptTyped ==
    /\ TypeOK /\ UNCHANGED result => result' \in Results
    /\ TypeOK /\ UNCHANGED bounds => bounds' \in Bounds
  BY DEF TypeOK, Results, Bounds

\* A result row that is written is typed.
LEMMA WriteTyped ==
    ASSUME TypeOK, NEW c \in Campaigns, NEW u \in Units,
           NEW row \in {"none", "null", "scored"}, Write(c, u, row)
    PROVE  result' \in Results
  BY DEF TypeOK, Write, Results

\* registerCancel takes the campaign's entry over.
LEMMA RegisterKeeps == ASSUME LifeInv, NEW j \in Jobs, Register(j) PROVE LifeInv'
<1> USE DEF LifeInv
<1>1. jobs[j] # None /\ jobs[j] \in Job /\ jobs[j].phase = "begin"
  BY DEF Register, Is, TypeOK
<1>2. Moves(j, "plan") /\ "plan" \in Phases
  BY <1>1, PhaseMoves DEF Register, Phases
<1>3. OwnRuns(j) /\ Enters(j, "plan")
  BY <1>1, <1>2, SameRuns DEF Register, store, Enters, WillSettle, Moves
<1>4. UNCHANGED campaign
  BY DEF Register, store
<1>5. KindsInPhases' /\ OneSettler' /\ SettledIsOver' /\ NotYetRun'
  BY <1>2, <1>3, <1>4, MovesKeep DEF Enters
<1>6. cancels' \in [Campaigns -> Jobs \cup {None}] /\ cancels'[Camp(j)] = j
      /\ \A c \in Campaigns \ {Camp(j)} : cancels'[c] = cancels[c]
  BY <1>1 DEF Register, TypeOK, Job, Camp
<1>7. ASSUME NEW c \in Campaigns, cancels'[c] # None
      PROVE  Registered(jobs'[cancels'[c]], c)
  <2>1. CASE c = Camp(j)
    BY <1>1, <1>2, <1>6, <2>1 DEF Registered, Moves, Camp
  <2>2. CASE c # Camp(j)
    <3>1. cancels'[c] \in Jobs /\ Registered(jobs[cancels'[c]], c)
      BY <1>6, <1>7, <2>2 DEF TypeOK
    <3>2. cancels'[c] # j
      BY <1>1, <3>1 DEF Registered
    <3> QED
      BY <1>2, <3>1, <3>2 DEF Moves
  <2> QED
    BY <2>1, <2>2
<1>8. TypeOK'
  BY <1>2, <1>6, <1>7 DEF Register, store, TypeOK, Moves
<1> QED
  BY <1>5, <1>8

\* A single run that cannot be staged fails before it registers.
LEMMA PrepareFailsKeeps == ASSUME LifeInv, NEW j \in Jobs, PrepareFails(j) PROVE LifeInv'
<1> USE DEF LifeInv
<1>1. jobs[j] # None /\ jobs[j].phase = "begin" /\ jobs[j].kind = "single"
  BY DEF PrepareFails, Is
<1>2. Moves(j, "settle") /\ "settle" \in Phases
  BY <1>1, PhaseMoves DEF PrepareFails, Phases
<1>3. WillSettle(j, Camp(j))
  BY <1>1 DEF WillSettle, Camp
<1>4. OwnRuns(j)
  BY <1>1, <1>3, StampedOwn DEF PrepareFails, Settled
<1>5. Enters(j, "settle")
  BY <1>1, <1>3 DEF Enters, Camp
<1> QED
  BY <1>2, <1>4, <1>5, WorkKeeps, KeptTyped DEF PrepareFails

\* A plan creates the runs of the executor's own campaign.
LEMMA PlanFreshKeeps ==
    ASSUME LifeInv, NEW j \in Jobs, NEW S \in SUBSET Suites, NEW broken \in SUBSET Suites,
           NEW reachable \in SUBSET Models, PlanFresh(j, S, broken, reachable)
    PROVE  LifeInv'
<1> USE DEF LifeInv
<1> DEFINE feed == IF jobs[j].canceled THEN Models ELSE reachable
           fed  == S # {} /\ feed # {}
           p    == IF fed THEN IF jobs[j].kind = "weekly" THEN "cells" ELSE "gate"
                   ELSE IF jobs[j].kind = "single" THEN "unregister" ELSE "settle"
           U    == IF fed THEN S \X feed ELSE {}
<1>1. jobs[j] # None /\ jobs[j].phase = "plan" /\ jobs[j].kind \in Fresh
      /\ Camp(j) \in Campaigns
  BY DEF PlanFresh, Is, TypeOK, Job, Camp
<1>2. p \in Phases /\ U \in SUBSET Units
  BY DEF Phases, Units
<1>3. Planned(j, p, U)
  BY DEF PlanFresh
<1>4. WillSettle(j, Camp(j))
  BY <1>1 DEF WillSettle, Fresh, Camp
<1>5. Enters(j, p)
  BY <1>1, <1>4 DEF Enters, Camp, Fresh
<1> HIDE DEF p, U
<1>6. Moves(j, p)
  BY <1>1, <1>2, <1>3, PlannedMoves
<1>7. run' \in [Campaigns -> [Suites -> {"none", "running"} \cup Settled]]
      /\ \A c \in Campaigns \ {Camp(j)} : run'[c] = run[c]
  BY <1>1 DEF PlanFresh, TypeOK, Settled
<1>8. OwnRuns(j)
  BY <1>4, <1>7 DEF OwnRuns, Camp
<1> QED
  BY <1>2, <1>5, <1>6, <1>8, WorkKeeps, KeptTyped DEF PlanFresh

\* The gate lets a batch through.
LEMMA GateKeeps == ASSUME LifeInv, NEW j \in Jobs, LeaveGate(j) PROVE LifeInv'
<1> USE DEF LifeInv
<1>1. jobs[j] # None /\ jobs[j].phase = "gate" /\ jobs[j].kind \in Fresh
  BY DEF LeaveGate, Is, KindsInPhases
<1>2. Moves(j, "cells") /\ "cells" \in Phases
  BY <1>1, PhaseMoves DEF LeaveGate, Phases
<1>3. OwnRuns(j) /\ Enters(j, "cells")
  BY <1>1, SameRuns DEF LeaveGate, store, Enters, WillSettle, Fresh
<1> QED
  BY <1>2, <1>3, WorkKeeps, KeptTyped DEF LeaveGate, store

\* A retry-failed finishes the runs it has nothing to do in.
LEMMA RetryFailedPlanKeeps ==
    ASSUME LifeInv, NEW j \in Jobs, PlanRetryFailed(j) PROVE LifeInv'
<1> USE DEF LifeInv
<1>1. jobs[j] # None /\ jobs[j].phase = "plan" /\ jobs[j].kind = "retryFailed"
  BY DEF PlanRetryFailed, Is
<1>2. {u \in Nulls(Camp(j)) : SuiteOf(u) \notin disabled} \in SUBSET Units
  BY DEF Nulls
<1>3. Moves(j, "cells") /\ "cells" \in Phases
  BY <1>1, <1>2, PlannedMoves DEF PlanRetryFailed, Phases
<1>4. WillSettle(j, Camp(j))
  BY <1>1 DEF WillSettle, Camp
<1>5. OwnRuns(j)
  BY <1>1, <1>4, StampedOwn DEF PlanRetryFailed, Settled
<1>6. Enters(j, "cells")
  BY <1>4 DEF Enters, Camp
<1> QED
  BY <1>3, <1>5, <1>6, WorkKeeps, KeptTyped DEF PlanRetryFailed

\* A re-answer plans cells, and no run.
LEMMA RetryUnitsPlanKeeps ==
    ASSUME LifeInv, NEW j \in Jobs, PlanRetryUnits(j) PROVE LifeInv'
<1> USE DEF LifeInv
<1> DEFINE U == {u \in jobs[j].units : SuiteOf(u) \in Runs(Camp(j)) \ disabled}
<1>1. jobs[j] # None /\ jobs[j].phase = "plan" /\ jobs[j].kind \in {"retryUnits", "liveRetry"}
      /\ jobs[j] \in Job
  BY DEF PlanRetryUnits, Is, TypeOK
<1>2. U \in SUBSET Units
  BY <1>1 DEF Job
<1>3. Moves(j, "cells") /\ "cells" \in Phases
  BY <1>1, <1>2, PlannedMoves DEF PlanRetryUnits, Phases
<1>4. OwnRuns(j) /\ Enters(j, "cells")
  BY <1>1, <1>3, SameRuns DEF PlanRetryUnits, store, Enters, WillSettle, Moves
<1> QED
  BY <1>3, <1>4, WorkKeeps, KeptTyped DEF PlanRetryUnits, store

\* A resume plans before it owns anything.
LEMMA ResumePlanKeeps ==
    ASSUME LifeInv, NEW j \in Jobs, NEW reachable \in SUBSET Models, PlanResume(j, reachable)
    PROVE  LifeInv'
<1> USE DEF LifeInv
<1> DEFINE missing == {u \in Units : /\ SuiteOf(u) \in Runs(Camp(j)) \ disabled
                                     /\ u[2] \in reachable /\ result[Camp(j)][u] # "scored"}
           p == IF missing = {} THEN "unregister" ELSE "reopen"
<1>1. jobs[j] # None /\ jobs[j].phase = "plan" /\ jobs[j].kind = "resume"
  BY DEF PlanResume, Is
<1>2. missing \in SUBSET Units /\ p \in {"unregister", "reopen"} /\ Planned(j, p, missing)
  BY DEF PlanResume
<1> HIDE DEF missing, p
<1>3. Moves(j, p) /\ p \in Phases
  BY <1>1, <1>2, PlannedMoves DEF Phases
<1>4. OwnRuns(j) /\ Enters(j, p)
  BY <1>1, <1>2, <1>3, SameRuns DEF PlanResume, store, Enters, WillSettle, Moves
<1> QED
  BY <1>3, <1>4, WorkKeeps, KeptTyped DEF PlanResume, store

\* A resume that lost the race leaves.
LEMMA LoseRaceKeeps == ASSUME LifeInv, NEW j \in Jobs, LoseRace(j) PROVE LifeInv'
<1> USE DEF LifeInv
<1>1. jobs[j] # None /\ jobs[j].phase = "reopen" /\ jobs[j].kind = "resume"
  BY DEF LoseRace, Is, KindsInPhases
<1>2. Moves(j, "unregister") /\ "unregister" \in Phases
  BY <1>1, PhaseMoves DEF LoseRace, Phases
<1>3. OwnRuns(j) /\ Enters(j, "unregister")
  BY <1>1, <1>2, SameRuns DEF LoseRace, store, Enters, WillSettle, Moves
<1> QED
  BY <1>2, <1>3, WorkKeeps, KeptTyped DEF LoseRace, store

\* A job that marks its cells keeps its shape.
LEMMA MarkedJob ==
    ASSUME NEW job \in Job, NEW s \in Suites
    PROVE  /\ Marked(job, s) \in Job /\ Marked(job, s).kind = job.kind
           /\ Marked(job, s).camp = job.camp /\ Marked(job, s).phase = job.phase
  BY DEF Marked, Job

\* Each step of a cell and its votes.
LEMMA CellKeeps ==
    ASSUME LifeInv, NEW j \in Jobs, NEW u \in Units, NEW row \in {"null", "scored"},
           \/ Take(j, u) \/ Skip(j, u) \/ Offer(j, u) \/ Owe(j, u)
           \/ Examine(j, u, row) \/ Land(j, u, row)
    PROVE  LifeInv'
<1> USE DEF LifeInv
<1> DEFINE taken   == [jobs[j] EXCEPT !.todo = @ \ {u}, !.exam = @ \cup {u}]
           skipped == [jobs[j] EXCEPT !.todo = @ \ {u}]
           written == [jobs[j] EXCEPT !.exam = @ \ {u}]
           offered == [jobs[j] EXCEPT !.exam = @ \ {u}, !.judging = @ \cup {u}]
           owing   == [jobs[j] EXCEPT !.exam = @ \ {u}, !.owed = @ \cup {u}]
           landed  == [jobs[j] EXCEPT !.judging = @ \ {u}]
           s == SuiteOf(u)
           Like(job) == /\ job \in Job /\ job.kind = jobs[j].kind
                        /\ job.camp = jobs[j].camp /\ job.phase = "cells"
<1>1. Is(j, "cells") /\ jobs[j] # None /\ jobs[j].phase = "cells" /\ jobs[j] \in Job
      /\ Camp(j) \in Campaigns
  BY DEF Take, Skip, Offer, Owe, Examine, Land, Is, TypeOK, Job, Camp
<1>2. s \in Suites
  BY DEF SuiteOf, Units
<1>3. Like(taken) /\ Like(skipped) /\ Like(written)
  BY <1>1 DEF Job
<1>4. Like(offered) /\ Like(owing) /\ Like(landed)
  BY <1>1 DEF Job
<1>5. Like(Marked(skipped, s)) /\ Like(Marked(written, s))
      /\ Like(Marked(offered, s)) /\ Like(Marked(owing, s))
  BY <1>2, <1>3, <1>4, MarkedJob
<1>6. /\ UNCHANGED <<campaign, disabled, admitted, cancels, bounds>>
      /\ \/ Becomes(j, taken) /\ UNCHANGED run
         \/ \E job : Like(job) /\ Step(j, job, s)
  <2>1. CASE Take(j, u)
    BY <2>1 DEF Take
  <2>2. CASE Skip(j, u)
    <3>1. Step(j, Marked(skipped, s), s)
      BY <2>2 DEF Skip
    <3> QED
      BY <2>2, <3>1, <1>5 DEF Skip
  <2>3. CASE Offer(j, u)
    <3>1. Step(j, Marked(offered, s), s)
      BY <2>3 DEF Offer
    <3> QED
      BY <2>3, <3>1, <1>5 DEF Offer
  <2>4. CASE Owe(j, u)
    <3>1. Step(j, Marked(owing, s), s)
      BY <2>4 DEF Owe
    <3> QED
      BY <2>4, <3>1, <1>5 DEF Owe
  <2>5. CASE Examine(j, u, row)
    <3>1. Step(j, Marked(written, s), s)
      BY <2>5 DEF Examine
    <3> QED
      BY <2>5, <3>1, <1>5 DEF Examine
  <2>6. CASE Land(j, u, row)
    <3>1. Step(j, landed, s)
      BY <2>6 DEF Land
    <3> QED
      BY <2>6, <3>1, <1>4 DEF Land
  <2> QED
    BY <2>1, <2>2, <2>3, <2>4, <2>5, <2>6
<1>7. result' \in Results
  BY <1>1, KeptTyped, WriteTyped DEF Take, Skip, Offer, Owe, Examine, Land
<1>8. Moves(j, "cells") /\ OwnRuns(j) /\ Enters(j, "cells")
  <2>1. CASE Becomes(j, taken) /\ UNCHANGED run
    <3> HIDE DEF taken
    <3>1. Moves(j, "cells") /\ OwnRuns(j)
      BY <1>1, <1>3, <2>1, BecomesMoves, SameRuns
    <3> QED
      BY <1>1, <3>1 DEF Enters, Moves, WillSettle
  <2>2. CASE \E job : Like(job) /\ Step(j, job, s)
    <3> PICK job : Like(job) /\ Step(j, job, s)
      BY <2>2
    <3> QED
      BY <1>1, <1>2, StepMoves
  <2> QED
    BY <1>6, <2>1, <2>2
<1> QED
  BY <1>6, <1>7, <1>8, WorkKeeps, KeptTyped DEF Phases

\* The tail fails what did not finish.
LEMMA TailKeeps == ASSUME LifeInv, NEW j \in Jobs, Tail(j) PROVE LifeInv'
<1> USE DEF LifeInv
<1> DEFINE p == IF jobs[j].kind \in {"single", "liveRetry"} THEN "unregister" ELSE "settle"
<1>1. jobs[j] # None /\ jobs[j].phase = "cells"
  BY DEF Tail, Is
<1>2. Becomes(j, [jobs[j] EXCEPT !.phase = p]) /\ p \in Phases
  BY DEF Tail, Phases
<1>3. OwnRuns(j)
  <2>1. CASE jobs[j].kind = "liveRetry"
    BY <2>1, SameRuns DEF Tail
  <2>2. CASE jobs[j].kind # "liveRetry"
    <3>1. WillSettle(j, Camp(j))
      BY <1>1, <2>2 DEF WillSettle, Camp
    <3> QED
      BY <1>1, <2>2, <3>1, StampedOwn DEF Tail, Camp, Settled
  <2> QED
    BY <2>1, <2>2
<1>4. p = "settle" => jobs[j].kind \notin {"single", "liveRetry"}
  OBVIOUS
<1>5. p \in {"unregister", "settle"}
  OBVIOUS
<1>6. p = "unregister" => jobs[j].kind \in {"single", "liveRetry"}
  OBVIOUS
<1> HIDE DEF p
<1>7. Moves(j, p)
  BY <1>1, <1>2, PhaseMoves
<1>8. Enters(j, p)
  BY <1>1, <1>4, <1>5, <1>6, <1>7 DEF Enters, WillSettle, Moves
<1> QED
  BY <1>2, <1>3, <1>7, <1>8, WorkKeeps, KeptTyped DEF Tail

\* A guard cancels a batch that executes.
LEMMA GuardKeeps == ASSUME LifeInv, NEW j \in Jobs, GuardStops(j) PROVE LifeInv'
<1> USE DEF LifeInv
<1> DEFINE job == [jobs[j] EXCEPT !.canceled = TRUE]
<1>1. jobs[j] # None /\ jobs[j].phase = "cells" /\ jobs[j] \in Job
  BY DEF GuardStops, Is, TypeOK
<1>2. /\ job \in Job /\ job.kind = jobs[j].kind
      /\ job.camp = jobs[j].camp /\ job.phase = "cells" /\ Becomes(j, job)
  BY <1>1 DEF Job, GuardStops
<1> HIDE DEF job
<1>3. Moves(j, "cells") /\ OwnRuns(j)
  BY <1>1, <1>2, BecomesMoves, SameRuns DEF GuardStops, store
<1>4. Enters(j, "cells")
  BY <1>1, <1>3 DEF Enters, Moves, WillSettle
<1>5. bounds' \in Bounds
  BY BoundsCount DEF GuardStops
<1> QED
  BY <1>3, <1>4, <1>5, WorkKeeps, KeptTyped DEF GuardStops, store, Phases

-----------------------------------------------------------------------------
(* The steps that move a campaign, and those that drop its entry *)

\* An empty rotation is done at once: it has no runs.
LEMMA EmptyKeeps == ASSUME LifeInv, NEW j \in Jobs, PlanEmpty(j) PROVE LifeInv'
<1> USE DEF LifeInv
<1>1. /\ jobs[j] # None /\ jobs[j].phase = "plan" /\ jobs[j] \in Job
      /\ jobs[j].kind \in {"sweep", "weekly"} /\ Camp(j) \in Campaigns
  BY DEF PlanEmpty, Is, TypeOK, Job, Camp
<1>2. Moves(j, "unregister") /\ "unregister" \in Phases
  BY <1>1, PhaseMoves DEF PlanEmpty, Phases
<1>3. /\ campaign' \in [Campaigns -> {"absent", "running"} \cup Settled]
      /\ campaign'[Camp(j)] = "done"
      /\ \A c \in Campaigns \ {Camp(j)} : campaign'[c] = campaign[c]
  BY <1>1 DEF PlanEmpty, TypeOK, Settled
<1>4. \A c \in Campaigns : cancels'[c] # None => Registered(jobs'[cancels'[c]], c)
  BY <1>1, <1>2, MovesRegistered DEF PlanEmpty
<1>5. TypeOK'
  BY <1>2, <1>3, <1>4 DEF PlanEmpty, TypeOK, Moves
<1>6. KindsInPhases'
  BY <1>2 DEF KindsInPhases, Moves
<1>7. WillSettle(j, Camp(j))
  BY <1>1 DEF WillSettle, Camp
<1>8. ~WillSettle(j, Camp(j))'
  BY <1>1, <1>2 DEF WillSettle, Moves
<1>9. \A i \in Jobs, c \in Campaigns : WillSettle(i, c)' => WillSettle(i, c) /\ c # Camp(j)
  <2> TAKE i \in Jobs, c \in Campaigns
  <2> SUFFICES ASSUME WillSettle(i, c)' PROVE WillSettle(i, c) /\ c # Camp(j)
    OBVIOUS
  <2>1. i # j
    BY <1>1, <1>2 DEF WillSettle, Moves
  <2>2. WillSettle(i, c)
    BY <1>2, <2>1 DEF WillSettle, Moves
  <2> QED
    BY <1>1, <1>7, <2>1, <2>2 DEF OneSettler
<1>10. OneSettler'
  BY <1>3, <1>9 DEF OneSettler
<1>11. \A s \in Suites : run[Camp(j)][s] = "none"
  BY <1>1 DEF NotYetRun, Camp
<1>12. SettledIsOver'
  BY <1>3, <1>11 DEF PlanEmpty, SettledIsOver
<1>13. NotYetRun'
  BY <1>2, <1>3 DEF PlanEmpty, NotYetRun, Moves
<1> QED
  BY <1>5, <1>6, <1>10, <1>12, <1>13

\* The status SettleCampaign leaves: settled campaigns stay, and no campaign
\* is settled over a running run.
LEMMA SettledStatusFacts ==
    ASSUME TypeOK, SettledIsOver, NEW c \in Campaigns
    PROVE  /\ SettledStatus(c) \in {"absent", "running"} \cup Settled
           /\ SettledStatus(c) \in Settled => \A s \in Suites : run[c][s] # "running"
           /\ SettledStatus(c) = "absent" => campaign[c] = "absent"
  BY DEF TypeOK, SettledIsOver, SettledStatus, Settled

\* The one executor that settles a campaign does, and leaves it.
LEMMA SettleKeeps == ASSUME LifeInv, NEW j \in Jobs, Settle(j) PROVE LifeInv'
<1> USE DEF LifeInv
<1>1. /\ jobs[j] # None /\ jobs[j].phase = "settle" /\ jobs[j] \in Job
      /\ jobs[j].kind # "liveRetry" /\ Camp(j) \in Campaigns
  BY DEF Settle, Is, TypeOK, Job, Camp, KindsInPhases
<1>2. WillSettle(j, Camp(j))
  BY <1>1 DEF WillSettle, Camp
<1>3. /\ campaign' \in [Campaigns -> {"absent", "running"} \cup Settled]
      /\ campaign'[Camp(j)] = SettledStatus(Camp(j))
      /\ \A c \in Campaigns \ {Camp(j)} : campaign'[c] = campaign[c]
  BY <1>1, SettledStatusFacts DEF Settle, TypeOK
<1>4. /\ jobs' \in [Jobs -> Job \cup {None}]
      /\ \A i \in Jobs \ {j} : jobs'[i] = jobs[i]
      /\ \/ jobs[j].kind = "single" /\ jobs'[j] = None
         \/ jobs[j].kind # "single" /\ Moves(j, "unregister")
  <2>1. CASE jobs[j].kind = "single"
    BY <2>1 DEF Settle, Becomes, TypeOK
  <2>2. CASE jobs[j].kind # "single"
    <3>1. Becomes(j, [jobs[j] EXCEPT !.phase = "unregister"])
      BY <2>2 DEF Settle
    <3>2. Moves(j, "unregister")
      BY <1>1, <3>1, PhaseMoves DEF Phases
    <3> QED
      BY <2>2, <3>2 DEF Moves
  <2> QED
    BY <2>1, <2>2
<1>5. \A c \in Campaigns : cancels'[c] # None => Registered(jobs'[cancels'[c]], c)
  <2> TAKE c \in Campaigns
  <2> SUFFICES ASSUME cancels[c] # None PROVE Registered(jobs'[cancels[c]], c)
    BY DEF Settle
  <2>1. cancels[c] \in Jobs /\ Registered(jobs[cancels[c]], c)
    BY DEF TypeOK
  <2> QED
    BY <1>1, <1>4, <2>1 DEF Registered, Moves
<1>6. TypeOK'
  BY <1>3, <1>4, <1>5 DEF Settle, TypeOK
<1>7. KindsInPhases'
  BY <1>4 DEF KindsInPhases, Moves
<1>8. \A i \in Jobs, c \in Campaigns : WillSettle(i, c)' => WillSettle(i, c) /\ c # Camp(j)
  <2> TAKE i \in Jobs, c \in Campaigns
  <2> SUFFICES ASSUME WillSettle(i, c)' PROVE WillSettle(i, c) /\ c # Camp(j)
    OBVIOUS
  <2>1. i # j
    BY <1>1, <1>4 DEF WillSettle, Moves
  <2>2. WillSettle(i, c)
    BY <1>4, <2>1 DEF WillSettle
  <2> QED
    BY <1>1, <1>2, <2>1, <2>2 DEF OneSettler
<1>9. OneSettler'
  BY <1>3, <1>8 DEF OneSettler
<1>10. SettledIsOver'
  BY <1>1, <1>3, SettledStatusFacts DEF Settle, SettledIsOver
<1>11. NotYetRun'
  <2>1. \A c \in Campaigns : campaign'[c] = "absent" => campaign[c] = "absent"
    BY <1>1, <1>3, SettledStatusFacts
  <2> QED
    BY <1>4, <2>1 DEF Settle, NotYetRun, Moves
<1> QED
  BY <1>6, <1>7, <1>9, <1>10, <1>11

\* An executor drops its campaign's entry, whoever made it.
LEMMA UnregisterKeeps == ASSUME LifeInv, NEW j \in Jobs, Unregister(j) PROVE LifeInv'
<1> USE DEF LifeInv
<1>1. /\ jobs[j] # None /\ jobs[j].phase = "unregister" /\ jobs[j] \in Job
      /\ Camp(j) \in Campaigns /\ UNCHANGED <<campaign, run>>
  BY DEF Unregister, Is, TypeOK, Job, Camp, store
<1>2. /\ cancels' \in [Campaigns -> Jobs \cup {None}] /\ cancels'[Camp(j)] = None
      /\ \A c \in Campaigns \ {Camp(j)} : cancels'[c] = cancels[c]
  BY <1>1 DEF Unregister, TypeOK
<1>3. CASE jobs[j].kind = "single"
  <2>1. Moves(j, "settle")
    BY <1>1, <1>3, PhaseMoves DEF Unregister, Phases
  <2>2. OwnRuns(j) /\ WillSettle(j, jobs[j].camp)
    BY <1>1, <1>3, SameRuns DEF WillSettle
  <2>3. KindsInPhases' /\ OneSettler' /\ SettledIsOver' /\ NotYetRun'
    BY <1>1, <1>3, <2>1, <2>2, MovesKeep DEF Phases
  <2> QED
    BY <1>2, <2>1, <2>3 DEF Unregister, store, TypeOK, Moves, Registered, Camp
<1>4. CASE jobs[j].kind # "single"
  <2>1. Becomes(j, None)
    BY <1>4 DEF Unregister
  <2>2. KindsInPhases' /\ OneSettler' /\ SettledIsOver' /\ NotYetRun'
    BY <1>1, <2>1, EndKeeps
  <2>3. jobs' \in [Jobs -> Job \cup {None}] /\ \A i \in Jobs \ {j} : jobs'[i] = jobs[i]
    BY <2>1 DEF Becomes, TypeOK
  <2>4. ASSUME NEW c \in Campaigns, cancels'[c] # None
        PROVE  Registered(jobs'[cancels'[c]], c)
    <3>1. /\ c # Camp(j) /\ cancels'[c] = cancels[c]
          /\ cancels[c] \in Jobs /\ Registered(jobs[cancels[c]], c)
      BY <1>2, <2>4 DEF TypeOK
    <3>2. cancels[c] # j
      BY <3>1 DEF Registered, Camp
    <3> QED
      BY <2>3, <3>1, <3>2 DEF Registered
  <2>5. TypeOK'
    BY <1>2, <2>3, <2>4 DEF Unregister, store, TypeOK
  <2> QED
    BY <2>2, <2>5
<1> QED
  BY <1>3, <1>4

\* An operator cancels the executor that owns the campaign's entry.
LEMMA CancelKeeps == ASSUME LifeInv, NEW c \in Campaigns, Cancel(c) PROVE LifeInv'
<1> USE DEF LifeInv
<1> PICK j \in Jobs : j = cancels[c]
  BY DEF Cancel, TypeOK
<1> DEFINE job == [jobs[j] EXCEPT !.canceled = TRUE]
<1>1. jobs[j] # None /\ jobs[j] \in Job /\ UNCHANGED <<campaign, run>>
  BY DEF Cancel, TypeOK, Registered, store
<1>2. /\ job \in Job /\ job.kind = jobs[j].kind /\ job.camp = jobs[j].camp
      /\ job.phase = jobs[j].phase /\ Becomes(j, job)
  BY <1>1 DEF Job, Cancel, Becomes
<1> HIDE DEF job
<1> PICK p \in Phases : p = jobs[j].phase
  BY <1>1 DEF Job, Phases
<1>3. Moves(j, p) /\ OwnRuns(j)
  BY <1>1, <1>2, BecomesMoves, SameRuns
<1>4. WillSettle(j, jobs[j].camp)' => WillSettle(j, jobs[j].camp)
  BY <1>1, <1>3 DEF WillSettle, Moves
<1>5. KindsInPhases' /\ OneSettler' /\ SettledIsOver' /\ NotYetRun'
  BY <1>1, <1>3, <1>4, MovesKeep DEF KindsInPhases
<1>6. /\ cancels' \in [Campaigns -> Jobs \cup {None}]
      /\ \A d \in Campaigns : cancels'[d] # None => cancels'[d] = cancels[d]
  BY DEF Cancel, TypeOK
<1>7. \A d \in Campaigns : cancels'[d] # None => Registered(jobs'[cancels'[d]], d)
  <2> TAKE d \in Campaigns
  <2> SUFFICES ASSUME cancels'[d] # None PROVE Registered(jobs'[cancels'[d]], d)
    OBVIOUS
  <2>1. cancels'[d] = cancels[d] /\ cancels[d] \in Jobs /\ Registered(jobs[cancels[d]], d)
    BY <1>6 DEF TypeOK
  <2> QED
    BY <1>3, <2>1 DEF Registered, Moves
<1>8. bounds' \in Bounds
  BY BoundsCount DEF Cancel
<1>9. TypeOK'
  BY <1>3, <1>6, <1>7, <1>8 DEF Cancel, store, TypeOK, Moves, Bounds
<1> QED
  BY <1>5, <1>9

-----------------------------------------------------------------------------
(* Reopens and handlers *)

\* Executor j works for campaign c from here on; the others stay.
Works(j, c) ==
    /\ jobs' \in [Jobs -> Job \cup {None}]
    /\ \A i \in Jobs \ {j} : jobs'[i] = jobs[i]
    /\ jobs'[j] # None /\ jobs'[j].camp = c

\* Only a settled campaign is reopened, and nobody was going to settle it.
LEMMA ReopenKeeps ==
    ASSUME LifeInv, NEW c \in Campaigns, NEW S \in SUBSET Suites, Reopen(c, S),
           NEW j \in Jobs, Works(j, c),
           jobs'[j].phase \in {"begin", "cells"},
           jobs'[j].kind \notin {"sweep", "weekly"}
    PROVE  /\ KindsInPhases' /\ OneSettler' /\ SettledIsOver' /\ NotYetRun'
           /\ campaign' \in [Campaigns -> {"absent", "running"} \cup Settled]
           /\ run' \in [Campaigns -> [Suites -> {"none", "running"} \cup Settled]]
<1> USE DEF LifeInv
<1>1. /\ campaign' \in [Campaigns -> {"absent", "running"} \cup Settled]
      /\ campaign[c] \in Settled /\ campaign'[c] = "running"
      /\ \A d \in Campaigns \ {c} : campaign'[d] = campaign[d]
  BY DEF Reopen, TypeOK
<1>2. /\ run' \in [Campaigns -> [Suites -> {"none", "running"} \cup Settled]]
      /\ \A d \in Campaigns \ {c} : run'[d] = run[d]
  BY StampedRuns DEF Reopen
<1>3. \A i \in Jobs : ~WillSettle(i, c)
  BY <1>1 DEF OneSettler, Settled
<1>4. KindsInPhases'
  BY DEF KindsInPhases, Works
<1>5. \A i \in Jobs, d \in Campaigns : WillSettle(i, d)' =>
          IF d = c THEN i = j ELSE WillSettle(i, d)
  BY <1>3 DEF WillSettle, Works
<1>6. OneSettler'
  BY <1>1, <1>5 DEF OneSettler
<1>7. SettledIsOver'
  BY <1>1, <1>2 DEF SettledIsOver, Settled
<1>8. \A i \in Jobs : jobs'[i] # None
          /\ jobs'[i].kind \in {"sweep", "weekly"} /\ jobs'[i].phase \in {"begin", "plan"}
          => jobs'[i] = jobs[i] /\ jobs[i].camp \in Campaigns \ {c}
  <2> TAKE i \in Jobs
  <2> HAVE /\ jobs'[i] # None
           /\ jobs'[i].kind \in {"sweep", "weekly"} /\ jobs'[i].phase \in {"begin", "plan"}
  <2>1. i # j
    OBVIOUS
  <2>2. jobs'[i] = jobs[i] /\ jobs[i] \in Job
    BY <2>1 DEF Works, TypeOK
  <2>3. jobs[i].camp # c
    BY <1>3, <2>2 DEF WillSettle
  <2> QED
    BY <2>2, <2>3 DEF Job
<1>9. NotYetRun'
  BY <1>1, <1>2, <1>8 DEF NotYetRun
<1> QED
  BY <1>1, <1>2, <1>4, <1>6, <1>7, <1>9

\* A resume that wins the race executes the campaign it reopened.
LEMMA ReopenRunsKeeps == ASSUME LifeInv, NEW j \in Jobs, ReopenRuns(j) PROVE LifeInv'
<1> USE DEF LifeInv
<1>1. /\ jobs[j] # None /\ jobs[j].phase = "reopen" /\ jobs[j].kind = "resume"
      /\ jobs[j] \in Job
  BY DEF ReopenRuns, Is, KindsInPhases, TypeOK
<1> PICK c \in Campaigns : c = Camp(j)
  BY <1>1 DEF Job, Camp
<1> PICK S \in SUBSET Suites : S = jobs[j].suites
  BY <1>1 DEF Job
<1>2. Moves(j, "cells") /\ "cells" \in Phases
  BY <1>1, PhaseMoves DEF ReopenRuns, Phases
<1>3. Works(j, c)
  BY <1>2 DEF Works, Moves, Camp
<1>4. Reopen(c, S)
  BY DEF ReopenRuns
<1>5. /\ KindsInPhases' /\ OneSettler' /\ SettledIsOver' /\ NotYetRun'
      /\ campaign' \in [Campaigns -> {"absent", "running"} \cup Settled]
      /\ run' \in [Campaigns -> [Suites -> {"none", "running"} \cup Settled]]
  BY <1>1, <1>2, <1>3, <1>4, ReopenKeeps DEF Moves
<1>6. \A d \in Campaigns : cancels'[d] # None => Registered(jobs'[cancels'[d]], d)
  BY <1>1, <1>2, MovesRegistered DEF ReopenRuns
<1>7. TypeOK'
  BY <1>3, <1>4, <1>5, <1>6 DEF ReopenRuns, Reopen, TypeOK, Works
<1> QED
  BY <1>5, <1>7

\* A handler starts an executor.
LEMMA StartWorks ==
    ASSUME TypeOK, NEW h \in Handlers, NEW j \in Jobs, NEW kind \in AllKinds,
           NEW c \in Campaigns, NEW S \in SUBSET Suites, NEW U \in SUBSET Units,
           Start(h, j, NewJob(kind, c, S, U))
    PROVE  /\ Works(j, c) /\ jobs[j] = None
           /\ jobs'[j].kind = kind /\ jobs'[j].phase = "begin"
           /\ admitted' \in [Handlers -> Request \cup {None}]
           /\ UNCHANGED <<disabled, cancels, bounds>>
           /\ \A d \in Campaigns : cancels'[d] # None => Registered(jobs'[cancels'[d]], d)
<1> DEFINE job == NewJob(kind, c, S, U)
<1>1. job \in Job /\ job.kind = kind /\ job.camp = c /\ job.phase = "begin"
  BY DEF NewJob, Job
<1>2. jobs[j] = None /\ jobs' = [jobs EXCEPT ![j] = job] /\ UNCHANGED cancels
  BY DEF Start
<1> HIDE DEF job
<1>3. Works(j, c) /\ jobs'[j] = job
  BY <1>1, <1>2, NoneIsNothing DEF TypeOK, Works
<1>4. ASSUME NEW d \in Campaigns, cancels[d] # None
      PROVE  Registered(jobs'[cancels[d]], d)
  <2>1. cancels[d] \in Jobs /\ Registered(jobs[cancels[d]], d)
    BY <1>4 DEF TypeOK
  <2>2. cancels[d] # j
    BY <1>2, <2>1 DEF Registered
  <2> QED
    BY <1>3, <2>1, <2>2 DEF Works
<1>5. admitted' \in [Handlers -> Request \cup {None}]
  BY DEF Start, Answer, TypeOK
<1> QED
  BY <1>1, <1>2, <1>3, <1>4, <1>5 DEF Start

\* A request that was admitted is one.
LEMMA AdmittedTyped ==
    ASSUME TypeOK, NEW h \in Handlers, admitted[h] # None
    PROVE  admitted[h] \in Request
  BY DEF TypeOK

\* A campaign is created with an executor, or settled at once without runs.
LEMMA CreateKeeps ==
    ASSUME LifeInv, NEW h \in Handlers, NEW j \in Jobs, NEW c \in Campaigns,
           NEW S \in SUBSET Suites, Create(h, j, c, S)
    PROVE  LifeInv'
<1> USE DEF LifeInv
<1> PICK kind \in AllKinds : kind = admitted[h].kind
  BY AdmittedTyped DEF Create, Request
<1>1. /\ kind \in Fresh /\ campaign[c] = "absent"
      /\ Start(h, j, NewJob(kind, c, S, {})) /\ UNCHANGED result
  BY DEF Create
<1>2. {} \in SUBSET Units
  OBVIOUS
<1>3. /\ Works(j, c) /\ jobs[j] = None
      /\ jobs'[j].kind = kind /\ jobs'[j].phase = "begin"
      /\ admitted' \in [Handlers -> Request \cup {None}]
      /\ UNCHANGED <<disabled, cancels, bounds>>
      /\ \A d \in Campaigns : cancels'[d] # None => Registered(jobs'[cancels'[d]], d)
  BY <1>1, <1>2, StartWorks
<1>4. /\ campaign' \in [Campaigns -> {"absent", "running"} \cup Settled]
      /\ campaign'[c] = "running"
      /\ \A d \in Campaigns \ {c} : campaign'[d] = campaign[d]
  BY DEF Create, TypeOK
<1>5. /\ run' \in [Campaigns -> [Suites -> {"none", "running"} \cup Settled]]
      /\ \A d \in Campaigns \ {c} : run'[d] = run[d]
      /\ kind # "single" => run' = run
  <2>1. CASE kind = "single"
    BY <2>1, StampedRuns DEF Create
  <2>2. CASE kind # "single"
    BY <2>2 DEF Create, TypeOK
  <2> QED
    BY <2>1, <2>2
<1>6. TypeOK'
  BY <1>1, <1>3, <1>4, <1>5 DEF TypeOK, Works
<1>7. KindsInPhases'
  BY <1>3 DEF KindsInPhases, Works
<1>8. \A i \in Jobs : ~WillSettle(i, c)
  BY <1>1 DEF OneSettler
<1>9. \A i \in Jobs, d \in Campaigns : WillSettle(i, d)' =>
          IF d = c THEN i = j ELSE WillSettle(i, d)
  BY <1>3, <1>8 DEF WillSettle, Works
<1>10. OneSettler'
  BY <1>4, <1>9 DEF OneSettler
<1>11. SettledIsOver'
  BY <1>4, <1>5 DEF SettledIsOver, Settled
<1>12. \A d \in Campaigns : campaign'[d] = "absent" => \A s \in Suites : run'[d][s] = "none"
  BY <1>4, <1>5 DEF NotYetRun
<1>13. ASSUME NEW i \in Jobs, jobs'[i] # None,
              jobs'[i].kind \in {"sweep", "weekly"}, jobs'[i].phase \in {"begin", "plan"}
       PROVE  \A s \in Suites : run'[jobs'[i].camp][s] = "none"
  <2>1. CASE i = j
    BY <1>1, <1>3, <1>5, <1>13, <2>1 DEF NotYetRun, Works
  <2>2. CASE i # j
    <3>1. jobs'[i] = jobs[i] /\ jobs[i] \in Job
      BY <1>3, <1>13, <2>2 DEF Works, TypeOK
    <3>2. jobs[i].camp \in Campaigns \ {c}
      BY <1>8, <1>13, <3>1 DEF WillSettle, Job
    <3> QED
      BY <1>5, <1>13, <3>1, <3>2 DEF NotYetRun
  <2> QED
    BY <2>1, <2>2
<1> QED
  BY <1>6, <1>7, <1>10, <1>11, <1>12, <1>13 DEF NotYetRun

\* A campaign whose run cannot be created fails without runs.
LEMMA CreateFailsKeeps ==
    ASSUME LifeInv, NEW h \in Handlers, NEW c \in Campaigns, CreateFails(h, c)
    PROVE  LifeInv'
<1> USE DEF LifeInv
<1>1. /\ campaign' \in [Campaigns -> {"absent", "running"} \cup Settled]
      /\ campaign[c] = "absent" /\ campaign'[c] = "failed"
      /\ \A d \in Campaigns \ {c} : campaign'[d] = campaign[d]
      /\ UNCHANGED <<run, result, disabled, jobs, cancels, bounds>>
  BY DEF CreateFails, TypeOK, Settled
<1>2. TypeOK'
  BY <1>1 DEF CreateFails, Answer, TypeOK, Registered
<1>3. \A i \in Jobs, d \in Campaigns : WillSettle(i, d)' <=> WillSettle(i, d)
  BY <1>1 DEF WillSettle
<1>4. \A i \in Jobs : ~WillSettle(i, c)
  BY <1>1 DEF OneSettler
<1>5. OneSettler'
  BY <1>1, <1>3, <1>4 DEF OneSettler
<1>6. KindsInPhases' /\ SettledIsOver' /\ NotYetRun'
  BY <1>1 DEF KindsInPhases, SettledIsOver, NotYetRun
<1> QED
  BY <1>2, <1>5, <1>6

\* A retry reopens its campaign and starts the executor in one step.
LEMMA RetryKeeps ==
    ASSUME LifeInv, NEW h \in Handlers, NEW j \in Jobs, Retry(h, j) PROVE LifeInv'
<1> USE DEF LifeInv
<1> PICK r \in Request : r = admitted[h]
  BY AdmittedTyped DEF Retry
<1>1. /\ r.kind \in {"retryFailed", "retryUnits"} /\ r.kind \in AllKinds
      /\ {} \in SUBSET Suites /\ r.camp \in Campaigns /\ r.units \in SUBSET Units
  BY DEF Retry, Request
<1>2. ReopenedBy(r) \in SUBSET Suites
  BY <1>1 DEF ReopenedBy, Of, Nulls, SuiteOf, Units, Answered
<1>3. Reopen(r.camp, ReopenedBy(r)) /\ Start(h, j, NewJob(r.kind, r.camp, {}, r.units))
  BY DEF Retry
<1>4. /\ Works(j, r.camp)
      /\ jobs'[j].kind = r.kind /\ jobs'[j].phase = "begin"
      /\ admitted' \in [Handlers -> Request \cup {None}]
      /\ UNCHANGED <<disabled, cancels, bounds>>
      /\ \A d \in Campaigns : cancels'[d] # None => Registered(jobs'[cancels'[d]], d)
  <2> PICK kind \in AllKinds, c \in Campaigns, S \in SUBSET Suites, U \in SUBSET Units :
         /\ kind = r.kind /\ c = r.camp
         /\ Start(h, j, NewJob(kind, c, S, U))
    BY <1>1, <1>3
  <2> HIDE DEF LifeInv
  <2>1. TypeOK
    BY DEF LifeInv
  <2>2. /\ Works(j, c) /\ jobs[j] = None
        /\ jobs'[j].kind = kind /\ jobs'[j].phase = "begin"
        /\ admitted' \in [Handlers -> Request \cup {None}]
        /\ UNCHANGED <<disabled, cancels, bounds>>
        /\ \A d \in Campaigns : cancels'[d] # None => Registered(jobs'[cancels'[d]], d)
    BY <2>1, StartWorks, ZenonT(60)
  <2> QED
    BY <2>2
<1>5. /\ KindsInPhases' /\ OneSettler' /\ SettledIsOver' /\ NotYetRun'
      /\ campaign' \in [Campaigns -> {"absent", "running"} \cup Settled]
      /\ run' \in [Campaigns -> [Suites -> {"none", "running"} \cup Settled]]
  BY <1>1, <1>2, <1>3, <1>4, ReopenKeeps
<1>6. TypeOK'
  BY <1>3, <1>4, <1>5 DEF Reopen, TypeOK, Works
<1> QED
  BY <1>5, <1>6

\* A live retry, and a resume that has not reopened, settle nothing.
LEMMA BystanderKeeps ==
    ASSUME LifeInv, NEW h \in Handlers, NEW j \in Jobs, RetryLive(h, j) \/ Resume(h, j)
    PROVE  LifeInv'
<1> USE DEF LifeInv
<1> PICK r \in Request : r = admitted[h]
  BY AdmittedTyped DEF RetryLive, Resume
<1>1. /\ r.kind \in {"liveRetry", "resume"} /\ r.kind \in AllKinds
      /\ r.camp \in Campaigns /\ r.units \in SUBSET Units
      /\ {} \in SUBSET Suites /\ {} \in SUBSET Units
  BY DEF RetryLive, Resume, Request
<1>2. UNCHANGED <<campaign, run, result>>
  BY DEF RetryLive, Resume, store
<1>3. \/ Start(h, j, NewJob(r.kind, r.camp, {}, r.units))
      \/ Start(h, j, NewJob(r.kind, r.camp, {}, {}))
  BY DEF RetryLive, Resume
<1>4. /\ Works(j, r.camp)
      /\ jobs'[j].kind = r.kind /\ jobs'[j].phase = "begin"
      /\ admitted' \in [Handlers -> Request \cup {None}]
      /\ UNCHANGED <<disabled, cancels, bounds>>
      /\ \A d \in Campaigns : cancels'[d] # None => Registered(jobs'[cancels'[d]], d)
  <2> PICK kind \in AllKinds, c \in Campaigns, S \in SUBSET Suites, U \in SUBSET Units :
         /\ kind = r.kind /\ c = r.camp
         /\ Start(h, j, NewJob(kind, c, S, U))
    BY <1>1, <1>3
  <2> HIDE DEF LifeInv
  <2>1. TypeOK
    BY DEF LifeInv
  <2>2. /\ Works(j, c) /\ jobs[j] = None
        /\ jobs'[j].kind = kind /\ jobs'[j].phase = "begin"
        /\ admitted' \in [Handlers -> Request \cup {None}]
        /\ UNCHANGED <<disabled, cancels, bounds>>
        /\ \A d \in Campaigns : cancels'[d] # None => Registered(jobs'[cancels'[d]], d)
    BY <2>1, StartWorks, ZenonT(60)
  <2> QED
    BY <2>2
<1>5. TypeOK'
  BY <1>2, <1>4 DEF TypeOK, Works
<1>6. \A i \in Jobs, d \in Campaigns : WillSettle(i, d)' => WillSettle(i, d)
  BY <1>1, <1>4 DEF WillSettle, Works
<1>7. OneSettler'
  BY <1>2, <1>6 DEF OneSettler
<1>8. KindsInPhases' /\ SettledIsOver' /\ NotYetRun'
  BY <1>1, <1>2, <1>4 DEF KindsInPhases, SettledIsOver, NotYetRun, Works
<1> QED
  BY <1>5, <1>7, <1>8

\* Steps that touch neither campaigns, runs nor executors.
LEMMA OutsideKeeps ==
    ASSUME LifeInv,
           \/ \E h \in Handlers : Refuse(h)
           \/ \E h \in Handlers, kind \in Kinds, c \in Campaigns, U \in SUBSET Units :
                 Admit(h, kind, c, U)
           \/ \E s \in Suites : DisableCase(s)
           \/ UNCHANGED vars
    PROVE  LifeInv'
<1> USE DEF LifeInv
<1>1. UNCHANGED <<campaign, run, result, jobs, cancels>>
  BY DEF Refuse, Admit, DisableCase, vars, store
<1>2. /\ admitted' \in [Handlers -> Request \cup {None}]
      /\ disabled' \in SUBSET Suites /\ bounds' \in Bounds
  <2>1. CASE \E h \in Handlers : Refuse(h)
    BY <2>1, KeptTyped DEF Refuse, Answer, TypeOK
  <2>2. ASSUME NEW h \in Handlers, NEW kind \in Kinds, NEW c \in Campaigns,
               NEW U \in SUBSET Units, Admit(h, kind, c, U)
        PROVE  <1>2!:
    <3>1. [kind |-> kind, camp |-> c, units |-> U] \in Request
      BY CampaignAssumption DEF Request
    <3>2. bounds' \in Bounds
      BY <2>2, BoundsCount DEF Admit
    <3> QED
      BY <2>2, <3>1, <3>2 DEF Admit, TypeOK
  <2>3. CASE \E s \in Suites : DisableCase(s)
    <3>1. bounds' \in Bounds
      BY <2>3, BoundsCount DEF DisableCase
    <3> QED
      BY <2>3, <3>1 DEF DisableCase, TypeOK
  <2>4. CASE UNCHANGED vars
    BY <2>4, KeptTyped DEF vars, TypeOK
  <2> QED
    BY <2>1, <2>2, <2>3, <2>4
<1>3. TypeOK'
  BY <1>1, <1>2 DEF TypeOK, Bounds, Registered
<1>4. OneSettler'
  BY <1>1 DEF OneSettler, WillSettle
<1>5. KindsInPhases' /\ SettledIsOver' /\ NotYetRun'
  BY <1>1 DEF KindsInPhases, SettledIsOver, NotYetRun
<1> QED
  BY <1>3, <1>4, <1>5

\* What store.Open leaves after a restart: no executor, no running campaign.
LEMMA RestartKeeps == ASSUME LifeInv, Restart PROVE LifeInv'
<1> USE DEF LifeInv
<1>1. bounds' \in Bounds
  BY BoundsCount DEF Restart
<1>2. TypeOK'
  BY <1>1, NoneIsNothing DEF Restart, TypeOK, Bounds, Settled
<1>3. \A j \in Jobs : jobs'[j] = None
  BY DEF Restart
<1>4. KindsInPhases' /\ OneSettler'
  BY <1>3 DEF KindsInPhases, OneSettler, WillSettle
<1>5. SettledIsOver'
  BY DEF Restart, SettledIsOver, TypeOK, Settled
<1>6. NotYetRun'
  BY <1>3 DEF Restart, NotYetRun, TypeOK
<1> QED
  BY <1>2, <1>4, <1>5, <1>6

-----------------------------------------------------------------------------
(* The invariant is inductive *)

\* The invariant holds at the start.
LEMMA InitLife == Init => LifeInv
<1> SUFFICES ASSUME Init PROVE LifeInv
  OBVIOUS
<1>1. TypeOK
  BY CampaignAssumption DEF Init, TypeOK
<1>2. KindsInPhases /\ OneSettler /\ SettledIsOver /\ NotYetRun
  BY DEF Init, KindsInPhases, OneSettler, WillSettle, SettledIsOver, NotYetRun, Settled
<1> QED
  BY <1>1, <1>2 DEF LifeInv

\* Every step of a handler keeps it.
LEMMA HandleKeeps == ASSUME LifeInv, NEW h \in Handlers, Handle(h) PROVE LifeInv'
<1>1. CASE Refuse(h)
  BY <1>1, OutsideKeeps
<1>2. CASE \E c \in Campaigns : CreateFails(h, c)
  BY <1>2, CreateFailsKeeps
<1>3. CASE \E j \in Jobs : \E c \in Campaigns, S \in SUBSET Suites : Create(h, j, c, S)
  BY <1>3, CreateKeeps
<1>4. CASE \E j \in Jobs : Retry(h, j)
  BY <1>4, RetryKeeps
<1>5. CASE \E j \in Jobs : RetryLive(h, j) \/ Resume(h, j)
  BY <1>5, BystanderKeeps
<1> QED
  BY <1>1, <1>2, <1>3, <1>4, <1>5 DEF Handle

\* Every step of an executor keeps it.
LEMMA ExecuteKeeps == ASSUME LifeInv, NEW j \in Jobs, Execute(j) PROVE LifeInv'
<1>1. CASE Register(j) \/ PrepareFails(j)
  BY <1>1, RegisterKeeps, PrepareFailsKeeps
<1>2. CASE PlanEmpty(j) \/ PlanRetryFailed(j) \/ PlanRetryUnits(j)
  BY <1>2, EmptyKeeps, RetryFailedPlanKeeps, RetryUnitsPlanKeeps
<1>3. CASE \E S, broken \in SUBSET Suites, reachable \in SUBSET Models :
              PlanFresh(j, S, broken, reachable)
  BY <1>3, PlanFreshKeeps
<1>4. CASE \E reachable \in SUBSET Models : PlanResume(j, reachable)
  BY <1>4, ResumePlanKeeps
<1>5. CASE LeaveGate(j) \/ ReopenRuns(j) \/ LoseRace(j)
  BY <1>5, GateKeeps, ReopenRunsKeeps, LoseRaceKeeps
<1>6. CASE \E u \in Units :
              \/ Take(j, u) \/ Skip(j, u) \/ Offer(j, u) \/ Owe(j, u)
              \/ \E row \in {"null", "scored"} : Examine(j, u, row) \/ Land(j, u, row)
  <2> PICK u \in Units :
              \/ Take(j, u) \/ Skip(j, u) \/ Offer(j, u) \/ Owe(j, u)
              \/ \E row \in {"null", "scored"} : Examine(j, u, row) \/ Land(j, u, row)
    BY <1>6
  <2>1. CASE Take(j, u) \/ Skip(j, u) \/ Offer(j, u) \/ Owe(j, u)
    <3> "null" \in {"null", "scored"}
      OBVIOUS
    <3> QED
      BY <2>1, CellKeeps
  <2>2. CASE \E row \in {"null", "scored"} : Examine(j, u, row) \/ Land(j, u, row)
    BY <2>2, CellKeeps
  <2> QED
    BY <2>1, <2>2
<1>7. CASE Tail(j) \/ Settle(j) \/ Unregister(j)
  BY <1>7, TailKeeps, SettleKeeps, UnregisterKeeps
<1> QED
  BY <1>1, <1>2, <1>3, <1>4, <1>5, <1>6, <1>7 DEF Execute

\* Every step keeps it.
LEMMA NextLife == LifeInv /\ [Next]_vars => LifeInv'
<1> SUFFICES ASSUME LifeInv, [Next]_vars PROVE LifeInv'
  OBVIOUS
<1>1. CASE \E h \in Handlers : Handle(h)
  BY <1>1, HandleKeeps
<1>2. CASE \/ \E h \in Handlers, kind \in Kinds, c \in Campaigns, U \in SUBSET Units :
                 Admit(h, kind, c, U)
           \/ \E s \in Suites : DisableCase(s)
           \/ UNCHANGED vars
  BY <1>2, OutsideKeeps
<1>3. CASE \E j \in Jobs : Execute(j) \/ GuardStops(j)
  BY <1>3, ExecuteKeeps, GuardKeeps
<1>4. CASE \E c \in Campaigns : Cancel(c)
  BY <1>4, CancelKeeps
<1>5. CASE Restart
  BY <1>5, RestartKeeps
<1> QED
  BY <1>1, <1>2, <1>3, <1>4, <1>5 DEF Next

\* Everything the theorems below need holds in every state.
LEMMA LifeHolds == Spec => []LifeInv
  BY InitLife, NextLife, PTL DEF Spec

\* The campaigns, runs, results, executors and cancel entries stay well typed,
\* and an entry of Evaluator.cancels names a live executor of its campaign.
THEOREM CampaignTypes == Spec => []TypeOK
<1>1. LifeInv => TypeOK
  BY DEF LifeInv
<1> QED
  BY <1>1, LifeHolds, PTL

\* However handlers, the weekly worker, retries and resumes race, each campaign
\* has at most one executor on its way to SettleCampaign, and is running until
\* that executor is done: the reopens' WHERE clause is lock enough.
THEOREM CampaignsHaveOneSettler == Spec => []OneSettler
<1>1. LifeInv => OneSettler
  BY DEF LifeInv
<1> QED
  BY <1>1, LifeHolds, PTL

\* No run of a settled campaign is running, whatever executors still do: a
\* settle, a reopen and the restart's cleanup move both together.
THEOREM SettledCampaignsAreOver == Spec => []SettledIsOver
<1>1. LifeInv => SettledIsOver
  BY DEF LifeInv
<1> QED
  BY <1>1, LifeHolds, PTL

-----------------------------------------------------------------------------
(* What one step leaves of the other executors and their runs *)

\* WillSettle, of the executor alone.
Settles(job) ==
    /\ job.kind # "liveRetry"
    /\ job.phase \in {"begin", "plan", "gate", "cells", "settle"}
          \/ (job.kind = "single" /\ job.phase = "unregister")
    /\ job.kind = "resume" => job.phase \in {"cells", "settle"}

\* Executor j, or the handler that starts it, leaves the other executors as they are,
\* and the runs of every running campaign that is not its own to settle.
Frame(j) ==
    /\ \A i \in Jobs \ {j} : jobs'[i] = jobs[i]
    /\ \A i \in Jobs \ {j} :
          jobs[i] # None /\ Settles(jobs[i]) => run'[jobs[i].camp] = run[jobs[i].camp]
    /\ \A c \in Campaigns :
          campaign[c] = "running" /\ (\A i \in Jobs : ~WillSettle(i, c)) => run'[c] = run[c]

\* Runs are written by the one executor that settles their campaign, or by the
\* handler or the resume that finds the campaign over, or not there yet.
LEMMA FrameFacts ==
    ASSUME LifeInv, NEW j \in Jobs, NEW c \in Campaigns,
           \A i \in Jobs \ {j} : jobs'[i] = jobs[i],
           \A d \in Campaigns \ {c} : run'[d] = run[d],
           run' = run \/ campaign[c] # "running" \/ WillSettle(j, c)
    PROVE  Frame(j)
<1>1. ASSUME NEW i \in Jobs \ {j}, jobs[i] # None, Settles(jobs[i])
      PROVE  run'[jobs[i].camp] = run[jobs[i].camp]
  <2>1. jobs[i].camp \in Campaigns /\ WillSettle(i, jobs[i].camp)
    BY <1>1 DEF LifeInv, TypeOK, Job, WillSettle, Settles
  <2>2. CASE jobs[i].camp = c
    <3>1. campaign[c] = "running" /\ ~WillSettle(j, c)
      BY <2>1, <2>2 DEF LifeInv, OneSettler
    <3> QED
      BY <3>1
  <2>3. CASE jobs[i].camp # c
    BY <2>1, <2>3
  <2> QED
    BY <2>2, <2>3
<1>2. ASSUME NEW d \in Campaigns, campaign[d] = "running", \A i \in Jobs : ~WillSettle(i, d)
      PROVE  run'[d] = run[d]
  BY <1>2
<1> QED
  BY <1>1, <1>2 DEF Frame

\* An executor that has a new value has left the others alone.
LEMMA BecomesFrame ==
    ASSUME LifeInv, NEW j \in Jobs, jobs[j] # None, NEW job, Becomes(j, job), OwnRuns(j)
    PROVE  Frame(j) /\ jobs'[j] = job
<1>1. (\A i \in Jobs \ {j} : jobs'[i] = jobs[i]) /\ jobs'[j] = job
  BY DEF Becomes, LifeInv, TypeOK
<1>2. jobs[j].camp \in Campaigns
  BY DEF LifeInv, TypeOK, Job
<1>3. \A d \in Campaigns \ {jobs[j].camp} : run'[d] = run[d]
  BY DEF OwnRuns
<1> QED
  BY <1>1, <1>2, <1>3, FrameFacts DEF OwnRuns

\* A handler that starts an executor for a campaign that is over or not there yet.
LEMMA StartFrame ==
    ASSUME LifeInv, NEW h \in Handlers, NEW j \in Jobs, NEW job, Start(h, j, job),
           NEW c \in Campaigns, \A d \in Campaigns \ {c} : run'[d] = run[d],
           run' = run \/ campaign[c] # "running"
    PROVE  Frame(j) /\ jobs'[j] = job /\ jobs[j] = None
<1>1. (\A i \in Jobs \ {j} : jobs'[i] = jobs[i]) /\ jobs'[j] = job /\ jobs[j] = None
  BY DEF Start, LifeInv, TypeOK
<1> QED
  BY <1>1, FrameFacts

-----------------------------------------------------------------------------
(* Cells that were dropped *)

\* The executors of which a run that drops a cell is failed by the tail.
Dropping == Fresh \cup {"retryFailed"}

\* On its way from the tail to the settle.
Ending(job) ==
    job.phase = "settle" \/ (job.kind = "single" /\ job.phase = "unregister")

\* A run is not finished before its last cell is taken and ends, and a cell that is
\* left over at the end has a failed run.
Drops(job, runs) ==
    /\ job.phase \in {"begin", "plan", "gate", "reopen"} => job.finished = {}
    /\ job.kind \in Dropping =>
          /\ job.phase \in {"begin", "plan"} =>
                job.todo = {} /\ job.exam = {} /\ job.marked = {}
          /\ job.finished \subseteq job.marked
          /\ \A u \in job.todo \cup job.exam : SuiteOf(u) \notin job.marked
          /\ \A u \in job.todo : SuiteOf(u) \in job.suites
          /\ Ending(job) => \A u \in job.todo : runs[SuiteOf(u)] = "failed"

DropsInv == \A j \in Jobs : jobs[j] # None => Drops(jobs[j], run[jobs[j].camp])

\* The runs matter at the end only.
LEMMA DropsRuns ==
    ASSUME NEW job, NEW r, NEW q, Drops(job, r),
           job.kind \in Dropping /\ Ending(job) => \A u \in job.todo : q[SuiteOf(u)] = "failed"
    PROVE  Drops(job, q)
BY DEF Drops

\* The executors a step leaves alone drop no cell by it.
LEMMA DropsKept ==
    ASSUME LifeInv, DropsInv, NEW j \in Jobs, Frame(j),
           jobs'[j] # None => Drops(jobs'[j], run'[jobs'[j].camp])
    PROVE  DropsInv'
<1> SUFFICES ASSUME NEW i \in Jobs, jobs'[i] # None
             PROVE  Drops(jobs'[i], run'[jobs'[i].camp])
  BY DEF DropsInv
<1>1. CASE i = j
  BY <1>1
<1>2. CASE i # j
  <2>1. jobs'[i] = jobs[i] /\ Drops(jobs[i], run[jobs[i].camp])
    BY <1>2 DEF Frame, DropsInv
  <2>2. CASE Settles(jobs[i])
    <3>1. run'[jobs[i].camp] = run[jobs[i].camp]
      BY <1>2, <2>1, <2>2 DEF Frame
    <3> QED
      BY <2>1, <3>1
  <2>3. CASE ~Settles(jobs[i])
    <3>1. ~(jobs[i].kind \in Dropping /\ Ending(jobs[i]))
      BY <2>3 DEF Settles, Ending, Dropping, Fresh
    <3> QED
      BY <2>1, <3>1, DropsRuns
  <2> QED
    BY <2>2, <2>3
<1> QED
  BY <1>1, <1>2

\* An executor that only moves on to another phase.
LEMMA PhaseDrops ==
    ASSUME NEW job \in Job, NEW p \in Phases, NEW r, Drops(job, r),
           p \in {"begin", "plan", "gate", "reopen"} =>
              job.phase \in {"begin", "plan", "gate", "reopen"},
           p \in {"begin", "plan"} => job.phase \in {"begin", "plan"},
           job.kind \in Dropping /\ Ending([job EXCEPT !.phase = p]) =>
              job.phase = "begin" \/ Ending(job)
    PROVE  Drops([job EXCEPT !.phase = p], r)
<1> DEFINE new == [job EXCEPT !.phase = p]
<1>1. /\ new.phase = p /\ new.kind = job.kind /\ new.finished = job.finished
      /\ new.todo = job.todo /\ new.exam = job.exam /\ new.marked = job.marked
      /\ new.suites = job.suites
  BY DEF Job
<1> HIDE DEF new
<1>2. Ending(new) /\ job.kind \in Dropping => \A u \in job.todo : r[SuiteOf(u)] = "failed"
  BY DEF Drops, new
<1> QED
  BY <1>1, <1>2 DEF Drops, new

\* An executor that plans has no cell left over.
LEMMA PlannedDrops ==
    ASSUME NEW job \in Job, NEW p \in Phases \ {"begin", "plan"}, NEW U \in SUBSET Units,
           NEW r, NEW q, Drops(job, r), job.phase = "plan",
           p \in {"settle", "unregister"} => U = {}
    PROVE  Drops([job EXCEPT !.phase = p, !.todo = U, !.suites = Of(U)], q)
<1> DEFINE new == [job EXCEPT !.phase = p, !.todo = U, !.suites = Of(U)]
<1>1. /\ new.phase = p /\ new.kind = job.kind /\ new.finished = job.finished
      /\ new.todo = U /\ new.exam = job.exam /\ new.marked = job.marked
      /\ new.suites = Of(U)
  BY DEF Job
<1> HIDE DEF new
<1>2. \A u \in U : SuiteOf(u) \in Of(U)
  BY DEF Of
<1>3. Ending(new) => U = {}
  BY <1>1 DEF Ending
<1>4. job.finished = {} /\ (job.kind \in Dropping => job.exam = {} /\ job.marked = {})
  BY DEF Drops
<1> QED
  BY <1>1, <1>2, <1>3, <1>4 DEF Drops, new

\* An executor writes runs of its own campaign: the one it settles, or one that is over.
LEMMA OwnFrame ==
    ASSUME LifeInv, NEW j \in Jobs, jobs[j] # None, NEW job, Becomes(j, job),
           \/ UNCHANGED run
           \/ /\ Settles(jobs[j]) \/ campaign[Camp(j)] # "running"
              /\ \E f : run' = [run EXCEPT ![Camp(j)] = f]
    PROVE  /\ Frame(j) /\ jobs'[j] = job
           /\ \A d \in Campaigns \ {Camp(j)} : run'[d] = run[d]
<1>1. (\A i \in Jobs \ {j} : jobs'[i] = jobs[i]) /\ jobs'[j] = job
  BY DEF Becomes, LifeInv, TypeOK
<1>2. Camp(j) \in Campaigns
  BY DEF LifeInv, TypeOK, Job, Camp
<1>3. \A d \in Campaigns \ {Camp(j)} : run'[d] = run[d]
  BY DEF LifeInv, TypeOK
<1>4. Settles(jobs[j]) => WillSettle(j, Camp(j))
  BY DEF Settles, WillSettle, Camp
<1>5. Frame(j)
  BY <1>1, <1>2, <1>3, <1>4, FrameFacts
<1> QED
  BY <1>1, <1>3, <1>5

\* A cell that moves from the queue to its examination, or leaves either.
LEMMA CellDrops ==
    ASSUME NEW job, NEW new, NEW r, NEW q, Drops(job, r), job.phase = "cells",
           new.phase = job.phase, new.kind = job.kind, new.suites = job.suites,
           new.marked = job.marked, new.finished = job.finished,
           new.todo \subseteq job.todo, new.exam \subseteq job.todo \cup job.exam
    PROVE  Drops(new, q)
<1>1. ~Ending(new)
  BY DEF Ending
<1>2. ASSUME new.kind \in Dropping
      PROVE  /\ new.finished \subseteq new.marked
             /\ \A u \in new.todo \cup new.exam : SuiteOf(u) \notin new.marked
             /\ \A u \in new.todo : SuiteOf(u) \in new.suites
  BY <1>2 DEF Drops
<1> QED
  BY <1>1, <1>2 DEF Drops

\* The cells of a run are marked done when the last of them ends.
LEMMA MarkedDrops ==
    ASSUME NEW job \in Job, NEW s \in Suites, NEW r, Drops(job, r), job.phase = "cells"
    PROVE  Drops(Marked(job, s), r)
<1> DEFINE new == [job EXCEPT !.marked = @ \cup {s}]
<1>1. CASE ~Marks(job, s)
  BY <1>1 DEF Marked
<1>2. CASE Marks(job, s)
  <2>1. /\ new.phase = job.phase /\ new.kind = job.kind /\ new.finished = job.finished
        /\ new.todo = job.todo /\ new.exam = job.exam /\ new.suites = job.suites
        /\ new.marked = job.marked \cup {s}
    BY DEF Job
  <2>2. Marked(job, s) = new
    BY <1>2 DEF Marked
  <2> HIDE DEF new
  <2>3. ~Ending(new)
    BY <2>1 DEF Ending
  <2>4. ASSUME job.kind \in Dropping
        PROVE  \A u \in job.todo \cup job.exam : SuiteOf(u) # s
    BY <1>2, <2>4 DEF Marks, Dropping, Fresh, ReAnswers
  <2>5. Drops(new, r)
    BY <2>1, <2>3, <2>4 DEF Drops
  <2> QED
    BY <2>2, <2>5
<1> QED
  BY <1>1, <1>2

\* What a cell or a vote of suite s makes of its executor.
Ended(job, s) == IF EndsRun(job, s) THEN [job EXCEPT !.finished = @ \cup {s}] ELSE job

\* A cell or a vote is accounted for: the executor alone changes, and one run at most.
LEMMA StepFrame ==
    ASSUME LifeInv, NEW j \in Jobs, jobs[j] # None, jobs[j].phase = "cells",
           NEW s \in Suites, NEW job \in Job, job.kind = jobs[j].kind,
           job.camp = jobs[j].camp, Step(j, job, s)
    PROVE  Frame(j) /\ jobs'[j] = Ended(job, s)
<1>1. Becomes(j, Ended(job, s))
  BY DEF Step, Ended
<1>2. job.kind # "liveRetry" => Settles(jobs[j])
  BY DEF Settles
<1>3. \/ UNCHANGED run
      \/ job.kind # "liveRetry" /\ \E f : run' = [run EXCEPT ![Camp(j)] = f]
  BY DEF Step, Stamped, Camp
<1> QED
  BY <1>1, <1>2, <1>3, OwnFrame

\* A run finishes only once its cells are marked done.
LEMMA EndedDrops ==
    ASSUME NEW job \in Job, NEW s \in Suites, NEW r, NEW q, Drops(job, r), job.phase = "cells"
    PROVE  Drops(Ended(job, s), q)
<1> DEFINE new == [job EXCEPT !.finished = @ \cup {s}]
<1>1. Drops(job, q)
  BY CellDrops
<1>2. CASE EndsRun(job, s)
  <2>1. /\ new.phase = job.phase /\ new.kind = job.kind /\ new.suites = job.suites
        /\ new.todo = job.todo /\ new.exam = job.exam /\ new.marked = job.marked
        /\ new.finished = job.finished \cup {s}
    BY DEF Job
  <2>2. s \in job.marked /\ Ended(job, s) = new
    BY <1>2 DEF EndsRun, Ended
  <2> HIDE DEF new
  <2>3. ~Ending(new)
    BY <2>1 DEF Ending
  <2>4. Drops(new, q)
    BY <1>1, <2>1, <2>2, <2>3 DEF Drops
  <2> QED
    BY <2>2, <2>4
<1>3. CASE ~EndsRun(job, s)
  BY <1>1, <1>3 DEF Ended
<1> QED
  BY <1>2, <1>3

\* A cell or a vote changes these sets of its executor, and marks none.
Cell(job, new) ==
    /\ new \in Job /\ new.kind = job.kind /\ new.camp = job.camp /\ new.phase = "cells"
    /\ new.suites = job.suites /\ new.marked = job.marked /\ new.finished = job.finished
    /\ new.todo \subseteq job.todo /\ new.exam \subseteq job.todo \cup job.exam

\* It is taken, or ends and may mark and end its run.
LEMMA CellShape ==
    ASSUME LifeInv, NEW j \in Jobs, NEW u \in Units, NEW row \in {"null", "scored"},
           \/ Take(j, u) \/ Skip(j, u) \/ Offer(j, u) \/ Owe(j, u)
           \/ Examine(j, u, row) \/ Land(j, u, row)
    PROVE  /\ jobs[j] # None /\ jobs[j].phase = "cells" /\ SuiteOf(u) \in Suites
           /\ \E new : /\ Cell(jobs[j], new)
                       /\ \/ Becomes(j, new) /\ UNCHANGED run
                          \/ Step(j, new, SuiteOf(u))
                          \/ Step(j, Marked(new, SuiteOf(u)), SuiteOf(u))
<1> DEFINE taken   == [jobs[j] EXCEPT !.todo = @ \ {u}, !.exam = @ \cup {u}]
           skipped == [jobs[j] EXCEPT !.todo = @ \ {u}]
           written == [jobs[j] EXCEPT !.exam = @ \ {u}]
           offered == [jobs[j] EXCEPT !.exam = @ \ {u}, !.judging = @ \cup {u}]
           owing   == [jobs[j] EXCEPT !.exam = @ \ {u}, !.owed = @ \cup {u}]
           landed  == [jobs[j] EXCEPT !.judging = @ \ {u}]
           s == SuiteOf(u)
<1>1. jobs[j] # None /\ jobs[j].phase = "cells" /\ jobs[j] \in Job
  BY DEF Take, Skip, Offer, Owe, Examine, Land, Is, LifeInv, TypeOK
<1>2. s \in Suites
  BY DEF SuiteOf, Units
<1>3. u \in jobs[j].todo => Cell(jobs[j], taken)
  BY <1>1 DEF Job, Cell
<1>4. Cell(jobs[j], skipped) /\ Cell(jobs[j], written)
  BY <1>1 DEF Job, Cell
<1>5. Cell(jobs[j], offered)
  BY <1>1 DEF Job, Cell
<1>6. Cell(jobs[j], owing) /\ Cell(jobs[j], landed)
  BY <1>1 DEF Job, Cell
<1>7. \/ u \in jobs[j].todo /\ Becomes(j, taken) /\ UNCHANGED run
      \/ Step(j, Marked(skipped, s), s) \/ Step(j, Marked(offered, s), s)
      \/ Step(j, Marked(owing, s), s) \/ Step(j, Marked(written, s), s)
      \/ Step(j, landed, s)
  BY DEF Take, Skip, Offer, Owe, Examine, Land
<1> HIDE DEF taken, skipped, written, offered, owing, landed, s
<1>8. \E new : /\ Cell(jobs[j], new)
               /\ \/ Becomes(j, new) /\ UNCHANGED run
                  \/ Step(j, new, s) \/ Step(j, Marked(new, s), s)
  BY <1>3, <1>4, <1>5, <1>6, <1>7
<1> QED
  BY <1>1, <1>2, <1>8 DEF s

\* No step of a cell drops one.
LEMMA CellKeepsDrops ==
    ASSUME LifeInv, DropsInv, NEW j \in Jobs, NEW u \in Units, NEW row \in {"null", "scored"},
           \/ Take(j, u) \/ Skip(j, u) \/ Offer(j, u) \/ Owe(j, u)
           \/ Examine(j, u, row) \/ Land(j, u, row)
    PROVE  DropsInv'
<1> DEFINE s == SuiteOf(u)
           r == run[jobs[j].camp]
<1>1. jobs[j] # None /\ jobs[j].phase = "cells" /\ s \in Suites
  BY CellShape
<1> PICK new : /\ Cell(jobs[j], new)
               /\ \/ Becomes(j, new) /\ UNCHANGED run
                  \/ Step(j, new, s) \/ Step(j, Marked(new, s), s)
  BY CellShape
<1> HIDE DEF s, r
<1>2. Drops(jobs[j], r)
  BY <1>1 DEF DropsInv, r
<1>3. \A q : Drops(new, q)
  BY <1>1, <1>2, CellDrops DEF Cell
<1>4. new \in Job /\ new.phase = "cells" /\ new.kind = jobs[j].kind /\ new.camp = jobs[j].camp
  BY DEF Cell
<1>5. CASE Becomes(j, new) /\ UNCHANGED run
  <2>1. Frame(j) /\ jobs'[j] = new
    BY <1>1, <1>5, OwnFrame
  <2> QED
    BY <1>3, <2>1, DropsKept
<1>6. CASE Step(j, new, s)
  <2>1. Frame(j) /\ jobs'[j] = Ended(new, s)
    BY <1>1, <1>4, <1>6, StepFrame
  <2>2. \A q : Drops(Ended(new, s), q)
    BY <1>1, <1>3, <1>4, EndedDrops
  <2> QED
    BY <2>1, <2>2, DropsKept
<1>7. CASE Step(j, Marked(new, s), s)
  <2> DEFINE m == Marked(new, s)
  <2>1. m \in Job /\ m.phase = "cells" /\ m.kind = jobs[j].kind /\ m.camp = jobs[j].camp
    BY <1>1, <1>4, MarkedJob
  <2>2. Drops(m, r)
    BY <1>1, <1>3, <1>4, MarkedDrops
  <2> HIDE DEF m
  <2>3. Frame(j) /\ jobs'[j] = Ended(m, s)
    BY <1>1, <1>7, <2>1, StepFrame DEF m
  <2>4. \A q : Drops(Ended(m, s), q)
    BY <1>1, <2>1, <2>2, EndedDrops
  <2> QED
    BY <2>3, <2>4, DropsKept
<1> QED
  BY <1>5, <1>6, <1>7

\* Neither does an executor that is registered, waits at the gate, or loses the race.
LEMMA MoveKeepsDrops ==
    ASSUME LifeInv, DropsInv, NEW j \in Jobs,
           Register(j) \/ LeaveGate(j) \/ ReopenRuns(j) \/ LoseRace(j)
    PROVE  DropsInv'
<1> DEFINE r == run[jobs[j].camp]
           new(q) == [jobs[j] EXCEPT !.phase = q]
<1>1. jobs[j] # None /\ jobs[j] \in Job
  BY DEF Register, LeaveGate, ReopenRuns, LoseRace, Is, LifeInv, TypeOK
<1>2. \E q \in Phases :
         /\ Becomes(j, new(q))
         /\ \/ q = "plan" /\ jobs[j].phase = "begin"
            \/ q = "cells" /\ jobs[j].phase \in {"gate", "reopen"}
            \/ q = "unregister" /\ jobs[j].phase = "reopen"
         /\ \/ UNCHANGED run
            \/ campaign[Camp(j)] # "running" /\ \E f : run' = [run EXCEPT ![Camp(j)] = f]
  <2>1. CASE Register(j)
    BY <2>1 DEF Register, Is, store, Phases
  <2>2. CASE LeaveGate(j)
    BY <2>2 DEF LeaveGate, Is, store, Phases
  <2>3. CASE ReopenRuns(j)
    BY <2>3 DEF ReopenRuns, Is, Reopen, Stamped, Settled, Phases
  <2>4. CASE LoseRace(j)
    BY <2>4 DEF LoseRace, Is, store, Phases
  <2> QED
    BY <2>1, <2>2, <2>3, <2>4
<1> PICK q \in Phases :
         /\ Becomes(j, new(q))
         /\ \/ q = "plan" /\ jobs[j].phase = "begin"
            \/ q = "cells" /\ jobs[j].phase \in {"gate", "reopen"}
            \/ q = "unregister" /\ jobs[j].phase = "reopen"
         /\ \/ UNCHANGED run
            \/ campaign[Camp(j)] # "running" /\ \E f : run' = [run EXCEPT ![Camp(j)] = f]
  BY <1>2
<1>3. Drops(jobs[j], run'[jobs[j].camp])
  <2>1. Drops(jobs[j], r)
    BY <1>1 DEF DropsInv
  <2>2. ~(jobs[j].kind \in Dropping /\ Ending(jobs[j]))
    BY DEF Ending
  <2> QED
    BY <2>1, <2>2, DropsRuns
<1>4. new(q).camp = jobs[j].camp /\ new(q).kind = jobs[j].kind /\ new(q).phase = q
  BY <1>1 DEF Job
<1>5. jobs[j].kind \in Dropping /\ Ending(new(q)) => jobs[j].phase = "begin" \/ Ending(jobs[j])
  <2>1. jobs[j].phase = "reopen" => jobs[j].kind = "resume"
    BY <1>1 DEF LifeInv, KindsInPhases
  <2> QED
    BY <1>4, <2>1 DEF Ending, Dropping, Fresh
<1>6. Drops(new(q), run'[jobs[j].camp])
  BY <1>1, <1>3, <1>5, PhaseDrops
<1> HIDE DEF new
<1>7. Frame(j) /\ jobs'[j] = new(q)
  BY <1>1, OwnFrame
<1> QED
  BY <1>4, <1>6, <1>7, DropsKept

\* A single run whose preparation fails has no cell yet.
LEMMA PrepareFailsDrops ==
    ASSUME LifeInv, DropsInv, NEW j \in Jobs, PrepareFails(j)
    PROVE  DropsInv'
<1> DEFINE new == [jobs[j] EXCEPT !.phase = "settle"]
<1>1. /\ jobs[j] # None /\ jobs[j] \in Job /\ jobs[j].kind = "single"
      /\ jobs[j].phase = "begin" /\ Becomes(j, new)
      /\ \E f : run' = [run EXCEPT ![Camp(j)] = f]
  BY DEF PrepareFails, Is, LifeInv, TypeOK, Stamped
<1>2. Drops(jobs[j], run[jobs[j].camp])
  BY <1>1 DEF DropsInv
<1>3. jobs[j].kind \in Dropping /\ jobs[j].todo = {}
  BY <1>1, <1>2 DEF Drops, Dropping, Fresh
<1>4. Drops(jobs[j], run'[jobs[j].camp])
  BY <1>2, <1>3, DropsRuns
<1>5. Drops(new, run'[jobs[j].camp])
  BY <1>1, <1>4, PhaseDrops DEF Phases
<1>6. new.camp = jobs[j].camp
  BY <1>1 DEF Job
<1>7. Settles(jobs[j])
  BY <1>1 DEF Settles
<1> HIDE DEF new
<1>8. Frame(j) /\ jobs'[j] = new
  BY <1>1, <1>7, OwnFrame
<1> QED
  BY <1>5, <1>6, <1>8, DropsKept

\* A plan: where it leads, the cells and the runs it writes.
PlansTo(j, p, U) ==
    /\ jobs[j] # None /\ jobs[j].phase = "plan" /\ Planned(j, p, U)
    /\ p \in Phases \ {"begin", "plan"} /\ U \in SUBSET Units
    /\ p \in {"settle", "unregister"} => U = {}
    /\ \/ UNCHANGED run
       \/ Settles(jobs[j]) /\ \E f : run' = [run EXCEPT ![Camp(j)] = f]

\* The plan of a batch is one.
LEMMA FreshPlans ==
    ASSUME LifeInv, NEW j \in Jobs, NEW S \in SUBSET Suites, NEW broken \in SUBSET Suites,
           NEW reachable \in SUBSET Models, PlanFresh(j, S, broken, reachable)
    PROVE  \E p, U : PlansTo(j, p, U)
<1> DEFINE kind == jobs[j].kind
           feed == IF jobs[j].canceled THEN Models ELSE reachable
           fed == S # {} /\ feed # {}
           p == CASE fed -> IF kind = "weekly" THEN "cells" ELSE "gate"
                  [] ~fed -> IF kind = "single" THEN "unregister" ELSE "settle"
           U == IF fed THEN S \X feed ELSE {}
<1>1. jobs[j] # None /\ jobs[j].phase = "plan" /\ kind \in Fresh
  BY DEF PlanFresh, Is
<1>2. Planned(j, p, U)
  BY DEF PlanFresh
<1>3. U \in SUBSET Units
  BY DEF Units
<1>4. Settles(jobs[j])
  BY <1>1 DEF Settles, Fresh
<1>5. \E f : run' = [run EXCEPT ![Camp(j)] = f]
  BY DEF PlanFresh
<1>6. p \in Phases \ {"begin", "plan"} /\ (p \in {"settle", "unregister"} => U = {})
  <2>1. CASE fed
    <3>1. p \in {"cells", "gate"}
      BY <2>1
    <3> QED
      BY <3>1 DEF Phases
  <2>2. CASE ~fed
    <3>1. p \in {"unregister", "settle"} /\ U = {}
      BY <2>2
    <3> QED
      BY <3>1 DEF Phases
  <2> QED
    BY <2>1, <2>2
<1> HIDE DEF p, U
<1> QED
  BY <1>1, <1>2, <1>3, <1>4, <1>5, <1>6 DEF PlansTo

\* So are the plans of a retry and of a resume.
LEMMA OtherPlans ==
    ASSUME LifeInv, NEW j \in Jobs, NEW reachable \in SUBSET Models,
           PlanRetryFailed(j) \/ PlanRetryUnits(j) \/ PlanResume(j, reachable)
    PROVE  \E p, U : PlansTo(j, p, U)
<1> DEFINE c == Camp(j)
           enabled == {u \in Nulls(c) : SuiteOf(u) \notin disabled}
           wanted  == {u \in jobs[j].units : SuiteOf(u) \in Runs(c) \ disabled}
           missing == {u \in Units : /\ SuiteOf(u) \in Runs(c) \ disabled
                                     /\ u[2] \in reachable /\ result[c][u] # "scored"}
<1>1. jobs[j] # None /\ jobs[j].phase = "plan" /\ jobs[j] \in Job
  BY DEF PlanRetryFailed, PlanRetryUnits, PlanResume, Is, LifeInv, TypeOK
<1>2. enabled \in SUBSET Units /\ missing \in SUBSET Units
  BY DEF Nulls
<1>3. wanted \in SUBSET Units
  BY <1>1 DEF Job
<1>4. CASE PlanRetryFailed(j)
  <2>1. Planned(j, "cells", enabled)
    BY <1>4 DEF PlanRetryFailed
  <2>2. Settles(jobs[j])
    BY <1>1, <1>4 DEF PlanRetryFailed, Settles
  <2>3. \E f : run' = [run EXCEPT ![Camp(j)] = f]
    BY <1>4 DEF PlanRetryFailed, Stamped
  <2> HIDE DEF enabled
  <2> QED
    BY <1>1, <1>2, <2>1, <2>2, <2>3 DEF PlansTo, Phases
<1>5. CASE PlanRetryUnits(j)
  <2>1. Planned(j, "cells", wanted) /\ UNCHANGED run
    BY <1>5 DEF PlanRetryUnits, store
  <2> HIDE DEF wanted
  <2> QED
    BY <1>1, <1>3, <2>1 DEF PlansTo, Phases
<1>6. CASE PlanResume(j, reachable)
  <2>1. Planned(j, IF missing = {} THEN "unregister" ELSE "reopen", missing) /\ UNCHANGED run
    BY <1>6 DEF PlanResume, store
  <2> HIDE DEF missing
  <2> QED
    BY <1>1, <1>2, <2>1 DEF PlansTo, Phases
<1> QED
  BY <1>4, <1>5, <1>6

\* No plan leaves a cell over.
LEMMA PlanKeepsDrops ==
    ASSUME LifeInv, DropsInv, NEW j \in Jobs, NEW p, NEW U, PlansTo(j, p, U)
    PROVE  DropsInv'
<1> DEFINE new == [jobs[j] EXCEPT !.phase = p, !.todo = U, !.suites = Of(U)]
<1>1. jobs[j] # None /\ jobs[j] \in Job /\ jobs[j].phase = "plan" /\ Becomes(j, new)
  BY DEF PlansTo, Planned, LifeInv, TypeOK
<1>2. Drops(jobs[j], run[jobs[j].camp])
  BY <1>1 DEF DropsInv
<1>3. \A q : Drops(new, q)
  BY <1>1, <1>2, PlannedDrops DEF PlansTo
<1> HIDE DEF new
<1>4. Frame(j) /\ jobs'[j] = new
  BY <1>1, OwnFrame DEF PlansTo
<1> QED
  BY <1>3, <1>4, DropsKept

\* The tail fails the runs of the cells that are left.
LEMMA TailDrops == ASSUME LifeInv, DropsInv, NEW j \in Jobs, Tail(j) PROVE DropsInv'
<1> DEFINE p == IF jobs[j].kind \in {"single", "liveRetry"} THEN "unregister" ELSE "settle"
           new == [jobs[j] EXCEPT !.phase = p]
           c == jobs[j].camp
<1>1. /\ jobs[j] # None /\ jobs[j] \in Job /\ jobs[j].phase = "cells"
      /\ jobs[j].exam = {} /\ Becomes(j, new) /\ c \in Campaigns
  BY DEF Tail, Is, LifeInv, TypeOK, Job
<1>2. /\ new.phase \in {"unregister", "settle"} /\ new.kind = jobs[j].kind /\ new.camp = c
      /\ new.finished = jobs[j].finished /\ new.todo = jobs[j].todo /\ new.exam = jobs[j].exam
      /\ new.marked = jobs[j].marked /\ new.suites = jobs[j].suites
  BY <1>1 DEF Job
<1>3. run' = IF jobs[j].kind = "liveRetry" THEN run
             ELSE Stamped(c, jobs[j].suites \ jobs[j].finished, "failed")
  BY DEF Tail
<1>4. Drops(jobs[j], run[c])
  BY <1>1 DEF DropsInv
<1> HIDE DEF new
<1>5. Frame(j) /\ jobs'[j] = new
  <2>1. jobs[j].kind # "liveRetry" => Settles(jobs[j])
    BY <1>1 DEF Settles
  <2>2. UNCHANGED run \/ \E f : run' = [run EXCEPT ![Camp(j)] = f]
    BY <1>3 DEF Stamped, Camp
  <2>3. jobs[j].kind = "liveRetry" => UNCHANGED run
    BY <1>3
  <2> QED
    BY <1>1, <2>1, <2>2, <2>3, OwnFrame
<1>6. ASSUME jobs[j].kind \in Dropping, NEW u \in jobs[j].todo
      PROVE  run'[c][SuiteOf(u)] = "failed"
  <2>1. run' = Stamped(c, jobs[j].suites \ jobs[j].finished, "failed")
    BY <1>3, <1>6 DEF Dropping, Fresh
  <2>2. SuiteOf(u) \in jobs[j].suites \ jobs[j].finished
    BY <1>4, <1>6 DEF Drops
  <2>3. SuiteOf(u) \in Suites
    BY <1>1, <2>2 DEF Job
  <2>4. TypeOK /\ c \in Campaigns
    BY <1>1 DEF LifeInv
  <2> HIDE DEF c
  <2> QED
    BY <2>1, <2>2, <2>3, <2>4 DEF Stamped, TypeOK
<1>7. Drops(new, run'[c])
  BY <1>2, <1>4, <1>6 DEF Drops
<1> QED
  BY <1>2, <1>5, <1>7, DropsKept

\* An executor that settles, or is unregistered: no cell is dropped after the tail.
LEMMA SettleDrops ==
    ASSUME LifeInv, DropsInv, NEW j \in Jobs, Settle(j) \/ Unregister(j)
    PROVE  DropsInv'
<1> DEFINE p == IF jobs[j].phase = "settle" THEN "unregister" ELSE "settle"
           new == [jobs[j] EXCEPT !.phase = p]
           c == jobs[j].camp
<1>1. jobs[j] # None /\ jobs[j] \in Job /\ jobs[j].phase \in {"settle", "unregister"}
  BY DEF Settle, Unregister, Is, LifeInv, TypeOK
<1>2. UNCHANGED run /\ (Becomes(j, None) \/ Becomes(j, new))
  BY DEF Settle, Unregister, Is, store
<1>3. Becomes(j, new) =>
         \/ jobs[j].kind # "single" /\ p = "unregister"
         \/ jobs[j].kind = "single" /\ p = "settle" /\ jobs[j].phase = "unregister"
         \/ new = None
  BY <1>1 DEF Settle, Unregister, Is, Becomes, LifeInv, TypeOK
<1>4. new \in Job /\ new.phase = p /\ new.kind = jobs[j].kind /\ new.camp = c
  BY <1>1 DEF Job
<1>5. Drops(jobs[j], run[c])
  BY <1>1 DEF DropsInv
<1>6. CASE Becomes(j, None)
  <2>1. Frame(j) /\ jobs'[j] = None
    BY <1>1, <1>2, <1>6, OwnFrame
  <2> QED
    BY <2>1, DropsKept
<1>7. CASE Becomes(j, new)
  <2>1. p \in {"settle", "unregister"}
    OBVIOUS
  <2>2. jobs[j].kind \in Dropping /\ Ending(new) => Ending(jobs[j])
    BY <1>3, <1>4, <1>7, NoneIsNothing DEF Ending
  <2>3. Drops(new, run[c])
    BY <1>1, <1>5, <2>1, <2>2, PhaseDrops DEF Phases
  <2> HIDE DEF new
  <2>4. Frame(j) /\ jobs'[j] = new
    BY <1>1, <1>2, <1>7, OwnFrame
  <2> QED
    BY <1>2, <1>4, <2>3, <2>4, DropsKept
<1> QED
  BY <1>2, <1>6, <1>7

\* An empty batch has no cell.
LEMMA EmptyDrops == ASSUME LifeInv, DropsInv, NEW j \in Jobs, PlanEmpty(j) PROVE DropsInv'
<1> DEFINE new == [jobs[j] EXCEPT !.phase = "unregister"]
<1>1. /\ jobs[j] # None /\ jobs[j] \in Job /\ jobs[j].kind \in {"sweep", "weekly"}
      /\ jobs[j].phase = "plan" /\ Becomes(j, new) /\ UNCHANGED run
  BY DEF PlanEmpty, Is, LifeInv, TypeOK
<1>2. Drops(jobs[j], run[jobs[j].camp])
  BY <1>1 DEF DropsInv
<1>3. new.camp = jobs[j].camp /\ new.kind = jobs[j].kind /\ new.phase = "unregister"
  BY <1>1 DEF Job
<1>4. Drops(new, run[jobs[j].camp])
  <2>1. ~Ending(new)
    BY <1>1, <1>3 DEF Ending
  <2> QED
    BY <1>1, <1>2, <2>1, PhaseDrops DEF Phases
<1> HIDE DEF new
<1>5. Frame(j) /\ jobs'[j] = new
  BY <1>1, OwnFrame
<1> QED
  BY <1>1, <1>3, <1>4, <1>5, DropsKept

\* A cancel or a guard leaves the sets of the executor as they are.
LEMMA CanceledDrops ==
    ASSUME NEW job \in Job, NEW r, Drops(job, r)
    PROVE  Drops([job EXCEPT !.canceled = TRUE], r)
<1> DEFINE new == [job EXCEPT !.canceled = TRUE]
<1>1. /\ new.phase = job.phase /\ new.kind = job.kind /\ new.finished = job.finished
      /\ new.todo = job.todo /\ new.exam = job.exam /\ new.marked = job.marked
      /\ new.suites = job.suites
  BY DEF Job
<1> HIDE DEF new
<1>2. Ending(new) => Ending(job)
  BY <1>1 DEF Ending
<1> QED
  BY <1>1, <1>2 DEF Drops, new

\* So a cancel drops no cell by itself.
LEMMA CancelDrops ==
    ASSUME LifeInv, DropsInv, NEW j \in Jobs, jobs[j] # None, UNCHANGED run,
           Becomes(j, [jobs[j] EXCEPT !.canceled = TRUE])
    PROVE  DropsInv'
<1> DEFINE new == [jobs[j] EXCEPT !.canceled = TRUE]
<1>1. jobs[j] \in Job
  BY DEF LifeInv, TypeOK
<1>2. Drops(new, run[jobs[j].camp])
  BY <1>1, CanceledDrops DEF DropsInv
<1>3. new.camp = jobs[j].camp
  BY <1>1 DEF Job
<1>4. Becomes(j, new)
  OBVIOUS
<1> HIDE DEF new
<1>5. Frame(j) /\ jobs'[j] = new
  BY <1>4, OwnFrame
<1> QED
  BY <1>2, <1>3, <1>5, DropsKept

\* A new executor has no cell.
LEMMA NewDrops ==
    ASSUME NEW kind, NEW c, NEW S, NEW U, NEW r
    PROVE  Drops(NewJob(kind, c, S, U), r) /\ NewJob(kind, c, S, U).camp = c
BY DEF Drops, NewJob, Ending

\* What the handlers that start an executor leave of the others.
LEMMA StartsFrame ==
    ASSUME LifeInv, NEW h \in Handlers, NEW j \in Jobs,
           \/ \E c \in Campaigns, S \in SUBSET Suites : Create(h, j, c, S)
           \/ Retry(h, j) \/ RetryLive(h, j) \/ Resume(h, j)
    PROVE  \E kind, c, S, U : Frame(j) /\ jobs'[j] = NewJob(kind, c, S, U)
<1>1. ASSUME NEW c \in Campaigns, NEW S \in SUBSET Suites, Create(h, j, c, S)
      PROVE  Frame(j) /\ jobs'[j] = NewJob(admitted[h].kind, c, S, {})
  <2> DEFINE job == NewJob(admitted[h].kind, c, S, {})
  <2>1. Start(h, j, job) /\ campaign[c] # "running"
    BY <1>1 DEF Create
  <2>2. \A d \in Campaigns \ {c} : run'[d] = run[d]
    BY <1>1 DEF Create, Stamped, LifeInv, TypeOK
  <2> HIDE DEF job
  <2>3. Frame(j) /\ jobs'[j] = job
    BY <2>1, <2>2, StartFrame
  <2> QED
    BY <2>3 DEF job
<1>2. ASSUME Retry(h, j)
      PROVE  Frame(j) /\ jobs'[j] = NewJob(admitted[h].kind, admitted[h].camp, {},
                                           admitted[h].units)
  <2> DEFINE r == admitted[h]
             job == NewJob(r.kind, r.camp, {}, r.units)
  <2>1. r # None /\ Reopen(r.camp, ReopenedBy(r)) /\ Start(h, j, job)
    BY <1>2 DEF Retry
  <2>2. r.camp \in Campaigns
    BY <2>1 DEF LifeInv, TypeOK, Request
  <2>3. campaign[r.camp] # "running" /\ \A d \in Campaigns \ {r.camp} : run'[d] = run[d]
    BY <2>1, <2>2 DEF Reopen, Stamped, Settled, LifeInv, TypeOK
  <2> HIDE DEF job, r
  <2>4. Frame(j) /\ jobs'[j] = job
    BY <2>1, <2>2, <2>3, StartFrame
  <2> QED
    BY <2>4 DEF job, r
<1>3. ASSUME NEW U, Start(h, j, NewJob(admitted[h].kind, admitted[h].camp, {}, U)),
             admitted[h] # None, UNCHANGED run
      PROVE  Frame(j) /\ jobs'[j] = NewJob(admitted[h].kind, admitted[h].camp, {}, U)
  <2> DEFINE job == NewJob(admitted[h].kind, admitted[h].camp, {}, U)
  <2>1. admitted[h].camp \in Campaigns
    BY <1>3 DEF LifeInv, TypeOK, Request
  <2>2. Start(h, j, job) /\ UNCHANGED run
    BY <1>3
  <2> HIDE DEF job
  <2>3. Frame(j) /\ jobs'[j] = job
    BY <2>1, <2>2, StartFrame
  <2> QED
    BY <2>3 DEF job
<1>4. CASE Retry(h, j)
  BY <1>2, <1>4
<1>5. CASE RetryLive(h, j) \/ Resume(h, j)
  BY <1>3, <1>5 DEF RetryLive, Resume, store
<1>6. CASE \E c \in Campaigns, S \in SUBSET Suites : Create(h, j, c, S)
  BY <1>1, <1>6
<1> QED
  BY <1>4, <1>5, <1>6

\* No step of a handler drops a cell.
LEMMA HandleDrops ==
    ASSUME LifeInv, DropsInv, NEW h \in Handlers, Handle(h)
    PROVE  DropsInv'
<1>1. CASE Refuse(h) \/ \E c \in Campaigns : CreateFails(h, c)
  BY <1>1 DEF Refuse, CreateFails, store, DropsInv
<1>2. CASE \E j \in Jobs :
              \/ \E c \in Campaigns, S \in SUBSET Suites : Create(h, j, c, S)
              \/ Retry(h, j) \/ RetryLive(h, j) \/ Resume(h, j)
  <2> PICK j \in Jobs :
              \/ \E c \in Campaigns, S \in SUBSET Suites : Create(h, j, c, S)
              \/ Retry(h, j) \/ RetryLive(h, j) \/ Resume(h, j)
    BY <1>2
  <2>1. PICK kind, c, S, U : Frame(j) /\ jobs'[j] = NewJob(kind, c, S, U)
    BY StartsFrame
  <2>2. \A r : Drops(NewJob(kind, c, S, U), r)
    BY NewDrops
  <2> QED
    BY <2>1, <2>2, DropsKept
<1> QED
  BY <1>1, <1>2 DEF Handle

\* Neither does one of an executor.
LEMMA ExecuteDrops ==
    ASSUME LifeInv, DropsInv, NEW j \in Jobs, Execute(j)
    PROVE  DropsInv'
<1>1. CASE Register(j) \/ LeaveGate(j) \/ ReopenRuns(j) \/ LoseRace(j)
  BY <1>1, MoveKeepsDrops
<1>2. CASE PrepareFails(j) \/ PlanEmpty(j)
  BY <1>2, PrepareFailsDrops, EmptyDrops
<1>3. CASE \E S, broken \in SUBSET Suites, reachable \in SUBSET Models :
              PlanFresh(j, S, broken, reachable)
  BY <1>3, FreshPlans, PlanKeepsDrops
<1>4. CASE PlanRetryFailed(j) \/ PlanRetryUnits(j)
           \/ \E reachable \in SUBSET Models : PlanResume(j, reachable)
  <2>1. {} \in SUBSET Models
    OBVIOUS
  <2> QED
    BY <1>4, <2>1, OtherPlans, PlanKeepsDrops
<1>5. CASE \E u \in Units :
              \/ Take(j, u) \/ Skip(j, u) \/ Offer(j, u) \/ Owe(j, u)
              \/ \E row \in {"null", "scored"} : Examine(j, u, row) \/ Land(j, u, row)
  <2> PICK u \in Units :
              \/ Take(j, u) \/ Skip(j, u) \/ Offer(j, u) \/ Owe(j, u)
              \/ \E row \in {"null", "scored"} : Examine(j, u, row) \/ Land(j, u, row)
    BY <1>5
  <2>1. PICK row \in {"null", "scored"} :
              \/ Take(j, u) \/ Skip(j, u) \/ Offer(j, u) \/ Owe(j, u)
              \/ Examine(j, u, row) \/ Land(j, u, row)
    OBVIOUS
  <2> QED
    BY <2>1, CellKeepsDrops
<1>6. CASE Tail(j) \/ Settle(j) \/ Unregister(j)
  BY <1>6, TailDrops, SettleDrops
<1> QED
  BY <1>1, <1>2, <1>3, <1>4, <1>5, <1>6 DEF Execute

\* No step but the settle of a batch that was stopped leaves a cell over.
LEMMA NextDrops == LifeInv /\ DropsInv /\ [Next]_vars => DropsInv'
<1> SUFFICES ASSUME LifeInv, DropsInv, [Next]_vars PROVE DropsInv'
  OBVIOUS
<1>1. CASE \E h \in Handlers : Handle(h)
  BY <1>1, HandleDrops
<1>2. CASE UNCHANGED <<jobs, run>>
  BY <1>2 DEF DropsInv
<1>3. CASE \E j \in Jobs : Execute(j)
  BY <1>3, ExecuteDrops
<1>4. CASE \E j \in Jobs : GuardStops(j)
  BY <1>4, CancelDrops DEF GuardStops, Is, store
<1>5. CASE \E c \in Campaigns : Cancel(c)
  <2> PICK c \in Campaigns : Cancel(c)
    BY <1>5
  <2> DEFINE j == cancels[c]
  <2>1. j \in Jobs /\ jobs[j] # None /\ UNCHANGED run
    BY DEF Cancel, LifeInv, TypeOK, Registered, store
  <2>2. Becomes(j, [jobs[j] EXCEPT !.canceled = TRUE])
    BY <2>1 DEF Cancel, Becomes
  <2> HIDE DEF j
  <2> QED
    BY <2>1, <2>2, CancelDrops
<1>6. CASE Restart
  BY <1>6 DEF Restart, DropsInv
<1>7. CASE \/ \E h \in Handlers, kind \in Kinds, c \in Campaigns, U \in SUBSET Units :
                 Admit(h, kind, c, U)
           \/ \E s \in Suites : DisableCase(s)
           \/ UNCHANGED vars
  BY <1>7, <1>2 DEF Admit, DisableCase, vars, store
<1> QED
  BY <1>1, <1>3, <1>4, <1>5, <1>6, <1>7 DEF Next

\* There is no executor at the start.
LEMMA InitDrops == Init => DropsInv
BY DEF Init, DropsInv

\* The settle of a campaign with a cell left over finds a failed run.
LEMMA LeftOverFails ==
    ASSUME LifeInv, DropsInv, NEW j \in Jobs, Settle(j), jobs[j].todo # {},
           jobs[j].kind \in Dropping
    PROVE  campaign'[Camp(j)] # "done"
<1>1. /\ jobs[j] # None /\ jobs[j] \in Job /\ jobs[j].phase = "settle" /\ Camp(j) \in Campaigns
  BY DEF Settle, Is, LifeInv, TypeOK, Job, Camp
<1>2. PICK u \in jobs[j].todo : TRUE
  OBVIOUS
<1>3. SuiteOf(u) \in Suites
  BY <1>1, <1>2 DEF Job, Units, SuiteOf
<1>4. run[Camp(j)][SuiteOf(u)] = "failed"
  BY <1>1, <1>2 DEF DropsInv, Drops, Ending, Camp
<1>5. WillSettle(j, Camp(j))
  BY <1>1 DEF WillSettle, Camp, LifeInv, KindsInPhases, Dropping, Fresh
<1>6. campaign[Camp(j)] = "running"
  BY <1>1, <1>5 DEF LifeInv, OneSettler
<1>7. SettledStatus(Camp(j)) \in {"running", "failed"}
  BY <1>3, <1>4, <1>6 DEF SettledStatus
<1>8. campaign'[Camp(j)] = SettledStatus(Camp(j))
  BY <1>1 DEF Settle, LifeInv, TypeOK
<1> QED
  BY <1>7, <1>8

\* A batch or a retry of failures that was stopped with a cell untaken never settles
\* "done": whatever votes were in flight, no run of such a cell was finished, the tail
\* fails it, and SettleCampaign, which the campaign's one executor reaches while the
\* campaign is still running, finds that failed run.
THEOREM StoppedBatchesFail == Spec => DroppedCellsFail
<1>1. LifeInv /\ DropsInv /\ [Next]_vars =>
         [\A j \in Jobs :
             /\ Settle(j) /\ jobs[j].todo # {}
             /\ jobs[j].kind \in Fresh \cup {"retryFailed"}
             => campaign'[Camp(j)] # "done"]_vars
  BY LeftOverFails DEF Dropping
<1>2. Spec => [](LifeInv /\ DropsInv)
  BY InitLife, NextLife, InitDrops, NextDrops, PTL DEF Spec
<1> QED
  BY <1>1, <1>2, PTL DEF Spec, DroppedCellsFail

-----------------------------------------------------------------------------
(* The executors of a running campaign *)

\* Each running run of the campaign an executor settles is one it will end: one its
\* plan will find, by the rows that are null or the units that were asked for, or one
\* of the suites it works on.  Otherwise the run's case is disabled.
Covered(job, runs, rows, off) ==
    \A s \in Suites : runs[s] = "running" =>
        \/ s \in off
        \/ job.phase \in {"begin", "plan"} /\ job.kind = "single" /\ s \in job.suites
        \/ job.phase \in {"begin", "plan"} /\ job.kind = "retryFailed"
           /\ \E u \in Units : rows[u] = "null" /\ SuiteOf(u) = s
        \/ job.phase \in {"begin", "plan"} /\ job.kind = "retryUnits" /\ s \in Of(job.units)
        \/ job.phase \in {"gate", "cells"} /\ s \in job.suites \ job.finished

Covers ==
    \A j \in Jobs : jobs[j] # None /\ Settles(jobs[j]) =>
        Covered(jobs[j], run[jobs[j].camp], result[jobs[j].camp], disabled)

\* Executors are of the kinds that are started.
KindsGiven ==
    /\ \A j \in Jobs : jobs[j] # None => jobs[j].kind \in Kinds
    /\ \A h \in Handlers : admitted[h] # None => admitted[h].kind \in Kinds

OwnedInv == Covers /\ KindsGiven /\ RunningIsOwned

\* No live re-answer runs beside a retry of the failures, whose plan reads the rows that
\* a re-answer deletes and writes again.
Apart == ~({"liveRetry", "retryFailed"} \subseteq Kinds)

\* A step leaves the rows another executor has yet to plan from.
RowsFrame(j) ==
    \A i \in Jobs \ {j} :
        jobs[i] # None /\ Settles(jobs[i]) /\ jobs[i].kind = "retryFailed" =>
            result'[jobs[i].camp] = result[jobs[i].camp]

\* After its step executor j covers its runs.
CoversItself(j) ==
    jobs'[j] # None /\ Settles(jobs'[j]) =>
        Covered(jobs'[j], run'[jobs'[j].camp], result'[jobs'[j].camp], disabled)

\* A campaign that executor j settled, or that was not running, has j or waits for no one.
KeepsOwned(j) ==
    \A c \in Campaigns :
        /\ campaign'[c] = "running"
        /\ campaign[c] # "running" \/ (jobs[j] # None /\ jobs[j].camp = c /\ Settles(jobs[j]))
        => \/ jobs'[j] # None /\ jobs'[j].camp = c /\ Settles(jobs'[j])
           \/ \E s \in disabled : run'[c][s] = "running"

\* The executors that are not j still cover their runs.
LEMMA CoversKept ==
    ASSUME LifeInv, Covers, NEW j \in Jobs, Frame(j), RowsFrame(j), CoversItself(j),
           UNCHANGED disabled
    PROVE  Covers'
<1> SUFFICES ASSUME NEW i \in Jobs, jobs'[i] # None, Settles(jobs'[i])
             PROVE  Covered(jobs'[i], run'[jobs'[i].camp], result'[jobs'[i].camp], disabled)
  BY DEF Covers, Settles, Covered
<1>1. CASE i = j
  BY <1>1 DEF CoversItself
<1>2. CASE i # j
  <2> DEFINE job == jobs[i]
             c == jobs[i].camp
  <2>1. jobs'[i] = job /\ run'[c] = run[c] /\ job # None /\ Settles(job)
    BY <1>2 DEF Frame
  <2>2. Covered(job, run[c], result[c], disabled)
    BY <2>1 DEF Covers
  <2>3. job.kind = "retryFailed" => result'[c] = result[c]
    BY <1>2, <2>1 DEF RowsFrame
  <2>4. Covered(job, run[c], result'[c], disabled)
    <3>1. CASE job.kind = "retryFailed"
      BY <2>2, <2>3, <3>1
    <3>2. CASE job.kind # "retryFailed"
      BY <2>2, <3>2 DEF Covered
    <3> QED
      BY <3>1, <3>2
  <2> QED
    BY <2>1, <2>4
<1> QED
  BY <1>1, <1>2

\* WillSettle is a matter of the executor alone.
LEMMA SettlesIsWillSettle ==
    /\ \A j \in Jobs, c \in Campaigns :
          WillSettle(j, c) <=> jobs[j] # None /\ jobs[j].camp = c /\ Settles(jobs[j])
    /\ \A j \in Jobs, c \in Campaigns :
          WillSettle(j, c)' <=> jobs'[j] # None /\ jobs'[j].camp = c /\ Settles(jobs'[j])
BY DEF WillSettle, Settles

\* A running campaign keeps its executor.
LEMMA RunningKept ==
    ASSUME LifeInv, RunningIsOwned, NEW j \in Jobs, Frame(j), KeepsOwned(j),
           UNCHANGED disabled
    PROVE  RunningIsOwned'
<1> SUFFICES ASSUME NEW c \in Campaigns, campaign'[c] = "running"
             PROVE  \/ \E i \in Jobs : WillSettle(i, c)'
                    \/ \E s \in disabled : run'[c][s] = "running"
  BY DEF RunningIsOwned
<1>1. CASE campaign[c] # "running" \/ WillSettle(j, c)
  BY <1>1, SettlesIsWillSettle DEF KeepsOwned
<1>2. CASE campaign[c] = "running" /\ \E i \in Jobs \ {j} : WillSettle(i, c)
  <2> PICK i \in Jobs \ {j} : WillSettle(i, c)
    BY <1>2
  <2>1. jobs'[i] = jobs[i]
    BY DEF Frame
  <2>2. WillSettle(i, c)'
    BY <2>1, SettlesIsWillSettle
  <2> QED
    BY <2>2
<1>3. CASE campaign[c] = "running" /\ \A i \in Jobs : ~WillSettle(i, c)
  <2>1. run'[c] = run[c]
    BY <1>3 DEF Frame
  <2> QED
    BY <1>3, <2>1 DEF RunningIsOwned
<1> QED
  BY <1>1, <1>2, <1>3

\* What is left to show of a step of executor j.
LEMMA OwnedKept ==
    ASSUME LifeInv, OwnedInv, NEW j \in Jobs, Frame(j), RowsFrame(j), CoversItself(j),
           KeepsOwned(j), KindsGiven', UNCHANGED disabled
    PROVE  OwnedInv'
BY CoversKept, RunningKept DEF OwnedInv

\* The same of one that moves on within its campaign.
LEMMA OwnedMoves ==
    ASSUME LifeInv, OwnedInv, NEW j \in Jobs, jobs[j] # None, Frame(j), RowsFrame(j),
           NEW job, jobs'[j] = job, job # None, job.kind = jobs[j].kind, job.camp = jobs[j].camp,
           Settles(jobs[j]) => Settles(job),
           Settles(job) => Covered(job, run'[job.camp], result'[job.camp], disabled),
           UNCHANGED <<campaign, disabled, admitted>>
    PROVE  OwnedInv'
<1>1. CoversItself(j)
  BY DEF CoversItself
<1>2. KeepsOwned(j)
  BY DEF KeepsOwned
<1>3. KindsGiven'
  BY DEF OwnedInv, KindsGiven, Frame
<1> QED
  BY <1>1, <1>2, <1>3, OwnedKept

\* An executor that executes cells writes rows of a campaign it settles, or is a
\* re-answer of one that executes.
LEMMA RowsKept ==
    ASSUME LifeInv, OwnedInv, Apart, NEW j \in Jobs, jobs[j] # None, jobs[j].phase = "cells",
           \A d \in Campaigns \ {jobs[j].camp} : result'[d] = result[d]
    PROVE  RowsFrame(j)
<1> SUFFICES ASSUME NEW i \in Jobs \ {j}, jobs[i] # None, Settles(jobs[i]),
                    jobs[i].kind = "retryFailed", jobs[i].camp = jobs[j].camp
             PROVE  FALSE
  BY DEF RowsFrame, LifeInv, TypeOK, Job
<1> DEFINE c == jobs[j].camp
<1>1. c \in Campaigns
  BY DEF LifeInv, TypeOK, Job
<1>2. WillSettle(i, c)
  BY <1>1, SettlesIsWillSettle
<1>3. ~WillSettle(j, c)
  BY <1>1, <1>2 DEF LifeInv, OneSettler
<1>4. jobs[j].kind = "liveRetry"
  BY <1>1, <1>3 DEF WillSettle
<1>5. jobs[i].kind \in Kinds /\ jobs[j].kind \in Kinds
  BY DEF OwnedInv, KindsGiven
<1> QED
  BY <1>4, <1>5 DEF Apart

\* A step that writes no row.
LEMMA RowsSame == ASSUME NEW j \in Jobs, UNCHANGED result PROVE RowsFrame(j)
BY DEF RowsFrame

\* Its registration leaves an executor what it had, and so does the end of the gate.
LEMMA MoveOwned ==
    ASSUME LifeInv, DropsInv, OwnedInv, NEW j \in Jobs,
           Register(j) \/ LeaveGate(j) \/ LoseRace(j)
    PROVE  OwnedInv'
<1> DEFINE new(q) == [jobs[j] EXCEPT !.phase = q]
           c == jobs[j].camp
<1>1. /\ jobs[j] # None /\ jobs[j] \in Job
      /\ UNCHANGED <<campaign, run, result, disabled, admitted>>
  BY DEF Register, LeaveGate, LoseRace, Is, LifeInv, TypeOK, store
<1>2. \E q \in Phases :
         /\ Becomes(j, new(q))
         /\ \/ q = "plan" /\ jobs[j].phase = "begin"
            \/ q = "cells" /\ jobs[j].phase = "gate"
            \/ q = "unregister" /\ jobs[j].phase = "reopen"
  BY DEF Register, LeaveGate, LoseRace, Is, Phases
<1> PICK q \in Phases :
         /\ Becomes(j, new(q))
         /\ \/ q = "plan" /\ jobs[j].phase = "begin"
            \/ q = "cells" /\ jobs[j].phase = "gate"
            \/ q = "unregister" /\ jobs[j].phase = "reopen"
  BY <1>2
<1> DEFINE job == new(q)
<1>3. /\ job.camp = c /\ job.kind = jobs[j].kind /\ job.phase = q /\ job.suites = jobs[j].suites
      /\ job.units = jobs[j].units /\ job.finished = jobs[j].finished /\ job \in Job
  BY <1>1 DEF Job, Phases
<1>4. Becomes(j, job)
  OBVIOUS
<1> HIDE DEF job, new
<1>5. Frame(j) /\ jobs'[j] = job
  BY <1>1, <1>4, OwnFrame
<1>6. jobs[j].phase = "gate" => jobs[j].kind # "resume"
  BY <1>1 DEF LifeInv, KindsInPhases, Fresh
<1>7. jobs[j].phase = "reopen" => jobs[j].kind = "resume"
  BY <1>1 DEF LifeInv, KindsInPhases
<1>8. Settles(jobs[j]) <=> Settles(job)
  BY <1>3, <1>6, <1>7 DEF Settles
<1>9. Settles(job) => Covered(jobs[j], run[c], result[c], disabled)
  BY <1>1, <1>8 DEF OwnedInv, Covers
<1>10. Settles(job) => Covered(job, run[c], result[c], disabled)
  BY <1>3, <1>7, <1>9 DEF Covered, Settles
<1>11. RowsFrame(j)
  BY <1>1, RowsSame
<1>12. job # None
  BY <1>3, NoneIsNothing
<1> QED
  BY <1>1, <1>3, <1>5, <1>8, <1>10, <1>11, <1>12, OwnedMoves

\* A run that cannot be prepared was the only one of its campaign.
LEMMA PrepareFailsOwned ==
    ASSUME LifeInv, OwnedInv, NEW j \in Jobs, PrepareFails(j)
    PROVE  OwnedInv'
<1> DEFINE job == [jobs[j] EXCEPT !.phase = "settle"]
           c == jobs[j].camp
<1>1. /\ jobs[j] # None /\ jobs[j] \in Job /\ jobs[j].kind = "single"
      /\ jobs[j].phase = "begin" /\ Becomes(j, job) /\ c \in Campaigns
      /\ run' = Stamped(c, jobs[j].suites, "failed")
      /\ UNCHANGED <<campaign, result, disabled, admitted>>
  BY DEF PrepareFails, Is, LifeInv, TypeOK, Job, Camp
<1>2. job.camp = c /\ job.kind = "single" /\ job.phase = "settle" /\ job \in Job
  BY <1>1 DEF Job
<1> HIDE DEF job
<1>3. Settles(jobs[j]) /\ Settles(job)
  BY <1>1, <1>2 DEF Settles
<1>4. \E f : run' = [run EXCEPT ![Camp(j)] = f]
  BY <1>1 DEF Stamped, Camp
<1>5. Frame(j) /\ jobs'[j] = job
  BY <1>1, <1>3, <1>4, OwnFrame
<1>6. Covered(jobs[j], run[c], result[c], disabled)
  BY <1>1, <1>3 DEF OwnedInv, Covers
<1>7. \A s \in Suites : run'[c][s] = IF s \in jobs[j].suites THEN "failed" ELSE run[c][s]
  BY <1>1 DEF Stamped, LifeInv, TypeOK
<1> HIDE DEF c
<1>8. Covered(job, run'[c], result'[c], disabled)
  BY <1>1, <1>6, <1>7 DEF Covered
<1>9. RowsFrame(j) /\ job # None
  BY <1>1, <1>2, RowsSame, NoneIsNothing
<1> QED
  BY <1>1, <1>2, <1>3, <1>5, <1>8, <1>9, OwnedMoves DEF c

\* The plan of a batch covers the runs it creates.
LEMMA FreshOwned ==
    ASSUME LifeInv, DropsInv, OwnedInv, NEW j \in Jobs, NEW S \in SUBSET Suites,
           NEW broken \in SUBSET Suites, NEW reachable \in SUBSET Models,
           PlanFresh(j, S, broken, reachable)
    PROVE  OwnedInv'
<1> DEFINE kind == jobs[j].kind
           c == jobs[j].camp
           feed == IF jobs[j].canceled THEN Models ELSE reachable
           fed == S # {} /\ feed # {}
           p == CASE fed -> IF kind = "weekly" THEN "cells" ELSE "gate"
                  [] ~fed -> IF kind = "single" THEN "unregister" ELSE "settle"
           U == IF fed THEN S \X feed ELSE {}
           job == [jobs[j] EXCEPT !.phase = p, !.todo = U, !.suites = Of(U)]
<1>1. /\ jobs[j] # None /\ jobs[j] \in Job /\ jobs[j].phase = "plan" /\ kind \in Fresh
      /\ c \in Campaigns /\ (kind = "single" => S = jobs[j].suites)
      /\ UNCHANGED <<campaign, result, disabled, admitted>>
  BY DEF PlanFresh, Is, LifeInv, TypeOK, Job, Camp
<1>2. Becomes(j, job)
  BY DEF PlanFresh, Planned
<1>3. job.phase = p /\ job.kind = kind /\ job.camp = c /\ job.suites = Of(U)
      /\ job.finished = jobs[j].finished
  BY <1>1 DEF Job
<1>4. p \in {"cells", "gate", "settle"} \/ (p = "unregister" /\ kind = "single")
  OBVIOUS
<1>5. ASSUME fed PROVE p \in {"cells", "gate"} /\ Of(U) = S
  <2>1. p \in {"cells", "gate"} /\ U = S \X feed
    BY <1>5
  <2>2. PICK m \in feed : TRUE
    BY <1>5
  <2> HIDE DEF U, p, feed
  <2>3. \A s \in S : <<s, m>> \in U /\ SuiteOf(<<s, m>>) = s
    BY <2>1 DEF SuiteOf
  <2>4. \A u \in U : SuiteOf(u) \in S
    BY <2>1 DEF SuiteOf
  <2> QED
    BY <2>1, <2>3, <2>4 DEF Of
<1>6. \A s \in Suites : run'[c][s] = "running" =>
         \/ s \in S /\ fed
         \/ s \notin S /\ run[c][s] = "running"
  BY <1>1 DEF PlanFresh, Camp, LifeInv, TypeOK
<1>7. \E f : run' = [run EXCEPT ![Camp(j)] = f]
  BY DEF PlanFresh
<1>8. job # None
  <2>1. Becomes(j, job) /\ TypeOK
    BY <1>2 DEF LifeInv
  <2>2. PICK q, V : PlansTo(j, q, V)
    BY FreshPlans
  <2>3. q \in Phases /\ V \in SUBSET Units /\ Planned(j, q, V) /\ jobs[j] # None
    BY <2>2 DEF PlansTo
  <2>4. Moves(j, q)
    BY <2>1, <2>3, PlannedMoves
  <2>5. jobs'[j] = job
    BY <2>1 DEF Becomes, TypeOK
  <2> QED
    BY <2>4, <2>5 DEF Moves
<1> HIDE DEF job, p, U, feed
<1>9. Settles(jobs[j]) /\ Settles(job)
  BY <1>1, <1>3, <1>4 DEF Settles, Fresh
<1>10. Frame(j) /\ jobs'[j] = job
  BY <1>1, <1>2, <1>7, <1>9, OwnFrame
<1>11. jobs[j].finished = {}
  BY <1>1 DEF DropsInv, Drops
<1>12. \A s \in Suites : run[c][s] = "running" =>
         s \in disabled \/ (kind = "single" /\ s \in jobs[j].suites)
  <2>1. Covered(jobs[j], run[c], result[c], disabled)
    BY <1>1, <1>9 DEF OwnedInv, Covers
  <2> QED
    BY <1>1, <2>1 DEF Covered, Fresh
<1>13. \A s \in Suites : run'[c][s] = "running" => s \in disabled \/ (s \in S /\ fed)
  BY <1>1, <1>6, <1>12
<1> HIDE DEF fed, c
<1>14. Covered(job, run'[c], result'[c], disabled)
  BY <1>3, <1>5, <1>11, <1>13 DEF Covered
<1>15. RowsFrame(j)
  BY <1>1, RowsSame
<1> QED
  BY <1>1, <1>3, <1>8, <1>9, <1>10, <1>14, <1>15, OwnedMoves DEF c

\* The plan of a retry covers the runs that were reopened for it.
LEMMA RetryOwned ==
    ASSUME LifeInv, DropsInv, OwnedInv, NEW j \in Jobs, NEW reachable \in SUBSET Models,
           PlanRetryFailed(j) \/ PlanRetryUnits(j) \/ PlanResume(j, reachable)
    PROVE  OwnedInv'
<1> DEFINE c == jobs[j].camp
           enabled == {u \in Nulls(c) : SuiteOf(u) \notin disabled}
           wanted  == {u \in jobs[j].units : SuiteOf(u) \in Runs(c) \ disabled}
<1>1. /\ jobs[j] # None /\ jobs[j].phase = "plan" /\ jobs[j] \in Job /\ c \in Campaigns
      /\ UNCHANGED <<campaign, result, disabled, admitted>>
  BY DEF PlanRetryFailed, PlanRetryUnits, PlanResume, Is, LifeInv, TypeOK, Job, store
<1>2. PICK p, U : PlansTo(j, p, U)
  BY OtherPlans
<1> DEFINE new(q, V) == [jobs[j] EXCEPT !.phase = q, !.todo = V, !.suites = Of(V)]
<1>3. ASSUME NEW q \in Phases \ {"begin", "plan"}, NEW V \in SUBSET Units, Planned(j, q, V),
             Settles(new(q, V)) <=> Settles(jobs[j]),
             Settles(jobs[j]) =>
                q = "cells" /\ \A s \in Suites : run'[c][s] = "running" =>
                                  s \in disabled \/ s \in Of(V)
      PROVE  OwnedInv'
  <2> DEFINE job == new(q, V)
  <2>1. job.phase = q /\ job.kind = jobs[j].kind /\ job.camp = c /\ job.suites = Of(V)
        /\ job.finished = jobs[j].finished
    BY <1>1 DEF Job
  <2>2. Becomes(j, job)
    BY <1>3 DEF Planned
  <2>3. Settles(jobs[j]) <=> Settles(job)
    BY <1>3
  <2> HIDE DEF job, new
  <2>4. Frame(j) /\ jobs'[j] = job
    BY <1>1, <1>2, <2>2, OwnFrame DEF PlansTo
  <2>5. job # None
    <3>1. Moves(j, q)
      BY <1>1, <1>3, PlannedMoves DEF LifeInv
    <3> QED
      BY <2>4, <3>1 DEF Moves
  <2>6. jobs[j].finished = {}
    BY <1>1 DEF DropsInv, Drops
  <2>7. Settles(job) => Covered(job, run'[c], result'[c], disabled)
    BY <1>3, <2>1, <2>3, <2>6 DEF Covered
  <2>8. RowsFrame(j)
    BY <1>1, RowsSame
  <2> QED
    BY <1>1, <2>1, <2>3, <2>4, <2>5, <2>7, <2>8, OwnedMoves
<1>4. \A q, V : new(q, V).phase = q /\ new(q, V).kind = jobs[j].kind
  BY <1>1 DEF Job
<1>5. Settles(jobs[j]) => Covered(jobs[j], run[c], result[c], disabled)
  BY <1>1 DEF OwnedInv, Covers
<1>6. "cells" \in Phases \ {"begin", "plan"}
  BY DEF Phases
<1> HIDE DEF new
<1>7. CASE PlanRetryFailed(j)
  <2>1. jobs[j].kind = "retryFailed" /\ Planned(j, "cells", enabled)
        /\ run' = Stamped(c, Of(Nulls(c)) \ Of(enabled), "done")
    BY <1>7 DEF PlanRetryFailed, Camp
  <2>2. Settles(jobs[j]) /\ Settles(new("cells", enabled))
    BY <1>1, <1>4, <2>1 DEF Settles
  <2>3. \A s \in Suites :
           run'[c][s] = IF s \in Of(Nulls(c)) \ Of(enabled) THEN "done" ELSE run[c][s]
    BY <1>1, <2>1 DEF Stamped, LifeInv, TypeOK
  <2>4. \A s \in Suites : run[c][s] = "running" => s \in disabled \/ s \in Of(Nulls(c))
    BY <1>1, <1>5, <2>1, <2>2 DEF Covered, Of, Nulls
  <2>5. enabled \in SUBSET Units
    BY DEF Nulls
  <2> HIDE DEF enabled, c
  <2>6. \A s \in Suites : run'[c][s] = "running" => s \in disabled \/ s \in Of(enabled)
    BY <2>3, <2>4
  <2> QED
    BY <1>3, <1>6, <2>1, <2>2, <2>5, <2>6
<1>8. CASE PlanRetryUnits(j)
  <2>1. jobs[j].kind \in {"retryUnits", "liveRetry"} /\ Planned(j, "cells", wanted)
        /\ run' = run
    BY <1>8 DEF PlanRetryUnits, Camp, store
  <2>2. Settles(jobs[j]) <=> Settles(new("cells", wanted))
    BY <1>1, <1>4, <2>1 DEF Settles
  <2>3. wanted \in SUBSET Units
    BY <1>1 DEF Job
  <2>4. Settles(jobs[j]) => jobs[j].kind = "retryUnits"
    BY <2>1 DEF Settles
  <2>5. Settles(jobs[j]) => \A s \in Suites : run[c][s] = "running" =>
           s \in disabled \/ s \in Of(jobs[j].units)
    BY <1>1, <1>5, <2>4 DEF Covered
  <2>6. \A s \in Suites : run[c][s] = "running" /\ s \in Of(jobs[j].units) =>
           s \in disabled \/ s \in Of(wanted)
    BY DEF Of, Runs
  <2> HIDE DEF wanted, c
  <2>7. Settles(jobs[j]) => \A s \in Suites : run'[c][s] = "running" =>
           s \in disabled \/ s \in Of(wanted)
    BY <2>1, <2>5, <2>6
  <2> QED
    BY <1>3, <1>6, <2>1, <2>2, <2>3, <2>7
<1>9. CASE PlanResume(j, reachable)
  <2>1. PICK q, V : Planned(j, q, V) /\ q \in {"unregister", "reopen"} /\ V \in SUBSET Units
    BY <1>9 DEF PlanResume
  <2>2. jobs[j].kind = "resume"
    BY <1>9 DEF PlanResume
  <2>3. ~Settles(jobs[j]) /\ ~Settles(new(q, V))
    BY <1>1, <1>4, <2>1, <2>2 DEF Settles
  <2>4. q \in Phases \ {"begin", "plan"}
    BY <2>1 DEF Phases
  <2> QED
    BY <1>3, <2>1, <2>3, <2>4
<1> QED
  BY <1>7, <1>8, <1>9

\* A resume that reopens its campaign covers the runs it reopens: no other is running.
LEMMA ReopenRunsOwned ==
    ASSUME LifeInv, DropsInv, OwnedInv, NEW j \in Jobs, ReopenRuns(j)
    PROVE  OwnedInv'
<1> DEFINE job == [jobs[j] EXCEPT !.phase = "cells"]
           c == jobs[j].camp
           S == jobs[j].suites
<1>1. /\ jobs[j] # None /\ jobs[j] \in Job /\ jobs[j].phase = "reopen" /\ c \in Campaigns
      /\ jobs[j].kind = "resume" /\ Becomes(j, job) /\ campaign[c] \in Settled
      /\ campaign' = [campaign EXCEPT ![c] = "running"]
      /\ run' = Stamped(c, {s \in S : run[c][s] \in Settled}, "running")
      /\ UNCHANGED <<result, disabled, admitted>>
  BY DEF ReopenRuns, Reopen, Is, LifeInv, TypeOK, Job, Camp, KindsInPhases
<1>2. job.camp = c /\ job.kind = "resume" /\ job.phase = "cells" /\ job \in Job
      /\ job.suites = S /\ job.finished = jobs[j].finished
  BY <1>1 DEF Job
<1>3. job # None
  BY <1>2, NoneIsNothing
<1> HIDE DEF job
<1>4. Settles(job) /\ ~Settles(jobs[j])
  BY <1>1, <1>2 DEF Settles
<1>5. campaign[c] # "running" /\ \E f : run' = [run EXCEPT ![Camp(j)] = f]
  BY <1>1 DEF Stamped, Camp, Settled
<1>6. Frame(j) /\ jobs'[j] = job
  BY <1>1, <1>5, OwnFrame DEF Camp
<1>7. \A s \in Suites : run[c][s] # "running"
  BY <1>1 DEF LifeInv, SettledIsOver
<1>8. \A s \in Suites : run'[c][s] = "running" => s \in S
  BY <1>1, <1>7 DEF Stamped, LifeInv, TypeOK
<1>9. jobs[j].finished = {}
  BY <1>1 DEF DropsInv, Drops
<1>10. Covered(job, run'[c], result'[c], disabled)
  BY <1>2, <1>8, <1>9 DEF Covered
<1>11. CoversItself(j)
  BY <1>2, <1>6, <1>10 DEF CoversItself
<1>12. \A d \in Campaigns \ {c} : campaign'[d] = campaign[d]
  BY <1>1 DEF LifeInv, TypeOK
<1>13. KeepsOwned(j)
  BY <1>2, <1>3, <1>4, <1>6, <1>12 DEF KeepsOwned
<1>14. KindsGiven'
  BY <1>1, <1>2, <1>6 DEF OwnedInv, KindsGiven, Frame
<1>15. RowsFrame(j)
  BY <1>1, RowsSame
<1> QED
  BY <1>1, <1>6, <1>11, <1>13, <1>14, <1>15, OwnedKept

\* A step of the cells ends no run but one it has finished.
LEMMA EndedOwned ==
    ASSUME LifeInv, NEW j \in Jobs, jobs[j] # None, jobs[j].phase = "cells",
           NEW s \in Suites, NEW job \in Job, job.kind = jobs[j].kind,
           job.camp = jobs[j].camp, job.phase = "cells", job.suites = jobs[j].suites,
           job.finished = jobs[j].finished, Step(j, job, s), Settles(jobs[j]),
           NEW rows, NEW more, Covered(jobs[j], run[job.camp], rows, disabled)
    PROVE  Covered(Ended(job, s), run'[job.camp], more, disabled)
<1> DEFINE new == [job EXCEPT !.finished = @ \cup {s}]
           c == job.camp
<1>1. c \in Campaigns /\ job.kind # "liveRetry"
  BY DEF Job, Settles
<1>2. \A t \in Suites : run[c][t] = "running" => t \in disabled \/ t \in job.suites \ job.finished
  BY DEF Covered
<1>3. CASE EndsRun(job, s)
  <2>1. new.phase = "cells" /\ new.suites = job.suites /\ new.finished = job.finished \cup {s}
    BY DEF Job
  <2>2. run' = Stamped(c, {s}, "done")
    BY <1>1, <1>3 DEF Step
  <2>3. \A t \in Suites : run'[c][t] = IF t = s THEN "done" ELSE run[c][t]
    BY <1>1, <2>2 DEF Stamped, LifeInv, TypeOK
  <2>4. Ended(job, s) = new
    BY <1>3 DEF Ended
  <2> HIDE DEF new, c
  <2>5. \A t \in Suites : run'[c][t] = "running" =>
           t \in disabled \/ t \in new.suites \ new.finished
    BY <1>2, <2>1, <2>3
  <2> QED
    BY <2>1, <2>4, <2>5 DEF Covered, c
<1>4. CASE ~EndsRun(job, s)
  <2>1. run' = run /\ Ended(job, s) = job
    BY <1>4 DEF Step, Ended
  <2> QED
    BY <1>2, <2>1 DEF Covered
<1> QED
  BY <1>3, <1>4

\* No step of a cell leaves a run uncovered.
LEMMA CellOwned ==
    ASSUME LifeInv, Apart, OwnedInv, NEW j \in Jobs, NEW u \in Units,
           NEW row \in {"null", "scored"},
           \/ Take(j, u) \/ Skip(j, u) \/ Offer(j, u) \/ Owe(j, u)
           \/ Examine(j, u, row) \/ Land(j, u, row)
    PROVE  OwnedInv'
<1> DEFINE s == SuiteOf(u)
           c == jobs[j].camp
<1>1. jobs[j] # None /\ jobs[j].phase = "cells" /\ s \in Suites
  BY CellShape
<1> PICK cell : /\ Cell(jobs[j], cell)
                /\ \/ Becomes(j, cell) /\ UNCHANGED run
                   \/ Step(j, cell, s) \/ Step(j, Marked(cell, s), s)
  BY CellShape
<1>2. /\ c \in Campaigns /\ UNCHANGED <<campaign, disabled, admitted>>
      /\ \A d \in Campaigns \ {c} : result'[d] = result[d]
  BY <1>1 DEF Take, Skip, Offer, Owe, Examine, Land, Write, Camp, LifeInv, TypeOK, Job
<1>3. RowsFrame(j)
  BY <1>1, <1>2, RowsKept
<1> HIDE DEF s
<1> DEFINE Like(job) == /\ job \in Job /\ job.kind = jobs[j].kind /\ job.camp = c
                        /\ job.phase = "cells" /\ job.suites = jobs[j].suites
                        /\ job.finished = jobs[j].finished
<1>4. Like(cell)
  BY DEF Cell
<1>5. Like(Marked(cell, s))
  <2>1. /\ Marked(cell, s).suites = cell.suites
        /\ Marked(cell, s).finished = cell.finished
    BY <1>4 DEF Marked, Job
  <2> QED
    BY <1>1, <1>4, <2>1, MarkedJob
<1>6. Settles(jobs[j]) => Covered(jobs[j], run[c], result[c], disabled)
  BY <1>1 DEF OwnedInv, Covers
<1>7. ASSUME NEW job, Like(job), Step(j, job, s) PROVE OwnedInv'
  <2> DEFINE new == Ended(job, s)
  <2>1. new \in Job /\ new.kind = jobs[j].kind /\ new.camp = c /\ new.phase = "cells"
    <3>1. job \in Job /\ job.kind = jobs[j].kind /\ job.camp = c /\ job.phase = "cells"
      BY <1>7
    <3> QED
      BY <1>1, <3>1 DEF Ended, Job
  <2>2. Frame(j) /\ jobs'[j] = new
    BY <1>1, <1>7, StepFrame
  <2>3. Settles(jobs[j]) => Covered(new, run'[c], result'[c], disabled)
    BY <1>1, <1>6, <1>7, EndedOwned
  <2> HIDE DEF new
  <2>4. Settles(jobs[j]) <=> Settles(new)
    BY <1>1, <2>1 DEF Settles
  <2>5. new # None
    BY <2>1, NoneIsNothing
  <2> QED
    BY <1>1, <1>2, <1>3, <2>1, <2>2, <2>3, <2>4, <2>5, OwnedMoves
<1>8. CASE Becomes(j, cell) /\ UNCHANGED run
  <2>1. Frame(j) /\ jobs'[j] = cell
    BY <1>1, <1>8, OwnFrame
  <2>2. Settles(jobs[j]) <=> Settles(cell)
    BY <1>1, <1>4 DEF Settles
  <2>3. Settles(cell) => Covered(cell, run'[c], result'[c], disabled)
    BY <1>1, <1>4, <1>6, <1>8, <2>2 DEF Covered
  <2>4. cell # None
    BY <1>4, NoneIsNothing
  <2> QED
    BY <1>1, <1>2, <1>3, <1>4, <2>1, <2>2, <2>3, <2>4, OwnedMoves
<1> QED
  BY <1>4, <1>5, <1>7, <1>8

\* The tail leaves no run of its executor running.
LEMMA TailOwned ==
    ASSUME LifeInv, OwnedInv, NEW j \in Jobs, Tail(j)
    PROVE  OwnedInv'
<1> DEFINE p == IF jobs[j].kind \in {"single", "liveRetry"} THEN "unregister" ELSE "settle"
           job == [jobs[j] EXCEPT !.phase = p]
           c == jobs[j].camp
           S == jobs[j].suites \ jobs[j].finished
<1>1. /\ jobs[j] # None /\ jobs[j] \in Job /\ jobs[j].phase = "cells"
      /\ Becomes(j, job) /\ c \in Campaigns
      /\ UNCHANGED <<campaign, result, disabled, admitted>>
  BY DEF Tail, Is, LifeInv, TypeOK, Job
<1>2. run' = IF jobs[j].kind = "liveRetry" THEN run ELSE Stamped(c, S, "failed")
  BY DEF Tail
<1>3. p \in {"unregister", "settle"} /\ p \in Phases
      /\ (p = "unregister" <=> jobs[j].kind \in {"single", "liveRetry"})
  BY DEF Phases
<1>4. job.phase = p /\ job.kind = jobs[j].kind /\ job.camp = c /\ job \in Job
  BY <1>1, <1>3 DEF Job, Phases
<1>5. job # None
  BY <1>4, NoneIsNothing
<1> HIDE DEF job, p
<1>6. Settles(jobs[j]) <=> jobs[j].kind # "liveRetry"
  BY <1>1 DEF Settles
<1>7. Settles(job) <=> jobs[j].kind # "liveRetry"
  BY <1>3, <1>4 DEF Settles
<1>8. Frame(j) /\ jobs'[j] = job
  <2>1. UNCHANGED run \/ \E f : run' = [run EXCEPT ![Camp(j)] = f]
    BY <1>2 DEF Stamped, Camp
  <2>2. jobs[j].kind = "liveRetry" => UNCHANGED run
    BY <1>2
  <2> QED
    BY <1>1, <1>6, <2>1, <2>2, OwnFrame
<1>9. ASSUME Settles(job) PROVE Covered(job, run'[c], result'[c], disabled)
  <2>1. Covered(jobs[j], run[c], result[c], disabled)
    BY <1>1, <1>6, <1>7, <1>9 DEF OwnedInv, Covers
  <2>2. \A s \in Suites : run[c][s] = "running" => s \in disabled \/ s \in S
    BY <1>1, <2>1 DEF Covered
  <2>3. \A s \in Suites : run'[c][s] = IF s \in S THEN "failed" ELSE run[c][s]
    BY <1>1, <1>2, <1>7, <1>9 DEF Stamped, LifeInv, TypeOK
  <2> HIDE DEF S, c
  <2>4. \A s \in Suites : run'[c][s] = "running" => s \in disabled
    BY <2>2, <2>3
  <2> QED
    BY <2>4 DEF Covered
<1>10. RowsFrame(j)
  BY <1>1, RowsSame
<1> QED
  BY <1>1, <1>4, <1>5, <1>6, <1>7, <1>8, <1>9, <1>10, OwnedMoves

\* A settle that leaves its campaign running leaves it so for a disabled case.
LEMMA SettleOwned ==
    ASSUME LifeInv, OwnedInv, NEW j \in Jobs, Settle(j)
    PROVE  OwnedInv'
<1> DEFINE new == [jobs[j] EXCEPT !.phase = "unregister"]
           c == jobs[j].camp
           job == IF jobs[j].kind = "single" THEN None ELSE new
<1>1. /\ jobs[j] # None /\ jobs[j] \in Job /\ jobs[j].phase = "settle"
      /\ Becomes(j, job) /\ c \in Campaigns
      /\ campaign' = [campaign EXCEPT ![c] = SettledStatus(c)]
      /\ UNCHANGED <<run, result, disabled, admitted>>
  BY DEF Settle, Is, LifeInv, TypeOK, Job, Camp
<1>2. new.phase = "unregister" /\ new.kind = jobs[j].kind /\ new.camp = c
  BY <1>1 DEF Job
<1>3. job = None \/ (job.phase = "unregister" /\ job.kind = jobs[j].kind /\ job.camp = c
                     /\ job.kind # "single")
  BY <1>2
<1> HIDE DEF job, new
<1>4. Frame(j) /\ jobs'[j] = job
  BY <1>1, OwnFrame
<1>5. job = None \/ ~Settles(job)
  BY <1>3 DEF Settles
<1>6. Settles(jobs[j])
  BY <1>1 DEF Settles, LifeInv, KindsInPhases
<1>7. Covered(jobs[j], run[c], result[c], disabled)
  BY <1>1, <1>6 DEF OwnedInv, Covers
<1>8. campaign[c] = "running"
  <2>1. WillSettle(j, c)
    BY <1>1, <1>6, SettlesIsWillSettle
  <2> QED
    BY <1>1, <2>1 DEF LifeInv, OneSettler
<1>9. SettledStatus(c) = "running" => \E s \in Suites : run[c][s] = "running"
  BY <1>8 DEF SettledStatus, Settled
<1>10. campaign'[c] = SettledStatus(c) /\ \A d \in Campaigns \ {c} : campaign'[d] = campaign[d]
  BY <1>1 DEF LifeInv, TypeOK
<1>11. SettledStatus(c) = "running" => \E s \in disabled : run[c][s] = "running"
  BY <1>1, <1>7, <1>9 DEF Covered
<1>12. KeepsOwned(j)
  BY <1>1, <1>10, <1>11 DEF KeepsOwned
<1>13. CoversItself(j)
  BY <1>4, <1>5 DEF CoversItself
<1>14. KindsGiven'
  BY <1>1, <1>3, <1>4 DEF OwnedInv, KindsGiven, Frame
<1>15. RowsFrame(j)
  BY <1>1, RowsSame
<1> QED
  BY <1>1, <1>4, <1>12, <1>13, <1>14, <1>15, OwnedKept

\* An executor is unregistered once it has settled, a single one before that.
LEMMA UnregisterOwned ==
    ASSUME LifeInv, OwnedInv, NEW j \in Jobs, Unregister(j)
    PROVE  OwnedInv'
<1> DEFINE job == [jobs[j] EXCEPT !.phase = "settle"]
           c == jobs[j].camp
<1>1. /\ jobs[j] # None /\ jobs[j] \in Job /\ jobs[j].phase = "unregister" /\ c \in Campaigns
      /\ UNCHANGED <<campaign, run, result, disabled, admitted>>
  BY DEF Unregister, Is, LifeInv, TypeOK, Job, store
<1>2. RowsFrame(j)
  BY <1>1, RowsSame
<1>3. CASE jobs[j].kind = "single"
  <2>1. Becomes(j, job)
    BY <1>3 DEF Unregister
  <2>2. job.phase = "settle" /\ job.kind = "single" /\ job.camp = c /\ job \in Job
    BY <1>1, <1>3 DEF Job
  <2>3. job # None
    BY <2>2, NoneIsNothing
  <2> HIDE DEF job
  <2>4. Frame(j) /\ jobs'[j] = job
    BY <1>1, <2>1, OwnFrame
  <2>5. Settles(jobs[j]) /\ Settles(job)
    BY <1>1, <1>3, <2>2 DEF Settles
  <2>6. Covered(jobs[j], run[c], result[c], disabled)
    BY <1>1, <2>5 DEF OwnedInv, Covers
  <2>7. Covered(job, run[c], result[c], disabled)
    BY <1>1, <2>6 DEF Covered
  <2> QED
    BY <1>1, <1>2, <1>3, <2>2, <2>3, <2>4, <2>5, <2>7, OwnedMoves
<1>4. CASE jobs[j].kind # "single"
  <2>1. Becomes(j, None)
    BY <1>4 DEF Unregister
  <2>2. Frame(j) /\ jobs'[j] = None
    BY <1>1, <2>1, OwnFrame
  <2>3. ~Settles(jobs[j])
    BY <1>1, <1>4 DEF Settles
  <2>4. KeepsOwned(j) /\ CoversItself(j)
    BY <1>1, <2>2, <2>3 DEF KeepsOwned, CoversItself
  <2>5. KindsGiven'
    BY <1>1, <2>2 DEF OwnedInv, KindsGiven, Frame
  <2> QED
    BY <1>1, <1>2, <2>2, <2>4, <2>5, OwnedKept
<1> QED
  BY <1>3, <1>4

\* An empty batch is over at once.
LEMMA EmptyOwned ==
    ASSUME LifeInv, OwnedInv, NEW j \in Jobs, PlanEmpty(j)
    PROVE  OwnedInv'
<1> DEFINE job == [jobs[j] EXCEPT !.phase = "unregister"]
           c == jobs[j].camp
<1>1. /\ jobs[j] # None /\ jobs[j] \in Job /\ jobs[j].kind \in {"sweep", "weekly"}
      /\ Becomes(j, job) /\ c \in Campaigns
      /\ campaign' = [campaign EXCEPT ![c] = "done"]
      /\ UNCHANGED <<run, result, disabled, admitted>>
  BY DEF PlanEmpty, Is, LifeInv, TypeOK, Job, Camp
<1>2. job.phase = "unregister" /\ job.kind = jobs[j].kind /\ job.camp = c
  BY <1>1 DEF Job
<1> HIDE DEF job
<1>3. Frame(j) /\ jobs'[j] = job
  BY <1>1, OwnFrame
<1>4. ~Settles(job)
  BY <1>1, <1>2 DEF Settles
<1>5. campaign'[c] = "done" /\ \A d \in Campaigns \ {c} : campaign'[d] = campaign[d]
  BY <1>1 DEF LifeInv, TypeOK
<1>6. KeepsOwned(j)
  BY <1>5 DEF KeepsOwned
<1>7. CoversItself(j)
  BY <1>3, <1>4 DEF CoversItself
<1>8. KindsGiven'
  BY <1>1, <1>2, <1>3 DEF OwnedInv, KindsGiven, Frame
<1>9. RowsFrame(j)
  BY <1>1, RowsSame
<1> QED
  BY <1>1, <1>3, <1>6, <1>7, <1>8, <1>9, OwnedKept

\* A cancel takes no run from an executor.
LEMMA CancelOwned ==
    ASSUME LifeInv, OwnedInv, NEW j \in Jobs, jobs[j] # None,
           UNCHANGED <<campaign, run, result, disabled, admitted>>,
           Becomes(j, [jobs[j] EXCEPT !.canceled = TRUE])
    PROVE  OwnedInv'
<1> DEFINE job == [jobs[j] EXCEPT !.canceled = TRUE]
           c == jobs[j].camp
<1>1. jobs[j] \in Job
  BY DEF LifeInv, TypeOK
<1>2. /\ job.phase = jobs[j].phase /\ job.kind = jobs[j].kind /\ job.camp = c
      /\ job.suites = jobs[j].suites /\ job.units = jobs[j].units
      /\ job.finished = jobs[j].finished /\ job \in Job
  BY <1>1 DEF Job
<1>3. Becomes(j, job)
  OBVIOUS
<1>4. job # None
  BY <1>2, NoneIsNothing
<1> HIDE DEF job
<1>5. Frame(j) /\ jobs'[j] = job
  BY <1>3, OwnFrame
<1>6. Settles(job) <=> Settles(jobs[j])
  BY <1>2 DEF Settles
<1>7. Settles(job) => Covered(jobs[j], run[c], result[c], disabled)
  BY <1>6 DEF OwnedInv, Covers
<1>8. Settles(job) => Covered(job, run[c], result[c], disabled)
  BY <1>2, <1>7 DEF Covered
<1>9. RowsFrame(j)
  BY RowsSame
<1> QED
  BY <1>2, <1>4, <1>5, <1>6, <1>8, <1>9, OwnedMoves

\* A handler that starts an executor: what is left to show.
LEMMA StartOwned ==
    ASSUME LifeInv, OwnedInv, NEW h \in Handlers, NEW j \in Jobs, NEW job,
           Start(h, j, job), Frame(j), jobs'[j] = job, admitted[h] # None,
           job.kind = admitted[h].kind, UNCHANGED result,
           Settles(job) => Covered(job, run'[job.camp], result[job.camp], disabled),
           \A c \in Campaigns : campaign'[c] = "running" /\ campaign[c] # "running" =>
              job # None /\ job.camp = c /\ Settles(job)
    PROVE  OwnedInv'
<1>1. jobs[j] = None /\ UNCHANGED disabled
  BY DEF Start
<1>2. CoversItself(j)
  BY DEF CoversItself
<1>3. KeepsOwned(j)
  BY <1>1 DEF KeepsOwned
<1>4. KindsGiven'
  <2>1. \A i \in Handlers : admitted'[i] # None => admitted'[i] = admitted[i]
    BY DEF Start, Answer, LifeInv, TypeOK
  <2>2. \A i \in Jobs : jobs'[i] = jobs[i] \/ jobs'[i] = job
    BY DEF Frame
  <2> QED
    BY <2>1, <2>2 DEF OwnedInv, KindsGiven
<1>5. RowsFrame(j)
  BY RowsSame
<1> QED
  BY <1>1, <1>2, <1>3, <1>4, <1>5, OwnedKept

\* A new executor's parts.
LEMMA NewJobParts ==
    ASSUME NEW kind, NEW c, NEW S, NEW U
    PROVE  LET job == NewJob(kind, c, S, U) IN
           /\ job.kind = kind /\ job.camp = c /\ job.phase = "begin"
           /\ job.suites = S /\ job.units = U
BY DEF NewJob

\* A typed request starts a job.
LEMMA NewJobTyped ==
    ASSUME NEW kind \in AllKinds, NEW c \in Campaigns, NEW S \in SUBSET Suites,
           NEW U \in SUBSET Units
    PROVE  NewJob(kind, c, S, U) # None
<1>1. NewJob(kind, c, S, U) \in Job
  BY DEF NewJob, Job
<1> QED
  BY <1>1, NoneIsNothing

\* A campaign is created with the executor that settles it, which plans its runs.
LEMMA CreateOwned ==
    ASSUME LifeInv, OwnedInv, NEW h \in Handlers, NEW j \in Jobs, NEW c \in Campaigns,
           NEW S \in SUBSET Suites, Create(h, j, c, S)
    PROVE  OwnedInv'
<1> DEFINE kind == admitted[h].kind
           job == NewJob(kind, c, S, {})
<1>1. /\ admitted[h] # None /\ kind \in Fresh /\ campaign[c] = "absent"
      /\ campaign' = [campaign EXCEPT ![c] = "running"]
      /\ run' = IF kind = "single" THEN Stamped(c, S, "running") ELSE run
      /\ UNCHANGED result /\ Start(h, j, job)
  BY DEF Create
<1>2. job.kind = kind /\ job.camp = c /\ job.phase = "begin" /\ job.suites = S
  BY NewJobParts
<1>3. job # None
  BY <1>1, NewJobTyped DEF AllKinds, Fresh
<1> HIDE DEF job
<1>4. Frame(j) /\ jobs'[j] = job
  <2>1. \A d \in Campaigns \ {c} : run'[d] = run[d]
    BY <1>1 DEF Stamped, LifeInv, TypeOK
  <2> QED
    BY <1>1, <2>1, StartFrame
<1>5. Settles(job)
  BY <1>1, <1>2 DEF Settles, Fresh
<1>6. \A s \in Suites : run[c][s] = "none"
  BY <1>1 DEF LifeInv, NotYetRun
<1>7. \A s \in Suites : run'[c][s] = "running" => kind = "single" /\ s \in S
  BY <1>1, <1>6 DEF Stamped, LifeInv, TypeOK
<1>8. Covered(job, run'[c], result[c], disabled)
  BY <1>2, <1>7 DEF Covered
<1>9. \A d \in Campaigns : campaign'[d] = "running" /\ campaign[d] # "running" => d = c
  BY <1>1 DEF LifeInv, TypeOK
<1> QED
  BY <1>1, <1>2, <1>3, <1>4, <1>5, <1>8, <1>9, StartOwned

\* A retry reopens the runs its plan will find, and no other is running.
LEMMA RetryStartOwned ==
    ASSUME LifeInv, OwnedInv, NEW h \in Handlers, NEW j \in Jobs, Retry(h, j)
    PROVE  OwnedInv'
<1> DEFINE r == admitted[h]
           c == r.camp
           S == ReopenedBy(r)
           job == NewJob(r.kind, c, {}, r.units)
<1>1. /\ r # None /\ r.kind \in {"retryFailed", "retryUnits"} /\ campaign[c] \in Settled
      /\ campaign' = [campaign EXCEPT ![c] = "running"]
      /\ run' = Stamped(c, {s \in S : run[c][s] \in Settled}, "running")
      /\ UNCHANGED result /\ Start(h, j, job)
  BY DEF Retry, Reopen
<1>2. r \in Request /\ c \in Campaigns
  BY <1>1 DEF LifeInv, TypeOK, Request
<1>3. job.kind = r.kind /\ job.camp = c /\ job.phase = "begin" /\ job.units = r.units
  BY NewJobParts
<1>4. job # None
  BY <1>2, NewJobTyped DEF Request
<1> HIDE DEF job
<1>5. Frame(j) /\ jobs'[j] = job
  <2>1. campaign[c] # "running" /\ \A d \in Campaigns \ {c} : run'[d] = run[d]
    BY <1>1, <1>2 DEF Stamped, Settled, LifeInv, TypeOK
  <2> QED
    BY <1>1, <1>2, <2>1, StartFrame
<1>6. Settles(job)
  BY <1>1, <1>3 DEF Settles
<1>7. \A s \in Suites : run[c][s] # "running"
  BY <1>1, <1>2 DEF LifeInv, SettledIsOver
<1>8. \A s \in Suites : run'[c][s] = "running" => s \in S
  BY <1>1, <1>2, <1>7 DEF Stamped, LifeInv, TypeOK
<1>9. Covered(job, run'[c], result[c], disabled)
  <2>1. CASE r.kind = "retryFailed"
    <3>1. \A s \in S : \E u \in Units : result[c][u] = "null" /\ SuiteOf(u) = s
      BY <2>1 DEF ReopenedBy, Of, Nulls
    <3> QED
      BY <1>3, <1>8, <2>1, <3>1 DEF Covered
  <2>2. CASE r.kind = "retryUnits"
    <3>1. S \subseteq Of(job.units)
      BY <1>3, <2>2 DEF ReopenedBy, Of
    <3> QED
      BY <1>3, <1>8, <2>2, <3>1 DEF Covered
  <2> QED
    BY <1>1, <2>1, <2>2
<1>10. \A d \in Campaigns : campaign'[d] = "running" /\ campaign[d] # "running" => d = c
  BY <1>1 DEF LifeInv, TypeOK
<1> QED
  BY <1>1, <1>3, <1>4, <1>5, <1>6, <1>9, <1>10, StartOwned

\* A live retry and a resume reopen nothing yet.
LEMMA BystanderOwned ==
    ASSUME LifeInv, OwnedInv, NEW h \in Handlers, NEW j \in Jobs,
           RetryLive(h, j) \/ Resume(h, j)
    PROVE  OwnedInv'
<1> DEFINE r == admitted[h]
           new(U) == NewJob(r.kind, r.camp, {}, U)
<1>1. /\ r # None /\ r.kind \in {"liveRetry", "resume"}
      /\ Start(h, j, new(r.units)) \/ Start(h, j, new({}))
      /\ UNCHANGED <<campaign, run, result>>
  BY DEF RetryLive, Resume, store
<1>2. r.camp \in Campaigns
  BY <1>1 DEF LifeInv, TypeOK, Request
<1>3. ASSUME NEW U, Start(h, j, new(U)) PROVE OwnedInv'
  <2> DEFINE job == new(U)
  <2>1. job.kind = r.kind /\ job.phase = "begin"
    BY NewJobParts
  <2>2. Start(h, j, job)
    BY <1>3
  <2> HIDE DEF job
  <2>3. Frame(j) /\ jobs'[j] = job
    BY <1>1, <1>2, <2>2, StartFrame
  <2>4. ~Settles(job)
    BY <1>1, <2>1 DEF Settles
  <2> QED
    BY <1>1, <2>1, <2>2, <2>3, <2>4, StartOwned
<1> QED
  BY <1>1, <1>3

\* Handlers that start nothing, and steps of no executor.
LEMMA OutsideOwned ==
    ASSUME LifeInv, OwnedInv,
           \/ \E h \in Handlers : Refuse(h) \/ \E c \in Campaigns : CreateFails(h, c)
           \/ \E h \in Handlers, kind \in Kinds, c \in Campaigns, U \in SUBSET Units :
                 Admit(h, kind, c, U)
           \/ \E s \in Suites : DisableCase(s)
           \/ UNCHANGED vars
    PROVE  OwnedInv'
<1>1. UNCHANGED <<run, result, jobs>> /\ disabled \subseteq disabled'
  BY DEF Refuse, CreateFails, Admit, DisableCase, vars, store
<1>2. \A c \in Campaigns : campaign'[c] = "running" => campaign[c] = "running"
  BY DEF Refuse, CreateFails, Admit, DisableCase, vars, store, LifeInv, TypeOK
<1>3. \A job, runs, rows : Covered(job, runs, rows, disabled) =>
                           Covered(job, runs, rows, disabled')
  BY <1>1 DEF Covered
<1>4. Covers'
  <2>1. \A j \in Jobs : jobs[j] # None /\ Settles(jobs[j]) =>
           Covered(jobs[j], run[jobs[j].camp], result[jobs[j].camp], disabled')
    BY <1>3 DEF OwnedInv, Covers
  <2> QED
    BY <1>1, <2>1 DEF Covers
<1>5. RunningIsOwned'
  <2>1. \A j \in Jobs, c \in Campaigns : WillSettle(j, c)' <=> WillSettle(j, c)
    BY <1>1 DEF WillSettle
  <2> QED
    BY <1>1, <1>2, <2>1 DEF OwnedInv, RunningIsOwned
<1>6. KindsGiven'
  <2>1. \A h \in Handlers : admitted'[h] # None =>
           admitted'[h] = admitted[h] \/ admitted'[h].kind \in Kinds
    <3>1. CASE \E h \in Handlers : Refuse(h) \/ \E c \in Campaigns : CreateFails(h, c)
      BY <3>1 DEF Refuse, CreateFails, Answer, LifeInv, TypeOK
    <3>2. CASE \E h \in Handlers, kind \in Kinds, c \in Campaigns, U \in SUBSET Units :
                  Admit(h, kind, c, U)
      <4> PICK h \in Handlers, kind \in Kinds, c \in Campaigns, U \in SUBSET Units :
                  Admit(h, kind, c, U)
        BY <3>2
      <4> DEFINE request == [kind |-> kind, camp |-> c, units |-> U]
      <4>1. admitted' = [admitted EXCEPT ![h] = request] /\ request.kind = kind
        BY DEF Admit
      <4> HIDE DEF request
      <4> QED
        BY <4>1 DEF LifeInv, TypeOK
    <3>3. CASE (\E s \in Suites : DisableCase(s)) \/ UNCHANGED vars
      BY <3>3 DEF DisableCase, vars
    <3> QED
      BY <3>1, <3>2, <3>3
  <2> QED
    BY <1>1, <2>1 DEF OwnedInv, KindsGiven
<1> QED
  BY <1>4, <1>5, <1>6 DEF OwnedInv

\* After a restart nothing runs.
LEMMA RestartOwned == ASSUME LifeInv, Restart PROVE OwnedInv'
<1>1. /\ \A j \in Jobs : jobs'[j] = None
      /\ \A h \in Handlers : admitted'[h] = None
      /\ \A c \in Campaigns : campaign'[c] # "running"
  BY DEF Restart, LifeInv, TypeOK
<1> QED
  BY <1>1 DEF OwnedInv, Covers, KindsGiven, RunningIsOwned

\* Nor at the start.
LEMMA InitOwned == Init => OwnedInv
BY DEF Init, OwnedInv, Covers, KindsGiven, RunningIsOwned

\* A step of an executor keeps its campaign owned.
LEMMA ExecuteOwned ==
    ASSUME LifeInv, DropsInv, Apart, OwnedInv, NEW j \in Jobs, Execute(j)
    PROVE  OwnedInv'
<1>1. CASE Register(j) \/ LeaveGate(j) \/ LoseRace(j) \/ ReopenRuns(j)
  BY <1>1, MoveOwned, ReopenRunsOwned
<1>2. CASE PrepareFails(j) \/ PlanEmpty(j)
  BY <1>2, PrepareFailsOwned, EmptyOwned
<1>3. CASE \E S, broken \in SUBSET Suites, reachable \in SUBSET Models :
              PlanFresh(j, S, broken, reachable)
  BY <1>3, FreshOwned
<1>4. CASE PlanRetryFailed(j) \/ PlanRetryUnits(j)
           \/ \E reachable \in SUBSET Models : PlanResume(j, reachable)
  <2>1. {} \in SUBSET Models
    OBVIOUS
  <2> QED
    BY <1>4, <2>1, RetryOwned
<1>5. CASE \E u \in Units :
              \/ Take(j, u) \/ Skip(j, u) \/ Offer(j, u) \/ Owe(j, u)
              \/ \E row \in {"null", "scored"} : Examine(j, u, row) \/ Land(j, u, row)
  <2> PICK u \in Units :
              \/ Take(j, u) \/ Skip(j, u) \/ Offer(j, u) \/ Owe(j, u)
              \/ \E row \in {"null", "scored"} : Examine(j, u, row) \/ Land(j, u, row)
    BY <1>5
  <2>1. PICK row \in {"null", "scored"} :
              \/ Take(j, u) \/ Skip(j, u) \/ Offer(j, u) \/ Owe(j, u)
              \/ Examine(j, u, row) \/ Land(j, u, row)
    OBVIOUS
  <2> QED
    BY <2>1, CellOwned
<1>6. CASE Tail(j) \/ Settle(j) \/ Unregister(j)
  BY <1>6, TailOwned, SettleOwned, UnregisterOwned
<1> QED
  BY <1>1, <1>2, <1>3, <1>4, <1>5, <1>6 DEF Execute

\* Every step does.
LEMMA NextOwned ==
    ASSUME Apart PROVE LifeInv /\ DropsInv /\ OwnedInv /\ [Next]_vars => OwnedInv'
<1> SUFFICES ASSUME LifeInv, DropsInv, OwnedInv, [Next]_vars PROVE OwnedInv'
  OBVIOUS
<1>1. CASE \E h \in Handlers : Handle(h)
  <2> PICK h \in Handlers : Handle(h)
    BY <1>1
  <2>1. CASE Refuse(h) \/ \E c \in Campaigns : CreateFails(h, c)
    BY <2>1, OutsideOwned
  <2>2. CASE \E j \in Jobs :
                \/ \E c \in Campaigns, S \in SUBSET Suites : Create(h, j, c, S)
                \/ Retry(h, j) \/ RetryLive(h, j) \/ Resume(h, j)
    BY <2>2, CreateOwned, RetryStartOwned, BystanderOwned
  <2> QED
    BY <2>1, <2>2 DEF Handle
<1>2. CASE \E j \in Jobs : Execute(j)
  BY <1>2, ExecuteOwned
<1>3. CASE \E j \in Jobs : GuardStops(j)
  BY <1>3, CancelOwned DEF GuardStops, Is, store
<1>4. CASE \E c \in Campaigns : Cancel(c)
  <2> PICK c \in Campaigns : Cancel(c)
    BY <1>4
  <2> DEFINE j == cancels[c]
  <2>1. j \in Jobs /\ jobs[j] # None
        /\ UNCHANGED <<campaign, run, result, disabled, admitted>>
    BY DEF Cancel, LifeInv, TypeOK, Registered, store
  <2>2. Becomes(j, [jobs[j] EXCEPT !.canceled = TRUE])
    BY <2>1 DEF Cancel, Becomes
  <2> HIDE DEF j
  <2> QED
    BY <2>1, <2>2, CancelOwned
<1>5. CASE Restart
  BY <1>5, RestartOwned
<1>6. CASE \/ \E h \in Handlers, kind \in Kinds, c \in Campaigns, U \in SUBSET Units :
                 Admit(h, kind, c, U)
           \/ \E s \in Suites : DisableCase(s)
           \/ UNCHANGED vars
  BY <1>6, OutsideOwned
<1> QED
  BY <1>1, <1>2, <1>3, <1>4, <1>5, <1>6 DEF Next

\* No campaign is left running without an executor that will settle it, whatever races,
\* crashes or is canceled, except for a run whose case was disabled: each executor ends
\* every run its campaign has running before it settles.  That a live re-answer does not
\* run beside a retry of the failures is needed: it deletes a null row that the retry
\* reopened a run for, the retry's plan does not find it, and the run stays running.
THEOREM RunningCampaignsAreOwned == ASSUME Apart PROVE Spec => []RunningIsOwned
<1>1. LifeInv /\ DropsInv /\ OwnedInv /\ [Next]_vars => OwnedInv'
  BY NextOwned
<1>2. Spec => []OwnedInv
  BY <1>1, InitLife, NextLife, InitDrops, NextDrops, InitOwned, PTL DEF Spec
<1>3. OwnedInv => RunningIsOwned
  BY DEF OwnedInv
<1> QED
  BY <1>2, <1>3, PTL

=============================================================================
