---------------------------- MODULE OverviewCache ----------------------------
(***************************************************************************)
(* The cached status board of HubScope (server/overview_snapshot.go): one  *)
(* serialized overview per scope, served while its markers hold, rebuilt   *)
(* by one leader while the other requests wait, and checked against the    *)
(* markers again after the build.                                          *)
(*                                                                         *)
(* One scope is modelled: scopes share nothing but the generation.  Both   *)
(* markers only grow, so each stands for the set of writes it counts: the  *)
(* probe watermark for the probe rows stored, structGen for the writes     *)
(* that have called InvalidateOverview.  A board's content is the set of   *)
(* writes its reads were late enough to see; a write that concerns several *)
(* reads belongs to the first of them, since the later ones see it too.    *)
(***************************************************************************)
EXTENDS Naturals, FiniteSets

CONSTANTS
    Readers,     \* the clients that ask for the overview
    Models,      \* the models of the scope
    Probes,      \* the probe rows that get stored
    ModelEdits,  \* the structural writes to models and their hubs
    Settles,     \* the campaigns that settle, and move the eval scores
    EndpointEdits, \* the structural writes to endpoints
    ModelOf,     \* the model whose rows a probe or an endpoint edit is among
    MaxHours,    \* bound: hour boundaries crossed
    MaxFailures, \* bound: store reads that fail
    None         \* no snapshot, no rebuild

\* The attempt, counted from 0, that is stored whatever its recheck says.
LastAttempt == 2

Writes == Probes \cup ModelEdits \cup Settles \cup EndpointEdits

ASSUME CacheAssumption ==
    /\ Probes \cap (ModelEdits \cup Settles \cup EndpointEdits) = {}
    /\ ModelOf \in [Probes \cup EndpointEdits -> Models]
    /\ MaxHours \in Nat /\ MaxFailures \in Nat

VARIABLES
    written,    \* writes committed to the store
    announced,  \* writes whose path has called InvalidateOverview
    hour,       \* s.now(), truncated to the hour
    snap,       \* overviewCache.snaps of the scope
    leader,     \* the client that rebuilds (overviewCache.inflight), or None
    build,      \* the leader's rebuild, or None
    reader,     \* where each client's request is
    seen,       \* the watermark and the hour a request has read
    before,     \* history: the writes counted by a marker when it began
    failures    \* store reads failed so far

requests == <<reader, seen, before>>
cache == <<snap, leader, build>>
vars == <<written, announced, hour, cache, requests, failures>>

-----------------------------------------------------------------------------

Watermark == written \cap Probes
StructGen == announced

Snapshot == [content : SUBSET Writes, probes : SUBSET Probes, gen : SUBSET Writes,
             hour : 0 .. MaxHours, settled : BOOLEAN]
Build == [attempt : 0 .. LastAttempt, content : SUBSET Writes, left : SUBSET Models,
          wm0 : SUBSET Probes, gen0 : SUBSET Writes, wm1 : SUBSET Probes,
          hour : 0 .. MaxHours,
          phase : {"wm0", "gen0", "models", "scores", "endpoints", "rows",
                   "wm1", "gen1", "ready"},
          result : Snapshot \cup {None}]

ASSUME NoneIsNothing == None \notin Readers /\ None \notin Build

Places == {"idle", "asked", "looking", "leading", "waiting"}

TypeOK ==
    /\ written \in SUBSET Writes /\ announced \in SUBSET written
    /\ hour \in 0 .. MaxHours
    /\ snap \in Snapshot \cup {None}
    /\ leader \in Readers \cup {None}
    /\ build \in Build \cup {None}
    /\ build = None <=> leader = None
    /\ reader \in [Readers -> Places]
    /\ \A r \in Readers : reader[r] = "leading" <=> r = leader
    /\ seen \in [Readers -> [probes : SUBSET Probes, hour : 0 .. MaxHours]]
    /\ before \in [Readers -> SUBSET Writes]
    /\ failures \in 0 .. MaxFailures

NothingSeen == [probes |-> {}, hour |-> 0]

Init ==
    /\ written = {} /\ announced = {} /\ hour = 0
    /\ snap = None /\ leader = None /\ build = None
    /\ reader = [r \in Readers |-> "idle"]
    /\ seen = [r \in Readers |-> NothingSeen]
    /\ before = [r \in Readers |-> {}]
    /\ failures = 0

-----------------------------------------------------------------------------
(* Writers and the clock *)

Write(w) ==
    /\ w \notin written
    /\ written' = written \cup {w}
    /\ UNCHANGED <<announced, hour, cache, requests, failures>>

\* InvalidateOverview, called by every write path after its commit; a probe
\* round calls it once the alerter has run.
InvalidateOverview(w) ==
    /\ w \in written \ announced
    /\ announced' = announced \cup {w}
    /\ UNCHANGED <<written, hour, cache, requests, failures>>

NextHour ==
    /\ hour < MaxHours
    /\ hour' = hour + 1
    /\ UNCHANGED <<written, announced, cache, requests, failures>>

-----------------------------------------------------------------------------
(* overviewSnapshotFor *)

\* The watermark is read first, the clock next, both without the lock.
Ask(r) ==
    /\ reader[r] = "idle"
    /\ reader' = [reader EXCEPT ![r] = "asked"]
    /\ seen' = [seen EXCEPT ![r].probes = Watermark]
    /\ before' = [before EXCEPT ![r] = Watermark \cup announced]
    /\ UNCHANGED <<written, announced, hour, cache, failures>>

AskFails(r) ==
    /\ reader[r] = "idle" /\ failures < MaxFailures
    /\ failures' = failures + 1
    /\ UNCHANGED <<written, announced, hour, cache, requests>>

ReadHour(r) ==
    /\ reader[r] = "asked"
    /\ reader' = [reader EXCEPT ![r] = "looking"]
    /\ seen' = [seen EXCEPT ![r].hour = hour]
    /\ UNCHANGED <<written, announced, hour, cache, before, failures>>

\* Every marker holds: the two the request read, and structGen as it is now.
Fresh(r) ==
    /\ snap # None
    /\ snap.probes = seen[r].probes
    /\ snap.hour = seen[r].hour
    /\ snap.gen = StructGen

\* The cached board is the answer, and the client may poll again.
Serve(r) ==
    /\ reader[r] = "looking" /\ Fresh(r)
    /\ reader' = [reader EXCEPT ![r] = "idle"]
    /\ seen' = [seen EXCEPT ![r] = NothingSeen]
    /\ before' = [before EXCEPT ![r] = {}]
    /\ UNCHANGED <<written, announced, hour, cache, failures>>

Join(r) ==
    /\ reader[r] = "looking" /\ ~Fresh(r) /\ leader # None
    /\ reader' = [reader EXCEPT ![r] = "waiting"]
    /\ seen' = [seen EXCEPT ![r] = NothingSeen]
    /\ before' = [before EXCEPT ![r] = {}]
    /\ UNCHANGED <<written, announced, hour, cache, failures>>

NewAttempt(n) == [attempt |-> n, content |-> {}, left |-> Models, wm0 |-> {}, gen0 |-> {},
                  wm1 |-> {}, hour |-> 0, phase |-> "wm0", result |-> None]

Lead(r) ==
    /\ reader[r] = "looking" /\ ~Fresh(r) /\ leader = None
    /\ reader' = [reader EXCEPT ![r] = "leading"]
    /\ seen' = [seen EXCEPT ![r] = NothingSeen]
    /\ leader' = r
    /\ build' = NewAttempt(0)
    /\ UNCHANGED <<written, announced, hour, snap, before, failures>>

-----------------------------------------------------------------------------
(* rebuild: the leader, outside the lock but for its reads of structGen *)

\* The leader is at this phase, and its build becomes b.
Building(phase, b) ==
    /\ build # None /\ build.phase = phase
    /\ build' = b
    /\ UNCHANGED <<written, announced, hour, snap, leader, requests, failures>>

ReadWatermark0 == Building("wm0", [build EXCEPT !.wm0 = Watermark, !.phase = "gen0"])
ReadGen0 == Building("gen0", [build EXCEPT !.gen0 = StructGen, !.phase = "models"])

\* listModelsForScope, at the build's own reading of the clock.
ListModels == Building("models", [build EXCEPT !.content = written \cap ModelEdits,
                                               !.hour = hour, !.phase = "scores"])

\* buildOverviewDTO goes through the models in the order they were listed.
NextModel(left) == CHOOSE m \in left : TRUE
AfterModels(left) == IF left = {} THEN "wm1" ELSE "endpoints"

\* getEvalScoresForModels
ReadScores == Building("scores", [build EXCEPT !.content = @ \cup (written \cap Settles),
                                               !.phase = AfterModels(build.left)])

\* ListEndpointsByModelID
ListEndpoints ==
    Building("endpoints",
        [build EXCEPT !.content = @ \cup {w \in written \cap EndpointEdits :
                                             ModelOf[w] = NextModel(build.left)},
                      !.phase = "rows"])

\* gatherWindowStats and CountProbeSamplesBetween: a row counts as shown when it
\* was there for the first of their queries.
GatherRows ==
    Building("rows",
        [build EXCEPT !.content = @ \cup {w \in Watermark :
                                             ModelOf[w] = NextModel(build.left)},
                      !.left = @ \ {NextModel(build.left)},
                      !.phase = AfterModels(build.left \ {NextModel(build.left)})])

ReadWatermark1 == Building("wm1", [build EXCEPT !.wm1 = Watermark, !.phase = "gen1"])

\* Mutant: the structural generation is not compared again.
UnmovedProbes == build.wm0 = build.wm1

Unmoved == build.wm0 = build.wm1 /\ build.gen0 = StructGen

Finished == [content |-> build.content, probes |-> build.wm1, gen |-> StructGen,
             hour |-> build.hour, settled |-> Unmoved]

\* Mutant: a moved marker always starts over.
RecheckUnbounded ==
    Building("gen1", IF Unmoved THEN [build EXCEPT !.phase = "ready", !.result = Finished]
                     ELSE NewAttempt(build.attempt + 1))

\* gen1 is read and the markers compared: the build is done, or done again.
Recheck ==
    Building("gen1", IF Unmoved \/ build.attempt >= LastAttempt
                     THEN [build EXCEPT !.phase = "ready", !.result = Finished]
                     ELSE NewAttempt(build.attempt + 1))

\* Mutant: the leader returns without closing call.done.
LeaderOnly == {leader}

\* Everybody the rebuild answers: its leader and those that joined it.
Answered == {r \in Readers : r = leader \/ reader[r] = "waiting"}

\* The flight ends and its requests are answered, with the board or an error.
EndFlight ==
    /\ leader' = None /\ build' = None
    /\ reader' = [r \in Readers |-> IF r \in Answered THEN "idle" ELSE reader[r]]
    /\ before' = [r \in Readers |-> IF r \in Answered THEN {} ELSE before[r]]
    /\ UNCHANGED <<written, announced, hour, seen>>

\* Under the lock: the flight is over, the snapshot stored, the waiters woken.
Publish ==
    /\ build # None /\ build.phase = "ready"
    /\ snap' = build.result
    /\ EndFlight
    /\ UNCHANGED failures

\* A read of the build fails: they all get the error and the old snapshot stays.
FailBuild ==
    /\ build # None /\ build.phase \in {"wm0", "models", "scores", "endpoints", "rows", "wm1"}
    /\ failures < MaxFailures
    /\ failures' = failures + 1
    /\ EndFlight
    /\ UNCHANGED snap

-----------------------------------------------------------------------------

Request(r) == ReadHour(r) \/ Serve(r) \/ Join(r) \/ Lead(r)

Rebuild ==
    \/ ReadWatermark0 \/ ReadGen0
    \/ ListModels \/ ReadScores \/ ListEndpoints \/ GatherRows
    \/ ReadWatermark1 \/ Recheck
    \/ Publish

Next ==
    \/ \E w \in Writes : Write(w) \/ InvalidateOverview(w)
    \/ NextHour
    \/ \E r \in Readers : Ask(r) \/ AskFails(r) \/ Request(r)
    \/ Rebuild
    \/ FailBuild

Spec == Init /\ [][Next]_vars

\* A request that has begun and a rebuild under way keep running: the lock is
\* held for a few instructions and every store read returns.
FairSpec ==
    /\ Spec
    /\ \A r \in Readers : WF_vars(Request(r))
    /\ WF_vars(Rebuild)

-----------------------------------------------------------------------------
(* Properties *)

\* A request that is served from the cache, or leads its own rebuild, sees
\* every write a marker counted when it began: nothing it could know of is
\* missing, although the markers it compares were read by another request, in
\* another order, around a build that writes overtook.  The cached boards of
\* a last attempt whose markers moved again are left out: they may miss a write
\* their markers count (overviewSnapshotFor and rebuild).
ReadsSeeEarlierWrites ==
    [][\A r \in Readers :
          /\ Serve(r) /\ snap.settled => before[r] \subseteq snap.content
          /\ Publish /\ r = leader => before[r] \subseteq build.result.content]_vars

\* Every request gets its answer: no follower waits on a rebuild that ended,
\* well or badly (close of call.done on every path of overviewSnapshotFor),
\* and no storm of writes keeps a rebuild going.
RequestsAnswered ==
    \A r \in Readers : reader[r] \in {"asked", "waiting"} ~> reader[r] = "idle"

=============================================================================
