---------------------------- MODULE ProbeHistory ----------------------------
(***************************************************************************)
(* What HubScope keeps of its probes (store/rollups.go, store/probes.go,   *)
(* store/deletion.go, scheduler/rollup.go): raw rows, the hourly rollups   *)
(* that outlive them, the worker that aggregates and deletes, and the      *)
(* series that joins both.                                                 *)
(*                                                                         *)
(* The database has one connection, so a statement or a transaction is one *)
(* step, and anything may happen between two of them.  A rollup row is     *)
(* modelled by the set of probes it was computed from: its counts and      *)
(* percentiles are functions of that set, and so are the rows of the three *)
(* streaming modes, which are written together.                            *)
(***************************************************************************)
EXTENDS Integers, FiniteSets

CONSTANTS
    Endpoints,
    Readers,         \* requests that read a series
    HourOf(_),       \* Truncate(time.Hour), on clock ticks
    RollupInterval, CleanupInterval, RollupLag, Retention,
    Windows,         \* how far back a series may be asked for
    MaxDelay,        \* bound: ticks from the time of a row to its insertion
    MaxProbes,       \* bound: rows stored
    MaxFailures,     \* bound: rollups that fail
    MaxRestarts,     \* bound: restarts of the process
    Horizon,         \* bound: the last tick
    None             \* never, no hour

Times == 0 .. Horizon

\* A time before the clock begins is no different from its beginning.
Ago(t, d) == IF t < d THEN 0 ELSE t - d

ASSUME HourAssumption ==
    /\ Horizon \in Nat /\ None \notin Times
    /\ \A t \in Times : HourOf(t) \in 0 .. t /\ HourOf(HourOf(t)) = HourOf(t)
    /\ \A t, u \in Times : t <= u => HourOf(t) <= HourOf(u)

\* A row is inserted before it is old enough to be rolled up, and what is old
\* enough to be deleted was old enough for the rollup before, or for this one.
ASSUME AgeAssumption ==
    /\ RollupInterval \in Nat /\ CleanupInterval \in Nat
    /\ RollupLag \in Nat /\ Retention \in Nat
    /\ MaxDelay \in 0 .. RollupLag
    /\ \A t, u \in Times : t <= u /\ u - t <= RollupInterval
          => Ago(u, Retention) <= HourOf(Ago(t, RollupLag))

ASSUME BoundAssumption ==
    /\ Windows \subseteq Nat
    /\ MaxProbes \in Nat /\ MaxFailures \in Nat /\ MaxRestarts \in Nat

VARIABLES
    now,
    endpoint,    \* the endpoints table: enabled or disabled, or how it went
    probes,      \* the raw rows
    rollups,     \* the probes each hourly rollup was computed from
    watermark,   \* rolled_up_to of each endpoint; 0 when there is none
    worker,      \* the tick of the rollup worker that is under way
    lastRollup, lastCleanup, \* when each was last due, in this process
    series,      \* what each reader has read so far
    stored,      \* history: the rows ever stored
    failures, restarts

table == <<probes, rollups, watermark>>
due == <<lastRollup, lastCleanup>>
vars == <<now, endpoint, table, worker, due, series, stored, failures, restarts>>

Hours == {HourOf(t) : t \in Times}

\* One row of an endpoint per tick.
Probe == [ep : Endpoints, at : Times, ok : BOOLEAN]

Buckets == [Hours -> SUBSET Probe]
NoBuckets == [h \in Hours |-> {}]

\* groups and cutoff: what the rollup has read and up to when; tick: the time of
\* the tick; cleanup: the cleanup is due, too.
IdleWorker == [at |-> "idle", groups |-> {}, cutoff |-> 0, tick |-> 0, cleanup |-> FALSE]
Worker == [at : {"idle", "rolling", "cleaning"}, groups : SUBSET Probe,
           cutoff : Times, tick : Times, cleanup : BOOLEAN]

\* expected and overtaken are history: the rows that were stored when the read
\* began, and whether a rollup was committed since.
NoSeries == [at |-> "idle", ep |-> None, since |-> 0, buckets |-> NoBuckets, tail |-> 0,
             expected |-> {}, overtaken |-> FALSE]
BegunSeries ==
    [at : {"rolled", "marked", "read"}, ep : Endpoints, since : Times, buckets : Buckets,
     tail : Times, expected : SUBSET Probe, overtaken : BOOLEAN]
Series == {NoSeries} \cup BegunSeries

TypeOK ==
    /\ now \in Times
    /\ endpoint \in [Endpoints -> {"enabled", "disabled", "deleted", "pruned"}]
    /\ probes \subseteq Probe /\ stored \subseteq Probe
    /\ rollups \in [Endpoints -> Buckets]
    /\ watermark \in [Endpoints -> Times]
    /\ worker \in Worker
    /\ lastRollup \in Times \cup {None} /\ lastCleanup \in Times \cup {None}
    /\ series \in [Readers -> Series]
    /\ failures \in 0 .. MaxFailures /\ restarts \in 0 .. MaxRestarts

Init ==
    /\ now = 0
    /\ endpoint = [e \in Endpoints |-> "enabled"]
    /\ probes = {} /\ stored = {}
    /\ rollups = [e \in Endpoints |-> NoBuckets]
    /\ watermark = [e \in Endpoints |-> 0]
    /\ worker = IdleWorker /\ lastRollup = None /\ lastCleanup = None
    /\ series = [r \in Readers |-> NoSeries]
    /\ failures = 0 /\ restarts = 0

Exists(e) == endpoint[e] \in {"enabled", "disabled"}

-----------------------------------------------------------------------------
(* Rows come in, time passes *)

\* CreateProbe: the row has the time of the call.  A round in flight outlives
\* its endpoint, and leaves rows nobody reads.
CreateProbe(e, ok) ==
    /\ Cardinality(stored) < MaxProbes
    /\ \E at \in Ago(now, MaxDelay) .. now :
          /\ \A p \in stored : ~(p.ep = e /\ p.at = at)
          /\ probes' = probes \cup {[ep |-> e, at |-> at, ok |-> ok]}
          /\ stored' = stored \cup {[ep |-> e, at |-> at, ok |-> ok]}
    /\ UNCHANGED <<now, endpoint, rollups, watermark, worker, due, series, failures, restarts>>

Tick ==
    /\ now < Horizon /\ now' = now + 1
    /\ UNCHANGED <<endpoint, table, worker, due, series, stored, failures, restarts>>

-----------------------------------------------------------------------------
(* Endpoints are edited and removed *)

UpdateEndpoint(e) ==
    /\ Exists(e)
    /\ endpoint' = [endpoint EXCEPT ![e] = IF @ = "enabled" THEN "disabled" ELSE "enabled"]
    /\ UNCHANGED <<now, table, worker, due, series, stored, failures, restarts>>

Forget(gone) ==
    /\ probes' = {p \in probes : p.ep \notin gone}
    /\ rollups' = [e \in Endpoints |-> IF e \in gone THEN NoBuckets ELSE rollups[e]]
    /\ watermark' = [e \in Endpoints |-> IF e \in gone THEN 0 ELSE watermark[e]]
    /\ UNCHANGED <<now, worker, due, series, stored, failures, restarts>>

DeleteEndpoint(e) ==
    /\ Exists(e)
    /\ endpoint' = [endpoint EXCEPT ![e] = "deleted"]
    /\ Forget({e})

\* Mutant: only the raw rows are asked.
NeverInRawRows(e) == \A p \in probes : p.ep = e => ~p.ok

\* Judged on raw rows and on rollups: total > failures.
NeverSucceeded(e) ==
    /\ \A p \in probes : p.ep = e => ~p.ok
    /\ \A h \in Hours : \A p \in rollups[e][h] : ~p.ok

Dead == {e \in Endpoints : endpoint[e] = "disabled" /\ NeverSucceeded(e)}

PruneDeadEndpoints ==
    /\ Dead # {}
    /\ endpoint' = [e \in Endpoints |-> IF e \in Dead THEN "pruned" ELSE endpoint[e]]
    /\ Forget(Dead)

-----------------------------------------------------------------------------
(* The rollup worker *)

IsDue(last, interval) == last = None \/ (last # None /\ now - last >= interval)

\* Mutants: the cutoff is not truncated to the hour, or is the present, or is
\* truncated before the lag is taken from it.
CutoffUntruncated(t) == Ago(t, RollupLag)
CutoffWithoutLag(t) == HourOf(t)
LagAfterHour(t) == HourOf(t) - RollupLag

Cutoff(t) == HourOf(Ago(t, RollupLag))

\* The rows below the cutoff and at or after the watermark of their endpoint.
Unaggregated(cutoff) == {p \in probes : p.at < cutoff /\ p.at >= watermark[p.ep]}

\* tick, and the statement that reads the rows to aggregate.  Both jobs count as
\* done from now on, whatever becomes of them.
WorkerTick ==
    LET rolls == IsDue(lastRollup, RollupInterval)
        cleans == IsDue(lastCleanup, CleanupInterval) IN
    /\ worker.at = "idle" /\ (rolls \/ cleans)
    /\ lastRollup' = IF rolls THEN now ELSE lastRollup
    /\ lastCleanup' = IF cleans THEN now ELSE lastCleanup
    /\ worker' = [at |-> IF rolls THEN "rolling" ELSE "cleaning",
                  groups |-> IF rolls THEN Unaggregated(Cutoff(now)) ELSE {},
                  cutoff |-> IF rolls THEN Cutoff(now) ELSE 0,
                  tick |-> now, cleanup |-> cleans]
    /\ UNCHANGED <<now, endpoint, table, series, stored, failures, restarts>>

Afterwards == IF worker.cleanup THEN [worker EXCEPT !.at = "cleaning", !.groups = {}, !.cutoff = 0]
              ELSE IdleWorker

Group(e, h) == {p \in worker.groups : p.ep = e /\ HourOf(p.at) = h}

\* The transaction: the buckets are replaced, and the watermark of every
\* endpoint that has one advances to the cutoff.
RollupCommits ==
    /\ worker.at = "rolling"
    /\ rollups' = [e \in Endpoints |-> [h \in Hours |->
                      IF Group(e, h) = {} THEN rollups[e][h] ELSE Group(e, h)]]
    /\ watermark' = [e \in Endpoints |->
                        IF \E p \in worker.groups : p.ep = e THEN worker.cutoff ELSE watermark[e]]
    /\ worker' = Afterwards
    /\ series' = [r \in Readers |-> IF series[r].at = "idle" THEN series[r]
                                    ELSE [series[r] EXCEPT !.overtaken = TRUE]]
    /\ UNCHANGED <<now, endpoint, probes, due, stored, failures, restarts>>

\* The rows cannot be read, or the transaction fails; the cleanup does not care.
RollupFails ==
    /\ worker.at = "rolling"
    /\ failures < MaxFailures /\ failures' = failures + 1
    /\ worker' = Afterwards
    /\ UNCHANGED <<now, endpoint, table, due, series, stored, restarts>>

\* DeleteProbesBefore, by age alone; or its failure.
Cleanup ==
    /\ worker.at = "cleaning"
    /\ \/ probes' = {p \in probes : p.at >= Ago(worker.tick, Retention)}
       \/ UNCHANGED probes
    /\ worker' = IdleWorker
    /\ UNCHANGED <<now, endpoint, rollups, watermark, due, series, stored, failures, restarts>>

Restart ==
    /\ restarts < MaxRestarts /\ restarts' = restarts + 1
    /\ worker' = IdleWorker /\ lastRollup' = None /\ lastCleanup' = None
    /\ series' = [r \in Readers |-> NoSeries]
    /\ UNCHANGED <<now, endpoint, table, stored, failures>>

-----------------------------------------------------------------------------
(* GetSeries: three statements *)

SeriesKeeps == UNCHANGED <<now, endpoint, table, worker, due, stored, failures, restarts>>

\* The rollups of whole hours since then.
ReadRollups(r, e, window) ==
    LET since == Ago(now, window) IN
    /\ series[r].at = "idle" /\ Exists(e)
    /\ series' = [series EXCEPT ![r] =
          [at |-> "rolled", ep |-> e, since |-> since, tail |-> 0,
           buckets |-> [h \in Hours |-> IF h >= since THEN rollups[e][h] ELSE {}],
           expected |-> {p \in stored : p.ep = e /\ HourOf(p.at) >= since},
           overtaken |-> FALSE]]
    /\ SeriesKeeps

\* The raw tail begins at the later of the window and the watermark.
ReadWatermark(r) ==
    LET s == series[r] IN
    /\ s.at = "rolled"
    /\ series' = [series EXCEPT
          ![r].at = "marked",
          ![r].tail = IF watermark[s.ep] > s.since THEN watermark[s.ep] ELSE s.since]
    /\ SeriesKeeps

\* Mutant: the tail begins after the watermark.
TailAfter(s) == {p \in probes : p.ep = s.ep /\ p.at > s.tail}

Tail(s) == {p \in probes : p.ep = s.ep /\ p.at >= s.tail}

\* A raw bucket counts only where there is no rollup.
ReadTail(r) ==
    LET s == series[r] IN
    /\ s.at = "marked"
    /\ series' = [series EXCEPT
          ![r].at = "read",
          ![r].buckets = [h \in Hours |-> IF s.buckets[h] # {} THEN s.buckets[h]
                                          ELSE {p \in Tail(s) : HourOf(p.at) = h}]]
    /\ SeriesKeeps

Respond(r) ==
    /\ series[r].at = "read"
    /\ series' = [series EXCEPT ![r] = NoSeries]
    /\ SeriesKeeps

-----------------------------------------------------------------------------

GetSeries(r) ==
    \/ \E e \in Endpoints, window \in Windows : ReadRollups(r, e, window)
    \/ ReadWatermark(r) \/ ReadTail(r) \/ Respond(r)

Edit ==
    \/ \E e \in Endpoints : UpdateEndpoint(e) \/ DeleteEndpoint(e)
    \/ PruneDeadEndpoints

Work == WorkerTick \/ RollupCommits \/ RollupFails \/ Cleanup

Next ==
    \/ \E e \in Endpoints, ok \in BOOLEAN : CreateProbe(e, ok)
    \/ Tick \/ Edit \/ Work \/ Restart
    \/ \E r \in Readers : GetSeries(r)

Spec == Init /\ [][Next]_vars

-----------------------------------------------------------------------------
(* Properties *)

Of(e) == {p \in stored : p.ep = e}
Rolled(e) == UNION {rollups[e][h] : h \in Hours}
RawTail(e) == {p \in probes : p.ep = e /\ p.at >= watermark[e]}

\* As long as no rollup fails, every row ever stored for an endpoint is either in
\* one of its rollups or in the raw tail that begins at its watermark: late rows,
\* restarts in the middle of a rollup and the retention lose none.
HistoryIsKept ==
    failures = 0 => \A e \in Endpoints : Exists(e) => Of(e) = Rolled(e) \cup RawTail(e)

\* A bucket is never recomputed from raw rows that the retention may have deleted
\* in part: once an hour is rolled up it stays as it is while the endpoint stays.
BucketsAreFinal ==
    [][\A e \in Endpoints, h \in Hours :
          rollups[e][h] # {} => rollups'[e][h] \in {rollups[e][h], {}}]_vars

\* A series that no rollup was committed under shows, for every whole hour of its
\* window, every row stored when it was asked for, in that hour (as long as no
\* rollup fails), and nothing of another endpoint or hour, though its three
\* statements see three states of the tables.
SeriesIsExact ==
    \A r \in Readers :
        LET s == series[r] IN
        s.at = "read" /\ ~s.overtaken /\ Exists(s.ep) =>
            /\ failures = 0 => \A p \in s.expected : p \in s.buckets[HourOf(p.at)]
            /\ \A h \in Hours : \A p \in s.buckets[h] : p \in Of(s.ep) /\ HourOf(p.at) = h

\* An endpoint that has ever answered is not pruned as dead, however long ago it
\* did and whatever has been deleted since.
LivingAreKept ==
    [][failures = 0 =>
          \A e \in Endpoints :
              endpoint[e] # "pruned" /\ endpoint'[e] = "pruned" => \A p \in Of(e) : ~p.ok]_vars

=============================================================================
