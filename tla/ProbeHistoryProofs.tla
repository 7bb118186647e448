------------------------- MODULE ProbeHistoryProofs -------------------------
(***************************************************************************)
(* Proofs about ProbeHistory, for any endpoints, readers, clock, intervals *)
(* and bounds that meet its assumptions.                                   *)
(*                                                                         *)
(* The inductive invariant says where the rows of an existing endpoint     *)
(* are: below the watermark in the rollup of their hour, from the          *)
(* watermark on in the raw table.  The watermark is a whole hour no later  *)
(* than the rollup lag allows, so that no row arrives below it, no hour    *)
(* has rows on both sides of it, and a rollup writes only to buckets that  *)
(* are empty.  The cleanup deletes only what is below the cutoff of the    *)
(* last rollup of this process, which has been committed by then.          *)
(***************************************************************************)
EXTENDS ProbeHistory, TLAPS

\* The raw rows were stored, and no row is from the future.
RowsArePast == probes \subseteq stored /\ \A p \in stored : p.at <= now

\* A bucket holds stored rows of its endpoint and its hour, below the watermark.
BucketsAreSound ==
    \A e \in Endpoints, h \in Hours : \A p \in rollups[e][h] :
        p \in stored /\ p.ep = e /\ HourOf(p.at) = h /\ p.at < watermark[e]

\* A watermark is a whole hour that no row comes in below any more.
MarksAreHours ==
    \A e \in Endpoints :
        HourOf(watermark[e]) = watermark[e] /\ watermark[e] <= Ago(now, RollupLag)

\* The rollup of this process was due at the tick under way, or not long before.
WorkerIsTimely ==
    /\ lastRollup # None => lastRollup <= now
    /\ worker.at # "idle" =>
          /\ worker.tick <= now
          /\ lastRollup \in Times /\ lastRollup <= worker.tick
          /\ worker.tick - lastRollup <= RollupInterval

\* What the rollup has read is what it would read now, but for endpoints that
\* are gone.
GroupsAreCurrent ==
    worker.at = "rolling" =>
        /\ lastRollup = worker.tick /\ worker.cutoff = Cutoff(worker.tick)
        /\ \A p \in worker.groups :
              /\ p \in stored /\ p.at < worker.cutoff /\ p.at >= watermark[p.ep]
              /\ Exists(p.ep) => p \in probes
        /\ \A p \in probes :
              Exists(p.ep) /\ p.at < worker.cutoff /\ p.at >= watermark[p.ep]
                  => p \in worker.groups

\* Where the rows of an existing endpoint are.
RowsArePlaced ==
    failures = 0 => \A p \in stored :
        Exists(p.ep) =>
            /\ p.at < watermark[p.ep] => p \in rollups[p.ep][HourOf(p.at)]
            /\ p.at >= watermark[p.ep] => p \in probes

\* The last rollup of this process has moved the watermarks past what it read.
RolledIsMarked ==
    failures = 0 /\ lastRollup # None /\ worker.at # "rolling" =>
        \A p \in stored :
            Exists(p.ep) /\ p.at < Cutoff(lastRollup) => p.at < watermark[p.ep]

\* What a read that nothing has overtaken has seen is still so.
ReadsAreCurrent ==
    \A r \in Readers : LET s == series[r] IN
        /\ s.at # "idle" => s.ep \in Endpoints
        /\ \A p \in s.expected : p \in stored /\ p.ep = s.ep /\ HourOf(p.at) >= s.since
        /\ s.at \in {"rolled", "marked"} /\ ~s.overtaken /\ Exists(s.ep) =>
              /\ \A h \in Hours :
                    s.buckets[h] = IF h >= s.since THEN rollups[s.ep][h] ELSE {}
              /\ s.at = "marked" =>
                    s.tail = IF watermark[s.ep] > s.since THEN watermark[s.ep] ELSE s.since

Tables == RowsArePast /\ BucketsAreSound /\ MarksAreHours
WorkerInv == WorkerIsTimely /\ GroupsAreCurrent /\ RolledIsMarked
IInv == TypeOK /\ Tables /\ WorkerInv /\ RowsArePlaced /\ ReadsAreCurrent /\ SeriesIsExact

-----------------------------------------------------------------------------
(* The clock *)

\* The hour of a time is a time, and the same for its own hour.
LEMMA HourFacts ==
    ASSUME NEW t \in Times
    PROVE  /\ HourOf(t) \in Times /\ HourOf(t) \in Hours
           /\ HourOf(t) <= t /\ HourOf(HourOf(t)) = HourOf(t)
BY HourAssumption DEF Times, Hours

\* A later time is in no earlier hour.
LEMMA HourMonotone ==
    ASSUME NEW t \in Times, NEW u \in Times, t <= u
    PROVE  HourOf(t) <= HourOf(u)
BY HourAssumption

\* A time ago is a time, no later than now.
LEMMA AgoFacts ==
    ASSUME NEW t \in Times, NEW d \in Nat
    PROVE  Ago(t, d) \in Times /\ Ago(t, d) <= t
BY HourAssumption DEF Ago, Times

\* As long ago, and later, is later; longer ago is earlier.
LEMMA AgoMonotone ==
    ASSUME NEW t \in Times, NEW u \in Times, NEW c \in Nat, NEW d \in Nat, t <= u, c <= d
    PROVE  Ago(t, d) <= Ago(u, c)
BY HourAssumption DEF Ago, Times

\* The cutoff of a rollup is a whole hour, at least the lag ago.
LEMMA CutoffFacts ==
    ASSUME NEW t \in Times
    PROVE  /\ Cutoff(t) \in Times /\ HourOf(Cutoff(t)) = Cutoff(t)
           /\ Cutoff(t) <= Ago(t, RollupLag)
<1>1. Ago(t, RollupLag) \in Times
  BY AgoFacts, AgeAssumption
<1> QED
  BY <1>1, HourFacts DEF Cutoff

\* Two rows of one hour are on the same side of a whole hour.
LEMMA HoursAreWhole ==
    ASSUME NEW t \in Times, NEW u \in Times, NEW w \in Times,
           HourOf(w) = w, HourOf(t) = HourOf(u), t < w
    PROVE  u < w
<1>1. HourOf(u) <= t
  BY HourFacts
<1>2. ~(w <= u)
  <2> SUFFICES ASSUME w <= u PROVE FALSE
    OBVIOUS
  <2>1. w <= HourOf(u)
    BY HourMonotone
  <2>2. HourOf(u) \in Times
    BY HourFacts
  <2> QED
    BY <1>1, <2>1, <2>2 DEF Times
<1> QED
  BY <1>2 DEF Times

\* A row that is inserted now is above every cutoff there has been.
LEMMA NewRowsAreLate ==
    ASSUME TypeOK, NEW at \in Ago(now, MaxDelay) .. now
    PROVE  /\ at \in Times /\ at <= now
           /\ \A t \in Times : t <= Ago(now, RollupLag) => ~(at < t)
           /\ \A t \in Times : t <= now => ~(at < Cutoff(t))
<1>1. now \in Times /\ RollupLag \in Nat /\ MaxDelay \in Nat /\ MaxDelay <= RollupLag
  BY AgeAssumption DEF TypeOK
<1>2. Ago(now, MaxDelay) \in Times /\ Ago(now, RollupLag) \in Times
  BY <1>1, AgoFacts
<1>3. Ago(now, RollupLag) <= Ago(now, MaxDelay)
  BY <1>1, AgoMonotone DEF Times
<1>4. at \in Times /\ at <= now
  BY <1>1, <1>2, HourAssumption DEF Times
<1>5. \A t \in Times : t <= now => Cutoff(t) \in Times /\ Cutoff(t) <= Ago(now, RollupLag)
  <2> TAKE t \in Times
  <2> HAVE t <= now
  <2>1. Cutoff(t) \in Times /\ Cutoff(t) <= Ago(t, RollupLag)
    BY CutoffFacts
  <2>2. Ago(t, RollupLag) <= Ago(now, RollupLag)
    BY <1>1, AgoMonotone DEF Times
  <2>3. Ago(t, RollupLag) \in Times
    BY <1>1, AgoFacts
  <2> QED
    BY <1>2, <2>1, <2>2, <2>3 DEF Times
<1> QED
  BY <1>2, <1>3, <1>4, <1>5 DEF Times

-----------------------------------------------------------------------------
(* Types *)

\* Both relations of the editing actions keep the tables well typed.
LEMMA ForgetTypes ==
    ASSUME TypeOK, NEW gone \in SUBSET Endpoints, Forget(gone),
           endpoint' \in [Endpoints -> {"enabled", "disabled", "deleted", "pruned"}]
    PROVE  TypeOK'
<1>1. NoBuckets \in Buckets
  BY DEF NoBuckets, Buckets
<1>2. rollups' \in [Endpoints -> Buckets] /\ watermark' \in [Endpoints -> Times]
  <2>1. 0 \in Times
    BY HourAssumption DEF Times
  <2> QED
    BY <1>1, <2>1 DEF Forget, TypeOK
<1> QED
  BY <1>2 DEF Forget, TypeOK, due

\* A read that is not idle has an endpoint and the rest.
LEMMA BegunReads ==
    ASSUME NEW s \in Series, s.at # "idle"
    PROVE  s \in BegunSeries
BY DEF Series, NoSeries

\* The rollup writes sets of rows, and times.
LEMMA CommitTypes ==
    ASSUME TypeOK, RollupCommits
    PROVE  TypeOK'
<1>1. worker \in Worker /\ worker.groups \subseteq Probe /\ worker.cutoff \in Times
  BY DEF TypeOK, Worker
<1>2. \A e \in Endpoints, h \in Hours : Group(e, h) \in SUBSET Probe
  BY <1>1 DEF Group
<1>3. rollups' \in [Endpoints -> Buckets]
  <2>1. \A e \in Endpoints, h \in Hours : rollups[e][h] \in SUBSET Probe
    BY DEF TypeOK, Buckets
  <2>2. \A e \in Endpoints :
           [h \in Hours |-> IF Group(e, h) = {} THEN rollups[e][h] ELSE Group(e, h)] \in Buckets
    BY <1>2, <2>1 DEF Buckets
  <2> QED
    BY <2>2 DEF RollupCommits
<1>4. watermark' \in [Endpoints -> Times]
  BY <1>1 DEF RollupCommits, TypeOK
<1>5. worker' \in Worker
  <2>1. 0 \in Times
    BY HourAssumption DEF Times
  <2> QED
    BY <1>1, <2>1 DEF RollupCommits, Afterwards, Worker, IdleWorker
<1>6. series' \in [Readers -> Series]
  <2>1. ASSUME NEW r \in Readers, series[r].at # "idle"
        PROVE  [series[r] EXCEPT !.overtaken = TRUE] \in Series
    <3>1. series[r] \in BegunSeries
      BY <2>1, BegunReads DEF TypeOK
    <3> QED
      BY <3>1 DEF BegunSeries, Series
  <2> QED
    BY <2>1 DEF RollupCommits, TypeOK
<1> QED
  BY <1>3, <1>4, <1>5, <1>6 DEF RollupCommits, TypeOK, due

\* What a read has seen is well typed.
LEMMA ReadTypes ==
    ASSUME TypeOK, NEW r \in Readers, GetSeries(r)
    PROVE  TypeOK'
<1>0. series[r] \in Series /\ 0 \in Times /\ now \in Times
  BY HourAssumption DEF TypeOK, Times
<1>1. ASSUME NEW s \in Series, series' = [series EXCEPT ![r] = s], SeriesKeeps
      PROVE  TypeOK'
  BY <1>1 DEF SeriesKeeps, TypeOK, table, due
<1>2. ASSUME NEW e \in Endpoints, NEW window \in Windows, ReadRollups(r, e, window)
      PROVE  TypeOK'
  <2>1. Ago(now, window) \in Times
    BY <1>0, AgoFacts, BoundAssumption
  <2> DEFINE b == [h \in Hours |-> IF h >= Ago(now, window) THEN rollups[e][h] ELSE {}]
             x == {p \in stored : p.ep = e /\ HourOf(p.at) >= Ago(now, window)}
  <2>2. b \in Buckets
    BY DEF TypeOK, Buckets
  <2>3. x \in SUBSET Probe
    BY DEF TypeOK
  <2>4. [at |-> "rolled", ep |-> e, since |-> Ago(now, window), tail |-> 0, buckets |-> b,
         expected |-> x, overtaken |-> FALSE] \in Series
    <3> HIDE DEF b, x
    <3> QED
      BY <1>0, <2>1, <2>2, <2>3 DEF Series, BegunSeries
  <2> QED
    BY <1>1, <1>2, <2>4 DEF ReadRollups
<1>3. ASSUME ReadWatermark(r)
      PROVE  TypeOK'
  <2> DEFINE t == IF watermark[series[r].ep] > series[r].since
                  THEN watermark[series[r].ep] ELSE series[r].since
  <2>0. series[r] \in BegunSeries
    BY <1>0, <1>3, BegunReads DEF ReadWatermark
  <2>1. t \in Times
    BY <2>0 DEF TypeOK, BegunSeries
  <2>2. [series[r] EXCEPT !.at = "marked", !.tail = t] \in Series
    <3> HIDE DEF t
    <3> QED
      BY <2>0, <2>1 DEF Series, BegunSeries
  <2> QED
    BY <1>1, <1>3, <2>2 DEF ReadWatermark
<1>4. ASSUME ReadTail(r)
      PROVE  TypeOK'
  <2> DEFINE b == [h \in Hours |-> IF series[r].buckets[h] # {} THEN series[r].buckets[h]
                                   ELSE {p \in Tail(series[r]) : HourOf(p.at) = h}]
  <2>1. Tail(series[r]) \subseteq Probe
    BY DEF Tail, TypeOK
  <2>0. series[r] \in BegunSeries /\ series[r].buckets \in Buckets
    BY <1>0, <1>4, BegunReads DEF ReadTail, BegunSeries
  <2>2. b \in Buckets
    BY <2>0, <2>1 DEF Buckets
  <2>3. [series[r] EXCEPT !.at = "read", !.buckets = b] \in Series
    <3> HIDE DEF b
    <3> QED
      BY <2>0, <2>2 DEF Series, BegunSeries
  <2> QED
    BY <1>1, <1>4, <2>3 DEF ReadTail
<1>5. ASSUME Respond(r)
      PROVE  TypeOK'
  <2>1. NoSeries \in Series
    BY DEF Series
  <2> QED
    BY <1>1, <1>5, <2>1 DEF Respond
<1> QED
  BY <1>2, <1>3, <1>4, <1>5 DEF GetSeries

\* Every step keeps the types.
LEMMA StepTypes ==
    ASSUME TypeOK, [Next]_vars
    PROVE  TypeOK'
<1>0. 0 \in Times /\ now \in Times
  BY HourAssumption DEF TypeOK, Times
<1>1. ASSUME NEW e \in Endpoints, NEW ok \in BOOLEAN, CreateProbe(e, ok)
      PROVE  TypeOK'
  <2>1. PICK at \in Ago(now, MaxDelay) .. now :
          /\ probes' = probes \cup {[ep |-> e, at |-> at, ok |-> ok]}
          /\ stored' = stored \cup {[ep |-> e, at |-> at, ok |-> ok]}
    BY <1>1 DEF CreateProbe
  <2>2. [ep |-> e, at |-> at, ok |-> ok] \in Probe
    BY NewRowsAreLate DEF Probe
  <2> QED
    BY <1>1, <2>1, <2>2 DEF CreateProbe, TypeOK, due
<1>2. ASSUME Tick
      PROVE  TypeOK'
  <2>1. now' \in Times
    BY <1>0, <1>2, HourAssumption DEF Tick, Times
  <2> QED
    BY <1>2, <2>1 DEF Tick, TypeOK, table, due
<1>3. ASSUME NEW e \in Endpoints, UpdateEndpoint(e)
      PROVE  TypeOK'
  BY <1>3 DEF UpdateEndpoint, TypeOK, table, due
<1>4. ASSUME NEW e \in Endpoints, DeleteEndpoint(e)
      PROVE  TypeOK'
  <2>1. endpoint' \in [Endpoints -> {"enabled", "disabled", "deleted", "pruned"}]
    BY <1>4 DEF DeleteEndpoint, TypeOK
  <2> QED
    BY <1>4, <2>1, ForgetTypes DEF DeleteEndpoint
<1>5. ASSUME PruneDeadEndpoints
      PROVE  TypeOK'
  <2>1. endpoint' \in [Endpoints -> {"enabled", "disabled", "deleted", "pruned"}]
    BY <1>5 DEF PruneDeadEndpoints, TypeOK
  <2>2. Dead \in SUBSET Endpoints
    BY DEF Dead
  <2> QED
    BY <1>5, <2>1, <2>2, ForgetTypes DEF PruneDeadEndpoints
<1>6. ASSUME WorkerTick
      PROVE  TypeOK'
  <2>1. Cutoff(now) \in Times /\ Unaggregated(Cutoff(now)) \subseteq Probe
    BY <1>0, CutoffFacts DEF Unaggregated, TypeOK
  <2>2. worker' \in Worker
    <3> DEFINE rolls == IsDue(lastRollup, RollupInterval)
               cleans == IsDue(lastCleanup, CleanupInterval)
    <3>1. cleans \in BOOLEAN
      BY DEF IsDue
    <3>2. /\ worker'.at \in {"idle", "rolling", "cleaning"} /\ worker'.groups \subseteq Probe
          /\ worker'.cutoff \in Times /\ worker'.tick \in Times /\ worker'.cleanup \in BOOLEAN
      BY <1>0, <1>6, <2>1, <3>1 DEF WorkerTick
    <3> QED
      BY <1>6, <3>2 DEF WorkerTick, Worker
  <2>3. lastRollup' \in Times \cup {None} /\ lastCleanup' \in Times \cup {None}
    BY <1>0, <1>6 DEF WorkerTick, TypeOK
  <2> QED
    BY <1>6, <2>2, <2>3 DEF WorkerTick, TypeOK, table
<1>7. Afterwards \in Worker /\ IdleWorker \in Worker
  BY <1>0 DEF TypeOK, Afterwards, IdleWorker, Worker
<1>8. ASSUME RollupFails
      PROVE  TypeOK'
  <2>1. failures' \in 0 .. MaxFailures
    BY <1>8, BoundAssumption DEF RollupFails, TypeOK
  <2> QED
    BY <1>7, <1>8, <2>1 DEF RollupFails, TypeOK, table, due
<1>9. ASSUME Cleanup
      PROVE  TypeOK'
  <2>1. probes' \subseteq Probe
    BY <1>9 DEF Cleanup, TypeOK
  <2> QED
    BY <1>7, <1>9, <2>1 DEF Cleanup, TypeOK, due
<1>10. ASSUME Restart
       PROVE  TypeOK'
  <2>1. restarts' \in 0 .. MaxRestarts
    BY <1>10, BoundAssumption DEF Restart, TypeOK
  <2>2. series' \in [Readers -> Series]
    BY <1>10 DEF Restart, Series
  <2> QED
    BY <1>7, <1>10, <2>1, <2>2 DEF Restart, TypeOK, table
<1>11. ASSUME UNCHANGED vars
       PROVE  TypeOK'
  BY <1>11 DEF vars, TypeOK, table, due
<1> QED
  BY <1>1, <1>2, <1>3, <1>4, <1>5, <1>6, <1>8, <1>9, <1>10, <1>11, CommitTypes, ReadTypes
  DEF Next, Edit, Work

-----------------------------------------------------------------------------
(* The inductive invariant: rows, time and edits *)

\* What the types say of rows, watermarks and the worker.
LEMMA Typed ==
    ASSUME TypeOK
    PROVE  /\ now \in Times /\ Times \subseteq Int /\ failures \in Nat
           /\ Ago(now, RollupLag) \in Times
           /\ probes \subseteq Probe /\ stored \subseteq Probe /\ worker.groups \subseteq Probe
           /\ \A e \in Endpoints, h \in Hours : rollups[e][h] \subseteq Probe
           /\ \A e \in Endpoints : watermark[e] \in Times
           /\ \A p \in Probe : /\ p.ep \in Endpoints /\ p.at \in Times
                               /\ HourOf(p.at) \in Times /\ HourOf(p.at) \in Hours
           /\ worker.tick \in Times /\ worker.cutoff \in Times
           /\ lastRollup \in Times \cup {None} /\ None \notin Times
<1>1. now \in Times /\ Times \subseteq Int /\ failures \in Nat /\ None \notin Times
  BY HourAssumption, BoundAssumption DEF TypeOK, Times
<1>2. Ago(now, RollupLag) \in Times
  BY <1>1, AgoFacts, AgeAssumption
<1>3. \A p \in Probe : /\ p.ep \in Endpoints /\ p.at \in Times
                       /\ HourOf(p.at) \in Times /\ HourOf(p.at) \in Hours
  BY HourFacts DEF Probe
<1>4. \A e \in Endpoints, h \in Hours : rollups[e][h] \subseteq Probe
  BY DEF TypeOK, Buckets
<1> QED
  BY <1>1, <1>2, <1>3, <1>4 DEF TypeOK, Worker

\* Nothing is stored at first.
LEMMA InitEstablishes ==
    ASSUME Init
    PROVE  IInv
<1>1. 0 \in Times /\ HourOf(0) = 0 /\ NoBuckets \in Buckets
  BY HourAssumption DEF Times, NoBuckets, Buckets
<1>2. TypeOK
  BY <1>1, BoundAssumption DEF Init, TypeOK, Worker, IdleWorker, Series
<1>3. Tables
  <2>1. 0 <= Ago(now, RollupLag)
    BY <1>1, <1>2, Typed, AgoFacts, HourAssumption DEF Times
  <2> QED
    BY <1>1, <2>1 DEF Init, Tables, RowsArePast, BucketsAreSound, MarksAreHours, NoBuckets
<1>4. WorkerInv
  BY DEF Init, WorkerInv, WorkerIsTimely, GroupsAreCurrent, RolledIsMarked, IdleWorker
<1>5. RowsArePlaced /\ ReadsAreCurrent /\ SeriesIsExact
  BY DEF Init, RowsArePlaced, ReadsAreCurrent, SeriesIsExact, NoSeries
<1> QED
  BY <1>2, <1>3, <1>4, <1>5 DEF IInv

\* A new row is raw, and above every watermark and cutoff.
LEMMA CreateProbeKeeps ==
    ASSUME IInv, TypeOK', NEW e \in Endpoints, NEW ok \in BOOLEAN, CreateProbe(e, ok)
    PROVE  IInv'
<1> USE DEF IInv, Tables, WorkerInv
<1>1. PICK at \in Ago(now, MaxDelay) .. now :
          /\ probes' = probes \cup {[ep |-> e, at |-> at, ok |-> ok]}
          /\ stored' = stored \cup {[ep |-> e, at |-> at, ok |-> ok]}
  BY DEF CreateProbe
<1> DEFINE q == [ep |-> e, at |-> at, ok |-> ok]
<1>2. UNCHANGED <<now, endpoint, rollups, watermark, worker, lastRollup, series, failures>>
  BY DEF CreateProbe, due
<1>3. q \in Probe /\ q.ep = e /\ q.at = at
  BY NewRowsAreLate DEF Probe
<1>4. at \in Times /\ at <= now /\ ~(at < watermark[e])
  BY NewRowsAreLate, Typed DEF MarksAreHours
<1>5. \A t \in Times : t <= now => ~(at < Cutoff(t))
  BY NewRowsAreLate
<1> HIDE DEF q
<1>6. RowsArePast' /\ BucketsAreSound' /\ MarksAreHours'
  BY <1>1, <1>2, <1>3, <1>4 DEF RowsArePast, BucketsAreSound, MarksAreHours, q
<1>7. WorkerIsTimely'
  BY <1>2 DEF WorkerIsTimely
<1>8. GroupsAreCurrent'
  <2> SUFFICES ASSUME worker.at = "rolling"
               PROVE  GroupsAreCurrent'
    BY <1>2 DEF GroupsAreCurrent
  <2>1. ~(at < worker.cutoff)
    BY <1>5, Typed DEF GroupsAreCurrent, WorkerIsTimely
  <2> QED
    BY <1>1, <1>2, <1>3, <2>1 DEF GroupsAreCurrent, Exists, q
<1>9. RolledIsMarked'
  <2> SUFFICES ASSUME lastRollup # None
               PROVE  RolledIsMarked'
    BY <1>2 DEF RolledIsMarked
  <2>1. ~(at < Cutoff(lastRollup))
    BY <1>5, Typed DEF WorkerIsTimely
  <2> QED
    BY <1>1, <1>2, <1>3, <2>1 DEF RolledIsMarked, Exists, q
<1>10. RowsArePlaced'
  BY <1>1, <1>2, <1>3, <1>4 DEF RowsArePlaced, Exists, q
<1>11. ReadsAreCurrent'
  BY <1>1, <1>2 DEF ReadsAreCurrent, Exists
<1>12. SeriesIsExact'
  BY <1>1, <1>2 DEF SeriesIsExact, Exists, Of
<1> QED
  BY <1>6, <1>7, <1>8, <1>9, <1>10, <1>11, <1>12

\* What was old enough still is.
LEMMA TickKeeps ==
    ASSUME IInv, TypeOK', Tick
    PROVE  IInv'
<1> USE DEF IInv, Tables, WorkerInv
<1>1. /\ now \in Times /\ now' \in Times /\ now <= now'
      /\ UNCHANGED <<endpoint, probes, rollups, watermark, worker, lastRollup, series, stored,
                     failures>>
  BY Typed DEF Tick, TypeOK, table, due
<1>2. Ago(now, RollupLag) <= Ago(now', RollupLag) /\ Ago(now', RollupLag) \in Times
  BY <1>1, AgoMonotone, AgoFacts, AgeAssumption
<1>3. RowsArePast'
  BY <1>1, Typed DEF RowsArePast
<1>4. MarksAreHours'
  BY <1>1, <1>2, Typed DEF MarksAreHours
<1>5. WorkerIsTimely'
  BY <1>1, Typed DEF WorkerIsTimely
<1>6. BucketsAreSound' /\ GroupsAreCurrent' /\ RolledIsMarked' /\ RowsArePlaced'
  BY <1>1 DEF BucketsAreSound, GroupsAreCurrent, RolledIsMarked, RowsArePlaced, Exists
<1>7. ReadsAreCurrent' /\ SeriesIsExact'
  BY <1>1 DEF ReadsAreCurrent, SeriesIsExact, Exists, Of
<1> QED
  BY <1>3, <1>4, <1>5, <1>6, <1>7

\* Only a read that has begun is exact, and it is of an endpoint.
LEMMA SeriesOfEndpoints ==
    ASSUME ReadsAreCurrent, NEW r \in Readers, series[r].at = "read"
    PROVE  series[r].ep \in Endpoints
BY DEF ReadsAreCurrent

\* What is forgotten belongs to no existing endpoint.
LEMMA ForgetKeeps ==
    ASSUME IInv, TypeOK', NEW gone \in SUBSET Endpoints, Forget(gone),
           \A e \in Endpoints : Exists(e)' => Exists(e) /\ e \notin gone
    PROVE  IInv'
<1> USE DEF IInv, Tables, WorkerInv
<1>1. /\ UNCHANGED <<now, worker, lastRollup, series, stored, failures>>
      /\ probes' = {p \in probes : p.ep \notin gone}
      /\ \A e \in Endpoints : e \notin gone => /\ rollups'[e] = rollups[e]
                                               /\ watermark'[e] = watermark[e]
      /\ \A e \in Endpoints : e \in gone => rollups'[e] = NoBuckets /\ watermark'[e] = 0
  BY DEF Forget, due
<1>2. 0 \in Times /\ HourOf(0) = 0 /\ \A t \in Times : 0 <= t
  BY HourAssumption DEF Times
<1>3. RowsArePast'
  BY <1>1 DEF RowsArePast
<1>4. BucketsAreSound'
  BY <1>1 DEF BucketsAreSound, NoBuckets
<1>5. MarksAreHours'
  BY <1>1, <1>2, Typed DEF MarksAreHours
<1>6. WorkerIsTimely'
  BY <1>1 DEF WorkerIsTimely
<1>7. GroupsAreCurrent'
  <2> SUFFICES ASSUME worker.at = "rolling"
               PROVE  GroupsAreCurrent'
    BY <1>1 DEF GroupsAreCurrent
  <2>1. \A p \in worker.groups : p.at >= watermark'[p.ep]
    BY <1>1, <1>2, Typed DEF GroupsAreCurrent
  <2> QED
    BY <1>1, <2>1, Typed DEF GroupsAreCurrent
<1>8. RolledIsMarked'
  BY <1>1, Typed DEF RolledIsMarked
<1>9. RowsArePlaced'
  BY <1>1, Typed DEF RowsArePlaced
<1>10. ReadsAreCurrent'
  BY <1>1 DEF ReadsAreCurrent
<1>11. SeriesIsExact'
  BY <1>1, SeriesOfEndpoints DEF SeriesIsExact, Of
<1> QED
  BY <1>3, <1>4, <1>5, <1>6, <1>7, <1>8, <1>9, <1>10, <1>11

-----------------------------------------------------------------------------
(* The inductive invariant: the worker *)

\* The rollup reads every row below its cutoff that no rollup has.
LEMMA WorkerTickKeeps ==
    ASSUME IInv, TypeOK', WorkerTick
    PROVE  IInv'
<1> USE DEF IInv, Tables, WorkerInv
<1>1. /\ UNCHANGED <<now, endpoint, probes, rollups, watermark, series, stored, failures>>
      /\ worker.at = "idle" /\ worker'.tick = now
  BY DEF WorkerTick, table
<1>2. RowsArePast' /\ BucketsAreSound' /\ MarksAreHours' /\ RowsArePlaced'
  BY <1>1 DEF RowsArePast, BucketsAreSound, MarksAreHours, RowsArePlaced, Exists
<1>3. ReadsAreCurrent' /\ SeriesIsExact'
  BY <1>1 DEF ReadsAreCurrent, SeriesIsExact, Exists, Of
<1>4. CASE IsDue(lastRollup, RollupInterval)
  <2>1. /\ worker'.at = "rolling" /\ worker'.cutoff = Cutoff(now) /\ lastRollup' = now
        /\ worker'.groups = Unaggregated(Cutoff(now))
    BY <1>4 DEF WorkerTick
  <2>2. WorkerIsTimely'
    BY <1>1, <2>1, Typed, AgeAssumption DEF WorkerIsTimely
  <2>3. GroupsAreCurrent'
    BY <1>1, <2>1 DEF GroupsAreCurrent, Unaggregated, Exists, RowsArePast, Cutoff
  <2>4. RolledIsMarked'
    BY <2>1 DEF RolledIsMarked
  <2> QED
    BY <1>2, <1>3, <2>2, <2>3, <2>4
<1>5. CASE ~IsDue(lastRollup, RollupInterval)
  <2>1. worker'.at = "cleaning" /\ lastRollup' = lastRollup
    BY <1>5 DEF WorkerTick
  <2>2. lastRollup \in Times /\ now - lastRollup <= RollupInterval
    BY <1>5, Typed, AgeAssumption DEF IsDue
  <2>3. WorkerIsTimely'
    BY <1>1, <2>1, <2>2, Typed DEF WorkerIsTimely
  <2>4. GroupsAreCurrent' /\ RolledIsMarked'
    BY <1>1, <2>1 DEF GroupsAreCurrent, RolledIsMarked, Exists, Cutoff
  <2> QED
    BY <1>2, <1>3, <2>3, <2>4
<1> QED
  BY <1>4, <1>5

\* The rows of a group are of an hour that no rollup has.
LEMMA GroupsAreFresh ==
    ASSUME IInv, RollupCommits, NEW e \in Endpoints, NEW h \in Hours, Group(e, h) # {},
           NEW p \in Probe, p.ep = e, HourOf(p.at) = h
    PROVE  ~(p.at < watermark[e])
<1>1. PICK q \in worker.groups : q.ep = e /\ HourOf(q.at) = h
  BY DEF Group
<1>2. q \in Probe /\ q.at >= watermark[e]
  BY <1>1, Typed DEF IInv, WorkerInv, GroupsAreCurrent, RollupCommits
<1>3. p.at \in Times /\ q.at \in Times /\ watermark[e] \in Times
  BY <1>2, Typed DEF IInv
<1>4. HourOf(watermark[e]) = watermark[e]
  BY DEF IInv, Tables, MarksAreHours
<1>5. p.at < watermark[e] => q.at < watermark[e]
  BY <1>1, <1>3, <1>4, HoursAreWhole
<1> QED
  BY <1>2, <1>3, <1>5 DEF Times

\* What a commit does to one endpoint: its new buckets were empty, and its
\* watermark moves up to a whole hour.
LEMMA CommitWrites ==
    ASSUME IInv, RollupCommits, NEW e \in Endpoints
    PROVE  /\ watermark'[e] \in {watermark[e], worker.cutoff} /\ watermark[e] <= watermark'[e]
           /\ \A p \in worker.groups : p.ep = e => watermark'[e] = worker.cutoff
           /\ \A h \in Hours : /\ rollups[e][h] \subseteq rollups'[e][h]
                               /\ rollups'[e][h] \subseteq rollups[e][h] \cup Group(e, h)
                               /\ Group(e, h) \subseteq rollups'[e][h]
<1> USE DEF IInv, Tables, WorkerInv
<1>1. /\ rollups' = [x \in Endpoints |-> [h \in Hours |->
                      IF Group(x, h) = {} THEN rollups[x][h] ELSE Group(x, h)]]
      /\ watermark' = [x \in Endpoints |->
                        IF \E p \in worker.groups : p.ep = x THEN worker.cutoff ELSE watermark[x]]
      /\ worker.at = "rolling"
  BY DEF RollupCommits
<1>2. watermark[e] <= watermark'[e]
  <2>1. CASE \E p \in worker.groups : p.ep = e
    <3>1. PICK p \in worker.groups : p.ep = e
      BY <2>1
    <3>2. p.at < worker.cutoff /\ p.at >= watermark[e] /\ p \in Probe
      BY <1>1, <3>1, Typed DEF GroupsAreCurrent
    <3> QED
      BY <1>1, <2>1, <3>2, Typed
  <2>2. CASE ~ \E p \in worker.groups : p.ep = e
    BY <1>1, <2>2, Typed
  <2> QED
    BY <2>1, <2>2
<1>3. ASSUME NEW h \in Hours, Group(e, h) # {}
      PROVE  rollups[e][h] = {}
  <2> SUFFICES ASSUME NEW p \in rollups[e][h] PROVE FALSE
    OBVIOUS
  <2>1. p \in Probe /\ p.ep = e /\ HourOf(p.at) = h /\ p.at < watermark[e]
    BY Typed DEF BucketsAreSound
  <2> QED
    BY <1>3, <2>1, GroupsAreFresh
<1>4. \A h \in Hours : rollups'[e][h] = IF Group(e, h) = {} THEN rollups[e][h] ELSE Group(e, h)
  BY <1>1
<1>5. watermark'[e] = IF \E p \in worker.groups : p.ep = e THEN worker.cutoff ELSE watermark[e]
  BY <1>1
<1> QED
  BY <1>2, <1>3, <1>4, <1>5

\* A commit moves rows from the raw tail to the rollups.
LEMMA RollupCommitsKeeps ==
    ASSUME IInv, TypeOK', RollupCommits
    PROVE  IInv'
<1> USE DEF IInv, Tables, WorkerInv
<1>1. /\ UNCHANGED <<now, endpoint, probes, lastRollup, stored, failures>>
      /\ worker.at = "rolling" /\ worker'.at # "rolling"
  BY DEF RollupCommits, due, Afterwards, IdleWorker
<1>2. \A e \in Endpoints : watermark'[e] \in Times
  BY DEF TypeOK
<1>3. RowsArePast'
  BY <1>1 DEF RowsArePast
<1>4. BucketsAreSound'
  <2> SUFFICES ASSUME NEW e \in Endpoints, NEW h \in Hours, NEW p \in rollups'[e][h]
               PROVE  p \in stored /\ p.ep = e /\ HourOf(p.at) = h /\ p.at < watermark'[e]
    BY <1>1 DEF BucketsAreSound
  <2>1. CASE p \in rollups[e][h]
    <3>1. p \in Probe /\ p \in stored /\ p.ep = e /\ HourOf(p.at) = h /\ p.at < watermark[e]
      BY <2>1, Typed DEF BucketsAreSound
    <3>2. watermark[e] <= watermark'[e] /\ watermark[e] \in Times /\ p.at \in Times
      BY <3>1, CommitWrites, Typed
    <3> QED
      BY <1>2, <3>1, <3>2 DEF Times
  <2>2. CASE p \in Group(e, h)
    <3>1. p \in worker.groups /\ p.ep = e /\ HourOf(p.at) = h
      BY <2>2 DEF Group
    <3> QED
      BY <1>1, <3>1, CommitWrites DEF GroupsAreCurrent
  <2> QED
    BY <2>1, <2>2, CommitWrites
<1>5. MarksAreHours'
  <2>1. HourOf(worker.cutoff) = worker.cutoff /\ worker.cutoff <= Ago(now, RollupLag)
    <3>1. worker.cutoff = Cutoff(worker.tick) /\ worker.tick <= now
      BY <1>1 DEF GroupsAreCurrent, WorkerIsTimely
    <3>2. worker.cutoff <= Ago(worker.tick, RollupLag) /\ HourOf(worker.cutoff) = worker.cutoff
      BY <3>1, Typed, CutoffFacts
    <3>3. RollupLag \in Nat /\ RollupLag <= RollupLag
      BY AgeAssumption
    <3>4. now \in Times /\ worker.tick \in Times
      BY Typed
    <3>5. Ago(worker.tick, RollupLag) \in Times
      BY <3>3, <3>4, AgoFacts
    <3>6. Ago(worker.tick, RollupLag) <= Ago(now, RollupLag)
      BY <3>1, <3>3, <3>4, AgoMonotone
    <3> QED
      BY <3>2, <3>5, <3>6, Typed
  <2> QED
    BY <1>1, <2>1, CommitWrites DEF MarksAreHours
<1>6. WorkerIsTimely'
  BY <1>1 DEF WorkerIsTimely, RollupCommits, Afterwards, IdleWorker
<1>7. GroupsAreCurrent'
  BY <1>1 DEF GroupsAreCurrent
<1>8. ASSUME failures = 0, NEW p \in stored, Exists(p.ep)
      PROVE  /\ p.at < watermark'[p.ep] => p \in rollups'[p.ep][HourOf(p.at)]
             /\ p.at >= watermark'[p.ep] => p \in probes
             /\ p.at < worker.cutoff => p.at < watermark'[p.ep]
  <2> DEFINE e == p.ep
             h == HourOf(p.at)
  <2>1. /\ p \in Probe /\ e \in Endpoints /\ h \in Hours /\ p.at \in Times
        /\ watermark[e] \in Times /\ worker.cutoff \in Times
    BY Typed
  <2>2. /\ p.at < watermark[e] => p \in rollups[e][h]
        /\ p.at >= watermark[e] => p \in probes
    BY <1>8 DEF RowsArePlaced
  <2>3. p.at >= watermark[e] /\ p.at < worker.cutoff => p \in worker.groups
    BY <1>1, <1>8, <2>2 DEF GroupsAreCurrent
  <2>4. p \in worker.groups => p \in Group(e, h)
    BY DEF Group
  <2>5. CASE p.at < watermark[e]
    <3>1. p \in rollups'[e][h]
      BY <2>1, <2>2, <2>5, CommitWrites
    <3>2. p.at < watermark'[e]
      BY <1>2, <2>1, <2>5, CommitWrites DEF Times
    <3> QED
      BY <1>2, <2>1, <3>1, <3>2 DEF Times
  <2>6. CASE p.at >= watermark[e] /\ p.at < worker.cutoff
    <3>1. p \in rollups'[e][h] /\ watermark'[e] = worker.cutoff
      BY <2>1, <2>3, <2>4, <2>6, CommitWrites
    <3> QED
      BY <2>1, <2>2, <2>6, <3>1
  <2>7. CASE p.at >= watermark[e] /\ p.at >= worker.cutoff
    <3>1. p \in probes
      BY <2>2, <2>7
    <3>2. p.at >= watermark'[e]
      BY <2>1, <2>7, CommitWrites
    <3> QED
      BY <1>2, <2>1, <2>7, <3>1, <3>2 DEF Times
  <2> QED
    BY <2>1, <2>5, <2>6, <2>7 DEF Times
<1>9. RowsArePlaced'
  BY <1>1, <1>8 DEF RowsArePlaced, Exists
<1>10. RolledIsMarked'
  <2>1. Cutoff(lastRollup) = worker.cutoff
    BY <1>1 DEF GroupsAreCurrent
  <2> QED
    BY <1>1, <1>8, <2>1 DEF RolledIsMarked, Exists, Cutoff
<1>11. \A r \in Readers : series'[r] = IF series[r].at = "idle" THEN series[r]
                                       ELSE [series[r] EXCEPT !.overtaken = TRUE]
  BY DEF RollupCommits
<1>12. ASSUME NEW r \in Readers
       PROVE  /\ series'[r].at = series[r].at /\ series'[r].ep = series[r].ep
              /\ series'[r].since = series[r].since /\ series'[r].buckets = series[r].buckets
              /\ series'[r].expected = series[r].expected
              /\ series[r].at # "idle" => series'[r].overtaken = TRUE
  <2>1. CASE series[r].at = "idle"
    BY <1>11, <2>1
  <2>2. CASE series[r].at # "idle"
    <3>1. series[r] \in BegunSeries
      BY <2>2, BegunReads DEF TypeOK
    <3> QED
      BY <1>11, <2>2, <3>1 DEF BegunSeries
  <2> QED
    BY <2>1, <2>2
<1>13. ReadsAreCurrent'
  BY <1>1, <1>12 DEF ReadsAreCurrent
<1>14. SeriesIsExact'
  BY <1>1, <1>12 DEF SeriesIsExact
<1> QED
  BY <1>3, <1>4, <1>5, <1>6, <1>7, <1>9, <1>10, <1>13, <1>14

\* A failed rollup is no longer spoken of.
LEMMA RollupFailsKeeps ==
    ASSUME IInv, TypeOK', RollupFails
    PROVE  IInv'
<1> USE DEF IInv, Tables, WorkerInv
<1>1. /\ UNCHANGED <<now, endpoint, probes, rollups, watermark, lastRollup, series, stored>>
      /\ failures' # 0
  BY Typed DEF RollupFails, table, due
<1>2. RowsArePast' /\ BucketsAreSound' /\ MarksAreHours' /\ ReadsAreCurrent'
  BY <1>1 DEF RowsArePast, BucketsAreSound, MarksAreHours, ReadsAreCurrent, Exists
<1>3. RowsArePlaced' /\ RolledIsMarked'
  BY <1>1 DEF RowsArePlaced, RolledIsMarked
<1>4. WorkerIsTimely' /\ GroupsAreCurrent'
  BY <1>1 DEF WorkerIsTimely, GroupsAreCurrent, RollupFails, Afterwards, IdleWorker
<1>5. SeriesIsExact'
  BY <1>1 DEF SeriesIsExact, Exists, Of
<1> QED
  BY <1>2, <1>3, <1>4, <1>5

\* The cleanup deletes only what the last rollup has moved the watermarks past.
LEMMA CleanupKeeps ==
    ASSUME IInv, TypeOK', Cleanup
    PROVE  IInv'
<1> USE DEF IInv, Tables, WorkerInv
<1>1. /\ UNCHANGED <<now, endpoint, rollups, watermark, lastRollup, series, stored, failures>>
      /\ worker.at = "cleaning" /\ worker'.at = "idle" /\ probes' \subseteq probes
      /\ \A p \in probes : p \notin probes' => ~(p.at >= Ago(worker.tick, Retention))
  BY DEF Cleanup, due, IdleWorker
<1>2. RowsArePast' /\ BucketsAreSound' /\ MarksAreHours' /\ ReadsAreCurrent'
  BY <1>1 DEF RowsArePast, BucketsAreSound, MarksAreHours, ReadsAreCurrent, Exists
<1>3. WorkerIsTimely' /\ GroupsAreCurrent'
  BY <1>1 DEF WorkerIsTimely, GroupsAreCurrent
<1>4. RolledIsMarked'
  BY <1>1 DEF RolledIsMarked, Exists, Cutoff
<1>5. RowsArePlaced'
  <2> SUFFICES ASSUME failures = 0, NEW p \in stored, Exists(p.ep), p.at >= watermark[p.ep]
               PROVE  p \in probes'
    BY <1>1 DEF RowsArePlaced, Exists
  <2>1. p \in probes /\ p \in Probe /\ p.at \in Times /\ watermark[p.ep] \in Times
    BY Typed DEF RowsArePlaced
  <2>2. lastRollup \in Times /\ lastRollup # None /\ worker.tick \in Times
    BY <1>1, Typed DEF WorkerIsTimely
  <2>3. Ago(worker.tick, Retention) <= Cutoff(lastRollup)
    BY <1>1, <2>2, AgeAssumption DEF WorkerIsTimely, Cutoff
  <2>4. ~(p.at < Cutoff(lastRollup))
    <3>1. p.at < Cutoff(lastRollup) => p.at < watermark[p.ep]
      BY <1>1, <2>2 DEF RolledIsMarked
    <3> QED
      BY <2>1, <3>1 DEF Times
  <2>5. Ago(worker.tick, Retention) \in Times /\ Cutoff(lastRollup) \in Times
    BY <2>2, AgoFacts, CutoffFacts, AgeAssumption
  <2>6. p.at >= Ago(worker.tick, Retention)
    BY <2>1, <2>3, <2>4, <2>5 DEF Times
  <2> QED
    BY <1>1, <2>1, <2>6
<1>6. SeriesIsExact'
  BY <1>1 DEF SeriesIsExact, Exists, Of
<1> QED
  BY <1>2, <1>3, <1>4, <1>5, <1>6

\* A new process has rolled nothing up yet, and cleans nothing before it has.
LEMMA RestartKeeps ==
    ASSUME IInv, TypeOK', Restart
    PROVE  IInv'
<1> USE DEF IInv, Tables, WorkerInv
<1>1. /\ UNCHANGED <<now, endpoint, probes, rollups, watermark, stored, failures>>
      /\ lastRollup' = None /\ worker'.at = "idle"
      /\ \A r \in Readers : series'[r].at = "idle" /\ series'[r].expected = {}
  BY DEF Restart, table, IdleWorker, NoSeries
<1>2. RowsArePast' /\ BucketsAreSound' /\ MarksAreHours'
  BY <1>1 DEF RowsArePast, BucketsAreSound, MarksAreHours
<1>3. WorkerIsTimely' /\ GroupsAreCurrent' /\ RolledIsMarked'
  BY <1>1 DEF WorkerIsTimely, GroupsAreCurrent, RolledIsMarked
<1>4. RowsArePlaced'
  BY <1>1 DEF RowsArePlaced, Exists
<1>5. ReadsAreCurrent' /\ SeriesIsExact'
  BY <1>1 DEF ReadsAreCurrent, SeriesIsExact
<1> QED
  BY <1>2, <1>3, <1>4, <1>5

-----------------------------------------------------------------------------
(* The inductive invariant: reads *)

\* What a read s holds is what its statements so far could find, and found.
ReadIsGood(s) ==
    /\ s.at # "idle" => s.ep \in Endpoints
    /\ \A p \in s.expected : p \in stored /\ p.ep = s.ep /\ HourOf(p.at) >= s.since
    /\ s.at \in {"rolled", "marked"} /\ ~s.overtaken /\ Exists(s.ep) =>
          /\ \A h \in Hours : s.buckets[h] = IF h >= s.since THEN rollups[s.ep][h] ELSE {}
          /\ s.at = "marked" =>
                s.tail = IF watermark[s.ep] > s.since THEN watermark[s.ep] ELSE s.since
    /\ s.at = "read" /\ ~s.overtaken /\ Exists(s.ep) =>
          /\ failures = 0 => \A p \in s.expected : p \in s.buckets[HourOf(p.at)]
          /\ \A h \in Hours : \A p \in s.buckets[h] : p \in Of(s.ep) /\ HourOf(p.at) = h

\* A step of a read leaves the tables alone, and the other reads.
LEMMA ReadKeeps ==
    ASSUME IInv, NEW r \in Readers, SeriesKeeps,
           \A q \in Readers : q # r => series'[q] = series[q],
           ReadIsGood(series'[r]), TypeOK'
    PROVE  IInv'
<1> USE DEF IInv, Tables, WorkerInv, ReadIsGood
<1>1. UNCHANGED <<now, endpoint, probes, rollups, watermark, worker, lastRollup, stored, failures>>
  BY DEF SeriesKeeps, table, due
<1>2. RowsArePast' /\ BucketsAreSound' /\ MarksAreHours' /\ RowsArePlaced'
  BY <1>1 DEF RowsArePast, BucketsAreSound, MarksAreHours, RowsArePlaced, Exists
<1>3. WorkerIsTimely' /\ GroupsAreCurrent' /\ RolledIsMarked'
  BY <1>1 DEF WorkerIsTimely, GroupsAreCurrent, RolledIsMarked, Exists, Cutoff
<1>4. ReadsAreCurrent'
  BY <1>1 DEF ReadsAreCurrent, Exists
<1>5. SeriesIsExact'
  BY <1>1 DEF SeriesIsExact, Exists, Of
<1> QED
  BY <1>2, <1>3, <1>4, <1>5

\* A row that was expected is in the rollup of its hour, or that hour has no
\* rollup and the row is in the tail.
LEMMA ExpectedIsFound ==
    ASSUME IInv, NEW r \in Readers, series[r] \in BegunSeries, failures = 0,
           Exists(series[r].ep), NEW p \in stored, p.ep = series[r].ep,
           HourOf(p.at) >= series[r].since,
           \A h \in Hours : series[r].buckets[h]
              = IF h >= series[r].since THEN rollups[series[r].ep][h] ELSE {},
           series[r].tail = IF watermark[series[r].ep] > series[r].since
                            THEN watermark[series[r].ep] ELSE series[r].since
    PROVE  IF series[r].buckets[HourOf(p.at)] # {} THEN p \in series[r].buckets[HourOf(p.at)]
           ELSE p \in Tail(series[r])
<1> USE DEF IInv, Tables
<1> DEFINE e == p.ep
           h == HourOf(p.at)
<1>1. /\ p \in Probe /\ e \in Endpoints /\ h \in Hours /\ h \in Times /\ p.at \in Times
      /\ watermark[e] \in Times /\ series[r].since \in Times /\ h <= p.at
  BY Typed, HourFacts DEF BegunSeries
<1>2. series[r].buckets[h] = rollups[e][h]
  BY <1>1
<1>3. CASE p.at < watermark[e]
  <2>1. p \in rollups[e][h]
    BY <1>3 DEF RowsArePlaced
  <2> QED
    BY <1>2, <2>1
<1>4. CASE p.at >= watermark[e]
  <2>1. p \in probes
    BY <1>4 DEF RowsArePlaced
  <2>2. p.at >= series[r].tail
    BY <1>1, <1>4 DEF Times
  <2>3. p \in Tail(series[r])
    BY <2>1, <2>2 DEF Tail
  <2>4. rollups[e][h] = {}
    <3> SUFFICES ASSUME NEW q \in rollups[e][h] PROVE FALSE
      OBVIOUS
    <3>1. q \in Probe /\ HourOf(q.at) = h /\ q.at < watermark[e] /\ q.at \in Times
      BY <1>1, Typed DEF BucketsAreSound
    <3>2. p.at < watermark[e]
      BY <1>1, <3>1, HoursAreWhole DEF MarksAreHours
    <3> QED
      BY <1>1, <1>4, <3>2 DEF Times
  <2> QED
    BY <1>2, <2>3, <2>4
<1> QED
  BY <1>1, <1>3, <1>4 DEF Times

\* The three statements of a read, and the response.
LEMMA GetSeriesKeeps ==
    ASSUME IInv, TypeOK', NEW r \in Readers, GetSeries(r)
    PROVE  IInv'
<1> USE DEF IInv, Tables, WorkerInv
<1>0. r \in DOMAIN series /\ series[r] \in Series
  BY DEF TypeOK
<1>1. ASSUME NEW e \in Endpoints, NEW window \in Windows, ReadRollups(r, e, window)
      PROVE  IInv'
  <2>1. /\ SeriesKeeps /\ \A q \in Readers : q # r => series'[q] = series[q]
        /\ series'[r] =
             [at |-> "rolled", ep |-> e, since |-> Ago(now, window), tail |-> 0,
              buckets |-> [h \in Hours |-> IF h >= Ago(now, window) THEN rollups[e][h] ELSE {}],
              expected |-> {p \in stored : p.ep = e /\ HourOf(p.at) >= Ago(now, window)},
              overtaken |-> FALSE]
    BY <1>0, <1>1 DEF ReadRollups, TypeOK
  <2>2. /\ series'[r].at = "rolled" /\ series'[r].ep = e /\ series'[r].since = Ago(now, window)
        /\ series'[r].expected = {p \in stored : p.ep = e /\ HourOf(p.at) >= Ago(now, window)}
        /\ \A h \in Hours : series'[r].buckets[h]
              = IF h >= Ago(now, window) THEN rollups[e][h] ELSE {}
    BY <2>1
  <2>3. ReadIsGood(series'[r])
    BY <2>2 DEF ReadIsGood
  <2> QED
    BY <2>1, <2>3, ReadKeeps
<1>2. ASSUME ReadWatermark(r)
      PROVE  IInv'
  <2>1. series[r] \in BegunSeries /\ series[r].at = "rolled"
    BY <1>0, <1>2, BegunReads DEF ReadWatermark
  <2>2. /\ SeriesKeeps /\ \A q \in Readers : q # r => series'[q] = series[q]
        /\ series'[r] = [series[r] EXCEPT !.at = "marked",
               !.tail = IF watermark[series[r].ep] > series[r].since
                        THEN watermark[series[r].ep] ELSE series[r].since]
    BY <1>0, <1>2 DEF ReadWatermark, TypeOK
  <2>3. /\ series'[r].at = "marked" /\ series'[r].ep = series[r].ep
        /\ series'[r].since = series[r].since /\ series'[r].buckets = series[r].buckets
        /\ series'[r].expected = series[r].expected
        /\ series'[r].overtaken = series[r].overtaken
        /\ series'[r].tail = IF watermark[series[r].ep] > series[r].since
                             THEN watermark[series[r].ep] ELSE series[r].since
    BY <2>1, <2>2 DEF BegunSeries
  <2>4. series'[r].ep \in Endpoints
    BY <2>1, <2>3 DEF BegunSeries
  <2>5. \A p \in series'[r].expected :
           p \in stored /\ p.ep = series'[r].ep /\ HourOf(p.at) >= series'[r].since
    BY <2>3 DEF ReadsAreCurrent
  <2>6. ~series'[r].overtaken /\ Exists(series'[r].ep) =>
           \A h \in Hours : series'[r].buckets[h]
              = IF h >= series'[r].since THEN rollups[series'[r].ep][h] ELSE {}
    BY <2>1, <2>3 DEF ReadsAreCurrent
  <2>7. ReadIsGood(series'[r])
    BY <2>3, <2>4, <2>5, <2>6 DEF ReadIsGood
  <2> QED
    BY <2>2, <2>7, ReadKeeps
<1>3. ASSUME ReadTail(r)
      PROVE  IInv'
  <2> DEFINE s == series[r]
  <2>1. s \in BegunSeries /\ s.at = "marked" /\ s.ep \in Endpoints
    BY <1>0, <1>3, BegunReads DEF ReadTail, BegunSeries
  <2>2. /\ SeriesKeeps /\ \A q \in Readers : q # r => series'[q] = series[q]
        /\ series'[r] = [s EXCEPT !.at = "read",
               !.buckets = [h \in Hours |-> IF s.buckets[h] # {} THEN s.buckets[h]
                                            ELSE {p \in Tail(s) : HourOf(p.at) = h}]]
    BY <1>0, <1>3 DEF ReadTail, TypeOK
  <2>3. /\ series'[r].at = "read" /\ series'[r].ep = s.ep /\ series'[r].since = s.since
        /\ series'[r].expected = s.expected /\ series'[r].overtaken = s.overtaken
        /\ \A h \in Hours : series'[r].buckets[h] =
              IF s.buckets[h] # {} THEN s.buckets[h] ELSE {p \in Tail(s) : HourOf(p.at) = h}
    BY <2>1, <2>2 DEF BegunSeries
  <2>4. \A p \in s.expected : p \in stored /\ p.ep = s.ep /\ HourOf(p.at) >= s.since
    BY DEF ReadsAreCurrent
  <2>5. ASSUME ~s.overtaken, Exists(s.ep)
        PROVE  /\ \A h \in Hours : s.buckets[h] = IF h >= s.since THEN rollups[s.ep][h] ELSE {}
               /\ s.tail = IF watermark[s.ep] > s.since THEN watermark[s.ep] ELSE s.since
    BY <2>1, <2>5 DEF ReadsAreCurrent
  <2>6. ASSUME ~s.overtaken, Exists(s.ep), failures = 0, NEW p \in s.expected
        PROVE  p \in series'[r].buckets[HourOf(p.at)]
    <3>1. p \in stored /\ p.ep = s.ep /\ HourOf(p.at) >= s.since /\ HourOf(p.at) \in Hours
      BY <2>4, <2>6, Typed
    <3>2. IF s.buckets[HourOf(p.at)] # {} THEN p \in s.buckets[HourOf(p.at)] ELSE p \in Tail(s)
      BY <2>1, <2>5, <2>6, <3>1, ExpectedIsFound
    <3> HIDE DEF s
    <3> QED
      BY <2>3, <3>1, <3>2
  <2>7. ASSUME ~s.overtaken, Exists(s.ep), NEW h \in Hours, NEW p \in series'[r].buckets[h]
        PROVE  p \in Of(s.ep) /\ HourOf(p.at) = h
    <3>1. CASE p \in rollups[s.ep][h]
      BY <2>1, <3>1 DEF BucketsAreSound, Of
    <3>2. CASE p \in Tail(s) /\ HourOf(p.at) = h
      BY <3>2 DEF Tail, RowsArePast, Of
    <3> QED
      BY <2>3, <2>5, <2>7, <3>1, <3>2
  <2>8. /\ series'[r].ep \in Endpoints
        /\ \A p \in series'[r].expected :
              p \in stored /\ p.ep = series'[r].ep /\ HourOf(p.at) >= series'[r].since
    BY <2>1, <2>3, <2>4
  <2>9. ASSUME ~series'[r].overtaken, Exists(series'[r].ep)
        PROVE  /\ failures = 0 =>
                     \A p \in series'[r].expected : p \in series'[r].buckets[HourOf(p.at)]
               /\ \A h \in Hours : \A p \in series'[r].buckets[h] :
                     p \in Of(series'[r].ep) /\ HourOf(p.at) = h
    BY <2>3, <2>6, <2>7, <2>9
  <2> HIDE DEF s
  <2>10. ReadIsGood(series'[r])
    BY <2>3, <2>8, <2>9 DEF ReadIsGood
  <2> QED
    BY <2>2, <2>10, ReadKeeps
<1>4. ASSUME Respond(r)
      PROVE  IInv'
  <2>1. /\ SeriesKeeps /\ \A q \in Readers : q # r => series'[q] = series[q]
        /\ series'[r] = NoSeries
    BY <1>0, <1>4 DEF Respond, TypeOK
  <2>2. series'[r].at = "idle" /\ series'[r].expected = {}
    BY <2>1 DEF NoSeries
  <2>3. ReadIsGood(series'[r])
    BY <2>2 DEF ReadIsGood
  <2> QED
    BY <2>1, <2>3, ReadKeeps
<1> QED
  BY <1>1, <1>2, <1>3, <1>4 DEF GetSeries

-----------------------------------------------------------------------------
(* The theorems *)

\* Every step keeps the invariant.
LEMMA StepKeeps ==
    ASSUME IInv, [Next]_vars
    PROVE  IInv'
<1>1. TypeOK'
  BY StepTypes DEF IInv
<1>2. ASSUME NEW e \in Endpoints, UpdateEndpoint(e)
      PROVE  IInv'
  <2>1. /\ UNCHANGED <<now, probes, rollups, watermark, worker, lastRollup, series, stored,
                       failures>>
        /\ \A x \in Endpoints : Exists(x)' <=> Exists(x)
    BY <1>2 DEF UpdateEndpoint, table, due, Exists, IInv, TypeOK
  <2>2. \A p \in stored : p.ep \in Endpoints
    BY Typed DEF IInv
  <2>3. RowsArePast' /\ BucketsAreSound' /\ MarksAreHours' /\ WorkerIsTimely'
    BY <2>1 DEF IInv, Tables, WorkerInv, RowsArePast, BucketsAreSound, MarksAreHours, WorkerIsTimely
  <2>4. GroupsAreCurrent' /\ RolledIsMarked' /\ RowsArePlaced'
    <3>1. RowsArePlaced'
      BY <2>1, <2>2 DEF IInv, RowsArePlaced
    <3>2. RolledIsMarked'
      BY <2>1, <2>2 DEF IInv, WorkerInv, RolledIsMarked, Cutoff
    <3>3. GroupsAreCurrent'
      BY <2>1, <2>2 DEF IInv, Tables, WorkerInv, GroupsAreCurrent, RowsArePast, Cutoff
    <3> QED
      BY <3>1, <3>2, <3>3
  <2>5. ReadsAreCurrent'
    BY <2>1 DEF IInv, ReadsAreCurrent
  <2>6. SeriesIsExact'
    BY <2>1, SeriesOfEndpoints DEF IInv, SeriesIsExact, Of
  <2> QED
    BY <1>1, <2>3, <2>4, <2>5, <2>6 DEF IInv, Tables, WorkerInv
<1>3. ASSUME NEW e \in Endpoints, DeleteEndpoint(e)
      PROVE  IInv'
  <2>1. \A x \in Endpoints : Exists(x)' => Exists(x) /\ x \notin {e}
    BY <1>3 DEF DeleteEndpoint, Exists, IInv, TypeOK
  <2> QED
    BY <1>1, <1>3, <2>1, ForgetKeeps DEF DeleteEndpoint
<1>4. ASSUME PruneDeadEndpoints
      PROVE  IInv'
  <2>1. \A x \in Endpoints : Exists(x)' => Exists(x) /\ x \notin Dead
    BY <1>4 DEF PruneDeadEndpoints, Exists, IInv, TypeOK
  <2>2. Dead \in SUBSET Endpoints
    BY DEF Dead
  <2> QED
    BY <1>1, <1>4, <2>1, <2>2, ForgetKeeps DEF PruneDeadEndpoints
<1>5. ASSUME UNCHANGED vars
      PROVE  IInv'
  BY <1>5 DEF vars, table, due, IInv, Tables, WorkerInv, TypeOK, RowsArePast, BucketsAreSound,
     MarksAreHours, WorkerIsTimely, GroupsAreCurrent, RolledIsMarked, RowsArePlaced,
     ReadsAreCurrent, SeriesIsExact, Exists, Of, Cutoff
<1> QED
  BY <1>1, <1>2, <1>3, <1>4, <1>5, CreateProbeKeeps, TickKeeps, WorkerTickKeeps,
     RollupCommitsKeeps, RollupFailsKeeps, CleanupKeeps, RestartKeeps, GetSeriesKeeps
  DEF Next, Edit, Work

\* The inductive invariant holds in every reachable state.
THEOREM HistoryInvariant == Spec => []IInv
<1>1. Init => IInv
  BY InitEstablishes
<1>2. IInv /\ [Next]_vars => IInv'
  BY StepKeeps
<1> QED
  BY <1>1, <1>2, PTL DEF Spec

\* Every row of an existing endpoint is in its rollups or in its raw tail, as
\* long as no rollup fails.
THEOREM HistoryIsNeverLost == Spec => []HistoryIsKept
<1>1. IInv => HistoryIsKept
  <2> SUFFICES ASSUME IInv, failures = 0, NEW e \in Endpoints, Exists(e)
               PROVE  Of(e) = Rolled(e) \cup RawTail(e)
    BY DEF HistoryIsKept
  <2>1. ASSUME NEW p \in Of(e)
        PROVE  p \in Rolled(e) \cup RawTail(e)
    <3>1. p \in stored /\ p.ep = e /\ p \in Probe /\ HourOf(p.at) \in Hours
      BY Typed DEF Of, IInv
    <3>2. p.at < watermark[e] \/ p.at >= watermark[e]
      BY <3>1, Typed DEF IInv
    <3>3. p.at < watermark[e] => p \in rollups[e][HourOf(p.at)]
      BY <3>1 DEF IInv, RowsArePlaced
    <3>4. p.at >= watermark[e] => p \in RawTail(e)
      BY <3>1 DEF IInv, RowsArePlaced, RawTail
    <3> QED
      BY <3>1, <3>2, <3>3, <3>4 DEF Rolled
  <2>2. ASSUME NEW p \in Rolled(e) \cup RawTail(e)
        PROVE  p \in Of(e)
    BY <2>2 DEF Rolled, RawTail, Of, IInv, Tables, BucketsAreSound, RowsArePast
  <2> QED
    BY <2>1, <2>2
<1> QED
  BY <1>1, HistoryInvariant, PTL

\* A series that no rollup overtook is exact.
THEOREM ReadsAreExact == Spec => []SeriesIsExact
<1>1. IInv => SeriesIsExact
  BY DEF IInv
<1> QED
  BY <1>1, HistoryInvariant, PTL

\* An hour that has been rolled up is never rolled up again.
THEOREM BucketsNeverChange == Spec => BucketsAreFinal
<1>1. ASSUME IInv, [Next]_vars, NEW e \in Endpoints, NEW h \in Hours, rollups[e][h] # {}
      PROVE  rollups'[e][h] \in {rollups[e][h], {}}
  <2>1. CASE RollupCommits
    <3>1. PICK p \in rollups[e][h] : TRUE
      BY <1>1
    <3>2. p \in Probe /\ p.ep = e /\ HourOf(p.at) = h /\ p.at < watermark[e]
      BY <1>1, Typed DEF IInv, Tables, BucketsAreSound
    <3>3. Group(e, h) = {}
      BY <1>1, <2>1, <3>2, GroupsAreFresh
    <3> QED
      BY <2>1, <3>3 DEF RollupCommits
  <2>2. ASSUME NEW gone \in SUBSET Endpoints, Forget(gone)
        PROVE  rollups'[e][h] \in {rollups[e][h], {}}
    BY <2>2 DEF Forget, NoBuckets
  <2>3. CASE rollups' = rollups
    BY <2>3
  <2>4. Dead \in SUBSET Endpoints
    BY DEF Dead
  <2>5. \/ RollupCommits \/ rollups' = rollups
        \/ \E gone \in SUBSET Endpoints : Forget(gone)
    BY <1>1, <2>4 DEF Next, Edit, Work, GetSeries, CreateProbe, Tick, UpdateEndpoint,
       DeleteEndpoint, PruneDeadEndpoints, WorkerTick, RollupFails, Cleanup, Restart, ReadRollups,
       ReadWatermark, ReadTail, Respond, SeriesKeeps, vars, table
  <2> QED
    BY <2>1, <2>2, <2>3, <2>5
<1>2. IInv /\ [Next]_vars =>
         [\A e \in Endpoints, h \in Hours :
             rollups[e][h] # {} => rollups'[e][h] \in {rollups[e][h], {}}]_vars
  BY <1>1
<1> QED
  BY <1>2, HistoryInvariant, PTL DEF Spec, BucketsAreFinal

\* An endpoint that has ever answered is never pruned, as long as no rollup fails.
THEOREM TheLivingStay == Spec => LivingAreKept
<1>1. ASSUME IInv, [Next]_vars, failures = 0, NEW e \in Endpoints,
             endpoint[e] # "pruned", endpoint'[e] = "pruned"
      PROVE  \A p \in Of(e) : ~p.ok
  <2>1. PruneDeadEndpoints
    <3>1. \/ PruneDeadEndpoints \/ endpoint' = endpoint
          \/ \E x \in Endpoints : UpdateEndpoint(x) \/ DeleteEndpoint(x)
      BY <1>1 DEF Next, Edit, Work, GetSeries, CreateProbe, Tick, WorkerTick, RollupCommits,
         RollupFails, Cleanup, Restart, ReadRollups, ReadWatermark, ReadTail, Respond,
         SeriesKeeps, vars
    <3>2. ~ \E x \in Endpoints : UpdateEndpoint(x) \/ DeleteEndpoint(x)
      BY <1>1 DEF UpdateEndpoint, DeleteEndpoint, IInv, TypeOK
    <3> QED
      BY <1>1, <3>1, <3>2
  <2>2. e \in Dead
    BY <1>1, <2>1 DEF PruneDeadEndpoints
  <2>3. Exists(e) /\ NeverSucceeded(e)
    BY <2>2 DEF Dead, Exists
  <2> SUFFICES ASSUME NEW p \in Of(e) PROVE ~p.ok
    OBVIOUS
  <2>4. p \in stored /\ p.ep = e /\ p \in Probe /\ HourOf(p.at) \in Hours
    BY <1>1, Typed DEF Of, IInv
  <2>5. p \in probes \/ p \in rollups[e][HourOf(p.at)]
    <3>1. p.at < watermark[e] \/ p.at >= watermark[e]
      BY <1>1, <2>4, Typed DEF IInv
    <3> QED
      BY <1>1, <2>3, <2>4, <3>1 DEF IInv, RowsArePlaced
  <2>6. CASE p \in probes
    BY <2>3, <2>4, <2>6, Zenon DEF NeverSucceeded
  <2>7. CASE p \in rollups[e][HourOf(p.at)]
    BY <2>3, <2>4, <2>7, Zenon DEF NeverSucceeded
  <2> QED
    BY <2>5, <2>6, <2>7
<1>2. IInv /\ [Next]_vars =>
         [failures = 0 =>
            \A e \in Endpoints :
              endpoint[e] # "pruned" /\ endpoint'[e] = "pruned" => \A p \in Of(e) : ~p.ok]_vars
  BY <1>1
<1> QED
  BY <1>2, HistoryInvariant, PTL DEF Spec, LivingAreKept

\* The clock, the watermarks, the worker's marks and every read stay in their ranges:
\* no watermark lies before the first tick, and none past the last.
THEOREM TypesHold == Spec => []TypeOK
<1>1. IInv => TypeOK
  BY DEF IInv
<1> QED
  BY <1>1, HistoryInvariant, PTL
=============================================================================
