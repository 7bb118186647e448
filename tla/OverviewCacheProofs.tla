------------------------- MODULE OverviewCacheProofs -------------------------
(***************************************************************************)
(* Theorems about the overview cache, for any number of clients, writes,   *)
(* hours and failures.                                                     *)
(***************************************************************************)
EXTENDS OverviewCache, TLAPS

-----------------------------------------------------------------------------
(* The inductive invariant *)

\* What a request could know of had been committed.
BeforeCommitted == \A r \in Readers : before[r] \subseteq written

\* What a request could know of is in the watermark it read or was announced.
BeforeMarked ==
    \A r \in Readers : reader[r] \in {"asked", "looking"} =>
        before[r] \subseteq seen[r].probes \cup announced


\* What build b has to show: what its first readings of the markers counted, and
\* what its leader's request knew of.
Owed(b, known) == b.wm0 \cup b.gen0 \cup known

\* The read of build b that shows write w is done.
Covered(b, w) ==
    \/ w \in ModelEdits /\ b.phase \notin {"wm0", "gen0", "models"}
    \/ w \in Settles /\ b.phase \notin {"wm0", "gen0", "models", "scores"}
    \/ /\ w \in EndpointEdits
       /\ ModelOf[w] \notin b.left \/ (b.phase = "rows" /\ ModelOf[w] = NextModel(b.left))
    \/ w \in Probes /\ ModelOf[w] \notin b.left

\* Of these writes, build b shows all whose read is done.
Shows(b, owed) == \A w \in owed : Covered(b, w) => w \in b.content

\* The loop over the models is over when none is left, and not before.
LoopEnds(b) ==
    /\ b.phase \in {"wm0", "gen0", "models", "scores"} => b.left = Models
    /\ b.phase \in {"endpoints", "rows"} => b.left # {}
    /\ b.phase \in {"wm1", "gen1", "ready"} => b.left = {}

\* What a build has to show was committed, and is shown table by table.
BuildSees ==
    build # None =>
        /\ Owed(build, before[leader]) \subseteq written
        /\ Shows(build, Owed(build, before[leader]))
        /\ LoopEnds(build)
        /\ build.phase = "ready" =>
              /\ build.result \in Snapshot
              /\ before[leader] \subseteq build.content
              /\ build.result.content = build.content
              /\ build.result.settled =>
                    (build.result.probes \cup build.result.gen) \subseteq build.content

\* A settled snapshot shows every write its markers count.
SettledIsWhole ==
    snap # None /\ snap.settled => (snap.probes \cup snap.gen) \subseteq snap.content

CacheInv == TypeOK /\ BeforeCommitted /\ BeforeMarked /\ BuildSees /\ SettledIsWhole

-----------------------------------------------------------------------------
(* Types *)

\* A fresh attempt is a build that has read nothing.
LEMMA NewAttemptTyped ==
    ASSUME NEW n \in 0 .. LastAttempt
    PROVE  NewAttempt(n) \in Build /\ NewAttempt(n) # None
  BY CacheAssumption, NoneIsNothing DEF NewAttempt, Build, LastAttempt

\* The initial state is well typed.
LEMMA InitTyped == Init => TypeOK
  BY CacheAssumption, NoneIsNothing DEF Init, TypeOK, NothingSeen, Places

\* A build step that writes a build keeps the types.
LEMMA BuildingTyped ==
    ASSUME TypeOK, NEW phase, NEW b \in Build, Building(phase, b)
    PROVE  TypeOK'
<1>1. b # None
  BY NoneIsNothing
<1> QED
  BY <1>1 DEF TypeOK, Building, requests

\* So does each read of buildOverviewDTO.
LEMMA LoopReadTyped ==
    ASSUME TypeOK, build \in Build, ReadScores \/ ListEndpoints \/ GatherRows
    PROVE  TypeOK'
<1>1. written \subseteq Writes
  BY DEF TypeOK
<1>2. CASE ReadScores
  <2>1. [build EXCEPT !.content = @ \cup (written \cap Settles),
                      !.phase = AfterModels(build.left)] \in Build
    BY <1>1 DEF Build, AfterModels
  <2> QED
    BY <1>2, <2>1, BuildingTyped DEF ReadScores
<1>3. CASE ListEndpoints
  <2> DEFINE shown == {w \in written \cap EndpointEdits : ModelOf[w] = NextModel(build.left)}
  <2>1. shown \subseteq Writes
    BY <1>1
  <2>2. [build EXCEPT !.content = @ \cup shown, !.phase = "rows"] \in Build
    <3> HIDE DEF shown
    <3> QED
      BY <2>1 DEF Build
  <2> QED
    BY <1>3, <2>2, BuildingTyped DEF ListEndpoints
<1>4. CASE GatherRows
  <2> DEFINE shown == {w \in Watermark : ModelOf[w] = NextModel(build.left)}
             rest == build.left \ {NextModel(build.left)}
  <2>1. shown \subseteq Writes
    BY <1>1 DEF Watermark
  <2>2. rest \subseteq Models
    BY DEF Build
  <2>3. [build EXCEPT !.content = @ \cup shown, !.left = rest,
                      !.phase = AfterModels(rest)] \in Build
    <3> HIDE DEF shown, rest
    <3> QED
      BY <2>1, <2>2 DEF Build, AfterModels
  <2> QED
    BY <1>4, <2>3, BuildingTyped DEF GatherRows
<1> QED
  BY <1>2, <1>3, <1>4

\* The end of a flight keeps the types of all but the snapshot and failures.
LEMMA EndFlightTyped ==
    ASSUME TypeOK, EndFlight,
           snap' \in Snapshot \cup {None}, failures' \in 0 .. MaxFailures
    PROVE  TypeOK'
<1>1. \A r \in Readers : reader'[r] = "leading" <=> r = leader'
  BY NoneIsNothing DEF TypeOK, EndFlight, Answered
<1>2. reader' \in [Readers -> Places] /\ before' \in [Readers -> SUBSET Writes]
  BY DEF TypeOK, EndFlight, Places
<1> QED
  BY <1>1, <1>2 DEF TypeOK, EndFlight

\* Every step keeps the types.
LEMMA NextTyped == TypeOK /\ [Next]_vars => TypeOK'
<1> SUFFICES ASSUME TypeOK, [Next]_vars PROVE TypeOK'
  OBVIOUS
<1> USE CacheAssumption
<1>1. ASSUME NEW w \in Writes, Write(w) PROVE TypeOK'
  BY <1>1 DEF TypeOK, Write, cache, requests
<1>2. ASSUME NEW w \in Writes, InvalidateOverview(w) PROVE TypeOK'
  BY <1>2 DEF TypeOK, InvalidateOverview, cache, requests
<1>3. CASE NextHour
  BY <1>3 DEF TypeOK, NextHour, cache, requests
<1>4. ASSUME NEW r \in Readers, Ask(r) PROVE TypeOK'
  <2>1. reader' \in [Readers -> Places]
        /\ \A q \in Readers : reader'[q] = "leading" <=> q = leader'
    BY <1>4 DEF TypeOK, Ask, cache, Places
  <2>2. /\ seen' \in [Readers -> [probes : SUBSET Probes, hour : 0 .. MaxHours]]
        /\ before' \in [Readers -> SUBSET Writes]
    BY <1>4 DEF TypeOK, Ask, Watermark, Writes
  <2> QED
    BY <1>4, <2>1, <2>2 DEF TypeOK, Ask, cache
<1>5. ASSUME NEW r \in Readers, AskFails(r) PROVE TypeOK'
  BY <1>5 DEF TypeOK, AskFails, cache, requests
<1>6. ASSUME NEW r \in Readers, ReadHour(r) PROVE TypeOK'
  BY <1>6 DEF TypeOK, ReadHour, cache, Places
<1>7. ASSUME NEW r \in Readers, Serve(r) PROVE TypeOK'
  BY <1>7 DEF TypeOK, Serve, cache, Places, NothingSeen
<1>8. ASSUME NEW r \in Readers, Join(r) PROVE TypeOK'
  BY <1>8 DEF TypeOK, Join, cache, Places, NothingSeen
<1>9. ASSUME NEW r \in Readers, Lead(r) PROVE TypeOK'
  <2>1. NewAttempt(0) \in Build /\ NewAttempt(0) # None
    BY NewAttemptTyped DEF LastAttempt
  <2>2. \A q \in Readers : reader'[q] = "leading" <=> q = leader'
    BY <1>9, NoneIsNothing DEF TypeOK, Lead
  <2> QED
    BY <1>9, <2>1, <2>2, NoneIsNothing DEF TypeOK, Lead, Places, NothingSeen
<1>10. CASE Rebuild
  <2>1. build \in Build
    BY <1>10 DEF Rebuild, ReadWatermark0, ReadGen0, ListModels, ReadScores,
                 ListEndpoints, GatherRows, ReadWatermark1, Recheck, Publish,
                 Building, TypeOK
  <2>2. CASE ReadWatermark0
    <3>1. [build EXCEPT !.wm0 = Watermark, !.phase = "gen0"] \in Build
      BY <2>1 DEF Build, Watermark
    <3> QED
      BY <2>2, <3>1, BuildingTyped DEF ReadWatermark0
  <2>3. CASE ReadGen0
    <3>1. [build EXCEPT !.gen0 = StructGen, !.phase = "models"] \in Build
      BY <2>1 DEF Build, StructGen, TypeOK
    <3> QED
      BY <2>3, <3>1, BuildingTyped DEF ReadGen0
  <2>4. CASE ListModels
    <3>1. [build EXCEPT !.content = written \cap ModelEdits,
                        !.hour = hour, !.phase = "scores"] \in Build
      BY <2>1 DEF Build, TypeOK, Writes
    <3> QED
      BY <2>4, <3>1, BuildingTyped DEF ListModels
  <2>5. CASE ReadScores \/ ListEndpoints \/ GatherRows
    BY <2>1, <2>5, LoopReadTyped
  <2>6. CASE ReadWatermark1
    <3>1. [build EXCEPT !.wm1 = Watermark, !.phase = "gen1"] \in Build
      BY <2>1 DEF Build, Watermark
    <3> QED
      BY <2>6, <3>1, BuildingTyped DEF ReadWatermark1
  <2>7. CASE Recheck
    <3>1. Finished \in Snapshot
      BY <2>1 DEF Finished, Unmoved, StructGen, Build, Snapshot, TypeOK
    <3>2. CASE Unmoved \/ build.attempt >= LastAttempt
      <4>1. [build EXCEPT !.phase = "ready", !.result = Finished] \in Build
        BY <2>1, <3>1 DEF Build
      <4> QED
        BY <2>7, <3>2, <4>1, BuildingTyped DEF Recheck
    <3>3. CASE ~(Unmoved \/ build.attempt >= LastAttempt)
      <4>1. build.attempt + 1 \in 0 .. LastAttempt
        BY <2>1, <3>3 DEF Build, LastAttempt
      <4>2. NewAttempt(build.attempt + 1) \in Build
        BY <4>1, NewAttemptTyped
      <4> QED
        BY <2>7, <3>3, <4>2, BuildingTyped DEF Recheck
    <3> QED
      BY <3>2, <3>3
  <2>8. CASE Publish
    <3>1. snap' \in Snapshot \cup {None}
      BY <2>1, <2>8 DEF Publish, Build
    <3> QED
      BY <2>8, <3>1, EndFlightTyped DEF Publish, TypeOK
  <2> QED
    BY <1>10, <2>2, <2>3, <2>4, <2>5, <2>6, <2>7, <2>8 DEF Rebuild
<1>11. CASE FailBuild
  <2>1. failures' \in 0 .. MaxFailures
    BY <1>11 DEF FailBuild, TypeOK
  <2> QED
    BY <1>11, <2>1, EndFlightTyped DEF FailBuild, TypeOK
<1>12. CASE UNCHANGED vars
  BY <1>12 DEF TypeOK, vars, cache, requests
<1> QED
  BY <1>1, <1>2, <1>3, <1>4, <1>5, <1>6, <1>7, <1>8, <1>9, <1>10, <1>11, <1>12
     DEF Next, Request

\* Every reachable state is well typed: in particular exactly the leader leads,
\* and a rebuild exists exactly while there is one (overviewCache.inflight).
THEOREM BoardTypes == Spec => []TypeOK
<1> QED
  BY InitTyped, NextTyped, PTL DEF Spec

-----------------------------------------------------------------------------
(* What requests know *)

\* The steps of the rebuild touch neither the writes nor the requests, unless
\* they end the flight.
LEMMA RebuildFrame ==
    ASSUME Rebuild \/ FailBuild
    PROVE  /\ UNCHANGED <<written, announced, hour, seen>>
           /\ EndFlight \/ UNCHANGED <<reader, before, snap, leader>>
  BY DEF Rebuild, FailBuild, ReadWatermark0, ReadGen0, ListModels, ReadScores,
         ListEndpoints, GatherRows, ReadWatermark1, Recheck, Publish, Building,
         EndFlight, requests

\* BeforeCommitted is kept by every step.
LEMMA NextBeforeCommitted ==
    TypeOK /\ BeforeCommitted /\ [Next]_vars => BeforeCommitted'
<1> SUFFICES ASSUME TypeOK, BeforeCommitted, [Next]_vars PROVE BeforeCommitted'
  OBVIOUS
<1>1. ASSUME NEW w \in Writes, Write(w) \/ InvalidateOverview(w) PROVE BeforeCommitted'
  BY <1>1 DEF BeforeCommitted, Write, InvalidateOverview, requests
<1>2. CASE NextHour
  BY <1>2 DEF BeforeCommitted, NextHour, requests
<1>3. ASSUME NEW r \in Readers, Ask(r) PROVE BeforeCommitted'
  BY <1>3 DEF TypeOK, BeforeCommitted, Ask, Watermark
<1>4. ASSUME NEW r \in Readers, AskFails(r) \/ Request(r) PROVE BeforeCommitted'
  BY <1>4 DEF TypeOK, BeforeCommitted, AskFails, Request, ReadHour, Serve, Join, Lead, requests
<1>5. CASE Rebuild \/ FailBuild
  <2>1. EndFlight \/ UNCHANGED before
    BY <1>5, RebuildFrame
  <2> QED
    BY <1>5, <2>1, RebuildFrame DEF BeforeCommitted, EndFlight
<1>6. CASE UNCHANGED vars
  BY <1>6 DEF BeforeCommitted, vars, requests
<1> QED
  BY <1>1, <1>2, <1>3, <1>4, <1>5, <1>6 DEF Next

\* BeforeMarked is kept by every step.
LEMMA NextBeforeMarked ==
    TypeOK /\ BeforeMarked /\ [Next]_vars => BeforeMarked'
<1> SUFFICES ASSUME TypeOK, BeforeMarked, [Next]_vars PROVE BeforeMarked'
  OBVIOUS
<1>1. ASSUME NEW w \in Writes, Write(w) \/ InvalidateOverview(w) PROVE BeforeMarked'
  BY <1>1 DEF BeforeMarked, Write, InvalidateOverview, requests
<1>2. CASE NextHour
  BY <1>2 DEF BeforeMarked, NextHour, requests
<1>3. ASSUME NEW r \in Readers, Ask(r) PROVE BeforeMarked'
  <2>1. seen'[r].probes = Watermark /\ before'[r] = Watermark \cup announced
    BY <1>3 DEF TypeOK, Ask
  <2>2. \A q \in Readers \ {r} : seen'[q] = seen[q] /\ before'[q] = before[q]
                                 /\ reader'[q] = reader[q]
    BY <1>3 DEF TypeOK, Ask
  <2> QED
    BY <1>3, <2>1, <2>2 DEF BeforeMarked, Ask
<1>4. ASSUME NEW r \in Readers, AskFails(r) PROVE BeforeMarked'
  BY <1>4 DEF BeforeMarked, AskFails, requests
<1>5. ASSUME NEW r \in Readers, Request(r) PROVE BeforeMarked'
  <2>1. \A q \in Readers : reader'[q] \in {"asked", "looking"} =>
           /\ reader[q] \in {"asked", "looking"}
           /\ before'[q] = before[q] /\ seen'[q].probes = seen[q].probes
    BY <1>5 DEF TypeOK, Request, ReadHour, Serve, Join, Lead
  <2>2. announced' = announced
    BY <1>5 DEF Request, ReadHour, Serve, Join, Lead
  <2> QED
    BY <2>1, <2>2 DEF BeforeMarked
<1>6. CASE Rebuild \/ FailBuild
  <2>1. /\ announced' = announced /\ seen' = seen
        /\ EndFlight \/ UNCHANGED <<reader, before>>
    BY <1>6, RebuildFrame
  <2> QED
    BY <2>1 DEF BeforeMarked, EndFlight
<1>7. CASE UNCHANGED vars
  BY <1>7 DEF BeforeMarked, vars, requests
<1> QED
  BY <1>1, <1>2, <1>3, <1>4, <1>5, <1>6, <1>7 DEF Next

-----------------------------------------------------------------------------
(* What a build shows *)

\* A build that has read no table shows nothing, and owes nothing it shows.
LEMMA NothingCovered ==
    ASSUME NEW b, b.phase \in {"wm0", "gen0", "models"}, b.left = Models,
           NEW owed \in SUBSET Writes
    PROVE  Shows(b, owed)
  BY CacheAssumption DEF Shows, Covered

\* A build that has read every table shows all it owes.
LEMMA AllCovered ==
    ASSUME NEW b, b.phase \in {"gen1", "ready"}, b.left = {},
           NEW owed \in SUBSET Writes, Shows(b, owed)
    PROVE  owed \subseteq b.content
  BY DEF Shows, Covered, Writes

\* A step that leaves the build, its leader and the leader's request alone,
\* and loses no write, keeps what the build has to show.
LEMMA BuildSeesFrame ==
    ASSUME BuildSees, build' = build, leader' = leader, written \subseteq written',
           build # None => before'[leader] = before[leader]
    PROVE  BuildSees'
  BY DEF BuildSees

\* A build step that owes the same, shows what it newly reads, and is not yet
\* ready, keeps what the build has to show.
LEMMA BuildSeesStep ==
    ASSUME BuildSees, build # None, NEW b, build' = b,
           UNCHANGED <<written, leader, before>>,
           b.phase # "ready",
           b.wm0 \cup b.gen0 \subseteq written,
           Shows(b, Owed(b, before[leader])),
           LoopEnds(b)
    PROVE  BuildSees'
<1>1. Owed(b, before[leader]) \subseteq written
  BY DEF BuildSees, Owed
<1> QED
  BY <1>1 DEF BuildSees

\* Each read of buildOverviewDTO keeps it.
LEMMA LoopReadSees ==
    ASSUME TypeOK, BuildSees, build # None, build \in Build,
           ReadScores \/ ListEndpoints \/ GatherRows
    PROVE  BuildSees'
<1> DEFINE owed == Owed(build, before[leader])
<1>1. /\ owed \subseteq written /\ Shows(build, owed) /\ LoopEnds(build)
      /\ build.wm0 \cup build.gen0 \subseteq written
  BY DEF BuildSees, Owed
<1>2. UNCHANGED <<written, leader, before>>
  BY DEF ReadScores, ListEndpoints, GatherRows, Building, requests
<1>3. CASE ReadScores
  <2> DEFINE b == [build EXCEPT !.content = @ \cup (written \cap Settles),
                                !.phase = AfterModels(build.left)]
  <2>1. /\ b.phase = AfterModels(build.left) /\ b.left = build.left
        /\ b.wm0 = build.wm0 /\ b.gen0 = build.gen0
        /\ b.content = build.content \cup (written \cap Settles)
    BY DEF Build
  <2>2. build' = b /\ build.phase = "scores"
    BY <1>3 DEF ReadScores, Building
  <2> HIDE DEF b
  <2>3. Owed(b, before[leader]) = owed
    BY <2>1 DEF Owed
  <2>4. b.phase # "ready" /\ b.phase # "rows" /\ LoopEnds(b)
    BY <1>1, <2>1, <2>2 DEF LoopEnds, AfterModels
  <2>5. Shows(b, owed)
    <3> HIDE DEF owed
    <3> QED
      BY <1>1, <2>1, <2>2, <2>4 DEF Shows, Covered
  <2> QED
    BY <1>1, <1>2, <2>1, <2>2, <2>3, <2>4, <2>5, BuildSeesStep
<1>4. CASE ListEndpoints
  <2> DEFINE shown == {w \in written \cap EndpointEdits : ModelOf[w] = NextModel(build.left)}
             b == [build EXCEPT !.content = @ \cup shown, !.phase = "rows"]
  <2>1. /\ b.phase = "rows" /\ b.left = build.left
        /\ b.wm0 = build.wm0 /\ b.gen0 = build.gen0
        /\ b.content = build.content \cup shown
    BY DEF Build
  <2>2. build' = b /\ build.phase = "endpoints"
    BY <1>4 DEF ListEndpoints, Building
  <2> HIDE DEF b
  <2>3. Owed(b, before[leader]) = owed
    BY <2>1 DEF Owed
  <2>4. LoopEnds(b)
    BY <1>1, <2>1, <2>2 DEF LoopEnds
  <2>5. Shows(b, owed)
    <3> HIDE DEF owed
    <3> QED
      BY <1>1, <2>1, <2>2 DEF Shows, Covered
  <2> QED
    BY <1>1, <1>2, <2>1, <2>2, <2>3, <2>4, <2>5, BuildSeesStep
<1>5. CASE GatherRows
  <2> DEFINE next == NextModel(build.left)
             shown == {w \in Watermark : ModelOf[w] = next}
             b == [build EXCEPT !.content = @ \cup shown, !.left = @ \ {next},
                                !.phase = AfterModels(build.left \ {next})]
  <2>1. /\ b.phase = AfterModels(build.left \ {next}) /\ b.left = build.left \ {next}
        /\ b.wm0 = build.wm0 /\ b.gen0 = build.gen0
        /\ b.content = build.content \cup shown
    BY DEF Build
  <2>2. build' = b /\ build.phase = "rows"
    BY <1>5 DEF GatherRows, Building
  <2> HIDE DEF b
  <2>3. Owed(b, before[leader]) = owed
    BY <2>1 DEF Owed
  <2>4. b.phase # "ready" /\ b.phase # "rows" /\ LoopEnds(b)
    BY <2>1 DEF LoopEnds, AfterModels
  <2>5. ASSUME NEW w \in owed, Covered(b, w) PROVE w \in b.content
    <3>1. w \in written /\ (Covered(build, w) => w \in build.content)
      <4> HIDE DEF owed
      <4> QED
        BY <1>1, <2>5 DEF Shows
    <3>2. Covered(build, w) \/ (w \in Probes /\ ModelOf[w] = next)
      <4> HIDE DEF next
      <4>1. next = NextModel(build.left)
        BY DEF next
      <4> QED
        BY <2>1, <2>2, <2>4, <2>5, <4>1 DEF Covered
    <3> QED
      BY <2>1, <3>1, <3>2 DEF Watermark
  <2>6. Shows(b, owed)
    BY <2>5 DEF Shows
  <2> QED
    BY <1>1, <1>2, <2>1, <2>2, <2>3, <2>4, <2>6, BuildSeesStep
<1> QED
  BY <1>3, <1>4, <1>5

\* So do the reads before it.
LEMMA FirstReadsSee ==
    ASSUME TypeOK, BeforeCommitted, BuildSees, build # None, build \in Build,
           leader \in Readers, ReadWatermark0 \/ ReadGen0 \/ ListModels
    PROVE  BuildSees'
<1>1. /\ Owed(build, before[leader]) \subseteq written
      /\ Shows(build, Owed(build, before[leader])) /\ LoopEnds(build)
      /\ build.wm0 \cup build.gen0 \subseteq written
  BY DEF BuildSees, Owed
<1>2. UNCHANGED <<written, leader, before>>
  BY DEF ReadWatermark0, ReadGen0, ListModels, Building, requests
<1>3. before[leader] \subseteq written /\ written \subseteq Writes
      /\ announced \subseteq written
  BY DEF TypeOK, BeforeCommitted
<1>4. CASE ReadWatermark0
  <2> DEFINE b == [build EXCEPT !.wm0 = Watermark, !.phase = "gen0"]
  <2>1. /\ b.phase = "gen0" /\ b.left = build.left
        /\ b.wm0 = Watermark /\ b.gen0 = build.gen0
    BY DEF Build
  <2>2. build' = b /\ build.phase = "wm0"
    BY <1>4 DEF ReadWatermark0, Building
  <2> HIDE DEF b
  <2>3. LoopEnds(b) /\ b.left = Models /\ b.wm0 \cup b.gen0 \subseteq written
    BY <1>1, <2>1, <2>2 DEF LoopEnds, Watermark
  <2>4. Owed(b, before[leader]) \subseteq Writes
    BY <1>3, <2>3 DEF Owed
  <2>5. Shows(b, Owed(b, before[leader]))
    BY <2>1, <2>3, <2>4, NothingCovered
  <2> QED
    BY <1>2, <2>1, <2>2, <2>3, <2>5, BuildSeesStep
<1>5. CASE ReadGen0
  <2> DEFINE b == [build EXCEPT !.gen0 = StructGen, !.phase = "models"]
  <2>1. /\ b.phase = "models" /\ b.left = build.left
        /\ b.wm0 = build.wm0 /\ b.gen0 = announced
    BY DEF Build, StructGen
  <2>2. build' = b /\ build.phase = "gen0"
    BY <1>5 DEF ReadGen0, Building
  <2> HIDE DEF b
  <2>3. LoopEnds(b) /\ b.left = Models /\ b.wm0 \cup b.gen0 \subseteq written
    BY <1>1, <1>3, <2>1, <2>2 DEF LoopEnds
  <2>4. Owed(b, before[leader]) \subseteq Writes
    BY <1>3, <2>3 DEF Owed
  <2>5. Shows(b, Owed(b, before[leader]))
    BY <2>1, <2>3, <2>4, NothingCovered
  <2> QED
    BY <1>2, <2>1, <2>2, <2>3, <2>5, BuildSeesStep
<1>6. CASE ListModels
  <2> DEFINE b == [build EXCEPT !.content = written \cap ModelEdits,
                                !.hour = hour, !.phase = "scores"]
  <2>1. /\ b.phase = "scores" /\ b.left = build.left
        /\ b.wm0 = build.wm0 /\ b.gen0 = build.gen0
        /\ b.content = written \cap ModelEdits
    BY DEF Build
  <2>2. build' = b /\ build.phase = "models"
    BY <1>6 DEF ListModels, Building
  <2> HIDE DEF b
  <2>3. LoopEnds(b) /\ b.left = Models /\ b.wm0 \cup b.gen0 \subseteq written
    BY <1>1, <2>1, <2>2 DEF LoopEnds
  <2>4. Owed(b, before[leader]) \subseteq written
    BY <1>3, <2>3 DEF Owed
  <2>5. Shows(b, Owed(b, before[leader]))
    BY <2>1, <2>3, <2>4, CacheAssumption DEF Shows, Covered
  <2> QED
    BY <1>2, <2>1, <2>2, <2>3, <2>5, BuildSeesStep
<1> QED
  BY <1>4, <1>5, <1>6

\* So do the reads after it: the board is done once all of it is shown.
LEMMA LastReadsSee ==
    ASSUME TypeOK, BuildSees, build # None, build \in Build, leader \in Readers,
           ReadWatermark1 \/ (Recheck /\ (Unmoved \/ build.attempt >= LastAttempt))
    PROVE  BuildSees'
<1> DEFINE owed == Owed(build, before[leader])
<1>1. /\ owed \subseteq written /\ Shows(build, owed) /\ LoopEnds(build)
      /\ build.wm0 \cup build.gen0 \subseteq written
  BY DEF BuildSees, Owed
<1>2. UNCHANGED <<written, leader, before>>
  BY DEF ReadWatermark1, Recheck, Building, requests
<1>3. CASE ReadWatermark1
  <2> DEFINE b == [build EXCEPT !.wm1 = Watermark, !.phase = "gen1"]
  <2>1. /\ b.phase = "gen1" /\ b.left = build.left
        /\ b.wm0 = build.wm0 /\ b.gen0 = build.gen0 /\ b.content = build.content
    BY DEF Build
  <2>2. build' = b /\ build.phase = "wm1"
    BY <1>3 DEF ReadWatermark1, Building
  <2> HIDE DEF b
  <2>3. Owed(b, before[leader]) = owed
    BY <2>1 DEF Owed
  <2>4. LoopEnds(b)
    BY <1>1, <2>1, <2>2 DEF LoopEnds
  <2>5. Shows(b, owed)
    <3> HIDE DEF owed
    <3> QED
      BY <1>1, <2>1, <2>2 DEF Shows, Covered
  <2> QED
    BY <1>1, <1>2, <2>1, <2>2, <2>3, <2>4, <2>5, BuildSeesStep
<1>4. CASE Recheck /\ (Unmoved \/ build.attempt >= LastAttempt)
  <2> DEFINE b == [build EXCEPT !.phase = "ready", !.result = Finished]
  <2>1. /\ b.phase = "ready" /\ b.left = build.left
        /\ b.wm0 = build.wm0 /\ b.gen0 = build.gen0 /\ b.content = build.content
        /\ b.result = Finished
    BY DEF Build
  <2>2. build' = b /\ build.phase = "gen1"
    BY <1>4 DEF Recheck, Building
  <2>3. Finished \in Snapshot /\ Finished.content = build.content
    BY DEF Finished, Unmoved, StructGen, Build, Snapshot, TypeOK
  <2>4. Finished.settled => Finished.probes = build.wm0 /\ Finished.gen = build.gen0
    BY DEF Finished, Unmoved
  <2> HIDE DEF b
  <2>5. Owed(b, before[leader]) = owed
    BY <2>1 DEF Owed
  <2>6. LoopEnds(b) /\ build.left = {}
    BY <1>1, <2>1, <2>2 DEF LoopEnds
  <2>7. owed \subseteq build.content
    <3>1. owed \in SUBSET Writes
      BY <1>1 DEF TypeOK
    <3> HIDE DEF owed
    <3> QED
      BY <1>1, <2>2, <2>6, <3>1, AllCovered
  <2>8. Shows(b, owed)
    BY <2>1, <2>7 DEF Shows
  <2>9. /\ before[leader] \subseteq build.content
        /\ build.wm0 \cup build.gen0 \subseteq build.content
    BY <2>7 DEF Owed
  <2> HIDE DEF owed
  <2> QED
    BY <1>1, <1>2, <2>1, <2>2, <2>3, <2>4, <2>5, <2>6, <2>8, <2>9 DEF BuildSees
<1> QED
  BY <1>3, <1>4

\* A new attempt owes what its leader's request knew of, and shows nothing yet.
LEMMA NewAttemptSees ==
    ASSUME NEW n, build' = NewAttempt(n), leader' \in Readers,
           before'[leader'] \subseteq written', written' \subseteq Writes
    PROVE  BuildSees'
<1> DEFINE b == NewAttempt(n)
<1>1. b.phase = "wm0" /\ b.left = Models /\ b.wm0 = {} /\ b.gen0 = {}
  BY DEF NewAttempt
<1> HIDE DEF b
<1>2. Owed(b, before'[leader']) \subseteq written'
  BY <1>1 DEF Owed
<1>3. Shows(b, Owed(b, before'[leader']))
  BY <1>1, <1>2, NothingCovered
<1>4. LoopEnds(b)
  BY <1>1 DEF LoopEnds
<1>5. build' = b
  BY DEF b
<1> QED
  BY <1>1, <1>2, <1>3, <1>4, <1>5 DEF BuildSees

\* BuildSees is kept by every step.
LEMMA NextBuildSees ==
    TypeOK /\ BeforeCommitted /\ BuildSees /\ [Next]_vars => BuildSees'
<1> SUFFICES ASSUME TypeOK, BeforeCommitted, BuildSees, [Next]_vars PROVE BuildSees'
  OBVIOUS
<1>0. build # None => leader \in Readers /\ reader[leader] = "leading" /\ build \in Build
  BY NoneIsNothing DEF TypeOK
<1>1. ASSUME NEW w \in Writes, Write(w) \/ InvalidateOverview(w) PROVE BuildSees'
  BY <1>1, BuildSeesFrame DEF Write, InvalidateOverview, cache, requests
<1>2. CASE NextHour
  BY <1>2, BuildSeesFrame DEF NextHour, cache, requests
<1>3. ASSUME NEW r \in Readers, Ask(r) PROVE BuildSees'
  <2>1. build # None => before'[leader] = before[leader]
    BY <1>0, <1>3 DEF TypeOK, Ask
  <2> QED
    BY <1>3, <2>1, BuildSeesFrame DEF Ask, cache
<1>4. ASSUME NEW r \in Readers, AskFails(r) PROVE BuildSees'
  BY <1>4, BuildSeesFrame DEF AskFails, cache, requests
<1>5. ASSUME NEW r \in Readers, ReadHour(r) \/ Serve(r) \/ Join(r) PROVE BuildSees'
  <2>1. build # None => before'[leader] = before[leader]
    BY <1>0, <1>5 DEF TypeOK, ReadHour, Serve, Join
  <2> QED
    BY <1>5, <2>1, BuildSeesFrame DEF ReadHour, Serve, Join, cache
<1>6. ASSUME NEW r \in Readers, Lead(r) PROVE BuildSees'
  <2>1. build' = NewAttempt(0) /\ leader' = r /\ before' = before /\ written' = written
    BY <1>6 DEF Lead
  <2>2. before[r] \subseteq written /\ written \subseteq Writes
    BY DEF BeforeCommitted, TypeOK
  <2> QED
    BY <2>1, <2>2, NewAttemptSees
<1>7. CASE Rebuild
  <2>0. build # None /\ build \in Build /\ leader \in Readers
    BY <1>0, <1>7 DEF Rebuild, ReadWatermark0, ReadGen0, ListModels, ReadScores,
           ListEndpoints, GatherRows, ReadWatermark1, Recheck, Publish, Building
  <2>1. CASE ReadWatermark0 \/ ReadGen0 \/ ListModels
    BY <2>0, <2>1, FirstReadsSee
  <2>2. CASE ReadScores \/ ListEndpoints \/ GatherRows
    BY <2>0, <2>2, LoopReadSees
  <2>3. CASE ReadWatermark1 \/ (Recheck /\ (Unmoved \/ build.attempt >= LastAttempt))
    BY <2>0, <2>3, LastReadsSee
  <2>4. CASE Recheck /\ ~(Unmoved \/ build.attempt >= LastAttempt)
    <3>1. /\ build' = NewAttempt(build.attempt + 1) /\ leader' = leader
          /\ before' = before /\ written' = written
      BY <2>4 DEF Recheck, Building, requests
    <3>2. before[leader] \subseteq written /\ written \subseteq Writes
      BY <2>0 DEF BeforeCommitted, TypeOK
    <3> QED
      BY <2>0, <3>1, <3>2, NewAttemptSees
  <2>5. CASE Publish
    BY <2>5 DEF Publish, EndFlight, BuildSees
  <2> QED
    BY <1>7, <2>1, <2>2, <2>3, <2>4, <2>5 DEF Rebuild
<1>8. CASE FailBuild
  BY <1>8 DEF FailBuild, EndFlight, BuildSees
<1>9. CASE UNCHANGED vars
  BY <1>9, BuildSeesFrame DEF vars, cache, requests
<1> QED
  BY <1>1, <1>2, <1>3, <1>4, <1>5, <1>6, <1>7, <1>8, <1>9 DEF Next, Request

\* SettledIsWhole is kept by every step: only Publish writes the snapshot.
LEMMA NextSettledIsWhole ==
    BuildSees /\ SettledIsWhole /\ [Next]_vars => SettledIsWhole'
<1> SUFFICES ASSUME BuildSees, SettledIsWhole, [Next]_vars PROVE SettledIsWhole'
  OBVIOUS
<1>1. CASE Publish
  BY <1>1 DEF Publish, BuildSees, SettledIsWhole
<1>2. CASE ~Publish
  <2>1. snap' = snap
    BY <1>2 DEF Next, vars, Write, InvalidateOverview, NextHour, Ask, AskFails, Request,
           ReadHour, Serve, Join, Lead, Rebuild, ReadWatermark0, ReadGen0, ListModels,
           ReadScores, ListEndpoints, GatherRows, ReadWatermark1, Recheck, Building,
           FailBuild, cache
  <2> QED
    BY <2>1 DEF SettledIsWhole
<1> QED
  BY <1>1, <1>2

-----------------------------------------------------------------------------
(* The theorem *)

\* The invariant holds at first and is kept.
LEMMA CacheInvariant == Spec => []CacheInv
<1>1. Init => CacheInv
  <2> SUFFICES ASSUME Init PROVE CacheInv
    OBVIOUS
  <2>1. BeforeCommitted /\ BeforeMarked
    BY DEF Init, BeforeCommitted, BeforeMarked
  <2>2. BuildSees /\ SettledIsWhole
    BY DEF Init, BuildSees, SettledIsWhole
  <2> QED
    BY <2>1, <2>2, InitTyped DEF CacheInv
<1>2. CacheInv /\ [Next]_vars => CacheInv'
  BY NextTyped, NextBeforeCommitted, NextBeforeMarked, NextBuildSees,
     NextSettledIsWhole DEF CacheInv
<1> QED
  BY <1>1, <1>2, PTL DEF Spec

\* No request misses a write it could know of: served from the cache (of a
\* settled board) or leading its own rebuild, whatever writes, hours, failures
\* and other requests come between (overviewSnapshotFor and rebuild).
THEOREM RequestsSeeEarlierWrites == Spec => ReadsSeeEarlierWrites
<1>1. ASSUME CacheInv, NEW r \in Readers, Serve(r), snap.settled
      PROVE  before[r] \subseteq snap.content
  <2>1. before[r] \subseteq seen[r].probes \cup announced
    BY <1>1 DEF CacheInv, BeforeMarked, Serve
  <2>2. snap # None /\ snap.probes = seen[r].probes /\ snap.gen = announced
    BY <1>1 DEF Serve, Fresh, StructGen
  <2> QED
    BY <1>1, <2>1, <2>2 DEF CacheInv, SettledIsWhole
<1>2. ASSUME CacheInv, NEW r \in Readers, Publish, r = leader
      PROVE  before[r] \subseteq build.result.content
  BY <1>2 DEF CacheInv, BuildSees, Publish
<1>3. CacheInv =>
        [\A r \in Readers :
            /\ Serve(r) /\ snap.settled => before[r] \subseteq snap.content
            /\ Publish /\ r = leader => before[r] \subseteq build.result.content]_vars
  BY <1>1, <1>2
<1> QED
  BY <1>3, CacheInvariant, PTL DEF ReadsSeeEarlierWrites

=============================================================================
