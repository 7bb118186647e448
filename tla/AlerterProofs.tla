---------------------------- MODULE AlerterProofs ----------------------------
(***************************************************************************)
(* Theorems about the alert evaluator, for all endpoints, families,        *)
(* thresholds, windows, quiet-hours settings and bounds.                   *)
(***************************************************************************)
EXTENDS Alerter, SequenceTheorems, FiniteSetTheorems, TLAPS

-----------------------------------------------------------------------------
(* Lemmas about the event log *)

\* Confirming rows changes neither their number, kind, subject nor time.
LEMMA ConfirmShape ==
    ASSUME NEW rows \in Seq(Row), NEW ids, NEW written
    PROVE  /\ Confirm(rows, ids, written) \in Seq(Row)
           /\ DOMAIN Confirm(rows, ids, written) = DOMAIN rows
           /\ Len(Confirm(rows, ids, written)) = Len(rows)
           /\ \A i \in DOMAIN rows :
                 /\ Confirm(rows, ids, written)[i].kind = rows[i].kind
                 /\ Confirm(rows, ids, written)[i].about = rows[i].about
                 /\ Confirm(rows, ids, written)[i].at = rows[i].at
                 /\ Confirm(rows, ids, written)[i].sent <=> (rows[i].sent \/ i \in written)
                 /\ Confirm(rows, ids, written)[i].told
                      = IF i \in ids THEN rows[i].told + 1 ELSE rows[i].told
<1> DEFINE c == Confirm(rows, ids, written)
<1>1. DOMAIN c = 1 .. Len(rows) /\ DOMAIN rows = 1 .. Len(rows) /\ Len(rows) \in Nat
  BY DEF Confirm
<1>2. \A i \in DOMAIN rows : c[i] = [rows[i] EXCEPT !.sent = @ \/ i \in written,
                                       !.told = IF i \in ids THEN @ + 1 ELSE @]
  BY DEF Confirm
<1>3. \A i \in DOMAIN rows : rows[i] \in Row
  BY <1>1
<1>4. ASSUME NEW i \in DOMAIN rows
      PROVE  c[i] \in Row
  <2> DEFINE s == rows[i].sent \/ i \in written
             n == IF i \in ids THEN rows[i].told + 1 ELSE rows[i].told
  <2>1. s \in BOOLEAN
    OBVIOUS
  <2>2. n \in Nat
    BY <1>3 DEF Row
  <2>3. c[i] = [rows[i] EXCEPT !.sent = s, !.told = n]
    BY <1>2
  <2> HIDE DEF s, n, c
  <2> QED
    BY <1>3, <2>1, <2>2, <2>3 DEF Row
<1>5. c \in [1 .. Len(rows) -> Row]
  BY <1>1, <1>4 DEF Confirm
<1>6. c \in Seq(Row) /\ Len(c) = Len(rows)
  BY <1>1, <1>5, SeqDef
<1>7. \A i \in DOMAIN rows :
         /\ c[i].kind = rows[i].kind /\ c[i].about = rows[i].about
         /\ c[i].at = rows[i].at /\ (c[i].sent <=> (rows[i].sent \/ i \in written))
         /\ c[i].told = IF i \in ids THEN rows[i].told + 1 ELSE rows[i].told
  BY <1>2, <1>3 DEF Row
<1> QED
  BY <1>1, <1>6, <1>7

\* A confirmation opens and closes nothing.
LEMMA ConfirmKeepsOpen ==
    ASSUME NEW rows \in Seq(Row), NEW ids, NEW written, NEW who, NEW opening, NEW closing
    PROVE  OpenIn(Confirm(rows, ids, written), who, opening, closing)
             <=> OpenIn(rows, who, opening, closing)
<1> DEFINE c == Confirm(rows, ids, written)
<1>1. DOMAIN c = DOMAIN rows
      /\ \A i \in DOMAIN rows : c[i].kind = rows[i].kind /\ c[i].about = rows[i].about
  BY ConfirmShape
<1> HIDE DEF c
<1>2. Transitions(c, who, opening, closing) = Transitions(rows, who, opening, closing)
  BY <1>1 DEF Transitions
<1>3. \A i \in Transitions(rows, who, opening, closing) : c[i].kind = rows[i].kind
  BY <1>1 DEF Transitions
<1>4. OpenIn(c, who, opening, closing) <=> OpenIn(rows, who, opening, closing)
  BY <1>2, <1>3 DEF OpenIn
<1> QED
  BY <1>4 DEF c

\* A row appended is the last one; the others keep their place.
LEMMA AppendShape ==
    ASSUME NEW rows \in Seq(Row), NEW row \in Row
    PROVE  /\ Append(rows, row) \in Seq(Row)
           /\ Len(rows) \in Nat /\ DOMAIN rows = 1 .. Len(rows)
           /\ Len(Append(rows, row)) = Len(rows) + 1
           /\ DOMAIN Append(rows, row) = 1 .. Len(rows) + 1
           /\ Append(rows, row)[Len(rows) + 1] = row
           /\ \A i \in DOMAIN rows : Append(rows, row)[i] = rows[i]
  OBVIOUS

\* A row appended decides for its own subject and for no other.
LEMMA AppendDecides ==
    ASSUME NEW rows \in Seq(Row), NEW row \in Row, NEW who, NEW opening, NEW closing
    PROVE  OpenIn(Append(rows, row), who, opening, closing)
             <=> IF row.about = who /\ row.kind \in {opening, closing}
                 THEN row.kind = opening
                 ELSE OpenIn(rows, who, opening, closing)
<1> DEFINE new == Append(rows, row)
           old == Transitions(rows, who, opening, closing)
<1>1. /\ Len(rows) \in Nat /\ DOMAIN rows = 1 .. Len(rows)
      /\ DOMAIN new = 1 .. Len(rows) + 1
      /\ new[Len(rows) + 1] = row
      /\ \A i \in DOMAIN rows : new[i] = rows[i]
  OBVIOUS
<1>2. CASE row.about = who /\ row.kind \in {opening, closing}
  <2>1. Transitions(new, who, opening, closing) = old \cup {Len(rows) + 1}
    BY <1>1, <1>2 DEF Transitions
  <2> DEFINE n == Len(rows) + 1
             all == Transitions(new, who, opening, closing)
  <2>2. \A i \in old : i \in Nat /\ i < n
    BY <1>1 DEF Transitions
  <2>3. n \in Nat /\ n \in all /\ \A j \in all : j <= n
    BY <1>1, <2>1, <2>2
  <2>4. \A i \in all : (\A j \in all : j <= i) => i = n
    BY <1>1, <2>1, <2>2
  <2>5. new[n].kind = row.kind
    BY <1>1
  <2> HIDE DEF new, old, all, n
  <2>6. OpenIn(new, who, opening, closing) <=> row.kind = opening
    BY <2>3, <2>4, <2>5 DEF OpenIn, all
  <2> QED
    BY <1>2, <2>6 DEF new
<1>3. CASE ~(row.about = who /\ row.kind \in {opening, closing})
  <2>1. Transitions(new, who, opening, closing) = old
    BY <1>1, <1>3 DEF Transitions
  <2> QED
    BY <1>1, <1>3, <2>1 DEF OpenIn, Transitions
<1> QED
  BY <1>2, <1>3


-----------------------------------------------------------------------------
(* Type correctness *)

\* Timers are armed for instants.
LEMMA TimerTypes ==
    ASSUME now \in Nat, quiet \in QuietSettings, NEW t \in Nat \cup {None}
    PROVE  /\ Synced(t) \in Nat \cup {None}
           /\ Armed(t) \in Nat
<1>1. DayLength \in Nat \ {0} /\ Window \in Nat /\ None \notin Int
  BY ClockAssumption
<1>2. ASSUME NEW h \in 0 .. DayLength - 1
      PROVE  NextAt(h, now) \in Nat
  <2>1. (h - now - 1) % DayLength \in 0 .. DayLength - 1
    BY <1>1, <1>2
  <2> QED
    BY <1>1, <2>1 DEF NextAt
<1>3. quiet.start \in 0 .. DayLength - 1 /\ quiet.end \in 0 .. DayLength - 1
  BY QuietAssumption
<1>4. NextBoundary(quiet, now) \in Nat
  BY <1>2, <1>3 DEF NextBoundary
<1>5. Synced(t) \in Nat \cup {None}
  BY <1>4 DEF Synced
<1>6. Armed(t) \in Nat
  BY <1>1 DEF Armed
<1> QED
  BY <1>5, <1>6

LEMMA NewRowType ==
    ASSUME now \in Nat, NEW kind \in Kinds, NEW who \in Endpoints \cup Families \cup {None},
           NEW sent \in BOOLEAN
    PROVE  /\ NewRow(kind, who, sent) \in Row
           /\ NewRow(kind, who, sent).kind = kind
           /\ NewRow(kind, who, sent).about = who
           /\ NewRow(kind, who, sent).sent = sent
           /\ NewRow(kind, who, sent).told = IF sent THEN 1 ELSE 0
  BY DEF NewRow, Row

\* A row recorded at decision time, its delivery unconfirmed.
LEMMA UnsentRowType ==
    ASSUME now \in Nat, NEW kind \in Kinds, NEW who \in Endpoints \cup Families \cup {None}
    PROVE  /\ NewRow(kind, who, FALSE) \in Row
           /\ NewRow(kind, who, FALSE).kind = kind
           /\ NewRow(kind, who, FALSE).about = who
           /\ ~NewRow(kind, who, FALSE).sent
           /\ NewRow(kind, who, FALSE).told = 0
           /\ NewRow(kind, who, FALSE).at = now
  BY DEF NewRow, Row

LEMMA InitTypes == Init => TypeOK
<1> SUFFICES ASSUME Init PROVE TypeOK
  OBVIOUS
<1>1. <<>> \in Seq(Row)
  OBVIOUS
<1> QED
  BY <1>1, ClockAssumption DEF Init, TypeOK, Flags

\* The recorded row of a turn.
LEMMA RowsWithShape ==
    ASSUME TypeOK, NEW e \in Endpoints
    PROVE  /\ RowsWith(e) \in Seq(Row)
           /\ Len(RowsWith(e)) \in Nat
           /\ Len(log) <= Len(RowsWith(e))
           /\ \A i \in DOMAIN log : i \in DOMAIN RowsWith(e) /\ RowsWith(e)[i] = log[i]
           /\ Configured =>
                /\ Len(RowsWith(e)) \in DOMAIN RowsWith(e)
                /\ RowsWith(e)[Len(RowsWith(e))].kind \in {"down", "recovered"}
                /\ RowsWith(e)[Len(RowsWith(e))].at = now
<1> DEFINE kind == IF IsDown(e) THEN "down" ELSE "recovered"
           row  == NewRow(kind, e, FALSE)
<1>0. now \in Nat /\ kind \in {"down", "recovered"} /\ kind \in Kinds
  BY DEF TypeOK, Kinds
<1>1. row \in Row /\ row.kind \in {"down", "recovered"} /\ row.at = now
  <2> HIDE DEF kind
  <2> QED
    BY <1>0, UnsentRowType
<1>2. log \in Seq(Row)
  BY DEF TypeOK
<1> HIDE DEF row
<1>3. CASE Configured
  <2>1. RowsWith(e) = Append(log, row)
    BY <1>3 DEF RowsWith, row
  <2>2. /\ Len(log) \in Nat /\ DOMAIN log = 1 .. Len(log)
        /\ Append(log, row) \in Seq(Row)
        /\ Len(Append(log, row)) = Len(log) + 1
        /\ DOMAIN Append(log, row) = 1 .. Len(log) + 1
        /\ Append(log, row)[Len(log) + 1] = row
        /\ \A i \in DOMAIN log : Append(log, row)[i] = log[i]
    BY <1>1, <1>2, AppendShape
  <2> QED
    BY <1>1, <2>1, <2>2
<1>4. CASE ~Configured
  BY <1>2, <1>4 DEF RowsWith
<1> QED
  BY <1>3, <1>4

\* Steps that leave the log, the buffers and the timers alone.
LEMMA EnvironmentTypes ==
    ASSUME TypeOK,
           \/ \E e \in Endpoints, ok \in BOOLEAN : StoreProbe(e, ok)
           \/ EditSettings \/ Tick \/ Restart
    PROVE  TypeOK'
<1>1. ASSUME NEW e \in Endpoints, NEW ok \in BOOLEAN, StoreProbe(e, ok)
      PROVE  TypeOK'
  <2>1. streak' \in [Endpoints -> 0 .. DownThreshold]
    BY <1>1, ClockAssumption DEF StoreProbe, TypeOK
  <2> QED
    BY <1>1, <2>1 DEF StoreProbe, TypeOK, settings, memory
<1>2. CASE EditSettings
  <2>1. webhook' \in BOOLEAN /\ alerts' \in BOOLEAN
    BY <1>2 DEF EditSettings, TypeOK
  <2>2. members' \in SUBSET Endpoints /\ quiet' \in QuietSettings
    BY <1>2 DEF EditSettings, TypeOK
  <2> QED
    BY <1>2, <2>1, <2>2 DEF EditSettings, TypeOK, memory
<1>3. CASE Tick
  BY <1>3 DEF Tick, TypeOK, settings, memory
<1>4. CASE Restart
  BY <1>4 DEF Restart, ForgetMemory, TypeOK, settings, Flags
<1> QED
  BY <1>1, <1>2, <1>3, <1>4

\* What a decision may do to the log and the buffers.
LEMMA SteadyTypes ==
    ASSUME TypeOK, NEW e \in Endpoints, HandleSteadyRound(e) \/ RoundUnread(e)
    PROVE  TypeOK'
<1>1. CASE HandleSteadyRound(e)
  BY <1>1 DEF HandleSteadyRound, TypeOK, settings, Flags, AsFlag
<1>2. CASE RoundUnread(e)
  BY <1>2 DEF RoundUnread, TypeOK, settings, memory
<1> QED
  BY <1>1, <1>2

LEMMA FailedTransitionTypes ==
    ASSUME TypeOK, NEW e \in Endpoints, TransitionUnrecorded(e) \/ TransitionUnbuffered(e)
    PROVE  TypeOK'
<1>1. /\ FlippedFlags(e) \in [Endpoints -> Flags]
      /\ \A recorded \in BOOLEAN : MutedBy(e, recorded) \in SUBSET (Endpoints \cup Families)
  BY DEF FlippedFlags, MutedBy, TypeOK, Flags, AsFlag
<1>2. CASE TransitionUnrecorded(e)
  <2>1. muted' \in SUBSET (Endpoints \cup Families)
    BY <1>1, <1>2 DEF TransitionUnrecorded
  <2>2. alerted' \in [Endpoints -> Flags] /\ faults' \in Nat
    BY <1>1, <1>2 DEF TransitionUnrecorded, TypeOK
  <2> QED
    BY <1>1, <1>2, <2>1, <2>2 DEF TransitionUnrecorded, TypeOK, settings
<1>3. CASE TransitionUnbuffered(e)
  <2>1. log' \in Seq(Row) /\ \A i \in DOMAIN log : i \in DOMAIN log' /\ log'[i] = log[i]
    BY <1>3, RowsWithShape DEF TransitionUnbuffered
  <2>2. muted' \in SUBSET (Endpoints \cup Families)
    BY <1>3 DEF TransitionUnbuffered, MutedBy, TypeOK
  <2> QED
    BY <1>1, <1>3, <2>1, <2>2 DEF TransitionUnbuffered, TypeOK, settings
<1> QED
  BY <1>2, <1>3

LEMMA ScoreDropTypes ==
    ASSUME TypeOK, ScoreDrop
    PROVE  TypeOK'
<1>1. PICK ok \in BOOLEAN : log' = Append(log, NewRow("score_drop", None, ok))
  BY DEF ScoreDrop
<1> DEFINE row == NewRow("score_drop", None, ok)
<1>0. now \in Nat
  BY DEF TypeOK
<1>2. row \in Row /\ row.kind = "score_drop"
  BY <1>0, NewRowType DEF Kinds
<1>3. log \in Seq(Row)
  BY DEF TypeOK
<1> HIDE DEF row
<1>4. /\ Len(log) \in Nat /\ DOMAIN log = 1 .. Len(log)
      /\ log' \in Seq(Row) /\ Len(log') = Len(log) + 1
      /\ DOMAIN log' = 1 .. Len(log) + 1
      /\ log'[Len(log')].kind = "score_drop"
      /\ \A i \in DOMAIN log : i \in DOMAIN log' /\ log'[i] = log[i]
  BY <1>1, <1>2, <1>3, AppendShape DEF row
<1>5. quietDue' \in Nat \cup {None}
  BY TimerTypes DEF ScoreDrop, TypeOK
<1>6. quietDrops' \subseteq quietDrops \cup {Len(log')}
  BY DEF ScoreDrop
<1>7. \A d \in quietDrops' : d \in DOMAIN log' /\ log'[d].kind = "score_drop"
  BY <1>4, <1>6 DEF TypeOK
<1> QED
  BY <1>4, <1>5, <1>7 DEF ScoreDrop, TypeOK, settings

\* The log after a turn, with the group's own row if there is one.
LEMMA RowsWithGroupShape ==
    ASSUME TypeOK, NEW e \in Endpoints, NEW step
    PROVE  LET rows == RowsWithGroup(e, step) IN
           /\ rows \in Seq(Row)
           /\ Len(rows) \in Nat
           /\ \A i \in DOMAIN RowsWith(e) : i \in DOMAIN rows /\ rows[i] = RowsWith(e)[i]
           /\ GroupRecorded(e, step) =>
                /\ Len(rows) \in DOMAIN rows
                /\ Len(rows) = Len(RowsWith(e)) + 1
                /\ rows[Len(rows)].kind \in {"group_down", "group_recovered"}
                /\ rows[Len(rows)].kind = "group_down" <=> GroupOpens(e, step)
                /\ rows[Len(rows)].at = now
<1> DEFINE kind == IF GroupOpens(e, step) THEN "group_down" ELSE "group_recovered"
           old  == RowsWith(e)
           row  == GroupRow(e, step)
           new  == Append(old, row)
<1>1. /\ now \in Nat /\ kind \in {"group_down", "group_recovered"} /\ kind \in Kinds
      /\ kind = "group_down" <=> GroupOpens(e, step)
      /\ FamilyOf[e] \in Endpoints \cup Families \cup {None}
  BY EndpointsAssumption DEF TypeOK, Kinds
<1>2. row = NewRow(kind, FamilyOf[e], FALSE)
  BY DEF GroupRow
<1>3. old \in Seq(Row)
  BY RowsWithShape
<1> HIDE DEF kind, row, old
<1>4. row \in Row /\ row.kind = kind /\ row.at = now
  BY <1>1, <1>2, UnsentRowType
<1>5. /\ Len(old) \in Nat /\ DOMAIN old = 1 .. Len(old)
      /\ new \in Seq(Row) /\ Len(new) = Len(old) + 1
      /\ DOMAIN new = 1 .. Len(old) + 1
      /\ new[Len(old) + 1] = row
      /\ \A i \in DOMAIN old : new[i] = old[i]
  BY <1>3, <1>4, AppendShape
<1>6. CASE GroupRecorded(e, step)
  <2>1. RowsWithGroup(e, step) = new
    BY <1>6 DEF RowsWithGroup, old, row
  <2> QED
    BY <1>1, <1>4, <1>5, <1>6, <2>1 DEF old
<1>7. CASE ~GroupRecorded(e, step)
  <2>1. RowsWithGroup(e, step) = old
    BY <1>7 DEF RowsWithGroup, old
  <2> QED
    BY <1>3, <1>5, <1>7, <2>1 DEF old
<1> QED
  BY <1>6, <1>7

\* What a group card lists as recovered are endpoints, and only recovery cards list any.
LEMMA ListedParts ==
    ASSUME NEW e \in Endpoints, NEW step, NEW healed \in Listed(e, step)
    PROVE  /\ members \subseteq Endpoints => healed \in SUBSET Endpoints
           /\ healed # {} => GroupCloses(e, step)
<1> DEFINE all == RecoveredSince(FamilyOf[e], RowsWith(e), FaultyNow(e))
<1>1. all \subseteq members
  BY DEF RecoveredSince, Group
<1> HIDE DEF all
<1>2. CASE ~GroupCloses(e, step)
  BY <1>2 DEF Listed
<1>3. CASE GroupCloses(e, step)
  <2>1. Listed(e, step) \subseteq SUBSET all
    BY <1>3 DEF Listed, all
  <2> QED
    BY <1>1, <1>3, <2>1
<1> QED
  BY <1>2, <1>3

\* A recorded turn of an endpoint, and of its group, keeps the types.
LEMMA TransitionTypes ==
    ASSUME TypeOK, NEW e \in Endpoints, NEW step, Transition(e, step)
    PROVE  TypeOK'
<1> DEFINE f == FamilyOf[e]
<1>0. f \in Families
  BY EndpointsAssumption
<1>1. log \in Seq(Row) /\ log' \in Seq(Row) /\ Len(log) \in Nat /\ Len(log') \in Nat
  BY RowsWithGroupShape DEF Transition, TypeOK
<1>2. \A i \in DOMAIN log : i \in DOMAIN log' /\ log'[i] = log[i]
  BY RowsWithShape, RowsWithGroupShape DEF Transition
<1>3. /\ alerted' \in [Endpoints -> Flags]
      /\ groupAlerted' \in [Families -> Flags]
      /\ muted' \in SUBSET (Endpoints \cup Families)
  <2>1. FlippedFlags(e) \in [Endpoints -> Flags]
    BY DEF FlippedFlags, TypeOK, Flags, AsFlag
  <2>2. alerted' \in [Endpoints -> Flags]
    BY <2>1 DEF Transition, FlagsSeen, Flags, AsFlag
  <2>3. groupAlerted' \in [Families -> Flags]
    BY DEF Transition, TypeOK, Flags, AsFlag
  <2>4. muted' \subseteq muted \cup {e, f}
    BY DEF Transition, MutedBy
  <2> QED
    BY <1>0, <2>2, <2>3, <2>4 DEF TypeOK
<1>4. /\ pending' \in SUBSET Buffered
      /\ \A t \in pending' : t.id \in DOMAIN log' /\ log'[t.id].kind \in {"down", "recovered"}
  <2>1. CASE Configured
    <3> DEFINE absorbed == WasOpen(e) \/ IsOpenNow(e, step)
               single   == Single(e, step)
    <3>1. absorbed \in BOOLEAN
      OBVIOUS
    <3>2. single = [id |-> Len(RowsWith(e)), absorbed |-> absorbed]
      BY DEF Single
    <3>3. pending' = pending \cup {single}
      BY <2>1 DEF Transition
    <3> HIDE DEF absorbed, single
    <3>4. single \in Buffered /\ single.id = Len(RowsWith(e))
      BY <3>1, <3>2, RowsWithShape DEF Buffered
    <3>5. single.id \in DOMAIN log' /\ log'[single.id].kind \in {"down", "recovered"}
      BY <2>1, <3>4, RowsWithShape, RowsWithGroupShape DEF Transition
    <3> QED
      BY <1>2, <3>3, <3>4, <3>5 DEF TypeOK
  <2>2. CASE ~Configured
    BY <1>2, <2>2 DEF Transition, TypeOK
  <2> QED
    BY <2>1, <2>2
<1>5. /\ groupPending' \in SUBSET BufferedGroup
      /\ \A g \in groupPending' :
            g.id \in DOMAIN log' /\ log'[g.id].kind \in {"group_down", "group_recovered"}
  <2>1. CASE GroupRecorded(e, step)
    <3> PICK healed \in Listed(e, step) :
               groupPending' = groupPending \cup {GroupCard(e, step, healed)}
      BY <2>1 DEF Transition
    <3> DEFINE card == GroupCard(e, step, healed)
    <3>1. FaultyNow(e) \in SUBSET Endpoints /\ healed \in SUBSET Endpoints
      BY ListedParts DEF FaultyNow, Faulty, Group, TypeOK
    <3>2. card = [id |-> Len(log'), faulty |-> FaultyNow(e), recovered |-> healed]
      BY DEF GroupCard, Transition
    <3>3. groupPending' = groupPending \cup {card}
      OBVIOUS
    <3> HIDE DEF card
    <3>4. card \in BufferedGroup /\ card.id = Len(log')
      BY <1>1, <3>1, <3>2 DEF BufferedGroup
    <3>5. card.id \in DOMAIN log' /\ log'[card.id].kind \in {"group_down", "group_recovered"}
      BY <2>1, <3>4, RowsWithGroupShape DEF Transition
    <3> QED
      BY <1>2, <3>3, <3>4, <3>5 DEF TypeOK
  <2>2. CASE ~GroupRecorded(e, step)
    BY <1>2, <2>2 DEF Transition, TypeOK
  <2> QED
    BY <2>1, <2>2
<1>6. windowFires' \in Nat \cup {None} /\ quietDue' \in Nat \cup {None}
  BY TimerTypes DEF Transition, TypeOK
<1>7. \A d \in quietDrops' : d \in DOMAIN log' /\ log'[d].kind = "score_drop"
  BY <1>2 DEF Transition, TypeOK
<1> QED
  BY <1>1, <1>3, <1>4, <1>5, <1>6, <1>7 DEF Transition, TypeOK, settings

\* Deliveries only confirm rows.
LEMMA WriteBackShape ==
    ASSUME TypeOK, NEW delivered, WriteBack(delivered)
    PROVE  /\ \E written \in SUBSET UNION delivered :
                 /\ log' = Confirm(log, UNION delivered, written)
                 /\ faults' = faults => written = UNION delivered
           /\ faults' \in Nat
<1>1. CASE /\ log' = Confirm(log, UNION delivered, UNION delivered)
           /\ UNCHANGED faults
  BY <1>1 DEF TypeOK
<1>2. CASE /\ faults' = faults + 1
           /\ \E lost \in delivered :
                log' = Confirm(log, UNION delivered, UNION (delivered \ {lost}))
  <2>1. PICK lost \in delivered :
            log' = Confirm(log, UNION delivered, UNION (delivered \ {lost}))
    BY <1>2
  <2>2. UNION (delivered \ {lost}) \in SUBSET UNION delivered
    OBVIOUS
  <2>3. faults' # faults /\ faults' \in Nat
    BY <1>2 DEF TypeOK
  <2> QED
    BY <2>1, <2>2, <2>3
<1> QED
  BY <1>1, <1>2 DEF WriteBack

\* What a flush or a boundary leaves of the log.
LEMMA DeliveryKeepsLog ==
    ASSUME TypeOK, Flush \/ QuietBoundary
    PROVE  /\ log' \in Seq(Row) /\ faults' \in Nat
           /\ \A i \in DOMAIN log :
                 /\ i \in DOMAIN log'
                 /\ log'[i].kind = log[i].kind /\ log'[i].about = log[i].about
                 /\ log'[i].at = log[i].at
           /\ \A who, opening, closing :
                 OpenIn(log', who, opening, closing) <=> OpenIn(log, who, opening, closing)
<1>1. log \in Seq(Row) /\ faults \in Nat
  BY DEF TypeOK
<1>2. CASE log' = log /\ faults' \in {faults, faults + 1}
  BY <1>1, <1>2
<1>3. CASE \E delivered : WriteBack(delivered)
  <2>1. PICK ids, written : log' = Confirm(log, ids, written) /\ faults' \in Nat
    BY <1>3, WriteBackShape
  <2> QED
    BY <1>1, <2>1, ConfirmShape, ConfirmKeepsOpen
<1>4. (log' = log /\ faults' \in {faults, faults + 1}) \/ \E delivered : WriteBack(delivered)
  BY DEF Flush, QuietBoundary
<1> QED
  BY <1>2, <1>3, <1>4

LEMMA DeliveryTypes ==
    ASSUME TypeOK, Flush \/ QuietBoundary
    PROVE  TypeOK'
<1>1. quietDue' \in Nat \cup {None}
  BY TimerTypes DEF Flush, QuietBoundary, TypeOK
<1>2. CASE Flush
  BY <1>1, <1>2, DeliveryKeepsLog DEF Flush, TypeOK, settings
<1>3. CASE QuietBoundary
  <2>1. \A d \in quietDrops' : d \in quietDrops
    BY <1>3 DEF QuietBoundary
  <2> QED
    BY <1>1, <1>3, <2>1, DeliveryKeepsLog DEF QuietBoundary, TypeOK, settings
<1> QED
  BY <1>2, <1>3

LEMMA NextTypes == TypeOK /\ [Next]_vars => TypeOK'
<1> SUFFICES ASSUME TypeOK, [Next]_vars PROVE TypeOK'
  OBVIOUS
<1>1. CASE UNCHANGED vars
  BY <1>1 DEF vars, settings, memory, TypeOK
<1>2. CASE Next
  BY <1>2, EnvironmentTypes, SteadyTypes, FailedTransitionTypes, TransitionTypes,
     ScoreDropTypes, DeliveryTypes DEF Next, HandleRound
<1> QED
  BY <1>1, <1>2

\* Every variable keeps its type; in particular what the window and the quiet
\* summary hold in memory always names rows of alert_events of the right kind.
THEOREM TypeCorrect == Spec => []TypeOK
  BY InitTypes, NextTypes, PTL DEF Spec

-----------------------------------------------------------------------------
(* The flags in memory and the event log *)

\* A recorded turn opens or closes its endpoint and touches nothing else.
LEMMA TurnDecides ==
    ASSUME TypeOK, NEW e \in Endpoints
    PROVE  /\ \A m \in Endpoints : EndpointOpen(RowsWith(e), m)
                 <=> IF m = e /\ Configured THEN IsDown(e) ELSE EndpointOpen(log, m)
           /\ \A f : GroupOpen(RowsWith(e), f) <=> GroupOpen(log, f)
<1> DEFINE kind == IF IsDown(e) THEN "down" ELSE "recovered"
           row  == NewRow(kind, e, FALSE)
<1>1. /\ now \in Nat /\ kind \in Kinds /\ log \in Seq(Row)
      /\ kind \in {"down", "recovered"} /\ (kind = "down" <=> IsDown(e))
  BY DEF TypeOK, Kinds
<1>2. RowsWith(e) = IF Configured THEN Append(log, row) ELSE log
  BY DEF RowsWith
<1> HIDE DEF kind
<1>3. row \in Row /\ row.kind = kind /\ row.about = e
  BY <1>1, UnsentRowType
<1> HIDE DEF row
<1>4. CASE Configured
  <2>1. ASSUME NEW m \in Endpoints
        PROVE  EndpointOpen(RowsWith(e), m) <=> IF m = e THEN IsDown(e) ELSE EndpointOpen(log, m)
    BY <1>1, <1>2, <1>3, <1>4, AppendDecides DEF EndpointOpen
  <2>2. ASSUME NEW f
        PROVE  GroupOpen(RowsWith(e), f) <=> GroupOpen(log, f)
    <3>1. row.kind \notin {"group_down", "group_recovered"}
      BY <1>1, <1>3
    <3> QED
      BY <1>1, <1>2, <1>3, <1>4, <3>1, AppendDecides DEF GroupOpen
  <2> QED
    BY <1>4, <2>1, <2>2
<1>5. CASE ~Configured
  BY <1>2, <1>5
<1> QED
  BY <1>4, <1>5

\* So does a recorded group turn.
LEMMA GroupTurnDecides ==
    ASSUME TypeOK, NEW e \in Endpoints, NEW step
    PROVE  LET rows == RowsWithGroup(e, step) IN
           /\ \A m \in Endpoints : EndpointOpen(rows, m) <=> EndpointOpen(RowsWith(e), m)
           /\ \A f \in Families : GroupOpen(rows, f)
                 <=> IF f = FamilyOf[e] /\ GroupRecorded(e, step)
                     THEN GroupOpens(e, step) ELSE GroupOpen(log, f)
<1> DEFINE kind == IF GroupOpens(e, step) THEN "group_down" ELSE "group_recovered"
           old  == RowsWith(e)
           row  == GroupRow(e, step)
<1>1. /\ now \in Nat /\ kind \in Kinds
      /\ kind \in {"group_down", "group_recovered"}
      /\ kind = "group_down" <=> GroupOpens(e, step)
      /\ FamilyOf[e] \in Families
  BY EndpointsAssumption DEF TypeOK, Kinds
<1>2. row = NewRow(kind, FamilyOf[e], FALSE)
  BY DEF GroupRow
<1>3. old \in Seq(Row) /\ \A f : GroupOpen(old, f) <=> GroupOpen(log, f)
  BY RowsWithShape, TurnDecides
<1>4. RowsWithGroup(e, step) = IF GroupRecorded(e, step) THEN Append(old, row) ELSE old
  BY DEF RowsWithGroup
<1> HIDE DEF kind, row, old
<1>5. row \in Row /\ row.kind = kind /\ row.about = FamilyOf[e]
  <2>1. FamilyOf[e] \in Endpoints \cup Families \cup {None}
    BY <1>1
  <2>2. /\ NewRow(kind, FamilyOf[e], FALSE) \in Row
        /\ NewRow(kind, FamilyOf[e], FALSE).kind = kind
        /\ NewRow(kind, FamilyOf[e], FALSE).about = FamilyOf[e]
    BY <1>1, <2>1, UnsentRowType
  <2> QED BY <1>2, <2>2
<1>6. CASE GroupRecorded(e, step)
  <2>1. ASSUME NEW m \in Endpoints
        PROVE  EndpointOpen(RowsWithGroup(e, step), m) <=> EndpointOpen(old, m)
    <3>1. row.kind \notin {"down", "recovered"}
      BY <1>1, <1>5
    <3> QED
      BY <1>3, <1>4, <1>5, <1>6, <3>1, AppendDecides DEF EndpointOpen
  <2>2. ASSUME NEW f \in Families
        PROVE  GroupOpen(RowsWithGroup(e, step), f)
                 <=> IF f = FamilyOf[e] THEN GroupOpens(e, step) ELSE GroupOpen(log, f)
    BY <1>1, <1>3, <1>4, <1>5, <1>6, AppendDecides DEF GroupOpen
  <2> QED
    BY <1>6, <2>1, <2>2 DEF old
<1>7. CASE ~GroupRecorded(e, step)
  BY <1>3, <1>4, <1>7 DEF old
<1> QED
  BY <1>6, <1>7

\* A turn leaves every flag that is not in doubt in agreement with the log.
LEMMA TransitionFlags ==
    ASSUME TypeOK, FlagsMatchLog, NEW e \in Endpoints, NEW step, Transition(e, step)
    PROVE  FlagsMatchLog'
<1> DEFINE f == FamilyOf[e]
<1>0. f \in Families /\ f \notin Endpoints /\ e \notin Families
  BY EndpointsAssumption
<1>1. ASSUME NEW m \in Endpoints, m \notin muted', alerted'[m] # "unknown"
      PROVE  alerted'[m] = "open" <=> EndpointOpen(log', m)
  <2>1. m # e => m \notin muted
    BY <1>0, <1>1 DEF Transition, MutedBy
  <2>2. m = e => Configured
    BY <1>0, <1>1 DEF Transition, MutedBy
  <2>3. EndpointOpen(log', m) <=> EndpointOpen(RowsWith(e), m)
    BY GroupTurnDecides DEF Transition
  <2>4. alerted'[m] = FlagsSeen(e)[m]
    BY DEF Transition
  <2>5. CASE m = e
    <3>1. FlippedFlags(e)[e] = AsFlag(IsDown(e))
      BY DEF FlippedFlags, TypeOK
    <3>2. alerted'[e] = AsFlag(IsDown(e))
      BY <2>4, <2>5, <3>1 DEF FlagsSeen, FlaggedIn, AsFlag
    <3> QED
      BY <2>2, <2>3, <2>5, <3>2, TurnDecides DEF AsFlag
  <2>6. CASE m # e
    <3>1. FlippedFlags(e)[m] = alerted[m]
      BY <2>6 DEF FlippedFlags, TypeOK
    <3>2. EndpointOpen(RowsWith(e), m) <=> EndpointOpen(log, m)
      BY <2>6, TurnDecides
    <3>3. alerted[m] # "unknown" => (alerted[m] = "open" <=> EndpointOpen(log, m))
      BY <2>1, <2>6 DEF FlagsMatchLog
    <3> QED
      BY <1>1, <2>3, <2>4, <3>1, <3>2, <3>3 DEF FlagsSeen, FlaggedIn, AsFlag
  <2> QED
    BY <2>5, <2>6
<1>2. ASSUME NEW g \in Families, g \notin muted', groupAlerted'[g] # "unknown"
      PROVE  groupAlerted'[g] = "open" <=> GroupOpen(log', g)
  <2>1. GroupOpen(log', g) <=> IF g = f /\ GroupRecorded(e, step)
                               THEN GroupOpens(e, step) ELSE GroupOpen(log, g)
    BY GroupTurnDecides DEF Transition
  <2>2. CASE g = f
    <3>1. groupAlerted'[g] = "open" <=> IsOpenNow(e, step)
      BY <1>0, <2>2 DEF Transition, TypeOK, AsFlag
    <3>2. GroupTurns(e, step) => GroupRecorded(e, step)
      BY <1>2, <2>2 DEF Transition
    <3>3. CASE GroupTurns(e, step)
      <4>1. GroupOpens(e, step) => ~WasOpen(e)
        BY DEF GroupOpens, Opens
      <4>2. IsOpenNow(e, step) <=> GroupOpens(e, step)
        BY <3>3, <4>1 DEF GroupTurns, IsOpenNow
      <4> QED
        BY <2>1, <2>2, <3>1, <3>2, <3>3, <4>2
    <3>4. CASE ~GroupTurns(e, step)
      <4>1. IsOpenNow(e, step) <=> WasOpen(e)
        BY <3>4 DEF GroupTurns, IsOpenNow
      <4>2. g \notin muted
        BY <1>0, <1>2, <2>2, <3>4 DEF Transition, MutedBy
      <4>3. WasOpen(e) <=> GroupOpen(log, g)
        BY <1>0, <2>2, <4>2, TurnDecides DEF WasOpen, GroupFlagged, FlagsMatchLog
      <4> QED
        BY <2>1, <3>1, <3>4, <4>1, <4>3 DEF GroupRecorded
    <3> QED
      BY <3>3, <3>4
  <2>3. CASE g # f
    <3>1. groupAlerted'[g] = groupAlerted[g] /\ g \notin muted
      BY <1>0, <1>2, <2>3 DEF Transition, TypeOK, MutedBy
    <3> QED
      BY <1>2, <2>1, <2>3, <3>1 DEF FlagsMatchLog
  <2> QED
    BY <2>2, <2>3
<1> QED
  BY <1>1, <1>2 DEF FlagsMatchLog

\* The other steps.
LEMMA UnmovedFlags ==
    ASSUME TypeOK, FlagsMatchLog,
           \/ UNCHANGED vars
           \/ \E e \in Endpoints, ok \in BOOLEAN : StoreProbe(e, ok)
           \/ EditSettings \/ Tick \/ Restart
           \/ \E e \in Endpoints : HandleSteadyRound(e) \/ RoundUnread(e)
    PROVE  FlagsMatchLog'
<1>1. CASE UNCHANGED <<log, alerted, groupAlerted, muted>>
  BY <1>1 DEF FlagsMatchLog
<1>2. CASE Restart
  BY <1>2 DEF Restart, ForgetMemory, FlagsMatchLog
<1>3. ASSUME NEW e \in Endpoints, HandleSteadyRound(e)
      PROVE  FlagsMatchLog'
  <2>1. UNCHANGED <<log, groupAlerted, muted>>
    BY <1>3 DEF HandleSteadyRound
  <2>2. alerted'[e] = AsFlag(IsDown(e)) /\ \A m \in Endpoints \ {e} : alerted'[m] = alerted[m]
    BY <1>3 DEF HandleSteadyRound, TypeOK
  <2>3. e \notin muted => (FlaggedIn(alerted, log, e) <=> EndpointOpen(log, e))
    BY DEF FlaggedIn, FlagsMatchLog
  <2>4. FlaggedIn(alerted, log, e) <=> IsDown(e)
    BY <1>3 DEF HandleSteadyRound
  <2> QED
    BY <2>1, <2>2, <2>3, <2>4 DEF FlagsMatchLog, AsFlag
<1>4. UNCHANGED <<log, alerted, groupAlerted, muted>> \/ Restart
        \/ \E e \in Endpoints : HandleSteadyRound(e)
  BY DEF vars, settings, memory, StoreProbe, EditSettings, Tick, RoundUnread
<1> QED
  BY <1>1, <1>2, <1>3, <1>4

LEMMA FailedTransitionFlags ==
    ASSUME TypeOK, FlagsMatchLog, NEW e \in Endpoints,
           TransitionUnrecorded(e) \/ TransitionUnbuffered(e)
    PROVE  FlagsMatchLog'
<1>0. e \notin Families
  BY EndpointsAssumption
<1>1. /\ alerted'[e] = AsFlag(IsDown(e))
      /\ \A m \in Endpoints \ {e} : alerted'[m] = alerted[m]
      /\ UNCHANGED groupAlerted
  BY DEF TransitionUnrecorded, TransitionUnbuffered, FlippedFlags, TypeOK
<1>2. CASE TransitionUnrecorded(e)
  <2>1. UNCHANGED log /\ muted' = muted \cup {e}
    BY <1>2 DEF TransitionUnrecorded, MutedBy
  <2> QED
    BY <1>1, <2>1 DEF FlagsMatchLog
<1>3. CASE TransitionUnbuffered(e)
  <2>1. log' = RowsWith(e) /\ muted' = MutedBy(e, Configured)
    BY <1>3 DEF TransitionUnbuffered
  <2>2. \A m \in Endpoints : EndpointOpen(log', m)
                 <=> IF m = e /\ Configured THEN IsDown(e) ELSE EndpointOpen(log, m)
    BY <2>1, TurnDecides
  <2>3. \A f : GroupOpen(log', f) <=> GroupOpen(log, f)
    BY <2>1, TurnDecides
  <2>4. ASSUME NEW m \in Endpoints, m \notin muted', alerted'[m] # "unknown"
        PROVE  alerted'[m] = "open" <=> EndpointOpen(log', m)
    <3>1. CASE m = e
      <4>1. Configured
        BY <2>1, <2>4, <3>1 DEF MutedBy
      <4> QED
        BY <1>1, <2>2, <3>1, <4>1 DEF AsFlag
    <3>2. CASE m # e
      <4>1. m \notin muted /\ alerted'[m] = alerted[m]
        BY <1>1, <2>1, <2>4, <3>2 DEF MutedBy
      <4> QED
        BY <2>2, <2>4, <3>2, <4>1 DEF FlagsMatchLog
    <3> QED
      BY <3>1, <3>2
  <2>5. ASSUME NEW f \in Families, f \notin muted', groupAlerted'[f] # "unknown"
        PROVE  groupAlerted'[f] = "open" <=> GroupOpen(log', f)
    <3>1. f \notin muted
      BY <1>0, <2>1, <2>5 DEF MutedBy
    <3> QED
      BY <1>1, <2>3, <2>5, <3>1 DEF FlagsMatchLog
  <2> QED
    BY <2>4, <2>5 DEF FlagsMatchLog
<1> QED
  BY <1>2, <1>3

\* A score drop opens and closes nothing.
LEMMA DropOpensNothing ==
    ASSUME TypeOK, ScoreDrop
    PROVE  \A who : /\ EndpointOpen(log', who) <=> EndpointOpen(log, who)
                    /\ GroupOpen(log', who) <=> GroupOpen(log, who)
<1>1. PICK ok \in BOOLEAN : log' = Append(log, NewRow("score_drop", None, ok))
  BY DEF ScoreDrop
<1> DEFINE row == NewRow("score_drop", None, ok)
<1>2. now \in Nat /\ log \in Seq(Row)
  BY DEF TypeOK
<1>3. row \in Row /\ row.kind = "score_drop"
  BY <1>2, NewRowType DEF Kinds
<1> HIDE DEF row
<1>4. log' = Append(log, row)
  BY <1>1 DEF row
<1> QED
  BY <1>2, <1>3, <1>4, AppendDecides DEF EndpointOpen, GroupOpen

LEMMA ScoreDropFlags ==
    ASSUME TypeOK, FlagsMatchLog, ScoreDrop
    PROVE  FlagsMatchLog'
BY DropOpensNothing DEF ScoreDrop, FlagsMatchLog

LEMMA DeliveryFlags ==
    ASSUME TypeOK, FlagsMatchLog, Flush \/ QuietBoundary
    PROVE  FlagsMatchLog'
<1>1. \A who : /\ EndpointOpen(log', who) <=> EndpointOpen(log, who)
               /\ GroupOpen(log', who) <=> GroupOpen(log, who)
  BY DeliveryKeepsLog DEF EndpointOpen, GroupOpen
<1>2. UNCHANGED <<alerted, groupAlerted, muted>>
  BY DEF Flush, QuietBoundary
<1> QED
  BY <1>1, <1>2 DEF FlagsMatchLog

\* FlagsMatchLog is inductive once the types are known.
LEMMA NextFlags == TypeOK /\ FlagsMatchLog /\ [Next]_vars => FlagsMatchLog'
<1> SUFFICES ASSUME TypeOK, FlagsMatchLog, [Next]_vars PROVE FlagsMatchLog'
  OBVIOUS
<1> QED
  BY UnmovedFlags, FailedTransitionFlags, TransitionFlags, ScoreDropFlags, DeliveryFlags
  DEF Next, HandleRound

LEMMA InitFlags == Init => FlagsMatchLog
  BY DEF Init, FlagsMatchLog

\* The flags that HandleRound caches are the flags a restarted process would
\* rebuild from alert_events, for every subject whose last turn was recorded.
THEOREM CacheMatchesLog == Spec => []FlagsMatchLog
  BY TypeCorrect, InitFlags, NextFlags, PTL DEF Spec

-----------------------------------------------------------------------------
(* Outages are reported once *)

\* A row that a step adds continues its subject's history of outages.
LEMMA NewRowsContinue ==
    ASSUME TypeOK, FlagsMatchLog, NEW e \in Endpoints,
           Turns(e), log' = RowsWith(e) \/ \E step : log' = RowsWithGroup(e, step),
           NEW i \in DOMAIN log' \ DOMAIN log, log'[i].about \notin muted
    PROVE  /\ log'[i].kind = "down" => ~EndpointOpen(log, log'[i].about)
           /\ log'[i].kind = "recovered" => EndpointOpen(log, log'[i].about)
           /\ log'[i].kind = "group_down" => ~GroupOpen(log, log'[i].about)
           /\ log'[i].kind = "group_recovered" => GroupOpen(log, log'[i].about)
<1> DEFINE kind == IF IsDown(e) THEN "down" ELSE "recovered"
           row  == NewRow(kind, e, FALSE)
           mid  == RowsWith(e)
<1>1. /\ now \in Nat /\ log \in Seq(Row) /\ kind \in Kinds
      /\ kind \in {"down", "recovered"} /\ (kind = "down" <=> IsDown(e))
      /\ mid = IF Configured THEN Append(log, row) ELSE log
      /\ mid \in Seq(Row)
  BY RowsWithShape DEF TypeOK, Kinds, RowsWith
<1> HIDE DEF kind, mid
<1>2. row \in Row /\ row.kind = kind /\ row.about = e
  BY <1>1, UnsentRowType
<1> HIDE DEF row
<1>3. ASSUME NEW j \in DOMAIN mid \ DOMAIN log
      PROVE  mid[j].kind = kind /\ mid[j].about = e
  BY <1>1, <1>2, AppendShape
<1>4. CASE i \in DOMAIN mid
  <2>1. log'[i] = mid[i]
    BY <1>4, RowsWithGroupShape DEF mid
  <2>2. log'[i].kind = kind /\ log'[i].about = e
    BY <1>3, <1>4, <2>1
  <2>3. FlaggedIn(alerted, log, e) <=> EndpointOpen(log, e)
    BY <2>2 DEF FlaggedIn, FlagsMatchLog
  <2>4. EndpointOpen(log, e) <=> ~IsDown(e)
    BY <2>3 DEF Turns
  <2> QED
    BY <1>1, <2>2, <2>4
<1>5. CASE i \notin DOMAIN mid
  <2>1. PICK step : log' = RowsWithGroup(e, step) /\ GroupRecorded(e, step)
    BY <1>5 DEF RowsWithGroup, mid
  <2> DEFINE gkind == IF GroupOpens(e, step) THEN "group_down" ELSE "group_recovered"
             grow  == GroupRow(e, step)
             f     == FamilyOf[e]
  <2>2. /\ gkind \in Kinds /\ gkind \in {"group_down", "group_recovered"}
        /\ gkind = "group_down" <=> GroupOpens(e, step)
        /\ f \in Families
    BY EndpointsAssumption DEF Kinds
  <2>3. grow = NewRow(gkind, f, FALSE)
    BY DEF GroupRow
  <2>4. log' = Append(mid, grow)
    BY <2>1 DEF RowsWithGroup, mid
  <2> HIDE DEF gkind, grow, f
  <2>5. grow \in Row /\ grow.kind = gkind /\ grow.about = f
    BY <1>1, <2>2, <2>3, UnsentRowType
  <2>6. log'[i].kind = gkind /\ log'[i].about = f
    BY <1>1, <1>5, <2>4, <2>5, AppendShape
  <2>7. WasOpen(e) <=> GroupOpen(log, f)
    BY <2>2, <2>6, TurnDecides DEF WasOpen, GroupFlagged, FlagsMatchLog, f
  <2>8. GroupOpens(e, step) => ~GroupOpen(log, f)
    BY <2>7 DEF GroupOpens, Opens
  <2>9. ~GroupOpens(e, step) => GroupOpen(log, f)
    BY <2>1, <2>7 DEF GroupRecorded, GroupTurns, GroupCloses, Closes
  <2> QED
    BY <2>2, <2>6, <2>8, <2>9
<1> QED
  BY <1>4, <1>5

\* No outage and no recovery is ever reported twice in a row, restarts included,
\* except for a subject whose last turn never reached the event log.
THEOREM OutagesReportedOnce == Spec => OutageReportedOnce
<1> DEFINE Continues ==
      \A i \in DOMAIN log' \ DOMAIN log :
          LET who == log'[i].about IN
          who \notin muted =>
             /\ log'[i].kind = "down" => ~EndpointOpen(log, who)
             /\ log'[i].kind = "recovered" => EndpointOpen(log, who)
             /\ log'[i].kind = "group_down" => ~GroupOpen(log, who)
             /\ log'[i].kind = "group_recovered" => GroupOpen(log, who)
<1>1. TypeOK /\ FlagsMatchLog /\ [Next]_vars => Continues
  <2> SUFFICES ASSUME TypeOK, FlagsMatchLog, [Next]_vars PROVE Continues
    OBVIOUS
  <2>1. CASE UNCHANGED log
    BY <2>1
  <2>2. ASSUME NEW e \in Endpoints,
               TransitionUnbuffered(e) \/ \E step : Transition(e, step)
        PROVE  Continues
    <3>1. Turns(e) /\ (log' = RowsWith(e) \/ \E step : log' = RowsWithGroup(e, step))
      BY <2>2 DEF TransitionUnbuffered, Transition
    <3> QED
      BY <3>1, NewRowsContinue
  <2>3. CASE ScoreDrop
    <3>1. PICK ok \in BOOLEAN : log' = Append(log, NewRow("score_drop", None, ok))
      BY <2>3 DEF ScoreDrop
    <3> DEFINE row == NewRow("score_drop", None, ok)
    <3>2. now \in Nat /\ log \in Seq(Row)
      BY DEF TypeOK
    <3>3. row \in Row /\ row.kind = "score_drop"
      BY <3>2, NewRowType DEF Kinds
    <3> HIDE DEF row
    <3>4. \A i \in DOMAIN log' \ DOMAIN log : log'[i].kind = "score_drop"
      BY <3>1, <3>2, <3>3, AppendShape DEF row
    <3> QED
      BY <3>4
  <2>4. CASE Flush \/ QuietBoundary
    <3>1. log \in Seq(Row) /\ faults \in Nat
      BY DEF TypeOK
    <3>2. log' = log \/ \E delivered : WriteBack(delivered)
      BY <2>4 DEF Flush, QuietBoundary
    <3>3. log' = log \/ \E ids, written : log' = Confirm(log, ids, written)
      BY <3>2, WriteBackShape
    <3>4. DOMAIN log' = DOMAIN log
      BY <3>1, <3>3, ConfirmShape
    <3> QED
      BY <3>4
  <2>5. \/ UNCHANGED log \/ ScoreDrop \/ Flush \/ QuietBoundary
        \/ \E e \in Endpoints : TransitionUnbuffered(e) \/ \E step : Transition(e, step)
    BY DEF Next, HandleRound, vars, StoreProbe, EditSettings, Tick, Restart,
           HandleSteadyRound, RoundUnread, TransitionUnrecorded
  <2> QED
    BY <2>1, <2>2, <2>3, <2>4, <2>5
<1>2. TypeOK /\ FlagsMatchLog /\ [Next]_vars => [Continues]_vars
  BY <1>1
<1> QED
  BY <1>2, TypeCorrect, CacheMatchesLog, PTL DEF Spec, OutageReportedOnce

-----------------------------------------------------------------------------
(* What was told *)

\* The deferred score drops were never told; with ToldAtMostOnce, inductive.
DropsUntold == \A d \in quietDrops : ~log[d].sent
ToldInv == ToldAtMostOnce /\ DropsUntold

\* A step that adds rows: those that were there stay as they are, and a new one
\* is either unsent and untold or sent and told.
LEMMA AddedRowsTold ==
    ASSUME ToldAtMostOnce, DropsUntold, TypeOK,
           faults' = 0 => faults = 0,
           \A i \in DOMAIN log : log'[i] = log[i],
           \A i \in DOMAIN log' \ DOMAIN log : log'[i].told = IF log'[i].sent THEN 1 ELSE 0,
           \A d \in quietDrops' : d \in quietDrops \/ ~log'[d].sent
    PROVE  ToldInv'
<1>1. ToldAtMostOnce'
  BY DEF ToldAtMostOnce
<1>2. DropsUntold'
  BY DEF DropsUntold, TypeOK
<1> QED
  BY <1>1, <1>2 DEF ToldInv

\* A delivery of rows that nobody confirmed before.
LEMMA DeliveredRowsTold ==
    ASSUME ToldAtMostOnce, TypeOK, NEW delivered, WriteBack(delivered),
           \A i \in UNION delivered : i \in DOMAIN log => ~log[i].sent
    PROVE  ToldAtMostOnce'
<1> DEFINE ids == UNION delivered
<1>1. PICK written \in SUBSET ids :
         /\ log' = Confirm(log, ids, written)
         /\ faults' = faults => written = ids
  BY WriteBackShape
<1>2. log \in Seq(Row) /\ faults \in Nat
  BY DEF TypeOK
<1>3. faults' = 0 => faults' = faults
  BY <1>2 DEF WriteBack
<1>4. DOMAIN log' = DOMAIN log
  BY <1>1, <1>2, ConfirmShape
<1>5. ASSUME NEW i \in DOMAIN log
      PROVE  /\ log'[i].sent => log'[i].told >= 1
             /\ faults' = 0 => log'[i].told = IF log'[i].sent THEN 1 ELSE 0
  <2>1. /\ log'[i].sent <=> (log[i].sent \/ i \in written)
        /\ log'[i].told = IF i \in ids THEN log[i].told + 1 ELSE log[i].told
    BY <1>1, <1>2, ConfirmShape
  <2>2. log[i].told \in Nat
    <3>1. log[i] \in Row
      BY <1>2, LenProperties, ElementOfSeq
    <3> QED
      BY <3>1 DEF Row
  <2>3. /\ log[i].sent => log[i].told >= 1
        /\ faults = 0 => log[i].told = IF log[i].sent THEN 1 ELSE 0
    BY DEF ToldAtMostOnce
  <2>4. i \in ids => ~log[i].sent
    OBVIOUS
  <2> HIDE DEF ids
  <2>5. log'[i].sent => log'[i].told >= 1
    BY <1>1, <2>1, <2>2, <2>3
  <2>6. faults' = 0 => log'[i].told = IF log'[i].sent THEN 1 ELSE 0
    <3> SUFFICES ASSUME faults' = 0 PROVE log'[i].told = IF log'[i].sent THEN 1 ELSE 0
      OBVIOUS
    <3>1. faults = 0 /\ written = ids
      BY <1>1, <1>3
    <3> QED
      BY <2>1, <2>2, <2>3, <2>4, <3>1
  <2> QED
    BY <2>5, <2>6
<1> QED
  BY <1>4, <1>5 DEF ToldAtMostOnce

LEMMA TurnsTold ==
    ASSUME TypeOK, ToldInv, NEW e \in Endpoints,
           log' = RowsWith(e) \/ \E step : log' = RowsWithGroup(e, step),
           UNCHANGED quietDrops, faults' \in Nat, faults' = 0 => faults = 0
    PROVE  ToldInv'
<1> DEFINE kind == IF IsDown(e) THEN "down" ELSE "recovered"
           row  == NewRow(kind, e, FALSE)
           mid  == RowsWith(e)
<1>1. now \in Nat /\ log \in Seq(Row) /\ kind \in Kinds /\ mid \in Seq(Row)
  BY RowsWithShape DEF TypeOK, Kinds
<1>2. mid = IF Configured THEN Append(log, row) ELSE log
  BY DEF RowsWith
<1> HIDE DEF kind, mid
<1>3. row \in Row /\ ~row.sent /\ row.told = 0
  BY <1>1, UnsentRowType
<1> HIDE DEF row
<1>4. /\ \A i \in DOMAIN log : i \in DOMAIN mid /\ mid[i] = log[i]
      /\ \A i \in DOMAIN mid \ DOMAIN log : ~mid[i].sent /\ mid[i].told = 0
  BY <1>1, <1>2, <1>3, AppendShape
<1>5. /\ \A i \in DOMAIN log : log'[i] = log[i]
      /\ \A i \in DOMAIN log' \ DOMAIN log : ~log'[i].sent /\ log'[i].told = 0
  <2>1. CASE log' = mid
    BY <1>4, <2>1
  <2>2. CASE log' # mid
    <3>1. PICK step : log' = RowsWithGroup(e, step) /\ GroupRecorded(e, step)
      BY <2>2 DEF RowsWithGroup, mid
    <3> DEFINE gkind == IF GroupOpens(e, step) THEN "group_down" ELSE "group_recovered"
               grow  == GroupRow(e, step)
               f     == FamilyOf[e]
    <3>2. gkind \in Kinds /\ f \in Families
      BY EndpointsAssumption DEF Kinds
    <3>3. grow = NewRow(gkind, f, FALSE)
      BY DEF GroupRow
    <3>4. log' = Append(mid, grow)
      BY <3>1 DEF RowsWithGroup, mid
    <3> HIDE DEF gkind, grow, f
    <3>5. grow \in Row /\ ~grow.sent /\ grow.told = 0
      BY <1>1, <3>2, <3>3, UnsentRowType
    <3> QED
      BY <1>1, <1>4, <3>4, <3>5, AppendShape
  <2> QED
    BY <2>1, <2>2
<1> QED
  BY <1>5, AddedRowsTold DEF ToldInv

LEMMA ScoreDropTold ==
    ASSUME TypeOK, ToldInv, ScoreDrop
    PROVE  ToldInv'
<1>1. PICK ok \in BOOLEAN :
         /\ log' = Append(log, NewRow("score_drop", None, ok))
         /\ quietDrops' = quietDrops \/ (quietDrops' = quietDrops \cup {Len(log')} /\ ~ok)
  <2>1. CASE InQuiet(quiet, now)
    <3>1. FALSE \in BOOLEAN /\ log' = Append(log, NewRow("score_drop", None, FALSE))
          /\ quietDrops' = quietDrops \cup {Len(log')}
      BY <2>1 DEF ScoreDrop
    <3> QED
      BY <3>1
  <2>2. CASE ~InQuiet(quiet, now)
    BY <2>2 DEF ScoreDrop
  <2> QED
    BY <2>1, <2>2
<1> DEFINE row == NewRow("score_drop", None, ok)
<1>2. now \in Nat /\ log \in Seq(Row)
  BY DEF TypeOK
<1>3. row \in Row /\ (row.sent <=> ok) /\ row.told = IF ok THEN 1 ELSE 0
  <2>1. "score_drop" \in Kinds /\ None \in Endpoints \cup Families \cup {None} /\ ok \in BOOLEAN
    BY <1>1 DEF Kinds
  <2>2. row \in Row
    BY <1>2, <2>1, NewRowType
  <2>3. row.sent = ok /\ row.told = IF ok THEN 1 ELSE 0
    BY DEF NewRow
  <2> QED BY <2>2, <2>3
<1> HIDE DEF row
<1>4. /\ Len(log) \in Nat /\ DOMAIN log = 1 .. Len(log) /\ Len(log') = Len(log) + 1
      /\ DOMAIN log' = 1 .. Len(log) + 1 /\ log'[Len(log')] = row
      /\ \A i \in DOMAIN log : log'[i] = log[i]
  BY <1>1, <1>2, <1>3, AppendShape DEF row
<1>5. /\ \A i \in DOMAIN log' \ DOMAIN log : log'[i].told = IF log'[i].sent THEN 1 ELSE 0
      /\ \A d \in quietDrops' : d \in quietDrops \/ ~log'[d].sent
  BY <1>1, <1>3, <1>4
<1> QED
  BY <1>4, <1>5, AddedRowsTold DEF ToldInv, ScoreDrop

LEMMA FlushTold ==
    ASSUME TypeOK, ToldInv, Flush
    PROVE  ToldInv'
<1>1. CASE UNCHANGED <<log, faults>>
  BY <1>1 DEF Flush, ToldInv, ToldAtMostOnce, DropsUntold
<1>2. CASE \E delivered \in SUBSET WindowCards : WriteBack(delivered)
  <2>1. PICK delivered \in SUBSET WindowCards : WriteBack(delivered)
    BY <1>2
  <2>2. \A i \in UNION delivered :
           ~log[i].sent /\ log[i].kind \in {"down", "recovered", "group_down", "group_recovered"}
    <3>1. \A i \in UNION WindowCards : \E t \in Live(pending) \cup Live(groupPending) : i = t.id
      BY DEF WindowCards, EndpointCard
    <3>2. \A t \in Live(pending) \cup Live(groupPending) :
             /\ ~log[t.id].sent
             /\ log[t.id].kind \in {"down", "recovered", "group_down", "group_recovered"}
      BY DEF Live, TypeOK
    <3>3. UNION delivered \subseteq UNION WindowCards
      OBVIOUS
    <3> QED
      BY <3>1, <3>2, <3>3
  <2>3. ToldAtMostOnce'
    BY <2>1, <2>2, DeliveredRowsTold DEF ToldInv
  <2>4. PICK written \in SUBSET UNION delivered : log' = Confirm(log, UNION delivered, written)
    BY <2>1, WriteBackShape
  <2>5. DropsUntold'
    <3>1. \A d \in quietDrops : d \in DOMAIN log /\ d \notin written /\ ~log[d].sent
      BY <2>2 DEF TypeOK, ToldInv, DropsUntold
    <3>2. log \in Seq(Row) /\ quietDrops' = quietDrops
      BY DEF Flush, TypeOK
    <3> QED
      BY <2>4, <3>1, <3>2, ConfirmShape DEF DropsUntold
  <2> QED
    BY <2>3, <2>5 DEF ToldInv
<1> QED
  BY <1>1, <1>2 DEF Flush

LEMMA QuietBoundaryTold ==
    ASSUME TypeOK, ToldInv, QuietBoundary
    PROVE  ToldInv'
<1>1. CASE UNCHANGED log /\ (faults' = 0 => faults = 0) /\ quietDrops' \subseteq quietDrops
  BY <1>1 DEF ToldInv, ToldAtMostOnce, DropsUntold
<1>2. CASE quietDrops' = {} /\ WriteBack({Summary})
  <2>1. \A i \in UNION {Summary} : ~log[i].sent
    BY DEF Summary, SummaryGroups, SummaryEndpoints, AnchorsUnsent, ToldInv, DropsUntold
  <2>2. ToldAtMostOnce'
    BY <1>2, <2>1, DeliveredRowsTold DEF ToldInv
  <2> QED
    BY <1>2, <2>2 DEF ToldInv, DropsUntold
<1>3. faults' = faults + 1 => faults' # 0
  BY DEF TypeOK
<1> QED
  BY <1>1, <1>2, <1>3 DEF QuietBoundary

LEMMA NextTold == TypeOK /\ ToldInv /\ [Next]_vars => ToldInv'
<1> SUFFICES ASSUME TypeOK, ToldInv, [Next]_vars PROVE ToldInv'
  OBVIOUS
<1>1. CASE UNCHANGED <<log, quietDrops>> /\ (faults' = 0 => faults = 0)
  BY <1>1 DEF ToldInv, ToldAtMostOnce, DropsUntold
<1>2. CASE Restart
  BY <1>2 DEF Restart, ForgetMemory, ToldInv, ToldAtMostOnce, DropsUntold
<1>3. ASSUME NEW e \in Endpoints,
             TransitionUnbuffered(e) \/ \E step : Transition(e, step)
      PROVE  ToldInv'
  <2>1. /\ log' = RowsWith(e) \/ \E step : log' = RowsWithGroup(e, step)
        /\ UNCHANGED quietDrops /\ faults' \in Nat /\ (faults' = 0 => faults = 0)
    BY <1>3 DEF TransitionUnbuffered, Transition, TypeOK
  <2> QED
    BY <2>1, TurnsTold
<1>4. faults' = faults + 1 => faults' # 0
  BY DEF TypeOK
<1>5. \/ UNCHANGED <<log, quietDrops>> /\ (faults' = 0 => faults = 0)
      \/ Restart \/ ScoreDrop \/ Flush \/ QuietBoundary
      \/ \E e \in Endpoints : TransitionUnbuffered(e) \/ \E step : Transition(e, step)
  BY <1>4 DEF Next, HandleRound, vars, memory, StoreProbe, EditSettings, Tick,
     HandleSteadyRound, RoundUnread, TransitionUnrecorded
<1> QED
  BY <1>1, <1>2, <1>3, <1>5, ScoreDropTold, FlushTold, QuietBoundaryTold

LEMMA InitTold == Init => ToldInv
  BY DEF Init, ToldInv, ToldAtMostOnce, DropsUntold

\* No event is told by two delivered cards as long as no write-back is lost, and
\* sent_ok is never set on an event nobody was told of.
THEOREM EventsToldAtMostOnce == Spec => []ToldAtMostOnce
<1>1. ToldInv => ToldAtMostOnce
  BY DEF ToldInv
<1> QED
  BY <1>1, TypeCorrect, InitTold, NextTold, PTL DEF Spec

-----------------------------------------------------------------------------
(* Groups follow their members *)

\* The members of f that rows hold down.
DownIn(rows, f) == {m \in Group(f) : EndpointOpen(rows, m)}

\* The half-down rule with its hysteresis, read from the event log alone.
LogFollows(f) ==
    /\ GroupOpen(log, f) => 2 * Cardinality(DownIn(log, f)) >= Cardinality(Group(f))
    /\ (/\ 2 * Cardinality(DownIn(log, f)) >= Cardinality(Group(f))
        /\ Cardinality(DownIn(log, f)) >= 2) => GroupOpen(log, f)

\* What GroupFollowsMembers rests on: undisturbed, every turn was recorded, and
\* the log tells the same as the flags, also after a restart has forgotten those.
GroupsInv ==
    (edits = 0 /\ faults = 0) =>
        /\ muted = {} /\ Configured
        /\ \A f \in Vendors : LogFollows(f)

\* Groups and their faulty members can be counted.
LEMMA MembersCount ==
    ASSUME TypeOK, NEW f, NEW rows
    PROVE  /\ Cardinality(Group(f)) \in Nat
           /\ Cardinality(DownIn(rows, f)) \in Nat
           /\ (Group(f) = {} => Cardinality(DownIn(rows, f)) = 0 /\ Cardinality(Group(f)) = 0)
<1>1. IsFiniteSet(Endpoints)
  BY EndpointsAssumption
<1>2. Group(f) \in SUBSET Endpoints /\ DownIn(rows, f) \in SUBSET Group(f)
  BY DEF Group, DownIn, TypeOK
<1>3. IsFiniteSet(Group(f)) /\ IsFiniteSet(DownIn(rows, f))
  BY <1>1, <1>2, FS_Subset
<1>4. Group(f) = {} => DownIn(rows, f) = {}
  BY <1>2
<1> QED
  BY <1>3, <1>4, FS_CardinalityType, FS_EmptySet

\* With every turn recorded, the flags name the members that the log holds down.
LEMMA FaultyIsDown ==
    ASSUME TypeOK, FlagsMatchLog, muted = {}, NEW f
    PROVE  Faulty(f, alerted, log) = DownIn(log, f)
<1>1. \A m \in Endpoints : FlaggedIn(alerted, log, m) <=> EndpointOpen(log, m)
  BY DEF FlagsMatchLog, FlaggedIn
<1>2. Group(f) \subseteq Endpoints
  BY DEF Group, TypeOK
<1> QED
  BY <1>1, <1>2 DEF Faulty, DownIn

\* The members that a transition counts are those the log will hold down.
LEMMA FaultyNowIsDown ==
    ASSUME TypeOK, FlagsMatchLog, muted = {}, Configured, NEW e \in Endpoints
    PROVE  FaultyNow(e) = DownIn(RowsWith(e), FamilyOf[e])
<1>1. ASSUME NEW m \in Endpoints
      PROVE  FlaggedIn(FlippedFlags(e), RowsWith(e), m) <=> EndpointOpen(RowsWith(e), m)
  <2>1. CASE m = e
    <3>1. FlippedFlags(e)[m] = AsFlag(IsDown(e))
      BY <2>1 DEF FlippedFlags, TypeOK
    <3>2. EndpointOpen(RowsWith(e), m) <=> IsDown(e)
      BY <2>1, TurnDecides
    <3> QED BY <3>1, <3>2 DEF FlaggedIn, AsFlag
  <2>2. CASE m # e
    <3>1. FlippedFlags(e)[m] = alerted[m]
      BY <2>2 DEF FlippedFlags, TypeOK
    <3>2. EndpointOpen(RowsWith(e), m) <=> EndpointOpen(log, m)
      BY <2>2, TurnDecides
    <3>3. alerted[m] # "unknown" => (alerted[m] = "open" <=> EndpointOpen(log, m))
      BY DEF FlagsMatchLog
    <3> QED BY <3>1, <3>2, <3>3 DEF FlaggedIn
  <2> QED BY <2>1, <2>2
<1>2. Group(FamilyOf[e]) \subseteq Endpoints
  BY DEF Group, TypeOK
<1> QED
  BY <1>1, <1>2 DEF FaultyNow, Faulty, DownIn

\* evaluateGroupLocked restores the rule at the cut of its endpoint's turn.
LEMMA TransitionFollows ==
    ASSUME TypeOK, FlagsMatchLog, GroupsInv, NEW e \in Endpoints, NEW step,
           Transition(e, step), edits' = 0, faults' = 0
    PROVE  GroupsInv'
<1> DEFINE F == FamilyOf[e]
<1>1. /\ UNCHANGED <<members, webhook, alerts>> /\ edits = 0 /\ faults = 0 /\ step = "ok"
      /\ log' = RowsWithGroup(e, step)
  BY DEF Transition, TypeOK, settings
<1>2. muted = {} /\ Configured /\ Configured' /\ \A f \in Vendors : LogFollows(f)
  BY <1>1 DEF GroupsInv, Configured
<1>3. GroupRecorded(e, step) <=> GroupTurns(e, step)
  BY <1>1, <1>2 DEF GroupRecorded
<1>4. muted' = {}
  BY <1>2, <1>3 DEF Transition, MutedBy
<1>5. F \in Families /\ Vendors \subseteq Families
  BY EndpointsAssumption
<1>6. /\ \A m \in Endpoints : EndpointOpen(log', m) <=> EndpointOpen(RowsWith(e), m)
      /\ \A f \in Families : GroupOpen(log', f)
            <=> IF f = F /\ GroupTurns(e, step) THEN GroupOpens(e, step) ELSE GroupOpen(log, f)
  BY <1>1, <1>3, GroupTurnDecides
<1>7. \A f : Group(f)' = Group(f)
  BY <1>1 DEF Group
<1>8. \A f : DownIn(log, f)' = DownIn(RowsWith(e), f)
  <2>1. \A f : Group(f) \subseteq Endpoints
    BY DEF Group, TypeOK
  <2> QED BY <1>6, <1>7, <2>1 DEF DownIn, EndpointOpen
<1>9. ASSUME NEW f \in Vendors
      PROVE  LogFollows(f)'
  <2>1. CASE f # F
    <3>1. \A m \in Group(f) : m \in Endpoints /\ m # e
      BY <2>1 DEF Group, TypeOK
    <3>2. DownIn(RowsWith(e), f) = DownIn(log, f)
      BY <3>1, TurnDecides DEF DownIn
    <3>3. GroupOpen(log, f)' <=> GroupOpen(log, f)
      BY <1>5, <1>6, <2>1 DEF GroupOpen
    <3> QED BY <1>2, <1>7, <1>8, <3>2, <3>3 DEF LogFollows
  <2>2. CASE f = F
    <3> DEFINE n == Cardinality(DownIn(RowsWith(e), F))
               g == Cardinality(Group(F))
    <3>1. n \in Nat /\ g \in Nat /\ (Group(F) = {} => n = 0 /\ g = 0)
      BY MembersCount
    <3>2. n = Cardinality(FaultyNow(e))
      BY <1>2, FaultyNowIsDown
    <3>3. WasOpen(e) <=> GroupOpen(log, F)
      BY <1>2, <1>5, TurnDecides DEF WasOpen, GroupFlagged, FlagsMatchLog
    <3>4. GroupOpens(e, step)
            <=> Group(F) # {} /\ ~GroupOpen(log, F) /\ n >= 2 /\ 2 * n >= g
      BY <1>1, <2>2, <3>2, <3>3 DEF GroupOpens, Opens, Evaluated
    <3>5. GroupCloses(e, step) <=> Group(F) # {} /\ GroupOpen(log, F) /\ 2 * n < g
      BY <1>1, <2>2, <3>2, <3>3 DEF GroupCloses, Closes, Evaluated
    <3>6. GroupOpen(log, F)' <=> IF GroupTurns(e, step) THEN GroupOpens(e, step)
                                                       ELSE GroupOpen(log, F)
      BY <1>5, <1>6 DEF GroupOpen
    <3>7. Cardinality(DownIn(log, f))' = n /\ Cardinality(Group(f))' = g
      BY <1>7, <1>8, <2>2
    <3> HIDE DEF n, g
    <3>8. /\ GroupOpen(log, F)' => 2 * n >= g
          /\ 2 * n >= g /\ n >= 2 => GroupOpen(log, F)'
      BY <3>1, <3>4, <3>5, <3>6 DEF GroupTurns
    <3> QED BY <2>2, <3>7, <3>8 DEF LogFollows
  <2> QED BY <2>1, <2>2
<1> QED BY <1>2, <1>4, <1>9 DEF GroupsInv

\* Every other step leaves the open outages of the log as they are.
LEMMA OthersFollow ==
    ASSUME TypeOK, GroupsInv, UNCHANGED <<members, webhook, alerts, muted>> \/ Restart,
           edits' = edits, faults' = 0 => faults = 0,
           \A who : /\ EndpointOpen(log', who) <=> EndpointOpen(log, who)
                    /\ GroupOpen(log', who) <=> GroupOpen(log, who)
    PROVE  GroupsInv'
<1> SUFFICES ASSUME edits' = 0, faults' = 0
             PROVE  muted' = {} /\ Configured' /\ \A f \in Vendors : LogFollows(f)'
  BY DEF GroupsInv
<1>1. muted = {} /\ Configured /\ \A f \in Vendors : LogFollows(f)
  BY DEF GroupsInv
<1>2. UNCHANGED <<members, webhook, alerts>> /\ muted' = {}
  BY <1>1 DEF Restart, settings
<1>3. \A f : Group(f)' = Group(f)
  BY <1>2 DEF Group
<1>4. \A f : DownIn(log, f)' = DownIn(log, f)
  BY <1>3 DEF DownIn, EndpointOpen
<1>5. \A f : GroupOpen(log, f)' <=> GroupOpen(log, f)
  BY DEF GroupOpen
<1>6. \A f \in Vendors : LogFollows(f)'
  BY <1>1, <1>3, <1>4, <1>5 DEF LogFollows
<1> QED BY <1>1, <1>2, <1>6 DEF Configured

\* GroupsInv is inductive once the types and the flags are known.
LEMMA NextFollows ==
    TypeOK /\ FlagsMatchLog /\ GroupsInv /\ [Next]_vars => GroupsInv'
<1> SUFFICES ASSUME TypeOK, FlagsMatchLog, GroupsInv, [Next]_vars PROVE GroupsInv'
  OBVIOUS
<1>1. CASE ~(edits' = 0 /\ faults' = 0)
  BY <1>1 DEF GroupsInv
<1>2. ASSUME edits' = 0, faults' = 0, NEW e \in Endpoints, NEW step, Transition(e, step)
      PROVE  GroupsInv'
  BY <1>2, TransitionFollows
<1>3. CASE edits' = 0 /\ faults' = 0 /\ (Flush \/ QuietBoundary)
  <2>1. \A who : /\ EndpointOpen(log', who) <=> EndpointOpen(log, who)
                 /\ GroupOpen(log', who) <=> GroupOpen(log, who)
    BY <1>3, DeliveryKeepsLog DEF EndpointOpen, GroupOpen
  <2>2. faults = 0
    <3>1. faults' = faults \/ faults' = faults + 1
      BY <1>3 DEF Flush, QuietBoundary, WriteBack
    <3>2. faults \in Nat /\ faults' = 0
      BY <1>3 DEF TypeOK
    <3> QED BY <3>1, <3>2
  <2>3. UNCHANGED <<members, webhook, alerts, muted>> /\ edits' = edits
    BY <1>3 DEF Flush, QuietBoundary, settings
  <2> QED BY <2>1, <2>2, <2>3, OthersFollow
<1>4. CASE ScoreDrop
  <2>1. \A who : /\ EndpointOpen(log', who) <=> EndpointOpen(log, who)
                 /\ GroupOpen(log', who) <=> GroupOpen(log, who)
    BY <1>4, DropOpensNothing
  <2>2. UNCHANGED <<members, webhook, alerts, muted, edits, faults>>
    BY <1>4 DEF ScoreDrop, settings
  <2> QED BY <2>1, <2>2, OthersFollow
<1>5. CASE /\ UNCHANGED <<members, webhook, alerts, edits, log, faults>>
           /\ (UNCHANGED muted \/ Restart)
  <2>1. \A who : /\ EndpointOpen(log', who) <=> EndpointOpen(log, who)
                 /\ GroupOpen(log', who) <=> GroupOpen(log, who)
    BY <1>5
  <2> QED BY <1>5, <2>1, OthersFollow
<1>6. \/ ~(edits' = 0 /\ faults' = 0) \/ Flush \/ QuietBoundary \/ ScoreDrop
      \/ /\ UNCHANGED <<members, webhook, alerts, edits, log, faults>>
         /\ (UNCHANGED muted \/ Restart)
      \/ \E e \in Endpoints : \E step : Transition(e, step)
  <2> DEFINE Stays == UNCHANGED <<members, webhook, alerts, edits, log, faults, muted>>
  <2>1. edits \in Nat /\ faults \in Nat
    BY DEF TypeOK
  <2>2. EditSettings => edits' # 0
    BY <2>1 DEF EditSettings
  <2>3. \A e : RoundUnread(e) \/ TransitionUnrecorded(e) \/ TransitionUnbuffered(e) => faults' # 0
    <3>1. \A e : RoundUnread(e) \/ TransitionUnrecorded(e) \/ TransitionUnbuffered(e) =>
                faults' = faults + 1
      BY DEF RoundUnread, TransitionUnrecorded, TransitionUnbuffered
    <3> QED BY <2>1, <3>1
  <2>4. \A e, ok : StoreProbe(e, ok) \/ HandleSteadyRound(e) => Stays
    BY DEF StoreProbe, HandleSteadyRound, settings
  <2>5. Tick \/ UNCHANGED vars => Stays
    BY DEF Tick, vars, settings
  <2>6. Restart => UNCHANGED <<members, webhook, alerts, edits, log, faults>>
    BY DEF Restart, settings
  <2> QED BY <2>2, <2>3, <2>4, <2>5, <2>6 DEF Next, HandleRound
<1> QED BY <1>1, <1>2, <1>3, <1>4, <1>5, <1>6

\* At the start nobody is down.
LEMMA InitFollows == Init => GroupsInv
<1> SUFFICES ASSUME Init PROVE GroupsInv
  OBVIOUS
<1>1. TypeOK /\ muted = {} /\ Configured /\ log = <<>>
  BY InitTypes DEF Init, Configured
<1>2. \A who, opening, closing : ~OpenIn(log, who, opening, closing)
  BY <1>1 DEF OpenIn, Transitions
<1>3. \A f : DownIn(log, f) = {} /\ ~GroupOpen(log, f)
  BY <1>2 DEF DownIn, EndpointOpen, GroupOpen
<1>4. \A f \in Vendors : LogFollows(f)
  BY <1>3, FS_EmptySet DEF LogFollows
<1> QED BY <1>1, <1>4 DEF GroupsInv

\* With stable settings and no store error, a vendor group is held open exactly
\* while half of its members are held down, whatever restarts forget.
THEOREM GroupsFollowMembers == Spec => []GroupFollowsMembers
<1>1. TypeOK /\ FlagsMatchLog /\ GroupsInv => GroupFollowsMembers
  <2> SUFFICES ASSUME TypeOK, FlagsMatchLog, GroupsInv, edits = 0, faults = 0, NEW f \in Vendors
               PROVE  LET faulty == Cardinality(Faulty(f, alerted, log))
                          half   == 2 * faulty >= Cardinality(Group(f))
                      IN  /\ GroupFlagged(log, f) => half
                          /\ (half /\ faulty >= 2) => GroupFlagged(log, f)
    BY DEF GroupFollowsMembers
  <2>1. muted = {} /\ LogFollows(f)
    BY DEF GroupsInv
  <2>2. Faulty(f, alerted, log) = DownIn(log, f)
    BY <2>1, FaultyIsDown
  <2>3. GroupFlagged(log, f) <=> GroupOpen(log, f)
    BY <2>1, EndpointsAssumption DEF FlagsMatchLog, GroupFlagged
  <2> QED BY <2>1, <2>2, <2>3 DEF LogFollows
<1>2. Init => GroupsInv
  BY InitFollows
<1>3. TypeOK /\ FlagsMatchLog /\ GroupsInv /\ [Next]_vars => GroupsInv'
  BY NextFollows
<1> QED
  BY <1>1, <1>2, <1>3, TypeCorrect, CacheMatchesLog, PTL DEF Spec

-----------------------------------------------------------------------------
(* The aggregation window *)

\* No row loses its place, kind, subject or time.
LEMMA RowsStay ==
    ASSUME TypeOK, [Next]_vars, NEW i \in DOMAIN log
    PROVE  /\ i \in DOMAIN log'
           /\ log'[i].kind = log[i].kind /\ log'[i].about = log[i].about
           /\ log'[i].at = log[i].at
<1>1. CASE UNCHANGED log
  BY <1>1
<1>2. CASE Flush \/ QuietBoundary
  BY <1>2, DeliveryKeepsLog
<1>3. ASSUME NEW e \in Endpoints, log' = RowsWith(e) \/ \E step : log' = RowsWithGroup(e, step)
      PROVE  i \in DOMAIN log' /\ log'[i] = log[i]
  BY <1>3, RowsWithShape, RowsWithGroupShape
<1>4. CASE ScoreDrop
  <2>1. PICK ok \in BOOLEAN : log' = Append(log, NewRow("score_drop", None, ok))
    BY <1>4 DEF ScoreDrop
  <2> DEFINE row == NewRow("score_drop", None, ok)
  <2>2. now \in Nat /\ log \in Seq(Row)
    BY DEF TypeOK
  <2>3. row \in Row
    BY <2>2, NewRowType DEF Kinds
  <2> HIDE DEF row
  <2> QED BY <2>1, <2>2, <2>3, AppendShape DEF row
<1>5. \/ UNCHANGED log \/ ScoreDrop \/ Flush \/ QuietBoundary
      \/ \E e \in Endpoints : log' = RowsWith(e) \/ \E step : log' = RowsWithGroup(e, step)
  BY DEF Next, HandleRound, vars, StoreProbe, EditSettings, Tick, Restart, HandleSteadyRound,
         RoundUnread, TransitionUnrecorded, TransitionUnbuffered, Transition
<1> QED BY <1>1, <1>2, <1>3, <1>4, <1>5

\* What BuffersAwaitFlush rests on: the window was opened no later than the first
\* of its items was decided, and its timer is overdue by the lock's delay at most.
WindowInv ==
    /\ windowFires = None <=> pending \cup groupPending = {}
    /\ windowFires # None =>
          /\ now <= windowFires + MaxLate
          /\ windowFires <= now + Window
          /\ \A t \in pending \cup groupPending : windowFires <= log[t.id].at + Window

\* A step that buffers and flushes nothing.
LEMMA WindowStays ==
    ASSUME TypeOK, WindowInv, [Next]_vars, UNCHANGED <<pending, groupPending, windowFires, now>>
    PROVE  WindowInv'
<1>1. \A t \in pending \cup groupPending : t.id \in DOMAIN log
  BY DEF TypeOK
<1>2. \A t \in pending \cup groupPending : log'[t.id].at = log[t.id].at
  BY <1>1, RowsStay
<1> QED BY <1>2 DEF WindowInv

\* A recorded turn opens the window, or finds it open.
LEMMA TransitionWindow ==
    ASSUME TypeOK, WindowInv, [Next]_vars, NEW e \in Endpoints, NEW step, Transition(e, step),
           Configured
    PROVE  WindowInv'
<1>1. /\ now \in Nat /\ Window \in Nat /\ MaxLate \in Nat /\ None \notin Int /\ now' = now
      /\ windowFires \in Nat \cup {None} /\ log' = RowsWithGroup(e, step)
      /\ windowFires' = Armed(windowFires)
  BY ClockAssumption DEF TypeOK, Transition
<1>2. /\ windowFires' \in Nat /\ now <= windowFires' + MaxLate /\ windowFires' <= now + Window
      /\ windowFires # None => windowFires' = windowFires
  BY <1>1 DEF Armed, WindowInv
<1>3. pending' = pending \cup {Single(e, step)} /\ Single(e, step).id = Len(RowsWith(e))
  BY DEF Transition, Single
<1>4. log'[Len(RowsWith(e))].at = now
  BY <1>1, RowsWithShape, RowsWithGroupShape
<1>5. ASSUME NEW t \in pending'
      PROVE  windowFires' <= log'[t.id].at + Window
  <2>1. CASE t \in pending
    <3>1. windowFires # None /\ windowFires <= log[t.id].at + Window
      BY <2>1 DEF WindowInv
    <3>2. log'[t.id].at = log[t.id].at
      BY <2>1, RowsStay DEF TypeOK
    <3> QED BY <1>2, <3>1, <3>2
  <2>2. CASE t = Single(e, step)
    BY <1>2, <1>3, <1>4, <2>2
  <2> QED BY <1>3, <1>5, <2>1, <2>2
<1>6. ASSUME NEW g \in groupPending'
      PROVE  windowFires' <= log'[g.id].at + Window
  <2>1. CASE g \in groupPending
    <3>1. windowFires # None /\ windowFires <= log[g.id].at + Window
      BY <2>1 DEF WindowInv
    <3>2. log'[g.id].at = log[g.id].at
      BY <2>1, RowsStay DEF TypeOK
    <3> QED BY <1>2, <3>1, <3>2
  <2>2. ASSUME NEW healed, g = GroupCard(e, step, healed), GroupRecorded(e, step)
        PROVE  windowFires' <= log'[g.id].at + Window
    <3>1. g.id = Len(log')
      BY <1>1, <2>2 DEF GroupCard
    <3>2. log'[Len(log')].at = now
      BY <1>1, <2>2, RowsWithGroupShape
    <3> QED BY <1>2, <3>1, <3>2
  <2> QED BY <1>6, <2>1, <2>2 DEF Transition
<1>7. pending' # {}
  BY <1>3
<1> QED BY <1>1, <1>2, <1>5, <1>6, <1>7 DEF WindowInv

\* WindowInv is inductive once the types are known.
LEMMA NextWindow == TypeOK /\ WindowInv /\ [Next]_vars => WindowInv'
<1> SUFFICES ASSUME TypeOK, WindowInv, [Next]_vars PROVE WindowInv'
  OBVIOUS
<1>1. CASE UNCHANGED <<pending, groupPending, windowFires, now>>
  BY <1>1, WindowStays
<1>2. CASE Flush \/ Restart
  <2>1. pending' = {} /\ groupPending' = {} /\ windowFires' = None
    BY <1>2 DEF Flush, Restart, ForgetMemory
  <2> QED BY <2>1 DEF WindowInv
<1>3. CASE Tick
  <2>1. /\ UNCHANGED <<pending, groupPending, windowFires, log>> /\ now' = now + 1 /\ now \in Nat
        /\ windowFires # None => now < windowFires + MaxLate
        /\ windowFires \in Nat \cup {None} /\ MaxLate \in Nat /\ Window \in Nat
    BY <1>3, ClockAssumption DEF Tick, memory, TypeOK
  <2>2. windowFires' # None => now' <= windowFires' + MaxLate /\ windowFires' <= now' + Window
    BY <2>1 DEF WindowInv
  <2> QED BY <2>1, <2>2 DEF WindowInv
<1>4. ASSUME NEW e \in Endpoints, NEW step, Transition(e, step)
      PROVE  WindowInv'
  <2>1. CASE Configured
    BY <1>4, <2>1, TransitionWindow
  <2>2. CASE ~Configured
    <3>1. UNCHANGED <<pending, groupPending, windowFires, now>>
      BY <1>4, <2>2 DEF Transition, GroupRecorded
    <3> QED BY <3>1, WindowStays
  <2> QED BY <2>1, <2>2
<1>5. \/ UNCHANGED <<pending, groupPending, windowFires, now>>
      \/ Flush \/ Restart \/ Tick \/ \E e \in Endpoints : \E step : Transition(e, step)
  BY DEF Next, HandleRound, vars, memory, StoreProbe, EditSettings, HandleSteadyRound,
         RoundUnread, TransitionUnrecorded, TransitionUnbuffered, ScoreDrop, QuietBoundary
<1> QED BY <1>1, <1>2, <1>3, <1>4, <1>5

\* The aggregation timer is armed exactly while something is buffered, and every
\* buffered transition meets its flush within one window and the lock's delay.
THEOREM BuffersMeetTheirFlush == Spec => []BuffersAwaitFlush
<1>1. TypeOK /\ WindowInv => BuffersAwaitFlush
  <2> SUFFICES ASSUME TypeOK, WindowInv, NEW t \in pending \cup groupPending
               PROVE  now <= log[t.id].at + Window + MaxLate
    BY DEF BuffersAwaitFlush, WindowInv
  <2>1. /\ windowFires # None /\ now <= windowFires + MaxLate
        /\ windowFires <= log[t.id].at + Window
    BY DEF WindowInv
  <2>2. now \in Nat /\ windowFires \in Nat /\ MaxLate \in Nat /\ Window \in Nat
    BY <2>1, ClockAssumption DEF TypeOK
  <2>3. t.id \in DOMAIN log /\ log \in Seq(Row)
    BY DEF TypeOK
  <2>4. log[t.id] \in Row
    BY <2>3
  <2>5. log[t.id].at \in Nat
    BY <2>4 DEF Row
  <2> QED BY <2>1, <2>2, <2>5
<1>2. Init => WindowInv
  BY DEF Init, WindowInv
<1>3. TypeOK /\ WindowInv /\ [Next]_vars => WindowInv'
  BY NextWindow
<1> QED
  BY <1>1, <1>2, <1>3, TypeCorrect, PTL DEF Spec

-----------------------------------------------------------------------------
(* Never swallow *)

\* What LastOutageIsOnACard rests on: only recovery cards list recovered members,
\* group cards are told apart by their rows, and any choice of them has a last one.
CardsInv ==
    /\ \A g \in groupPending : g.recovered # {} => log[g.id].kind = "group_recovered"
    /\ \A g, h \in groupPending : g.id = h.id => g = h
    /\ \A S \in SUBSET groupPending : S # {} => \E g \in S : \A h \in S : h.id <= g.id

\* A group turn adds the last card.
LEMMA TransitionCards ==
    ASSUME TypeOK, CardsInv, [Next]_vars, NEW e \in Endpoints, NEW step, Transition(e, step),
           GroupRecorded(e, step)
    PROVE  CardsInv'
<1> PICK healed \in Listed(e, step) :
         groupPending' = groupPending \cup {GroupCard(e, step, healed)}
  BY DEF Transition
<1> DEFINE card == GroupCard(e, step, healed)
<1>1. groupPending' = groupPending \cup {card} /\ log' = RowsWithGroup(e, step)
  BY DEF Transition
<1>2. /\ card.id = Len(log')
      /\ card.recovered # {} => GroupCloses(e, step)
  BY <1>1, ListedParts DEF GroupCard
<1>3. GroupCloses(e, step) => log'[Len(log')].kind = "group_recovered"
  <2>1. GroupCloses(e, step) => ~GroupOpens(e, step)
    BY DEF GroupCloses, GroupOpens, Closes, Opens
  <2>2. /\ log'[Len(log')].kind \in {"group_down", "group_recovered"}
        /\ log'[Len(log')].kind = "group_down" <=> GroupOpens(e, step)
    BY <1>1, RowsWithGroupShape
  <2> QED BY <2>1, <2>2
<1>4. ASSUME NEW g \in groupPending
      PROVE  /\ g.id < card.id /\ g.id \in Nat /\ card.id \in Nat
             /\ log'[g.id].kind = log[g.id].kind
  <2>1. g.id \in DOMAIN log /\ log \in Seq(Row)
    BY DEF TypeOK
  <2>2. g.id \in Nat /\ g.id <= Len(log) /\ Len(log) \in Nat
    BY <2>1
  <2>3. /\ Len(log) <= Len(RowsWith(e)) /\ Len(RowsWith(e)) \in Nat
        /\ Len(log') = Len(RowsWith(e)) + 1
    BY <1>1, RowsWithShape, RowsWithGroupShape
  <2> QED BY <1>2, <2>1, <2>2, <2>3, RowsStay
<1>5. card.id \in Nat
  BY <1>1, <1>2, RowsWithGroupShape
<1> HIDE DEF card
<1>6. \A g \in groupPending' : g.recovered # {} => log'[g.id].kind = "group_recovered"
  BY <1>1, <1>2, <1>3, <1>4 DEF CardsInv
<1>7. \A g, h \in groupPending' : g.id = h.id => g = h
  BY <1>1, <1>4, <1>5 DEF CardsInv
<1>8. ASSUME NEW S \in SUBSET groupPending', S # {}
      PROVE  \E g \in S : \A h \in S : h.id <= g.id
  <2>1. CASE card \in S
    <3>1. \A h \in S : h.id <= card.id
      BY <1>1, <1>4, <1>5
    <3> QED BY <2>1, <3>1
  <2>2. CASE card \notin S
    BY <1>1, <1>8, <2>2 DEF CardsInv
  <2> QED BY <2>1, <2>2
<1> QED BY <1>6, <1>7, <1>8 DEF CardsInv

\* CardsInv is inductive once the types are known.
LEMMA NextCards == TypeOK /\ CardsInv /\ [Next]_vars => CardsInv'
<1> SUFFICES ASSUME TypeOK, CardsInv, [Next]_vars PROVE CardsInv'
  OBVIOUS
<1>1. CASE UNCHANGED groupPending
  <2>1. \A g \in groupPending : log'[g.id].kind = log[g.id].kind
    BY RowsStay DEF TypeOK
  <2> QED BY <1>1, <2>1 DEF CardsInv
<1>2. CASE groupPending' = {}
  BY <1>2 DEF CardsInv
<1>3. ASSUME NEW e \in Endpoints, NEW step, Transition(e, step), GroupRecorded(e, step)
      PROVE  CardsInv'
  BY <1>3, TransitionCards
<1>4. \/ UNCHANGED groupPending \/ groupPending' = {}
      \/ \E e \in Endpoints : \E step : Transition(e, step) /\ GroupRecorded(e, step)
  BY DEF Next, HandleRound, vars, memory, StoreProbe, EditSettings, HandleSteadyRound, Tick,
         RoundUnread, TransitionUnrecorded, TransitionUnbuffered, ScoreDrop, QuietBoundary,
         Transition, Flush, Restart, ForgetMemory
<1> QED BY <1>1, <1>2, <1>3, <1>4

\* An endpoint whose last buffered turn is an unabsorbed outage is on the down card,
\* or the last group card that mentions it lists it as faulty.
THEOREM NoOutageIsSwallowed == Spec => []LastOutageIsOnACard
<1>1. TypeOK /\ CardsInv => LastOutageIsOnACard
  <2> SUFFICES ASSUME TypeOK, CardsInv, NEW t \in Live(pending),
                      log[t.id].kind = "down", ~t.absorbed, t.id \notin EndpointCard("down")
               PROVE  LET e == log[t.id].about
                          mentions == {g \in Live(groupPending) :
                                          e \in g.faulty \cup g.recovered}
                      IN  \E g \in mentions : e \in g.faulty /\ \A h \in mentions : h.id <= g.id
    BY DEF LastOutageIsOnACard
  <2> DEFINE e == log[t.id].about
             mentions == {g \in Live(groupPending) : e \in g.faulty \cup g.recovered}
  <2>1. Covered(e)
    BY DEF EndpointCard
  <2>2. PICK g \in Live(groupPending) :
            /\ log[g.id].kind = "group_down" /\ e \in g.faulty
            /\ \A h \in Live(groupPending) :
                   (h.id > g.id /\ log[h.id].kind = "group_recovered") => e \notin h.recovered
    BY <2>1 DEF Covered
  <2>3. g \in mentions /\ mentions \in SUBSET groupPending
    BY <2>2 DEF Live
  <2>4. PICK h \in mentions : \A k \in mentions : k.id <= h.id
    BY <2>3 DEF CardsInv
  <2>5. g.id \in Nat /\ h.id \in Nat /\ h \in groupPending /\ h \in Live(groupPending)
    BY <2>3 DEF TypeOK, BufferedGroup
  <2>6. e \in h.faulty
    <3> SUFFICES ASSUME e \notin h.faulty PROVE FALSE
      OBVIOUS
    <3>1. e \in h.recovered /\ h # g
      BY <2>2, <2>4
    <3>2. log[h.id].kind = "group_recovered" /\ h.id # g.id
      BY <2>3, <2>5, <3>1 DEF CardsInv
    <3>3. h.id > g.id
      BY <2>3, <2>4, <2>5, <3>2
    <3> QED BY <2>2, <2>5, <3>1, <3>2, <3>3
  <2> QED BY <2>4, <2>6
<1>2. Init => CardsInv
  BY DEF Init, CardsInv
<1>3. TypeOK /\ CardsInv /\ [Next]_vars => CardsInv'
  BY NextCards
<1> QED
  BY <1>1, <1>2, <1>3, TypeCorrect, PTL DEF Spec

-----------------------------------------------------------------------------
(* Hours of the day *)

\* A product grows by its factor at least, and distributes.
LEMMA Multiples == \A d \in Nat \ {0}, a \in Int : a >= 1 => d * a >= d
  OBVIOUS

LEMMA Distributes ==
    \A d, a, b \in Int : /\ d * a \in Int
                         /\ d * (a + b) = d * a + d * b
                         /\ d * (a - b) = d * a - d * b
  OBVIOUS

\* Division with remainder.
LEMMA Division ==
    \A x \in Int, d \in Nat \ {0} :
        x \div d \in Int /\ x % d \in 0 .. d - 1 /\ x = d * (x \div d) + (x % d)
  OBVIOUS

\* One day further and still before it: no remainder fits both.
LEMMA NoTwoDays ==
    ASSUME NEW d \in Nat \ {0}, NEW a \in Int, NEW b \in Int, a > b,
           NEW r \in 0 .. d - 1, NEW s \in 0 .. d - 1, d * a + r = d * b + s
    PROVE  FALSE
<1> DEFINE X == d * a
           Y == d * b
           Z == d * (a - b)
<1>1. Z >= d
  BY Multiples
<1>2. X \in Int /\ Y \in Int /\ Z \in Int /\ Z = X - Y /\ X + r = Y + s
  BY Distributes
<1> HIDE DEF X, Y, Z
<1> QED BY <1>1, <1>2

\* The hour of an instant is the only remainder of it.
LEMMA Remainder ==
    ASSUME NEW d \in Nat \ {0}, NEW a \in Int, NEW r \in 0 .. d - 1
    PROVE  (d * a + r) % d = r
<1> DEFINE x == d * a + r
           b == x \div d
           s == x % d
<1>1. x \in Int
  BY Distributes
<1> HIDE DEF x
<1>2. b \in Int /\ s \in 0 .. d - 1 /\ x = d * b + s
  BY <1>1, Division
<1> HIDE DEF b, s
<1>3. d * a + r = d * b + s
  BY <1>2 DEF x
<1>4. a = b
  BY <1>2, <1>3, NoTwoDays
<1>5. d * a \in Int
  BY Distributes
<1> DEFINE y == d * a
<1>6. y \in Int /\ y + r = y + s
  BY <1>3, <1>4, <1>5
<1> HIDE DEF y
<1>7. r = s
  BY <1>2, <1>6
<1> QED BY <1>7 DEF s, x

\* NextAt is the first instant after t at hour h.
LEMMA NextAtFacts ==
    ASSUME NEW h \in 0 .. DayLength - 1, NEW t \in Nat
    PROVE  /\ NextAt(h, t) \in Nat /\ NextAt(h, t) > t
           /\ NextAt(h, t) % DayLength = h
           /\ \A m \in Nat : m > t /\ m % DayLength = h => NextAt(h, t) <= m
<1> DEFINE d == DayLength
           y == h - t - 1
           q == y \div d
           r == y % d
<1>1. d \in Nat \ {0}
  BY ClockAssumption
<1>2. y \in Int
  BY <1>1
<1>3. q \in Int /\ r \in 0 .. d - 1 /\ y = d * q + r
  BY <1>1, <1>2, Division
<1>4. NextAt(h, t) = t + 1 + r
  BY DEF NextAt
<1> DEFINE p == d * q
<1>5. p \in Int /\ h - t - 1 = p + r
  BY <1>1, <1>3, Distributes
<1>6. NextAt(h, t) \in Nat /\ NextAt(h, t) > t
  BY <1>1, <1>3, <1>4
<1>7. NextAt(h, t) % d = h
  <2>1. d * (0 - q) = 0 - p
    <3>1. d * (0 - q) = d * 0 - d * q /\ d * 0 = 0
      BY <1>1, <1>3, Distributes
    <3> QED BY <3>1
  <2>2. t + 1 + r = (0 - p) + h
    <3> HIDE DEF p, r, d, y
    <3> QED BY <1>3, <1>5
  <2>3. 0 - q \in Int
    BY <1>3
  <2> HIDE DEF p, r, q, d
  <2>4. (d * (0 - q) + h) % d = h
    BY <1>1, <2>3, Remainder DEF d
  <2> QED BY <1>4, <2>1, <2>2, <2>4
<1>8. ASSUME NEW m \in Nat, m > t, m % d = h
      PROVE  NextAt(h, t) <= m
  <2> DEFINE a == m \div d
             z == d * a
             x == m - t - 1
  <2>1. a \in Int /\ m = z + h /\ z \in Int
    BY <1>1, <1>8, Division, Distributes
  <2>2. d * (a + q) = z + p
    BY <1>1, <1>3, <2>1, Distributes
  <2>3. x \in Nat /\ x = (z + p) + r
    <3>1. x \in Nat
      BY <1>8
    <3> HIDE DEF p, z, r, d, y, a
    <3> QED BY <1>3, <1>5, <2>1, <3>1
  <2>4. a + q \in Int
    BY <1>3, <2>1
  <2> HIDE DEF a, z, x, q, r, p, d
  <2>5. (d * (a + q) + r) % d = r
    BY <1>1, <1>3, <2>4, Remainder
  <2>6. x % d = r
    BY <2>2, <2>3, <2>5
  <2>7. \A n \in Nat : n % d <= n
    BY <1>1
  <2>8. r <= x
    BY <2>3, <2>6, <2>7
  <2> QED BY <1>1, <1>3, <1>4, <2>3, <2>8 DEF x
<1> QED BY <1>6, <1>7, <1>8

\* The hours that are not quiet.
Loud(q) == (q.start - q.end) % DayLength

\* It stays loud for Loud(q) ticks from the end of the quiet hours.
LEMMA MorningIsLoud ==
    ASSUME NEW q \in QuietSettings, Active(q), NEW m \in Nat, m % DayLength = q.end,
           NEW k \in Nat, k < Loud(q)
    PROVE  ~Contains(q, m + k)
<1> DEFINE d == DayLength
           s == q.start
           e == q.end
           a == m \div d
           p == d * a
<1>1. d \in Nat \ {0} /\ s \in 0 .. d - 1 /\ e \in 0 .. d - 1 /\ s # e
  BY ClockAssumption, QuietAssumption DEF Active
<1>2. a \in Int /\ p \in Int /\ m = p + e
  BY <1>1, Division, Distributes
<1>3. d * (a + 1) = p + d /\ a + 1 \in Int
  <2>1. d * (a + 1) = d * a + d * 1 /\ d * 1 = d
    BY <1>1, <1>2, Distributes
  <2> QED BY <1>2, <2>1
<1>4. Contains(q, m + k) <=> IF s < e THEN (m + k) % d >= s /\ (m + k) % d < e
                                     ELSE (m + k) % d >= s \/ (m + k) % d < e
  BY DEF Contains
<1>5. k < (s - e) % d
  BY DEF Loud
<1> HIDE DEF a, p, d, s, e
<1>6. CASE s > e
  <2>1. (s - e) % d = s - e
    <3>1. s - e \in 0 .. d - 1 /\ d * 0 = 0
      BY <1>1, <1>6
    <3>2. (d * 0 + (s - e)) % d = s - e
      BY <1>1, <3>1, Remainder
    <3> QED BY <3>1, <3>2
  <2>2. e + k \in 0 .. d - 1 /\ e + k < s /\ m + k = p + (e + k)
    BY <1>1, <1>2, <1>5, <1>6, <2>1
  <2>3. (d * a + (e + k)) % d = e + k
    BY <1>1, <1>2, <2>2, Remainder
  <2>4. (m + k) % d = e + k
    BY <2>2, <2>3 DEF p
  <2> QED BY <1>1, <1>4, <1>6, <2>2, <2>4
<1>7. CASE s < e
  <2>1. (s - e) % d = s - e + d
    <3>1. s - e + d \in 0 .. d - 1 /\ d * (0 - 1) = 0 - d /\ 0 - 1 \in Int
      BY <1>1, <1>7
    <3>2. (d * (0 - 1) + (s - e + d)) % d = s - e + d
      BY <1>1, <3>1, Remainder
    <3>3. d * (0 - 1) + (s - e + d) = s - e
      BY <1>1, <3>1
    <3> QED BY <3>2, <3>3
  <2>2. CASE e + k < d
    <3>1. e + k \in 0 .. d - 1 /\ m + k = p + (e + k)
      BY <1>1, <1>2, <2>2
    <3>2. (d * a + (e + k)) % d = e + k
      BY <1>1, <1>2, <3>1, Remainder
    <3>3. (m + k) % d = e + k
      BY <3>1, <3>2 DEF p
    <3> QED BY <1>1, <1>4, <1>7, <3>3
  <2>3. CASE e + k >= d
    <3>1. e + k - d \in 0 .. d - 1 /\ e + k - d < s /\ m + k = (p + d) + (e + k - d)
      BY <1>1, <1>2, <1>5, <1>7, <2>1, <2>3
    <3>2. (d * (a + 1) + (e + k - d)) % d = e + k - d
      BY <1>1, <1>3, <3>1, Remainder
    <3>3. (m + k) % d = e + k - d
      BY <1>3, <3>1, <3>2
    <3> QED BY <1>1, <1>4, <1>7, <3>1, <3>3
  <2> QED BY <1>1, <2>2, <2>3
<1> QED BY <1>1, <1>6, <1>7

-----------------------------------------------------------------------------
(* Deferred score drops *)

\* The end of the quiet hours that row i was decided in.
Morning(i) == NextAt(quiet.end, log[i].at)

\* The boundary timer is overdue by the lock's delay at most.
TimerInv == quietDue # None => now <= quietDue + MaxLate

\* What DropsLeaveInTheMorning rests on: whoever syncs the boundary timer, it never
\* moves past the end of the quiet hours that a drop waits for.
DropsInv ==
    (edits = 0 /\ faults = 0) =>
        \A i \in quietDrops : Active(quiet) /\ quietDue # None /\ quietDue <= Morning(i)

\* The two edges of the quiet hours are hours of the day.
LEMMA QuietEdges ==
    ASSUME TypeOK
    PROVE  quiet.start \in 0 .. DayLength - 1 /\ quiet.end \in 0 .. DayLength - 1
BY QuietAssumption DEF TypeOK

\* Arming the timer anew never makes it overdue, nor passes an end of quiet hours
\* that is still ahead.
LEMMA BoundaryIsNear ==
    ASSUME TypeOK
    PROVE  /\ NextBoundary(quiet, now) \in Nat /\ NextBoundary(quiet, now) > now
           /\ \A m \in Nat : m > now /\ m % DayLength = quiet.end => NextBoundary(quiet, now) <= m
<1>1. now \in Nat
  BY DEF TypeOK
<1>2. /\ NextAt(quiet.start, now) \in Nat /\ NextAt(quiet.start, now) > now
      /\ NextAt(quiet.end, now) \in Nat /\ NextAt(quiet.end, now) > now
      /\ \A m \in Nat : m > now /\ m % DayLength = quiet.end => NextAt(quiet.end, now) <= m
  BY <1>1, QuietEdges, NextAtFacts
<1>3. /\ NextBoundary(quiet, now) \in {NextAt(quiet.start, now), NextAt(quiet.end, now)}
      /\ NextBoundary(quiet, now) <= NextAt(quiet.end, now)
  BY <1>2 DEF NextBoundary
<1> DEFINE b == NextBoundary(quiet, now)
           s == NextAt(quiet.start, now)
           e == NextAt(quiet.end, now)
<1> HIDE DEF b, s, e
<1>4. b \in Nat /\ b > now
  BY <1>2, <1>3 DEF b, s, e
<1>5. ASSUME NEW m \in Nat, m > now, m % DayLength = quiet.end
      PROVE  b <= m
  <2>1. e <= m /\ b <= e /\ e \in Nat
    BY <1>2, <1>3, <1>5 DEF b, e
  <2> QED BY <1>4, <2>1
<1> QED BY <1>4, <1>5 DEF b

\* syncQuietTimerLocked keeps the timer in time, and in front of a morning that it
\* was in front of.
LEMMA SyncInTime ==
    ASSUME TypeOK, TimerInv
    PROVE  /\ Synced(quietDue) # None => now <= Synced(quietDue) + MaxLate
           /\ Synced(None) # None => now <= Synced(None) + MaxLate
           /\ \A m \in Nat : (/\ m % DayLength = quiet.end /\ Active(quiet)
                              /\ m > now \/ (quietDue # None /\ quietDue <= m))
                                => Synced(quietDue) # None /\ Synced(quietDue) <= m
<1>1. /\ now \in Nat /\ MaxLate \in Nat /\ quietDue \in Nat \cup {None} /\ None \notin Int
  BY ClockAssumption DEF TypeOK
<1> DEFINE b == NextBoundary(quiet, now)
<1>2. /\ b \in Nat /\ b > now
      /\ \A m \in Nat : m > now /\ m % DayLength = quiet.end => b <= m
  BY BoundaryIsNear
<1>3. /\ Synced(None) \in {None, b}
      /\ Synced(quietDue) = IF ~Active(quiet) THEN None
                            ELSE IF quietDue # None /\ quietDue <= now THEN quietDue ELSE b
  BY DEF Synced
<1> HIDE DEF b
<1>4. now <= b + MaxLate
  BY <1>1, <1>2
<1>5. ASSUME NEW m \in Nat, m % DayLength = quiet.end, Active(quiet),
             m > now \/ (quietDue # None /\ quietDue <= m)
      PROVE  Synced(quietDue) # None /\ Synced(quietDue) <= m
  <2>1. CASE quietDue # None /\ quietDue <= now
    <3>1. Synced(quietDue) = quietDue
      BY <1>3, <1>5, <2>1
    <3> QED BY <1>1, <1>5, <2>1, <3>1
  <2>2. CASE ~(quietDue # None /\ quietDue <= now)
    <3>1. Synced(quietDue) = b
      BY <1>3, <1>5, <2>2
    <3>2. m > now
      BY <1>1, <1>5, <2>2
    <3> QED BY <1>1, <1>2, <1>5, <3>1, <3>2
  <2> QED BY <2>1, <2>2
<1> QED BY <1>3, <1>4, <1>5 DEF TimerInv

\* The mornings of the rows.
LEMMA Mornings ==
    ASSUME TypeOK, NEW i \in DOMAIN log
    PROVE  Morning(i) \in Nat /\ Morning(i) % DayLength = quiet.end
<1>1. log[i] \in Row
  BY DEF TypeOK
<1>2. log[i].at \in Nat
  BY <1>1 DEF Row
<1> QED BY <1>2, QuietEdges, NextAtFacts DEF Morning

\* TimerInv is inductive once the types are known.
LEMMA NextTimer == TypeOK /\ TimerInv /\ [Next]_vars => TimerInv'
<1> SUFFICES ASSUME TypeOK, TimerInv, [Next]_vars PROVE TimerInv'
  OBVIOUS
<1>1. CASE UNCHANGED <<quietDue, now>> \/ quietDue' = None
  BY <1>1 DEF TimerInv
<1>2. CASE now' = now /\ (quietDue' = Synced(quietDue) \/ quietDue' = Synced(None))
  BY <1>2, SyncInTime DEF TimerInv
<1>3. CASE Tick
  <2>1. /\ quietDue' = quietDue /\ now' = now + 1 /\ now \in Nat /\ MaxLate \in Nat
        /\ quietDue # None => now < quietDue + MaxLate
        /\ quietDue \in Nat \cup {None}
    BY <1>3, ClockAssumption DEF Tick, memory, TypeOK
  <2> QED BY <2>1 DEF TimerInv
<1>4. \/ UNCHANGED <<quietDue, now>> \/ quietDue' = None \/ Tick
      \/ now' = now /\ (quietDue' = Synced(quietDue) \/ quietDue' = Synced(None))
  BY DEF Next, HandleRound, vars, memory, StoreProbe, EditSettings, HandleSteadyRound,
         RoundUnread, TransitionUnrecorded, TransitionUnbuffered, Transition, ScoreDrop,
         Flush, QuietBoundary, Restart, ForgetMemory
<1> QED BY <1>1, <1>2, <1>3, <1>4

\* Old drops stay in front of their morning when the timer is kept or synced.
LEMMA OldDropsWait ==
    ASSUME TypeOK, TimerInv, DropsInv, [Next]_vars, edits = 0, faults = 0, quiet' = quiet,
           quietDue' = quietDue \/ quietDue' = Synced(quietDue),
           NEW i \in quietDrops
    PROVE  Active(quiet)' /\ quietDue' # None /\ quietDue' <= Morning(i)'
<1>1. Active(quiet) /\ quietDue # None /\ quietDue <= Morning(i)
  BY DEF DropsInv
<1>2. i \in DOMAIN log
  BY DEF TypeOK
<1>3. Morning(i)' = Morning(i) /\ Morning(i) \in Nat /\ Morning(i) % DayLength = quiet.end
  BY <1>2, RowsStay, Mornings DEF Morning
<1>4. Synced(quietDue) # None /\ Synced(quietDue) <= Morning(i)
  BY <1>1, <1>3, SyncInTime
<1>5. Active(quiet)'
  BY <1>1 DEF Active
<1> QED BY <1>1, <1>3, <1>4, <1>5

\* A drop is deferred inside quiet hours, in front of their end.
LEMMA NewDropWaits ==
    ASSUME TypeOK, TimerInv, ScoreDrop, InQuiet(quiet, now), NEW i, i = Len(log')
    PROVE  Active(quiet)' /\ quietDue' # None /\ quietDue' <= Morning(i)'
<1>1. /\ quiet' = quiet /\ quietDue' = Synced(quietDue) /\ now \in Nat /\ log \in Seq(Row)
      /\ log' = Append(log, NewRow("score_drop", None, FALSE))
  BY DEF ScoreDrop, settings, TypeOK
<1> DEFINE row == NewRow("score_drop", None, FALSE)
<1>2. "score_drop" \in Kinds /\ None \in Endpoints \cup Families \cup {None}
  BY DEF Kinds
<1>3. row \in Row /\ row.at = now
  BY <1>1, <1>2, UnsentRowType
<1> HIDE DEF row
<1>4. log'[i].at = now
  <2>1. log' = Append(log, row)
    BY <1>1 DEF row
  <2>2. Len(log') = Len(log) + 1 /\ log'[Len(log) + 1] = row
    BY <1>1, <1>3, <2>1, AppendShape
  <2> QED BY <1>3, <2>2
<1>5. Morning(i)' = NextAt(quiet.end, now)
  BY <1>1, <1>4 DEF Morning
<1>6. /\ NextAt(quiet.end, now) \in Nat /\ NextAt(quiet.end, now) > now
      /\ NextAt(quiet.end, now) % DayLength = quiet.end
  BY <1>1, QuietEdges, NextAtFacts
<1>7. Active(quiet)
  BY DEF InQuiet
<1>8. Synced(quietDue) # None /\ Synced(quietDue) <= NextAt(quiet.end, now)
  BY <1>6, <1>7, SyncInTime
<1> QED BY <1>1, <1>5, <1>7, <1>8 DEF Active

\* A late boundary handler still comes within the morning, so a handler that finds
\* quiet hours and keeps the drops came before it.
LEMMA BoundaryDropsWait ==
    ASSUME \A q \in QuietSettings : Active(q) => MaxLate < Loud(q),
           TypeOK, TimerInv, DropsInv, [Next]_vars, edits = 0, faults = 0,
           QuietBoundary, quietDrops' = quietDrops, faults' = 0,
           NEW i \in quietDrops, ~Active(quiet) \/ Contains(quiet, now)
    PROVE  Active(quiet)' /\ quietDue' # None /\ quietDue' <= Morning(i)'
<1>1. Active(quiet) /\ quietDue # None /\ quietDue <= Morning(i)
  BY DEF DropsInv
<1>2. i \in DOMAIN log
  BY DEF TypeOK
<1> DEFINE m == Morning(i)
<1>3. m' = m /\ m \in Nat /\ m % DayLength = quiet.end
  <2>1. quiet' = quiet
    BY DEF QuietBoundary, settings
  <2> QED BY <1>2, <2>1, RowsStay, Mornings DEF Morning
<1> HIDE DEF m
<1>4. /\ now \in Nat /\ MaxLate \in Nat /\ quietDue \in Nat /\ now <= quietDue + MaxLate
      /\ quietDue <= m /\ quiet \in QuietSettings
  BY <1>1, ClockAssumption DEF TypeOK, TimerInv, m
<1>5. m > now
  <2> SUFFICES ASSUME now >= m PROVE FALSE
    BY <1>3, <1>4
  <2> DEFINE k == now - m
  <2>1. k \in Nat /\ k <= MaxLate /\ now = m + k
    BY <1>3, <1>4
  <2> HIDE DEF k
  <2>2. MaxLate < Loud(quiet)
    BY <1>1, <1>4
  <2>3. Loud(quiet) \in Int
    BY ClockAssumption, QuietEdges DEF Loud
  <2>4. k < Loud(quiet)
    BY <1>4, <2>1, <2>2, <2>3
  <2>5. ~Contains(quiet, m + k)
    BY <1>1, <1>3, <1>4, <2>1, <2>4, MorningIsLoud
  <2> QED BY <1>1, <2>1, <2>5
<1>6. NextBoundary(quiet, now) <= m /\ NextBoundary(quiet, now) \in Nat
  BY <1>3, <1>5, BoundaryIsNear
<1>7. quiet' = quiet /\ quietDue' = NextBoundary(quiet, now)
  BY <1>1 DEF QuietBoundary, settings, Synced
<1>8. Active(quiet)'
  BY <1>1, <1>7 DEF Active
<1> QED BY <1>3, <1>6, <1>7, <1>8, ClockAssumption DEF m

\* DropsInv is inductive once types and timer are known, when a handler waits for
\* less than the loud part of the day.
LEMMA NextDrops ==
    ASSUME \A q \in QuietSettings : Active(q) => MaxLate < Loud(q)
    PROVE  TypeOK /\ TimerInv /\ DropsInv /\ [Next]_vars => DropsInv'
<1> SUFFICES ASSUME TypeOK, TimerInv, DropsInv, [Next]_vars, edits' = 0, faults' = 0,
                    NEW i \in quietDrops'
             PROVE  Active(quiet)' /\ quietDue' # None /\ quietDue' <= Morning(i)'
  BY DEF DropsInv
<1>1. edits = 0 /\ faults = 0 /\ quiet' = quiet
  <2>1. edits \in Nat /\ faults \in Nat
    BY DEF TypeOK
  <2>2. edits' = edits + 1 \/ UNCHANGED <<edits, quiet>>
    BY DEF Next, HandleRound, vars, settings, StoreProbe, EditSettings, HandleSteadyRound, Tick,
           RoundUnread, TransitionUnrecorded, TransitionUnbuffered, Transition, ScoreDrop,
           Flush, QuietBoundary, Restart
  <2>3. faults' = faults + 1 \/ faults' = faults
    BY DEF Next, HandleRound, vars, StoreProbe, EditSettings, HandleSteadyRound, Tick,
           RoundUnread, TransitionUnrecorded, TransitionUnbuffered, Transition, ScoreDrop,
           Flush, QuietBoundary, Restart, WriteBack
  <2> QED BY <2>1, <2>2, <2>3
<1>2. CASE /\ i \in quietDrops
           /\ quietDue' = quietDue \/ quietDue' = Synced(quietDue)
  BY <1>1, <1>2, OldDropsWait
<1>3. CASE ScoreDrop
  <2>1. quietDue' = Synced(quietDue)
    BY <1>3 DEF ScoreDrop
  <2>2. CASE i \in quietDrops
    BY <1>2, <2>1, <2>2
  <2>3. CASE i \notin quietDrops
    <3>1. i = Len(log') /\ InQuiet(quiet, now)
      BY <1>3, <2>3 DEF ScoreDrop
    <3> QED BY <1>3, <3>1, NewDropWaits
  <2> QED BY <2>2, <2>3
<1>4. CASE QuietBoundary
  <2>1. quietDrops' = quietDrops /\ (~Active(quiet) \/ Contains(quiet, now))
    <3>1. faults' # faults + 1
      BY <1>1
    <3>2. quietDrops' # {}
      OBVIOUS
    <3> QED BY <1>4, <3>1, <3>2 DEF QuietBoundary
  <2> QED BY <1>1, <1>4, <2>1, BoundaryDropsWait
<1>5. \/ ScoreDrop \/ QuietBoundary
      \/ /\ i \in quietDrops
         /\ quietDue' = quietDue \/ quietDue' = Synced(quietDue)
  BY DEF Next, HandleRound, vars, memory, StoreProbe, EditSettings, HandleSteadyRound, Tick,
         RoundUnread, TransitionUnrecorded, TransitionUnbuffered, Transition,
         Flush, Restart, ForgetMemory
<1> QED BY <1>2, <1>3, <1>4, <1>5

\* A score drop that quiet hours defer leaves with the summary at the end of those
\* very quiet hours, if no handler waits for the lock through the whole loud part of
\* the day: with a longer wait the next quiet hours would hold it back once more.
THEOREM DropsLeaveWithTheSummary ==
    ASSUME \A q \in QuietSettings : Active(q) => MaxLate < Loud(q)
    PROVE  Spec => []DropsLeaveInTheMorning
<1>1. TypeOK /\ TimerInv /\ DropsInv => DropsLeaveInTheMorning
  <2> SUFFICES ASSUME TypeOK, TimerInv, DropsInv, edits = 0, faults = 0, NEW i \in quietDrops
               PROVE  now <= Morning(i) + MaxLate
    BY DEF DropsLeaveInTheMorning, Morning
  <2>1. quietDue # None /\ quietDue <= Morning(i) /\ now <= quietDue + MaxLate
    BY DEF DropsInv, TimerInv
  <2>2. i \in DOMAIN log
    BY DEF TypeOK
  <2>3. Morning(i) \in Nat /\ quietDue \in Nat /\ now \in Nat /\ MaxLate \in Nat
    BY <2>1, <2>2, Mornings, ClockAssumption DEF TypeOK
  <2> QED BY <2>1, <2>3
<1>2. Init => TimerInv /\ DropsInv
  BY DEF Init, TimerInv, DropsInv
<1>3. TypeOK /\ TimerInv /\ [Next]_vars => TimerInv'
  BY NextTimer
<1>4. TypeOK /\ TimerInv /\ DropsInv /\ [Next]_vars => DropsInv'
  BY NextDrops
<1> QED
  BY <1>1, <1>2, <1>3, <1>4, TypeCorrect, PTL DEF Spec
=============================================================================
