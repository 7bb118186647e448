------------------------------- MODULE Alerter -------------------------------
(***************************************************************************)
(* The alert evaluator of HubScope: endpoint outages decided at the end of *)
(* probe rounds, vendor group outages decided at the same cut, the         *)
(* aggregation window that sends them, the quiet hours that hold them back *)
(* and summarise what is still open, deferred score drops, and restarts.   *)
(*                                                                         *)
(* Every handler of internal/alerter runs under Evaluator.mu, so each is   *)
(* one atomic action.  Probes are stored, settings are edited and time     *)
(* passes outside that lock, between any two handlers.                     *)
(*                                                                         *)
(* alert_events is the sequence log; a row's index is its id.  Batch and   *)
(* quiet_summary rows are history nobody reads back: what they told is     *)
(* counted in the field told of the rows they told of.                     *)
(***************************************************************************)
EXTENDS Integers, Sequences, FiniteSets

CONSTANTS
    Endpoints,      \* the endpoints that are probed
    Families,       \* the model families, the unclassified bucket included
    FamilyOf,       \* the family of each endpoint's model
    Vendors,        \* the families that are vendors (all but "" and "other")
    DownThreshold,  \* status.DownThreshold
    Window,         \* alertWindow, in clock ticks
    DayLength,      \* the ticks of one day
    QuietSettings,  \* the quiet-hours settings the admin may choose
    MaxRows,        \* bound: no new decision once the log is this long
    MaxDrops,       \* bound: score drops
    MaxEdits,       \* bound: settings changes and membership changes
    MaxFaults,      \* bound: store errors met by a transition
    MaxRestarts,    \* bound: process restarts
    MaxLate,        \* bound: ticks a due handler may wait for the lock
    Horizon,        \* bound: the last tick
    None            \* no timer armed

ASSUME EndpointsAssumption ==
    /\ IsFiniteSet(Endpoints)
    /\ FamilyOf \in [Endpoints -> Families]
    /\ Vendors \subseteq Families
    /\ Endpoints \cap Families = {}
    /\ None \notin Endpoints \cup Families
ASSUME ClockAssumption ==
    /\ DownThreshold \in Nat \ {0}
    /\ Window \in Nat \ {0}
    /\ DayLength \in Nat \ {0}
    /\ Horizon \in Nat
    /\ MaxRows \in Nat /\ MaxDrops \in Nat /\ MaxEdits \in Nat /\ MaxFaults \in Nat
    /\ MaxRestarts \in Nat /\ MaxLate \in Nat
    /\ None \notin Int
ASSUME QuietAssumption ==
    QuietSettings \subseteq
        [on : BOOLEAN, start : 0 .. DayLength - 1, end : 0 .. DayLength - 1]

VARIABLES
    streak,       \* failed probes stored since the last success, per endpoint
    members,      \* enabled endpoints of active models
    webhook,      \* lark_webhook_url is set
    alerts,       \* alert_enabled
    quiet,        \* the quiet-hours settings
    log,          \* the alert_events table
    alerted,      \* Evaluator.alerted: "unknown" until rebuilt from the log
    groupAlerted, \* Evaluator.groupAlerted, likewise
    pending,      \* Evaluator.pending, keyed by event id
    groupPending, \* Evaluator.groupPending, keyed by event id
    windowFires,  \* when the armed aggregation window fires, or None
    quietDue,     \* what the quiet boundary timer is armed for, or None
    quietDrops,   \* Evaluator.quietScoreDrops, by event id
    now,          \* the clock
    edits, faults, restarts,  \* how much of the bounds is used up
    muted         \* history: subjects whose last turn was kept in memory only

settings == <<members, webhook, alerts, quiet, edits>>
memory   == <<alerted, groupAlerted, pending, groupPending, windowFires,
              quietDue, quietDrops>>
vars == <<streak, settings, log, memory, now, faults, restarts, muted>>

-----------------------------------------------------------------------------
(* Types *)

Flags == {"unknown", "clear", "open"}
Kinds == {"down", "recovered", "group_down", "group_recovered", "score_drop"}

\* A row: what kind, whom it is about, sent_ok, created_at, and (history) the
\* number of delivered cards that told it.
Row == [kind : Kinds, about : Endpoints \cup Families \cup {None},
        sent : BOOLEAN, at : Nat, told : Nat]

\* The buffered items keep what their row does not hold.
Buffered == [id : Nat, absorbed : BOOLEAN]
BufferedGroup == [id : Nat, faulty : SUBSET Endpoints,
                  recovered : SUBSET Endpoints]

TypeOK ==
    /\ streak \in [Endpoints -> 0 .. DownThreshold]
    /\ members \in SUBSET Endpoints
    /\ webhook \in BOOLEAN /\ alerts \in BOOLEAN
    /\ quiet \in QuietSettings
    /\ log \in Seq(Row)
    /\ alerted \in [Endpoints -> Flags]
    /\ groupAlerted \in [Families -> Flags]
    /\ pending \in SUBSET Buffered
    /\ \A t \in pending :
          t.id \in DOMAIN log /\ log[t.id].kind \in {"down", "recovered"}
    /\ groupPending \in SUBSET BufferedGroup
    /\ \A g \in groupPending :
          g.id \in DOMAIN log /\ log[g.id].kind \in {"group_down", "group_recovered"}
    /\ windowFires \in Nat \cup {None}
    /\ quietDue \in Nat \cup {None}
    /\ \A d \in quietDrops : d \in DOMAIN log /\ log[d].kind = "score_drop"
    /\ now \in Nat
    /\ edits \in Nat /\ faults \in Nat /\ restarts \in Nat
    /\ muted \in SUBSET (Endpoints \cup Families)

-----------------------------------------------------------------------------
(* Reading the event log *)

\* The rows of one subject's state machine.
Transitions(rows, who, opening, closing) ==
    {i \in DOMAIN rows : rows[i].about = who /\ rows[i].kind \in {opening, closing}}

\* The subject's latest row opens an outage.
OpenIn(rows, who, opening, closing) ==
    \E i \in Transitions(rows, who, opening, closing) :
        /\ rows[i].kind = opening
        /\ \A j \in Transitions(rows, who, opening, closing) : j <= i

EndpointOpen(rows, e) == OpenIn(rows, e, "down", "recovered")
GroupOpen(rows, f) == OpenIn(rows, f, "group_down", "group_recovered")

\* Row i is the anchor of a subject's open outage.
IsAnchor(rows, i, opening, closing) ==
    /\ rows[i].kind = opening
    /\ \A j \in Transitions(rows, rows[i].about, opening, closing) : j <= i

AnchorsUnsent(rows, opening, closing) ==
    {i \in DOMAIN rows : ~rows[i].sent /\ IsAnchor(rows, i, opening, closing)}

\* A restarted process takes a subject it has not seen for a healthy one.
FlaggedInMemory(flag, rows, e) == flag[e] = "open"
GroupFlaggedInMemory(rows, f) == groupAlerted[f] = "open"

\* isAlerted and isGroupAlerted: the cached flag, or the log's answer.
FlaggedIn(flag, rows, e) ==
    IF flag[e] = "unknown" THEN EndpointOpen(rows, e) ELSE flag[e] = "open"
GroupFlagged(rows, f) ==
    IF groupAlerted[f] = "unknown" THEN GroupOpen(rows, f)
                                   ELSE groupAlerted[f] = "open"

AsFlag(open) == IF open THEN "open" ELSE "clear"

NewRow(kind, who, sent) ==
    [kind |-> kind, about |-> who, sent |-> sent, at |-> now,
     told |-> IF sent THEN 1 ELSE 0]

\* Delivered cards tell the rows in ids; UpdateAlertEventsSentOK marks those in
\* written, all of them unless the store fails.
Confirm(rows, ids, written) ==
    [i \in DOMAIN rows |->
        [rows[i] EXCEPT !.sent = @ \/ i \in written,
                        !.told = IF i \in ids THEN @ + 1 ELSE @]]

-----------------------------------------------------------------------------
(* Quiet hours *)

Active(q) == q.on /\ q.start # q.end

Contains(q, t) ==
    LET h == t % DayLength IN
    IF q.start < q.end THEN h >= q.start /\ h < q.end
                       ELSE h >= q.start \/ h < q.end

InQuiet(q, t) == Active(q) /\ Contains(q, t)

\* The first tick after t at hour h, and the nearer of the two edges.
NextAt(h, t) == t + 1 + ((h - t - 1) % DayLength)
NextBoundary(q, t) ==
    IF NextAt(q.start, t) <= NextAt(q.end, t) THEN NextAt(q.start, t)
                                              ELSE NextAt(q.end, t)

\* A boundary that is due is armed again, past the crossing.
SyncedPastDue(due) == IF Active(quiet) THEN NextBoundary(quiet, now) ELSE None

\* syncQuietTimerLocked: a boundary that is due is left to its handler.
Synced(due) ==
    CASE ~Active(quiet) -> None
      [] Active(quiet) /\ due # None /\ due <= now -> due
      [] OTHER -> NextBoundary(quiet, now)

\* Every item postpones the flush; or no window opens inside quiet hours.
ArmedSliding(fires) == now + Window
ArmedWhenLoud(fires) ==
    IF fires = None /\ ~InQuiet(quiet, now) THEN now + Window ELSE fires

\* armWindowLocked: the first buffered item opens the window.
Armed(fires) == IF fires = None THEN now + Window ELSE fires

-----------------------------------------------------------------------------
(* Initial state: a freshly started process over an empty history. *)

ForgetMemory ==
    /\ alerted' = [e \in Endpoints |-> "unknown"]
    /\ groupAlerted' = [f \in Families |-> "unknown"]
    /\ pending' = {} /\ groupPending' = {}
    /\ windowFires' = None /\ quietDue' = None
    /\ quietDrops' = {}

Init ==
    /\ streak = [e \in Endpoints |-> 0]
    /\ members = Endpoints
    /\ webhook = TRUE /\ alerts = TRUE
    /\ quiet \in QuietSettings
    /\ log = <<>>
    /\ alerted = [e \in Endpoints |-> "unknown"]
    /\ groupAlerted = [f \in Families |-> "unknown"]
    /\ pending = {} /\ groupPending = {}
    /\ windowFires = None /\ quietDue = None
    /\ quietDrops = {}
    /\ now = 0
    /\ edits = 0 /\ faults = 0 /\ restarts = 0
    /\ muted = {}

-----------------------------------------------------------------------------
(* The environment of the alerter *)

\* A probe result is stored.  Failures are counted by created_at, which has
\* second precision, so a failure in the second of the last success is not
\* counted.
StoreProbe(e, ok) ==
    /\ e \in members
    /\ \/ /\ ok
          /\ streak' = [streak EXCEPT ![e] = 0]
       \/ /\ ~ok
          /\ streak[e] < DownThreshold
          /\ streak' = [streak EXCEPT ![e] = @ + 1]
       \/ /\ ~ok
          /\ streak[e] \in {0, DownThreshold}
          /\ UNCHANGED streak
    /\ UNCHANGED <<settings, log, memory, now, faults, restarts, muted>>

\* The admin edits one setting, or an endpoint joins or leaves its family.
EditSettings ==
    /\ edits < MaxEdits
    /\ edits' = edits + 1
    /\ \/ /\ webhook' = ~webhook
          /\ UNCHANGED <<alerts, quiet, members>>
       \/ /\ alerts' = ~alerts
          /\ UNCHANGED <<webhook, quiet, members>>
       \/ /\ \E q \in QuietSettings \ {quiet} : quiet' = q
          /\ UNCHANGED <<webhook, alerts, members>>
       \/ /\ \E e \in Endpoints :
                members' = IF e \in members THEN members \ {e} ELSE members \cup {e}
          /\ UNCHANGED <<webhook, alerts, quiet>>
    /\ UNCHANGED <<streak, log, memory, now, faults, restarts, muted>>

\* Time passes, but no due handler waits for the lock longer than MaxLate.
Tick ==
    /\ now < Horizon
    /\ windowFires # None => now < windowFires + MaxLate
    /\ quietDue # None => now < quietDue + MaxLate
    /\ now' = now + 1
    /\ UNCHANGED <<streak, settings, log, memory, faults, restarts, muted>>

\* The process restarts: the memory is lost.
Restart ==
    /\ restarts < MaxRestarts
    /\ restarts' = restarts + 1
    /\ ForgetMemory
    /\ muted' = {}
    /\ UNCHANGED <<streak, settings, log, now, faults>>

-----------------------------------------------------------------------------
(* Vendor groups *)

Group(f) == {m \in members : FamilyOf[m] = f}

Evaluated(f) == f \in Vendors /\ Group(f) # {}

Faulty(f, flag, rows) == {m \in Group(f) : FlaggedIn(flag, rows, m)}

\* The group opens at half of the members and two of them at least, and
\* closes once strictly less than half is faulty.
Opens(f, wasOpen, faulty) ==
    /\ Evaluated(f) /\ ~wasOpen
    /\ Cardinality(faulty) >= 2
    /\ 2 * Cardinality(faulty) >= Cardinality(Group(f))
Closes(f, wasOpen, faulty) ==
    /\ Evaluated(f) /\ wasOpen
    /\ 2 * Cardinality(faulty) < Cardinality(Group(f))

\* The members a group recovery card lists as recovered: those whose latest
\* row is a recovery newer than the row that opened the group.
RecoveredSince(f, rows, faulty) ==
    {m \in Group(f) \ faulty : \E o, i \in DOMAIN rows :
        /\ rows[o].about = f /\ IsAnchor(rows, o, "group_down", "group_recovered")
        /\ rows[i].about = m /\ IsAnchor(rows, i, "recovered", "down")
        /\ i > o}

-----------------------------------------------------------------------------
(* Decisions: HandleRound, HandleCampaign *)

Configured == webhook /\ alerts

IsDown(e) == streak[e] >= DownThreshold

\* A round of e, scheduled or manual, may end at any moment: it reads the probes
\* stored by then.  HandleRound finds the state it knew, or rebuilds it.
HandleSteadyRound(e) ==
    /\ FlaggedIn(alerted, log, e) <=> IsDown(e)
    /\ alerted' = [alerted EXCEPT ![e] = AsFlag(IsDown(e))]
    /\ UNCHANGED <<streak, settings, log, groupAlerted, pending, groupPending,
                   windowFires, quietDue, quietDrops, now, faults, restarts, muted>>

\* The streak, the flag or the endpoint's content cannot be read.
RoundUnread(e) ==
    /\ faults < MaxFaults
    /\ faults' = faults + 1
    /\ UNCHANGED <<streak, settings, log, memory, now, restarts, muted>>

\* HandleRound finds a change: the flag flips before anything else can fail.
\* A decision taken is one whose window still fits before the Horizon.
Turns(e) ==
    /\ Len(log) < MaxRows
    /\ now + Window <= Horizon
    /\ FlaggedIn(alerted, log, e) <=> ~IsDown(e)

FlippedFlags(e) == [alerted EXCEPT ![e] = AsFlag(IsDown(e))]

\* Only outages are recorded.
RowsWithOutages(e) ==
    IF Configured /\ IsDown(e) THEN Append(log, NewRow("down", e, FALSE)) ELSE log

RowsWith(e) ==
    IF Configured
    THEN Append(log, NewRow(IF IsDown(e) THEN "down" ELSE "recovered", e, FALSE))
    ELSE log

\* Subjects whose flag and log may now differ: those with an unrecorded turn.
MutedBy(who, recorded) == IF recorded THEN muted \ {who} ELSE muted \cup {who}

\* The settings cannot be read, or the event cannot be recorded.
TransitionUnrecorded(e) ==
    /\ Turns(e)
    /\ faults < MaxFaults
    /\ faults' = faults + 1
    /\ alerted' = FlippedFlags(e)
    /\ muted' = MutedBy(e, FALSE)
    /\ UNCHANGED <<streak, settings, log, groupAlerted, pending, groupPending,
                   windowFires, quietDue, quietDrops, now, restarts>>

\* The event is recorded, the group state cannot be read: never buffered.
TransitionUnbuffered(e) ==
    /\ Turns(e)
    /\ faults < MaxFaults
    /\ faults' = faults + 1
    /\ alerted' = FlippedFlags(e)
    /\ log' = RowsWith(e)
    /\ muted' = MutedBy(e, Configured)
    /\ UNCHANGED <<streak, settings, groupAlerted, pending, groupPending,
                   windowFires, quietDue, quietDrops, now, restarts>>

\* evaluateGroupLocked at the same cut, from the flipped flag and the recorded
\* row.  Its members may be "unread", its own row "unrecorded".
WasOpen(e) == GroupFlagged(RowsWith(e), FamilyOf[e])
FaultyNow(e) == Faulty(FamilyOf[e], FlippedFlags(e), RowsWith(e))
GroupOpens(e, step)  == step # "unread" /\ Opens(FamilyOf[e], WasOpen(e), FaultyNow(e))
GroupCloses(e, step) == step # "unread" /\ Closes(FamilyOf[e], WasOpen(e), FaultyNow(e))
GroupTurns(e, step)  == GroupOpens(e, step) \/ GroupCloses(e, step)
IsOpenNow(e, step)   == GroupOpens(e, step) \/ (WasOpen(e) /\ ~GroupCloses(e, step))
GroupRecorded(e, step) == GroupTurns(e, step) /\ Configured /\ step # "unrecorded"

GroupRow(e, step) ==
    NewRow(IF GroupOpens(e, step) THEN "group_down" ELSE "group_recovered",
           FamilyOf[e], FALSE)
RowsWithGroup(e, step) ==
    IF GroupRecorded(e, step) THEN Append(RowsWith(e), GroupRow(e, step)) ELSE RowsWith(e)

\* The flags evaluateGroupLocked leaves behind: it looks at every member.
FlagsSeen(e) ==
    [m \in Endpoints |->
        IF Evaluated(FamilyOf[e]) /\ m \in Group(FamilyOf[e])
        THEN AsFlag(FlaggedIn(FlippedFlags(e), RowsWith(e), m)) ELSE FlippedFlags(e)[m]]

\* What a recovery card lists: every member that recovered, or when rows are
\* "unlisted" because they cannot be read, any part of them.
Listed(e, step) ==
    LET healed == RecoveredSince(FamilyOf[e], RowsWith(e), FaultyNow(e)) IN
    CASE ~GroupCloses(e, step) -> {{}}
      [] GroupCloses(e, step) /\ step = "unlisted" -> SUBSET healed
      [] OTHER -> {healed}

\* The buffered endpoint turn, and the buffered group turn with its frozen card.
Single(e, step) ==
    [id |-> Len(RowsWith(e)), absorbed |-> WasOpen(e) \/ IsOpenNow(e, step)]
GroupCard(e, step, healed) ==
    [id |-> Len(RowsWithGroup(e, step)), faulty |-> FaultyNow(e), recovered |-> healed]

\* transition: record, evaluate the group, buffer both.
Transition(e, step) ==
    /\ Turns(e)
    /\ step = "unrecorded" => Configured /\ GroupTurns(e, step)
    /\ step = "unlisted" => Configured /\ GroupCloses(e, step)
    /\ \/ step = "ok" /\ UNCHANGED faults
       \/ step # "ok" /\ faults < MaxFaults /\ faults' = faults + 1
    /\ alerted' = FlagsSeen(e)
    /\ groupAlerted' = [groupAlerted EXCEPT ![FamilyOf[e]] = AsFlag(IsOpenNow(e, step))]
    /\ log' = RowsWithGroup(e, step)
    /\ muted' = IF GroupTurns(e, step)
                THEN IF GroupRecorded(e, step)
                     THEN MutedBy(e, Configured) \ {FamilyOf[e]}
                     ELSE MutedBy(e, Configured) \cup {FamilyOf[e]}
                ELSE MutedBy(e, Configured)
    /\ pending' = IF Configured THEN pending \cup {Single(e, step)} ELSE pending
    /\ \/ /\ GroupRecorded(e, step)
          /\ \E healed \in Listed(e, step) :
                groupPending' = groupPending \cup {GroupCard(e, step, healed)}
       \/ ~GroupRecorded(e, step) /\ UNCHANGED groupPending
    /\ windowFires' = IF Configured THEN Armed(windowFires) ELSE windowFires
    /\ quietDue' = IF Configured THEN Synced(quietDue) ELSE quietDue
    /\ UNCHANGED <<streak, settings, quietDrops, now, restarts>>

\* HandleCampaign with one model's score drop: sent at once, or recorded and
\* deferred to the summary inside quiet hours.
ScoreDrop ==
    /\ webhook
    /\ Cardinality({i \in DOMAIN log : log[i].kind = "score_drop"}) < MaxDrops
    /\ now + Window <= Horizon
    /\ quietDue' = Synced(quietDue)
    /\ \/ /\ InQuiet(quiet, now)
          /\ log' = Append(log, NewRow("score_drop", None, FALSE))
          /\ quietDrops' = quietDrops \cup {Len(log')}
       \/ /\ ~InQuiet(quiet, now)
          /\ \E ok \in BOOLEAN : log' = Append(log, NewRow("score_drop", None, ok))
          /\ UNCHANGED quietDrops
    /\ UNCHANGED <<streak, settings, alerted, groupAlerted, pending,
                   groupPending, windowFires, now, faults, restarts, muted>>

-----------------------------------------------------------------------------
(* Deliveries: the window flush and the quiet boundary *)

\* The flush forgets to ask what a summary confirmed.
AllBuffered(buffer) == buffer

\* Items a quiet summary confirmed since the decision drop out of the flush.
Live(buffer) == {t \in buffer : ~log[t.id].sent}

\* A plain union of the group cards' faulty members.
CoveredByUnion(e) ==
    \E g \in Live(groupPending) : log[g.id].kind = "group_down" /\ e \in g.faulty

\* The replay of the window's group cards still covers e: a group_down listed
\* it as faulty, and no later group_recovered listed it as recovered.
Covered(e) ==
    \E g \in Live(groupPending) :
        /\ log[g.id].kind = "group_down" /\ e \in g.faulty
        /\ \A h \in Live(groupPending) :
               (h.id > g.id /\ log[h.id].kind = "group_recovered") => e \notin h.recovered

\* The rows of the one endpoint card of a kind.
EndpointCard(kind) ==
    {t.id : t \in {u \in Live(pending) :
        /\ log[u.id].kind = kind
        /\ ~u.absorbed
        /\ kind = "down" => ~Covered(log[u.id].about)}}

WindowCards ==
    ({{g.id} : g \in Live(groupPending)}
        \cup {EndpointCard("down"), EndpointCard("recovered")}) \ {{}}

\* The quiet gate judges the window's own two ends.
Held == InQuiet(quiet, windowFires) \/ InQuiet(quiet, windowFires - Window)

\* A store error at its last step loses the confirmation of one sent card.
WriteBack(delivered) ==
    \/ /\ log' = Confirm(log, UNION delivered, UNION delivered)
       /\ UNCHANGED faults
    \/ /\ faults < MaxFaults
       /\ faults' = faults + 1
       /\ \E lost \in delivered :
              log' = Confirm(log, UNION delivered, UNION (delivered \ {lost}))

Flush ==
    /\ windowFires # None /\ windowFires <= now
    /\ \/ /\ Held \/ ~webhook
          /\ UNCHANGED <<log, faults>>
       \/ /\ ~Held /\ webhook
          /\ \E delivered \in SUBSET WindowCards : WriteBack(delivered)
    /\ pending' = {} /\ groupPending' = {}
    /\ windowFires' = None
    /\ quietDue' = Synced(quietDue)
    /\ UNCHANGED <<streak, settings, alerted, groupAlerted, quietDrops,
                   now, restarts, muted>>

\* What the summary tells: the open groups and open endpoints whose anchor was
\* never delivered, a reported group standing for its endpoints, and the
\* deferred score drops.
SummaryGroups == AnchorsUnsent(log, "group_down", "group_recovered")
SummaryEndpoints ==
    {i \in AnchorsUnsent(log, "down", "recovered") :
        \A g \in SummaryGroups : log[g].about # FamilyOf[log[i].about]}
Summary == SummaryGroups \cup SummaryEndpoints \cup quietDrops

\* The boundary timer fires: a summary if quiet hours just ended, and the timer
\* is armed again.  The deferred drops are given up once the send was tried;
\* they stay when the settings or the open alerts cannot be read.
QuietBoundary ==
    /\ quietDue # None /\ quietDue <= now
    /\ \/ /\ ~Active(quiet) \/ Contains(quiet, now)
          /\ UNCHANGED <<log, quietDrops, faults>>
       \/ /\ Active(quiet) /\ ~Contains(quiet, now)
          /\ quietDrops' = {}
          /\ \/ /\ webhook /\ Summary # {}
                /\ WriteBack({Summary})
             \/ UNCHANGED <<log, faults>>
       \/ /\ Active(quiet) /\ ~Contains(quiet, now)
          /\ faults < MaxFaults
          /\ faults' = faults + 1
          /\ UNCHANGED <<log, quietDrops>>
    /\ quietDue' = Synced(None)
    /\ UNCHANGED <<streak, settings, alerted, groupAlerted, pending,
                   groupPending, windowFires, now, restarts, muted>>

-----------------------------------------------------------------------------

HandleRound(e) ==
    \/ HandleSteadyRound(e)
    \/ RoundUnread(e)
    \/ TransitionUnrecorded(e)
    \/ TransitionUnbuffered(e)
    \/ \E step \in {"ok", "unread", "unrecorded", "unlisted"} : Transition(e, step)

Next ==
    \/ \E e \in Endpoints, ok \in BOOLEAN : StoreProbe(e, ok)
    \/ EditSettings
    \/ Tick
    \/ Restart
    \/ \E e \in Endpoints : HandleRound(e)
    \/ ScoreDrop
    \/ Flush
    \/ QuietBoundary

Spec == Init /\ [][Next]_vars

\* Timers fire and their handlers get the lock.
FairSpec == Spec /\ WF_vars(Tick) /\ WF_vars(Flush) /\ WF_vars(QuietBoundary)

-----------------------------------------------------------------------------
(* Properties *)

\* The in-memory flags and the flags a restarted process would rebuild from
\* alert_events agree, for every subject all of whose turns were recorded:
\* the cache of isAlerted/isGroupAlerted is never stale.
FlagsMatchLog ==
    /\ \A e \in Endpoints \ muted :
          alerted[e] # "unknown" => (alerted[e] = "open" <=> EndpointOpen(log, e))
    /\ \A f \in Families \ muted :
          groupAlerted[f] # "unknown" => (groupAlerted[f] = "open" <=> GroupOpen(log, f))

\* An outage is reported once: a new down row never follows an open down row
\* of the endpoint, nor a recovery anything but one, and the same for groups,
\* across restarts (evaluator.go: "so nothing is re-reported").
OutageReportedOnce ==
    [][\A i \in DOMAIN log' \ DOMAIN log :
          LET who == log'[i].about IN
          who \notin muted =>
             /\ log'[i].kind = "down" => ~EndpointOpen(log, who)
             /\ log'[i].kind = "recovered" => EndpointOpen(log, who)
             /\ log'[i].kind = "group_down" => ~GroupOpen(log, who)
             /\ log'[i].kind = "group_recovered" => GroupOpen(log, who)]_vars

\* No event is told by two delivered cards, whichever of flush, summary and
\* immediate send comes first, and sent_ok says whether it was told.  A lost
\* write-back is the one way to a second card, never to a false sent_ok.
ToldAtMostOnce ==
    \A i \in DOMAIN log :
        /\ log[i].sent => log[i].told >= 1
        /\ faults = 0 => log[i].told = IF log[i].sent THEN 1 ELSE 0

\* The aggregation timer is armed exactly while something is buffered, and no
\* transition waits for its flush longer than one window (fixed, not sliding)
\* and the delay of the lock.
BuffersAwaitFlush ==
    /\ windowFires = None <=> pending \cup groupPending = {}
    /\ \A t \in pending \cup groupPending :
          now <= log[t.id].at + Window + MaxLate

\* Never swallow (window.go, the replay of group cards): an endpoint whose last
\* buffered turn is an unabsorbed outage is on the down card the flush would
\* send, or the last group card that mentions it lists it as faulty.
LastOutageIsOnACard ==
    \A t \in Live(pending) :
        LET e == log[t.id].about
            mentions == {g \in Live(groupPending) : e \in g.faulty \cup g.recovered}
        IN  (/\ log[t.id].kind = "down" /\ ~t.absorbed
             /\ \A u \in pending : log[u.id].about = e => u.id <= t.id)
            => \/ t.id \in EndpointCard("down")
               \/ \E g \in mentions : e \in g.faulty /\ \A h \in mentions : h.id <= g.id

\* With stable settings and no store error, a group is held open exactly while
\* half of its members (and two of them to open it) are held down, at every
\* moment: restarts, which forget both flags, included.
GroupFollowsMembers ==
    (edits = 0 /\ faults = 0) =>
        \A f \in Vendors :
            LET faulty == Cardinality(Faulty(f, alerted, log))
                half   == 2 * faulty >= Cardinality(Group(f))
            IN  /\ GroupFlagged(log, f) => half
                /\ (half /\ faulty >= 2) => GroupFlagged(log, f)

\* A score drop deferred by quiet hours leaves with the summary at the end of
\* those very quiet hours: no flush, decision or late handler makes the timer
\* miss the crossing.
DropsLeaveInTheMorning ==
    (edits = 0 /\ faults = 0) =>
        \A d \in quietDrops : now <= NextAt(quiet.end, log[d].at) + MaxLate

\* Every buffered transition is taken by a flush, or lost with the process: the
\* buffer is empty again and again.
BufferIsFlushed == []<>(pending \cup groupPending = {})

=============================================================================
