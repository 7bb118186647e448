------------------------------ MODULE LiveMode ------------------------------
(***************************************************************************)
(* A page in live mode (live-browser.js, live-browser-session.js), the     *)
(* handlers of the helper server it talks to, and the journal behind them  *)
(* (LiveStore).  The page posts events, each in a request of its own; it   *)
(* hears of the agents through one ordered stream of server-sent events;   *)
(* it sees the source files through hot updates, which may never come,     *)
(* through reloads, and by reading a file from the server.  What outlives  *)
(* a page is in its local storage.                                         *)
(*                                                                         *)
(* Agents are the environment: they answer what they were handed, in any   *)
(* order and as late as they like (LiveServer has the queue between them). *)
(* One page, without its steer chat and the exit of live mode; the element *)
(* it works on is always rendered, and a scaffold without variants is not  *)
(* told apart from none.  A timer that only delays a request is part of    *)
(* the request's way.                                                      *)
(***************************************************************************)
EXTENDS LiveStore, Sequences, FiniteSets, FiniteSetsExt

CONSTANTS
    MaxClicks, \* bound: decisions of the user
    MaxLosses  \* bound: reloads, lost connections, restarts of the server

ASSUME BoundsAssumption == MaxClicks \in Nat /\ MaxLosses \in Nat

VARIABLES
    store,    \* the snapshot of each session, on the server
    landed,   \* the sessions whose snapshot counts arrived variants
    source,   \* the sessions whose variants are in the source files
    work,     \* what agents have been or will be handed, and have not answered
    page,     \* what the script of the page holds
    storage,  \* localStorage: the saved session, and the one that was handled
    dom,      \* sessions whose variants are in the document
    requests, \* POST /events on their way
    answers,  \* their responses on the way back
    reads,    \* calls of injectVariantsFromSource
    link,     \* the EventSource; stale: its token is of an earlier server
    inbox,    \* events on their way to the page, in order
    opened,   \* history: the session ids the page has made
    clicks, losses

server == <<store, landed, source, work>>
pageVars == <<page, storage, dom, requests, reads>>
lines == <<answers, link, inbox>>
history == <<opened, clicks, losses>>
vars == <<server, pageVars, lines, history>>

NoneSaved == [id |-> None, state |-> "picking", arrived |-> FALSE, file |-> FALSE]

\* accepting: pendingAcceptedSession; awaiting: awaitingAcceptResult;
\* capturing: the session whose screenshot is being taken; gate: the last event
\* that creates a session, while it is on its way; scouting: nothing to resume was found at init.
NewPage == [state |-> "picking", session |-> None, arrived |-> FALSE, file |-> FALSE,
            accepting |-> None, awaiting |-> None, capturing |-> None,
            gate |-> None, scouting |-> FALSE]

PageStates == {"picking", "generating", "cycling", "saving", "reloading"}
OrNone(S) == S \cup {None}
PageRecord == [state : PageStates, session : OrNone(Sessions), arrived : BOOLEAN, file : BOOLEAN,
               accepting : OrNone(Sessions), awaiting : OrNone(Sessions),
               capturing : OrNone(Sessions), gate : OrNone(Sessions), scouting : BOOLEAN]
Saved == [id : OrNone(Sessions), state : PageStates, arrived : BOOLEAN, file : BOOLEAN]
RequestTypes == {"generate", "checkpoint", "accept", "discard", "orphaned"}
Request == [type : RequestTypes, id : Sessions, phase : OrNone(BrowserPhases),
            arrived : BOOLEAN, gate : OrNone(Sessions)]
Response == [type : RequestTypes, id : Sessions, ok : BOOLEAN]
Read == [id : Sessions, at : {"due", "sent", "back"}, found : BOOLEAN, orphan : BOOLEAN, again : BOOLEAN]
Message == [type : {"connected", "done", "error", "agent_done", "complete", "discarded"},
            id : OrNone(Sessions),
            seen : [Sessions -> Snapshot] \cup {None},
            landed : SUBSET Sessions]

\* preflight: offered, and not yet journaled as delivered; applied, dropped:
\* a decision that is carried out; carbonizing: the markers of an accepted
\* variant are folded into the source.
Chores == {"preflight", "generate", "accept", "discard", "applied", "dropped", "carbonizing"}

TypeOK ==
    /\ store \in [Sessions -> Snapshot] /\ landed \subseteq Sessions
    /\ source \subseteq Sessions
    /\ work \in [Sessions -> SUBSET Chores]
    /\ page \in PageRecord /\ dom \subseteq Sessions
    /\ storage \in [saved : Saved, handled : OrNone(Sessions)]
    /\ requests \subseteq Request /\ answers \subseteq Response /\ reads \subseteq Read
    /\ link \in {"open", "lost", "stale"} /\ inbox \in Seq(Message)
    /\ opened \subseteq Sessions /\ clicks \in 0 .. MaxClicks
    /\ losses \in 0 .. MaxLosses

Init ==
    /\ store = [s \in Sessions |-> BaseSnapshot] /\ landed = {} /\ source = {}
    /\ work = [s \in Sessions |-> {}]
    /\ page = [NewPage EXCEPT !.scouting = TRUE] /\ dom = {}
    /\ storage = [saved |-> NoneSaved, handled |-> None]
    /\ requests = {} /\ answers = {} /\ reads = {}
    /\ link = "lost" /\ inbox = <<>>
    /\ opened = {} /\ clicks = 0 /\ losses = 0

-----------------------------------------------------------------------------
(* What a handler of the page does, as functions of the page's variables *)

Here == [page |-> page, storage |-> storage, dom |-> dom, requests |-> requests, reads |-> reads]

Becomes(w) ==
    /\ page' = w.page /\ storage' = w.storage /\ dom' = w.dom
    /\ requests' = w.requests /\ reads' = w.reads

\* sendEvent: an event that creates a session opens a new gate, and any other
\* waits for the gate that stands when it is sent.
Sent(w, type, id, phase) ==
    LET creates == type = "generate" IN
    [w EXCEPT !.requests = @ \cup {[type |-> type, id |-> id, phase |-> phase,
                                    arrived |-> type = "checkpoint" /\ w.page.arrived,
                                    gate |-> IF creates THEN None ELSE w.page.gate]},
              !.page.gate = IF creates THEN id ELSE @]

SaveSession(w) ==
    IF w.page.session = None THEN w
    ELSE [w EXCEPT !.storage.saved = [id |-> w.page.session, state |-> w.page.state,
                                      arrived |-> w.page.arrived, file |-> w.page.file]]

\* sendCheckpoint, queueCheckpoint
SendCheckpoint(w) ==
    IF w.page.session = None THEN w
    ELSE Sent(w, "checkpoint", w.page.session, w.page.state)

MarkSessionHandled(w) ==
    IF w.page.session = None THEN w
    ELSE [w EXCEPT !.storage.handled = w.page.session]

\* Mutant: the page is left as it was before its first connection.
CleanupToIdle(w) ==
    [w EXCEPT !.dom = @ \ {w.page.session}, !.storage.saved = NoneSaved,
              !.page.session = None, !.page.file = FALSE, !.page.state = "idle"]

\* The wrapper goes two seconds later, which is not told apart from now.
Cleanup(w) ==
    [w EXCEPT !.dom = @ \ {w.page.session}, !.storage.saved = NoneSaved,
              !.page.session = None, !.page.file = FALSE, !.page.state = "picking"]

CleanupAcceptedSession(w) ==
    [Cleanup(w) EXCEPT !.page.accepting = None]

ShowVariants(w) ==
    [w EXCEPT !.page.arrived = TRUE, !.page.state = "cycling"]

\* startVariantObserver: the document changed, and has new variants.
Observe(w) ==
    IF w.page.session \in w.dom /\ ~w.page.arrived
    THEN SendCheckpoint(SaveSession(ShowVariants(w)))
    ELSE w

AdoptablePhases == {"generate_requested", "variants_ready", "generating", "cycling"}
TerminalPhases == CompletedPhases \cup {"discard_requested", "accept_requested"}

\* m: the connected event, with the active sessions; None when there is none yet.
Listed(m, s) == m # None /\ s # None /\ Active(m.seen[s])

Adoptable(w, m) ==
    {s \in Sessions : /\ Listed(m, s) /\ m.seen[s].completedAt
                      /\ m.seen[s].phase \in AdoptablePhases
                      /\ s # w.storage.handled}

\* Nothing saved, a session of the server is adopted; one restored here has its
\* variants counted, and its file, as the page or as the server has them.
ToRestore(w, m) ==
    IF w.storage.saved.id # None \/ Adoptable(w, m) = {}
    THEN LET saved == w.storage.saved IN
         [saved EXCEPT !.arrived = @ \/ (Listed(m, saved.id) /\ saved.id \in m.landed),
                       !.file = @ \/ (Listed(m, saved.id) /\ m.seen[saved.id].completedAt)]
    ELSE LET s == Min(Adoptable(w, m)) IN
         [id |-> s, state |-> "generating", arrived |-> s \in m.landed, file |-> TRUE]

\* restoreSessionWithoutWrapper
CanRestore(w, m) ==
    LET saved == ToRestore(w, m) IN
    /\ saved.id # None /\ saved.id # w.storage.handled
    /\ saved.state \in {"generating", "cycling"}
    /\ \/ \A s \in Sessions : ~Listed(m, s)
       \/ Listed(m, saved.id) /\ m.seen[saved.id].phase \notin TerminalPhases

RestoreSessionWithoutWrapper(w, m) ==
    LET saved == ToRestore(w, m)
        restored == [w EXCEPT !.page.session = saved.id, !.page.state = "generating",
                              !.page.arrived = saved.arrived, !.page.file = saved.file]
        read == [id |-> saved.id, at |-> "sent", found |-> FALSE,
                 orphan |-> saved.state = "cycling", again |-> FALSE] IN
    [SendCheckpoint(SaveSession(restored))
        EXCEPT !.reads = @ \cup IF saved.file THEN {read} ELSE {}]

\* At init, and when the first wrapper turns up afterwards.
ResumeSession(w) ==
    LET s == Min(w.dom) IN
    CASE w.dom = {} /\ CanRestore(w, None) -> RestoreSessionWithoutWrapper(w, None)
      [] w.dom = {} /\ ~CanRestore(w, None) ->
            [w EXCEPT !.storage = [saved |-> NoneSaved, handled |-> None],
                      !.page.scouting = TRUE]
      [] w.dom # {} /\ s = w.storage.handled -> [w EXCEPT !.page.scouting = TRUE]
      [] w.dom # {} /\ s # w.storage.handled ->
            SendCheckpoint(SaveSession(ShowVariants(
                [w EXCEPT !.page.session = s,
                          !.page.file = @ \/ (w.storage.saved.id = s /\ w.storage.saved.file)])))

Scout(w) ==
    IF w.page.scouting /\ w.dom # {}
    THEN [ResumeSession(w) EXCEPT !.page.scouting = FALSE]
    ELSE w

-----------------------------------------------------------------------------
(* What the user does *)

Quiet == UNCHANGED <<server, lines, history>>

\* handleGo: the checkpoint leaves first; the generate event follows, at once or,
\* with annotations, when the screenshot is taken and uploaded.
Go(s) ==
    LET going == [Here EXCEPT !.page.session = s, !.page.arrived = FALSE, !.page.file = FALSE,
                              !.page.accepting = None, !.page.awaiting = None,
                              !.page.state = "generating"]
        told == SendCheckpoint(SaveSession(going)) IN
    /\ page.state = "picking" /\ s \notin opened
    /\ opened' = opened \cup {s}
    /\ Becomes([told EXCEPT !.page.capturing = s])
    /\ UNCHANGED <<server, lines, clicks, losses>>

\* captureAndEmit; the session may be gone by now.
CaptureEnds ==
    /\ page.capturing # None
    /\ Becomes(Sent([Here EXCEPT !.page.capturing = None], "generate", page.capturing, None))
    /\ Quiet

Click ==
    /\ page.state = "cycling" /\ page.session # None
    /\ clicks < MaxClicks /\ clicks' = clicks + 1
    /\ UNCHANGED <<server, lines, opened, losses>>

\* Mutant: the picker is given back when the event is sent.
AcceptAtOnce ==
    /\ Click /\ page.arrived /\ page.accepting = None
    /\ LET sent == Sent(Here, "accept", page.session, None) IN
          Becomes([CleanupAcceptedSession(MarkSessionHandled(sent))
                      EXCEPT !.page.awaiting = page.session])

Accept ==
    /\ Click /\ page.arrived /\ page.accepting = None
    /\ LET saving == [Here EXCEPT !.page.state = "saving", !.page.accepting = page.session] IN
          Becomes(Sent(SaveSession(saving), "accept", page.session, None))

Discard == Click /\ Becomes(Sent(Here, "discard", page.session, None))

-----------------------------------------------------------------------------
(* What comes back to the page *)

\* Mutant: a refused accept is only logged.
AcceptSettlesIfOk(w, r) ==
    IF r.ok /\ page.accepting = r.id
    THEN [CleanupAcceptedSession(MarkSessionHandled(w)) EXCEPT !.page.awaiting = r.id]
    ELSE w

AcceptSettles(w, r) ==
    CASE r.ok /\ page.accepting = r.id ->
            [CleanupAcceptedSession(MarkSessionHandled(w)) EXCEPT !.page.awaiting = r.id]
      [] r.ok /\ page.accepting # r.id -> w
      [] ~r.ok -> [w EXCEPT !.page.state = "cycling",
                            !.page.accepting = IF @ = r.id THEN None ELSE @]

\* A response is about the page as it is when it comes back.
Settled(w, r) ==
    CASE r.type = "accept" -> AcceptSettles(w, r)
      [] r.type = "discard" /\ r.ok -> Cleanup(MarkSessionHandled(w))
      [] r.type = "checkpoint" /\ r.id = page.session -> Cleanup(MarkSessionHandled(w))
      [] OTHER -> w

Settle(r) ==
    /\ answers' = answers \ {r}
    /\ Becomes(Settled(Here, r))
    /\ UNCHANGED <<server, link, inbox, history>>

\* recoverMissedGenerationCompletion
Behind(w, snap) ==
    /\ w.page.state = "generating" /\ ~w.page.arrived
    /\ Active(snap) /\ snap.completedAt /\ ~snap.canceled
    /\ snap.phase \notin TerminalPhases

DueRead(s) == [id |-> s, at |-> "due", found |-> FALSE, orphan |-> FALSE, again |-> FALSE]

RecoverMissed(w, seen) ==
    LET s == w.page.session IN
    IF s # None /\ Behind(w, seen[s])
    THEN [w EXCEPT !.page.file = TRUE, !.reads = @ \cup {DueRead(s)}]
    ELSE w

OnConnected(w, m) ==
    IF w.dom = {} /\ CanRestore(w, m)
    THEN RecoverMissed(RestoreSessionWithoutWrapper(w, m), m.seen)
    ELSE RecoverMissed(w, m.seen)

\* Mutant: without variants in the document, the page waits for a hot update.
OnDoneWaits(w, s) ==
    IF w.page.arrived /\ w.page.state = "generating" THEN ShowVariants(w)
    ELSE [w EXCEPT !.page.file = TRUE]

OnDone(w, s) ==
    LET told == [w EXCEPT !.page.file = TRUE] IN
    CASE w.page.arrived /\ w.page.state = "generating" -> ShowVariants(told)
      [] ~w.page.arrived /\ w.page.state = "generating" /\ s = w.page.session ->
            [told EXCEPT !.reads = @ \cup {DueRead(s)}]
      [] OTHER -> told

OnAccepted(w, s) ==
    LET heard == [w EXCEPT !.page.awaiting = IF @ = s THEN None ELSE @] IN
    CASE w.page.accepting # s -> heard
      [] w.page.accepting = s /\ w.page.session \in {None, s} ->
            CleanupAcceptedSession(MarkSessionHandled(heard))
      [] OTHER -> [heard EXCEPT !.page.accepting = None]

OnError(w, s) ==
    CASE w.page.accepting = s ->
            [w EXCEPT !.page.accepting = None, !.page.awaiting = None, !.page.state = "cycling"]
      [] w.page.accepting # s /\ w.page.awaiting = s -> [w EXCEPT !.page.awaiting = None]
      [] w.page.accepting # s /\ w.page.awaiting # s /\ w.page.session = s ->
            Cleanup(MarkSessionHandled(w))
      [] OTHER -> [w EXCEPT !.storage.saved = IF @.id = s THEN NoneSaved ELSE @,
                            !.page.state = "picking"]

Heard(w, m) ==
    CASE m.type = "connected" -> OnConnected(w, m)
      [] m.type = "done" -> OnDone(w, m.id)
      [] m.type = "complete" \/ m.type = "agent_done" -> OnAccepted(w, m.id)
      [] m.type = "discarded" /\ m.id = w.page.session -> Cleanup(MarkSessionHandled(w))
      [] m.type = "error" -> OnError(w, m.id)
      [] OTHER -> w

Receive ==
    /\ inbox # <<>> /\ inbox' = Tail(inbox)
    /\ Becomes(Heard(Here, Head(inbox)))
    /\ UNCHANGED <<server, answers, link, history>>

\* injectVariantsFromSource: a timer, the read by the server, the result.
ReadIsDue(r) ==
    /\ r.at = "due"
    /\ LET wanted == IF r.again
                     THEN page.session = r.id /\ page.state \in {"generating", "cycling"}
                     ELSE page.session = r.id /\ page.state = "generating" /\ ~page.arrived IN
          Becomes([Here EXCEPT !.reads = (@ \ {r}) \cup
                                         IF wanted THEN {[r EXCEPT !.at = "sent"]} ELSE {}])
    /\ Quiet

ReadSource(r) ==
    /\ r.at = "sent"
    /\ reads' = (reads \ {r}) \cup
                IF link = "stale" THEN {} ELSE {[r EXCEPT !.at = "back", !.found = r.id \in source]}
    /\ UNCHANGED <<page, storage, dom, requests>> /\ Quiet

\* The element is there, so the variants go in, whatever the page has moved to.
ReadIsBack(r) ==
    LET w == [Here EXCEPT !.reads = @ \ {r}]
        orphaned == r.orphan /\ r.id = page.session IN
    /\ r.at = "back"
    /\ \/ /\ r.found
          /\ Becomes(SaveSession(ShowVariants([w EXCEPT !.dom = @ \cup {r.id}, !.page.file = TRUE])))
       \/ /\ ~r.found /\ orphaned /\ ~r.again
          /\ Becomes([w EXCEPT !.reads = @ \cup {[r EXCEPT !.at = "due", !.again = TRUE]}])
       \/ /\ ~r.found /\ orphaned /\ r.again
          /\ Becomes(Cleanup(MarkSessionHandled(Sent(w, "orphaned", r.id, None))))
       \/ /\ ~r.found /\ ~orphaned
          /\ Becomes(w)
    /\ Quiet

-----------------------------------------------------------------------------
(* The server: POST /events *)

Broadcast(m) == inbox' = IF link = "open" THEN Append(inbox, m) ELSE inbox

Says(type, id) == [type |-> type, id |-> id, seen |-> None, landed |-> {}]

Decisions == {"accept", "discard"}

\* The responses a page does something with.
Respond(m, ok) ==
    answers' = IF /\ page.state # "reloading"
                  /\ \/ m.type = "accept"
                     \/ m.type = "discard" /\ ok
                     \/ m.type = "checkpoint" /\ ~ok
               THEN answers \cup {[type |-> m.type, id |-> m.id, ok |-> ok]}
               ELSE answers

\* The gate of a creation is open once that has been answered.
Opens(m, gate) == IF m.type = "generate" /\ gate = m.id THEN None ELSE gate

Arrived(m) ==
    /\ m.gate = None
    /\ requests' = {[c EXCEPT !.gate = Opens(m, @)] : c \in requests \ {m}}
    /\ page' = [page EXCEPT !.gate = Opens(m, @)]
    /\ UNCHANGED <<storage, dom, reads, link, history>>

\* 401, as the token is of an earlier server.
Refuse(m) ==
    /\ link = "stale" /\ Arrived(m)
    /\ IF m.type = "checkpoint" THEN UNCHANGED answers ELSE Respond(m, FALSE)
    /\ UNCHANGED <<server, inbox>>

\* Mutant: progress of any session is taken note of.
TakeNote(m) ==
    /\ link # "stale" /\ Arrived(m)
    /\ m.type # "generate" /\ ~Exists(store[m.id])
    /\ Respond(m, TRUE)
    /\ UNCHANGED <<server, inbox>>

\* 404 unknown_session
DoNotKnow(m) ==
    /\ link # "stale" /\ Arrived(m)
    /\ m.type # "generate" /\ ~Exists(store[m.id])
    /\ Respond(m, FALSE)
    /\ UNCHANGED <<server, inbox>>

\* The done a page has missed is said again, as its checkpoint shows.
MissedCompletion(m) ==
    /\ m.phase = "generating" /\ ~m.arrived
    /\ store[m.id].completedAt /\ ~Fenced(store[m.id])

\* A decision retires the generation that is still queued; a worker may have it.
Retired(s) == {work[s], work[s] \ {"preflight", "generate"}}

\* Which checkpoints of a page are refused as older is left open here.
TakeIn(m) ==
    LET s == m.id
        becomes(snap) == store' = [store EXCEPT ![s] = snap] IN
    /\ link # "stale" /\ Arrived(m) /\ Respond(m, TRUE)
    /\ m.type = "generate" \/ Exists(store[s])
    /\ UNCHANGED source
    /\ \/ /\ m.type = "generate" /\ becomes(ApplyGenerate(store[s], Plain(s, "generate")))
          /\ work' = [work EXCEPT ![s] = @ \cup {"preflight"}]
          /\ UNCHANGED <<landed, inbox>>
       \/ /\ m.type = "checkpoint"
          /\ \/ /\ becomes(ApplyCheckpoint(store[s], m.phase, 0))
                /\ landed' = IF Fenced(store[s]) THEN landed
                             ELSE IF m.arrived THEN landed \cup {s} ELSE landed \ {s}
             \/ UNCHANGED <<store, landed>>
          /\ IF MissedCompletion(m) THEN Broadcast(Says("done", s)) ELSE UNCHANGED inbox
          /\ UNCHANGED work
       \/ /\ m.type \in Decisions /\ becomes(ApplyDecision(store[s], Plain(s, m.type)))
          /\ \E left \in Retired(s) : work' = [work EXCEPT ![s] = left \cup {m.type}]
          /\ UNCHANGED <<landed, inbox>>
       \/ /\ m.type = "orphaned"
          /\ becomes(ApplyDiscarded(ApplyDecision(store[s], Plain(s, "discard"))))
          /\ \E left \in Retired(s) : work' = [work EXCEPT ![s] = left]
          /\ UNCHANGED <<landed, inbox>>

Deliver == \E m \in requests : Refuse(m) \/ DoNotKnow(m) \/ TakeIn(m)

-----------------------------------------------------------------------------
(* The agents *)

Elsewhere == UNCHANGED <<pageVars, answers, link, history>>

\* A generation is handed out, and journaled once more when its scaffold stands.
HandOut(s) ==
    /\ "preflight" \in work[s]
    /\ work' = [work EXCEPT ![s] = (@ \ {"preflight"}) \cup {"generate"}]
    /\ store' = [store EXCEPT ![s] = ApplyGenerate(@, [Plain(s, "generate") EXCEPT !.ready = TRUE])]
    /\ UNCHANGED <<landed, source, inbox>> /\ Elsewhere

\* The variants are written, which may be long before the reply.
Publish(s) ==
    /\ "generate" \in work[s] /\ s \notin source
    /\ source' = source \cup {s}
    /\ UNCHANGED <<store, landed, work, inbox>> /\ Elsewhere

\* live-accept.mjs, or the agent by hand when that fails, replaces the wrapper by
\* the variant or by the original; an agent_done that says only that the agent
\* goes on by hand changes nothing here.
CarryOut(s, chore) ==
    /\ chore \in work[s] \cap Decisions
    /\ source' = source \ {s}
    /\ work' = [work EXCEPT ![s] = (@ \ {chore}) \cup
                   {IF chore = "accept" THEN "applied" ELSE "dropped"}]
    /\ UNCHANGED <<store, landed, inbox>> /\ Elsewhere

\* What an agent answers to a chore, and what it still has to do then.
Reply(type, next) == [type |-> type, next |-> next]
Replies(s, chore) ==
    CASE chore = "generate" -> {Reply("error", {})} \cup
                               IF s \in source THEN {Reply("done", {})} ELSE {}
      [] chore = "applied" -> {Reply("complete", {}), Reply("agent_done", {"carbonizing"})}
      [] chore \in Decisions -> {Reply("error", {})}
      [] chore = "dropped" -> {Reply("discarded", {})}
      [] chore = "carbonizing" -> {Reply("complete", {}), Reply("error", {})}
      [] OTHER -> {}

\* The event a reply is taken to answer: a worker's error names none, and is
\* matched with whatever of its session is queued then.
Answered(chore) ==
    IF chore \in {"generate", "carbonizing"} THEN {"generate", None} ELSE {None}

Journaled(snap, r, answered) ==
    CASE r.type = "complete" -> ApplyComplete(snap)
      [] r.type = "discarded" -> ApplyDiscarded(snap)
      [] r.type = "error" -> ApplyAgentError(snap, answered)
      [] OTHER -> ApplyAgentDone(snap, r.type = "agent_done")

\* The reply is forwarded to the page, journaled or not: one to a session that is
\* over is journaled only if it acknowledges an event.  Bound: one message of an
\* agent at a time on its way to the page.
AgentReplies(s, chore) ==
    /\ chore \in work[s] /\ inbox = <<>>
    /\ \E r \in Replies(s, chore), answered \in Answered(chore) :
          /\ LET after == Journaled(store[s], r, answered)
                 finished == \/ r.type = "done" /\ after.phase = "variants_ready"
                             \/ r.type = "agent_done" /\ after.phase = "carbonize_required" IN
             \/ /\ store' = [store EXCEPT ![s] = after]
                /\ landed' = landed \cup IF finished THEN {s} ELSE {}
             \/ /\ store[s].phase \in CompletedPhases
                /\ UNCHANGED <<store, landed>>
          /\ work' = [work EXCEPT ![s] = (@ \ {chore}) \cup r.next]
          /\ Broadcast(Says(r.type, s))
    /\ UNCHANGED source /\ Elsewhere

Agents ==
    \E s \in Sessions :
        \/ HandOut(s) \/ Publish(s)
        \/ \E chore \in Chores : CarryOut(s, chore) \/ AgentReplies(s, chore)

-----------------------------------------------------------------------------
(* Hot updates, connections, reloads and restarts *)

\* The dev server brings the document up to the source files.
HotUpdate ==
    /\ page.state # "reloading" /\ dom # source
    /\ Becomes(Scout(Observe([Here EXCEPT !.dom = source])))
    /\ Quiet

\* activeSessionSummaries: what the queue owes is not told.
Summary(snap) == IF Active(snap) THEN [snap EXCEPT !.pending = None] ELSE BaseSnapshot

\* GET /events: the active sessions are told.
Connect ==
    /\ link = "lost" /\ page.state # "reloading"
    /\ link' = "open"
    /\ inbox' = <<[Says("connected", None)
                     EXCEPT !.seen = [s \in Sessions |-> Summary(store[s])],
                            !.landed = {s \in landed : Active(store[s])}]>>
    /\ UNCHANGED <<server, pageVars, answers, history>>

Mishap == losses < MaxLosses /\ losses' = losses + 1

Disconnect ==
    /\ link = "open" /\ Mishap
    /\ link' = "lost" /\ inbox' = <<>>
    /\ UNCHANGED <<server, pageVars, answers, opened, clicks>>

\* A reload, by the user, the dev server or the page.  A request that has left
\* may still arrive; one that waits for its gate does not leave any more.
Unload ==
    /\ page.state # "reloading" /\ Mishap
    /\ page' = [NewPage EXCEPT !.state = "reloading"]
    /\ requests' = {m \in requests : m.gate = None}
    /\ answers' = {} /\ reads' = {} /\ inbox' = <<>>
    /\ link' = IF link = "open" THEN "lost" ELSE link
    /\ UNCHANGED <<server, storage, dom, opened, clicks>>

Load ==
    /\ page.state = "reloading"
    /\ Becomes(ResumeSession([Here EXCEPT !.page = NewPage, !.dom = source, !.requests = {}]))
    /\ link' = "lost"
    /\ UNCHANGED <<server, answers, inbox, history>>

\* What the journal still owes is queued again; a reply to a decision is refused
\* as the token is new, and the page's token is worth nothing until it reloads.
Restored(s) ==
    LET owed == store[s].pending IN
    CASE ~Active(store[s]) \/ owed = None -> {}
      [] Active(store[s]) /\ owed # None ->
            {IF owed.type = "generate" /\ ~owed.ready THEN "preflight" ELSE owed.type}

Restart ==
    /\ Mishap
    /\ work' = [s \in Sessions |-> (work[s] \cap {"generate", "carbonizing"}) \cup Restored(s)]
    /\ link' = "stale" /\ inbox' = <<>>
    /\ UNCHANGED <<store, landed, source, pageVars, answers, opened, clicks>>

-----------------------------------------------------------------------------

User ==
    \/ \E s \in Sessions : Go(s)
    \/ Accept \/ Discard

Script ==
    \/ CaptureEnds \/ Receive
    \/ \E r \in answers : Settle(r)
    \/ \E r \in reads : ReadIsDue(r) \/ ReadSource(r) \/ ReadIsBack(r)

Next ==
    \/ User \/ Script \/ Deliver \/ Agents
    \/ HotUpdate \/ Connect \/ Disconnect \/ Unload \/ Load \/ Restart

Spec == Init /\ [][Next]_vars

\* Requests arrive and are answered, what has arrived is handled, a reload ends
\* in a page, and an EventSource connects again (never both at once).  Nothing is assumed of the
\* user, of hot updates, of agents, or of lost connections.
Fairness ==
    /\ WF_vars(CaptureEnds) /\ WF_vars(Receive) /\ WF_vars(Deliver)
    /\ WF_vars(\E r \in answers : Settle(r))
    /\ WF_vars(\E r \in reads : ReadIsDue(r) \/ ReadSource(r) \/ ReadIsBack(r))
    /\ WF_vars(Connect \/ Load)

FairSpec == Spec /\ Fairness

-----------------------------------------------------------------------------
(* Properties *)

\* The picker is given back after an accept only when the decision is journaled
\* and the generation fenced, so what is still published cannot undo it.
FreedOnceDurable ==
    page.awaiting # None => store[page.awaiting].canceled

\* A finished generation reaches the page that waits for it, though the done was
\* said while the page reloaded or had no connection, no hot update ever came,
\* or the page's own checkpoints have set the phase back to generating.
GenerationReachesPage ==
    \A s \in Sessions :
        (/\ page.session = s /\ page.state = "generating"
         /\ store[s].completedAt /\ ~Fenced(store[s]))
        ~> (page.session # s \/ page.state # "generating" \/ link = "stale")

\* A page does not stay in SAVING, whatever became of the accept it posted.
SavingEnds == page.state = "saving" ~> page.state # "saving"

\* A page that waits for a generation whose event never left, because the page
\* was reloaded between the click and the end of the screenshot, is told so by
\* the refusal of its next checkpoint and gives the picker back.
LostGoIsReleased ==
    \A s \in Sessions :
        (/\ page.session = s /\ page.state = "generating" /\ ~Exists(store[s])
         /\ page.capturing # s /\ \A m \in requests : m.type # "generate")
        ~> (page.session # s \/ link = "stale")

\* A checkpoint refused as unknown_session is about leftovers of another
\* project: the gate of sendEvent has creation before progress, so it is never
\* about the session the page has just opened with its own Go.
NotFoundMeansForeign ==
    \A r \in answers : r.type = "checkpoint" =>
        /\ page.capturing # r.id
        /\ \A m \in requests : m.id = r.id => m.type # "generate"

=============================================================================
