----------------------------- MODULE LiveServer -----------------------------
(***************************************************************************)
(* The live helper server (live-server.mjs): browsers post events, each    *)
(* event is journaled and queued, agents poll for events, hold one under a *)
(* lease while they work, and reply.  The node process is single threaded, *)
(* so a handler is one step up to its first await, which is the preflight  *)
(* of a generate event.                                                    *)
(*                                                                         *)
(* Times are abstracted to the order of expiries.  A lease outlives the    *)
(* preflight that runs under it: 15 s against 30 s or more.                *)
(* Events about no session (exit, prefetch) and manual edits, which have   *)
(* replies of their own, are left out.                                     *)
(***************************************************************************)
EXTENDS LiveStore, FiniteSets, Sequences, SequencesExt

CONSTANTS
    Steers,      \* the session ids that carry a steer, not a generation
    Agents,      \* poll loops, one per agent process
    Streams,     \* the agents whose loop is poll --stream
    Lane,        \* the event types each agent asks for
    MaxRestarts, \* bound: restarts of the server
    MaxFailures  \* bound: agents lost, leases failed, retries, bounced replies

ASSUME ServerAssumption ==
    /\ Steers \subseteq Sessions /\ Streams \subseteq Agents
    /\ Lane \in [Agents -> SUBSET EventTypes]
    /\ MaxRestarts \in Nat /\ MaxFailures \in Nat
    /\ None \notin Agents

VARIABLES
    store,      \* the snapshot of each session
    source,     \* the sessions whose variants are in the source files
    queue,      \* state.pendingEvents
    parked,     \* state.pendingPolls: the agents waiting for an event
    preflights, \* calls of leaseEvent that await prepareGenerateEventForLease
    agent,      \* what each agent is doing
    posted,     \* history: the events browsers have posted
    delivered,  \* history: the events handed to an agent
    bounced,    \* history: sessions whose publish did not compile
    restarts, failures

leases == <<queue, parked, preflights, agent, delivered>>
bounds == <<restarts, failures>>
vars == <<store, source, leases, posted, bounced, bounds>>

Decisions == {"accept", "discard"}

\* Two events with one key are duplicates: mount failures are per variant.
Key(e) == <<e.id, e.type, IF e.type = "variant_mount_failed" THEN e.variant ELSE None>>

\* seq is the order of arrival, from 1 in an empty queue.
Entry == [event : Event, leased : BOOLEAN, seq : Nat]
Idle == [at |-> "idle", event |-> None]
Activity == [at : {"idle", "parked", "leasing", "handling", "applied", "finishing", "awaiting", "gone"},
             event : Event \cup {None}]

TypeOK ==
    /\ store \in [Sessions -> Snapshot] /\ source \subseteq Sessions
    /\ queue \subseteq Entry /\ IsFiniteSet(queue)
    /\ parked \in Seq(Agents)
    /\ preflights \subseteq [event : Event, by : Agents \cup {None}]
    /\ agent \in [Agents -> Activity]
    /\ posted \subseteq Event /\ delivered \subseteq Event /\ bounced \subseteq Sessions
    /\ restarts \in 0 .. MaxRestarts /\ failures \in 0 .. MaxFailures

Init ==
    /\ store = [s \in Sessions |-> BaseSnapshot] /\ source = {}
    /\ queue = {} /\ parked = <<>> /\ preflights = {}
    /\ agent = [a \in Agents |-> Idle]
    /\ posted = {} /\ delivered = {} /\ bounced = {}
    /\ restarts = 0 /\ failures = 0

-----------------------------------------------------------------------------
(* The queue *)

Queued(q, e) == \E x \in q : Key(x.event) = Key(e)

NextSeq(q) == 1 + Max({x.seq : x \in q} \cup {0})

Enqueue(q, e) ==
    IF Queued(q, e) THEN q
    ELSE q \cup {[event |-> e, leased |-> FALSE, seq |-> NextSeq(q)]}

Priority(e) ==
    CASE e.type \in Decisions -> 0
      [] e.type = "steer" -> 1
      [] e.type = "generate" -> 2
      [] OTHER -> 3

Before(x, y) ==
    \/ Priority(x.event) < Priority(y.event)
    \/ Priority(x.event) = Priority(y.event) /\ x.seq < y.seq

FreeFor(q, a) == {x \in q : ~x.leased /\ x.event.type \in Lane[a]}

\* selectAvailablePendingEvent: the one entry that comes first, or none.
Selected(q, a) == {x \in FreeFor(q, a) : \A y \in FreeFor(q, a) \ {x} : Before(x, y)}

\* The first entry of a session with the type, or with any type at all; or none.
Matches(q, s, type) == {x \in q : x.event.id = s /\ type \in {x.event.type, None}}
First(q, s, type) ==
    {x \in Matches(q, s, type) : \A y \in Matches(q, s, type) : x.seq <= y.seq}

AwaitsPreflight(e) == e.type = "generate" /\ ~e.ready

\* Mutant: the lease begins when the preflight is over.
ClaimAfterwards(q, x) == IF AwaitsPreflight(x.event) THEN q ELSE (q \ {x}) \cup {[x EXCEPT !.leased = TRUE]}

\* The claim: before anything is awaited, so the entry is free for no one else.
Claim(q, x) == (q \ {x}) \cup {[x EXCEPT !.leased = TRUE]}

Offered(e) == [e EXCEPT !.ready = FALSE]

\* leaseEvent, up to its await.
LeaseEvent(q, x, a, agents) ==
    /\ queue' = Claim(q, x)
    /\ agent' = [agents EXCEPT ![a] =
                    [at |-> IF AwaitsPreflight(x.event) THEN "leasing" ELSE "handling",
                     event |-> x.event]]
    /\ preflights' = preflights \cup
                     (IF AwaitsPreflight(x.event) THEN {[event |-> x.event, by |-> a]} ELSE {})
    /\ delivered' = delivered \cup {Offered(x.event)}

\* Mutant: only the poll that has waited longest is looked at.
FlushFirstPoll(q, agents) ==
    IF parked # <<>> /\ FreeFor(q, Head(parked)) # {}
    THEN /\ \E x \in Selected(q, Head(parked)) : LeaseEvent(q, x, Head(parked), agents)
         /\ parked' = Tail(parked)
    ELSE /\ queue' = q /\ agent' = agents
         /\ UNCHANGED <<parked, preflights, delivered>>

\* flushPendingPolls, once the handler has left q: the first parked poll that a
\* free event fits gets one.  A handler frees one event at most.
FlushPendingPolls(q, agents) ==
    LET fitting == {i \in DOMAIN parked : FreeFor(q, parked[i]) # {}} IN
    \/ /\ fitting = {}
       /\ queue' = q /\ agent' = agents
       /\ UNCHANGED <<parked, preflights, delivered>>
    \/ /\ fitting # {}
       /\ \E i \in fitting :
             /\ \A j \in fitting : i <= j
             /\ \E x \in Selected(q, parked[i]) : LeaseEvent(q, x, parked[i], agents)
             /\ parked' = RemoveAt(parked, i)

-----------------------------------------------------------------------------
(* POST /events: what a page reports *)

Post(e) == posted' = posted \cup {e}

\* A generate or a steer opens the session.
Open(e) ==
    /\ store' = [store EXCEPT ![e.id] =
                    IF e.type = "generate" THEN ApplyGenerate(@, e) ELSE ApplySteer(@, e)]
    /\ FlushPendingPolls(Enqueue(queue, e), agent)
    /\ Post(e)
    /\ UNCHANGED <<source, bounced, bounds>>

\* Mutant: a generation somebody works on is left to run out.
RetiredIfFree(q, s) == {x \in q : ~(x.event.id = s /\ x.event.type = "generate" /\ ~x.leased)}

\* A decision retires the generation still in the queue, leased or not.
Retired(q, s) == {x \in q : ~(x.event.id = s /\ x.event.type = "generate")}

\* Everything else needs the session to exist (404 unknown_session otherwise).
Decide(e) ==
    /\ Exists(store[e.id])
    /\ store' = [store EXCEPT ![e.id] = ApplyDecision(@, e)]
    /\ FlushPendingPolls(Enqueue(Retired(queue, e.id), e), agent)
    /\ Post(e)
    /\ UNCHANGED <<source, bounced, bounds>>

\* The page found no wrapper in the source: nobody has anything to clean up.
DiscardOrphaned(s) ==
    /\ Exists(store[s])
    /\ store' = [store EXCEPT ![s] = ApplyDiscarded(ApplyDecision(@, Plain(s, "discard")))]
    /\ queue' = Retired(queue, s)
    /\ UNCHANGED <<source, parked, preflights, agent, delivered, posted, bounced, bounds>>

Checkpoint(s, phase, revision) ==
    /\ Exists(store[s])
    /\ store' = [store EXCEPT ![s] = ApplyCheckpoint(@, phase, revision)]
    /\ UNCHANGED <<source, leases, posted, bounced, bounds>>

VariantMountFailed(e) ==
    /\ Exists(store[e.id])
    /\ store' = [store EXCEPT ![e.id] = ApplyMountFailed(@, e)]
    /\ FlushPendingPolls(Enqueue(queue, e), agent)
    /\ Post(e)
    /\ UNCHANGED <<source, bounced, bounds>>

-----------------------------------------------------------------------------
(* GET /poll *)

\* The best free event of the agent's lane at once, or a parked poll.
Poll(a) ==
    /\ agent[a].at = "idle"
    /\ \/ /\ FreeFor(queue, a) # {}
          /\ \E x \in Selected(queue, a) : LeaseEvent(queue, x, a, agent)
          /\ UNCHANGED parked
       \/ /\ FreeFor(queue, a) = {}
          /\ parked' = Append(parked, a)
          /\ agent' = [agent EXCEPT ![a].at = "parked"]
          /\ UNCHANGED <<queue, preflights, delivered>>
    /\ UNCHANGED <<store, source, posted, bounced, bounds>>

\* The poll's timeout, or the client closing it.
PollEnds(a) ==
    /\ agent[a].at = "parked"
    /\ \E i \in DOMAIN parked : parked[i] = a /\ parked' = RemoveAt(parked, i)
    /\ agent' = [agent EXCEPT ![a] = Idle]
    /\ UNCHANGED <<store, source, queue, preflights, delivered, posted, bounced, bounds>>

Released(p) == IF p.by = None THEN agent
               ELSE [agent EXCEPT ![p.by] = Idle]

\* The rest of leaseEvent: the scaffold and the delivery are journaled as the
\* generate event again, whatever became of the entry meanwhile.
LeaseSettles(p) ==
    LET e == [p.event EXCEPT !.ready = TRUE] IN
    /\ preflights' = preflights \ {p}
    /\ store' = [store EXCEPT ![e.id] = ApplyGenerate(@, e)]
    /\ queue' = {IF Key(x.event) = Key(e) THEN [event |-> e, leased |-> TRUE, seq |-> x.seq]
                 ELSE x : x \in queue}
    /\ agent' = IF p.by = None THEN agent
                ELSE [agent EXCEPT ![p.by] = [at |-> "handling", event |-> e]]
    /\ UNCHANGED <<source, parked, delivered, posted, bounced, bounds>>

\* An append throws: the poll is answered timeout, and the claim stays.
LeaseFails(p) ==
    /\ failures < MaxFailures /\ failures' = failures + 1
    /\ preflights' = preflights \ {p}
    /\ agent' = Released(p)
    /\ UNCHANGED <<store, source, queue, parked, delivered, posted, bounced, restarts>>

Preflighted(e) == \E p \in preflights : Key(p.event) = Key(e)

\* The lease timer: the event is offered again, whoever still works on it.
LeaseExpires(x) ==
    /\ x.leased /\ ~Preflighted(x.event)
    /\ FlushPendingPolls((queue \ {x}) \cup {[x EXCEPT !.leased = FALSE]}, agent)
    /\ UNCHANGED <<store, source, posted, bounced, bounds>>

-----------------------------------------------------------------------------
(* POST /poll: the reply of an agent *)

Reply == [type : {"done", "error", "steer_done", "agent_done", "complete", "discarded"},
          source : EventTypes \cup {None}, carbonize : BOOLEAN]

Answer(type, about) == [type |-> type, source |-> about, carbonize |-> FALSE]

PendingTypes(s) == {x.event.type : x \in {y \in queue : y.event.id = s}}

\* Mutant: an error acknowledges any event of its session.
InferredAny(type, s) ==
    CASE type = "discarded" -> "discard"
      [] type = "complete" /\ "accept" \in PendingTypes(s) -> "accept"
      [] type = "steer_done" -> "steer"
      [] type \in {"done", "agent_done"} -> "generate"
      [] OTHER -> None

\* Mutant: a done never answers a failed mount.
InferredGenerate(type, s) ==
    CASE type = "discarded" -> "discard"
      [] type = "complete" /\ "accept" \in PendingTypes(s) -> "accept"
      [] type = "steer_done" -> "steer"
      [] type \in {"done", "agent_done", "error"} -> "generate"
      [] OTHER -> None

\* inferSourceEventType, for a reply that names no source.
Inferred(type, s) ==
    LET pending == PendingTypes(s)
        held == {x \in queue : x.event.id = s /\ x.leased} IN
    CASE type = "discarded" -> "discard"
      [] type = "complete" /\ "accept" \in pending -> "accept"
      [] type = "complete" /\ pending \cap {"accept", "generate"} = {"generate"} -> "generate"
      [] type = "steer_done" -> "steer"
      [] type \in {"done", "agent_done"} ->
            IF "generate" \notin pending /\ "variant_mount_failed" \in pending
            THEN "variant_mount_failed" ELSE "generate"
      [] type = "error" ->
            IF held = {} THEN "generate"
            ELSE (CHOOSE x \in held : \A y \in held : x.seq <= y.seq).event.type
      [] OTHER -> None

SourceOf(s, r) == IF r.source # None THEN r.source ELSE Inferred(r.type, s)

\* The entry a reply acknowledges, or none.
Acked(s, r) == First(queue, s, SourceOf(s, r))

Journaled(snap, r, acked) ==
    CASE r.type = "steer_done" -> ApplySteerDone(snap)
      [] r.type = "discarded" -> ApplyDiscarded(snap)
      [] r.type = "complete" -> ApplyComplete(snap)
      [] r.type = "error" ->
            ApplyAgentError(snap, IF acked = {} THEN None
                                  ELSE (CHOOSE x \in acked : TRUE).event.type)
      [] OTHER -> ApplyAgentDone(snap, r.carbonize)

\* A reply nothing waits for, about a session that is over, is not journaled.
HandleReply(s, r, agents) ==
    LET acked == Acked(s, r)
        over == acked = {} /\ store[s].phase \in CompletedPhases IN
    /\ store' = IF over THEN store
                ELSE [store EXCEPT ![s] = Journaled(@, r, acked)]
    /\ FlushPendingPolls(queue \ acked, agents)
    /\ UNCHANGED <<source, posted, bounced, bounds>>

\* The agent writes the variants, or writes them again for a failed mount.
Publish(a) ==
    /\ agent[a].at = "handling" /\ agent[a].event.type = "generate"
    /\ agent[a].event.id \notin source
    /\ source' = source \cup {agent[a].event.id}
    /\ UNCHANGED <<store, leases, posted, bounced, bounds>>

\* live-accept.mjs: the accepted variant, or the original, replaces the wrapper.
CarryOut(a) ==
    /\ agent[a].at = "handling" /\ agent[a].event.type \in Decisions
    /\ source' = source \ {agent[a].event.id}
    /\ agent' = [agent EXCEPT ![a].at = "applied"]
    /\ UNCHANGED <<store, queue, parked, preflights, delivered, posted, bounced, bounds>>

\* What an agent answers.  live-poll handles a decision itself and names it as
\* the source; a worker's replies name none.
Answers(a) ==
    LET e == agent[a].event
        published == IF e.id \in source THEN {Answer("done", None)} ELSE {} IN
    CASE e.type \in {"generate", "variant_mount_failed"} -> {Answer("error", None)} \cup published
      [] e.type = "steer" -> {Answer("steer_done", None), Answer("error", None)}
      [] e.type = "accept" /\ agent[a].at = "handling" ->
            {Answer("error", "accept"), Answer("agent_done", "accept")}
      [] e.type = "accept" /\ agent[a].at = "applied" ->
            {Answer("complete", "accept"),
             [Answer("agent_done", "accept") EXCEPT !.carbonize = TRUE]}
      [] e.type = "discard" ->
            {IF agent[a].at = "applied" THEN Answer("discarded", "discard")
             ELSE Answer("error", "discard")}
      [] OTHER -> {}

\* After an agent_done the agent cleans up and completes the session itself; a
\* stream waits until its event has left the queue.
Onwards(a, r) ==
    CASE r.type = "agent_done" -> [agent[a] EXCEPT !.at = "finishing"]
      [] r.type # "agent_done" /\ a \in Streams /\ agent[a].event.type \notin Decisions ->
            [agent[a] EXCEPT !.at = "awaiting"]
      [] OTHER -> Idle

HasAnswer(a) == agent[a].at \in {"handling", "applied"}

Replies(a, r) == HandleReply(agent[a].event.id, r, [agent EXCEPT ![a] = Onwards(a, r)])

ReplyTo(a) ==
    /\ HasAnswer(a)
    /\ \E r \in Answers(a) : Replies(a, r)

\* live-complete.mjs, which names no source either.
Finish(a, type) ==
    /\ agent[a].at = "finishing"
    /\ type \in {"complete", "error"}
    /\ HandleReply(agent[a].event.id, Answer(type, None), [agent EXCEPT ![a] = Idle])

\* A publish that does not compile: acknowledged, then refused.
PublishBounces(a) ==
    /\ agent[a].at = "handling" /\ agent[a].event.type = "generate"
    /\ agent[a].event.id \in source \ bounced
    /\ failures < MaxFailures /\ failures' = failures + 1
    /\ queue' = queue \ Acked(agent[a].event.id, Answer("done", None))
    /\ bounced' = bounced \cup {agent[a].event.id}
    /\ UNCHANGED <<store, source, parked, preflights, agent, delivered, posted, restarts>>

\* retry: the event is given back.
GiveBack(a) ==
    LET e == agent[a].event IN
    /\ agent[a].at = "handling"
    /\ failures < MaxFailures /\ failures' = failures + 1
    /\ \E x \in First(queue, e.id, None) :
          FlushPendingPolls((queue \ {x}) \cup {[x EXCEPT !.leased = FALSE]},
                            [agent EXCEPT ![a] = Idle])
    /\ UNCHANGED <<store, source, posted, bounced, restarts>>

\* waitForEventAck: any queued event of the session keeps the stream waiting.
StreamGoesOn(a) ==
    /\ agent[a].at = "awaiting"
    /\ Matches(queue, agent[a].event.id, None) = {}
    /\ agent' = [agent EXCEPT ![a] = Idle]
    /\ UNCHANGED <<store, source, queue, parked, preflights, delivered, posted, bounced, bounds>>

\* ACK_TIMEOUT: the process exits.
StreamGivesUp(a) ==
    /\ agent[a].at = "awaiting"
    /\ Matches(queue, agent[a].event.id, None) # {}
    /\ agent' = [agent EXCEPT ![a].at = "gone"]
    /\ UNCHANGED <<store, source, queue, parked, preflights, delivered, posted, bounced, bounds>>

\* The agent dies, or its answer is lost on the way; a poll loop starts again.
AgentLost(a) ==
    /\ agent[a].at \in {"leasing", "handling", "applied", "finishing"}
    /\ failures < MaxFailures /\ failures' = failures + 1
    /\ agent' = [agent EXCEPT ![a] = Idle]
    /\ preflights' = {IF p.by = a THEN [p EXCEPT !.by = None] ELSE p : p \in preflights}
    /\ UNCHANGED <<store, source, queue, parked, delivered, posted, bounced, restarts>>

-----------------------------------------------------------------------------
(* The server stops, or dies, and starts again *)

\* Mutants: nothing is looked up in a session without a pending event, and an
\* event that was delivered before is not restored.
RestoredAll ==
    {[event |-> store[s].pending, leased |-> FALSE, seq |-> s]
        : s \in {t \in Sessions : Active(store[t])}}

RestoredUndelivered ==
    {[event |-> store[s].pending, leased |-> FALSE, seq |-> s]
        : s \in {t \in Sessions : Active(store[t]) /\ store[t].pending # None /\ ~store[t].pending.ready}}

\* restorePendingEventsFromStore, in the order of the ids.
Restored ==
    {[event |-> store[s].pending, leased |-> FALSE, seq |-> s]
        : s \in {t \in Sessions : Active(store[t]) /\ store[t].pending # None}}

\* Polls and leases are gone, and the token is new: a poll loop ends, and the
\* reply it was about to post for a decision is refused.
Restart ==
    /\ restarts < MaxRestarts /\ restarts' = restarts + 1
    /\ queue' = Restored
    /\ parked' = <<>> /\ preflights' = {}
    /\ agent' = [a \in Agents |->
                    IF \/ agent[a].at \in {"parked", "leasing", "awaiting", "applied"}
                       \/ agent[a].at = "handling" /\ agent[a].event.type \in Decisions
                    THEN Idle ELSE agent[a]]
    /\ bounced' = {}
    /\ UNCHANGED <<store, source, delivered, posted, failures>>

-----------------------------------------------------------------------------

\* checkpointPayload has the state of the page, sendSteerCheckpoint has its own.
PhasesOf(s) == IF s \in Steers THEN {"steer"} ELSE BrowserPhases \ {"steer"}

Fresh(e) == e \notin posted /\ \A f \in posted : Key(f) # Key(e)

\* A page decides about variants it has seen, and reports what it mounted.
Page ==
    \/ \E s \in Sessions \ Steers : Open(Plain(s, "generate")) /\ Fresh(Plain(s, "generate"))
    \/ \E s \in Steers : Open(Plain(s, "steer")) /\ Fresh(Plain(s, "steer"))
    \/ \E s \in source, v \in Variants :
          \/ LET e == OfVariant(s, "accept", v) IN Fresh(e) /\ Decide(e)
          \/ LET e == OfVariant(s, "variant_mount_failed", v) IN Fresh(e) /\ VariantMountFailed(e)
    \/ \E s \in source : Fresh(Plain(s, "discard")) /\ Decide(Plain(s, "discard"))
    \/ \E s \in Sessions \ source : store[s].completedAt /\ DiscardOrphaned(s)
    \/ \E s \in Sessions, r \in 0 .. MaxRevision :
          \E phase \in PhasesOf(s) : Checkpoint(s, phase, r)

Work ==
    \/ \E a \in Agents :
          \/ Poll(a) \/ PollEnds(a) \/ Publish(a) \/ CarryOut(a) \/ PublishBounces(a) \/ GiveBack(a)
          \/ ReplyTo(a)
          \/ \E type \in {"complete", "error"} : Finish(a, type)
          \/ StreamGoesOn(a) \/ StreamGivesUp(a) \/ AgentLost(a)
    \/ \E p \in preflights : LeaseSettles(p) \/ LeaseFails(p)
    \/ \E x \in queue : LeaseExpires(x)

Next == Page \/ Work \/ Restart

Spec == Init /\ [][Next]_vars

AnswersInTime(a) ==
    /\ HasAnswer(a)
    /\ \E x \in queue : x.leased /\ Key(x.event) = Key(agent[a].event)
    /\ ReplyTo(a)

Turn(a) ==
    \/ Poll(a) \/ ReplyTo(a) \/ StreamGoesOn(a)
    \/ \E type \in {"complete", "error"} : Finish(a, type)

\* A poll loop polls again, an agent answers in the end, sometimes before its
\* lease of ten minutes is over, and the timers of the node process fire.
\* Nothing is assumed of pages, of losses or of restarts.
Fairness ==
    /\ \A a \in Agents : WF_vars(Turn(a)) /\ SF_vars(AnswersInTime(a))
    /\ WF_vars(\E p \in preflights : LeaseSettles(p))
    /\ WF_vars(\E x \in queue : LeaseExpires(x))

FairSpec == Spec /\ Fairness

-----------------------------------------------------------------------------
(* Properties *)

\* One preflight at a time per event: the entry is claimed before the first
\* await of leaseEvent, so no second poll is handed a generate that is being
\* scaffolded, and none is generated twice while its lease runs.
ClaimedOnce ==
    \A p, q \in preflights : Key(p.event) = Key(q.event) => p = q

\* No poll is left parked beside an event it asked for: every handler that
\* queues or frees an event flushes the parked polls before it returns.
PollsAreServed ==
    \A i \in DOMAIN parked : FreeFor(queue, parked[i]) = {}

\* A generation the journal still owes is in the queue, whatever was lost,
\* released, re-offered or restarted; only a refused publish (acknowledged
\* first, then bounced) leaves it to the agent that must publish again.
OwedGenerateIsQueued ==
    \A s \in Sessions :
        LET snap == store[s] IN
        /\ Active(snap) /\ ~snap.canceled /\ snap.pending # None
        /\ snap.pending.type = "generate" /\ s \notin bounced
        => Queued(queue, snap.pending)

\* No ghost of a canceled cycle: a generation whose session was decided, or is
\* over, is never offered again, be it released, expired or restored.
NoGhostGeneration ==
    \A x \in queue : x.event.type = "generate" => ~Fenced(store[x.event.id])

-----------------------------------------------------------------------------
(* The events of the sessions, as the jobs of a LeaseQueue *)

Jobs == (Sessions \ Steers) \X {"generate", "accept", "discard"}
            \cup Steers \X {"steer"}

Of(j) == {x \in queue : x.event.id = j[1] /\ x.event.type = j[2]}

PlaceOf(j) ==
    CASE Of(j) = {} -> "out"
      [] \E x \in Of(j) : x.leased -> "held"
      [] OTHER -> "waiting"

IsServed(j) == \E e \in delivered : e.id = j[1] /\ e.type = j[2]

IsWanted(j) ==
    /\ store[j[1]].phase \notin CompletedPhases
    /\ j[2] = "generate" => ~store[j[1]].canceled

Promise == INSTANCE LeaseQueue WITH
    place <- [j \in Jobs |-> PlaceOf(j)], served <- {j \in Jobs : IsServed(j)},
    wanted <- {j \in Jobs : IsWanted(j)}, starts <- restarts

\* The server keeps, for every event, the promise of LeaseQueue: at least once,
\* one holder at a time, and gone only when answered or no longer wanted.
KeepsThePromise == Promise!Spec

\* Every event is answered in the end, whichever agent dies or lease expires
\* first, and whichever other event of its session was answered in its place:
\* pages post finitely often here, so the queue is empty again and again.
QueueDrains == []<>(queue = {})

=============================================================================
