-------------------------- MODULE LiveServerProofs --------------------------
(***************************************************************************)
(* Theorems about LiveServer: one preflight at a time per event, no        *)
(* generation of a decided session is offered again, and none that the     *)
(* journal owes is lost.  The invariant is stated for given values of the  *)
(* variables, because a handler first changes the journal and the queue,   *)
(* and then leases an event of what it has left to a parked poll.          *)
(***************************************************************************)
EXTENDS LiveServer, TLAPS

\* An entry as a record; what its seq is does not matter here.
IsEntry(x) ==
    /\ x = [event |-> x.event, leased |-> x.leased, seq |-> x.seq]
    /\ x.event \in Event /\ x.event.id \in Sessions /\ x.leased \in BOOLEAN

IsCall(p) ==
    /\ p = [event |-> p.event, by |-> p.by]
    /\ p.event \in Event /\ p.event.id \in Sessions /\ AwaitsPreflight(p.event)

\* An agent that is not waiting for an event has one.
InHand(v) == v.at \notin {"idle", "parked"} => v.event # None /\ v.event.id \in Sessions

Shape(st, q, pre, ag) ==
    /\ st \in [Sessions -> Snapshot]
    /\ \A x \in q : IsEntry(x)
    /\ \A p \in pre : IsCall(p)
    /\ ag \in [Agents -> Activity]
    /\ \A a \in Agents : InHand(ag[a])

OwnPending(st) ==
    \A s \in Sessions : st[s].pending # None => st[s].pending.id = s

UniqueKeys(q) == \A x, y \in q : Key(x.event) = Key(y.event) => x = y

\* An event under preflight is leased, so no other poll is handed it.
Claimed(q, pre) ==
    \A p \in pre, x \in q : Key(x.event) = Key(p.event) => x.leased

Once(pre) == \A p, r \in pre : Key(p.event) = Key(r.event) => p = r

\* The generation of the session is still to be scaffolded ...
Unready(s, st, q, pre) ==
    \/ \E p \in pre : p.event.id = s
    \/ \E x \in q : x.event.id = s /\ AwaitsPreflight(x.event)
    \/ st[s].pending # None /\ AwaitsPreflight(st[s].pending)

\* ... and nothing else has happened to the session.
Untouched(s, st, src, q, ag, po) ==
    /\ s \notin src /\ s \notin Steers
    /\ ~st[s].completedAt /\ ~st[s].canceled
    /\ st[s].pending # None => AwaitsPreflight(st[s].pending)
    /\ \A x \in q : x.event.id = s => AwaitsPreflight(x.event)
    /\ \A a \in Agents : ag[a].event # None /\ ag[a].event.id = s => ag[a].at = "leasing"
    /\ \A e \in po : e.id = s => e.type = "generate"

InOrder(st, src, q, pre, ag, po) ==
    \A s \in Sessions : Unready(s, st, q, pre) => Untouched(s, st, src, q, ag, po)

\* A session of which nothing was posted is not there at all.
Blank(s, st, src, q, pre, ag) ==
    /\ s \notin src /\ st[s] = BaseSnapshot
    /\ \A x \in q : x.event.id # s
    /\ \A p \in pre : p.event.id # s
    /\ \A a \in Agents : ag[a].event # None => ag[a].event.id # s

PostedFirst(st, src, q, pre, ag, po) ==
    /\ src \subseteq Sessions
    /\ \A s \in Sessions : (\A e \in po : e.id # s) => Blank(s, st, src, q, pre, ag)
    /\ \A s \in Sessions \ Steers :
          (\E e \in po : e.id = s) => \E e \in po : Key(e) = Key(Plain(s, "generate"))

\* What a decision leaves: no generation, queued or owed.
Decided(st, q, ag) ==
    /\ \A s \in Sessions :
          /\ st[s].phase \in FencedPhases => st[s].canceled
          /\ st[s].pending # None /\ st[s].pending.type \in Decisions => st[s].canceled
          /\ st[s].canceled => st[s].pending = None \/ st[s].pending.type # "generate"
    /\ \A x \in q :
          /\ x.event.type \in Decisions => st[x.event.id].canceled
          /\ x.event.type = "generate" => ~st[x.event.id].canceled
    /\ \A a \in Agents :
          /\ ag[a].event # None /\ ag[a].event.type \in Decisions =>
                ag[a].event.id \in Sessions /\ st[ag[a].event.id].canceled
          /\ ag[a].at \in {"applied", "finishing"} =>
                ag[a].event # None /\ ag[a].event.type \in Decisions

Good(st, src, q, pre, ag, po) ==
    /\ Shape(st, q, pre, ag) /\ OwnPending(st)
    /\ UniqueKeys(q) /\ Claimed(q, pre) /\ Once(pre)
    /\ InOrder(st, src, q, pre, ag, po) /\ PostedFirst(st, src, q, pre, ag, po)
    /\ Decided(st, q, ag)

IInv == Good(store, source, queue, preflights, agent, posted)

-----------------------------------------------------------------------------
(* Leasing an entry *)

\* Key: events with one key are of one session and one type.
LEMMA KeyFacts ==
    ASSUME NEW e \in Event, NEW f \in Event, Key(e) = Key(f)
    PROVE  e.id = f.id /\ e.type = f.type
BY DEF Key

\* An entry whose lease begins or ends is the same entry otherwise.
LEMMA Leasing ==
    ASSUME NEW x, IsEntry(x), NEW l \in BOOLEAN, NEW y, y = [x EXCEPT !.leased = l]
    PROVE  IsEntry(y) /\ y.event = x.event /\ y.leased = l
<1>1. \A e, k, n : [[event |-> e, leased |-> k, seq |-> n] EXCEPT !.leased = l]
                      = [event |-> e, leased |-> l, seq |-> n]
  OBVIOUS
<1>2. x = [event |-> x.event, leased |-> x.leased, seq |-> x.seq]
  BY DEF IsEntry
<1>3. y = [event |-> x.event, leased |-> l, seq |-> x.seq]
  BY <1>1, <1>2, ZenonT(30)
<1> QED BY <1>3 DEF IsEntry

\* Key: a session has one generate event.
LEMMA GenerateKeys ==
    ASSUME NEW e \in Event, NEW f \in Event,
           e.type = "generate", f.type = "generate", e.id = f.id
    PROVE  Key(e) = Key(f)
BY DEF Key

\* What a poll is handed in leaseEvent, with the entry claimed at once.
LEMMA LeaseGood ==
    ASSUME NEW st, NEW src, NEW q, NEW pre, NEW ag, NEW po,
           Good(st, src, q, pre, ag, po),
           NEW x \in q, ~x.leased, NEW a, NEW pre2, NEW ag2,
           pre2 = pre \cup (IF AwaitsPreflight(x.event) THEN {[event |-> x.event, by |-> a]}
                            ELSE {}),
           ag2 = [ag EXCEPT ![a] = [at |-> IF AwaitsPreflight(x.event) THEN "leasing"
                                           ELSE "handling",
                                    event |-> x.event]]
    PROVE  Good(st, src, Claim(q, x), pre2, ag2, po)
<1> DEFINE y == [x EXCEPT !.leased = TRUE]
           q2 == Claim(q, x)
<1>1. Shape(st, q, pre, ag) /\ OwnPending(st) /\ UniqueKeys(q) /\ Claimed(q, pre) /\ Once(pre)
  BY DEF Good
<1>2. /\ InOrder(st, src, q, pre, ag, po) /\ PostedFirst(st, src, q, pre, ag, po)
      /\ Decided(st, q, ag)
  BY DEF Good
<1>3. IsEntry(x)
  BY <1>1 DEF Shape
<1>4. y.event = x.event /\ y.leased = TRUE /\ IsEntry(y)
  BY <1>3, Leasing
<1>5. q2 = (q \ {x}) \cup {y}
  BY DEF Claim
<1>6. \A p \in pre : Key(p.event) # Key(x.event)
  BY <1>1 DEF Claimed
<1> HIDE DEF y, q2
<1>7. Shape(st, q2, pre2, ag2)
  <2>1. \A z \in q2 : IsEntry(z)
    BY <1>1, <1>4, <1>5 DEF Shape
  <2>2. \A p \in pre2 : IsCall(p)
    BY <1>1, <1>3 DEF Shape, IsCall, IsEntry
  <2>3. ag2 \in [Agents -> Activity]
    BY <1>1, <1>3 DEF Shape, IsEntry, Activity
  <2>4. \A b \in Agents : InHand(ag2[b])
    BY <1>1, <1>3, NoneIsNoEvent DEF Shape, IsEntry, InHand
  <2> QED BY <1>1, <2>1, <2>2, <2>3, <2>4 DEF Shape
<1>8. UniqueKeys(q2)
  BY <1>1, <1>4, <1>5 DEF UniqueKeys
<1>9. Claimed(q2, pre2)
  BY <1>1, <1>4, <1>5 DEF Claimed, UniqueKeys
<1>10. Once(pre2)
  BY <1>1, <1>6 DEF Once
<1>11. InOrder(st, src, q2, pre2, ag2, po)
  <2> SUFFICES ASSUME NEW s \in Sessions, Unready(s, st, q2, pre2)
               PROVE  Untouched(s, st, src, q2, ag2, po)
    BY DEF InOrder
  <2>1. Unready(s, st, q, pre)
    BY <1>4, <1>5 DEF Unready
  <2>2. Untouched(s, st, src, q, ag, po)
    BY <1>2, <2>1 DEF InOrder
  <2>3. \A b \in Agents : ag2[b].event # None /\ ag2[b].event.id = s => ag2[b].at = "leasing"
    BY <1>1, <2>2 DEF Shape, Untouched
  <2> QED BY <1>4, <1>5, <2>2, <2>3 DEF Untouched
<1>12. PostedFirst(st, src, q2, pre2, ag2, po)
  <2>1. ASSUME NEW s \in Sessions, \A e \in po : e.id # s
        PROVE  Blank(s, st, src, q2, pre2, ag2)
    <3>1. Blank(s, st, src, q, pre, ag)
      BY <1>2, <2>1 DEF PostedFirst
    <3>2. \A b \in Agents : ag2[b].event # None => ag2[b].event.id # s
      BY <1>1, <3>1 DEF Shape, Blank
    <3> QED BY <1>4, <1>5, <3>1, <3>2 DEF Blank
  <2> QED BY <1>2, <2>1 DEF PostedFirst
<1>13. Decided(st, q2, ag2)
  <2>1. \A z \in q2 : /\ z.event.type \in Decisions => st[z.event.id].canceled
                      /\ z.event.type = "generate" => ~st[z.event.id].canceled
    BY <1>2, <1>4, <1>5 DEF Decided
  <2>2. \A b \in Agents :
          /\ ag2[b].event # None /\ ag2[b].event.type \in Decisions =>
                ag2[b].event.id \in Sessions /\ st[ag2[b].event.id].canceled
          /\ ag2[b].at \in {"applied", "finishing"} =>
                ag2[b].event # None /\ ag2[b].event.type \in Decisions
    BY <1>1, <1>2, <1>3 DEF Shape, Decided, IsEntry
  <2> QED BY <1>2, <2>1, <2>2 DEF Decided
<1> QED BY <1>1, <1>7, <1>8, <1>9, <1>10, <1>11, <1>12, <1>13 DEF Good, q2

\* leaseEvent, up to its await.
LEMMA LeaseEventGood ==
    ASSUME NEW st, NEW src, NEW q, NEW agents, NEW po, NEW a,
           Good(st, src, q, preflights, agents, po),
           NEW x \in FreeFor(q, a), LeaseEvent(q, x, a, agents)
    PROVE  Good(st, src, queue', preflights', agent', po)
<1>1. x \in q /\ ~x.leased /\ IsEntry(x)
  BY DEF FreeFor, Good, Shape
<1>2. x.event.id # None
  BY <1>1, NoneIsNoEvent DEF IsEntry
<1>3. queue' = Claim(q, x)
  BY <1>2 DEF LeaseEvent
<1>4. preflights' = preflights \cup
          (IF AwaitsPreflight(x.event) THEN {[event |-> x.event, by |-> a]} ELSE {})
  BY DEF LeaseEvent
<1>5. agent' = [agents EXCEPT ![a] =
                    [at |-> IF AwaitsPreflight(x.event) THEN "leasing" ELSE "handling",
                     event |-> x.event]]
  BY DEF LeaseEvent
<1>6. Good(st, src, Claim(q, x), preflights', agent', po)
  BY <1>1, <1>4, <1>5, LeaseGood
<1> QED BY <1>3, <1>6

\* The flush at the end of a handler.
LEMMA FlushGood ==
    ASSUME NEW st, NEW src, NEW q, NEW agents, NEW po,
           Good(st, src, q, preflights, agents, po),
           FlushPendingPolls(q, agents)
    PROVE  Good(st, src, queue', preflights', agent', po)
<1>1. CASE queue' = q /\ agent' = agents /\ preflights' = preflights
  BY <1>1
<1>2. ASSUME NEW i \in DOMAIN parked, NEW x \in Selected(q, parked[i]),
             LeaseEvent(q, x, parked[i], agents)
      PROVE  Good(st, src, queue', preflights', agent', po)
  BY <1>2, LeaseEventGood DEF Selected
<1> QED BY <1>1, <1>2 DEF FlushPendingPolls

-----------------------------------------------------------------------------
(* What the handlers are made of *)

\* An acknowledged or retired event leaves the queue.
LEMMA TakeOutGood ==
    ASSUME NEW st, NEW src, NEW q, NEW pre, NEW ag, NEW po,
           Good(st, src, q, pre, ag, po), NEW q2 \in SUBSET q
    PROVE  Good(st, src, q2, pre, ag, po)
<1>1. Shape(st, q2, pre, ag) /\ OwnPending(st) /\ UniqueKeys(q2) /\ Claimed(q2, pre) /\ Once(pre)
  BY DEF Good, Shape, UniqueKeys, Claimed
<1>2. InOrder(st, src, q2, pre, ag, po)
  BY DEF Good, InOrder, Unready, Untouched
<1>3. PostedFirst(st, src, q2, pre, ag, po)
  BY DEF Good, PostedFirst, Blank
<1>4. Decided(st, q2, ag)
  BY DEF Good, Decided
<1> QED BY <1>1, <1>2, <1>3, <1>4 DEF Good

\* A lease ends.
LEMMA FreeGood ==
    ASSUME NEW st, NEW src, NEW q, NEW pre, NEW ag, NEW po,
           Good(st, src, q, pre, ag, po), NEW x \in q,
           \A p \in pre : Key(p.event) # Key(x.event)
    PROVE  Good(st, src, (q \ {x}) \cup {[x EXCEPT !.leased = FALSE]}, pre, ag, po)
<1> DEFINE y == [x EXCEPT !.leased = FALSE]
           q2 == (q \ {x}) \cup {y}
<1>1. IsEntry(x)
  BY DEF Good, Shape
<1>2. y.event = x.event /\ IsEntry(y)
  BY <1>1, Leasing
<1> HIDE DEF y
<1>3. Shape(st, q2, pre, ag) /\ OwnPending(st) /\ UniqueKeys(q2) /\ Claimed(q2, pre) /\ Once(pre)
  BY <1>2 DEF Good, Shape, UniqueKeys, Claimed
<1>4. InOrder(st, src, q2, pre, ag, po)
  BY <1>2 DEF Good, InOrder, Unready, Untouched
<1>5. PostedFirst(st, src, q2, pre, ag, po)
  BY <1>2 DEF Good, PostedFirst, Blank
<1>6. Decided(st, q2, ag)
  BY <1>2 DEF Good, Decided
<1> QED BY <1>3, <1>4, <1>5, <1>6 DEF Good, y

\* An agent lets go, or goes on with the event it has in hand.
LEMMA AgentGood ==
    ASSUME NEW st, NEW src, NEW q, NEW pre, NEW ag, NEW po,
           Good(st, src, q, pre, ag, po), NEW a \in Agents, NEW v \in Activity,
           \/ v.event = None
           \/ v.event = ag[a].event /\ ag[a].at # "leasing",
           InHand(v),
           v.at \in {"applied", "finishing"} =>
               v.event # None /\ v.event.type \in Decisions
    PROVE  Good(st, src, q, pre, [ag EXCEPT ![a] = v], po)
<1> DEFINE ag2 == [ag EXCEPT ![a] = v]
<1>1. ag \in [Agents -> Activity]
  BY DEF Good, Shape
<1>2. ag2 \in [Agents -> Activity] /\ ag2[a] = v /\ \A b \in Agents \ {a} : ag2[b] = ag[b]
  BY <1>1
<1> HIDE DEF ag2
<1>3. Shape(st, q, pre, ag2)
  BY <1>2 DEF Good, Shape
<1>4. InOrder(st, src, q, pre, ag2, po)
  <2> SUFFICES ASSUME NEW s \in Sessions, Unready(s, st, q, pre)
               PROVE  Untouched(s, st, src, q, ag2, po)
    BY DEF InOrder
  <2>1. Untouched(s, st, src, q, ag, po)
    BY DEF Good, InOrder
  <2> QED BY <1>2, <2>1 DEF Untouched
<1>5. PostedFirst(st, src, q, pre, ag2, po)
  BY <1>2 DEF Good, PostedFirst, Blank
<1>6. Decided(st, q, ag2)
  BY <1>2 DEF Good, Decided
<1> QED BY <1>3, <1>4, <1>5, <1>6 DEF Good, ag2

\* The journal takes in an event of a session.  What it owes then is as before,
\* nothing, or no generation; a decision fences the generation off.
LEMMA StoreGood ==
    ASSUME NEW st, NEW src, NEW q, NEW pre, NEW ag, NEW po,
           Good(st, src, q, pre, ag, po), NEW s \in Sessions, NEW n \in Snapshot,
           \E e \in po : e.id = s,
           \/ n.pending \in {None, st[s].pending}
           \/ n.pending.id = s /\ n.pending.type # "generate",
           n.pending # None /\ n.pending.type \in Decisions => n.canceled,
           n.phase \in FencedPhases => n.canceled,
           st[s].canceled => n.canceled,
           n.canceled => /\ n.pending = None \/ n.pending.type # "generate"
                         /\ \A x \in q : x.event.id = s => x.event.type # "generate",
           \/ ~Unready(s, st, q, pre)
           \/ /\ n.pending = st[s].pending /\ n.completedAt = st[s].completedAt
              /\ n.canceled = st[s].canceled
    PROVE  Good([st EXCEPT ![s] = n], src, q, pre, ag, po)
<1> DEFINE st2 == [st EXCEPT ![s] = n]
<1>1. st \in [Sessions -> Snapshot]
  BY DEF Good, Shape
<1>2. st2 \in [Sessions -> Snapshot] /\ st2[s] = n /\ \A t \in Sessions \ {s} : st2[t] = st[t]
  BY <1>1
<1> HIDE DEF st2
<1>3. Shape(st2, q, pre, ag)
  BY <1>2 DEF Good, Shape
<1>4. OwnPending(st2)
  BY <1>2 DEF Good, OwnPending
<1>5. InOrder(st2, src, q, pre, ag, po)
  <2> SUFFICES ASSUME NEW t \in Sessions, Unready(t, st2, q, pre)
               PROVE  Untouched(t, st2, src, q, ag, po)
    BY DEF InOrder
  <2>1. Unready(t, st, q, pre)
    BY <1>2 DEF Unready, AwaitsPreflight
  <2>2. Untouched(t, st, src, q, ag, po)
    BY <2>1 DEF Good, InOrder
  <2> QED BY <1>2, <2>1, <2>2 DEF Untouched
<1>6. PostedFirst(st2, src, q, pre, ag, po)
  BY <1>2 DEF Good, PostedFirst, Blank
<1>7. Decided(st2, q, ag)
  BY <1>2 DEF Good, Decided, Shape, IsEntry
<1> QED BY <1>3, <1>4, <1>5, <1>6, <1>7 DEF Good, st2

\* Variants are written, or taken out of the source.
LEMMA SourceGood ==
    ASSUME NEW st, NEW src, NEW q, NEW pre, NEW ag, NEW po,
           Good(st, src, q, pre, ag, po), NEW src2 \in SUBSET Sessions,
           \A s \in src2 \ src : ~Unready(s, st, q, pre) /\ \E e \in po : e.id = s
    PROVE  Good(st, src2, q, pre, ag, po)
<1>1. InOrder(st, src2, q, pre, ag, po)
  BY DEF Good, InOrder, Untouched
<1>2. PostedFirst(st, src2, q, pre, ag, po)
  BY DEF Good, PostedFirst, Blank
<1> QED BY <1>1, <1>2 DEF Good

\* A page posts an event of a session that is there.
LEMMA PostGood ==
    ASSUME NEW st, NEW src, NEW q, NEW pre, NEW ag, NEW po,
           Good(st, src, q, pre, ag, po), NEW e,
           e.id \in Sessions, ~Unready(e.id, st, q, pre),
           e.id \in Steers \/ \E f \in po : f.id = e.id
    PROVE  Good(st, src, q, pre, ag, po \cup {e})
<1>1. InOrder(st, src, q, pre, ag, po \cup {e})
  BY DEF Good, InOrder, Untouched
<1>2. PostedFirst(st, src, q, pre, ag, po \cup {e})
  BY DEF Good, PostedFirst
<1> QED BY <1>1, <1>2 DEF Good

\* The queue takes in an event of a session.
LEMMA EnqueueGood ==
    ASSUME NEW st, NEW src, NEW q, NEW pre, NEW ag, NEW po,
           Good(st, src, q, pre, ag, po), NEW e \in Event,
           e.id \in Sessions, \E f \in po : f.id = e.id,
           \A p \in pre : Key(p.event) # Key(e),
           IF AwaitsPreflight(e) THEN Untouched(e.id, st, src, q, ag, po)
           ELSE ~Unready(e.id, st, q, pre),
           e.type \in Decisions => st[e.id].canceled,
           e.type = "generate" => ~st[e.id].canceled
    PROVE  Good(st, src, Enqueue(q, e), pre, ag, po)
<1>1. CASE Enqueue(q, e) = q
  BY <1>1
<1>2. CASE Enqueue(q, e) # q
  <2> DEFINE y == [event |-> e, leased |-> FALSE, seq |-> NextSeq(q)]
             q2 == q \cup {y}
  <2>1. Enqueue(q, e) = q2 /\ ~Queued(q, e)
    BY <1>2, NoneIsNoEvent DEF Enqueue
  <2>2. y.event = e /\ ~y.leased /\ IsEntry(y)
    BY DEF IsEntry
  <2> HIDE DEF y
  <2>3. Shape(st, q2, pre, ag) /\ OwnPending(st) /\ UniqueKeys(q2) /\ Claimed(q2, pre) /\ Once(pre)
    BY <2>1, <2>2 DEF Good, Shape, UniqueKeys, Claimed, Queued
  <2>4. InOrder(st, src, q2, pre, ag, po)
    BY <2>2 DEF Good, InOrder, Unready, Untouched
  <2>5. PostedFirst(st, src, q2, pre, ag, po)
    BY <2>2 DEF Good, PostedFirst, Blank
  <2>6. Decided(st, q2, ag)
    BY <2>2 DEF Good, Decided
  <2> QED BY <2>1, <2>3, <2>4, <2>5, <2>6 DEF Good
<1> QED BY <1>1, <1>2

-----------------------------------------------------------------------------
(* Pages *)

\* What is known of a session that has variants, a snapshot or an event.
LEMMA Known ==
    ASSUME IInv, NEW s \in Sessions,
           s \in source \/ Exists(store[s]) \/ \E x \in queue : x.event.id = s
    PROVE  \E f \in posted : f.id = s
BY DEF IInv, Good, PostedFirst, Blank, Exists, BaseSnapshot

\* A session with variants is past its preflight.
LEMMA PublishedIsReady ==
    ASSUME IInv, NEW s \in Sessions, s \in source \/ store[s].completedAt
    PROVE  ~Unready(s, store, queue, preflights)
BY DEF IInv, Good, InOrder, Untouched

\* POST /events, generate: nothing of the session is there yet.
LEMMA OpenGenerateGood ==
    ASSUME IInv, NEW s \in Sessions \ Steers, Open(Plain(s, "generate")),
           Fresh(Plain(s, "generate"))
    PROVE  IInv'
<1> DEFINE e == Plain(s, "generate")
           n == ApplyGenerate(store[s], e)
           po == posted \cup {e}
<1>1. e \in Event /\ e.id = s /\ e.type = "generate" /\ AwaitsPreflight(e)
  BY DEF Plain, Event, EventTypes, AwaitsPreflight
<1>2. \A f \in posted : f.id # s
  BY DEF IInv, Good, PostedFirst, Fresh
<1>3. Blank(s, store, source, queue, preflights, agent)
  BY <1>2 DEF IInv, Good, PostedFirst
<1>4. /\ n \in Snapshot /\ n.pending = e /\ ~n.canceled /\ ~n.completedAt
      /\ n.phase \notin FencedPhases
  <2>1. /\ n \in Snapshot /\ n.pending = e /\ n.canceled = store[s].canceled
        /\ n.completedAt = store[s].completedAt /\ n.phase \notin FencedPhases
    BY <1>1 DEF IInv, Good, Shape, ApplyGenerate, Snapshot, Phases, FencedPhases, CompletedPhases
  <2>2. ~store[s].canceled /\ ~store[s].completedAt
    BY <1>3 DEF Blank, BaseSnapshot
  <2> QED BY <2>1, <2>2
<1> DEFINE st == [store EXCEPT ![s] = n]
<1>5. store \in [Sessions -> Snapshot]
  BY DEF IInv, Good, Shape
<1>6. store' = st /\ posted' = po /\ source' = source
  BY <1>1 DEF Open, Post
<1>7. st \in [Sessions -> Snapshot] /\ st[s] = n /\ \A t \in Sessions \ {s} : st[t] = store[t]
  BY <1>4, <1>5
<1> HIDE DEF e, n, st
<1>8. Untouched(s, st, source, queue, agent, po)
  BY <1>1, <1>2, <1>3, <1>4, <1>7 DEF Untouched, Blank
<1>9. Good(st, source, queue, preflights, agent, po)
  <2>1. Shape(st, queue, preflights, agent) /\ OwnPending(st)
    BY <1>1, <1>4, <1>7 DEF IInv, Good, Shape, OwnPending
  <2>2. InOrder(st, source, queue, preflights, agent, po)
    <3> SUFFICES ASSUME NEW t \in Sessions, t # s, Unready(t, st, queue, preflights)
                 PROVE  Untouched(t, st, source, queue, agent, po)
      BY <1>8 DEF InOrder
    <3>1. Untouched(t, store, source, queue, agent, posted)
      BY <1>7 DEF IInv, Good, InOrder, Unready
    <3> QED BY <1>1, <1>7, <3>1 DEF Untouched
  <2>3. PostedFirst(st, source, queue, preflights, agent, po)
    BY <1>1, <1>7 DEF IInv, Good, PostedFirst, Blank, e
  <2>4. Decided(st, queue, agent)
    BY <1>1, <1>2, <1>3, <1>4, <1>7 DEF IInv, Good, Decided, Blank, Decisions, Shape, IsEntry
  <2> QED BY <2>1, <2>2, <2>3, <2>4 DEF IInv, Good
<1>10. \A p \in preflights : Key(p.event) # Key(e)
  BY <1>1, <1>3, KeyFacts DEF Blank, IInv, Good, Shape, IsCall
<1>11. Good(st, source, Enqueue(queue, e), preflights, agent, po)
  BY <1>1, <1>4, <1>7, <1>8, <1>9, <1>10, EnqueueGood DEF Decisions
<1>12. FlushPendingPolls(Enqueue(queue, e), agent)
  BY DEF Open, e
<1> QED BY <1>6, <1>11, <1>12, FlushGood DEF IInv

\* POST /events, steer: a session that never has a generation.
LEMMA OpenSteerGood ==
    ASSUME IInv, NEW s \in Steers, Open(Plain(s, "steer"))
    PROVE  IInv'
<1> DEFINE e == Plain(s, "steer")
           n == ApplySteer(store[s], e)
           po == posted \cup {e}
           st == [store EXCEPT ![s] = n]
<1>1. e \in Event /\ e.id = s /\ e.type = "steer" /\ ~AwaitsPreflight(e) /\ s \in Sessions
  BY ServerAssumption DEF Plain, Event, EventTypes, AwaitsPreflight
<1>2. ~Unready(s, store, queue, preflights)
  BY <1>1 DEF IInv, Good, InOrder, Untouched
<1>3. store' = st /\ posted' = po /\ source' = source
  BY <1>1 DEF Open, Post
<1>4. /\ n \in Snapshot /\ n.pending = e /\ n.canceled = store[s].canceled
      /\ n.phase \notin FencedPhases
  BY <1>1 DEF IInv, Good, Shape, ApplySteer, Snapshot, Phases, FencedPhases, CompletedPhases
<1> HIDE DEF e, n
<1>5. Good(store, source, queue, preflights, agent, po)
  BY <1>1, <1>2, PostGood DEF IInv
<1>6. n.canceled => \A x \in queue : x.event.id = s => x.event.type # "generate"
  BY <1>4 DEF IInv, Good, Decided
<1>7. Good(st, source, queue, preflights, agent, po)
  BY <1>1, <1>2, <1>4, <1>5, <1>6, StoreGood DEF Decisions
<1>8. ~Unready(s, st, queue, preflights)
  BY <1>1, <1>2, <1>4 DEF Unready, AwaitsPreflight, IInv, Good, Shape
<1>9. \A p \in preflights : Key(p.event) # Key(e)
  BY <1>1, KeyFacts DEF IInv, Good, Shape, IsCall, AwaitsPreflight
<1>10. Good(st, source, Enqueue(queue, e), preflights, agent, po)
  BY <1>1, <1>7, <1>8, <1>9, EnqueueGood DEF Decisions
<1>11. FlushPendingPolls(Enqueue(queue, e), agent)
  BY DEF Open, e
<1> QED BY <1>3, <1>10, <1>11, FlushGood DEF IInv

\* POST /events, accept and discard: the generation is retired, then the
\* decision is journaled and queued.
LEMMA DecideGood ==
    ASSUME IInv, NEW e \in Event, e.id \in source, e.id \in Sessions, e.type \in Decisions,
           Decide(e)
    PROVE  IInv'
<1> DEFINE s == e.id
           n == ApplyDecision(store[s], e)
           po == posted \cup {e}
           st == [store EXCEPT ![s] = n]
           q == Retired(queue, s)
<1>1. ~Unready(s, store, queue, preflights) /\ \E f \in posted : f.id = s
  BY PublishedIsReady, Known
<1>2. e.type # "generate" /\ ~AwaitsPreflight(e)
  BY DEF Decisions, AwaitsPreflight
<1>3. store' = st /\ posted' = po /\ source' = source
  BY DEF Decide, Post
<1>4. n \in Snapshot /\ n.pending = e /\ n.canceled
  BY DEF IInv, Good, Shape, ApplyDecision, Snapshot, Phases, FencedPhases
<1>5. q \subseteq queue /\ \A x \in q : x.event.id = s => x.event.type # "generate"
  BY DEF Retired
<1> HIDE DEF n, q
<1>6. Good(store, source, queue, preflights, agent, po)
  BY <1>1, PostGood DEF IInv
<1>7. Good(store, source, q, preflights, agent, po)
  BY <1>5, <1>6, TakeOutGood
<1>8. ~Unready(s, store, q, preflights)
  BY <1>1, <1>5 DEF Unready
<1>9. Good(st, source, q, preflights, agent, po)
  BY <1>2, <1>4, <1>5, <1>7, <1>8, StoreGood
<1>10. ~Unready(s, st, q, preflights)
  BY <1>2, <1>4, <1>8 DEF Unready, IInv, Good, Shape
<1>11. \A p \in preflights : Key(p.event) # Key(e)
  BY <1>2, KeyFacts DEF IInv, Good, Shape, IsCall, AwaitsPreflight
<1>12. st[s].canceled
  BY <1>4 DEF IInv, Good, Shape
<1>13. Good(st, source, Enqueue(q, e), preflights, agent, po)
  BY <1>2, <1>9, <1>10, <1>11, <1>12, EnqueueGood
<1>14. FlushPendingPolls(Enqueue(q, e), agent)
  BY DEF Decide, q
<1> QED BY <1>3, <1>13, <1>14, FlushGood DEF IInv

\* POST /events, a discard nobody has to carry out.
LEMMA DiscardOrphanedGood ==
    ASSUME IInv, NEW s \in Sessions, store[s].completedAt, DiscardOrphaned(s)
    PROVE  IInv'
<1> DEFINE d == ApplyDecision(store[s], Plain(s, "discard"))
           n == ApplyDiscarded(d)
           st == [store EXCEPT ![s] = n]
           q == Retired(queue, s)
<1>1. ~Unready(s, store, queue, preflights) /\ \E f \in posted : f.id = s
  BY PublishedIsReady, Known DEF DiscardOrphaned
<1>2. Plain(s, "discard") \in Event
  BY DEF Plain, Event, EventTypes
<1>3. d \in Snapshot /\ d.canceled
  BY <1>2 DEF IInv, Good, Shape, ApplyDecision, Snapshot, Phases, FencedPhases
<1> HIDE DEF d
<1>4. n \in Snapshot /\ n.pending = None /\ n.canceled
  BY <1>3 DEF ApplyDiscarded, Snapshot, Phases, FencedPhases, CompletedPhases
<1>5. q \subseteq queue /\ \A x \in q : x.event.id = s => x.event.type # "generate"
  BY DEF Retired
<1> HIDE DEF n, q
<1>6. Good(store, source, q, preflights, agent, posted)
  BY <1>5, TakeOutGood DEF IInv
<1>7. ~Unready(s, store, q, preflights)
  BY <1>1, <1>5 DEF Unready
<1>8. Good(st, source, q, preflights, agent, posted)
  BY <1>1, <1>4, <1>5, <1>6, <1>7, StoreGood
<1> QED BY <1>8 DEF DiscardOrphaned, IInv, st, n, d, q

\* POST /events, checkpoint: the phase moves, what is owed does not.
LEMMA CheckpointGood ==
    ASSUME IInv, NEW s \in Sessions, NEW phase \in BrowserPhases, NEW r \in 0 .. MaxRevision,
           Checkpoint(s, phase, r)
    PROVE  IInv'
<1> DEFINE n == ApplyCheckpoint(store[s], phase, r)
<1>1. \E f \in posted : f.id = s
  BY Known DEF Checkpoint
<1>2. /\ n \in Snapshot /\ n.pending = store[s].pending
      /\ n.canceled = store[s].canceled /\ n.completedAt = store[s].completedAt
      /\ n.phase \in FencedPhases => n.phase = store[s].phase
  <2> DEFINE m == [store[s] EXCEPT !.phase = phase, !.revision = r]
  <2>1. n = m \/ n = store[s]
    BY DEF ApplyCheckpoint
  <2>2. store[s] \in Snapshot
    BY DEF IInv, Good, Shape
  <2>3. phase \in Phases \ FencedPhases /\ r \in 0 .. MaxRevision
    BY StoreAssumption DEF Phases, BrowserPhases, FencedPhases, CompletedPhases
  <2>4. /\ m \in Snapshot /\ m.pending = store[s].pending /\ m.canceled = store[s].canceled
        /\ m.completedAt = store[s].completedAt /\ m.phase \notin FencedPhases
    BY <2>2, <2>3 DEF Snapshot
  <2> QED BY <2>1, <2>2, <2>4
<1> HIDE DEF n
<1>3. /\ n.phase \in FencedPhases => n.canceled
      /\ n.pending # None /\ n.pending.type \in Decisions => n.canceled
      /\ n.canceled => n.pending = None \/ n.pending.type # "generate"
      /\ n.canceled => \A x \in queue : x.event.id = s => x.event.type # "generate"
  BY <1>2 DEF IInv, Good, Decided
<1>4. Good([store EXCEPT ![s] = n], source, queue, preflights, agent, posted)
  BY <1>1, <1>2, <1>3, StoreGood DEF IInv
<1> QED BY <1>4 DEF Checkpoint, IInv, leases, n

\* POST /events, variant_mount_failed.
LEMMA MountFailedGood ==
    ASSUME IInv, NEW s \in source, s \in Sessions, NEW v \in Variants,
           VariantMountFailed(OfVariant(s, "variant_mount_failed", v))
    PROVE  IInv'
<1> DEFINE e == OfVariant(s, "variant_mount_failed", v)
           n == ApplyMountFailed(store[s], e)
           po == posted \cup {e}
           st == [store EXCEPT ![s] = n]
<1>1. e \in Event /\ e.id = s /\ e.type = "variant_mount_failed" /\ ~AwaitsPreflight(e)
  BY DEF OfVariant, Plain, Event, EventTypes, AwaitsPreflight
<1>2. ~Unready(s, store, queue, preflights) /\ \E f \in posted : f.id = s
  BY PublishedIsReady, Known
<1>3. store' = st /\ posted' = po /\ source' = source
  BY <1>1 DEF VariantMountFailed, Post
<1>4. /\ n \in Snapshot /\ n.pending \in {store[s].pending, e}
      /\ n.canceled = store[s].canceled /\ n.phase = store[s].phase
  BY <1>1 DEF IInv, Good, Shape, ApplyMountFailed, Snapshot
<1> HIDE DEF e, n
<1>5. Good(store, source, queue, preflights, agent, po)
  BY <1>1, <1>2, PostGood DEF IInv
<1>6. /\ n.phase \in FencedPhases => n.canceled
      /\ n.pending # None /\ n.pending.type \in Decisions => n.canceled
      /\ n.canceled => n.pending = None \/ n.pending.type # "generate"
      /\ n.canceled => \A x \in queue : x.event.id = s => x.event.type # "generate"
  BY <1>1, <1>4 DEF IInv, Good, Decided, Decisions
<1>7. Good(st, source, queue, preflights, agent, po)
  BY <1>1, <1>2, <1>4, <1>5, <1>6, StoreGood
<1>8. ~Unready(s, st, queue, preflights)
  BY <1>1, <1>2, <1>4 DEF Unready, IInv, Good, Shape
<1>9. \A p \in preflights : Key(p.event) # Key(e)
  BY <1>1, KeyFacts DEF IInv, Good, Shape, IsCall, AwaitsPreflight
<1>10. Good(st, source, Enqueue(queue, e), preflights, agent, po)
  BY <1>1, <1>7, <1>8, <1>9, EnqueueGood DEF Decisions
<1>11. FlushPendingPolls(Enqueue(queue, e), agent)
  BY DEF VariantMountFailed, e
<1> QED BY <1>3, <1>10, <1>11, FlushGood DEF IInv

-----------------------------------------------------------------------------
(* Agents *)

\* An agent with an event in hand works on a session that is past its preflight.
LEMMA Working ==
    ASSUME IInv, NEW a \in Agents, agent[a].at \notin {"idle", "parked", "leasing"}
    PROVE  /\ agent[a].event # None /\ agent[a].event.id \in Sessions
           /\ ~Unready(agent[a].event.id, store, queue, preflights)
           /\ \E f \in posted : f.id = agent[a].event.id
<1>1. agent[a].event # None /\ agent[a].event.id \in Sessions
  BY DEF IInv, Good, Shape, InHand
<1>2. ~Unready(agent[a].event.id, store, queue, preflights)
  BY <1>1 DEF IInv, Good, InOrder, Untouched
<1>3. \E f \in posted : f.id = agent[a].event.id
  BY <1>1 DEF IInv, Good, PostedFirst, Blank
<1> QED BY <1>1, <1>2, <1>3

\* GET /poll: an event at once, or a parked poll.
LEMMA PollGood ==
    ASSUME IInv, NEW a \in Agents, Poll(a)
    PROVE  IInv'
<1>1. ASSUME NEW x \in Selected(queue, a), LeaseEvent(queue, x, a, agent)
      PROVE  Good(store, source, queue', preflights', agent', posted)
  BY <1>1, LeaseEventGood DEF Selected, IInv
<1>2. UNCHANGED <<store, source, posted>>
  BY DEF Poll
<1>3. CASE agent' = [agent EXCEPT ![a].at = "parked"] /\ UNCHANGED <<queue, preflights>>
  <2> DEFINE v == [agent[a] EXCEPT !.at = "parked"]
  <2>1. v \in Activity /\ v.event = agent[a].event /\ v.at = "parked"
    BY DEF IInv, Good, Shape, Activity
  <2>2. agent' = [agent EXCEPT ![a] = v]
    BY <1>3
  <2>3. agent[a].at # "leasing"
    BY DEF Poll
  <2> HIDE DEF v
  <2>4. Good(store, source, queue, preflights, [agent EXCEPT ![a] = v], posted)
    BY <2>1, <2>3, AgentGood DEF IInv, InHand
  <2> QED BY <1>2, <1>3, <2>2, <2>4 DEF IInv
<1>4. CASE FreeFor(queue, a) # {}
  BY <1>1, <1>2, <1>4 DEF Poll, IInv
<1>5. CASE FreeFor(queue, a) = {}
  BY <1>3, <1>5 DEF Poll
<1> QED BY <1>4, <1>5

\* The timeout of a poll, or its client gone.
LEMMA PollEndsGood ==
    ASSUME IInv, NEW a \in Agents, PollEnds(a)
    PROVE  IInv'
<1>1. Idle \in Activity /\ Idle.event = None /\ Idle.at = "idle" /\ InHand(Idle)
  BY DEF Idle, Activity, InHand
<1>2. Good(store, source, queue, preflights, [agent EXCEPT ![a] = Idle], posted)
  BY <1>1, AgentGood DEF IInv
<1> QED BY <1>2 DEF PollEnds, IInv

\* The rest of leaseEvent after its await: nothing has happened to the session
\* meanwhile, so what is journaled again is the generation it still wants.
LEMMA LeaseSettlesGood ==
    ASSUME IInv, NEW p \in preflights, LeaseSettles(p)
    PROVE  IInv'
<1> DEFINE e == [p.event EXCEPT !.ready = TRUE]
           s == p.event.id
           n == ApplyGenerate(store[s], e)
           E(x) == [event |-> e, leased |-> TRUE, seq |-> x.seq]
           ag == [agent EXCEPT ![p.by] = [at |-> "handling", event |-> e]]
<1>1. IsCall(p) /\ s \in Sessions
  BY DEF IInv, Good, Shape, IsCall
<1>2. /\ e \in Event /\ e.id = s /\ e.type = "generate" /\ ~AwaitsPreflight(e)
      /\ Key(e) = Key(p.event) /\ e # None
  BY <1>1, NoneIsNoEvent DEF IsCall, Event, EventTypes, AwaitsPreflight, Key
<1>3. Unready(s, store, queue, preflights)
  BY DEF Unready
<1>4. Untouched(s, store, source, queue, agent, posted)
  BY <1>1, <1>3 DEF IInv, Good, InOrder
<1>5. store' = [store EXCEPT ![s] = n] /\ posted' = posted /\ source' = source
  BY <1>2 DEF LeaseSettles
<1>6. /\ n \in Snapshot /\ n.pending = e /\ ~n.canceled /\ n.phase \notin FencedPhases
  <2>1. /\ n \in Snapshot /\ n.pending = e /\ n.canceled = store[s].canceled
        /\ n.phase \notin FencedPhases
    BY <1>1, <1>2 DEF IInv, Good, Shape, ApplyGenerate, Snapshot, Phases, FencedPhases,
                      CompletedPhases
  <2> QED BY <1>4, <2>1 DEF Untouched
<1>7. \A x \in queue : IsEntry(E(x)) /\ E(x).event = e /\ E(x).leased = TRUE
  BY <1>1, <1>2 DEF IsEntry
<1>8. queue' = {IF Key(x.event) = Key(e) THEN E(x) ELSE x : x \in queue}
  BY DEF LeaseSettles
<1>9. preflights' = preflights \ {p} /\ agent' \in {agent, ag}
  BY DEF LeaseSettles
<1> HIDE DEF e, n, E, s
<1>10. \A y \in queue' :
          /\ IsEntry(y)
          /\ \/ y \in queue /\ Key(y.event) # Key(e)
             \/ y.event = e /\ y.leased = TRUE
  <2> TAKE y \in queue'
  <2>1. PICK x \in queue : y = IF Key(x.event) = Key(e) THEN E(x) ELSE x
    BY <1>8
  <2>2. CASE Key(x.event) = Key(e)
    BY <1>7, <2>1, <2>2
  <2>3. CASE Key(x.event) # Key(e)
    <3>1. y = x
      BY <2>1, <2>3
    <3> QED BY <2>3, <3>1 DEF IInv, Good, Shape
  <2> QED BY <2>2, <2>3
<1>11. store' \in [Sessions -> Snapshot] /\ store'[s] = n
       /\ \A t \in Sessions \ {s} : store'[t] = store[t]
  BY <1>1, <1>5, <1>6 DEF IInv, Good, Shape
<1>12. \A t \in Sessions \ {s} : Unready(t, store', queue', preflights') =>
                                 Unready(t, store, queue, preflights)
  BY <1>2, <1>9, <1>10, <1>11 DEF Unready
<1>13. ~Unready(s, store', queue', preflights')
  <2>1. \A r \in preflights' : r.event.id # s
    BY <1>1, <1>9, GenerateKeys DEF IInv, Good, Once, Shape, IsCall, AwaitsPreflight, s
  <2>2. \A y \in queue' : y.event.id = s => ~AwaitsPreflight(y.event)
    BY <1>2, <1>10, GenerateKeys DEF AwaitsPreflight, IsEntry
  <2> QED BY <1>2, <1>6, <1>11, <2>1, <2>2 DEF Unready
<1>14. agent' \in [Agents -> Activity] /\ \A a \in Agents :
          agent'[a] = agent[a] \/ agent'[a] = [at |-> "handling", event |-> e]
  BY <1>2, <1>9 DEF IInv, Good, Shape, Activity
<1>15. Shape(store', queue', preflights', agent')
  BY <1>1, <1>2, <1>9, <1>10, <1>11, <1>14 DEF IInv, Good, Shape, InHand
<1>16. OwnPending(store')
  BY <1>2, <1>6, <1>11 DEF IInv, Good, OwnPending
<1>17. UniqueKeys(queue')
  <2> SUFFICES ASSUME NEW x \in queue, NEW y \in queue,
                      Key((IF Key(x.event) = Key(e) THEN E(x) ELSE x).event) =
                      Key((IF Key(y.event) = Key(e) THEN E(y) ELSE y).event)
               PROVE  x = y
    BY <1>8 DEF UniqueKeys
  <2> QED BY <1>7 DEF IInv, Good, UniqueKeys
<1>18. Claimed(queue', preflights') /\ Once(preflights')
  BY <1>9, <1>10 DEF IInv, Good, Claimed, Once
<1>19. InOrder(store', source', queue', preflights', agent', posted')
  <2> SUFFICES ASSUME NEW t \in Sessions, t # s, Unready(t, store', queue', preflights')
               PROVE  Untouched(t, store', source', queue', agent', posted')
    BY <1>13 DEF InOrder
  <2>1. Untouched(t, store, source, queue, agent, posted)
    BY <1>12 DEF IInv, Good, InOrder
  <2> QED BY <1>2, <1>5, <1>10, <1>11, <1>14, <2>1 DEF Untouched
<1>20. PostedFirst(store', source', queue', preflights', agent', posted')
  <2>1. \E f \in posted : f.id = s
    BY <1>1 DEF IInv, Good, PostedFirst, Blank, s
  <2> QED BY <1>2, <1>5, <1>9, <1>10, <1>11, <1>14, <2>1 DEF IInv, Good, PostedFirst, Blank
<1>21. Decided(store', queue', agent')
  BY <1>2, <1>4, <1>6, <1>10, <1>11, <1>14 DEF IInv, Good, Decided, Untouched, Decisions, IsEntry
<1> QED BY <1>15, <1>16, <1>17, <1>18, <1>19, <1>20, <1>21 DEF IInv, Good

\* A poll loop between two polls.
LEMMA IdleFacts == Idle \in Activity /\ Idle.event = None /\ Idle.at = "idle" /\ InHand(Idle)
BY DEF Idle, Activity, InHand

\* leaseEvent throws: the claim stays, so the timer offers the event again.
LEMMA LeaseFailsGood ==
    ASSUME IInv, NEW p \in preflights, LeaseFails(p)
    PROVE  IInv'
<1>1. Good(store, source, queue, preflights', agent, posted)
  <2>1. preflights' \subseteq preflights
    BY DEF LeaseFails
  <2>2. InOrder(store, source, queue, preflights', agent, posted)
    BY <2>1 DEF IInv, Good, InOrder, Unready
  <2>3. PostedFirst(store, source, queue, preflights', agent, posted)
    BY <2>1 DEF IInv, Good, PostedFirst, Blank
  <2>4. Shape(store, queue, preflights', agent) /\ Claimed(queue, preflights') /\ Once(preflights')
    BY <2>1 DEF IInv, Good, Shape, Claimed, Once
  <2> QED BY <2>2, <2>3, <2>4 DEF IInv, Good
<1>2. CASE p.by \in Agents
  BY <1>1, <1>2, IdleFacts, AgentGood, ServerAssumption DEF LeaseFails, Released, IInv
<1>3. CASE p.by \notin Agents
  <2>1. agent' = agent
    BY <1>3 DEF LeaseFails, Released, IInv, Good, Shape
  <2> QED BY <1>1, <2>1 DEF LeaseFails, IInv
<1> QED BY <1>2, <1>3

\* The lease timer, which passes over what is under preflight.
LEMMA LeaseExpiresGood ==
    ASSUME IInv, NEW x \in queue, LeaseExpires(x)
    PROVE  IInv'
<1> DEFINE q == (queue \ {x}) \cup {[x EXCEPT !.leased = FALSE]}
<1>1. \A p \in preflights : Key(p.event) # Key(x.event)
  BY DEF LeaseExpires, Preflighted
<1>2. Good(store, source, q, preflights, agent, posted)
  BY <1>1, FreeGood DEF IInv
<1>3. FlushPendingPolls(q, agent) /\ UNCHANGED <<store, source, posted>>
  BY DEF LeaseExpires
<1> HIDE DEF q
<1> QED BY <1>2, <1>3, FlushGood DEF IInv

\* What an agent may answer to the event it has in hand.
LEMMA AnswersFacts ==
    ASSUME NEW a \in Agents, NEW r \in Answers(a)
    PROVE  /\ r.type \in {"complete", "discarded"} \/ r.carbonize =>
                  agent[a].event.type \in Decisions
           /\ r.type = "agent_done" => agent[a].event.type \in Decisions
           /\ r.type \in {"done", "error", "steer_done", "agent_done", "complete", "discarded"}
BY DEF Answers, Answer, Decisions

\* What a reply journals.
LEMMA JournaledFacts ==
    ASSUME NEW snap \in Snapshot, NEW r, NEW acked,
           r.type \in {"complete", "discarded"} \/ r.carbonize => snap.canceled
    PROVE  LET n == Journaled(snap, r, acked) IN
           /\ n \in Snapshot /\ n.pending \in {None, snap.pending}
           /\ n.canceled = snap.canceled
           /\ n.phase \in FencedPhases => n.canceled \/ n.phase = snap.phase
<1>1. /\ {"steer_done", "discarded", "completed", "agent_error", "variants_ready",
            "carbonize_required"} \subseteq Phases
      /\ {"steer_done", "agent_error", "variants_ready"} \cap FencedPhases = {}
  BY DEF Phases, FencedPhases, CompletedPhases
<1> DEFINE Kept(n) == /\ n \in Snapshot /\ n.pending \in {None, snap.pending}
                      /\ n.canceled = snap.canceled
                      /\ n.phase \in FencedPhases => n.canceled \/ n.phase = snap.phase
<1>2. Kept(ApplySteerDone(snap)) /\ \A t : Kept(ApplyAgentError(snap, t))
  BY <1>1 DEF ApplySteerDone, ApplyAgentError, Snapshot
<1>3. snap.canceled => Kept(ApplyDiscarded(snap)) /\ Kept(ApplyComplete(snap))
  BY <1>1 DEF ApplyDiscarded, ApplyComplete, Snapshot
<1>4. Kept(ApplyAgentDone(snap, r.carbonize))
  BY <1>1 DEF ApplyAgentDone, Snapshot
<1> QED BY <1>2, <1>3, <1>4 DEF Journaled

\* handlePollPost: journaled, acknowledged, and then the flush.
LEMMA HandleReplyGood ==
    ASSUME IInv, NEW a \in Agents, NEW r, NEW v \in Activity,
           agent[a].at \notin {"idle", "parked", "leasing"},
           v.event \in {None, agent[a].event}, InHand(v),
           v.at \in {"applied", "finishing"} => v.event # None /\ v.event.type \in Decisions,
           r.type \in {"complete", "discarded"} \/ r.carbonize =>
               agent[a].event.type \in Decisions,
           HandleReply(agent[a].event.id, r, [agent EXCEPT ![a] = v])
    PROVE  IInv'
<1> DEFINE s == agent[a].event.id
           acked == Acked(s, r)
           n == Journaled(store[s], r, acked)
           q == queue \ acked
           ag == [agent EXCEPT ![a] = v]
<1>1. /\ agent[a].event # None /\ s \in Sessions
      /\ ~Unready(s, store, queue, preflights) /\ \E f \in posted : f.id = s
  BY Working
<1>2. store[s] \in Snapshot /\ (store[s].phase \in FencedPhases => store[s].canceled)
  BY <1>1 DEF IInv, Good, Shape, Decided
<1>3. r.type \in {"complete", "discarded"} \/ r.carbonize => store[s].canceled
  BY <1>1 DEF IInv, Good, Decided
<1>4. /\ n \in Snapshot /\ n.pending \in {None, store[s].pending}
      /\ n.canceled = store[s].canceled
      /\ n.phase \in FencedPhases => n.canceled
  BY <1>2, <1>3, JournaledFacts
<1> HIDE DEF n
<1>5. Good([store EXCEPT ![s] = n], source, queue, preflights, agent, posted)
  <2>1. /\ n.pending # None /\ n.pending.type \in Decisions => n.canceled
        /\ n.canceled => n.pending = None \/ n.pending.type # "generate"
        /\ n.canceled => \A x \in queue : x.event.id = s => x.event.type # "generate"
    BY <1>1, <1>4 DEF IInv, Good, Decided
  <2> QED BY <1>1, <1>2, <1>4, <2>1, StoreGood DEF IInv
<1>6. store' \in {store, [store EXCEPT ![s] = n]} /\ UNCHANGED <<source, posted>>
  BY DEF HandleReply, n
<1>7. Good(store', source, queue, preflights, agent, posted)
  BY <1>5, <1>6 DEF IInv
<1>8. Good(store', source, q, preflights, agent, posted)
  BY <1>7, TakeOutGood
<1>9. Good(store', source, q, preflights, ag, posted)
  BY <1>8, AgentGood
<1>10. FlushPendingPolls(q, ag)
  BY DEF HandleReply
<1> HIDE DEF q, ag
<1> QED BY <1>6, <1>9, <1>10, FlushGood DEF IInv

\* The reply of an agent to what it has in hand.
LEMMA ReplyToGood ==
    ASSUME IInv, NEW a \in Agents, ReplyTo(a)
    PROVE  IInv'
<1>1. PICK r \in Answers(a) : Replies(a, r)
  BY DEF ReplyTo
<1> DEFINE v == Onwards(a, r)
<1>2. agent[a] \in Activity /\ agent[a].at \in {"handling", "applied"} /\ InHand(agent[a])
  BY DEF ReplyTo, HasAnswer, IInv, Good, Shape
<1>3. /\ v \in Activity /\ v.event \in {None, agent[a].event} /\ InHand(v)
      /\ v.at \in {"applied", "finishing"} => v.event # None /\ v.event.type \in Decisions
  <2>1. CASE r.type = "agent_done"
    BY <1>2, <2>1, AnswersFacts DEF Onwards, Activity, InHand
  <2>2. CASE r.type # "agent_done" /\ a \in Streams /\ agent[a].event.type \notin Decisions
    BY <1>2, <2>2 DEF Onwards, Activity, InHand
  <2>3. CASE v = Idle
    BY <2>3, IdleFacts
  <2> QED BY <2>1, <2>2, <2>3 DEF Onwards
<1>4. HandleReply(agent[a].event.id, r, [agent EXCEPT ![a] = v])
  BY <1>1 DEF Replies
<1> HIDE DEF v
<1> QED BY <1>2, <1>3, <1>4, AnswersFacts, HandleReplyGood

\* live-complete, after an accept that is carried out.
LEMMA FinishGood ==
    ASSUME IInv, NEW a \in Agents, NEW type, Finish(a, type)
    PROVE  IInv'
<1> DEFINE r == Answer(type, None)
<1>1. agent[a].at = "finishing" /\ agent[a].event.type \in Decisions
  BY DEF Finish, IInv, Good, Decided
<1>2. r.type = type /\ type # "discarded" /\ ~r.carbonize
  BY DEF Answer, Finish
<1>3. HandleReply(agent[a].event.id, r, [agent EXCEPT ![a] = Idle])
  BY DEF Finish
<1> HIDE DEF r
<1> QED BY <1>1, <1>2, <1>3, IdleFacts, HandleReplyGood

\* Variants reach the source only for an event in hand.
LEMMA PublishGood ==
    ASSUME IInv, NEW a \in Agents, Publish(a)
    PROVE  IInv'
<1> DEFINE s == agent[a].event.id
<1>1. s \in Sessions /\ ~Unready(s, store, queue, preflights) /\ \E f \in posted : f.id = s
  BY Working DEF Publish
<1>2. source \subseteq Sessions
  BY DEF IInv, Good, PostedFirst
<1>3. Good(store, source \cup {s}, queue, preflights, agent, posted)
  BY <1>1, <1>2, SourceGood DEF IInv
<1> QED BY <1>3 DEF Publish, IInv, leases

\* live-accept takes the wrapper out of the source.
LEMMA CarryOutGood ==
    ASSUME IInv, NEW a \in Agents, CarryOut(a)
    PROVE  IInv'
<1> DEFINE v == [agent[a] EXCEPT !.at = "applied"]
<1>1. source' \subseteq source /\ source \subseteq Sessions
  BY DEF CarryOut, IInv, Good, PostedFirst
<1>2. Good(store, source', queue, preflights, agent, posted)
  BY <1>1, SourceGood DEF IInv
<1>3. agent[a] \in Activity /\ InHand(agent[a]) /\ agent[a].at = "handling"
      /\ agent[a].event.type \in Decisions
  BY DEF CarryOut, IInv, Good, Shape
<1>4. /\ v \in Activity /\ v.event = agent[a].event /\ InHand(v)
      /\ v.event # None /\ v.event.type \in Decisions
  BY <1>3 DEF Activity, InHand
<1>5. agent' = [agent EXCEPT ![a] = v]
  BY DEF CarryOut
<1> HIDE DEF v
<1>6. Good(store, source', queue, preflights, [agent EXCEPT ![a] = v], posted)
  BY <1>2, <1>3, <1>4, AgentGood
<1> QED BY <1>5, <1>6 DEF CarryOut, IInv

\* The reply 422: acknowledged, and nothing else.
LEMMA PublishBouncesGood ==
    ASSUME IInv, NEW a \in Agents, PublishBounces(a)
    PROVE  IInv'
<1>1. queue' \subseteq queue /\ UNCHANGED <<store, source, preflights, agent, posted>>
  BY DEF PublishBounces
<1> QED BY <1>1, TakeOutGood DEF IInv

\* The reply retry: an event in hand is free again.
LEMMA GiveBackGood ==
    ASSUME IInv, NEW a \in Agents, GiveBack(a)
    PROVE  IInv'
<1> DEFINE s == agent[a].event.id
           Back(x) == (queue \ {x}) \cup {[x EXCEPT !.leased = FALSE]}
           ag == [agent EXCEPT ![a] = Idle]
<1>1. PICK x \in First(queue, s, None) : FlushPendingPolls(Back(x), ag)
  BY DEF GiveBack
<1>2. x \in queue /\ x.event.id = s /\ IsEntry(x)
  BY DEF First, Matches, IInv, Good, Shape
<1>3. ~Unready(s, store, queue, preflights)
  BY Working DEF GiveBack
<1>4. \A p \in preflights : Key(p.event) # Key(x.event)
  BY <1>2, <1>3, KeyFacts DEF Unready, IInv, Good, Shape, IsCall, IsEntry
<1>5. Good(store, source, Back(x), preflights, agent, posted)
  BY <1>2, <1>4, FreeGood DEF IInv
<1>6. Good(store, source, Back(x), preflights, ag, posted)
  BY <1>5, IdleFacts, AgentGood
<1> HIDE DEF Back, ag
<1> QED BY <1>1, <1>6, FlushGood DEF GiveBack, IInv

\* waitForEventAck, either way.
LEMMA StreamGood ==
    ASSUME IInv, NEW a \in Agents, StreamGoesOn(a) \/ StreamGivesUp(a)
    PROVE  IInv'
<1> DEFINE v == [agent[a] EXCEPT !.at = "gone"]
<1>1. agent[a] \in Activity /\ InHand(agent[a]) /\ agent[a].at = "awaiting"
  BY DEF StreamGoesOn, StreamGivesUp, IInv, Good, Shape
<1>2. v \in Activity /\ v.event = agent[a].event /\ v.at = "gone" /\ InHand(v)
  BY <1>1 DEF Activity, InHand
<1>3. agent' \in {[agent EXCEPT ![a] = Idle], [agent EXCEPT ![a] = v]}
  BY DEF StreamGoesOn, StreamGivesUp
<1>4. UNCHANGED <<store, source, queue, preflights, posted>>
  BY DEF StreamGoesOn, StreamGivesUp
<1> HIDE DEF v
<1>5. /\ Good(store, source, queue, preflights, [agent EXCEPT ![a] = Idle], posted)
      /\ Good(store, source, queue, preflights, [agent EXCEPT ![a] = v], posted)
  BY <1>1, <1>2, IdleFacts, AgentGood DEF IInv
<1> QED BY <1>3, <1>4, <1>5 DEF IInv

\* An agent is gone, with what it was to answer.
LEMMA AgentLostGood ==
    ASSUME IInv, NEW a \in Agents, AgentLost(a)
    PROVE  IInv'
<1> DEFINE L(p) == IF p.by = a THEN [p EXCEPT !.by = None] ELSE p
<1>1. \A p \in preflights : IsCall(L(p)) /\ L(p).event = p.event
  <2> TAKE p \in preflights
  <2>1. IsCall(p)
    BY DEF IInv, Good, Shape
  <2>2. \A f, k : [[event |-> f, by |-> k] EXCEPT !.by = None] = [event |-> f, by |-> None]
    OBVIOUS
  <2>3. p = [event |-> p.event, by |-> p.by]
    BY <2>1 DEF IsCall
  <2>4. [p EXCEPT !.by = None] = [event |-> p.event, by |-> None]
    BY <2>2, <2>3, ZenonT(30)
  <2> QED BY <2>1, <2>4 DEF IsCall
<1>2. preflights' = {L(p) : p \in preflights}
  BY DEF AgentLost
<1> HIDE DEF L
<1>3. Good(store, source, queue, preflights', agent, posted)
  <2>1. Shape(store, queue, preflights', agent) /\ Claimed(queue, preflights')
    BY <1>1, <1>2 DEF IInv, Good, Shape, Claimed
  <2>2. Once(preflights')
    BY <1>1, <1>2 DEF IInv, Good, Once
  <2>3. InOrder(store, source, queue, preflights', agent, posted)
    BY <1>1, <1>2 DEF IInv, Good, InOrder, Unready
  <2>4. PostedFirst(store, source, queue, preflights', agent, posted)
    BY <1>1, <1>2 DEF IInv, Good, PostedFirst, Blank
  <2> QED BY <2>1, <2>2, <2>3, <2>4 DEF IInv, Good
<1>4. Good(store, source, queue, preflights', [agent EXCEPT ![a] = Idle], posted)
  BY <1>3, IdleFacts, AgentGood
<1> QED BY <1>4 DEF AgentLost, IInv

-----------------------------------------------------------------------------
(* The server *)

\* What the journal owes is put back, and every preflight is gone.
LEMMA RestartGood ==
    ASSUME IInv, Restart
    PROVE  IInv'
<1>1. /\ preflights' = {} /\ UNCHANGED <<store, source, posted>>
      /\ agent' \in [Agents -> Activity]
      /\ \A a \in Agents : agent'[a] \in {Idle, agent[a]}
  BY IdleFacts DEF Restart, IInv, Good, Shape
<1>2. \A x \in queue' : /\ IsEntry(x)
                        /\ store[x.event.id].pending = x.event /\ x.event # None
  <2> SUFFICES ASSUME NEW s \in Sessions, store[s].pending # None, NEW x,
                      x = [event |-> store[s].pending, leased |-> FALSE, seq |-> s]
               PROVE  IsEntry(x) /\ store[x.event.id].pending = x.event /\ x.event # None
    BY DEF Restart, Restored
  <2>1. store[s].pending \in Event /\ store[s].pending.id = s
    BY DEF IInv, Good, Shape, OwnPending, Snapshot
  <2> QED BY <2>1 DEF IsEntry
<1>3. UniqueKeys(queue')
  <2> SUFFICES ASSUME NEW x \in queue', NEW y \in queue', Key(x.event) = Key(y.event)
               PROVE  x = y
    BY DEF UniqueKeys
  <2>1. PICK s \in Sessions : /\ store[s].pending # None
                              /\ x = [event |-> store[s].pending, leased |-> FALSE, seq |-> s]
    BY DEF Restart, Restored
  <2>2. PICK t \in Sessions : /\ store[t].pending # None
                              /\ y = [event |-> store[t].pending, leased |-> FALSE, seq |-> t]
    BY DEF Restart, Restored
  <2>3. x.event.id = s /\ y.event.id = t
    BY <2>1, <2>2 DEF IInv, Good, OwnPending
  <2>4. x.event.id = y.event.id
    BY <1>2, KeyFacts DEF IsEntry
  <2> QED BY <2>1, <2>2, <2>3, <2>4
<1>4. Shape(store, queue', preflights', agent')
  BY <1>1, <1>2, IdleFacts DEF IInv, Good, Shape
<1>5. Claimed(queue', preflights') /\ Once(preflights')
  BY <1>1 DEF Claimed, Once
<1>6. InOrder(store, source, queue', preflights', agent', posted)
  <2> SUFFICES ASSUME NEW s \in Sessions, Unready(s, store, queue', preflights')
               PROVE  Untouched(s, store, source, queue', agent', posted)
    BY DEF InOrder
  <2>1. store[s].pending # None /\ AwaitsPreflight(store[s].pending)
    BY <1>1, <1>2 DEF Unready
  <2>2. Untouched(s, store, source, queue, agent, posted)
    BY <2>1 DEF Unready, IInv, Good, InOrder
  <2> QED BY <1>1, <1>2, <2>1, <2>2, IdleFacts DEF Untouched
<1>7. PostedFirst(store, source, queue', preflights', agent', posted)
  <2>1. ASSUME NEW s \in Sessions, \A e \in posted : e.id # s
        PROVE  Blank(s, store, source, queue', preflights', agent')
    <3>1. Blank(s, store, source, queue, preflights, agent)
      BY <2>1 DEF IInv, Good, PostedFirst
    <3>2. store[s].pending = None
      BY <3>1 DEF Blank, BaseSnapshot
    <3> QED BY <1>1, <1>2, <3>1, <3>2, IdleFacts DEF Blank
  <2> QED BY <2>1 DEF IInv, Good, PostedFirst
<1>8. Decided(store, queue', agent')
  BY <1>1, <1>2, IdleFacts DEF IInv, Good, Decided, IsEntry
<1> QED BY <1>1, <1>3, <1>4, <1>5, <1>6, <1>7, <1>8 DEF IInv, Good

\* A server without sessions.
LEMMA InitGood == Init => IInv
<1> SUFFICES ASSUME Init PROVE IInv
  OBVIOUS
<1>1. BaseSnapshot \in Snapshot
  BY StoreAssumption DEF BaseSnapshot, Snapshot, Phases
<1>2. /\ store \in [Sessions -> Snapshot] /\ \A s \in Sessions : store[s] = BaseSnapshot
      /\ agent \in [Agents -> Activity] /\ \A a \in Agents : agent[a] = Idle
  BY <1>1, IdleFacts DEF Init
<1>3. Shape(store, queue, preflights, agent) /\ OwnPending(store)
  BY <1>2, IdleFacts DEF Init, Shape, OwnPending, BaseSnapshot
<1>4. UniqueKeys(queue) /\ Claimed(queue, preflights) /\ Once(preflights)
  BY DEF Init, UniqueKeys, Claimed, Once
<1>5. InOrder(store, source, queue, preflights, agent, posted)
  BY <1>2 DEF Init, InOrder, Unready, BaseSnapshot
<1>6. PostedFirst(store, source, queue, preflights, agent, posted)
  BY <1>2, IdleFacts DEF Init, PostedFirst, Blank
<1>7. Decided(store, queue, agent)
  BY <1>2, IdleFacts DEF Init, Decided, BaseSnapshot, FencedPhases, CompletedPhases
<1> QED BY <1>3, <1>4, <1>5, <1>6, <1>7 DEF IInv, Good

\* Every step preserves the invariant.
LEMMA NextGood == IInv /\ [Next]_vars => IInv'
<1> SUFFICES ASSUME IInv, [Next]_vars PROVE IInv'
  OBVIOUS
<1>1. CASE UNCHANGED vars
  BY <1>1 DEF vars, leases, IInv
<1>2. CASE Page
  <2> USE DEF Page
  <2>1. source \subseteq Sessions
    BY DEF IInv, Good, PostedFirst
  <2>2. ASSUME NEW s \in Sessions \ Steers,
               Open(Plain(s, "generate")), Fresh(Plain(s, "generate"))
        PROVE  IInv'
    BY <2>2, OpenGenerateGood
  <2>3. ASSUME NEW s \in Steers, Open(Plain(s, "steer"))
        PROVE  IInv'
    BY <2>3, OpenSteerGood
  <2>4. ASSUME NEW s \in source, NEW v \in Variants, Decide(OfVariant(s, "accept", v))
        PROVE  IInv'
    <3> DEFINE e == OfVariant(s, "accept", v)
    <3>1. e \in Event /\ e.id = s /\ e.type \in Decisions
      BY <2>1 DEF OfVariant, Plain, Event, EventTypes, Decisions
    <3> HIDE DEF e
    <3>2. Decide(e)
      BY <2>4 DEF e
    <3> QED BY <2>1, <3>1, <3>2, DecideGood
  <2>5. ASSUME NEW s \in source, NEW v \in Variants,
               VariantMountFailed(OfVariant(s, "variant_mount_failed", v))
        PROVE  IInv'
    BY <2>1, <2>5, MountFailedGood
  <2>6. ASSUME NEW s \in source, Decide(Plain(s, "discard"))
        PROVE  IInv'
    <3> DEFINE e == Plain(s, "discard")
    <3>1. e \in Event /\ e.id = s /\ e.type \in Decisions
      BY <2>1 DEF Plain, Event, EventTypes, Decisions
    <3> HIDE DEF e
    <3>2. Decide(e)
      BY <2>6 DEF e
    <3> QED BY <2>1, <3>1, <3>2, DecideGood
  <2>7. ASSUME NEW s \in Sessions, store[s].completedAt, DiscardOrphaned(s)
        PROVE  IInv'
    BY <2>7, DiscardOrphanedGood
  <2>8. ASSUME NEW s \in Sessions, NEW r \in 0 .. MaxRevision, NEW phase \in PhasesOf(s),
               Checkpoint(s, phase, r)
        PROVE  IInv'
    BY <2>8, CheckpointGood DEF PhasesOf, BrowserPhases
  <2> QED BY <1>2, <2>2, <2>3, <2>4, <2>5, <2>6, <2>7, <2>8
<1>3. CASE Work
  <2>1. ASSUME NEW a \in Agents,
               \/ Poll(a) \/ PollEnds(a) \/ Publish(a) \/ CarryOut(a) \/ PublishBounces(a)
               \/ GiveBack(a)
        PROVE  IInv'
    BY <2>1, PollGood, PollEndsGood, PublishGood, CarryOutGood, PublishBouncesGood, GiveBackGood
  <2>2. ASSUME NEW a \in Agents,
               \/ ReplyTo(a) \/ StreamGoesOn(a) \/ StreamGivesUp(a) \/ AgentLost(a)
               \/ \E type \in {"complete", "error"} : Finish(a, type)
        PROVE  IInv'
    BY <2>2, ReplyToGood, FinishGood, StreamGood, AgentLostGood
  <2>3. ASSUME NEW p \in preflights, LeaseSettles(p) \/ LeaseFails(p)
        PROVE  IInv'
    BY <2>3, LeaseSettlesGood, LeaseFailsGood
  <2>4. ASSUME NEW x \in queue, LeaseExpires(x)
        PROVE  IInv'
    BY <2>4, LeaseExpiresGood
  <2> QED BY <1>3, <2>1, <2>2, <2>3, <2>4 DEF Work
<1>4. CASE Restart
  BY <1>4, RestartGood
<1> QED BY <1>1, <1>2, <1>3, <1>4 DEF Next

\* The invariant, for every value of the constants.
THEOREM LiveServerInvariant == Spec => []IInv
BY InitGood, NextGood, PTL DEF Spec

\* One preflight at a time per event: the claim before the first await of
\* leaseEvent keeps a second poll away from a generation that is scaffolded.
THEOREM PreflightsAreClaimedOnce == Spec => []ClaimedOnce
<1>1. IInv => ClaimedOnce
  BY DEF IInv, Good, Once, ClaimedOnce
<1> QED BY <1>1, LiveServerInvariant, PTL

\* A generation whose session was decided, or is over, is never in the queue
\* again, whatever is released, expires or is restored.
THEOREM GhostsAreNotOffered == Spec => []NoGhostGeneration
<1>1. IInv => NoGhostGeneration
  BY DEF IInv, Good, Shape, IsEntry, Decided, Fenced, NoGhostGeneration
<1> QED BY <1>1, LiveServerInvariant, PTL

-----------------------------------------------------------------------------
(* What the journal owes is in the queue *)

Owes(snap) ==
    Active(snap) /\ ~snap.canceled /\ snap.pending # None /\ snap.pending.type = "generate"

Kept(st, q, pre, bn) ==
    /\ \A s \in Sessions : Owes(st[s]) /\ s \notin bn => Queued(q, st[s].pending)
    /\ \A p \in pre : Queued(q, p.event)

KInv == IInv /\ Kept(store, queue, preflights, bounced)

\* leaseEvent keeps the entry, and its preflight is of an entry.
LEMMA LeaseKept ==
    ASSUME NEW st, NEW q, NEW bn, NEW agents, NEW a, NEW x \in q, IsEntry(x),
           Kept(st, q, preflights, bn), LeaseEvent(q, x, a, agents)
    PROVE  Kept(st, queue', preflights', bn)
<1>1. queue' = (q \ {x}) \cup {[x EXCEPT !.leased = TRUE]}
  BY NoneIsNoEvent DEF LeaseEvent, Claim, IsEntry
<1>2. [x EXCEPT !.leased = TRUE].event = x.event
  BY Leasing
<1>3. \A f : Queued(q, f) => Queued(queue', f)
  BY <1>1, <1>2 DEF Queued
<1>4. \A p \in preflights' : p \in preflights \/ p.event = x.event
  BY DEF LeaseEvent
<1>5. Queued(q, x.event)
  BY DEF Queued
<1> QED BY <1>3, <1>4, <1>5 DEF Kept

\* So does the flush.
LEMMA FlushKept ==
    ASSUME NEW st, NEW q, NEW bn, NEW agents, \A x \in q : IsEntry(x),
           Kept(st, q, preflights, bn), FlushPendingPolls(q, agents)
    PROVE  Kept(st, queue', preflights', bn)
<1>1. CASE queue' = q /\ preflights' = preflights
  BY <1>1
<1>2. ASSUME NEW i \in DOMAIN parked, NEW x \in Selected(q, parked[i]),
             LeaseEvent(q, x, parked[i], agents)
      PROVE  Kept(st, queue', preflights', bn)
  BY <1>2, LeaseKept DEF Selected, FreeFor
<1> QED BY <1>1, <1>2 DEF FlushPendingPolls

\* A handler changes one session, and takes out or adds entries of it only.
LEMMA SessionKept ==
    ASSUME KInv, NEW s \in Sessions, NEW st, NEW q,
           \A t \in Sessions \ {s} : st[t] = store[t],
           \A x \in queue : x \in q \/ x.event.id = s,
           Owes(st[s]) /\ s \notin bounced => Queued(q, st[s].pending),
           ~Unready(s, store, queue, preflights) \/ queue \subseteq q
    PROVE  Kept(st, q, preflights, bounced)
<1>1. \A f \in Event : Queued(queue, f) /\ f.id # s => Queued(q, f)
  BY KeyFacts DEF Queued, KInv, IInv, Good, Shape, IsEntry
<1>2. ASSUME NEW t \in Sessions, Owes(st[t]), t \notin bounced
      PROVE  Queued(q, st[t].pending)
  <2>1. CASE t = s
    BY <1>2, <2>1
  <2>2. CASE t # s
    <3>1. st[t] = store[t] /\ store[t].pending \in Event /\ store[t].pending.id = t
      BY <1>2, <2>2 DEF Owes, KInv, IInv, Good, Shape, OwnPending, Snapshot
    <3> QED BY <1>1, <1>2, <2>2, <3>1 DEF KInv, Kept
  <2> QED BY <2>1, <2>2
<1>3. ASSUME NEW p \in preflights
      PROVE  Queued(q, p.event)
  <2>1. p.event \in Event /\ Queued(queue, p.event)
    BY DEF KInv, Kept, IInv, Good, Shape, IsCall
  <2>2. CASE queue \subseteq q
    BY <2>1, <2>2 DEF Queued
  <2>3. CASE ~Unready(s, store, queue, preflights)
    BY <1>1, <2>1, <2>3 DEF Unready
  <2> QED BY <2>2, <2>3
<1> QED BY <1>2, <1>3 DEF Kept

\* An event that is queued, or was, is in the queue.
LEMMA EnqueueFacts ==
    ASSUME NEW q, NEW e, \A x \in q : IsEntry(x), e \in Event, e.id \in Sessions
    PROVE  /\ q \subseteq Enqueue(q, e) /\ Queued(Enqueue(q, e), e)
           /\ \A x \in Enqueue(q, e) : IsEntry(x)
<1> DEFINE y == [event |-> e, leased |-> FALSE, seq |-> NextSeq(q)]
<1>1. IsEntry(y) /\ y.event = e
  BY DEF IsEntry
<1>2. Enqueue(q, e) = q \cup {y} \/ (Enqueue(q, e) = q /\ Queued(q, e))
  BY NoneIsNoEvent DEF Enqueue
<1> HIDE DEF y
<1> QED BY <1>1, <1>2 DEF Queued

\* Handlers that leave the journal, the queue and the preflights alone.
LEMMA StutterKept ==
    ASSUME KInv, UNCHANGED <<store, queue, preflights, bounced>>
    PROVE  Kept(store', queue', preflights', bounced')
BY DEF KInv

\* What the invariant says of entries and of phases.
LEMMA Entries ==
    ASSUME IInv
    PROVE  /\ \A x \in queue : IsEntry(x)
           /\ \A s \in Sessions : store[s].phase \in FencedPhases => store[s].canceled
BY DEF IInv, Good, Shape, Decided

\* Open: the new event is queued with its session.
LEMMA OpenKept ==
    ASSUME KInv, NEW e \in Event, e.id \in Sessions, e.type \in {"generate", "steer"}, Open(e)
    PROVE  Kept(store', queue', preflights', bounced')
<1> DEFINE s == e.id
           q == Enqueue(queue, e)
<1>1. queue \subseteq q /\ Queued(q, e) /\ \A x \in q : IsEntry(x)
  BY EnqueueFacts, Entries DEF KInv
<1>2. /\ \A t \in Sessions \ {s} : store'[t] = store[t]
      /\ Owes(store'[s]) => store'[s].pending = e
  <2>1. store[s] \in Snapshot /\ store \in [Sessions -> Snapshot]
    BY DEF KInv, IInv, Good, Shape
  <2>2. /\ ApplyGenerate(store[s], e).pending = e
        /\ ApplySteer(store[s], e).pending = e
    BY <2>1 DEF ApplyGenerate, ApplySteer, Snapshot
  <2> QED BY <2>1, <2>2 DEF Open
<1>3. FlushPendingPolls(q, agent) /\ bounced' = bounced
  BY DEF Open
<1> HIDE DEF q
<1>4. Kept(store', q, preflights, bounced)
  BY <1>1, <1>2, SessionKept
<1> QED BY <1>1, <1>3, <1>4, FlushKept

\* Decide and the orphaned discard: the session owes no generation any more.
LEMMA DecideKept ==
    ASSUME KInv, NEW e \in Event, e.id \in source, e.id \in Sessions, e.type \in Decisions,
           Decide(e)
    PROVE  Kept(store', queue', preflights', bounced')
<1> DEFINE s == e.id
           q == Enqueue(Retired(queue, s), e)
<1>1. \A x \in Retired(queue, s) : IsEntry(x)
  BY Entries DEF Retired, KInv
<1>2. Retired(queue, s) \subseteq q /\ \A x \in q : IsEntry(x)
  BY <1>1, EnqueueFacts
<1>3. \A x \in queue : x \in q \/ x.event.id = s
  BY <1>2 DEF Retired
<1>4. /\ \A t \in Sessions \ {s} : store'[t] = store[t]
      /\ ~Owes(store'[s])
  <2>1. store[s] \in Snapshot /\ store \in [Sessions -> Snapshot]
    BY DEF KInv, IInv, Good, Shape
  <2>2. ApplyDecision(store[s], e).canceled
    BY <2>1 DEF ApplyDecision, Snapshot
  <2> QED BY <2>1, <2>2 DEF Decide, Owes
<1>5. ~Unready(s, store, queue, preflights)
  BY PublishedIsReady DEF KInv
<1>6. FlushPendingPolls(q, agent) /\ bounced' = bounced
  BY DEF Decide
<1> HIDE DEF q
<1>7. Kept(store', q, preflights, bounced)
  BY <1>3, <1>4, <1>5, SessionKept
<1> QED BY <1>2, <1>6, <1>7, FlushKept

\* Discarded at once: the session owes nothing any more.
LEMMA DiscardOrphanedKept ==
    ASSUME KInv, NEW s \in Sessions, store[s].completedAt, DiscardOrphaned(s)
    PROVE  Kept(store', queue', preflights', bounced')
<1>1. /\ \A t \in Sessions \ {s} : store'[t] = store[t]
      /\ ~Owes(store'[s])
  <2> DEFINE n == ApplyDiscarded(ApplyDecision(store[s], Plain(s, "discard")))
  <2>1. store[s] \in Snapshot /\ store \in [Sessions -> Snapshot]
    BY DEF KInv, IInv, Good, Shape
  <2>2. n.pending = None
    BY <2>1 DEF ApplyDecision, ApplyDiscarded, Snapshot
  <2>3. store' = [store EXCEPT ![s] = n]
    BY DEF DiscardOrphaned
  <2> HIDE DEF n
  <2> QED BY <2>1, <2>2, <2>3 DEF Owes
<1>2. \A x \in queue : x \in queue' \/ x.event.id = s
  BY DEF DiscardOrphaned, Retired
<1>3. ~Unready(s, store, queue, preflights)
  BY PublishedIsReady DEF KInv
<1>4. Kept(store', queue', preflights, bounced)
  BY <1>1, <1>2, <1>3, SessionKept
<1> QED BY <1>4 DEF DiscardOrphaned

\* A checkpoint changes neither what is pending nor whether it is decided.
LEMMA CheckpointKept ==
    ASSUME KInv, NEW s \in Sessions, NEW phase \in BrowserPhases, NEW r \in 0 .. MaxRevision,
           Checkpoint(s, phase, r)
    PROVE  Kept(store', queue', preflights', bounced')
<1> DEFINE n == ApplyCheckpoint(store[s], phase, r)
<1>1. store[s] \in Snapshot /\ store \in [Sessions -> Snapshot]
  BY DEF KInv, IInv, Good, Shape
<1>2. Owes(n) => Owes(store[s]) /\ n.pending = store[s].pending
  <2> DEFINE m == [store[s] EXCEPT !.phase = phase, !.revision = r]
  <2>1. n = store[s] \/ (n = m /\ ~Fenced(store[s]))
    BY DEF ApplyCheckpoint
  <2>2. m.pending = store[s].pending /\ m.canceled = store[s].canceled
    BY <1>1 DEF Snapshot
  <2>3. ~Fenced(store[s]) => Active(store[s])
    BY DEF Checkpoint, Fenced, FencedPhases, Active
  <2> QED BY <2>1, <2>2, <2>3 DEF Owes
<1>3. store' = [store EXCEPT ![s] = n] /\ UNCHANGED <<queue, preflights, bounced>>
  BY DEF Checkpoint, leases
<1> HIDE DEF n
<1> QED BY <1>1, <1>2, <1>3, SessionKept DEF KInv, Kept

\* A failed mount is only remembered when nothing else is pending.
LEMMA MountFailedKept ==
    ASSUME KInv, NEW s \in Sessions, NEW v \in Variants,
           VariantMountFailed(OfVariant(s, "variant_mount_failed", v))
    PROVE  Kept(store', queue', preflights', bounced')
<1> DEFINE e == OfVariant(s, "variant_mount_failed", v)
           n == ApplyMountFailed(store[s], e)
           q == Enqueue(queue, e)
<1>1. e \in Event /\ e.id = s /\ e.type = "variant_mount_failed"
  BY DEF OfVariant, Plain, Event, EventTypes
<1>2. queue \subseteq q /\ \A x \in q : IsEntry(x)
  BY <1>1, EnqueueFacts, Entries DEF KInv
<1>3. store[s] \in Snapshot /\ store \in [Sessions -> Snapshot]
  BY DEF KInv, IInv, Good, Shape
<1>4. Owes(n) => Owes(store[s]) /\ n.pending = store[s].pending
  BY <1>1, <1>3 DEF ApplyMountFailed, Snapshot, Owes, Active, Exists
<1>5. store' = [store EXCEPT ![s] = n] /\ FlushPendingPolls(q, agent) /\ bounced' = bounced
  BY <1>1 DEF VariantMountFailed
<1> HIDE DEF e, n, q
<1>6. Owes(n) /\ s \notin bounced => Queued(q, n.pending)
  BY <1>2, <1>4 DEF KInv, Kept, Queued
<1>7. Kept(store', q, preflights, bounced)
  BY <1>2, <1>3, <1>5, <1>6, SessionKept
<1> QED BY <1>2, <1>5, <1>7, FlushKept

\* An event handed out keeps its entry.
LEMMA PollKept ==
    ASSUME KInv, NEW a \in Agents, Poll(a)
    PROVE  Kept(store', queue', preflights', bounced')
<1>1. UNCHANGED <<store, bounced>>
  BY DEF Poll
<1>2. ASSUME NEW x \in Selected(queue, a), LeaseEvent(queue, x, a, agent)
      PROVE  Kept(store, queue', preflights', bounced)
  <2>1. x \in queue /\ IsEntry(x)
    BY Entries DEF Selected, FreeFor, KInv
  <2> QED BY <1>2, <2>1, LeaseKept DEF KInv
<1>3. CASE UNCHANGED <<queue, preflights>>
  BY <1>1, <1>3, StutterKept
<1> QED BY <1>1, <1>2, <1>3 DEF Poll

\* The preflight's entry is still there, so the generation journaled again is
\* the one in the queue.
LEMMA LeaseSettlesKept ==
    ASSUME KInv, NEW p \in preflights, LeaseSettles(p)
    PROVE  Kept(store', queue', preflights', bounced')
<1> DEFINE e == [p.event EXCEPT !.ready = TRUE]
           s == p.event.id
           E(x) == [event |-> e, leased |-> TRUE, seq |-> x.seq]
<1>1. IsCall(p) /\ s \in Sessions
  BY DEF KInv, IInv, Good, Shape, IsCall
<1>2. e \in Event /\ e.id = s /\ Key(e) = Key(p.event)
  BY <1>1 DEF IsCall, Event, Key
<1>3. store' = [store EXCEPT ![s] = ApplyGenerate(@, e)] /\ bounced' = bounced
      /\ preflights' \subseteq preflights
  BY <1>2 DEF LeaseSettles
<1>4. /\ \A t \in Sessions \ {s} : store'[t] = store[t]
      /\ store'[s].pending = e
  <2>1. store[s] \in Snapshot /\ store \in [Sessions -> Snapshot]
    BY <1>1 DEF KInv, IInv, Good, Shape
  <2>2. ApplyGenerate(store[s], e).pending = e
    BY <2>1 DEF ApplyGenerate, Snapshot
  <2> QED BY <1>1, <1>3, <2>1, <2>2
<1>5. queue' = {IF Key(x.event) = Key(e) THEN E(x) ELSE x : x \in queue}
  BY DEF LeaseSettles
<1>6. \A f : Queued(queue, f) => Queued(queue', f)
  <2> SUFFICES ASSUME NEW f, NEW x \in queue, Key(x.event) = Key(f)
               PROVE  Queued(queue', f)
    BY DEF Queued
  <2>1. (IF Key(x.event) = Key(e) THEN E(x) ELSE x) \in queue'
    BY <1>5
  <2>2. E(x).event = e
    OBVIOUS
  <2> HIDE DEF e, E
  <2> QED BY <2>1, <2>2 DEF Queued
<1>7. Queued(queue', e)
  BY <1>2, <1>6 DEF KInv, Kept, Queued
<1> HIDE DEF e, E
<1> QED BY <1>3, <1>4, <1>6, <1>7 DEF KInv, Kept

\* A preflight that fails, or loses its agent, leaves the queue alone.
LEMMA PreflightsKept ==
    ASSUME KInv,
           \/ \E p \in preflights : LeaseFails(p)
           \/ \E a \in Agents : AgentLost(a)
    PROVE  Kept(store', queue', preflights', bounced')
<1>1. UNCHANGED <<store, queue, bounced>>
  BY DEF LeaseFails, AgentLost
<1>2. \A r \in preflights' : \E p \in preflights : r.event = p.event
  <2>1. CASE \E p \in preflights : LeaseFails(p)
    BY <2>1 DEF LeaseFails
  <2>2. ASSUME NEW a \in Agents, AgentLost(a)
        PROVE  \A r \in preflights' : \E p \in preflights : r.event = p.event
    <3> SUFFICES ASSUME NEW p \in preflights, NEW r, r = [p EXCEPT !.by = None]
                 PROVE  r.event = p.event
      BY <2>2 DEF AgentLost
    <3>1. p = [event |-> p.event, by |-> p.by]
      BY DEF KInv, IInv, Good, Shape, IsCall
    <3>2. \A f, k : [[event |-> f, by |-> k] EXCEPT !.by = None] = [event |-> f, by |-> None]
      OBVIOUS
    <3>3. r = [event |-> p.event, by |-> None]
      BY <3>1, <3>2, ZenonT(30)
    <3> QED BY <3>3
  <2> QED BY <2>1, <2>2
<1> QED BY <1>1, <1>2 DEF KInv, Kept

\* A lease that ends leaves the entry in the queue.
LEMMA FreeKept ==
    ASSUME KInv, NEW x \in queue, NEW q, NEW agents,
           q = (queue \ {x}) \cup {[x EXCEPT !.leased = FALSE]},
           FlushPendingPolls(q, agents), UNCHANGED <<store, bounced>>
    PROVE  Kept(store', queue', preflights', bounced')
<1> DEFINE y == [x EXCEPT !.leased = FALSE]
<1>1. IsEntry(x) /\ \A z \in queue : IsEntry(z)
  BY Entries DEF KInv
<1>2. IsEntry(y) /\ y.event = x.event
  BY <1>1, Leasing
<1> HIDE DEF y
<1>3. \A z \in q : IsEntry(z)
  BY <1>1, <1>2 DEF y
<1>4. \A f : Queued(queue, f) => Queued(q, f)
  BY <1>2 DEF Queued, y
<1>5. Kept(store, q, preflights, bounced)
  BY <1>4 DEF KInv, Kept
<1> QED BY <1>3, <1>5, FlushKept

\* A reply that is journaled settles what the session owes.
LEMMA JournaledOwes ==
    ASSUME NEW snap \in Snapshot, snap.phase \in FencedPhases => snap.canceled, NEW r, NEW acked
    PROVE  ~Owes(Journaled(snap, r, acked))
<1> DEFINE Settled(n) == n.pending = None \/ n.canceled
<1>1. /\ Settled(ApplySteerDone(snap)) /\ Settled(ApplyDiscarded(snap))
      /\ Settled(ApplyComplete(snap)) /\ \A t : Settled(ApplyAgentError(snap, t))
  BY DEF ApplySteerDone, ApplyDiscarded, ApplyComplete, ApplyAgentError, Snapshot
<1>2. Settled(ApplyAgentDone(snap, r.carbonize))
  BY DEF ApplyAgentDone, Fenced, Snapshot
<1>3. Settled(Journaled(snap, r, acked))
  BY <1>1, <1>2 DEF Journaled
<1> QED BY <1>3 DEF Owes

\* What a reply takes out of the queue is what it settles in the journal.
LEMMA HandleReplyKept ==
    ASSUME KInv, NEW a \in Agents, agent[a].at \notin {"idle", "parked", "leasing"}, NEW r,
           NEW agents, HandleReply(agent[a].event.id, r, agents)
    PROVE  Kept(store', queue', preflights', bounced')
<1> DEFINE s == agent[a].event.id
           acked == Acked(s, r)
           q == queue \ acked
<1>1. s \in Sessions /\ ~Unready(s, store, queue, preflights)
  BY Working DEF KInv
<1>2. acked \subseteq queue /\ \A x \in acked : x.event.id = s
  BY DEF Acked, First, Matches
<1>3. store[s] \in Snapshot /\ store \in [Sessions -> Snapshot]
  BY <1>1 DEF KInv, IInv, Good, Shape
<1>4. FlushPendingPolls(q, agents) /\ bounced' = bounced
  BY DEF HandleReply
<1>5. (\A t \in Sessions \ {s} : store'[t] = store[t]) /\ ~Owes(store'[s])
  <2>1. CASE acked = {} /\ store[s].phase \in CompletedPhases
    <3>1. store' = store
      BY <2>1 DEF HandleReply
    <3> QED BY <2>1, <3>1 DEF Owes, Active
  <2>2. CASE ~(acked = {} /\ store[s].phase \in CompletedPhases)
    <3> DEFINE n == Journaled(store[s], r, acked)
    <3>1. store' = [store EXCEPT ![s] = n]
      BY <2>2 DEF HandleReply
    <3>2. ~Owes(n)
      BY <1>1, <1>3, Entries, JournaledOwes DEF KInv
    <3> HIDE DEF n
    <3> QED BY <1>1, <1>3, <3>1, <3>2
  <2> QED BY <2>1, <2>2
<1>6. \A x \in queue : x \in q \/ x.event.id = s
  BY <1>2
<1>7. \A x \in q : IsEntry(x)
  BY Entries DEF KInv
<1> HIDE DEF q, s
<1>8. Kept(store', q, preflights, bounced)
  BY <1>1, <1>5, <1>6, SessionKept
<1> QED BY <1>4, <1>7, <1>8, FlushKept

\* The one reply that is acknowledged and not journaled.
LEMMA PublishBouncesKept ==
    ASSUME KInv, NEW a \in Agents, PublishBounces(a)
    PROVE  Kept(store', queue', preflights', bounced')
<1> DEFINE s == agent[a].event.id
<1>1. s \in Sessions /\ ~Unready(s, store, queue, preflights)
  BY Working DEF KInv, PublishBounces
<1>2. /\ \A x \in queue : x \in queue' \/ x.event.id = s
      /\ bounced' = bounced \cup {s} /\ UNCHANGED <<store, preflights>>
  BY DEF PublishBounces, Acked, First, Matches
<1>3. \A f \in Event : Queued(queue, f) /\ f.id # s => Queued(queue', f)
  BY <1>2, Entries, KeyFacts DEF Queued, KInv, IsEntry
<1>4. \A t \in Sessions : Owes(store[t]) => store[t].pending \in Event /\ store[t].pending.id = t
  BY DEF Owes, KInv, IInv, Good, Shape, OwnPending, Snapshot
<1>5. \A p \in preflights : p.event \in Event /\ p.event.id # s
  BY <1>1 DEF Unready, KInv, IInv, Good, Shape, IsCall
<1> QED BY <1>2, <1>3, <1>4, <1>5 DEF KInv, Kept

\* Whatever the journal owes is restored.
LEMMA RestartKept ==
    ASSUME KInv, Restart
    PROVE  Kept(store', queue', preflights', bounced')
<1>1. \A s \in Sessions : Owes(store[s]) => Queued(queue', store[s].pending)
  <2> SUFFICES ASSUME NEW s \in Sessions, Owes(store[s])
               PROVE  Queued(queue', store[s].pending)
    OBVIOUS
  <2> DEFINE x == [event |-> store[s].pending, leased |-> FALSE, seq |-> s]
  <2>1. x \in queue'
    BY DEF Restart, Restored, Owes
  <2>2. x.event = store[s].pending
    OBVIOUS
  <2> HIDE DEF x
  <2> QED BY <2>1, <2>2 DEF Queued
<1> QED BY <1>1 DEF Restart, Kept

\* Every step keeps what the journal owes in the queue.
LEMMA KeptNext == KInv /\ [Next]_vars => KInv'
<1> SUFFICES ASSUME KInv, [Next]_vars PROVE KInv'
  OBVIOUS
<1>1. IInv'
  BY NextGood DEF KInv
<1> SUFFICES Kept(store', queue', preflights', bounced')
  BY <1>1 DEF KInv
<1>2. CASE UNCHANGED vars
  BY <1>2, StutterKept DEF vars, leases
<1>3. CASE Page
  <2> USE DEF Page
  <2>1. source \subseteq Sessions /\ Steers \subseteq Sessions
    BY ServerAssumption DEF KInv, IInv, Good, PostedFirst
  <2>2. ASSUME NEW s \in Sessions, NEW type \in {"generate", "steer"}, Open(Plain(s, type))
        PROVE  Kept(store', queue', preflights', bounced')
    <3> DEFINE e == Plain(s, type)
    <3>1. e \in Event /\ e.id = s /\ e.type \in {"generate", "steer"}
      BY DEF Plain, Event, EventTypes
    <3> HIDE DEF e
    <3>2. Open(e)
      BY <2>2 DEF e
    <3> QED BY <3>1, <3>2, OpenKept
  <2>3. ASSUME NEW s \in source, NEW e \in Event, e.id = s, e.type \in Decisions, Decide(e)
        PROVE  Kept(store', queue', preflights', bounced')
    BY <2>1, <2>3, DecideKept
  <2>4. \A s \in source, v \in Variants :
           /\ OfVariant(s, "accept", v) \in Event /\ OfVariant(s, "accept", v).id = s
           /\ OfVariant(s, "accept", v).type \in Decisions
    BY <2>1 DEF OfVariant, Plain, Event, EventTypes, Decisions
  <2>5. \A s \in source :
           /\ Plain(s, "discard") \in Event /\ Plain(s, "discard").id = s
           /\ Plain(s, "discard").type \in Decisions
    BY <2>1 DEF Plain, Event, EventTypes, Decisions
  <2>6. CASE \/ \E s \in source, v \in Variants : Decide(OfVariant(s, "accept", v))
             \/ \E s \in source : Decide(Plain(s, "discard"))
    BY <2>3, <2>4, <2>5, <2>6
  <2>7. ASSUME NEW s \in source, NEW v \in Variants,
               VariantMountFailed(OfVariant(s, "variant_mount_failed", v))
        PROVE  Kept(store', queue', preflights', bounced')
    BY <2>1, <2>7, MountFailedKept
  <2>8. ASSUME NEW s \in Sessions, store[s].completedAt, DiscardOrphaned(s)
        PROVE  Kept(store', queue', preflights', bounced')
    BY <2>8, DiscardOrphanedKept
  <2>9. ASSUME NEW s \in Sessions, NEW r \in 0 .. MaxRevision, NEW phase \in PhasesOf(s),
               Checkpoint(s, phase, r)
        PROVE  Kept(store', queue', preflights', bounced')
    BY <2>9, CheckpointKept DEF PhasesOf, BrowserPhases
  <2> QED BY <1>3, <2>1, <2>2, <2>6, <2>7, <2>8, <2>9
<1>4. CASE Work
  <2>1. ASSUME NEW a \in Agents,
               PollEnds(a) \/ Publish(a) \/ CarryOut(a) \/ StreamGoesOn(a) \/ StreamGivesUp(a)
        PROVE  Kept(store', queue', preflights', bounced')
    BY <2>1, StutterKept DEF PollEnds, Publish, CarryOut, StreamGoesOn, StreamGivesUp, leases
  <2>2. ASSUME NEW a \in Agents, Poll(a) \/ PublishBounces(a)
        PROVE  Kept(store', queue', preflights', bounced')
    BY <2>2, PollKept, PublishBouncesKept
  <2>3. ASSUME NEW a \in Agents, ReplyTo(a)
        PROVE  Kept(store', queue', preflights', bounced')
    BY <2>3, HandleReplyKept DEF ReplyTo, HasAnswer, Replies
  <2>4. ASSUME NEW a \in Agents, NEW type, Finish(a, type)
        PROVE  Kept(store', queue', preflights', bounced')
    BY <2>4, HandleReplyKept DEF Finish
  <2>5. ASSUME NEW a \in Agents, GiveBack(a)
        PROVE  Kept(store', queue', preflights', bounced')
    BY <2>5, FreeKept DEF GiveBack, First, Matches
  <2>6. ASSUME NEW x \in queue, LeaseExpires(x)
        PROVE  Kept(store', queue', preflights', bounced')
    BY <2>6, FreeKept DEF LeaseExpires
  <2>7. ASSUME \/ \E p \in preflights : LeaseFails(p)
               \/ \E a \in Agents : AgentLost(a)
        PROVE  Kept(store', queue', preflights', bounced')
    BY <2>7, PreflightsKept
  <2>8. ASSUME NEW p \in preflights, LeaseSettles(p)
        PROVE  Kept(store', queue', preflights', bounced')
    BY <2>8, LeaseSettlesKept
  <2> QED BY <1>4, <2>1, <2>2, <2>3, <2>4, <2>5, <2>6, <2>7, <2>8 DEF Work
<1>5. CASE Restart
  BY <1>5, RestartKept
<1> QED BY <1>2, <1>3, <1>4, <1>5 DEF Next

\* A generation the journal owes is in the queue, whatever was lost, released,
\* offered again or restarted, but for one whose publish was refused.
THEOREM NoGenerationIsLost == Spec => []OwedGenerateIsQueued
<1>1. Init => KInv
  <2>1. Init => Kept(store, queue, preflights, bounced)
    BY DEF Init, Kept, Owes, BaseSnapshot
  <2> QED BY <2>1, InitGood DEF KInv
<1>2. KInv => OwedGenerateIsQueued
  BY DEF KInv, Kept, Owes, OwedGenerateIsQueued
<1> QED BY <1>1, <1>2, KeptNext, PTL DEF Spec

=============================================================================
