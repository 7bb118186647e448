--------------------------- MODULE LeaseQueueProofs ---------------------------
(***************************************************************************)
(* LiveServer implements LeaseQueue: what the poll queue of the helper     *)
(* server does with the events of the sessions is what the abstract queue  *)
(* may do with its jobs.  An event leaves the queue only when an agent has *)
(* had it or its session no longer wants it; since replies name no event,  *)
(* that rests on what the agents have been handed before.  First, the      *)
(* types, and that no poll is left parked beside an event it asked for.    *)
(***************************************************************************)
EXTENDS LiveServerProofs, FiniteSetTheorems, SequenceTheorems

-----------------------------------------------------------------------------
(* Finite sets of naturals *)

\* A finite set of numbers that has one has a largest: the smallest set without
\* one would have one more element than a set that has.
LEMMA Maximum ==
    ASSUME NEW S \in SUBSET Nat, IsFiniteSet(S), S # {}
    PROVE  Max(S) \in S /\ \A m \in S : m <= Max(S)
<1> DEFINE HasMax(T) == \E n \in T : \A m \in T : m <= n
           Bad == {T \in FiniteSubsetsOf(Nat) : T # {} /\ ~HasMax(T)}
<1>1. Bad = {}
  <2> SUFFICES ASSUME Bad # {} PROVE FALSE
    OBVIOUS
  <2>1. PICK T \in Bad : \A U \in Bad : <<U, T>> \notin StrictSubsetOrdering(Nat)
    <3>1. Bad \subseteq FiniteSubsetsOf(Nat)
      OBVIOUS
    <3> HIDE DEF Bad
    <3> QED BY <3>1, WFMin, FS_StrictSubsetOrderingWellFounded
  <2>2. T \in SUBSET Nat /\ IsFiniteSet(T) /\ T # {} /\ ~HasMax(T)
    BY DEF FiniteSubsetsOf
  <2>3. PICK n \in T : TRUE
    BY <2>2
  <2> DEFINE U == T \ {n}
  <2>4. U \in SUBSET Nat /\ IsFiniteSet(U)
    BY <2>2, FS_RemoveElement
  <2>5. <<U, T>> \in StrictSubsetOrdering(Nat)
    BY <2>2, <2>3 DEF StrictSubsetOrdering
  <2>6. U \notin Bad
    BY <2>1, <2>5
  <2>7. CASE U = {}
    BY <2>2, <2>3, <2>7
  <2>8. CASE HasMax(U)
    <3>1. PICK k \in U : \A m \in U : m <= k
      BY <2>8
    <3>2. k \in T /\ n \in Nat /\ k \in Nat
      BY <2>2, <3>1
    <3>3. (\A m \in T : m <= k) \/ (\A m \in T : m <= n)
      BY <2>2, <3>1, <3>2
    <3> QED BY <2>2, <3>2, <3>3
  <2> QED BY <2>4, <2>6, <2>7, <2>8 DEF FiniteSubsetsOf
<1>2. PICK n \in S : \A m \in S : m <= n
  BY <1>1 DEF FiniteSubsetsOf
<1>3. \A m \in S : n >= m
  BY <1>2
<1>4. Max(S) \in S /\ \A m \in S : Max(S) >= m
  BY <1>3 DEF Max
<1> QED BY <1>4

\* Some numbers have a least one: the largest of their lower bounds.
LEMMA Minimum ==
    ASSUME NEW S \in SUBSET Nat, S # {}
    PROVE  \E n \in S : \A m \in S : n <= m
<1>1. PICK k \in S : TRUE
  OBVIOUS
<1> DEFINE L == {n \in 0 .. k : \A m \in S : n <= m}
<1>2. L \in SUBSET Nat /\ 0 \in L
  BY <1>1
<1>3. IsFiniteSet(L)
  <2>1. IsFiniteSet(0 .. k)
    BY <1>1, FS_Interval
  <2> QED BY <2>1, FS_Subset
<1> DEFINE n == Max(L)
<1>4. n \in L /\ \A m \in L : m <= n
  <2> HIDE DEF L
  <2> QED BY <1>2, <1>3, Maximum
<1> HIDE DEF n
<1>5. n \in S
  <2> SUFFICES ASSUME n \notin S PROVE FALSE
    OBVIOUS
  <2>1. n \in Nat /\ k \in Nat /\ \A m \in S : m \in Nat /\ n <= m /\ n # m
    BY <1>1, <1>4
  <2>2. n + 1 \in 0 .. k /\ \A m \in S : n + 1 <= m
    BY <1>1, <2>1
  <2> QED BY <1>4, <2>1, <2>2
<1> QED BY <1>4, <1>5

-----------------------------------------------------------------------------
(* Types *)

Numbered(q) == IsFiniteSet(q) /\ \A x \in q : x.seq \in Nat

\* The image of a queue under a function of its entries.
LEMMA Renumbered ==
    ASSUME NEW q, IsFiniteSet(q), NEW f, f = [x \in q |-> f[x]]
    PROVE  IsFiniteSet({f[x] : x \in q})
<1>1. f \in Surjection(q, {f[x] : x \in q})
  BY DEF Surjection
<1> QED BY <1>1, FS_Surjection

\* Enqueue: the next number is one.
LEMMA EnqueueNumbered ==
    ASSUME NEW q, Numbered(q), NEW e
    PROVE  Numbered(Enqueue(q, e))
<1> DEFINE S == {x.seq : x \in q}
           f == [x \in q |-> x.seq]
<1>1. IsFiniteSet(S)
  <2>1. S = {f[x] : x \in q} /\ f = [x \in q |-> f[x]]
    OBVIOUS
  <2> HIDE DEF f, S
  <2> QED BY <2>1, Renumbered DEF Numbered
<1>2. IsFiniteSet(S \cup {0}) /\ S \cup {0} \in SUBSET Nat
  BY <1>1, FS_AddElement DEF Numbered
<1>3. NextSeq(q) \in Nat
  BY <1>2, Maximum DEF NextSeq
<1> DEFINE y == [event |-> e, leased |-> FALSE, seq |-> NextSeq(q)]
<1>4. y.seq \in Nat
  BY <1>3
<1>5. Enqueue(q, e) = q \/ Enqueue(q, e) = q \cup {y}
  BY DEF Enqueue
<1> HIDE DEF y
<1>6. IsFiniteSet(q \cup {y})
  BY FS_AddElement DEF Numbered
<1> QED BY <1>4, <1>5, <1>6 DEF Numbered

\* What TypeOK says beyond Shape.
Counts(q, pk, pre, dl) ==
    /\ Numbered(q) /\ pk \in Seq(Agents) /\ dl \subseteq Event
    /\ \A p \in pre : p.by \in Agents \cup {None}

Bounded ==
    /\ posted \subseteq Event /\ bounced \subseteq Sessions
    /\ restarts \in 0 .. MaxRestarts /\ failures \in 0 .. MaxFailures

CInv == IInv /\ Counts(queue, parked, preflights, delivered) /\ Bounded

\* A lease begins or ends.
LEMMA LeasingNumbered ==
    ASSUME NEW q, Numbered(q), NEW x \in q, IsEntry(x), NEW l \in BOOLEAN
    PROVE  Numbered((q \ {x}) \cup {[x EXCEPT !.leased = l]})
<1> DEFINE y == [x EXCEPT !.leased = l]
<1>1. y.seq = x.seq
  <2>1. x = [event |-> x.event, leased |-> x.leased, seq |-> x.seq]
    BY DEF IsEntry
  <2>2. \A e, k, n : [[event |-> e, leased |-> k, seq |-> n] EXCEPT !.leased = l].seq = n
    OBVIOUS
  <2> QED BY <2>1, <2>2, ZenonT(30)
<1>2. IsFiniteSet((q \ {x}) \cup {y})
  BY FS_AddElement, FS_RemoveElement DEF Numbered
<1> HIDE DEF y
<1> QED BY <1>1, <1>2 DEF Numbered, y

\* leaseEvent leaves the entries numbered and the calls those of agents.
LEMMA LeaseCounts ==
    ASSUME NEW q, NEW agents, NEW a \in Agents, NEW x \in q, IsEntry(x),
           Counts(q, parked, preflights, delivered), LeaseEvent(q, x, a, agents)
    PROVE  Counts(queue', parked, preflights', delivered')
<1>4. Numbered(queue')
  BY LeasingNumbered, NoneIsNoEvent DEF Counts, LeaseEvent, Claim, IsEntry
<1>5. delivered' \subseteq Event
  BY DEF LeaseEvent, Counts, IsEntry, Offered, Event
<1>6. \A p \in preflights' : p.by \in Agents \cup {None}
  BY DEF LeaseEvent, Counts
<1> QED BY <1>4, <1>5, <1>6 DEF Counts

\* Where an index past the removed place was before.
LEMMA PastTheGap ==
    \A m, n, p, i, k \in Int :
        m = i - 1 /\ n = p - i /\ k > m /\ k <= m + n /\ 1 <= i =>
            k - m \in 1 .. n /\ i + (k - m) \in 1 .. p
  OBVIOUS

\* A poll that ends, or is served, leaves the others parked.
LEMMA RemoveAtType ==
    ASSUME NEW pk \in Seq(Agents), NEW i \in DOMAIN pk
    PROVE  /\ RemoveAt(pk, i) \in Seq(Agents)
           /\ \A k \in DOMAIN RemoveAt(pk, i) : \E j \in DOMAIN pk : RemoveAt(pk, i)[k] = pk[j]
<1> DEFINE u == SubSeq(pk, 1, i - 1)
           v == SubSeq(pk, i + 1, Len(pk))
<1>1. i \in 1 .. Len(pk) /\ Len(pk) \in Nat
  OBVIOUS
<1>2. /\ u \in Seq(Agents) /\ Len(u) = i - 1
      /\ \A k \in 1 .. Len(u) : u[k] = pk[k]
  BY <1>1, SubSeqProperties
<1>3. /\ v \in Seq(Agents) /\ Len(v) = Len(pk) - i
      /\ \A k \in 1 .. Len(v) : v[k] = pk[i + k]
  BY <1>1, SubSeqProperties
<1> HIDE DEF u, v
<1>4. \A k \in 1 .. Len(u) + Len(v) :
          (u \o v)[k] = IF k <= Len(u) THEN u[k] ELSE v[k - Len(u)]
  BY <1>2, <1>3, ConcatProperties
<1>5. u \o v \in Seq(Agents) /\ Len(u \o v) = Len(u) + Len(v)
  BY <1>2, <1>3, ConcatProperties
<1>6. ASSUME NEW k \in 1 .. Len(u) + Len(v)
      PROVE  \E j \in 1 .. Len(pk) : (u \o v)[k] = pk[j]
  <2> DEFINE m == Len(u)
             n == Len(v)
             p == Len(pk)
  <2>1. m = i - 1 /\ n = p - i /\ p \in Nat /\ i \in 1 .. p /\ k \in 1 .. m + n
    BY <1>1, <1>2, <1>3
  <2>2. /\ \A j \in 1 .. m : u[j] = pk[j]
        /\ \A j \in 1 .. n : v[j] = pk[i + j]
        /\ (u \o v)[k] = IF k <= m THEN u[k] ELSE v[k - m]
    BY <1>2, <1>3, <1>4
  <2> HIDE DEF m, n, p
  <2>3. CASE k <= m
    <3>1. k \in 1 .. m /\ k \in 1 .. p
      BY <2>1, <2>3
    <3> QED BY <2>2, <2>3, <3>1 DEF p
  <2>4. CASE ~(k <= m)
    <3>1. /\ m \in Int /\ n \in Int /\ i \in Int /\ k \in Int /\ k <= m + n /\ k > m
          /\ m = i - 1 /\ n = p - i /\ p \in Int /\ 1 <= i
      BY <2>1, <2>4
    <3>2. k - m \in 1 .. n /\ i + (k - m) \in 1 .. p
      BY <3>1, PastTheGap
    <3> DEFINE d == k - m
    <3>3. (u \o v)[k] = v[d]
      BY <2>2, <2>4
    <3>4. d \in 1 .. n /\ i + d \in 1 .. p
      BY <3>2
    <3> HIDE DEF d
    <3>5. v[d] = pk[i + d]
      BY <2>2, <3>4
    <3> QED BY <3>3, <3>4, <3>5 DEF p
  <2> QED BY <2>3, <2>4
<1>7. DOMAIN (u \o v) = 1 .. Len(u) + Len(v) /\ DOMAIN pk = 1 .. Len(pk)
  BY <1>5
<1>8. \A k \in DOMAIN (u \o v) : \E j \in DOMAIN pk : (u \o v)[k] = pk[j]
  BY <1>6, <1>7
<1>9. RemoveAt(pk, i) = u \o v
  BY DEF RemoveAt, u, v
<1> QED BY <1>5, <1>8, <1>9

\* So does the flush of what a handler has left.
LEMMA FlushCounts ==
    ASSUME NEW q, NEW agents, \A x \in q : IsEntry(x),
           Counts(q, parked, preflights, delivered), FlushPendingPolls(q, agents)
    PROVE  Counts(queue', parked', preflights', delivered')
<1>1. CASE queue' = q /\ UNCHANGED <<parked, preflights, delivered>>
  BY <1>1
<1>2. ASSUME NEW i \in DOMAIN parked, NEW x \in Selected(q, parked[i]),
             LeaseEvent(q, x, parked[i], agents), parked' = RemoveAt(parked, i)
      PROVE  Counts(queue', parked', preflights', delivered')
  <2>1. x \in q /\ parked \in Seq(Agents) /\ parked[i] \in Agents
    BY DEF Selected, FreeFor, Counts
  <2>2. Counts(queue', parked, preflights', delivered')
    BY <1>2, <2>1, LeaseCounts
  <2> QED BY <1>2, <2>1, <2>2, RemoveAtType DEF Counts
<1> QED BY <1>1, <1>2 DEF FlushPendingPolls

\* A handler that leaves q in the queue and flushes it.
LEMMA FlushedCounts ==
    ASSUME CInv, NEW q, NEW agents, \A x \in q : IsEntry(x), Numbered(q),
           FlushPendingPolls(q, agents)
    PROVE  Counts(queue', parked', preflights', delivered')
BY FlushCounts DEF CInv, Counts

\* An entry that leaves does not disturb the numbers of the others.
LEMMA FewerNumbered ==
    ASSUME NEW q, Numbered(q), NEW q2 \in SUBSET q
    PROVE  Numbered(q2)
BY FS_Subset DEF Numbered

\* An event that comes in.
LEMMA PostCounts ==
    ASSUME CInv, NEW e \in Event, NEW q \in SUBSET queue,
           FlushPendingPolls(Enqueue(q, e), agent)
    PROVE  Counts(queue', parked', preflights', delivered')
<1>1. e.id \in Sessions /\ Numbered(queue) /\ \A x \in queue : IsEntry(x)
  BY Entries DEF Event, CInv, Counts
<1>2. Numbered(Enqueue(q, e)) /\ \A x \in Enqueue(q, e) : IsEntry(x)
  BY <1>1, FewerNumbered, EnqueueNumbered, EnqueueFacts
<1> QED BY <1>2, FlushedCounts

\* A scaffolded event keeps the place in the queue it was claimed in.
LEMMA LeaseSettlesCounts ==
    ASSUME CInv, NEW p \in preflights, LeaseSettles(p)
    PROVE  Numbered(queue')
<1> DEFINE e == [p.event EXCEPT !.ready = TRUE]
           f == [x \in queue |-> IF Key(x.event) = Key(e)
                                 THEN [event |-> e, leased |-> TRUE, seq |-> x.seq] ELSE x]
<1>1. queue' = {f[x] : x \in queue}
  BY DEF LeaseSettles
<1>2. \A x \in queue : f[x].seq = x.seq
  OBVIOUS
<1>3. f = [x \in queue |-> f[x]]
  OBVIOUS
<1> HIDE DEF f
<1> QED BY <1>1, <1>2, <1>3, Renumbered DEF CInv, Counts, Numbered

\* A restart numbers what it restores by session.
LEMMA RestartCounts ==
    ASSUME CInv, Restart
    PROVE  Numbered(queue')
<1> DEFINE T == {t \in Sessions : Active(store[t]) /\ store[t].pending # None}
           f == [s \in T |-> [event |-> store[s].pending, leased |-> FALSE, seq |-> s]]
<1>1. IsFiniteSet(T)
  <2>1. IsFiniteSet(1 .. LastSession)
    BY FS_Interval, StoreAssumption
  <2>2. T \in SUBSET (1 .. LastSession)
    BY DEF Sessions
  <2> HIDE DEF T
  <2> QED BY <2>1, <2>2, FS_Subset
<1>2. queue' = {f[s] : s \in T} /\ f = [s \in T |-> f[s]]
  BY DEF Restart, Restored
<1>3. \A s \in T : f[s].seq \in Nat
  BY DEF Sessions
<1> HIDE DEF f, T
<1> QED BY <1>1, <1>2, <1>3, Renumbered DEF Numbered

\* Every step preserves the types.
LEMMA CountsNext == CInv /\ [Next]_vars => CInv'
<1> DEFINE Goal == Counts(queue', parked', preflights', delivered') /\ Bounded'
<1> SUFFICES ASSUME CInv, [Next]_vars PROVE Goal
  BY NextGood DEF CInv
<1>1. /\ Counts(queue, parked, preflights, delivered) /\ \A x \in queue : IsEntry(x)
      /\ Numbered(queue) /\ Bounded
  BY Entries DEF CInv, Counts
<1>2. CASE UNCHANGED vars
  BY <1>1, <1>2 DEF Bounded, vars, leases, bounds
<1>3. CASE Page
  <2>1. source \subseteq Sessions /\ Steers \subseteq Sessions
    BY ServerAssumption DEF CInv, IInv, Good, PostedFirst
  <2>2. ASSUME NEW e \in Event, Open(e) \/ Decide(e) \/ VariantMountFailed(e)
        PROVE  Goal
    <3>1. Bounded'
      BY <1>1, <2>2 DEF Open, Decide, VariantMountFailed, Post, Bounded, bounds
    <3>2. PICK q \in SUBSET queue : FlushPendingPolls(Enqueue(q, e), agent)
      BY <2>2 DEF Open, Decide, VariantMountFailed, Retired
    <3> QED BY <3>1, <3>2, PostCounts
  <2>3. \A s \in Sessions :
           /\ Plain(s, "generate") \in Event /\ Plain(s, "steer") \in Event
           /\ Plain(s, "discard") \in Event
    BY DEF Plain, Event, EventTypes
  <2>4. \A s \in Sessions, v \in Variants :
           /\ OfVariant(s, "accept", v) \in Event
           /\ OfVariant(s, "variant_mount_failed", v) \in Event
    BY DEF OfVariant, Plain, Event, EventTypes
  <2>5. ASSUME NEW s \in Sessions, DiscardOrphaned(s)
        PROVE  Goal
    BY <1>1, <2>5, FewerNumbered DEF DiscardOrphaned, Retired, Counts, Bounded, bounds
  <2>6. ASSUME NEW s \in Sessions, NEW r, NEW phase, Checkpoint(s, phase, r)
        PROVE  Goal
    BY <1>1, <2>6 DEF Checkpoint, leases, Bounded, bounds
  <2> HIDE DEF Goal
  <2> QED BY <1>3, <2>1, <2>2, <2>3, <2>4, <2>5, <2>6 DEF Page
<1>4. CASE Work
  <2>1. ASSUME NEW a \in Agents, Poll(a)
        PROVE  Goal
    <3>1. Bounded'
      BY <1>1, <2>1 DEF Poll, Bounded, bounds
    <3>2. CASE parked' = Append(parked, a) /\ UNCHANGED <<queue, preflights, delivered>>
      BY <1>1, <3>1, <3>2 DEF Counts
    <3>3. ASSUME NEW x \in Selected(queue, a), LeaseEvent(queue, x, a, agent),
                 UNCHANGED parked
          PROVE  Goal
      BY <1>1, <3>1, <3>3, LeaseCounts DEF Selected, FreeFor
    <3> QED BY <2>1, <3>2, <3>3 DEF Poll
  <2>2. ASSUME NEW a \in Agents, PollEnds(a)
        PROVE  Goal
    BY <1>1, <2>2, RemoveAtType DEF PollEnds, Counts, Bounded, bounds
  <2>3. ASSUME NEW a \in Agents,
               Publish(a) \/ CarryOut(a) \/ StreamGoesOn(a) \/ StreamGivesUp(a)
        PROVE  Goal
    BY <1>1, <2>3
       DEF Publish, CarryOut, StreamGoesOn, StreamGivesUp, leases, Bounded, bounds
  <2>4. ASSUME NEW a \in Agents, PublishBounces(a)
        PROVE  Goal
    <3>1. agent[a].event.id \in Sessions
      BY <2>4 DEF PublishBounces, CInv, IInv, Good, Shape, InHand
    <3>2. Bounded'
      BY <1>1, <2>4, <3>1, ServerAssumption DEF PublishBounces, Bounded
    <3> QED BY <1>1, <2>4, <3>2, FewerNumbered DEF PublishBounces, Counts
  <2>5. ASSUME NEW a \in Agents, AgentLost(a)
        PROVE  Goal
    <3>1. \A p \in preflights : IsCall(p)
      BY DEF CInv, IInv, Good, Shape
    <3>2. \A p \in preflights : [p EXCEPT !.by = None].by = None
      BY <3>1 DEF IsCall
    <3>3. Bounded'
      BY <1>1, <2>5, ServerAssumption DEF AgentLost, Bounded
    <3> QED BY <1>1, <2>5, <3>2, <3>3 DEF AgentLost, Counts
  <2>6. ASSUME NEW s, NEW r, NEW agents, HandleReply(s, r, agents)
        PROVE  Goal
    <3>1. PICK q \in SUBSET queue : FlushPendingPolls(q, agents)
      BY <2>6 DEF HandleReply
    <3>2. Bounded'
      BY <1>1, <2>6 DEF HandleReply, Bounded, bounds
    <3> QED BY <1>1, <3>1, <3>2, FewerNumbered, FlushedCounts
  <2>7. ASSUME NEW a \in Agents, ReplyTo(a) \/ \E type \in {"complete", "error"} : Finish(a, type)
        PROVE  Goal
    <3> HIDE DEF Goal
    <3> QED BY <2>6, <2>7 DEF ReplyTo, Replies, Finish
  <2>8. ASSUME NEW x \in queue, NEW agents,
               FlushPendingPolls((queue \ {x}) \cup {[x EXCEPT !.leased = FALSE]}, agents)
        PROVE  Counts(queue', parked', preflights', delivered')
    <3>1. Numbered((queue \ {x}) \cup {[x EXCEPT !.leased = FALSE]})
      BY <1>1, LeasingNumbered
    <3>2. IsEntry([x EXCEPT !.leased = FALSE])
      BY <1>1, Leasing
    <3> QED BY <1>1, <2>8, <3>1, <3>2, FlushedCounts
  <2>9. ASSUME NEW a \in Agents, GiveBack(a)
        PROVE  Goal
    <3>1. Bounded'
      BY <1>1, <2>9, ServerAssumption DEF GiveBack, Bounded
    <3> QED BY <2>8, <2>9, <3>1 DEF GiveBack, First, Matches
  <2>10. ASSUME NEW x \in queue, LeaseExpires(x)
         PROVE  Goal
    <3>1. Bounded'
      BY <1>1, <2>10 DEF LeaseExpires, Bounded, bounds
    <3> QED BY <2>8, <2>10, <3>1 DEF LeaseExpires
  <2>11. ASSUME NEW p \in preflights, LeaseSettles(p)
         PROVE  Goal
    <3>1. Bounded'
      BY <1>1, <2>11 DEF LeaseSettles, Bounded, bounds
    <3> QED BY <1>1, <2>11, <3>1, LeaseSettlesCounts DEF LeaseSettles, Counts
  <2>12. ASSUME NEW p \in preflights, LeaseFails(p)
         PROVE  Goal
    <3>1. Bounded'
      BY <1>1, <2>12, ServerAssumption DEF LeaseFails, Bounded
    <3> QED BY <1>1, <2>12, <3>1 DEF LeaseFails, Counts
  <2> HIDE DEF Goal
  <2> QED BY <1>4, <2>1, <2>2, <2>3, <2>4, <2>5, <2>7, <2>9, <2>10, <2>11, <2>12 DEF Work
<1>5. CASE Restart
  BY <1>1, <1>5, RestartCounts, ServerAssumption DEF Restart, Counts, Bounded
<1> HIDE DEF Goal
<1> QED BY <1>2, <1>3, <1>4, <1>5 DEF Next

\* A server that has just started.
LEMMA InitTypes == Init => CInv
<1>1. Init => Counts(queue, parked, preflights, delivered)
  BY FS_EmptySet DEF Init, Counts, Numbered
<1> QED BY <1>1, InitGood, ServerAssumption DEF Init, CInv, Bounded

\* The types of the server and its agents.
THEOREM ServerTypes == Spec => []TypeOK
<1>1. CInv => TypeOK
  <2> SUFFICES ASSUME CInv PROVE TypeOK
    OBVIOUS
  <2>1. queue \subseteq Entry
    BY DEF CInv, Counts, Numbered, IInv, Good, Shape, IsEntry, Entry
  <2>2. preflights \subseteq [event : Event, by : Agents \cup {None}]
    BY DEF CInv, Counts, IInv, Good, Shape, IsCall
  <2> QED BY <2>1, <2>2
          DEF TypeOK, CInv, Bounded, Counts, Numbered, IInv, Good, Shape, PostedFirst
<1> QED BY <1>1, InitTypes, CountsNext, PTL DEF Spec

-----------------------------------------------------------------------------
(* Parked polls *)

PInv == CInv /\ PollsAreServed

\* flushPendingPolls: if at most x was free for those who wait, nothing is then.
LEMMA FlushServes ==
    ASSUME parked \in Seq(Agents), NEW q, \A z \in q : IsEntry(z), NEW agents, NEW x,
           \A i \in DOMAIN parked : FreeFor(q, parked[i]) \subseteq {x},
           FlushPendingPolls(q, agents)
    PROVE  PollsAreServed'
<1>1. CASE {i \in DOMAIN parked : FreeFor(q, parked[i]) # {}} = {} /\ queue' = q /\ parked' = parked
  BY <1>1 DEF PollsAreServed
<1>2. ASSUME NEW i \in DOMAIN parked, NEW z \in Selected(q, parked[i]),
             LeaseEvent(q, z, parked[i], agents), parked' = RemoveAt(parked, i)
      PROVE  PollsAreServed'
  <2> DEFINE y == [z EXCEPT !.leased = TRUE]
  <2>1. z \in FreeFor(q, parked[i]) /\ z = x /\ IsEntry(z)
    BY DEF Selected, FreeFor
  <2>2. queue' = (q \ {x}) \cup {y} /\ y.leased
    BY <1>2, <2>1, Leasing, NoneIsNoEvent DEF LeaseEvent, Claim, IsEntry
  <2> HIDE DEF y
  <2>3. \A a : FreeFor(queue', a) \subseteq FreeFor(q, a) \ {x}
    BY <2>2 DEF FreeFor
  <2> QED BY <1>2, <2>3, RemoveAtType DEF PollsAreServed
<1> QED BY <1>1, <1>2 DEF FlushPendingPolls

\* An event that comes in is the only one that can be free for those who wait.
LEMMA PostServes ==
    ASSUME PInv, NEW e \in Event, NEW q \in SUBSET queue,
           FlushPendingPolls(Enqueue(q, e), agent)
    PROVE  PollsAreServed'
<1> DEFINE y == [event |-> e, leased |-> FALSE, seq |-> NextSeq(q)]
<1>1. e.id \in Sessions /\ parked \in Seq(Agents) /\ \A x \in queue : IsEntry(x)
  BY Entries DEF Event, PInv, CInv, Counts
<1>2. \A x \in Enqueue(q, e) : IsEntry(x)
  BY <1>1, EnqueueFacts
<1>3. Enqueue(q, e) \subseteq queue \cup {y}
  BY DEF Enqueue
<1> HIDE DEF y
<1>4. \A i \in DOMAIN parked : FreeFor(Enqueue(q, e), parked[i]) \subseteq {y}
  BY <1>3 DEF PInv, PollsAreServed, FreeFor
<1> QED BY <1>1, <1>2, <1>4, FlushServes

\* So is one whose lease ends.
LEMMA FreedServes ==
    ASSUME PInv, NEW x \in queue, NEW agents,
           FlushPendingPolls((queue \ {x}) \cup {[x EXCEPT !.leased = FALSE]}, agents)
    PROVE  PollsAreServed'
<1> DEFINE y == [x EXCEPT !.leased = FALSE]
           q == (queue \ {x}) \cup {y}
<1>1. parked \in Seq(Agents) /\ \A z \in queue : IsEntry(z)
  BY Entries DEF PInv, CInv, Counts
<1>2. IsEntry(y)
  BY <1>1, Leasing
<1> HIDE DEF y
<1>3. \A i \in DOMAIN parked : FreeFor(q, parked[i]) \subseteq {y}
  BY DEF PInv, PollsAreServed, FreeFor
<1>4. FlushPendingPolls(q, agents) /\ \A z \in q : IsEntry(z)
  BY <1>1, <1>2 DEF y
<1> HIDE DEF q
<1> QED BY <1>1, <1>3, <1>4, FlushServes

\* Every step serves the polls that wait.
LEMMA ServedNext == PInv /\ [Next]_vars => PInv'
<1> SUFFICES ASSUME PInv, [Next]_vars PROVE PollsAreServed'
  BY CountsNext DEF PInv
<1>1. parked \in Seq(Agents) /\ \A x \in queue : IsEntry(x)
  BY Entries DEF PInv, CInv, Counts
<1>2. \A q : (\A x \in q : ~x.leased => x \in queue) =>
          \A i \in DOMAIN parked : FreeFor(q, parked[i]) = {}
  BY DEF PInv, PollsAreServed, FreeFor
<1>3. ASSUME UNCHANGED parked, \A x \in queue' : ~x.leased => x \in queue
      PROVE  PollsAreServed'
  BY <1>2, <1>3 DEF PollsAreServed
<1>4. CASE UNCHANGED vars
  BY <1>3, <1>4 DEF vars, leases
<1>5. CASE Page
  <2>1. source \subseteq Sessions /\ Steers \subseteq Sessions
    BY ServerAssumption DEF PInv, CInv, IInv, Good, PostedFirst
  <2>2. ASSUME NEW e \in Event, Open(e) \/ Decide(e) \/ VariantMountFailed(e)
        PROVE  PollsAreServed'
    <3>1. PICK q \in SUBSET queue : FlushPendingPolls(Enqueue(q, e), agent)
      BY <2>2 DEF Open, Decide, VariantMountFailed, Retired
    <3> QED BY <3>1, PostServes
  <2>3. \A s \in Sessions :
           /\ Plain(s, "generate") \in Event /\ Plain(s, "steer") \in Event
           /\ Plain(s, "discard") \in Event
    BY DEF Plain, Event, EventTypes
  <2>4. \A s \in Sessions, v \in Variants :
           /\ OfVariant(s, "accept", v) \in Event
           /\ OfVariant(s, "variant_mount_failed", v) \in Event
    BY DEF OfVariant, Plain, Event, EventTypes
  <2>5. ASSUME NEW s, NEW r, NEW phase, DiscardOrphaned(s) \/ Checkpoint(s, phase, r)
        PROVE  PollsAreServed'
    BY <1>3, <2>5 DEF DiscardOrphaned, Checkpoint, Retired, leases
  <2> QED BY <1>5, <2>1, <2>2, <2>3, <2>4, <2>5 DEF Page
<1>6. CASE Work
  <2>1. ASSUME NEW a \in Agents, Poll(a)
        PROVE  PollsAreServed'
    <3>1. CASE FreeFor(queue, a) = {} /\ parked' = Append(parked, a) /\ UNCHANGED queue
      <4>1. \A i \in DOMAIN parked' :
               parked'[i] = a \/ \E j \in DOMAIN parked : parked'[i] = parked[j]
        BY <1>1, <3>1
      <4> QED BY <3>1, <4>1 DEF PInv, PollsAreServed
    <3>2. ASSUME NEW x \in Selected(queue, a), LeaseEvent(queue, x, a, agent),
                 UNCHANGED parked
          PROVE  PollsAreServed'
      <4>1. IsEntry(x) /\ x \in queue
        BY <1>1 DEF Selected, FreeFor
      <4>2. queue' = (queue \ {x}) \cup {[x EXCEPT !.leased = TRUE]}
        BY <3>2, <4>1, NoneIsNoEvent DEF LeaseEvent, Claim, IsEntry
      <4>3. [x EXCEPT !.leased = TRUE].leased
        BY <4>1, Leasing
      <4> QED BY <1>3, <3>2, <4>2, <4>3
    <3> QED BY <2>1, <3>1, <3>2 DEF Poll
  <2>2. ASSUME NEW a \in Agents, PollEnds(a)
        PROVE  PollsAreServed'
    BY <1>1, <2>2, RemoveAtType DEF PollEnds, PInv, PollsAreServed
  <2>3. ASSUME NEW a \in Agents,
               \/ Publish(a) \/ CarryOut(a) \/ StreamGoesOn(a) \/ StreamGivesUp(a)
               \/ PublishBounces(a) \/ AgentLost(a)
        PROVE  PollsAreServed'
    BY <1>3, <2>3
       DEF Publish, CarryOut, StreamGoesOn, StreamGivesUp, PublishBounces, AgentLost, leases
  <2>4. ASSUME NEW s, NEW r, NEW agents, HandleReply(s, r, agents)
        PROVE  PollsAreServed'
    <3>1. PICK q \in SUBSET queue : FlushPendingPolls(q, agents)
      BY <2>4 DEF HandleReply
    <3>2. \A i \in DOMAIN parked : FreeFor(q, parked[i]) \subseteq {0}
      BY <1>2, <3>1
    <3> QED BY <1>1, <3>1, <3>2, FlushServes
  <2>5. ASSUME NEW a \in Agents, ReplyTo(a) \/ \E type \in {"complete", "error"} : Finish(a, type)
        PROVE  PollsAreServed'
    BY <2>4, <2>5 DEF ReplyTo, Replies, Finish
  <2>6. ASSUME NEW a \in Agents, GiveBack(a)
        PROVE  PollsAreServed'
    BY <2>6, FreedServes DEF GiveBack, First, Matches
  <2>7. ASSUME NEW x \in queue, LeaseExpires(x)
        PROVE  PollsAreServed'
    BY <2>7, FreedServes DEF LeaseExpires
  <2>8. ASSUME NEW p \in preflights, LeaseSettles(p) \/ LeaseFails(p)
        PROVE  PollsAreServed'
    BY <1>3, <2>8 DEF LeaseSettles, LeaseFails
  <2> QED BY <1>6, <2>1, <2>2, <2>3, <2>5, <2>6, <2>7, <2>8 DEF Work
<1>7. CASE Restart
  BY <1>7 DEF Restart, PollsAreServed
<1> QED BY <1>4, <1>5, <1>6, <1>7 DEF Next

\* No poll is left parked beside an event it asked for, whichever handler queued
\* or freed the event.
THEOREM ParkedPollsAreServed == Spec => []PollsAreServed
<1>1. Init => PInv
  BY InitTypes DEF Init, PInv, PollsAreServed
<1>2. PInv => PollsAreServed
  BY DEF PInv
<1> QED BY <1>1, <1>2, ServedNext, PTL DEF Spec

-----------------------------------------------------------------------------
(* Refinement *)

\* Some agent has been handed the event of session s with type t.
Had(dl, s, t) == \E e \in dl : e.id = s /\ e.type = t

\* A failed mount is none of the jobs: what answers it may have answered the
\* generation.
JobHad(dl, e) == e.type # "variant_mount_failed" => Had(dl, e.id, e.type)

\* A variant fails to mount only after the generation was handed to an agent,
\* and a session carries steers or a generation.
Plausible(dl, e) ==
    /\ e.type = "variant_mount_failed" => Had(dl, e.id, "generate")
    /\ e.type = "steer" <=> e.id \in Steers

\* What is leased, scaffolded, in hand, or in the source, was handed to an agent.
Handed(st, src, q, pre, ag, dl) ==
    /\ \A x \in q : /\ x.leased => Had(dl, x.event.id, x.event.type)
                    /\ Plausible(dl, x.event)
    /\ \A p \in pre : Had(dl, p.event.id, p.event.type) /\ Plausible(dl, p.event)
    /\ \A a \in Agents : ag[a].event # None =>
          /\ Had(dl, ag[a].event.id, ag[a].event.type)
          /\ Plausible(dl, ag[a].event)
    /\ \A a \in Agents : ag[a].at = "finishing" => ag[a].event.type = "accept"
    /\ \A s \in src : Had(dl, s, "generate") /\ s \notin Steers
    /\ \A s \in Sessions : st[s].pending # None => Plausible(dl, st[s].pending)

AllHanded == Handed(store, source, queue, preflights, agent, delivered)

HInv == CInv /\ AllHanded

Wants(snap, t) == snap.phase \notin CompletedPhases /\ (t = "generate" => ~snap.canceled)

\* An event that leaves the queue was handed to an agent, or is not wanted.
Leaves(q, q2, dl, st2) ==
    \A x \in q :
        \/ \E y \in q2 : y.event.id = x.event.id /\ y.event.type = x.event.type
        \/ JobHad(dl, x.event)
        \/ ~Wants(st2[x.event.id], x.event.type)

\* What a step of a running server does to the jobs of the queue.
Moves ==
    /\ restarts' = restarts /\ delivered \subseteq delivered'
    /\ Leaves(queue, queue', delivered, store')

-----------------------------------------------------------------------------
(* Such a step, and a restart, are steps of the abstract queue *)

\* The abstract queue starts empty, as the server does.
LEMMA PromiseInit == Init => Promise!Init
<1> SUFFICES ASSUME Init PROVE Promise!Init
  OBVIOUS
<1>1. \A j \in Jobs : PlaceOf(j) = "out" /\ ~IsServed(j)
  BY DEF Init, PlaceOf, Of, IsServed
<1> QED BY <1>1 DEF Promise!Init

\* A step of a running server moves each job as the abstract queue may.
LEMMA MovesIsWork == HInv /\ HInv' /\ Moves => Promise!Work
<1> SUFFICES ASSUME HInv, HInv', Moves PROVE Promise!Work
  OBVIOUS
<1>1. \A j \in Jobs : IsServed(j) => IsServed(j)'
  BY DEF IsServed, Moves
<1>2. \A j \in Jobs : /\ PlaceOf(j) = "held" => IsServed(j)
                      /\ PlaceOf(j)' = "held" => IsServed(j)'
  BY DEF HInv, AllHanded, Handed, Had, PlaceOf, Of, IsServed
<1>3. ASSUME NEW j \in Jobs, PlaceOf(j) # "out", PlaceOf(j)' = "out"
      PROVE  IsServed(j) \/ ~IsWanted(j)'
  <2>1. PICK x \in queue : x.event.id = j[1] /\ x.event.type = j[2]
    BY <1>3 DEF PlaceOf, Of
  <2>2. \A y \in queue' : ~(y.event.id = j[1] /\ y.event.type = j[2])
    BY <1>3 DEF PlaceOf, Of
  <2>3. j[2] # "variant_mount_failed"
    BY DEF Jobs
  <2> QED BY <2>1, <2>2, <2>3 DEF Moves, Leaves, JobHad, Had, Wants, IsServed, IsWanted
<1>4. \A j \in Jobs : PlaceOf(j) \in {"out", "waiting", "held"}
                      /\ PlaceOf(j)' \in {"out", "waiting", "held"}
  BY DEF PlaceOf
<1>5. ASSUME NEW j \in Jobs
      PROVE  \/ Promise!Submit(j) \/ Promise!SubmitToParkedPoll(j) \/ Promise!Take(j)
             \/ Promise!GiveBack(j) \/ Promise!Finish(j) \/ Promise!Withdraw(j)
             \/ Promise!Stays(j)
  BY <1>1, <1>2, <1>3, <1>4
     DEF Promise!Submit, Promise!SubmitToParkedPoll, Promise!Take, Promise!GiveBack,
         Promise!Finish, Promise!Withdraw, Promise!Stays, Promise!Served
<1> QED BY <1>1, <1>5 DEF Promise!Work, Moves

\* A restart loses every hold and nothing that was handed out.
LEMMA RestartIsCrash == HInv /\ Restart => Promise!Crash
<1> SUFFICES ASSUME HInv, Restart PROVE Promise!Crash
  OBVIOUS
<1>1. restarts' # restarts
  BY DEF HInv, CInv, Bounded, Restart
<1>2. \A j \in Jobs : IsServed(j)' = IsServed(j)
  BY DEF Restart, IsServed
<1>3. \A x \in queue' : ~x.leased
  BY DEF Restart, Restored
<1>4. \A j \in Jobs : PlaceOf(j)' \in {"out", "waiting"}
  BY <1>3 DEF PlaceOf, Of
<1> QED BY <1>1, <1>2, <1>4 DEF Promise!Crash

-----------------------------------------------------------------------------
(* Leasing, and the flush *)

\* Nothing that was handed out is forgotten.
LEMMA Grows ==
    ASSUME NEW dl, NEW dl2, dl \subseteq dl2
    PROVE  /\ \A s, t : Had(dl, s, t) => Had(dl2, s, t)
           /\ \A e : Plausible(dl, e) => Plausible(dl2, e)
BY DEF Had, Plausible

SameEvents(q, q2) == \A x \in q : \E y \in q2 : y.event = x.event

\* leaseEvent: who gets an event has had it.
LEMMA LeaseHanded ==
    ASSUME NEW st, NEW src, NEW q, NEW agents \in [Agents -> Activity], NEW a,
           NEW x \in q, IsEntry(x),
           Handed(st, src, q, preflights, agents, delivered), LeaseEvent(q, x, a, agents)
    PROVE  /\ Handed(st, src, queue', preflights', agent', delivered')
           /\ delivered \subseteq delivered' /\ SameEvents(q, queue')
<1> DEFINE y == [x EXCEPT !.leased = TRUE]
           e == x.event
<1>1. IsEntry(y) /\ y.event = e
  BY Leasing
<1>2. queue' = (q \ {x}) \cup {y}
  BY NoneIsNoEvent DEF LeaseEvent, Claim, IsEntry
<1>3. /\ delivered' = delivered \cup {Offered(e)}
      /\ \A p \in preflights' : p \in preflights \/ p.event = e
  BY DEF LeaseEvent
<1>4. /\ agent'[a] = [at |-> agent'[a].at, event |-> e] \/ a \notin Agents
      /\ \A b \in Agents \ {a} : agent'[b] = agents[b]
      /\ a \in Agents => agent'[a].at # "finishing" /\ agent'[a].event = e
  BY DEF LeaseEvent
<1>5. Had(delivered', e.id, e.type)
  <2>1. e \in Event
    BY DEF IsEntry
  <2>2. Offered(e).id = e.id /\ Offered(e).type = e.type
    BY <2>1 DEF Offered, Event
  <2> QED BY <1>3, <2>2 DEF Had
<1>6. Plausible(delivered', e)
  BY <1>3, Grows DEF Handed
<1>7. /\ \A s, t : Had(delivered, s, t) => Had(delivered', s, t)
      /\ \A f : Plausible(delivered, f) => Plausible(delivered', f)
  BY <1>3, Grows
<1> HIDE DEF y, e
<1>8. \A z \in queue' : /\ z.leased => Had(delivered', z.event.id, z.event.type)
                        /\ Plausible(delivered', z.event)
  BY <1>1, <1>2, <1>5, <1>6, <1>7 DEF Handed
<1>9. \A p \in preflights' :
           Had(delivered', p.event.id, p.event.type) /\ Plausible(delivered', p.event)
  BY <1>3, <1>5, <1>6, <1>7 DEF Handed
<1>10. \A b \in Agents : /\ agent'[b].event # None =>
                               /\ Had(delivered', agent'[b].event.id, agent'[b].event.type)
                               /\ Plausible(delivered', agent'[b].event)
                         /\ agent'[b].at = "finishing" => agent'[b].event.type = "accept"
  BY <1>4, <1>5, <1>6, <1>7 DEF Handed
<1>11. Handed(st, src, queue', preflights', agent', delivered')
  BY <1>7, <1>8, <1>9, <1>10 DEF Handed
<1>12. SameEvents(q, queue')
  BY <1>1, <1>2 DEF SameEvents, e
<1> QED BY <1>3, <1>11, <1>12

\* A handler that leaves q in the queue and flushes it.
LEMMA Flushed ==
    ASSUME NEW q, NEW agents \in [Agents -> Activity], \A x \in q : IsEntry(x),
           Handed(store', source', q, preflights, agents, delivered),
           Leaves(queue, q, delivered, store'),
           FlushPendingPolls(q, agents), restarts' = restarts
    PROVE  Moves /\ AllHanded'
<1>1. /\ Handed(store', source', queue', preflights', agent', delivered')
      /\ delivered \subseteq delivered' /\ SameEvents(q, queue')
  <2>1. CASE queue' = q /\ agent' = agents /\ UNCHANGED <<parked, preflights, delivered>>
    BY <2>1 DEF SameEvents
  <2>2. ASSUME NEW i \in DOMAIN parked, NEW x \in Selected(q, parked[i]),
               LeaseEvent(q, x, parked[i], agents)
        PROVE  /\ Handed(store', source', queue', preflights', agent', delivered')
               /\ delivered \subseteq delivered' /\ SameEvents(q, queue')
    <3>1. x \in q
      BY DEF Selected, FreeFor
    <3> QED BY <2>2, <3>1, LeaseHanded
  <2> QED BY <2>1, <2>2 DEF FlushPendingPolls
<1>2. Leaves(queue, queue', delivered, store')
  BY <1>1 DEF Leaves, SameEvents
<1> QED BY <1>1, <1>2 DEF Moves, AllHanded

-----------------------------------------------------------------------------
(* What the pages post *)

\* A handler takes in an event of session s and drops entries it does not want.
LEMMA Posted ==
    ASSUME HInv, NEW e \in Event, NEW n \in Snapshot, NEW q,
           store' = [store EXCEPT ![e.id] = n], UNCHANGED <<source, restarts>>,
           q \subseteq queue,
           \A x \in queue \ q : x.event.id = e.id /\ ~Wants(n, x.event.type),
           n.pending \in {None, e, store[e.id].pending}, Plausible(delivered, e),
           FlushPendingPolls(Enqueue(q, e), agent)
    PROVE  Moves /\ AllHanded'
<1> DEFINE q2 == Enqueue(q, e)
           y == [event |-> e, leased |-> FALSE, seq |-> NextSeq(q)]
<1>1. /\ store \in [Sessions -> Snapshot] /\ agent \in [Agents -> Activity]
      /\ e.id \in Sessions /\ \A x \in q : IsEntry(x)
  BY DEF HInv, CInv, IInv, Good, Shape, Event
<1>2. q \subseteq q2 /\ \A x \in q2 : IsEntry(x)
  BY <1>1, EnqueueFacts
<1>3. q2 = q \/ q2 = q \cup {y}
  BY NoneIsNoEvent DEF Enqueue
<1>4. y.event = e /\ ~y.leased
  OBVIOUS
<1> HIDE DEF q2, y
<1>5. Handed(store', source', q2, preflights, agent, delivered)
  <2>1. \A x \in q2 : /\ x.leased => Had(delivered, x.event.id, x.event.type)
                      /\ Plausible(delivered, x.event)
    BY <1>3, <1>4 DEF HInv, AllHanded, Handed
  <2>2. \A s \in Sessions : store'[s].pending # None => Plausible(delivered, store'[s].pending)
    BY <1>1 DEF HInv, AllHanded, Handed
  <2> QED BY <2>1, <2>2 DEF HInv, AllHanded, Handed
<1>6. Leaves(queue, q2, delivered, store')
  BY <1>1, <1>2 DEF Leaves
<1>7. FlushPendingPolls(q2, agent)
  BY DEF q2
<1> QED BY <1>1, <1>2, <1>5, <1>6, <1>7, Flushed

\* Open.
LEMMA OpenMoves ==
    ASSUME HInv, NEW e \in Event, e.type \in {"generate", "steer"},
           e.type = "steer" <=> e.id \in Steers, Open(e)
    PROVE  Moves /\ AllHanded'
<1> DEFINE n == IF e.type = "generate" THEN ApplyGenerate(store[e.id], e)
                ELSE ApplySteer(store[e.id], e)
<1>1. store[e.id] \in Snapshot
  BY DEF HInv, CInv, IInv, Good, Shape, Event
<1>2. n \in Snapshot /\ n.pending = e
  BY <1>1 DEF ApplyGenerate, ApplySteer, Snapshot, Phases
<1>3. store' = [store EXCEPT ![e.id] = n]
  BY DEF Open
<1>4. UNCHANGED <<source, restarts>> /\ FlushPendingPolls(Enqueue(queue, e), agent)
  BY DEF Open, bounds
<1> HIDE DEF n
<1> QED BY <1>2, <1>3, <1>4, Posted DEF Plausible

\* Decide: the generation that is retired is not wanted any more.
LEMMA DecideMoves ==
    ASSUME HInv, NEW e \in Event, e.id \in source, e.type \in Decisions, Decide(e)
    PROVE  Moves /\ AllHanded'
<1> DEFINE n == ApplyDecision(store[e.id], e)
           q == Retired(queue, e.id)
<1>1. store[e.id] \in Snapshot
  BY DEF HInv, CInv, IInv, Good, Shape, Event
<1>2. n \in Snapshot /\ n.pending = e /\ n.canceled
  BY <1>1 DEF ApplyDecision, Snapshot, Phases, FencedPhases
<1>3. q \subseteq queue /\ \A x \in queue \ q : x.event.id = e.id /\ x.event.type = "generate"
  BY DEF Retired
<1>4. store' = [store EXCEPT ![e.id] = n] /\ FlushPendingPolls(Enqueue(q, e), agent)
  BY DEF Decide
<1>5. UNCHANGED <<source, restarts>> /\ Plausible(delivered, e)
  BY DEF Decide, bounds, Plausible, Decisions, HInv, AllHanded, Handed
<1> HIDE DEF n, q
<1> QED BY <1>2, <1>3, <1>4, <1>5, Posted DEF Wants

\* A page mounts what an agent has published.
LEMMA MountFailedMoves ==
    ASSUME HInv, NEW e \in Event, e.id \in source,
           e.type = "variant_mount_failed", VariantMountFailed(e)
    PROVE  Moves /\ AllHanded'
<1> DEFINE n == ApplyMountFailed(store[e.id], e)
<1>1. store[e.id] \in Snapshot
  BY DEF HInv, CInv, IInv, Good, Shape, Event
<1>2. n \in Snapshot /\ n.pending \in {e, store[e.id].pending}
  BY <1>1 DEF ApplyMountFailed, Snapshot
<1>3. Plausible(delivered, e)
  BY DEF HInv, AllHanded, Handed, Plausible
<1>4. /\ store' = [store EXCEPT ![e.id] = n] /\ UNCHANGED <<source, restarts>>
      /\ FlushPendingPolls(Enqueue(queue, e), agent)
  BY DEF VariantMountFailed, bounds
<1> HIDE DEF n
<1> QED BY <1>2, <1>3, <1>4, Posted

\* The journal alone changes, or the queue loses what the journal closes.
LEMMA StoreMoves ==
    ASSUME HInv, NEW s \in Sessions, NEW n \in Snapshot,
           store' = [store EXCEPT ![s] = n], n.pending \in {None, store[s].pending},
           UNCHANGED <<source, preflights, agent, delivered, restarts>>,
           queue' \subseteq queue,
           \A x \in queue \ queue' : x.event.id = s /\ ~Wants(n, x.event.type)
    PROVE  Moves /\ AllHanded'
<1>1. store \in [Sessions -> Snapshot]
  BY DEF HInv, CInv, IInv, Good, Shape
<1>2. Moves
  BY <1>1 DEF Moves, Leaves
<1>3. \A t \in Sessions : store'[t].pending # None => Plausible(delivered, store'[t].pending)
  BY <1>1 DEF HInv, AllHanded, Handed
<1>4. AllHanded'
  BY <1>3 DEF HInv, AllHanded, Handed
<1> QED BY <1>2, <1>4

\* The orphaned discard, and checkpoints.
LEMMA DiscardOrphanedMoves ==
    ASSUME HInv, NEW s \in Sessions, DiscardOrphaned(s)
    PROVE  Moves /\ AllHanded'
<1> DEFINE n == ApplyDiscarded(ApplyDecision(store[s], Plain(s, "discard")))
<1>1. store[s] \in Snapshot
  BY DEF HInv, CInv, IInv, Good, Shape
<1>2. Plain(s, "discard") \in Event
  BY DEF Plain, Event, EventTypes
<1>3. n \in Snapshot /\ n.pending = None /\ n.phase \in CompletedPhases
  BY <1>1, <1>2 DEF ApplyDecision, ApplyDiscarded, Snapshot, Phases, FencedPhases, CompletedPhases
<1>4. /\ queue' \subseteq queue /\ \A x \in queue \ queue' : x.event.id = s
      /\ store' = [store EXCEPT ![s] = n]
      /\ UNCHANGED <<source, preflights, agent, delivered, restarts>>
  BY DEF DiscardOrphaned, Retired, bounds
<1> HIDE DEF n
<1> QED BY <1>3, <1>4, StoreMoves DEF Wants

\* A checkpoint is about the journal only.
LEMMA CheckpointMoves ==
    ASSUME HInv, NEW s \in Sessions, NEW phase \in BrowserPhases, NEW r \in 0 .. MaxRevision,
           Checkpoint(s, phase, r)
    PROVE  Moves /\ AllHanded'
<1> DEFINE n == ApplyCheckpoint(store[s], phase, r)
<1>1. store[s] \in Snapshot
  BY DEF HInv, CInv, IInv, Good, Shape
<1>2. n \in Snapshot /\ n.pending = store[s].pending
  BY <1>1 DEF ApplyCheckpoint, Snapshot, Phases
<1>3. /\ store' = [store EXCEPT ![s] = n]
      /\ UNCHANGED <<source, queue, preflights, agent, delivered, restarts>>
  BY DEF Checkpoint, leases, bounds
<1> HIDE DEF n
<1> QED BY <1>2, <1>3, StoreMoves

-----------------------------------------------------------------------------
(* Polls and leases *)

\* A poll is handed the best free event, or parked.
LEMMA PollMoves ==
    ASSUME HInv, NEW a \in Agents, Poll(a)
    PROVE  Moves /\ AllHanded'
<1>1. UNCHANGED <<store, source, restarts>> /\ agent \in [Agents -> Activity]
  BY DEF Poll, bounds, HInv, CInv, IInv, Good, Shape
<1>2. ASSUME NEW x \in Selected(queue, a), LeaseEvent(queue, x, a, agent)
      PROVE  Moves /\ AllHanded'
  <2>1. x \in queue /\ IsEntry(x)
    BY Entries DEF Selected, FreeFor, HInv, CInv
  <2>2. /\ Handed(store, source, queue', preflights', agent', delivered')
        /\ delivered \subseteq delivered' /\ SameEvents(queue, queue')
    BY <1>1, <1>2, <2>1, LeaseHanded DEF HInv, AllHanded
  <2> QED BY <1>1, <2>2 DEF Moves, AllHanded, Leaves, SameEvents
<1>3. CASE agent' = [agent EXCEPT ![a].at = "parked"] /\ UNCHANGED <<queue, preflights, delivered>>
  <2>1. /\ agent' = [agent EXCEPT ![a] = [@ EXCEPT !.at = "parked"]]
        /\ agent[a] \in Activity
    BY <1>1, <1>3
  <2>2. agent'[a].event = agent[a].event /\ agent'[a].at = "parked"
        /\ \A b \in Agents \ {a} : agent'[b] = agent[b]
    BY <1>1, <2>1 DEF Activity
  <2>3. AllHanded'
    BY <1>1, <1>3, <2>2 DEF HInv, AllHanded, Handed
  <2> QED BY <1>1, <1>3, <2>3 DEF Moves, Leaves
<1> QED BY <1>2, <1>3 DEF Poll

\* An agent lets go of its event, or goes on with it; the queue stays.
LEMMA AgentMoves ==
    ASSUME HInv, NEW a \in Agents, NEW v, agent' = [agent EXCEPT ![a] = v],
           v.event \in {None, agent[a].event},
           v.at = "finishing" => v.event.type = "accept",
           UNCHANGED <<store, queue, delivered, restarts>>,
           \A s \in source' \ source : Had(delivered, s, "generate") /\ s \notin Steers,
           \A r \in preflights' : \E p \in preflights : r.event = p.event
    PROVE  Moves /\ AllHanded'
<1>1. /\ agent \in [Agents -> Activity]
      /\ agent'[a] = v /\ \A b \in Agents \ {a} : agent'[b] = agent[b]
  BY DEF HInv, CInv, IInv, Good, Shape
<1>2. \A b \in Agents : /\ agent'[b].event # None =>
                              /\ Had(delivered, agent'[b].event.id, agent'[b].event.type)
                              /\ Plausible(delivered, agent'[b].event)
                        /\ agent'[b].at = "finishing" => agent'[b].event.type = "accept"
  BY <1>1 DEF HInv, AllHanded, Handed
<1>3. AllHanded'
  BY <1>2 DEF HInv, AllHanded, Handed
<1> QED BY <1>3 DEF Moves, Leaves

\* Idle: an agent without an event.
LEMMA IdleMoves ==
    ASSUME HInv, NEW a \in Agents, agent' = [agent EXCEPT ![a] = Idle],
           UNCHANGED <<store, source, queue, delivered, restarts>>,
           \A r \in preflights' : \E p \in preflights : r.event = p.event
    PROVE  Moves /\ AllHanded'
<1>1. Idle.event = None /\ Idle.at # "finishing"
  BY IdleFacts
<1> HIDE DEF Idle
<1> QED BY <1>1, AgentMoves

\* The preflight's call returns, with its event or without.
LEMMA LeaseSettlesMoves ==
    ASSUME HInv, NEW p \in preflights, LeaseSettles(p)
    PROVE  Moves /\ AllHanded'
<1> DEFINE e == [p.event EXCEPT !.ready = TRUE]
           s == p.event.id
           E(x) == [event |-> e, leased |-> TRUE, seq |-> x.seq]
<1>1. IsCall(p) /\ s \in Sessions /\ store \in [Sessions -> Snapshot]
      /\ agent \in [Agents -> Activity] /\ \A x \in queue : IsEntry(x)
  BY DEF HInv, CInv, IInv, Good, Shape, IsCall
<1>2. e \in Event /\ e.id = s /\ e.type = "generate" /\ Key(e) = Key(p.event)
  BY <1>1 DEF IsCall, Event, Key, AwaitsPreflight
<1>3. Had(delivered, e.id, e.type) /\ Plausible(delivered, e)
  BY <1>1, <1>2 DEF HInv, AllHanded, Handed, Plausible, IsCall, AwaitsPreflight
<1>4. /\ preflights' \subseteq preflights /\ UNCHANGED <<source, delivered, restarts>>
      /\ store' = [store EXCEPT ![s] = ApplyGenerate(@, e)]
  BY <1>2 DEF LeaseSettles, bounds
<1>5. /\ \A t \in Sessions \ {s} : store'[t] = store[t]
      /\ store'[s].pending = e
  <2>1. ApplyGenerate(store[s], e).pending = e
    BY <1>1 DEF ApplyGenerate, Snapshot
  <2> QED BY <1>1, <1>4, <2>1
<1>6. queue' = {IF Key(x.event) = Key(e) THEN E(x) ELSE x : x \in queue}
  BY DEF LeaseSettles
<1>7. \A x : E(x).event = e
  OBVIOUS
<1>8. \A b \in Agents : agent'[b] = agent[b] \/ agent'[b] = [at |-> "handling", event |-> e]
  BY <1>1 DEF LeaseSettles
<1> HIDE DEF e, E
<1>9. Leaves(queue, queue', delivered, store')
  <2> SUFFICES ASSUME NEW x \in queue
               PROVE  \E y \in queue' : y.event.id = x.event.id /\ y.event.type = x.event.type
    BY DEF Leaves
  <2>1. (IF Key(x.event) = Key(e) THEN E(x) ELSE x) \in queue'
    BY <1>6
  <2>2. Key(x.event) = Key(e) => x.event.id = e.id /\ x.event.type = e.type
    BY <1>1, <1>2, KeyFacts DEF IsEntry
  <2> QED BY <1>7, <2>1, <2>2
<1>10. \A y \in queue' : /\ y.leased => Had(delivered, y.event.id, y.event.type)
                         /\ Plausible(delivered, y.event)
  BY <1>3, <1>6, <1>7 DEF HInv, AllHanded, Handed
<1>11. \A b \in Agents : /\ agent'[b].event # None =>
                               /\ Had(delivered, agent'[b].event.id, agent'[b].event.type)
                               /\ Plausible(delivered, agent'[b].event)
                         /\ agent'[b].at = "finishing" => agent'[b].event.type = "accept"
  BY <1>3, <1>8 DEF HInv, AllHanded, Handed
<1>12. \A t \in Sessions : store'[t].pending # None => Plausible(delivered, store'[t].pending)
  BY <1>3, <1>5 DEF HInv, AllHanded, Handed
<1>13. AllHanded'
  BY <1>4, <1>10, <1>11, <1>12 DEF HInv, AllHanded, Handed
<1> QED BY <1>4, <1>9, <1>13 DEF Moves

\* A preflight that throws leaves the entry to its lease.
LEMMA LeaseFailsMoves ==
    ASSUME HInv, NEW p \in preflights, LeaseFails(p)
    PROVE  Moves /\ AllHanded'
<1>1. UNCHANGED <<store, source, queue, delivered, restarts>> /\ preflights' \subseteq preflights
  BY DEF LeaseFails
<1>2. agent \in [Agents -> Activity]
  BY DEF HInv, CInv, IInv, Good, Shape
<1>3. \A b \in Agents : agent'[b] = agent[b] \/ agent'[b] = Idle
  BY <1>2 DEF LeaseFails, Released
<1>4. AllHanded'
  BY <1>1, <1>3, IdleFacts DEF HInv, AllHanded, Handed
<1> QED BY <1>1, <1>4 DEF Moves, Leaves

\* A lease that ends, or is given back: the event is offered again.
LEMMA FreeMoves ==
    ASSUME HInv, NEW x \in queue, NEW agents \in [Agents -> Activity],
           \A b \in Agents : agents[b] \in {agent[b], Idle},
           FlushPendingPolls((queue \ {x}) \cup {[x EXCEPT !.leased = FALSE]}, agents),
           UNCHANGED <<store, source, restarts>>
    PROVE  Moves /\ AllHanded'
<1> DEFINE y == [x EXCEPT !.leased = FALSE]
           q == (queue \ {x}) \cup {y}
<1>1. \A z \in queue : IsEntry(z)
  BY Entries DEF HInv, CInv
<1>2. IsEntry(y) /\ y.event = x.event /\ ~y.leased
  BY <1>1, Leasing
<1>3. FlushPendingPolls(q, agents)
  OBVIOUS
<1> HIDE DEF y
<1>4. \A z \in q : IsEntry(z)
  BY <1>1, <1>2
<1>5. Handed(store', source', q, preflights, agents, delivered)
  BY <1>2, IdleFacts DEF HInv, AllHanded, Handed
<1>6. Leaves(queue, q, delivered, store')
  BY <1>2 DEF Leaves
<1> HIDE DEF q
<1> QED BY <1>3, <1>4, <1>5, <1>6, Flushed

-----------------------------------------------------------------------------
(* Replies *)

\* What an agent answers is about an event it has, or had, or ends the session.
SettlesHad(s, r) ==
    \A x \in Acked(s, r) :
        JobHad(delivered, x.event) \/ r.type \in {"complete", "discarded"}

\* A reply whose event had been handed out, or that ends the session.
LEMMA ReplyMoves ==
    ASSUME HInv, NEW s \in Sessions, NEW r, NEW agents \in [Agents -> Activity],
           HandleReply(s, r, agents), SettlesHad(s, r),
           NEW a \in Agents, \A b \in Agents \ {a} : agents[b] = agent[b],
           agents[a].event \in {None, agent[a].event},
           agents[a].at = "finishing" => agents[a].event.type = "accept"
    PROVE  Moves /\ AllHanded'
<1> DEFINE acked == Acked(s, r)
           q == queue \ acked
           n == Journaled(store[s], r, acked)
<1>1. store \in [Sessions -> Snapshot] /\ \A x \in q : IsEntry(x)
  BY DEF HInv, CInv, IInv, Good, Shape
<1>2. \A x \in acked : x.event.id = s
  BY DEF Acked, First, Matches
<1>3. \/ store' = store /\ acked = {}
      \/ store' = [store EXCEPT ![s] = n]
  BY DEF HandleReply
<1>4. n.pending \in {None, store[s].pending}
  <2> DEFINE Settled(m) == m.pending \in {None, store[s].pending}
  <2>1. /\ Settled(ApplySteerDone(store[s])) /\ Settled(ApplyDiscarded(store[s]))
        /\ Settled(ApplyComplete(store[s])) /\ \A t : Settled(ApplyAgentError(store[s], t))
    BY <1>1 DEF ApplySteerDone, ApplyDiscarded, ApplyComplete, ApplyAgentError, Snapshot
  <2>2. Settled(ApplyAgentDone(store[s], r.carbonize))
    BY <1>1 DEF ApplyAgentDone, Snapshot
  <2> QED BY <2>1, <2>2 DEF Journaled
<1>5. r.type \in {"complete", "discarded"} => n.phase \in CompletedPhases
  BY <1>1 DEF Journaled, ApplyDiscarded, ApplyComplete, Snapshot, CompletedPhases
<1>6. FlushPendingPolls(q, agents) /\ UNCHANGED <<source, restarts>>
  BY DEF HandleReply, bounds
<1>7. \A x \in acked : JobHad(delivered, x.event) \/ r.type \in {"complete", "discarded"}
  BY DEF SettlesHad
<1> HIDE DEF acked, n
<1>8. Leaves(queue, q, delivered, store')
  BY <1>1, <1>2, <1>3, <1>5, <1>7 DEF Leaves, Wants
<1>9. Handed(store', source', q, preflights, agents, delivered)
  <2>1. \A t \in Sessions : store'[t].pending # None => Plausible(delivered, store'[t].pending)
    BY <1>1, <1>3, <1>4 DEF HInv, AllHanded, Handed
  <2>2. \A b \in Agents : /\ agents[b].event # None =>
                                /\ Had(delivered, agents[b].event.id, agents[b].event.type)
                                /\ Plausible(delivered, agents[b].event)
                          /\ agents[b].at = "finishing" => agents[b].event.type = "accept"
    BY DEF HInv, AllHanded, Handed
  <2> QED BY <1>6, <2>1, <2>2 DEF HInv, AllHanded, Handed
<1> HIDE DEF q
<1> QED BY <1>1, <1>6, <1>8, <1>9, Flushed

\* The first entry of some is one of them.
LEMMA FirstHeld ==
    ASSUME CInv, NEW held \in SUBSET queue, held # {}
    PROVE  (CHOOSE x \in held : \A y \in held : x.seq <= y.seq) \in held
<1> DEFINE S == {x.seq : x \in held}
<1>1. S \in SUBSET Nat /\ S # {}
  BY DEF CInv, Counts, Numbered
<1>2. \E n \in S : \A m \in S : n <= m
  <2> HIDE DEF S
  <2> QED BY <1>1, Minimum
<1>3. \E x \in held : \A y \in held : x.seq <= y.seq
  BY <1>2
<1> QED BY <1>3

\* inferSourceEventType, for the replies that name no source.
LEMMA InferredFacts ==
    ASSUME CInv, NEW s
    PROVE  /\ Inferred("steer_done", s) = "steer"
           /\ Inferred("done", s) \in {"generate", "variant_mount_failed"}
           /\ \/ Inferred("error", s) = "generate"
              \/ \E x \in queue : /\ x.event.id = s /\ x.leased
                                  /\ Inferred("error", s) = x.event.type
<1>1. Inferred("steer_done", s) = "steer"
  BY DEF Inferred
<1>2. Inferred("done", s) \in {"generate", "variant_mount_failed"}
  BY DEF Inferred
<1> DEFINE held == {x \in queue : x.event.id = s /\ x.leased}
           x0 == CHOOSE x \in held : \A y \in held : x.seq <= y.seq
<1>3. Inferred("error", s) = IF held = {} THEN "generate" ELSE x0.event.type
  BY DEF Inferred
<1>4. held # {} => x0 \in held
  BY FirstHeld
<1> HIDE DEF x0
<1> QED BY <1>1, <1>2, <1>3, <1>4

\* A reply that names its event, or a worker's, whose event is inferred.
LEMMA AckedHad ==
    ASSUME HInv, NEW a \in Agents, agent[a].event # None, NEW r,
           \/ r.source = agent[a].event.type
           \/ r = Answer("steer_done", None) /\ agent[a].event.type = "steer"
           \/ /\ r \in {Answer("done", None), Answer("error", None)}
              /\ agent[a].event.type \in {"generate", "variant_mount_failed"}
           \/ /\ r = Answer("error", None)
              /\ \A x \in queue : x.event.id = agent[a].event.id => x.event.type # "generate"
    PROVE  SettlesHad(agent[a].event.id, r)
<1> DEFINE s == agent[a].event.id
           t == agent[a].event.type
<1>1. /\ Had(delivered, s, t) /\ t \in EventTypes /\ t # None
      /\ t \in {"generate", "variant_mount_failed"} => Had(delivered, s, "generate")
  BY NoneIsNoEvent DEF HInv, CInv, IInv, Good, Shape, Activity, Event, AllHanded, Handed, Plausible
<1>2. \A x \in queue : x.leased => Had(delivered, x.event.id, x.event.type)
  BY DEF HInv, AllHanded, Handed
<1> SUFFICES ASSUME NEW x \in Acked(s, r) PROVE JobHad(delivered, x.event)
  BY DEF SettlesHad
<1>3. x \in queue /\ x.event.id = s /\ SourceOf(s, r) \in {x.event.type, None}
  BY DEF Acked, First, Matches
<1>4. /\ Inferred("steer_done", s) = "steer"
      /\ Inferred("done", s) \in {"generate", "variant_mount_failed"}
      /\ \/ Inferred("error", s) = "generate"
         \/ \E z \in queue : z.event.id = s /\ z.leased /\ Inferred("error", s) = z.event.type
  BY InferredFacts DEF HInv
<1>5. /\ "generate" # None /\ "variant_mount_failed" # None /\ "steer" # None
      /\ \A z \in queue : z.event.type # None
  BY NoneIsNoEvent DEF EventTypes, HInv, CInv, IInv, Good, Shape, IsEntry, Event
<1> HIDE DEF s, t
<1>6. CASE r.source = t
  BY <1>1, <1>3, <1>6 DEF SourceOf, JobHad
<1>7. CASE r.source = None
  <2>1. SourceOf(s, r) = Inferred(r.type, s)
    BY <1>7 DEF SourceOf
  <2>2. CASE r.type = "steer_done" /\ t = "steer"
    BY <1>1, <1>3, <1>4, <1>5, <2>1, <2>2 DEF JobHad
  <2>3. CASE r.type = "done" /\ t \in {"generate", "variant_mount_failed"}
    BY <1>1, <1>3, <1>4, <1>5, <2>1, <2>3 DEF JobHad
  <2>4. CASE r.type = "error" /\ t \in {"generate", "variant_mount_failed"}
    BY <1>1, <1>2, <1>3, <1>4, <1>5, <2>1, <2>4 DEF JobHad
  <2>5. CASE r.type = "error" /\ \A z \in queue : z.event.id = s => z.event.type # "generate"
    BY <1>2, <1>3, <1>4, <1>5, <2>1, <2>5 DEF JobHad
  <2> QED BY <1>6, <1>7, <2>2, <2>3, <2>4, <2>5 DEF Answer, s, t
<1> QED BY <1>6, <1>7 DEF Answer, s, t

\* The reply of an agent to what it has in hand.
LEMMA ReplyToMoves ==
    ASSUME HInv, NEW a \in Agents, ReplyTo(a)
    PROVE  Moves /\ AllHanded'
<1>1. PICK r \in Answers(a) : Replies(a, r)
  BY DEF ReplyTo
<1> DEFINE v == Onwards(a, r)
           e == agent[a].event
           s == e.id
<1>2. agent \in [Agents -> Activity] /\ e # None /\ s \in Sessions
  BY DEF ReplyTo, HasAnswer, HInv, CInv, IInv, Good, Shape, InHand
<1>3. /\ v.event \in {None, e}
      /\ v.at = "finishing" => v.event.type = "accept"
  <2>1. CASE r.type = "agent_done"
    <3>1. e.type = "accept"
      BY <2>1 DEF Answers, Answer
    <3>2. v.event = e
      BY <1>2, <2>1 DEF Onwards, Activity
    <3> QED BY <3>1, <3>2
  <2>2. CASE r.type # "agent_done" /\ a \in Streams /\ e.type \notin Decisions
    BY <1>2, <2>2 DEF Onwards, Activity
  <2>3. CASE v = Idle
    BY <2>3, IdleFacts
  <2> QED BY <2>1, <2>2, <2>3 DEF Onwards
<1>4. HandleReply(s, r, [agent EXCEPT ![a] = v])
  BY <1>1 DEF Replies
<1>5. SettlesHad(s, r)
  <2>1. CASE e.type = "steer"
    <3>1. \A x \in queue : x.event.id = s => x.event.type # "generate"
      BY <1>2, <2>1 DEF HInv, AllHanded, Handed, Plausible
    <3>2. r \in {Answer("steer_done", None), Answer("error", None)}
      BY <2>1 DEF Answers
    <3> QED BY <1>2, <2>1, <3>1, <3>2, AckedHad
  <2>2. CASE e.type \in {"generate", "variant_mount_failed"}
    <3>1. r \in {Answer("done", None), Answer("error", None)}
      BY <2>2 DEF Answers
    <3> QED BY <1>2, <2>2, <3>1, AckedHad
  <2>3. CASE e.type \in Decisions
    <3>1. r.source = e.type
      BY <2>3 DEF Answers, Answer, Decisions
    <3> QED BY <1>2, <3>1, AckedHad
  <2>4. e.type \in EventTypes
    BY <1>2 DEF Activity, Event
  <2> QED BY <2>1, <2>2, <2>3, <2>4 DEF EventTypes, Decisions
<1> HIDE DEF v
<1>6. [agent EXCEPT ![a] = v] \in [Agents -> Activity]
  <2>1. \A at \in {"finishing", "awaiting"} : [agent[a] EXCEPT !.at = at] \in Activity
    BY <1>2 DEF Activity
  <2>2. v \in Activity
    BY <2>1, IdleFacts DEF v, Onwards
  <2> QED BY <1>2, <2>2
<1> DEFINE ag == [agent EXCEPT ![a] = v]
<1>7. ag[a] = v /\ \A b \in Agents \ {a} : ag[b] = agent[b]
  BY <1>2
<1>8. HandleReply(s, r, ag) /\ ag \in [Agents -> Activity]
  BY <1>4, <1>6
<1> HIDE DEF ag
<1> QED BY <1>2, <1>3, <1>5, <1>7, <1>8, ReplyMoves

\* live-complete, whose reply names no event: the generation of a session that
\* is decided is not in the queue, so an error cannot take it.
LEMMA FinishMoves ==
    ASSUME HInv, NEW a \in Agents, NEW type, Finish(a, type)
    PROVE  Moves /\ AllHanded'
<1> DEFINE r == Answer(type, None)
           e == agent[a].event
           s == e.id
           ag == [agent EXCEPT ![a] = Idle]
<1>1. /\ agent \in [Agents -> Activity] /\ e # None /\ s \in Sessions
      /\ store[s].canceled
      /\ \A x \in queue : x.event.id = s => x.event.type # "generate"
  BY DEF Finish, HInv, CInv, IInv, Good, Shape, InHand, Decided
<1>2. HandleReply(s, r, ag) /\ type \in {"complete", "error"}
  BY DEF Finish
<1>3. SettlesHad(s, r)
  <2>1. CASE type = "complete"
    BY <2>1 DEF SettlesHad, Answer
  <2>2. CASE type = "error"
    BY <1>1, <2>2, AckedHad
  <2> QED BY <1>2, <2>1, <2>2
<1>4. /\ ag \in [Agents -> Activity] /\ ag[a] = Idle
      /\ \A b \in Agents \ {a} : ag[b] = agent[b]
  BY <1>1, IdleFacts
<1>5. ag[a].event \in {None, e} /\ ag[a].at # "finishing"
  BY <1>4, IdleFacts
<1> HIDE DEF r, ag
<1> QED BY <1>1, <1>2, <1>3, <1>4, <1>5, ReplyMoves

-----------------------------------------------------------------------------
(* The agents *)

\* The variants are written, once the generation is in hand.
LEMMA PublishMoves ==
    ASSUME HInv, NEW a \in Agents, Publish(a)
    PROVE  Moves /\ AllHanded'
<1>1. agent \in [Agents -> Activity] /\ agent[a].event # None
      /\ agent[a].event.type = "generate" /\ source' = source \cup {agent[a].event.id}
  BY DEF Publish, HInv, CInv, IInv, Good, Shape, InHand
<1>2. UNCHANGED <<store, queue, preflights, agent, delivered, restarts>>
  BY DEF Publish, leases, bounds
<1>3. \A s \in source' : Had(delivered, s, "generate") /\ s \notin Steers
  BY <1>1 DEF HInv, AllHanded, Handed, Plausible
<1>4. AllHanded'
  BY <1>2, <1>3 DEF HInv, AllHanded, Handed
<1> QED BY <1>2, <1>4 DEF Moves, Leaves

\* live-accept takes the wrapper out of the source.
LEMMA CarryOutMoves ==
    ASSUME HInv, NEW a \in Agents, CarryOut(a)
    PROVE  Moves /\ AllHanded'
<1> DEFINE v == [agent[a] EXCEPT !.at = "applied"]
<1>1. agent[a] \in Activity /\ agent' = [agent EXCEPT ![a] = v]
  BY DEF CarryOut, HInv, CInv, IInv, Good, Shape
<1>2. v.event = agent[a].event /\ v.at = "applied"
  BY <1>1 DEF Activity
<1>3. UNCHANGED <<store, queue, preflights, delivered, restarts>> /\ source' \subseteq source
  BY DEF CarryOut, bounds
<1> HIDE DEF v
<1> QED BY <1>1, <1>2, <1>3, AgentMoves

\* waitForEventAck, either way, and a poll that ends.
LEMMA StreamMoves ==
    ASSUME HInv, NEW a \in Agents, StreamGoesOn(a) \/ StreamGivesUp(a) \/ PollEnds(a)
    PROVE  Moves /\ AllHanded'
<1> DEFINE v == [agent[a] EXCEPT !.at = "gone"]
<1>1. agent[a] \in Activity /\ agent' \in {[agent EXCEPT ![a] = Idle], [agent EXCEPT ![a] = v]}
  BY DEF StreamGoesOn, StreamGivesUp, PollEnds, HInv, CInv, IInv, Good, Shape
<1>2. v.event = agent[a].event /\ v.at = "gone"
  BY <1>1 DEF Activity
<1>3. UNCHANGED <<store, source, queue, preflights, delivered, restarts>>
  BY DEF StreamGoesOn, StreamGivesUp, PollEnds, bounds
<1> HIDE DEF v
<1> QED BY <1>1, <1>2, <1>3, AgentMoves, IdleMoves

\* An agent is gone; a preflight that runs for it runs on.
LEMMA AgentLostMoves ==
    ASSUME HInv, NEW a \in Agents, AgentLost(a)
    PROVE  Moves /\ AllHanded'
<1> DEFINE L(p) == IF p.by = a THEN [p EXCEPT !.by = None] ELSE p
<1>1. \A p \in preflights : L(p).event = p.event
  BY DEF HInv, CInv, IInv, Good, Shape, IsCall
<1>2. preflights' = {L(p) : p \in preflights} /\ agent' = [agent EXCEPT ![a] = Idle]
  BY DEF AgentLost
<1>3. UNCHANGED <<store, source, queue, delivered, restarts>>
  BY DEF AgentLost
<1> HIDE DEF L
<1> QED BY <1>1, <1>2, <1>3, IdleMoves

\* The reply 422: the generation is acknowledged by the agent that has it.
LEMMA PublishBouncesMoves ==
    ASSUME HInv, NEW a \in Agents, PublishBounces(a)
    PROVE  Moves /\ AllHanded'
<1> DEFINE r == Answer("done", None)
           s == agent[a].event.id
<1>1. agent[a].event # None /\ agent[a].event.type = "generate"
  BY DEF PublishBounces, HInv, CInv, IInv, Good, Shape, InHand
<1>2. SettlesHad(s, r) /\ r.type = "done"
  BY <1>1, AckedHad DEF Answer
<1>3. /\ queue' = queue \ Acked(s, r)
      /\ UNCHANGED <<store, source, preflights, agent, delivered, restarts>>
  BY DEF PublishBounces
<1> HIDE DEF r, s
<1>4. Moves
  BY <1>2, <1>3 DEF Moves, Leaves, SettlesHad
<1>5. AllHanded'
  BY <1>3 DEF HInv, AllHanded, Handed
<1> QED BY <1>4, <1>5

\* The reply retry.
LEMMA GiveBackMoves ==
    ASSUME HInv, NEW a \in Agents, GiveBack(a)
    PROVE  Moves /\ AllHanded'
<1> DEFINE ag == [agent EXCEPT ![a] = Idle]
<1>1. PICK x \in queue : FlushPendingPolls((queue \ {x}) \cup {[x EXCEPT !.leased = FALSE]}, ag)
  BY DEF GiveBack, First, Matches
<1>2. ag \in [Agents -> Activity] /\ \A b \in Agents : ag[b] \in {agent[b], Idle}
  BY IdleFacts DEF HInv, CInv, IInv, Good, Shape
<1>3. UNCHANGED <<store, source, restarts>>
  BY DEF GiveBack
<1> HIDE DEF ag
<1> QED BY <1>1, <1>2, <1>3, FreeMoves

\* The lease timer.
LEMMA LeaseExpiresMoves ==
    ASSUME HInv, NEW x \in queue, LeaseExpires(x)
    PROVE  Moves /\ AllHanded'
<1>1. agent \in [Agents -> Activity] /\ UNCHANGED <<store, source, restarts>>
  BY DEF LeaseExpires, bounds, HInv, CInv, IInv, Good, Shape
<1> QED BY <1>1, FreeMoves DEF LeaseExpires

-----------------------------------------------------------------------------
(* The refinement *)

\* A restart takes from the journal only what was plausible before.
LEMMA RestartHanded == HInv /\ Restart => AllHanded'
<1> SUFFICES ASSUME HInv, Restart PROVE AllHanded'
  OBVIOUS
<1> DEFINE E(s) == [event |-> store[s].pending, leased |-> FALSE, seq |-> s]
<1>1. \A s : ~E(s).leased /\ E(s).event = store[s].pending
  OBVIOUS
<1>2. \A x \in queue' : \E s \in Sessions : store[s].pending # None /\ x = E(s)
  BY DEF Restart, Restored
<1> HIDE DEF E
<1>3. \A x \in queue' : ~x.leased /\ Plausible(delivered, x.event)
  BY <1>1, <1>2 DEF HInv, AllHanded, Handed
<1>4. \A a \in Agents : agent'[a] \in {agent[a], Idle}
  BY DEF Restart
<1>5. \A a \in Agents : /\ agent'[a].event # None =>
                              /\ Had(delivered, agent'[a].event.id, agent'[a].event.type)
                              /\ Plausible(delivered, agent'[a].event)
                        /\ agent'[a].at = "finishing" => agent'[a].event.type = "accept"
  BY <1>4, IdleFacts DEF HInv, AllHanded, Handed
<1>6. UNCHANGED <<store, source, delivered>> /\ preflights' = {}
  BY DEF Restart
<1> QED BY <1>3, <1>5, <1>6 DEF HInv, AllHanded, Handed

\* At the start nobody has been handed anything.
LEMMA InitHanded == Init => HInv
<1> SUFFICES ASSUME Init PROVE AllHanded
  BY InitTypes DEF HInv
<1>1. \A a \in Agents : agent[a] = Idle
  BY DEF Init
<1>2. \A s \in Sessions : store[s].pending = None
  BY DEF Init, BaseSnapshot
<1> QED BY <1>1, <1>2, IdleFacts DEF Init, AllHanded, Handed

\* What the pages post.
LEMMA PageMoves == HInv /\ Page => Moves /\ AllHanded'
<1> SUFFICES ASSUME HInv, Page PROVE Moves /\ AllHanded'
  OBVIOUS
<1>1. source \subseteq Sessions /\ Steers \subseteq Sessions
  BY ServerAssumption DEF HInv, CInv, IInv, Good, PostedFirst
<1>2. \A s \in Sessions, t \in EventTypes :
         Plain(s, t) \in Event /\ Plain(s, t).id = s /\ Plain(s, t).type = t
  BY DEF Plain, Event
<1>3. \A s \in Sessions, v \in Variants, t \in {"accept", "variant_mount_failed"} :
         /\ OfVariant(s, t, v) \in Event
         /\ OfVariant(s, t, v).id = s /\ OfVariant(s, t, v).type = t
  <2>1. \A x \in Event, v \in Variants :
           /\ [x EXCEPT !.variant = v] \in Event
           /\ [x EXCEPT !.variant = v].id = x.id /\ [x EXCEPT !.variant = v].type = x.type
    BY DEF Event
  <2> QED BY <1>2, <2>1 DEF OfVariant, EventTypes
<1>4. ASSUME NEW s \in Sessions \ Steers, Open(Plain(s, "generate"))
      PROVE  Moves /\ AllHanded'
  BY <1>2, <1>4, OpenMoves DEF EventTypes
<1>5. ASSUME NEW s \in Steers, Open(Plain(s, "steer"))
      PROVE  Moves /\ AllHanded'
  BY <1>1, <1>2, <1>5, OpenMoves DEF EventTypes
<1>6. ASSUME NEW s \in source, NEW v \in Variants, Decide(OfVariant(s, "accept", v))
      PROVE  Moves /\ AllHanded'
  BY <1>1, <1>3, <1>6, DecideMoves DEF EventTypes, Decisions
<1>7. ASSUME NEW s \in source, NEW v \in Variants,
             VariantMountFailed(OfVariant(s, "variant_mount_failed", v))
      PROVE  Moves /\ AllHanded'
  BY <1>1, <1>3, <1>7, MountFailedMoves DEF EventTypes
<1>8. ASSUME NEW s \in source, Decide(Plain(s, "discard"))
      PROVE  Moves /\ AllHanded'
  BY <1>1, <1>2, <1>8, DecideMoves DEF EventTypes, Decisions
<1>9. \A s : PhasesOf(s) \subseteq BrowserPhases
  BY DEF PhasesOf, BrowserPhases
<1> QED BY <1>4, <1>5, <1>6, <1>7, <1>8, <1>9, DiscardOrphanedMoves, CheckpointMoves DEF Page

\* What the agents, the timers and the preflights do.
LEMMA WorkMoves == HInv /\ Work => Moves /\ AllHanded'
<1> SUFFICES ASSUME HInv, Work PROVE Moves /\ AllHanded'
  OBVIOUS
<1>1. ASSUME NEW a \in Agents,
             \/ Poll(a) \/ PollEnds(a) \/ Publish(a) \/ CarryOut(a) \/ PublishBounces(a)
             \/ GiveBack(a)
      PROVE  Moves /\ AllHanded'
  BY <1>1, PollMoves, StreamMoves, PublishMoves, CarryOutMoves, PublishBouncesMoves, GiveBackMoves
<1>2. ASSUME NEW a \in Agents,
             \/ ReplyTo(a) \/ StreamGoesOn(a) \/ StreamGivesUp(a) \/ AgentLost(a)
             \/ \E type \in {"complete", "error"} : Finish(a, type)
      PROVE  Moves /\ AllHanded'
  BY <1>2, ReplyToMoves, StreamMoves, AgentLostMoves, FinishMoves
<1>3. ASSUME NEW p \in preflights, LeaseSettles(p) \/ LeaseFails(p)
      PROVE  Moves /\ AllHanded'
  BY <1>3, LeaseSettlesMoves, LeaseFailsMoves
<1>4. ASSUME NEW x \in queue, LeaseExpires(x)
      PROVE  Moves /\ AllHanded'
  BY <1>4, LeaseExpiresMoves
<1> QED BY <1>1, <1>2, <1>3, <1>4 DEF Work

\* Every step keeps the account of what was handed out, and is one of the
\* abstract queue, or none.
LEMMA HandedNext == HInv /\ [Next]_vars => HInv' /\ [Promise!Next]_(Promise!jobs)
<1> SUFFICES ASSUME HInv, [Next]_vars PROVE HInv' /\ [Promise!Next]_(Promise!jobs)
  OBVIOUS
<1>1. CInv'
  BY CountsNext DEF HInv
<1>2. CASE UNCHANGED vars
  <2>1. UNCHANGED <<store, source, queue, preflights, agent, delivered, restarts>>
    BY <1>2 DEF vars, leases, bounds
  <2>2. AllHanded'
    BY <2>1 DEF HInv, AllHanded, Handed
  <2>3. \A j \in Jobs : PlaceOf(j)' = PlaceOf(j) /\ IsServed(j)' = IsServed(j)
                        /\ IsWanted(j)' = IsWanted(j)
    BY <2>1 DEF PlaceOf, Of, IsServed, IsWanted
  <2>4. UNCHANGED Promise!jobs
    BY <2>1, <2>3 DEF Promise!jobs
  <2> QED BY <1>1, <2>2, <2>4 DEF HInv
<1>3. CASE Page \/ Work
  <2>1. Moves /\ HInv'
    BY <1>1, <1>3, PageMoves, WorkMoves DEF HInv
  <2> QED BY <2>1, MovesIsWork DEF Promise!Next
<1>4. CASE Restart
  <2>1. HInv'
    BY <1>1, <1>4, RestartHanded DEF HInv
  <2> QED BY <1>4, <2>1, RestartIsCrash DEF Promise!Next
<1> QED BY <1>2, <1>3, <1>4 DEF Next

\* The poll queue keeps the promise of LeaseQueue for every event: it is handed
\* out to one agent at a time, comes back when its lease ends, and leaves only
\* once an agent has had it or its session no longer wants it.
THEOREM ServerImplementsQueue == Spec => KeepsThePromise
<1>1. Init => Promise!Init
  BY PromiseInit
<1> QED BY <1>1, InitHanded, HandedNext, PTL DEF Spec, KeepsThePromise, Promise!Spec

=============================================================================
