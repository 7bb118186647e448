--------------------------- MODULE LiveModeProofs ---------------------------
(***************************************************************************)
(* Theorems about a page in live mode and the handlers of the helper       *)
(* server it talks to, for all sessions and all bounds.                    *)
(***************************************************************************)
EXTENDS LiveMode, SequenceTheorems, WellFoundedInduction, TLAPS

-----------------------------------------------------------------------------
(* The page's variables, as one value *)

\* The values that the handlers of a page compute with.
World == [page : PageRecord,
          storage : [saved : Saved, handled : OrNone(Sessions)],
          dom : SUBSET Sessions, requests : SUBSET Request, reads : SUBSET Read]

\* A checkpoint carries a state that the server takes for a phase.
Phased(sent) == \A m \in sent : m.type = "checkpoint" => m.phase \in BrowserPhases

Sound(w) == w \in World /\ Phased(w.requests)

\* A handler that turns w into v, and releases at most the accept that w awaits.
Keeps(w, v) == Sound(v) /\ v.page.awaiting \in {w.page.awaiting, None}

\* One handler after another.
LEMMA KeepsBoth ==
    ASSUME NEW w, NEW v, NEW u, Keeps(w, v), Keeps(v, u)
    PROVE  Keeps(w, u)
BY DEF Keeps

\* Some session ids have a first one.
LEMMA MinIsIn ==
    ASSUME NEW S \in SUBSET Nat, S # {}
    PROVE  Min(S) \in S
<1> DEFINE Less == {p \in Nat \X Nat : p[1] < p[2]}
<1>1. IsWellFoundedOn(Less, Nat)
  BY NatLessThanWellFounded, Zenon DEF OpToRel
<1>2. PICK x \in S : \A y \in S : ~(<<y, x>> \in Less)
  <2> HIDE DEF Less
  <2> QED BY <1>1, WFMin
<1>3. \A y \in S : x <= y
  <2> SUFFICES ASSUME NEW y \in S PROVE x <= y
    OBVIOUS
  <2>1. x \in Nat /\ y \in Nat /\ <<y, x>> \notin Less
    BY <1>2
  <2>2. ~(y < x)
    BY <2>1
  <2> QED BY <2>1, <2>2
<1> QED BY <1>3 DEF Min

\* The parts of a page are set one at a time.
LEMMA PageSet ==
    ASSUME NEW w, Sound(w), NEW p \in PageRecord, p.awaiting \in {w.page.awaiting, None}
    PROVE  Keeps(w, [w EXCEPT !.page = p])
BY DEF Keeps, Sound, World

LEMMA StorageSet ==
    ASSUME NEW w, Sound(w), NEW s \in [saved : Saved, handled : OrNone(Sessions)]
    PROVE  Keeps(w, [w EXCEPT !.storage = s])
BY DEF Keeps, Sound, World

LEMMA DomSet ==
    ASSUME NEW w, Sound(w), NEW d \in SUBSET Sessions
    PROVE  Keeps(w, [w EXCEPT !.dom = d])
BY DEF Keeps, Sound, World

LEMMA ReadsSet ==
    ASSUME NEW w, Sound(w), NEW r \in SUBSET Read
    PROVE  Keeps(w, [w EXCEPT !.reads = r])
BY DEF Keeps, Sound, World

LEMMA RequestsSet ==
    ASSUME NEW w, Sound(w), NEW r \in SUBSET Request, Phased(r)
    PROVE  Keeps(w, [w EXCEPT !.requests = r])
BY DEF Keeps, Sound, World

\* sendEvent
LEMMA SentKeeps ==
    ASSUME NEW w, Sound(w), NEW type \in RequestTypes, NEW id \in Sessions,
           NEW phase \in OrNone(BrowserPhases),
           type = "checkpoint" => phase \in BrowserPhases
    PROVE  Keeps(w, Sent(w, type, id, phase))
<1> DEFINE arrived == type = "checkpoint" /\ w.page.arrived
           gate == IF type = "generate" THEN None ELSE w.page.gate
           m == [type |-> type, id |-> id, phase |-> phase, arrived |-> arrived, gate |-> gate]
           p == [w.page EXCEPT !.gate = IF type = "generate" THEN id ELSE @]
           r == w.requests \cup {m}
           v == [w EXCEPT !.requests = r]
<1>1. w.page \in PageRecord /\ w.requests \in SUBSET Request
  BY DEF Sound, World
<1>2. arrived \in BOOLEAN /\ gate \in OrNone(Sessions)
  BY <1>1 DEF PageRecord, OrNone
<1>3. m \in Request
  <2> HIDE DEF arrived, gate
  <2> QED BY <1>2 DEF Request
<1>4. r \in SUBSET Request /\ Phased(r)
  BY <1>1, <1>3 DEF Phased, Sound
<1>5. p \in PageRecord /\ p.awaiting = w.page.awaiting
  BY <1>1 DEF PageRecord, OrNone
<1>6. Sent(w, type, id, phase) = [v EXCEPT !.page = p]
  BY DEF Sent, Sound, World
<1> HIDE DEF p, r, m
<1>7. Keeps(w, v)
  BY <1>4, RequestsSet
<1>8. v.page = w.page
  BY DEF Sound, World
<1>9. Keeps(v, [v EXCEPT !.page = p])
  BY <1>5, <1>7, <1>8, PageSet DEF Keeps
<1> QED BY <1>6, <1>7, <1>9, KeepsBoth

\* sendCheckpoint, from a state that is a phase.
LEMMA CheckpointKeeps ==
    ASSUME NEW w, Sound(w), w.page.state \in BrowserPhases
    PROVE  Keeps(w, SendCheckpoint(w))
<1>1. CASE w.page.session = None
  BY <1>1 DEF SendCheckpoint, Keeps
<1>2. CASE w.page.session # None
  <2>1. w.page.session \in Sessions
    BY <1>2 DEF Sound, World, PageRecord, OrNone
  <2> QED BY <1>2, <2>1, SentKeeps DEF SendCheckpoint, RequestTypes, OrNone
<1> QED BY <1>1, <1>2

\* saveSession
LEMMA SaveKeeps ==
    ASSUME NEW w, Sound(w)
    PROVE  Keeps(w, SaveSession(w)) /\ SaveSession(w).page = w.page
<1> DEFINE new == [id |-> w.page.session, state |-> w.page.state,
                   arrived |-> w.page.arrived, file |-> w.page.file]
           s == [w.storage EXCEPT !.saved = new]
<1>1. w.page \in PageRecord /\ w.storage \in [saved : Saved, handled : OrNone(Sessions)]
  BY DEF Sound, World
<1>2. new \in Saved
  BY <1>1 DEF PageRecord, Saved
<1>3. s \in [saved : Saved, handled : OrNone(Sessions)]
  <2> HIDE DEF new
  <2> QED BY <1>1, <1>2
<1>4. SaveSession(w) = IF w.page.session = None THEN w ELSE [w EXCEPT !.storage = s]
  BY DEF SaveSession, Sound, World
<1> HIDE DEF s
<1>5. Keeps(w, [w EXCEPT !.storage = s])
  BY <1>3, StorageSet
<1>6. Keeps(w, w)
  BY DEF Keeps
<1>7. [w EXCEPT !.storage = s].page = w.page
  BY DEF Sound, World
<1> QED BY <1>4, <1>5, <1>6, <1>7

\* markSessionHandled
LEMMA HandledKeeps ==
    ASSUME NEW w, Sound(w)
    PROVE  Keeps(w, MarkSessionHandled(w))
<1> DEFINE s == [w.storage EXCEPT !.handled = w.page.session]
<1>1. s \in [saved : Saved, handled : OrNone(Sessions)]
  BY DEF Sound, World, PageRecord
<1>2. MarkSessionHandled(w) = IF w.page.session = None THEN w ELSE [w EXCEPT !.storage = s]
  BY DEF MarkSessionHandled, Sound, World
<1> HIDE DEF s
<1>3. Keeps(w, [w EXCEPT !.storage = s]) /\ Keeps(w, w)
  BY <1>1, StorageSet DEF Keeps
<1> QED BY <1>2, <1>3

\* cleanup, and with it the accept that was pending.
LEMMA CleanupKeeps ==
    ASSUME NEW w, Sound(w)
    PROVE  Keeps(w, Cleanup(w)) /\ Keeps(w, CleanupAcceptedSession(w))
<1> DEFINE d == w.dom \ {w.page.session}
           s == [w.storage EXCEPT !.saved = NoneSaved]
           p == [w.page EXCEPT !.session = None, !.file = FALSE, !.state = "picking"]
           q == [p EXCEPT !.accepting = None]
           v == [w EXCEPT !.dom = d]
           u == [v EXCEPT !.storage = s]
<1>1. w.page \in PageRecord /\ w.storage \in [saved : Saved, handled : OrNone(Sessions)]
      /\ w.dom \in SUBSET Sessions
  BY DEF Sound, World
<1>2. NoneSaved \in Saved
  BY DEF NoneSaved, Saved, OrNone, PageStates
<1>3. d \in SUBSET Sessions /\ s \in [saved : Saved, handled : OrNone(Sessions)]
  BY <1>1, <1>2
<1>4. p \in PageRecord /\ p.awaiting = w.page.awaiting
  BY <1>1 DEF PageRecord, OrNone, PageStates
<1>5. q \in PageRecord /\ q.awaiting = w.page.awaiting
  <2> HIDE DEF p
  <2> QED BY <1>4 DEF PageRecord, OrNone
<1>6. Cleanup(w) = [u EXCEPT !.page = p]
  BY DEF Cleanup, Sound, World
<1>7. CleanupAcceptedSession(w) = [u EXCEPT !.page = q]
  BY <1>6 DEF CleanupAcceptedSession, Sound, World
<1>8. u.page = w.page
  BY DEF Sound, World
<1> HIDE DEF d, s, p, q, v
<1>9. Keeps(w, v)
  BY <1>3, DomSet DEF v
<1> HIDE DEF u
<1>10. Keeps(v, u)
  BY <1>3, <1>9, StorageSet DEF u, Keeps
<1>11. Keeps(w, u)
  BY <1>9, <1>10, KeepsBoth
<1>12. Keeps(u, [u EXCEPT !.page = p]) /\ Keeps(u, [u EXCEPT !.page = q])
  BY <1>4, <1>5, <1>8, <1>11, PageSet DEF Keeps
<1> QED BY <1>6, <1>7, <1>11, <1>12, KeepsBoth

\* The variants are shown, and the page counts them.
LEMMA ShowKeeps ==
    ASSUME NEW w, Sound(w)
    PROVE  Keeps(w, ShowVariants(w)) /\ ShowVariants(w).page.state = "cycling"
<1> DEFINE p == [w.page EXCEPT !.arrived = TRUE, !.state = "cycling"]
<1>1. p \in PageRecord /\ p.awaiting = w.page.awaiting /\ p.state = "cycling"
  BY DEF Sound, World, PageRecord, PageStates
<1>2. ShowVariants(w) = [w EXCEPT !.page = p] /\ [w EXCEPT !.page = p].page = p
  BY DEF ShowVariants, Sound, World
<1> HIDE DEF p
<1>3. Keeps(w, [w EXCEPT !.page = p])
  BY <1>1, PageSet
<1> QED BY <1>1, <1>2, <1>3

\* What is saved, and then told to the server, is in a state that is a phase.
LEMMA SavedAndToldKeeps ==
    ASSUME NEW w, Sound(w), w.page.state \in BrowserPhases
    PROVE  Keeps(w, SendCheckpoint(SaveSession(w)))
<1> DEFINE v == SaveSession(w)
<1>1. Keeps(w, v) /\ v.page = w.page
  BY SaveKeeps
<1> HIDE DEF v
<1>2. Keeps(v, SendCheckpoint(v))
  BY <1>1, CheckpointKeeps DEF Keeps
<1> QED BY <1>1, <1>2, KeepsBoth DEF v

\* New variants in the document are shown, saved and told.
LEMMA ShownAndToldKeeps ==
    ASSUME NEW w, Sound(w)
    PROVE  Keeps(w, SendCheckpoint(SaveSession(ShowVariants(w))))
<1> DEFINE v == ShowVariants(w)
<1>1. Keeps(w, v) /\ v.page.state = "cycling"
  BY ShowKeeps
<1> HIDE DEF v
<1>2. Keeps(v, SendCheckpoint(SaveSession(v)))
  BY <1>1, SavedAndToldKeeps DEF Keeps, BrowserPhases
<1> QED BY <1>1, <1>2, KeepsBoth DEF v

\* startVariantObserver
LEMMA ObserveKeeps ==
    ASSUME NEW w, Sound(w)
    PROVE  Keeps(w, Observe(w))
BY ShownAndToldKeeps DEF Observe, Keeps

\* What is restored is of the type of what is saved.
LEMMA ToRestoreType ==
    ASSUME NEW w, Sound(w), NEW m
    PROVE  ToRestore(w, m) \in Saved
<1> DEFINE saved == w.storage.saved
           a == saved.arrived \/ (Listed(m, saved.id) /\ saved.id \in m.landed)
           f == saved.file \/ (Listed(m, saved.id) /\ m.seen[saved.id].completedAt)
           s == Min(Adoptable(w, m))
           new == [id |-> s, state |-> "generating", arrived |-> s \in m.landed, file |-> TRUE]
<1>1. saved \in Saved
  BY DEF Sound, World
<1>2. [saved EXCEPT !.arrived = a, !.file = f] \in Saved
  <2>1. a \in BOOLEAN /\ f \in BOOLEAN
    OBVIOUS
  <2> HIDE DEF saved, a, f
  <2> QED BY <1>1, <2>1 DEF Saved
<1>3. ASSUME Adoptable(w, m) # {} PROVE new \in Saved
  <2>1. Adoptable(w, m) \in SUBSET Nat /\ Adoptable(w, m) \subseteq Sessions
    BY StoreAssumption DEF Adoptable, Sessions
  <2>2. s \in Sessions
    BY <1>3, <2>1, MinIsIn
  <2>3. (s \in m.landed) \in BOOLEAN
    OBVIOUS
  <2> HIDE DEF s
  <2> QED BY <2>2, <2>3 DEF Saved, OrNone, PageStates
<1>4. \/ ToRestore(w, m) = [saved EXCEPT !.arrived = a, !.file = f]
      \/ Adoptable(w, m) # {} /\ ToRestore(w, m) = new
  BY Zenon DEF ToRestore
<1> HIDE DEF saved, a, f, s, new
<1> QED BY <1>2, <1>3, <1>4

\* restoreSessionWithoutWrapper
LEMMA RestoreKeeps ==
    ASSUME NEW w, Sound(w), NEW m, CanRestore(w, m)
    PROVE  Keeps(w, RestoreSessionWithoutWrapper(w, m))
<1> DEFINE saved == ToRestore(w, m)
           p == [w.page EXCEPT !.session = saved.id, !.state = "generating",
                               !.arrived = saved.arrived, !.file = saved.file]
           v == [w EXCEPT !.page = p]
           u == SendCheckpoint(SaveSession(v))
           read == [id |-> saved.id, at |-> "sent", found |-> FALSE,
                    orphan |-> saved.state = "cycling", again |-> FALSE]
           r == u.reads \cup IF saved.file THEN {read} ELSE {}
<1>1. saved \in Saved /\ saved.id # None
  BY ToRestoreType DEF CanRestore
<1>2. p \in PageRecord /\ p.awaiting = w.page.awaiting /\ p.state = "generating"
  <2> HIDE DEF saved
  <2> QED BY <1>1 DEF Sound, World, PageRecord, Saved, PageStates
<1>3. read \in Read
  <2>1. (saved.state = "cycling") \in BOOLEAN
    OBVIOUS
  <2> HIDE DEF saved
  <2> QED BY <1>1, <2>1 DEF Read, Saved, OrNone
<1>4. v.page = p /\ v = [w EXCEPT !.page.session = saved.id, !.page.state = "generating",
                                  !.page.arrived = saved.arrived, !.page.file = saved.file]
  <2> HIDE DEF saved
  <2> QED BY DEF Sound, World
<1>5. RestoreSessionWithoutWrapper(w, m) = [u EXCEPT !.reads = r]
  <2>1. RestoreSessionWithoutWrapper(w, m) =
          [SendCheckpoint(SaveSession([w EXCEPT !.page.session = saved.id,
                                                !.page.state = "generating",
                                                !.page.arrived = saved.arrived,
                                                !.page.file = saved.file]))
              EXCEPT !.reads = @ \cup IF saved.file THEN {read} ELSE {}]
    BY Zenon DEF RestoreSessionWithoutWrapper
  <2> HIDE DEF saved, p, read, v
  <2> QED BY <1>4, <2>1
<1> HIDE DEF saved, p, read
<1>6. Keeps(w, v)
  BY <1>2, PageSet
<1> HIDE DEF v
<1>7. Keeps(v, u)
  BY <1>2, <1>4, <1>6, SavedAndToldKeeps DEF Keeps, BrowserPhases
<1> HIDE DEF u
<1>8. r \in SUBSET Read
  BY <1>3, <1>7 DEF Keeps, Sound, World
<1> HIDE DEF r
<1>9. Keeps(u, [u EXCEPT !.reads = r])
  BY <1>7, <1>8, ReadsSet DEF Keeps
<1>10. Keeps(w, u)
  BY <1>6, <1>7, KeepsBoth
<1> QED BY <1>5, <1>9, <1>10, KeepsBoth

\* The scout is on its way again.
LEMMA ScoutingKeeps ==
    ASSUME NEW w, Sound(w), NEW b \in BOOLEAN
    PROVE  Keeps(w, [w EXCEPT !.page.scouting = b])
<1> DEFINE p == [w.page EXCEPT !.scouting = b]
<1>1. p \in PageRecord /\ p.awaiting = w.page.awaiting
  BY DEF Sound, World, PageRecord
<1>2. [w EXCEPT !.page.scouting = b] = [w EXCEPT !.page = p]
  BY DEF Sound, World
<1> HIDE DEF p
<1> QED BY <1>1, <1>2, PageSet

\* resumeSession
LEMMA ResumeKeeps ==
    ASSUME NEW w, Sound(w)
    PROVE  Keeps(w, ResumeSession(w))
<1> DEFINE s == Min(w.dom)
           t == [saved |-> NoneSaved, handled |-> None]
           v == [w EXCEPT !.storage = t]
           f == w.page.file \/ (w.storage.saved.id = s /\ w.storage.saved.file)
           p == [w.page EXCEPT !.session = s, !.file = f]
           u == [w EXCEPT !.page = p]
<1>1. CASE w.dom = {} /\ CanRestore(w, None)
  BY <1>1, RestoreKeeps DEF ResumeSession
<1>2. CASE w.dom = {} /\ ~CanRestore(w, None)
  <2>1. t \in [saved : Saved, handled : OrNone(Sessions)]
    BY DEF NoneSaved, Saved, OrNone, PageStates
  <2>2. ResumeSession(w) = [v EXCEPT !.page.scouting = TRUE]
    BY <1>2 DEF ResumeSession, Sound, World
  <2> HIDE DEF t
  <2>3. Keeps(w, v)
    BY <2>1, StorageSet
  <2> HIDE DEF v
  <2>4. Keeps(v, [v EXCEPT !.page.scouting = TRUE])
    BY <2>3, ScoutingKeeps DEF Keeps
  <2> QED BY <2>2, <2>3, <2>4, KeepsBoth
<1>3. CASE w.dom # {} /\ s = w.storage.handled
  BY <1>3, ScoutingKeeps DEF ResumeSession
<1>4. CASE w.dom # {} /\ s # w.storage.handled
  <2>1. w.dom \in SUBSET Nat /\ w.dom \subseteq Sessions
    BY StoreAssumption DEF Sound, World, Sessions
  <2>2. s \in Sessions
    BY <1>4, <2>1, MinIsIn
  <2>3. ResumeSession(w) = SendCheckpoint(SaveSession(ShowVariants(
                               [w EXCEPT !.page.session = s, !.page.file = @ \/
                                   (w.storage.saved.id = s /\ w.storage.saved.file)])))
    BY <1>4 DEF ResumeSession
  <2> HIDE DEF s
  <2>4. w.page \in PageRecord /\ f \in BOOLEAN
    BY DEF Sound, World, PageRecord, Saved
  <2>5. [w EXCEPT !.page.session = s, !.page.file = @ \/
            (w.storage.saved.id = s /\ w.storage.saved.file)] = u
    BY DEF Sound, World
  <2> HIDE DEF f
  <2>6. p \in PageRecord /\ p.awaiting = w.page.awaiting
    BY <2>2, <2>4 DEF PageRecord, OrNone
  <2> HIDE DEF p
  <2>7. Keeps(w, u)
    BY <2>6, PageSet
  <2> HIDE DEF u
  <2>8. Keeps(u, SendCheckpoint(SaveSession(ShowVariants(u))))
    BY <2>7, ShownAndToldKeeps DEF Keeps
  <2> QED BY <2>3, <2>5, <2>7, <2>8, KeepsBoth
<1> QED BY <1>1, <1>2, <1>3, <1>4

\* The scout that waits for a first wrapper.
LEMMA ScoutKeeps ==
    ASSUME NEW w, Sound(w)
    PROVE  Keeps(w, Scout(w))
<1> DEFINE v == ResumeSession(w)
<1>1. Keeps(w, v)
  BY ResumeKeeps
<1> HIDE DEF v
<1>2. Keeps(v, [v EXCEPT !.page.scouting = FALSE])
  BY <1>1, ScoutingKeeps DEF Keeps
<1>3. Scout(w) = IF w.page.scouting /\ w.dom # {} THEN [v EXCEPT !.page.scouting = FALSE] ELSE w
  BY DEF Scout, v
<1> QED BY <1>1, <1>2, <1>3, KeepsBoth DEF Keeps

\* A read that is due.
LEMMA DueReadType ==
    ASSUME NEW s \in Sessions
    PROVE  DueRead(s) \in Read
BY DEF DueRead, Read

\* A page is told that there is a file to read.
LEMMA FileKeeps ==
    ASSUME NEW w, Sound(w)
    PROVE  Keeps(w, [w EXCEPT !.page.file = TRUE])
<1> DEFINE p == [w.page EXCEPT !.file = TRUE]
<1>1. p \in PageRecord /\ p.awaiting = w.page.awaiting
  BY DEF Sound, World, PageRecord
<1>2. [w EXCEPT !.page.file = TRUE] = [w EXCEPT !.page = p]
  BY DEF Sound, World
<1> HIDE DEF p
<1> QED BY <1>1, <1>2, PageSet

\* It reads the file in a while.
LEMMA FileReadKeeps ==
    ASSUME NEW w, Sound(w), NEW s \in Sessions
    PROVE  Keeps(w, [w EXCEPT !.page.file = TRUE, !.reads = @ \cup {DueRead(s)}])
<1> DEFINE v == [w EXCEPT !.page.file = TRUE]
           r == v.reads \cup {DueRead(s)}
<1>1. Keeps(w, v)
  BY FileKeeps
<1>2. [w EXCEPT !.page.file = TRUE, !.reads = @ \cup {DueRead(s)}] = [v EXCEPT !.reads = r]
  BY DEF Sound, World
<1> HIDE DEF v
<1>3. r \in SUBSET Read
  BY <1>1, DueReadType DEF Keeps, Sound, World
<1> HIDE DEF r
<1>4. Keeps(v, [v EXCEPT !.reads = r])
  BY <1>1, <1>3, ReadsSet DEF Keeps
<1> QED BY <1>1, <1>2, <1>4, KeepsBoth

\* recoverMissedGenerationCompletion
LEMMA RecoverKeeps ==
    ASSUME NEW w, Sound(w), NEW seen
    PROVE  Keeps(w, RecoverMissed(w, seen))
<1>1. CASE w.page.session # None /\ Behind(w, seen[w.page.session])
  <2>1. w.page.session \in Sessions
    BY <1>1 DEF Sound, World, PageRecord, OrNone
  <2> QED BY <1>1, <2>1, FileReadKeeps DEF RecoverMissed
<1>2. CASE ~(w.page.session # None /\ Behind(w, seen[w.page.session]))
  BY <1>2 DEF RecoverMissed, Keeps
<1> QED BY <1>1, <1>2

-----------------------------------------------------------------------------
(* What comes back to the page *)

\* The accept that is awaited is heard of, or given up.
LEMMA AwaitingKeeps ==
    ASSUME NEW w, Sound(w), NEW a \in {w.page.awaiting, None}
    PROVE  Keeps(w, [w EXCEPT !.page.awaiting = a])
<1> DEFINE p == [w.page EXCEPT !.awaiting = a]
<1>1. p \in PageRecord /\ p.awaiting = a
  BY DEF Sound, World, PageRecord, OrNone
<1>2. [w EXCEPT !.page.awaiting = a] = [w EXCEPT !.page = p]
  BY DEF Sound, World
<1> HIDE DEF p
<1> QED BY <1>1, <1>2, PageSet

\* The pending accept is dropped.
LEMMA AcceptingKeeps ==
    ASSUME NEW w, Sound(w)
    PROVE  Keeps(w, [w EXCEPT !.page.accepting = None])
<1> DEFINE p == [w.page EXCEPT !.accepting = None]
<1>1. p \in PageRecord /\ p.awaiting = w.page.awaiting
  BY DEF Sound, World, PageRecord, OrNone
<1>2. [w EXCEPT !.page.accepting = None] = [w EXCEPT !.page = p]
  BY DEF Sound, World
<1> HIDE DEF p
<1> QED BY <1>1, <1>2, PageSet

\* The page cycles again, and has no pending accept.
LEMMA CyclingKeeps ==
    ASSUME NEW w, Sound(w), NEW a \in {w.page.accepting, None}
    PROVE  Keeps(w, [w EXCEPT !.page.state = "cycling", !.page.accepting = a])
<1> DEFINE p == [w.page EXCEPT !.state = "cycling", !.accepting = a]
<1>1. p \in PageRecord /\ p.awaiting = w.page.awaiting
  BY DEF Sound, World, PageRecord, OrNone, PageStates
<1>2. [w EXCEPT !.page.state = "cycling", !.page.accepting = a] = [w EXCEPT !.page = p]
  BY DEF Sound, World
<1> HIDE DEF p
<1> QED BY <1>1, <1>2, PageSet

\* markSessionHandled and cleanup, one after the other.
LEMMA HandledAndCleanKeeps ==
    ASSUME NEW w, Sound(w)
    PROVE  /\ Keeps(w, Cleanup(MarkSessionHandled(w)))
           /\ Keeps(w, CleanupAcceptedSession(MarkSessionHandled(w)))
<1> DEFINE v == MarkSessionHandled(w)
<1>1. Keeps(w, v)
  BY HandledKeeps
<1> HIDE DEF v
<1>2. Keeps(v, Cleanup(v)) /\ Keeps(v, CleanupAcceptedSession(v))
  BY <1>1, CleanupKeeps DEF Keeps
<1> QED BY <1>1, <1>2, KeepsBoth DEF v

\* The connected event.
LEMMA ConnectedKeeps ==
    ASSUME NEW w, Sound(w), NEW m
    PROVE  Keeps(w, OnConnected(w, m))
<1> DEFINE v == RestoreSessionWithoutWrapper(w, m)
<1>1. CASE w.dom = {} /\ CanRestore(w, m)
  <2>1. Keeps(w, v)
    BY <1>1, RestoreKeeps
  <2> HIDE DEF v
  <2>2. Keeps(v, RecoverMissed(v, m.seen))
    BY <2>1, RecoverKeeps DEF Keeps
  <2> QED BY <1>1, <2>1, <2>2, KeepsBoth DEF OnConnected, v
<1>2. CASE ~(w.dom = {} /\ CanRestore(w, m))
  BY <1>2, RecoverKeeps DEF OnConnected
<1> QED BY <1>1, <1>2

\* The done of a generation.
LEMMA DoneKeeps ==
    ASSUME NEW w, Sound(w), NEW s \in Sessions
    PROVE  Keeps(w, OnDone(w, s))
<1> DEFINE told == [w EXCEPT !.page.file = TRUE]
<1>1. Keeps(w, told)
  BY FileKeeps
<1>2. Keeps(w, [told EXCEPT !.reads = @ \cup {DueRead(s)}])
  <2>1. [told EXCEPT !.reads = @ \cup {DueRead(s)}] =
          [w EXCEPT !.page.file = TRUE, !.reads = @ \cup {DueRead(s)}]
    BY DEF Sound, World
  <2> QED BY <2>1, FileReadKeeps
<1>3. Keeps(w, ShowVariants(told))
  <2> HIDE DEF told
  <2>1. Keeps(told, ShowVariants(told))
    BY <1>1, ShowKeeps DEF Keeps
  <2> QED BY <1>1, <2>1, KeepsBoth
<1>4. OnDone(w, s) \in {told, ShowVariants(told), [told EXCEPT !.reads = @ \cup {DueRead(s)}]}
  BY Zenon DEF OnDone
<1> QED BY <1>1, <1>2, <1>3, <1>4

\* The complete or the agent_done of an accept.
LEMMA AcceptedKeeps ==
    ASSUME NEW w, Sound(w), NEW s \in Sessions
    PROVE  Keeps(w, OnAccepted(w, s))
<1> DEFINE a == IF w.page.awaiting = s THEN None ELSE w.page.awaiting
           heard == [w EXCEPT !.page.awaiting = a]
<1>1. Keeps(w, heard)
  BY AwaitingKeeps
<1>2. \/ OnAccepted(w, s) = heard
      \/ OnAccepted(w, s) = CleanupAcceptedSession(MarkSessionHandled(heard))
      \/ OnAccepted(w, s) = [heard EXCEPT !.page.accepting = None]
  BY Zenon DEF OnAccepted
<1> HIDE DEF heard
<1>3. /\ Keeps(heard, CleanupAcceptedSession(MarkSessionHandled(heard)))
      /\ Keeps(heard, [heard EXCEPT !.page.accepting = None])
  BY <1>1, HandledAndCleanKeeps, AcceptingKeeps DEF Keeps
<1> QED BY <1>1, <1>2, <1>3, KeepsBoth

\* An error of an agent.
LEMMA ErrorKeeps ==
    ASSUME NEW w, Sound(w), NEW s \in Sessions
    PROVE  Keeps(w, OnError(w, s))
<1> DEFINE v == [w EXCEPT !.page.awaiting = None]
           back == [w EXCEPT !.page.accepting = None, !.page.awaiting = None,
                             !.page.state = "cycling"]
           forgot == [w EXCEPT !.storage.saved = IF @.id = s THEN NoneSaved ELSE @,
                               !.page.state = "picking"]
<1>1. Keeps(w, v)
  BY AwaitingKeeps
<1>2. Keeps(w, back)
  <2>1. back = [v EXCEPT !.page.state = "cycling", !.page.accepting = None]
    BY DEF Sound, World
  <2> HIDE DEF v
  <2>2. Keeps(v, [v EXCEPT !.page.state = "cycling", !.page.accepting = None])
    BY <1>1, CyclingKeeps DEF Keeps
  <2> QED BY <1>1, <2>1, <2>2, KeepsBoth
<1>3. Keeps(w, forgot)
  <2> DEFINE t == [w.storage EXCEPT !.saved = IF @.id = s THEN NoneSaved ELSE @]
             u == [w EXCEPT !.storage = t]
             p == [w.page EXCEPT !.state = "picking"]
  <2>1. t \in [saved : Saved, handled : OrNone(Sessions)]
    BY DEF Sound, World, NoneSaved, Saved, OrNone, PageStates
  <2>2. p \in PageRecord /\ p.awaiting = w.page.awaiting
    BY DEF Sound, World, PageRecord, PageStates
  <2>3. forgot = [u EXCEPT !.page = p] /\ u.page = w.page
    BY DEF Sound, World
  <2> HIDE DEF t, p
  <2>4. Keeps(w, u)
    BY <2>1, StorageSet
  <2> HIDE DEF u
  <2>5. Keeps(u, [u EXCEPT !.page = p])
    BY <2>2, <2>3, <2>4, PageSet DEF Keeps
  <2> QED BY <2>3, <2>4, <2>5, KeepsBoth
<1>4. OnError(w, s) \in {back, v, Cleanup(MarkSessionHandled(w)), forgot}
  BY Zenon DEF OnError
<1> HIDE DEF v, back, forgot
<1> QED BY <1>1, <1>2, <1>3, <1>4, HandledAndCleanKeeps

\* Every message but the first of a connection names a session.
Named(m) == m.type # "connected" => m.id \in Sessions

\* The messages of the event stream.
LEMMA HeardKeeps ==
    ASSUME NEW w, Sound(w), NEW m, Named(m)
    PROVE  Keeps(w, Heard(w, m))
<1>1. CASE m.type = "connected"
  BY <1>1, ConnectedKeeps DEF Heard
<1>2. CASE m.type = "done"
  BY <1>2, DoneKeeps DEF Heard, Named
<1>3. CASE m.type = "complete" \/ m.type = "agent_done"
  BY <1>3, AcceptedKeeps DEF Heard, Named
<1>4. CASE m.type = "error"
  BY <1>4, ErrorKeeps DEF Heard, Named
<1>5. CASE m.type = "discarded" /\ m.id = w.page.session
  BY <1>5, HandledAndCleanKeeps DEF Heard
<1>6. CASE /\ m.type \notin {"connected", "done", "complete", "agent_done", "error"}
           /\ ~(m.type = "discarded" /\ m.id = w.page.session)
  BY <1>6 DEF Heard, Keeps
<1> QED BY <1>1, <1>2, <1>3, <1>4, <1>5, <1>6

-----------------------------------------------------------------------------
(* The invariant: what is in flight is well formed, and every decision that a *)
(* page was or will be told of is journaled                                   *)

AllNamed(messages) == \A i \in DOMAIN messages : Named(messages[i])

\* An accept that is answered ok is journaled.
Granted(responses, st) ==
    \A r \in responses : r.type = "accept" /\ r.ok => st[r.id].canceled

\* An accept that gave the picker back is journaled.
Durable(s, st) == s # None => st[s].canceled

\* What the journal still owes is a chore of an agent.
Owable == {"generate", "accept", "discard"}
Owing(snap) == snap.pending # None => snap.pending.type \in Owable

IInv ==
    /\ TypeOK
    /\ \A s \in Sessions : Owing(store[s])
    /\ Phased(requests) /\ AllNamed(inbox)
    /\ Granted(answers, store) /\ Durable(page.awaiting, store)

\* What the page holds is sound.
LEMMA HereIsSound ==
    ASSUME IInv
    PROVE  Sound(Here) /\ Here.page = page /\ Here.requests = requests
           /\ Here.dom = dom /\ Here.reads = reads /\ Here.storage = storage
BY DEF IInv, TypeOK, Here, Sound, World

\* The rest of the system stands still, or loses some answers or messages.
Aside ==
    /\ UNCHANGED server
    /\ answers' \subseteq answers
    /\ link' \in {"open", "lost", "stale"}
    /\ inbox' \in Seq(Message) /\ AllNamed(inbox')
    /\ opened' \subseteq Sessions /\ clicks' \in 0 .. MaxClicks /\ losses' \in 0 .. MaxLosses

\* A step of the page alone, which awaits an accept that is journaled, or none.
LEMMA PageStep ==
    ASSUME IInv, NEW w, Becomes(w), Sound(w), Durable(w.page.awaiting, store), Aside
    PROVE  IInv'
<1>1. TypeOK'
  <2>1. /\ page' \in PageRecord /\ storage' \in [saved : Saved, handled : OrNone(Sessions)]
        /\ dom' \subseteq Sessions /\ requests' \subseteq Request /\ reads' \subseteq Read
    BY DEF Becomes, Sound, World
  <2>2. answers' \subseteq Response
    BY DEF IInv, TypeOK, Aside
  <2> QED BY <2>1, <2>2 DEF IInv, TypeOK, Aside, server
<1>2. Phased(requests')
  BY DEF Becomes, Sound
<1>3. Granted(answers', store')
  BY DEF IInv, Granted, Aside, server
<1>4. Durable(page'.awaiting, store')
  BY DEF Becomes, Aside, server
<1>5. \A s \in Sessions : Owing(store'[s])
  BY DEF IInv, Aside, server
<1> QED BY <1>1, <1>2, <1>3, <1>4, <1>5 DEF IInv, Aside

\* A handler of the page that awaits no other accept than before.
LEMMA KeepingStep ==
    ASSUME IInv, NEW w, Becomes(w), Keeps(Here, w), Aside
    PROVE  IInv'
<1>1. Sound(w) /\ Durable(w.page.awaiting, store)
  BY HereIsSound DEF Keeps, IInv, Durable
<1> QED BY <1>1, PageStep

\* Nothing but the page moves.
LEMMA QuietIsAside ==
    ASSUME IInv, UNCHANGED <<server, link, inbox>>, answers' \subseteq answers,
           UNCHANGED opened \/ opened' \subseteq Sessions,
           UNCHANGED clicks \/ clicks' \in 0 .. MaxClicks,
           UNCHANGED losses
    PROVE  Aside
<1>1. inbox' \in Seq(Message) /\ AllNamed(inbox')
  BY DEF IInv, TypeOK
<1> QED BY <1>1 DEF Aside, IInv, TypeOK

-----------------------------------------------------------------------------
(* What the user does *)

\* handleGo
LEMMA GoKept ==
    ASSUME IInv, NEW s \in Sessions, Go(s)
    PROVE  IInv'
<1> DEFINE p == [page EXCEPT !.session = s, !.arrived = FALSE, !.file = FALSE,
                             !.accepting = None, !.awaiting = None, !.state = "generating"]
           going == [Here EXCEPT !.page = p]
           told == SendCheckpoint(SaveSession(going))
           q == [told.page EXCEPT !.capturing = s]
           v == [told EXCEPT !.page = q]
<1>1. p \in PageRecord /\ p.awaiting = None /\ p.state = "generating"
  BY DEF IInv, TypeOK, PageRecord, OrNone, PageStates
<1>2. going = [Here EXCEPT !.page.session = s, !.page.arrived = FALSE, !.page.file = FALSE,
                           !.page.accepting = None, !.page.awaiting = None,
                           !.page.state = "generating"]
      /\ going.page = p
  BY DEF Here
<1>3. Becomes([told EXCEPT !.page.capturing = s])
  BY <1>2 DEF Go
<1> HIDE DEF p
<1>4. Keeps(Here, going)
  BY <1>1, HereIsSound, PageSet
<1> HIDE DEF going
<1>5. Keeps(going, told)
  BY <1>1, <1>2, <1>4, SavedAndToldKeeps DEF Keeps, BrowserPhases
<1> HIDE DEF told
<1>6. q \in PageRecord /\ q.awaiting = told.page.awaiting
  BY <1>5 DEF Keeps, Sound, World, PageRecord, OrNone
<1>7. [told EXCEPT !.page.capturing = s] = v
  BY <1>5 DEF Keeps, Sound, World
<1> HIDE DEF q
<1>8. Keeps(told, v)
  BY <1>5, <1>6, PageSet DEF Keeps
<1>9. Keeps(Here, v)
  BY <1>4, <1>5, <1>8, KeepsBoth
<1>10. Aside
  <2>1. opened' \subseteq Sessions
    BY DEF Go, IInv, TypeOK
  <2> QED BY <2>1, QuietIsAside DEF Go, lines
<1> QED BY <1>3, <1>7, <1>9, <1>10, KeepingStep

\* captureAndEmit
LEMMA CaptureEndsKept ==
    ASSUME IInv, CaptureEnds
    PROVE  IInv'
<1> DEFINE p == [page EXCEPT !.capturing = None]
           v == [Here EXCEPT !.page = p]
<1>1. p \in PageRecord /\ p.awaiting = page.awaiting /\ page.capturing \in Sessions
  BY DEF CaptureEnds, IInv, TypeOK, PageRecord, OrNone
<1>2. Becomes(Sent(v, "generate", page.capturing, None))
  <2>1. [Here EXCEPT !.page.capturing = None] = v
    BY DEF Here
  <2> QED BY <2>1 DEF CaptureEnds
<1> HIDE DEF p
<1>3. Keeps(Here, v)
  BY <1>1, HereIsSound, PageSet
<1> HIDE DEF v
<1>4. Keeps(v, Sent(v, "generate", page.capturing, None))
  BY <1>1, <1>3, SentKeeps DEF Keeps, RequestTypes, OrNone
<1>5. Aside
  BY QuietIsAside DEF CaptureEnds, Quiet, lines, history
<1> QED BY <1>2, <1>3, <1>4, <1>5, KeepsBoth, KeepingStep

\* A click counts.
LEMMA ClickIsAside ==
    ASSUME IInv, Click
    PROVE  Aside /\ page.session \in Sessions
<1>1. clicks' \in 0 .. MaxClicks
  BY BoundsAssumption DEF Click, IInv, TypeOK
<1>2. page.session \in Sessions
  BY DEF Click, IInv, TypeOK, PageRecord, OrNone
<1> QED BY <1>1, <1>2, QuietIsAside DEF Click, lines

\* handleAccept
LEMMA AcceptKept ==
    ASSUME IInv, Accept
    PROVE  IInv'
<1> DEFINE p == [page EXCEPT !.state = "saving", !.accepting = page.session]
           v == [Here EXCEPT !.page = p]
           u == SaveSession(v)
<1>1. Aside /\ page.session \in Sessions
  BY ClickIsAside DEF Accept
<1>2. p \in PageRecord /\ p.awaiting = page.awaiting
  BY <1>1 DEF IInv, TypeOK, PageRecord, PageStates
<1>3. Becomes(Sent(u, "accept", page.session, None))
  <2>1. [Here EXCEPT !.page.state = "saving", !.page.accepting = page.session] = v
    BY DEF Here
  <2> QED BY <2>1 DEF Accept
<1> HIDE DEF p
<1>4. Keeps(Here, v)
  BY <1>2, HereIsSound, PageSet
<1> HIDE DEF v
<1>5. Keeps(v, u)
  BY <1>4, SaveKeeps DEF Keeps
<1> HIDE DEF u
<1>6. Keeps(u, Sent(u, "accept", page.session, None))
  BY <1>1, <1>5, SentKeeps DEF Keeps, RequestTypes, OrNone
<1>7. Keeps(Here, Sent(u, "accept", page.session, None))
  BY <1>4, <1>5, <1>6, KeepsBoth
<1> QED BY <1>1, <1>3, <1>7, KeepingStep

\* handleDiscard
LEMMA DiscardKept ==
    ASSUME IInv, Discard
    PROVE  IInv'
<1>1. Aside /\ page.session \in Sessions
  BY ClickIsAside DEF Discard
<1>2. Keeps(Here, Sent(Here, "discard", page.session, None))
  BY <1>1, HereIsSound, SentKeeps DEF RequestTypes, OrNone
<1> QED BY <1>1, <1>2, KeepingStep DEF Discard

-----------------------------------------------------------------------------
(* What comes back *)

\* A message of the event stream.
LEMMA ReceiveKept ==
    ASSUME IInv, Receive
    PROVE  IInv'
<1>1. inbox \in Seq(Message) /\ inbox # <<>> /\ inbox' = Tail(inbox)
  BY DEF IInv, TypeOK, Receive
<1>2. Named(Head(inbox))
  BY <1>1 DEF IInv, AllNamed
<1>3. inbox' \in Seq(Message) /\ AllNamed(inbox')
  <2>1. Tail(inbox) \in Seq(Message)
    BY <1>1
  <2>2. \A i \in DOMAIN Tail(inbox) : i + 1 \in DOMAIN inbox /\ Tail(inbox)[i] = inbox[i + 1]
    BY <1>1
  <2> QED BY <1>1, <2>1, <2>2 DEF IInv, AllNamed
<1>4. Aside
  BY <1>3 DEF Aside, Receive, history, IInv, TypeOK
<1>5. Keeps(Here, Heard(Here, Head(inbox)))
  BY <1>2, HereIsSound, HeardKeeps
<1> QED BY <1>4, <1>5, KeepingStep DEF Receive

\* The response to an accept frees the page if it is ok; the decision is journaled.
LEMMA AcceptSettlesKept ==
    ASSUME IInv, NEW r \in answers, r.type = "accept",
           Becomes(AcceptSettles(Here, r)), Aside
    PROVE  IInv'
<1> DEFINE w == CleanupAcceptedSession(MarkSessionHandled(Here))
           p == [w.page EXCEPT !.awaiting = r.id]
           v == [w EXCEPT !.page = p]
           a == IF page.accepting = r.id THEN None ELSE page.accepting
           u == [Here EXCEPT !.page.state = "cycling", !.page.accepting = a]
<1>1. r.id \in Sessions
  BY DEF IInv, TypeOK, Response
<1>2. CASE r.ok /\ page.accepting = r.id
  <2>1. Becomes([w EXCEPT !.page.awaiting = r.id])
    BY <1>2 DEF AcceptSettles
  <2>2. Keeps(Here, w)
    BY HereIsSound, HandledAndCleanKeeps
  <2> HIDE DEF w
  <2>3. p \in PageRecord /\ p.awaiting = r.id
    BY <1>1, <2>2 DEF Keeps, Sound, World, PageRecord, OrNone
  <2>4. [w EXCEPT !.page.awaiting = r.id] = v
    BY <2>2 DEF Keeps, Sound, World
  <2>5. store[r.id].canceled
    BY <1>2 DEF IInv, Granted
  <2>6. Sound(v) /\ v.page.awaiting = r.id
    <3> HIDE DEF p
    <3> QED BY <2>2, <2>3 DEF Keeps, Sound, World
  <2>7. Durable(v.page.awaiting, store)
    BY <2>5, <2>6 DEF Durable
  <2> HIDE DEF v
  <2> QED BY <2>1, <2>4, <2>6, <2>7, PageStep
<1>3. CASE r.ok /\ page.accepting # r.id
  <2>1. Becomes(Here)
    BY <1>3 DEF AcceptSettles
  <2> QED BY <2>1, HereIsSound, KeepingStep DEF Keeps
<1>4. CASE ~r.ok
  <2>1. AcceptSettles(Here, r) = u
    BY <1>4 DEF AcceptSettles, Here
  <2>2. Keeps(Here, u)
    BY HereIsSound, CyclingKeeps
  <2> HIDE DEF u
  <2> QED BY <2>1, <2>2, KeepingStep
<1> QED BY <1>2, <1>3, <1>4

\* Any response.
LEMMA SettleKept ==
    ASSUME IInv, NEW r \in answers, Settle(r)
    PROVE  IInv'
<1>1. Aside
  BY QuietIsAside DEF Settle, history
<1>2. CASE r.type = "accept"
  BY <1>1, <1>2, AcceptSettlesKept DEF Settle, Settled
<1>3. CASE r.type # "accept"
  <2>1. Settled(Here, r) \in {Cleanup(MarkSessionHandled(Here)), Here}
    BY <1>3, Zenon DEF Settled
  <2>2. Keeps(Here, Settled(Here, r))
    BY <2>1, HereIsSound, HandledAndCleanKeeps DEF Keeps
  <2> QED BY <1>1, <2>2, KeepingStep DEF Settle
<1> QED BY <1>2, <1>3

\* The timer of a read.
LEMMA ReadIsDueKept ==
    ASSUME IInv, NEW r \in reads, ReadIsDue(r)
    PROVE  IInv'
<1>1. Aside
  BY QuietIsAside DEF ReadIsDue, Quiet, lines, history
<1>2. PICK b \in BOOLEAN :
        Becomes([Here EXCEPT !.reads = (@ \ {r}) \cup IF b THEN {[r EXCEPT !.at = "sent"]} ELSE {}])
  BY Zenon DEF ReadIsDue
<1> DEFINE n == (reads \ {r}) \cup IF b THEN {[r EXCEPT !.at = "sent"]} ELSE {}
<1>3. n \in SUBSET Read
  BY DEF IInv, TypeOK, Read
<1>4. Becomes([Here EXCEPT !.reads = n])
  BY <1>2 DEF Here
<1> HIDE DEF n
<1>5. Keeps(Here, [Here EXCEPT !.reads = n])
  BY <1>3, HereIsSound, ReadsSet
<1> QED BY <1>1, <1>4, <1>5, KeepingStep

\* The server reads the file.
LEMMA ReadSourceKept ==
    ASSUME IInv, NEW r \in reads, ReadSource(r)
    PROVE  IInv'
<1>1. Aside
  BY QuietIsAside DEF ReadSource, Quiet, lines, history
<1> DEFINE b == r.id \in source
           back == [r EXCEPT !.at = "back", !.found = b]
           n == (reads \ {r}) \cup IF link = "stale" THEN {} ELSE {back}
<1>2. back \in Read
  <2>1. b \in BOOLEAN
    OBVIOUS
  <2> HIDE DEF b
  <2> QED BY <2>1 DEF IInv, TypeOK, Read
<1>3. reads' = n /\ UNCHANGED <<page, storage, dom, requests>>
  BY DEF ReadSource
<1> HIDE DEF back
<1>4. n \in SUBSET Read
  BY <1>2 DEF IInv, TypeOK
<1> HIDE DEF n
<1>5. Becomes([Here EXCEPT !.reads = n])
  BY <1>3 DEF Becomes, Here
<1>6. Keeps(Here, [Here EXCEPT !.reads = n])
  BY <1>4, HereIsSound, ReadsSet
<1> QED BY <1>1, <1>5, <1>6, KeepingStep

\* The result of a read.
LEMMA ReadIsBackKept ==
    ASSUME IInv, NEW r \in reads, ReadIsBack(r)
    PROVE  IInv'
<1> DEFINE n == reads \ {r}
           w == [Here EXCEPT !.reads = n]
           due == [r EXCEPT !.at = "due", !.again = TRUE]
<1>1. Aside
  BY QuietIsAside DEF ReadIsBack, Quiet, lines, history
<1>2. w = [Here EXCEPT !.reads = @ \ {r}] /\ w.reads = n /\ w.dom = dom /\ w.page = page
  BY DEF Here
<1>3. \/ Becomes(SaveSession(ShowVariants([w EXCEPT !.dom = @ \cup {r.id}, !.page.file = TRUE])))
      \/ Becomes([w EXCEPT !.reads = @ \cup {due}])
      \/ Becomes(Cleanup(MarkSessionHandled(Sent(w, "orphaned", r.id, None))))
      \/ Becomes(w)
  <2> HIDE DEF w
  <2> QED BY <1>2, Zenon DEF ReadIsBack
<1>4. r.id \in Sessions /\ r \in Read /\ n \in SUBSET Read
  BY DEF IInv, TypeOK, Read
<1> HIDE DEF n
<1>5. Keeps(Here, w)
  BY <1>4, HereIsSound, ReadsSet
<1> HIDE DEF w
<1>6. CASE Becomes(SaveSession(ShowVariants([w EXCEPT !.dom = @ \cup {r.id}, !.page.file = TRUE])))
  <2> DEFINE d == w.dom \cup {r.id}
             v == [w EXCEPT !.dom = d]
             u == [v EXCEPT !.page.file = TRUE]
             t == ShowVariants(u)
  <2>1. [w EXCEPT !.dom = @ \cup {r.id}, !.page.file = TRUE] = u
    BY <1>5 DEF Keeps, Sound, World
  <2>2. d \in SUBSET Sessions
    BY <1>4, <1>5 DEF Keeps, Sound, World
  <2> HIDE DEF d
  <2>3. Keeps(w, v)
    BY <1>5, <2>2, DomSet DEF Keeps
  <2> HIDE DEF v
  <2>4. Keeps(v, u)
    BY <2>3, FileKeeps DEF Keeps
  <2> HIDE DEF u
  <2>5. Keeps(u, t)
    BY <2>4, ShowKeeps DEF Keeps
  <2> HIDE DEF t
  <2>6. Keeps(t, SaveSession(t))
    BY <2>5, SaveKeeps DEF Keeps
  <2>7. Keeps(Here, SaveSession(t))
    BY <1>5, <2>3, <2>4, <2>5, <2>6, KeepsBoth
  <2> QED BY <1>1, <1>6, <2>1, <2>7, KeepingStep DEF t
<1>7. CASE Becomes([w EXCEPT !.reads = @ \cup {due}])
  <2> DEFINE m == w.reads \cup {due}
  <2>1. due \in Read
    BY <1>4 DEF Read
  <2> HIDE DEF due
  <2>2. m \in SUBSET Read /\ [w EXCEPT !.reads = @ \cup {due}] = [w EXCEPT !.reads = m]
    BY <1>5, <2>1 DEF Keeps, Sound, World
  <2> HIDE DEF m
  <2>3. Keeps(w, [w EXCEPT !.reads = m])
    BY <1>5, <2>2, ReadsSet DEF Keeps
  <2>4. Keeps(Here, [w EXCEPT !.reads = m])
    BY <1>5, <2>3, KeepsBoth
  <2> QED BY <1>1, <1>7, <2>2, <2>4, KeepingStep
<1>8. CASE Becomes(Cleanup(MarkSessionHandled(Sent(w, "orphaned", r.id, None))))
  <2> DEFINE v == Sent(w, "orphaned", r.id, None)
  <2>1. Keeps(w, v)
    BY <1>4, <1>5, SentKeeps DEF Keeps, RequestTypes, OrNone
  <2> HIDE DEF v
  <2>2. Keeps(v, Cleanup(MarkSessionHandled(v)))
    BY <2>1, HandledAndCleanKeeps DEF Keeps
  <2>3. Keeps(Here, Cleanup(MarkSessionHandled(v)))
    BY <1>5, <2>1, <2>2, KeepsBoth
  <2> QED BY <1>1, <1>8, <2>3, KeepingStep DEF v
<1>9. CASE Becomes(w)
  BY <1>1, <1>5, <1>9, KeepingStep
<1> QED BY <1>3, <1>6, <1>7, <1>8, <1>9

-----------------------------------------------------------------------------
(* The server *)

\* A snapshot goes on to another one that is as canceled, or more, and owes
\* nothing but chores.
Grows(snap, n) ==
    n \in Snapshot /\ (snap.canceled => n.canceled) /\ (Owing(snap) => Owing(n))

\* What is journaled cancels, and takes nothing back.
LEMMA JournalGrows ==
    ASSUME NEW snap \in Snapshot
    PROVE  /\ \A e \in Event : e.type \in Owable => Grows(snap, ApplyGenerate(snap, e))
           /\ \A phase \in BrowserPhases : Grows(snap, ApplyCheckpoint(snap, phase, 0))
           /\ \A e \in Event : e.type \in Owable =>
                 Grows(snap, ApplyDecision(snap, e)) /\ ApplyDecision(snap, e).canceled
           /\ Grows(snap, ApplyDiscarded(snap)) /\ Grows(snap, ApplyComplete(snap))
           /\ \A about : Grows(snap, ApplyAgentError(snap, about))
           /\ \A carbonize \in BOOLEAN : Grows(snap, ApplyAgentDone(snap, carbonize))
<1>1. /\ {"generate_requested", "discarded", "completed", "agent_error", "variants_ready",
          "accept_requested", "discard_requested", "carbonize_required"} \subseteq Phases
      /\ BrowserPhases \subseteq Phases
  BY DEF Phases, FencedPhases, CompletedPhases
<1>2. 0 \in 0 .. MaxRevision
  BY StoreAssumption
<1>3. \A e \in Event : e.type \in Owable => Grows(snap, ApplyGenerate(snap, e))
  BY <1>1 DEF ApplyGenerate, Snapshot, Grows, Owing
<1>4. \A phase \in BrowserPhases : Grows(snap, ApplyCheckpoint(snap, phase, 0))
  BY <1>1, <1>2 DEF ApplyCheckpoint, Snapshot, Grows, Owing
<1>5. \A e \in Event : e.type \in Owable =>
         Grows(snap, ApplyDecision(snap, e)) /\ ApplyDecision(snap, e).canceled
  BY <1>1 DEF ApplyDecision, Snapshot, Grows, Owing
<1>6. Grows(snap, ApplyDiscarded(snap)) /\ Grows(snap, ApplyComplete(snap))
  BY <1>1 DEF ApplyDiscarded, ApplyComplete, Snapshot, Grows, Owing
<1>7. \A about : Grows(snap, ApplyAgentError(snap, about))
  BY <1>1 DEF ApplyAgentError, Snapshot, Grows, Owing
<1>8. \A carbonize \in BOOLEAN : Grows(snap, ApplyAgentDone(snap, carbonize))
  BY <1>1 DEF ApplyAgentDone, Snapshot, Grows, Owing
<1> QED BY <1>3, <1>4, <1>5, <1>6, <1>7, <1>8

\* The journal goes on, and no decision is taken back.
Onward(st) ==
    \A s \in Sessions : (store[s].canceled => st[s].canceled) /\ Owing(st[s])

\* A session's snapshot is replaced by one that is as canceled.
LEMMA StoreGrows ==
    ASSUME IInv, NEW s \in Sessions, NEW n, Grows(store[s], n)
    PROVE  LET st == [store EXCEPT ![s] = n] IN
           st \in [Sessions -> Snapshot] /\ st[s] = n /\ Onward(st)
BY DEF IInv, TypeOK, Grows, Onward

\* A step of the server and of the agents.  The page and its requests change at most
\* in their gates; what is answered ok is journaled.
LEMMA ServerStep ==
    ASSUME IInv,
           page' \in PageRecord, page'.awaiting = page.awaiting,
           requests' \subseteq Request, Phased(requests'),
           UNCHANGED <<storage, dom, reads, link, history>>,
           store' \in [Sessions -> Snapshot], Onward(store'),
           landed' \subseteq Sessions, source' \subseteq Sessions,
           work' \in [Sessions -> SUBSET Chores],
           answers' \subseteq Response, Granted(answers', store'),
           inbox' \in Seq(Message), AllNamed(inbox')
    PROVE  IInv'
<1>1. TypeOK'
  BY DEF IInv, TypeOK, history
<1>2. Durable(page'.awaiting, store')
  BY DEF IInv, TypeOK, PageRecord, OrNone, Durable, Onward
<1>3. \A s \in Sessions : Owing(store'[s])
  BY DEF Onward
<1> QED BY <1>1, <1>2, <1>3 DEF IInv

\* What was answered stays journaled.
LEMMA GrantedStays ==
    ASSUME IInv, Onward(store')
    PROVE  Granted(answers, store')
BY DEF IInv, TypeOK, Response, Granted, Onward

\* A request is answered in its turn.
LEMMA ArrivedFacts ==
    ASSUME IInv, NEW m \in requests, Arrived(m)
    PROVE  /\ page' \in PageRecord /\ page'.awaiting = page.awaiting
           /\ requests' \subseteq Request /\ Phased(requests')
           /\ m \in Request /\ (m.type = "checkpoint" => m.phase \in BrowserPhases)
<1>1. m \in Request /\ requests \subseteq Request /\ page \in PageRecord
  BY DEF IInv, TypeOK
<1>2. \A g \in OrNone(Sessions) : Opens(m, g) \in OrNone(Sessions)
  BY DEF Opens, OrNone
<1>3. page' \in PageRecord /\ page'.awaiting = page.awaiting
  <2>1. page' = [page EXCEPT !.gate = Opens(m, page.gate)]
    BY DEF Arrived
  <2>2. Opens(m, page.gate) \in OrNone(Sessions)
    BY <1>1, <1>2 DEF PageRecord
  <2> QED BY <1>1, <2>1, <2>2 DEF PageRecord
<1>4. ASSUME NEW c \in requests'
      PROVE  c \in Request /\ (c.type = "checkpoint" => c.phase \in BrowserPhases)
  <2>1. PICK d \in requests : c = [d EXCEPT !.gate = Opens(m, d.gate)]
    BY <1>4 DEF Arrived
  <2>2. d \in Request /\ Opens(m, d.gate) \in OrNone(Sessions)
    BY <1>1, <1>2 DEF Request
  <2>3. d.type = "checkpoint" => d.phase \in BrowserPhases
    BY DEF IInv, Phased
  <2> QED BY <2>1, <2>2, <2>3 DEF Request
<1> QED BY <1>1, <1>3, <1>4 DEF IInv, Phased

\* A response is noted, if the page does something with it.
LEMMA RespondFacts ==
    ASSUME IInv, NEW m \in Request, NEW ok \in BOOLEAN, Respond(m, ok), Onward(store'),
           m.type = "accept" /\ ok => store'[m.id].canceled
    PROVE  answers' \subseteq Response /\ Granted(answers', store')
<1> DEFINE r == [type |-> m.type, id |-> m.id, ok |-> ok]
<1>1. r \in Response
  BY DEF Request, Response
<1>2. r.type = "accept" /\ r.ok => store'[r.id].canceled
  OBVIOUS
<1>3. answers' \subseteq answers \cup {r}
  BY DEF Respond
<1> HIDE DEF r
<1>4. answers \subseteq Response
  BY DEF IInv, TypeOK
<1>5. Granted(answers, store')
  BY GrantedStays
<1> QED BY <1>1, <1>2, <1>3, <1>4, <1>5 DEF Granted

\* What is said about a session.
LEMMA BroadcastFacts ==
    ASSUME IInv, NEW s \in Sessions,
           NEW type \in {"done", "error", "agent_done", "complete", "discarded"},
           Broadcast(Says(type, s))
    PROVE  inbox' \in Seq(Message) /\ AllNamed(inbox')
<1> DEFINE m == Says(type, s)
<1>1. m \in Message /\ m.id = s
  BY DEF Says, Message, OrNone
<1>2. inbox \in Seq(Message) /\ AllNamed(inbox)
  BY DEF IInv, TypeOK
<1>3. inbox' = IF link = "open" THEN Append(inbox, m) ELSE inbox
  BY DEF Broadcast
<1> HIDE DEF m
<1>4. Append(inbox, m) \in Seq(Message)
  BY <1>1, <1>2
<1>5. \A i \in DOMAIN Append(inbox, m) : Append(inbox, m)[i] \in {m, inbox[i]}
                                         /\ (Append(inbox, m)[i] = m \/ i \in DOMAIN inbox)
  BY <1>1, <1>2
<1>6. AllNamed(Append(inbox, m))
  BY <1>1, <1>2, <1>5 DEF AllNamed, Named
<1> QED BY <1>2, <1>3, <1>4, <1>6

\* The queue and the journal are as they were.
LEMMA ServerStays ==
    ASSUME IInv, UNCHANGED server
    PROVE  /\ store' \in [Sessions -> Snapshot] /\ Onward(store')
           /\ landed' \subseteq Sessions /\ source' \subseteq Sessions
           /\ work' \in [Sessions -> SUBSET Chores]
BY DEF IInv, TypeOK, server, Onward

\* A refusal, for the token or for the session.
LEMMA RefusedKept ==
    ASSUME IInv, NEW m \in requests, Arrived(m), UNCHANGED <<server, inbox>>,
           UNCHANGED answers \/ Respond(m, FALSE)
    PROVE  IInv'
<1>1. /\ page' \in PageRecord /\ page'.awaiting = page.awaiting
      /\ requests' \subseteq Request /\ Phased(requests') /\ m \in Request
  BY ArrivedFacts
<1>2. /\ store' \in [Sessions -> Snapshot] /\ Onward(store')
      /\ landed' \subseteq Sessions /\ source' \subseteq Sessions
      /\ work' \in [Sessions -> SUBSET Chores]
  BY ServerStays
<1>3. answers' \subseteq Response /\ Granted(answers', store')
  <2>1. CASE UNCHANGED answers
    BY <1>2, <2>1, GrantedStays DEF IInv, TypeOK
  <2>2. CASE Respond(m, FALSE)
    BY <1>1, <1>2, <2>2, RespondFacts
  <2> QED BY <2>1, <2>2
<1>4. inbox' \in Seq(Message) /\ AllNamed(inbox')
  BY DEF IInv, TypeOK
<1>5. UNCHANGED <<storage, dom, reads, link, history>>
  BY DEF Arrived
<1> QED BY <1>1, <1>2, <1>3, <1>4, <1>5, ServerStep

\* The chores of an agent, some of them done and one more to do.
LEMMA ChoresType ==
    ASSUME IInv, NEW s \in Sessions, NEW left \in SUBSET Chores
    PROVE  [work EXCEPT ![s] = left] \in [Sessions -> SUBSET Chores]
BY DEF IInv, TypeOK

\* What a session is left with, once its generation is retired.
LEMMA RetiredType ==
    ASSUME IInv, NEW s \in Sessions, NEW left \in Retired(s)
    PROVE  left \in SUBSET Chores
BY DEF IInv, TypeOK, Retired

\* An event as it is posted.
LEMMA PlainType ==
    ASSUME NEW s \in Sessions, NEW t \in EventTypes
    PROVE  /\ Plain(s, t) \in Event /\ Plain(s, t).type = t
           /\ [Plain(s, t) EXCEPT !.ready = TRUE] \in Event
           /\ [Plain(s, t) EXCEPT !.ready = TRUE].type = t
BY DEF Plain, Event

\* An event that is taken in.
LEMMA TakeInKept ==
    ASSUME IInv, NEW m \in requests, TakeIn(m)
    PROVE  IInv'
<1> DEFINE s == m.id
           type == m.type
<1>1. /\ page' \in PageRecord /\ page'.awaiting = page.awaiting
      /\ requests' \subseteq Request /\ Phased(requests')
      /\ m \in Request /\ (type = "checkpoint" => m.phase \in BrowserPhases)
  BY ArrivedFacts DEF TakeIn
<1>2. s \in Sessions /\ store[s] \in Snapshot /\ store \in [Sessions -> Snapshot]
  BY <1>1 DEF Request, IInv, TypeOK
<1>3. UNCHANGED <<storage, dom, reads, link, history, source>> /\ Respond(m, TRUE)
  BY DEF TakeIn, Arrived
<1>4. inbox \in Seq(Message) /\ AllNamed(inbox) /\ landed \subseteq Sessions
      /\ source \subseteq Sessions /\ work \in [Sessions -> SUBSET Chores]
  BY DEF IInv, TypeOK
<1>5. Owable = {"generate", "accept", "discard"} /\ Owable \subseteq EventTypes
      /\ {"preflight", "accept", "discard"} \subseteq Chores
  BY DEF EventTypes, Chores, Owable
<1>6. SUFFICES /\ store' \in [Sessions -> Snapshot] /\ Onward(store')
               /\ type = "accept" => store'[s].canceled
               /\ landed' \subseteq Sessions
               /\ work' \in [Sessions -> SUBSET Chores]
               /\ inbox' \in Seq(Message) /\ AllNamed(inbox')
  <2>1. answers' \subseteq Response /\ Granted(answers', store')
    BY <1>1, <1>3, <1>6, RespondFacts
  <2> QED BY <1>1, <1>3, <1>4, <1>6, <2>1, ServerStep
<1>7. CASE /\ type = "generate"
           /\ store' = [store EXCEPT ![s] = ApplyGenerate(store[s], Plain(s, "generate"))]
           /\ work' = [work EXCEPT ![s] = @ \cup {"preflight"}]
           /\ UNCHANGED <<landed, inbox>>
  <2> DEFINE n == ApplyGenerate(store[s], Plain(s, "generate"))
  <2>1. Grows(store[s], n)
    BY <1>2, <1>5, PlainType, JournalGrows
  <2>2. store' = [store EXCEPT ![s] = n]
    BY <1>7
  <2> HIDE DEF n
  <2>3. store' \in [Sessions -> Snapshot] /\ Onward(store')
    BY <1>2, <2>1, <2>2, StoreGrows
  <2>4. work' \in [Sessions -> SUBSET Chores]
    BY <1>2, <1>4, <1>5, <1>7
  <2> QED BY <1>4, <1>7, <2>3, <2>4
<1>8. CASE /\ type = "checkpoint" /\ UNCHANGED work
           /\ \/ /\ store' = [store EXCEPT ![s] = ApplyCheckpoint(store[s], m.phase, 0)]
                 /\ landed' = IF Fenced(store[s]) THEN landed
                              ELSE IF m.arrived THEN landed \cup {s} ELSE landed \ {s}
              \/ UNCHANGED <<store, landed>>
           /\ IF MissedCompletion(m) THEN Broadcast(Says("done", s)) ELSE UNCHANGED inbox
  <2>1. store' \in [Sessions -> Snapshot] /\ Onward(store')
    <3>1. CASE store' = [store EXCEPT ![s] = ApplyCheckpoint(store[s], m.phase, 0)]
      <4> DEFINE n == ApplyCheckpoint(store[s], m.phase, 0)
      <4>1. Grows(store[s], n)
        BY <1>1, <1>2, <1>8, JournalGrows
      <4>2. store' = [store EXCEPT ![s] = n]
        BY <3>1
      <4> HIDE DEF n
      <4> QED BY <1>2, <4>1, <4>2, StoreGrows
    <3>2. CASE UNCHANGED store
      BY <1>2, <3>2 DEF Onward, IInv
    <3> QED BY <1>8, <3>1, <3>2
  <2>2. landed' \subseteq Sessions
    BY <1>2, <1>4, <1>8
  <2>3. inbox' \in Seq(Message) /\ AllNamed(inbox')
    <3>1. CASE Broadcast(Says("done", s))
      BY <1>2, <3>1, BroadcastFacts
    <3>2. CASE UNCHANGED inbox
      BY <1>4, <3>2
    <3> QED BY <1>8, <3>1, <3>2
  <2> QED BY <1>4, <1>8, <2>1, <2>2, <2>3
<1>9. CASE /\ type \in Decisions
           /\ store' = [store EXCEPT ![s] = ApplyDecision(store[s], Plain(s, type))]
           /\ \E left \in Retired(s) : work' = [work EXCEPT ![s] = left \cup {type}]
           /\ UNCHANGED <<landed, inbox>>
  <2> DEFINE n == ApplyDecision(store[s], Plain(s, type))
  <2>1. type \in EventTypes /\ type \in Chores /\ type \in Owable
    BY <1>5, <1>9 DEF Decisions
  <2>2. Grows(store[s], n) /\ n.canceled
    BY <1>2, <2>1, PlainType, JournalGrows
  <2>3. store' = [store EXCEPT ![s] = n]
    BY <1>9
  <2> HIDE DEF n
  <2>4. store' \in [Sessions -> Snapshot] /\ Onward(store') /\ store'[s] = n
    BY <1>2, <2>2, <2>3, StoreGrows
  <2>5. work' \in [Sessions -> SUBSET Chores]
    <3>1. PICK left \in Retired(s) : work' = [work EXCEPT ![s] = left \cup {type}]
      BY <1>9
    <3>2. left \cup {type} \in SUBSET Chores
      BY <1>2, <2>1, RetiredType
    <3> QED BY <1>2, <3>1, <3>2, ChoresType
  <2> QED BY <1>4, <1>9, <2>2, <2>4, <2>5
<1>10. CASE /\ type = "orphaned"
            /\ store' = [store EXCEPT ![s] =
                            ApplyDiscarded(ApplyDecision(store[s], Plain(s, "discard")))]
            /\ \E left \in Retired(s) : work' = [work EXCEPT ![s] = left]
            /\ UNCHANGED <<landed, inbox>>
  <2> DEFINE d == ApplyDecision(store[s], Plain(s, "discard"))
             n == ApplyDiscarded(d)
  <2>1. Grows(store[s], d)
    BY <1>2, <1>5, PlainType, JournalGrows
  <2>2. store' = [store EXCEPT ![s] = n]
    BY <1>10
  <2> HIDE DEF d
  <2>3. Grows(d, n)
    BY <2>1, JournalGrows DEF Grows
  <2> HIDE DEF n
  <2>4. store' \in [Sessions -> Snapshot] /\ Onward(store')
    <3>1. Grows(store[s], n)
      BY <2>1, <2>3 DEF Grows
    <3> QED BY <1>2, <2>2, <3>1, StoreGrows
  <2>5. work' \in [Sessions -> SUBSET Chores]
    BY <1>2, <1>10, RetiredType, ChoresType
  <2> QED BY <1>4, <1>10, <2>4, <2>5
<1> QED
  BY <1>7, <1>8, <1>9, <1>10 DEF TakeIn

-----------------------------------------------------------------------------
(* The agents *)

\* A step of an agent: the page and what was answered stand.
LEMMA AgentStep ==
    ASSUME IInv, Elsewhere,
           store' \in [Sessions -> Snapshot], Onward(store'),
           landed' \subseteq Sessions, source' \subseteq Sessions,
           work' \in [Sessions -> SUBSET Chores],
           inbox' \in Seq(Message), AllNamed(inbox')
    PROVE  IInv'
<1>1. /\ page' \in PageRecord /\ page'.awaiting = page.awaiting
      /\ requests' \subseteq Request /\ Phased(requests')
      /\ UNCHANGED <<storage, dom, reads, link, history, answers>>
  BY DEF IInv, TypeOK, Elsewhere, pageVars
<1>2. answers' \subseteq Response /\ Granted(answers', store')
  BY <1>1, GrantedStays DEF IInv, TypeOK
<1> QED BY <1>1, <1>2, ServerStep

\* A generation is handed out.
LEMMA HandOutKept ==
    ASSUME IInv, NEW s \in Sessions, HandOut(s)
    PROVE  IInv'
<1> DEFINE e == [Plain(s, "generate") EXCEPT !.ready = TRUE]
           n == ApplyGenerate(store[s], e)
           left == (work[s] \ {"preflight"}) \cup {"generate"}
<1>1. e \in Event /\ e.type \in Owable
  BY PlainType DEF EventTypes, Owable
<1>2. store' = [store EXCEPT ![s] = n] /\ work' = [work EXCEPT ![s] = left]
  BY DEF HandOut
<1> HIDE DEF e
<1>3. Grows(store[s], n)
  BY <1>1, JournalGrows DEF IInv, TypeOK
<1>4. left \in SUBSET Chores
  BY DEF IInv, TypeOK, Chores
<1> HIDE DEF n, left
<1>5. store' \in [Sessions -> Snapshot] /\ Onward(store')
  BY <1>2, <1>3, StoreGrows
<1>6. work' \in [Sessions -> SUBSET Chores]
  BY <1>2, <1>4, ChoresType
<1> QED BY <1>5, <1>6, AgentStep DEF HandOut, IInv, TypeOK

\* The variants are written.
LEMMA PublishKept ==
    ASSUME IInv, NEW s \in Sessions, Publish(s)
    PROVE  IInv'
BY AgentStep DEF Publish, IInv, TypeOK, Onward

\* A decision is carried out.
LEMMA CarryOutKept ==
    ASSUME IInv, NEW s \in Sessions, NEW chore \in Chores, CarryOut(s, chore)
    PROVE  IInv'
<1> DEFINE left == (work[s] \ {chore}) \cup {IF chore = "accept" THEN "applied" ELSE "dropped"}
<1>1. left \in SUBSET Chores
  BY DEF IInv, TypeOK, Chores
<1>2. work' = [work EXCEPT ![s] = left]
  BY DEF CarryOut
<1> HIDE DEF left
<1>3. work' \in [Sessions -> SUBSET Chores]
  BY <1>1, <1>2, ChoresType
<1> QED BY <1>3, AgentStep DEF CarryOut, IInv, TypeOK, Onward

\* What agents answer.
LEMMA RepliesFacts ==
    ASSUME NEW s, NEW chore, NEW r \in Replies(s, chore)
    PROVE  /\ r.type \in {"done", "error", "agent_done", "complete", "discarded"}
           /\ r.next \subseteq Chores
BY DEF Replies, Reply, Decisions, Chores

\* An agent replies.
LEMMA AgentRepliesKept ==
    ASSUME IInv, NEW s \in Sessions, NEW chore \in Chores, AgentReplies(s, chore)
    PROVE  IInv'
<1>1. PICK r \in Replies(s, chore), answered \in Answered(chore) :
         /\ \/ /\ store' = [store EXCEPT ![s] = Journaled(store[s], r, answered)]
               /\ landed' \in {landed, landed \cup {s}}
            \/ UNCHANGED <<store, landed>>
         /\ work' = [work EXCEPT ![s] = (@ \ {chore}) \cup r.next]
         /\ Broadcast(Says(r.type, s))
  BY DEF AgentReplies
<1>2. /\ r.type \in {"done", "error", "agent_done", "complete", "discarded"}
      /\ r.next \subseteq Chores
  BY RepliesFacts
<1>3. Grows(store[s], Journaled(store[s], r, answered))
  <2>1. store[s] \in Snapshot /\ (r.type = "agent_done") \in BOOLEAN
    BY DEF IInv, TypeOK
  <2> QED BY <2>1, JournalGrows DEF Journaled
<1>4. store' \in [Sessions -> Snapshot] /\ Onward(store')
  <2>1. CASE store' = [store EXCEPT ![s] = Journaled(store[s], r, answered)]
    <3> DEFINE n == Journaled(store[s], r, answered)
    <3>1. Grows(store[s], n) /\ store' = [store EXCEPT ![s] = n]
      BY <1>3, <2>1
    <3> HIDE DEF n
    <3> QED BY <3>1, StoreGrows
  <2>2. CASE UNCHANGED store
    BY <2>2 DEF IInv, TypeOK, Onward
  <2> QED BY <1>1, <2>1, <2>2
<1>5. landed' \subseteq Sessions
  BY <1>1 DEF IInv, TypeOK
<1>6. work' \in [Sessions -> SUBSET Chores]
  BY <1>1, <1>2 DEF IInv, TypeOK
<1>7. inbox' \in Seq(Message) /\ AllNamed(inbox')
  BY <1>1, <1>2, BroadcastFacts
<1> QED BY <1>4, <1>5, <1>6, <1>7, AgentStep DEF AgentReplies, IInv, TypeOK

-----------------------------------------------------------------------------
(* Hot updates, connections, reloads and restarts *)

\* The document is brought up to the source.
LEMMA HotUpdateKept ==
    ASSUME IInv, HotUpdate
    PROVE  IInv'
<1> DEFINE v == [Here EXCEPT !.dom = source]
           u == Observe(v)
<1>1. Keeps(Here, v)
  BY HereIsSound, DomSet DEF IInv, TypeOK
<1> HIDE DEF v
<1>2. Keeps(v, u)
  BY <1>1, ObserveKeeps DEF Keeps
<1> HIDE DEF u
<1>3. Keeps(u, Scout(u))
  BY <1>2, ScoutKeeps DEF Keeps
<1>4. Becomes(Scout(u))
  BY DEF HotUpdate, u, v
<1>5. Keeps(Here, Scout(u))
  BY <1>1, <1>2, <1>3, KeepsBoth
<1>6. Aside
  BY QuietIsAside DEF HotUpdate, Quiet, lines, history
<1> QED BY <1>4, <1>5, <1>6, KeepingStep

\* The page is as it was.
LEMMA PageStays ==
    ASSUME IInv, UNCHANGED pageVars, Aside
    PROVE  IInv'
<1>1. Becomes(Here)
  BY DEF Becomes, Here, pageVars
<1> QED BY <1>1, HereIsSound, KeepingStep DEF Keeps

\* A connection is opened; the active sessions are told.
LEMMA ConnectKept ==
    ASSUME IInv, Connect
    PROVE  IInv'
<1> DEFINE seen == [s \in Sessions |-> Summary(store[s])]
           told == {s \in landed : Active(store[s])}
           m == [Says("connected", None) EXCEPT !.seen = seen, !.landed = told]
<1>1. \A s \in Sessions : Summary(store[s]) \in Snapshot
  <2>1. BaseSnapshot \in Snapshot
    BY StoreAssumption DEF BaseSnapshot, Snapshot, Phases
  <2> QED BY <2>1 DEF Summary, IInv, TypeOK, Snapshot
<1>2. seen \in [Sessions -> Snapshot] /\ told \subseteq Sessions
  BY <1>1 DEF IInv, TypeOK
<1>3. inbox' = <<m>>
  BY DEF Connect
<1> HIDE DEF seen, told
<1>4. m \in Message /\ m.type = "connected"
  BY <1>2 DEF Message, Says, OrNone
<1> HIDE DEF m
<1>5. inbox' \in Seq(Message) /\ AllNamed(inbox')
  BY <1>3, <1>4 DEF AllNamed, Named
<1>6. Aside
  BY <1>5 DEF Aside, Connect, history, IInv, TypeOK
<1> QED BY <1>6, PageStays DEF Connect

\* A mishap is counted.
LEMMA MishapType ==
    ASSUME IInv, Mishap
    PROVE  losses' \in 0 .. MaxLosses
BY BoundsAssumption DEF Mishap, IInv, TypeOK

\* No message is on its way.
LEMMA NothingNamed == <<>> \in Seq(Message) /\ AllNamed(<<>>)
BY DEF AllNamed

\* A connection is lost.
LEMMA DisconnectKept ==
    ASSUME IInv, Disconnect
    PROVE  IInv'
<1>1. Aside
  BY MishapType, NothingNamed DEF Aside, Disconnect, IInv, TypeOK
<1> QED BY <1>1, PageStays DEF Disconnect

\* What a page starts with.
LEMMA NewPageType == NewPage \in PageRecord /\ NewPage.awaiting = None
BY DEF NewPage, PageRecord, OrNone, PageStates

\* The page is left.
LEMMA UnloadKept ==
    ASSUME IInv, Unload
    PROVE  IInv'
<1> DEFINE p == [NewPage EXCEPT !.state = "reloading"]
           kept == {m \in requests : m.gate = None}
           w == [page |-> p, storage |-> storage, dom |-> dom, requests |-> kept, reads |-> {}]
<1>1. p \in PageRecord /\ p.awaiting = None
  BY DEF NewPage, PageRecord, OrNone, PageStates
<1>2. Becomes(w)
  BY DEF Becomes, Unload
<1> HIDE DEF p
<1>3. Sound(w) /\ w.page = p
  BY <1>1 DEF Sound, World, IInv, TypeOK, Phased
<1>4. Durable(w.page.awaiting, store)
  BY <1>1, <1>3 DEF Durable
<1> HIDE DEF w
<1>5. Aside
  BY MishapType, NothingNamed DEF Aside, Unload, IInv, TypeOK
<1> QED BY <1>2, <1>3, <1>4, <1>5, PageStep

\* A page comes up.
LEMMA LoadKept ==
    ASSUME IInv, Load
    PROVE  IInv'
<1> DEFINE w == [Here EXCEPT !.page = NewPage, !.dom = source, !.requests = {}]
<1>1. Sound(w) /\ w.page.awaiting = None
  <2>1. Here.page = page /\ source \subseteq Sessions
    BY HereIsSound DEF IInv, TypeOK
  <2> HIDE DEF NewPage
  <2> QED BY <2>1, NewPageType, HereIsSound DEF Sound, World, Phased
<1> HIDE DEF w
<1>2. Keeps(w, ResumeSession(w))
  BY <1>1, ResumeKeeps
<1>3. Becomes(ResumeSession(w))
  BY DEF Load, w
<1>4. Durable(ResumeSession(w).page.awaiting, store)
  BY <1>1, <1>2 DEF Keeps, Durable
<1>5. Aside
  BY DEF Aside, Load, history, IInv, TypeOK
<1> QED BY <1>2, <1>3, <1>4, <1>5, PageStep DEF Keeps

\* The server restarts.
LEMMA RestartKept ==
    ASSUME IInv, Restart
    PROVE  IInv'
<1>1. work' \in [Sessions -> SUBSET Chores]
  <2>1. ASSUME NEW s \in Sessions PROVE Restored(s) \subseteq Chores
    BY DEF Restored, IInv, Owing, Owable, Chores
  <2> QED BY <2>1 DEF Restart, IInv, TypeOK, Chores
<1>2. losses' \in 0 .. MaxLosses
  BY MishapType DEF Restart
<1>3. answers \subseteq Response /\ Granted(answers, store) /\ UNCHANGED <<store, answers>>
  BY DEF Restart, IInv, TypeOK
<1>4. TypeOK'
  BY <1>1, <1>2, NothingNamed DEF Restart, IInv, TypeOK, pageVars
<1> QED BY <1>3, <1>4, NothingNamed DEF Restart, IInv, pageVars

-----------------------------------------------------------------------------
(* The theorems *)

\* A page that has just been opened, and a server that has journaled nothing.
LEMMA InitGood == Init => IInv
<1> SUFFICES ASSUME Init PROVE IInv
  OBVIOUS
<1>1. BaseSnapshot \in Snapshot /\ ~BaseSnapshot.canceled /\ BaseSnapshot.pending = None
  BY StoreAssumption DEF BaseSnapshot, Snapshot, Phases
<1>2. page \in PageRecord /\ page.awaiting = None
  <2>1. page = [NewPage EXCEPT !.scouting = TRUE]
    BY DEF Init
  <2> QED BY <2>1, NewPageType DEF NewPage, PageRecord
<1>3. storage \in [saved : Saved, handled : OrNone(Sessions)]
  BY DEF Init, NoneSaved, Saved, OrNone, PageStates
<1>4. store \in [Sessions -> Snapshot] /\ \A s \in Sessions : Owing(store[s])
  <2> HIDE DEF BaseSnapshot
  <2> QED BY <1>1 DEF Init, Owing
<1>5. TypeOK
  BY <1>2, <1>3, <1>4, NothingNamed, BoundsAssumption DEF Init, TypeOK
<1> QED BY <1>2, <1>4, <1>5, NothingNamed DEF Init, IInv, Phased, Granted, Durable

\* One step of the page, of the server, of an agent or of the connection.
LEMMA NextGood == IInv /\ [Next]_vars => IInv'
<1> SUFFICES ASSUME IInv, [Next]_vars PROVE IInv'
  OBVIOUS
<1>1. CASE UNCHANGED vars
  <2>1. UNCHANGED pageVars /\ Aside
    BY <1>1, QuietIsAside DEF vars, lines, history
  <2> QED BY <2>1, PageStays
<1>2. CASE User
  BY <1>2, GoKept, AcceptKept, DiscardKept DEF User
<1>3. CASE Script
  BY <1>3, CaptureEndsKept, ReceiveKept, SettleKept, ReadIsDueKept, ReadSourceKept,
     ReadIsBackKept DEF Script
<1>4. CASE Deliver
  <2>1. PICK m \in requests : Refuse(m) \/ DoNotKnow(m) \/ TakeIn(m)
    BY <1>4 DEF Deliver
  <2>2. CASE Refuse(m)
    <3>1. UNCHANGED answers \/ Respond(m, FALSE)
      BY <2>2 DEF Refuse
    <3> QED BY <2>2, <3>1, RefusedKept DEF Refuse
  <2>3. CASE DoNotKnow(m)
    BY <2>3, RefusedKept DEF DoNotKnow
  <2>4. CASE TakeIn(m)
    BY <2>4, TakeInKept
  <2> QED BY <2>1, <2>2, <2>3, <2>4
<1>5. CASE Agents
  BY <1>5, HandOutKept, PublishKept, CarryOutKept, AgentRepliesKept DEF Agents
<1>6. CASE HotUpdate \/ Connect \/ Disconnect \/ Unload \/ Load \/ Restart
  BY <1>6, HotUpdateKept, ConnectKept, DisconnectKept, UnloadKept, LoadKept, RestartKept
<1> QED BY <1>1, <1>2, <1>3, <1>4, <1>5, <1>6 DEF Next

\* The page, its requests and its messages, and the journal keep their types:
\* no handler of the page and no reply of an agent takes any of them out of the
\* states that the others are written for.
THEOREM LiveModeTypes == Spec => []TypeOK
<1>1. IInv => TypeOK
  BY DEF IInv
<1> QED BY <1>1, InitGood, NextGood, PTL DEF Spec

\* The picker is given back after an accept only when the decision is journaled
\* and the generation is fenced (handleAccept waits for the response of its POST,
\* and the server answers ok once the accept is in the journal), whatever becomes
\* of the page, of its connection and of the server meanwhile.
THEOREM PickerIsFreedDurably == Spec => []FreedOnceDurable
<1>1. IInv => FreedOnceDurable
  BY DEF IInv, Durable, FreedOnceDurable
<1> QED BY <1>1, InitGood, NextGood, PTL DEF Spec

=============================================================================
