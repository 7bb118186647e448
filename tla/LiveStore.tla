------------------------------ MODULE LiveStore ------------------------------
(***************************************************************************)
(* The durable journal of a live session, as the snapshot it derives       *)
(* (live/session-store.mjs).  The journal is append-only and the snapshot  *)
(* is the fold of applyEvent over it, so a session is modelled by its      *)
(* snapshot, and appending an event by one operator per event type.        *)
(* What is only shown (files, parameters, mounted variants, timings) is    *)
(* left out.                                                               *)
(***************************************************************************)
EXTENDS Naturals

CONSTANTS
    LastSession, \* session ids are 1 .. LastSession, in the order they sort
    Variants,    \* the variants a generation publishes
    MaxRevision, \* bound: checkpoint revisions told apart; in order, or equal, is 0
    None         \* no event, no agent

ASSUME StoreAssumption == LastSession \in Nat /\ MaxRevision \in Nat

Sessions == 1 .. LastSession

\* What the poll queue carries about sessions.
EventTypes == {"generate", "steer", "accept", "discard", "variant_mount_failed"}

\* ready: the scaffold was attempted and the delivery recorded (generate only).
\* variant: the one that failed to mount, or the one accepted.
Event == [id : Sessions, type : EventTypes,
          variant : Variants \cup {None}, ready : BOOLEAN]

Plain(s, t) == [id |-> s, type |-> t, variant |-> None, ready |-> FALSE]
OfVariant(s, t, v) == [Plain(s, t) EXCEPT !.variant = v]

ASSUME NoneIsNoEvent == None \notin Event /\ None \notin Sessions /\ None \notin EventTypes

BrowserPhases == {"generating", "cycling", "saving", "steer"}
CompletedPhases == {"completed", "discarded"}
FencedPhases == {"accept_requested", "discard_requested", "carbonize_required"}
                    \cup CompletedPhases
Phases == {"new", "generate_requested", "variants_ready", "steer_requested",
           "steer_done", "agent_error"} \cup BrowserPhases \cup FencedPhases

Snapshot == [phase : Phases, pending : Event \cup {None}, canceled : BOOLEAN,
             completedAt : BOOLEAN, revision : 0 .. MaxRevision]

BaseSnapshot == [phase |-> "new", pending |-> None, canceled |-> FALSE,
                 completedAt |-> FALSE, revision |-> 0]

\* The journal exists: has(id).
Exists(snap) == snap.phase # "new"

\* Listed by listActiveSessions.
Active(snap) == Exists(snap) /\ snap.phase \notin CompletedPhases

\* A late generation write is a ghost of a canceled cycle.
Fenced(snap) == snap.canceled \/ snap.phase \in FencedPhases

-----------------------------------------------------------------------------
(* applyEvent *)

ApplyGenerate(snap, e) ==
    [snap EXCEPT !.phase = "generate_requested", !.pending = e]

\* agent_done: the variants are published, or the accept left carbonize
\* markers for the agent to fold in.
ApplyAgentDone(snap, carbonize) ==
    IF Fenced(snap) /\ ~(carbonize /\ snap.phase = "accept_requested")
    THEN snap
    ELSE [snap EXCEPT !.phase = IF carbonize THEN "carbonize_required" ELSE "variants_ready",
                      !.completedAt = TRUE, !.pending = None]

\* A failure waits for an agent, unless something is waiting already.
ApplyMountFailed(snap, e) ==
    [snap EXCEPT !.pending = IF @ = None THEN e ELSE @]

\* Only the browser's own revisions: nothing in the tree posts a publication one.
ApplyCheckpoint(snap, phase, revision) ==
    IF Fenced(snap) \/ revision < snap.revision
    THEN snap
    ELSE [snap EXCEPT !.phase = phase, !.revision = revision]

ApplyDecision(snap, e) ==
    [snap EXCEPT !.phase = IF e.type = "accept" THEN "accept_requested"
                           ELSE "discard_requested",
                 !.canceled = TRUE, !.pending = e]

ApplySteer(snap, e) == [snap EXCEPT !.phase = "steer_requested", !.pending = e]
ApplySteerDone(snap) == [snap EXCEPT !.phase = "steer_done", !.pending = None]
ApplyDiscarded(snap) == [snap EXCEPT !.phase = "discarded", !.pending = None]
ApplyComplete(snap) == [snap EXCEPT !.phase = "completed", !.pending = None]

\* source: the type of the event the failed reply answered, None if unmatched.
ApplyAgentError(snap, source) ==
    IF snap.canceled /\ source = "generate"
    THEN snap
    ELSE [snap EXCEPT !.phase = "agent_error", !.pending = None]

=============================================================================
