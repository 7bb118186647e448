------------------------------ MODULE LeaseQueue ------------------------------
(***************************************************************************)
(* What the poll queue promises about each event.  It waits until an agent *)
(* takes it, comes back when its lease ends, and leaves only once an agent *)
(* has had it in hand, or once its session no longer wants it.  A restart  *)
(* of the server loses every hold and may lose the event.                  *)
(***************************************************************************)
CONSTANT Jobs \* the events

VARIABLES
    place,  \* where each job is: out of the queue, free in it, or leased
    served, \* jobs an agent has had in hand
    wanted, \* jobs a session still wants
    starts  \* which start of the server this is

jobs == <<place, served, wanted, starts>>

Init == place = [j \in Jobs |-> "out"] /\ served = {}

Served(j) == j \in served /\ j \in served'

Submit(j) == place[j] = "out" /\ place'[j] = "waiting"
SubmitToParkedPoll(j) == place[j] = "out" /\ place'[j] = "held" /\ j \in served'
Take(j) == place[j] = "waiting" /\ place'[j] = "held" /\ j \in served'
GiveBack(j) == place[j] = "held" /\ place'[j] = "waiting"

\* Answered, by whoever had it last.
Finish(j) == place[j] # "out" /\ Served(j) /\ place'[j] = "out"

Withdraw(j) == place[j] = "waiting" /\ j \notin wanted' /\ place'[j] = "out"

Stays(j) == place'[j] = place[j]

\* One event of the server moves several jobs at most once each.
Work ==
    /\ starts' = starts /\ served \subseteq served'
    /\ \A j \in Jobs :
          \/ Submit(j) \/ SubmitToParkedPoll(j) \/ Take(j) \/ GiveBack(j)
          \/ Finish(j) \/ Withdraw(j) \/ Stays(j)

Crash ==
    /\ starts' # starts /\ served' = served
    /\ \A j \in Jobs : place'[j] \in {"out", "waiting"}

Next == Work \/ Crash

Spec == Init /\ [][Next]_jobs

=============================================================================
