------------------------------- MODULE TaskPool -------------------------------
(***************************************************************************)
(* What a pool of threads promises its user (util/thread/work_queue.h seen   *)
(* from outside): tasks are queued up to a limit, started in that order, run *)
(* once, and JoinAll returns when all of them are done.  After StopAll no    *)
(* more is promised than that JoinAll returns and nothing runs any longer.   *)
(***************************************************************************)
EXTENDS Naturals, Sequences, FiniteSets

CONSTANTS
  Tasks,
  Capacity,                  \* tasks that may be queued
  Width                      \* tasks that may run at the same time

VARIABLES
  waiting,                   \* tasks not yet handed over
  queued,                    \* handed over, in this order
  running,
  done,
  stopped,
  returned                   \* JoinAll has

vars == <<waiting, queued, running, done, stopped, returned>>

-----------------------------------------------------------------------------
Init ==
  /\ waiting = Tasks
  /\ queued = <<>>
  /\ running = {} /\ done = {}
  /\ stopped = FALSE /\ returned = FALSE

Hand(t) ==
  /\ ~returned
  /\ t \in waiting /\ Len(queued) < Capacity
  /\ waiting' = waiting \ {t}
  /\ queued' = Append(queued, t)
  /\ UNCHANGED <<running, done, stopped, returned>>

\* A task is refused only when the pool was stopped with a full queue.
Refuse(t) ==
  /\ stopped /\ ~returned
  /\ t \in waiting /\ Len(queued) = Capacity
  /\ waiting' = waiting \ {t}
  /\ UNCHANGED <<queued, running, done, stopped, returned>>

Start ==
  /\ ~stopped
  /\ queued # <<>> /\ Cardinality(running) < Width
  /\ running' = running \cup {Head(queued)}
  /\ queued' = Tail(queued)
  /\ UNCHANGED <<waiting, done, stopped, returned>>

Finish(t) ==
  /\ t \in running
  /\ running' = running \ {t}
  /\ done' = done \cup {t}
  /\ UNCHANGED <<waiting, queued, stopped, returned>>

Stop ==
  /\ stopped' = TRUE
  /\ UNCHANGED <<waiting, queued, running, done, returned>>

Return ==
  /\ waiting = {} /\ running = {}
  /\ queued = <<>> \/ stopped
  /\ returned' = TRUE
  /\ UNCHANGED <<waiting, queued, running, done, stopped>>

Next ==
  \/ \E t \in Tasks : Hand(t) \/ Refuse(t) \/ Finish(t)
  \/ Start \/ Stop \/ Return

\* Whatever has been handed over is run, unless the pool is stopped, and
\* JoinAll returns.
Spec ==
  /\ Init /\ [][Next]_vars
  /\ WF_vars(\E t \in Tasks : Hand(t) \/ Refuse(t))
  /\ WF_vars(Start) /\ WF_vars(\E t \in Tasks : Finish(t))
  /\ WF_vars(Return)
==============================================================================
