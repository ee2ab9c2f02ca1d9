------------------------------ MODULE ThreadPool ------------------------------
(***************************************************************************)
(* SimpleThreadPool (util/thread/work_queue.h): a bounded queue of tasks and *)
(* threads that are started one by one as tasks are added.                   *)
(*                                                                           *)
(* A step is what a thread does while it holds mutex_, or one call outside   *)
(* of it: starting a thread, notifying a condition variable, running a task. *)
(* A notification is lost when nobody waits, and a wait may end without one. *)
(* Callers add tasks, another thread may call StopAll at any time, and       *)
(* JoinAll is called when the callers are done, or at any time if EarlyJoin. *)
(***************************************************************************)
EXTENDS Naturals, Sequences, FiniteSets

CONSTANTS
  Callers,                   \* the threads that call AddTask
  Tasks, NoTask,
  num_threads_, max_queue_size_,
  MayStop,                   \* whether a thread calls StopAll
  EarlyJoin                  \* whether JoinAll may be called while tasks are added

ASSUME ConstantsAssumption ==
  /\ IsFiniteSet(Callers) /\ Callers # {}
  /\ NoTask \notin Tasks
  /\ {num_threads_, max_queue_size_} \subseteq Nat \ {0}
  /\ {MayStop, EarlyJoin} \subseteq BOOLEAN

\* Every caller but one may see a thread missing that another is starting.
MaxThreads == num_threads_ + Cardinality(Callers) - 1
Threads == 1 .. MaxThreads

VARIABLES
  todo,                      \* tasks no caller has picked yet
  caller,                    \* pc: "idle", "unlocked", "started", "waiting" (on
                             \* cond_var_full_), "woken", "pushed"; task, thread: locals
  queue_, threads_, stopped_, joined_,
  worker,                    \* pc: "none", "looking", "waiting" (on cond_var_empty_),
                             \* "popped", "running", "returned"; task: fn
  stopper,                   \* StopAll: "none", "full", "empty", "done"
  joiner,                    \* JoinAll: "none", "notify", "join", "returned"
  done,
  aborted                    \* the CHECK that failed: "none", "entry" or "started"

poolVars == <<queue_, threads_, stopped_, joined_>>
vars == <<todo, caller, poolVars, worker, stopper, joiner, done, aborted>>

Init ==
  /\ todo = Tasks
  /\ caller = [c \in Callers |-> [pc |-> "idle", task |-> NoTask, thread |-> 0]]
  /\ queue_ = <<>> /\ threads_ = {}
  /\ stopped_ = FALSE /\ joined_ = FALSE
  /\ worker = [w \in Threads |-> [pc |-> "none", task |-> NoTask]]
  /\ stopper = "none" /\ joiner = "none"
  /\ done = {}
  /\ aborted = "none"

-----------------------------------------------------------------------------
\* AddTask

\* The loop on a full queue and the push, in one critical section.  A call
\* that gives up drops its task.
PushOrWait(c, r) ==
  LET full == Len(queue_) >= max_queue_size_
      pc == IF ~full THEN "pushed" ELSE IF stopped_ THEN "idle" ELSE "waiting"
  IN /\ caller' = [caller EXCEPT ![c] =
                     [r EXCEPT !.pc = pc, !.task = IF pc = "waiting" THEN @ ELSE NoTask]]
     /\ queue_' = IF full THEN queue_ ELSE Append(queue_, r.task)

\* Mutant of AddTask: one thread more.
AddTaskOneMore(c, t) ==
  /\ caller[c].pc = "idle" /\ t \in todo
  /\ todo' = todo \ {t}
  /\ aborted' = IF joined_ THEN "entry" ELSE "none"
  /\ LET r == [caller[c] EXCEPT !.task = t] IN
     IF Cardinality(threads_) <= num_threads_
     THEN caller' = [caller EXCEPT ![c] = [r EXCEPT !.pc = "unlocked"]] /\ UNCHANGED queue_
     ELSE PushOrWait(c, r)
  /\ UNCHANGED <<threads_, stopped_, joined_, worker, stopper, joiner, done>>

AddTask(c, t) ==
  /\ caller[c].pc = "idle" /\ t \in todo
  /\ todo' = todo \ {t}
  /\ aborted' = IF joined_ THEN "entry" ELSE "none"
  /\ LET r == [caller[c] EXCEPT !.task = t] IN
     IF Cardinality(threads_) < num_threads_
     THEN caller' = [caller EXCEPT ![c] = [r EXCEPT !.pc = "unlocked"]] /\ UNCHANGED queue_
     ELSE PushOrWait(c, r)
  /\ UNCHANGED <<threads_, stopped_, joined_, worker, stopper, joiner, done>>

\* Threads are numbered in the order in which they are started.
StartThread(c, w) ==
  /\ caller[c].pc = "unlocked"
  /\ worker[w].pc = "none" /\ \A x \in 1 .. w - 1 : worker[x].pc # "none"
  /\ worker' = [worker EXCEPT ![w].pc = "looking"]
  /\ caller' = [caller EXCEPT ![c].pc = "started", ![c].thread = w]
  /\ UNCHANGED <<todo, poolVars, stopper, joiner, done, aborted>>

AddThread(c) ==
  /\ caller[c].pc = "started"
  /\ aborted' = IF joined_ THEN "started" ELSE "none"
  /\ threads_' = threads_ \cup {caller[c].thread}
  /\ PushOrWait(c, [caller[c] EXCEPT !.thread = 0])
  /\ UNCHANGED <<todo, stopped_, joined_, worker, stopper, joiner, done>>

\* Mutant of Recheck: the queue is not looked at again after a wait.
RecheckNot(c) ==
  /\ caller[c].pc = "woken"
  /\ caller' = [caller EXCEPT ![c].pc = "pushed", ![c].task = NoTask]
  /\ queue_' = Append(queue_, caller[c].task)
  /\ UNCHANGED <<todo, threads_, stopped_, joined_, worker, stopper, joiner, done, aborted>>

Recheck(c) ==
  /\ caller[c].pc = "woken"
  /\ PushOrWait(c, caller[c])
  /\ UNCHANGED <<todo, threads_, stopped_, joined_, worker, stopper, joiner, done, aborted>>

\* Mutant of AllLooking: nobody is notified.
NoneLooking == worker

\* The threads after cond_var_empty_.notify_all
AllLooking ==
  [w \in Threads |-> IF worker[w].pc = "waiting" THEN [worker[w] EXCEPT !.pc = "looking"]
                     ELSE worker[w]]

NotifyEmpty(c) ==
  /\ caller[c].pc = "pushed"
  /\ worker' = AllLooking
  /\ caller' = [caller EXCEPT ![c].pc = "idle"]
  /\ UNCHANGED <<todo, poolVars, stopper, joiner, done, aborted>>

-----------------------------------------------------------------------------
\* The threads of the pool

\* Mutant of Look: a thread leaves once JoinAll was called.
LookLeavingEarly(w) ==
  /\ worker[w].pc = "looking"
  /\ worker' = [worker EXCEPT ![w] =
       IF joined_ \/ stopped_ THEN [@ EXCEPT !.pc = "returned"]
       ELSE IF queue_ = <<>> THEN [@ EXCEPT !.pc = "waiting"]
       ELSE [pc |-> "popped", task |-> Head(queue_)]]
  /\ queue_' = IF joined_ \/ stopped_ \/ queue_ = <<>> THEN queue_ ELSE Tail(queue_)
  /\ UNCHANGED <<todo, caller, threads_, stopped_, joined_, stopper, joiner, done, aborted>>

Look(w) ==
  /\ worker[w].pc = "looking"
  /\ worker' = [worker EXCEPT ![w] =
       IF stopped_ \/ (queue_ = <<>> /\ joined_) THEN [@ EXCEPT !.pc = "returned"]
       ELSE IF queue_ = <<>> THEN [@ EXCEPT !.pc = "waiting"]
       ELSE [pc |-> "popped", task |-> Head(queue_)]]
  /\ queue_' = IF stopped_ \/ queue_ = <<>> THEN queue_ ELSE Tail(queue_)
  /\ UNCHANGED <<todo, caller, threads_, stopped_, joined_, stopper, joiner, done, aborted>>

\* Mutant of NotifyFull: no notification.
NotifyNobody(w) ==
  /\ worker[w].pc = "popped"
  /\ worker' = [worker EXCEPT ![w].pc = "running"]
  /\ UNCHANGED <<todo, caller, poolVars, stopper, joiner, done, aborted>>

\* cond_var_full_.notify_one
NotifyFull(w) ==
  LET blocked == {c \in Callers : caller[c].pc = "waiting"} IN
  /\ worker[w].pc = "popped"
  /\ worker' = [worker EXCEPT ![w].pc = "running"]
  /\ IF blocked = {} THEN UNCHANGED caller
     ELSE \E c \in blocked : caller' = [caller EXCEPT ![c].pc = "woken"]
  /\ UNCHANGED <<todo, poolVars, stopper, joiner, done, aborted>>

Run(w) ==
  /\ worker[w].pc = "running"
  /\ done' = done \cup {worker[w].task}
  /\ worker' = [worker EXCEPT ![w] = [pc |-> "looking", task |-> NoTask]]
  /\ UNCHANGED <<todo, caller, poolVars, stopper, joiner, aborted>>

-----------------------------------------------------------------------------
\* StopAll and JoinAll

StopAll ==
  /\ MayStop /\ stopper = "none"
  /\ stopped_' = TRUE
  /\ stopper' = "full"
  /\ UNCHANGED <<todo, caller, queue_, threads_, joined_, worker, joiner, done, aborted>>

\* Mutant of StopNotifyFull: only one blocked caller is woken.
StopNotifyOne ==
  /\ stopper = "full"
  /\ LET blocked == {c \in Callers : caller[c].pc = "waiting"} IN
     IF blocked = {} THEN UNCHANGED caller
     ELSE \E c \in blocked : caller' = [caller EXCEPT ![c].pc = "woken"]
  /\ stopper' = "empty"
  /\ UNCHANGED <<todo, poolVars, worker, joiner, done, aborted>>

StopNotifyFull ==
  /\ stopper = "full"
  /\ caller' = [c \in Callers |-> IF caller[c].pc = "waiting"
                                  THEN [caller[c] EXCEPT !.pc = "woken"] ELSE caller[c]]
  /\ stopper' = "empty"
  /\ UNCHANGED <<todo, poolVars, worker, joiner, done, aborted>>

StopNotifyEmpty ==
  /\ stopper = "empty"
  /\ worker' = AllLooking
  /\ stopper' = "done"
  /\ UNCHANGED <<todo, caller, poolVars, joiner, done, aborted>>

CallersDone == todo = {} /\ \A c \in Callers : caller[c].pc = "idle"

JoinAll ==
  /\ joiner = "none"
  /\ EarlyJoin \/ CallersDone
  /\ joined_' = TRUE
  /\ joiner' = "notify"
  /\ UNCHANGED <<todo, caller, queue_, threads_, stopped_, worker, stopper, done, aborted>>

JoinNotify ==
  /\ joiner = "notify"
  /\ worker' = AllLooking
  /\ joiner' = "join"
  /\ UNCHANGED <<todo, caller, poolVars, stopper, done, aborted>>

JoinThreads ==
  /\ joiner = "join"
  /\ \A w \in threads_ : worker[w].pc = "returned"
  /\ joiner' = "returned"
  /\ UNCHANGED <<todo, caller, poolVars, worker, stopper, done, aborted>>

-----------------------------------------------------------------------------
\* std::condition_variable::wait may return without a notification.
Spurious ==
  \/ \E c \in Callers : /\ caller[c].pc = "waiting"
                        /\ caller' = [caller EXCEPT ![c].pc = "woken"]
                        /\ UNCHANGED worker
  \/ \E w \in Threads : /\ worker[w].pc = "waiting"
                        /\ worker' = [worker EXCEPT ![w].pc = "looking"]
                        /\ UNCHANGED caller

WakeUp == Spurious /\ UNCHANGED <<todo, poolVars, stopper, joiner, done, aborted>>

CallerStep(c) ==
  \/ \E t \in Tasks : AddTask(c, t)
  \/ \E w \in Threads : StartThread(c, w)
  \/ AddThread(c) \/ Recheck(c) \/ NotifyEmpty(c)
ThreadStep(w) == Look(w) \/ NotifyFull(w) \/ Run(w)
StopStep == StopNotifyFull \/ StopNotifyEmpty
JoinStep == JoinAll \/ JoinNotify \/ JoinThreads

Returned == joiner = "returned" /\ stopper # "full" /\ stopper # "empty" /\ CallersDone
Terminated == Returned /\ UNCHANGED vars

Next ==
  /\ aborted = "none"
  /\ \/ \E c \in Callers : CallerStep(c)
     \/ \E w \in Threads : ThreadStep(w)
     \/ StopAll \/ StopStep \/ JoinStep \/ WakeUp \/ Terminated

\* Threads are scheduled and tasks return.  Nothing forces StopAll.
Spec ==
  /\ Init /\ [][Next]_vars
  /\ \A c \in Callers : WF_vars(CallerStep(c))
  /\ \A w \in Threads : WF_vars(ThreadStep(w))
  /\ WF_vars(StopStep) /\ WF_vars(JoinStep)

-----------------------------------------------------------------------------
\* Properties

\* The types of the pool's members and of the locals of its threads.
TypeOK ==
  /\ todo \subseteq Tasks /\ done \subseteq Tasks
  /\ caller \in [Callers -> [pc : {"idle", "unlocked", "started", "waiting", "woken", "pushed"},
                             task : Tasks \cup {NoTask}, thread : Threads \cup {0}]]
  /\ queue_ \in Seq(Tasks) /\ Len(queue_) <= max_queue_size_
  /\ threads_ \subseteq Threads
  /\ worker \in [Threads -> [pc : {"none", "looking", "waiting", "popped", "running", "returned"},
                             task : Tasks \cup {NoTask}]]
  /\ stopper \in {"none", "full", "empty", "done"}
  /\ joiner \in {"none", "notify", "join", "returned"}
  /\ stopped_ \in BOOLEAN /\ joined_ \in BOOLEAN
  /\ aborted \in {"none", "entry", "started"}

Starting == {c \in Callers : caller[c].pc \in {"unlocked", "started"}}

\* AddTask releases the mutex between its look at threads_ and its push_back:
\* the pool may grow past num_threads_, but only by the other callers, the
\* threads being started included.
NoMoreThreads == Cardinality(threads_) + Cardinality(Starting) <= MaxThreads

\* No notification is missed: while a task is queued, some thread looks at the
\* queue before it sleeps, or a call has yet to notify the threads.
WorkIsNoticed ==
  queue_ # <<>> /\ ~stopped_ =>
    \/ \E w \in Threads : worker[w].pc \in {"looking", "popped", "running"}
    \/ \E c \in Callers : caller[c].pc = "pushed"

Popped == {w \in Threads : worker[w].pc = "popped"}
Coming == {c \in Callers : caller[c].pc \in {"woken", "unlocked", "started"}}

\* While a caller of AddTask sleeps there is, for every free place in the queue,
\* a notify_one under way or a caller awake that will take it.
RoomIsNoticed ==
  (\E c \in Callers : caller[c].pc = "waiting") =>
    max_queue_size_ - Len(queue_) <= Cardinality(Popped) + Cardinality(Coming)

\* Once JoinAll has returned no thread of the pool touches it any more, and
\* unless it was stopped every task has been run.
JoinedIsQuiet ==
  joiner = "returned" =>
    /\ \A w \in Threads : worker[w].pc \in {"none", "returned"}
    /\ stopped_ \/ done = Tasks

\* JoinAll returns, whether or not the pool is stopped, and so does every
\* AddTask before it (also one that waits on the full queue of a stopped pool).
JoinReturns == <>(joiner = "returned")

\* The pool keeps the promises of TaskPool.
Pool == INSTANCE TaskPool WITH
  Capacity <- max_queue_size_,
  Width <- MaxThreads,
  waiting <- todo \cup {caller[c].task : c \in {d \in Callers : caller[d].task # NoTask}},
  queued <- queue_,
  running <- {worker[w].task : w \in {x \in Threads : worker[x].task # NoTask}},
  stopped <- stopped_,
  returned <- joiner = "returned"
ImplementsPool == Pool!Spec
==============================================================================
