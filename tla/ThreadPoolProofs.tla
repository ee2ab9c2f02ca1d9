-------------------------- MODULE ThreadPoolProofs --------------------------
(*****************************************************************************)
(* Proofs about ThreadPool, for any number of callers, tasks and threads and *)
(* any length of the queue; at the end, that SimpleThreadPool, used as its   *)
(* callers use it (JoinAll after the last AddTask), does only what TaskPool  *)
(* allows.  Fairness is left to the run of ThreadPool.                       *)
(*****************************************************************************)
EXTENDS ThreadPool, FiniteSetTheorems, TLAPS

-----------------------------------------------------------------------------
\* The inductive invariant

CallerPcs == {"idle", "unlocked", "started", "waiting", "woken", "pushed"}
WorkerPcs == {"none", "looking", "waiting", "popped", "running", "returned"}

\* Locals are set exactly where the code has them.
LocalsOK ==
  /\ \A c \in Callers :
       /\ caller[c].task # NoTask <=> caller[c].pc \in {"unlocked", "started", "waiting", "woken"}
       /\ caller[c].thread # 0 <=> caller[c].pc = "started"
  /\ \A w \in Threads : worker[w].task # NoTask <=> worker[w].pc \in {"popped", "running"}

\* Every thread that was started is in threads_ or about to be put there.
StartedOK ==
  \A w \in Threads : worker[w].pc # "none" => w \in threads_ \/ \E c \in Callers : caller[c].thread = w
ThreadsOK ==
  /\ \A w \in threads_ : worker[w].pc # "none"
  /\ \A c \in Callers : caller[c].thread # 0 => worker[caller[c].thread].pc # "none"

\* A caller gets past the start of a thread only when there is one.
HasThread ==
  (queue_ # <<>> \/ \E c \in Callers : caller[c].pc \in {"waiting", "woken", "pushed"})
    => threads_ # {}

\* JoinAll comes after the calls of AddTask, and threads leave for a reason.
JoinOK ==
  /\ joined_ <=> joiner # "none"
  /\ joined_ => CallersDone
  /\ joiner = "returned" => \A w \in threads_ : worker[w].pc = "returned"
ExitOK == \A w \in Threads : worker[w].pc = "returned" => stopped_ \/ (joined_ /\ queue_ = <<>>)

\* Where a task can be; no task disappears, unless the pool is stopped.
Somewhere(t) ==
  \/ t \in todo \/ t \in done
  \/ \E c \in Callers : caller[c].task = t
  \/ \E i \in 1 .. Len(queue_) : queue_[i] = t
  \/ \E w \in Threads : worker[w].task = t
Covered == \A t \in Tasks : Somewhere(t)

ThreadsInv == StartedOK /\ ThreadsOK /\ HasThread
LeaveInv == JoinOK /\ ExitOK
IInv == TypeOK /\ LocalsOK /\ ThreadsInv /\ LeaveInv /\ (stopped_ \/ Covered)

-----------------------------------------------------------------------------
\* Types

\* Facts about the constants: there is at least one number for a thread.
LEMMA ConstantFacts ==
  /\ IsFiniteSet(Callers) /\ Cardinality(Callers) \in Nat
  /\ num_threads_ \in Nat /\ num_threads_ >= 1
  /\ max_queue_size_ \in Nat /\ max_queue_size_ >= 1
  /\ MaxThreads \in Nat /\ MaxThreads >= num_threads_
  /\ IsFiniteSet(Threads) /\ Cardinality(Threads) = MaxThreads
  /\ 0 \notin Threads
<1>1. IsFiniteSet(Callers) /\ Callers # {} BY ConstantsAssumption
<1>2. Cardinality(Callers) \in Nat BY <1>1, FS_CardinalityType
<1>3. Cardinality(Callers) # 0 BY <1>1, FS_EmptySet
<1>4. /\ num_threads_ \in Nat /\ num_threads_ >= 1
      /\ max_queue_size_ \in Nat /\ max_queue_size_ >= 1
  BY ConstantsAssumption
<1>5. MaxThreads \in Nat /\ MaxThreads >= num_threads_ BY <1>2, <1>3, <1>4 DEF MaxThreads
<1>6. IsFiniteSet(1 .. MaxThreads)
  BY <1>5, FS_Interval
<1>7. Cardinality(1 .. MaxThreads) = MaxThreads
  BY <1>5, FS_Interval
<1> QED BY <1>1, <1>2, <1>4, <1>5, <1>6, <1>7 DEF Threads

\* The common end of AddTask keeps the types of what it changes.
LEMMA PushTypes ==
  ASSUME TypeOK, NEW c \in Callers,
         NEW r \in [pc : CallerPcs, task : Tasks, thread : Threads \cup {0}],
         PushOrWait(c, r)
  PROVE  /\ caller' \in [Callers -> [pc : CallerPcs, task : Tasks \cup {NoTask},
                                    thread : Threads \cup {0}]]
         /\ queue_' \in Seq(Tasks) /\ Len(queue_') <= max_queue_size_
<1> USE DEF CallerPcs
<1>1. caller' \in [Callers -> [pc : CallerPcs, task : Tasks \cup {NoTask}, thread : Threads \cup {0}]]
  BY DEF TypeOK, PushOrWait
<1>2. CASE Len(queue_) >= max_queue_size_ BY <1>1, <1>2 DEF TypeOK, PushOrWait
<1>3. CASE ~(Len(queue_) >= max_queue_size_)
  BY <1>1, <1>3, ConstantFacts DEF TypeOK, PushOrWait
<1> QED BY <1>2, <1>3

LEMMA TypeInit == Init => TypeOK
<1> SUFFICES ASSUME Init PROVE TypeOK OBVIOUS
<1>1. queue_ \in Seq(Tasks) /\ Len(queue_) <= max_queue_size_
  BY ConstantFacts DEF Init
<1>2. /\ todo \subseteq Tasks /\ done \subseteq Tasks /\ threads_ \subseteq Threads
      /\ stopped_ \in BOOLEAN /\ joined_ \in BOOLEAN
  BY DEF Init
<1>3. worker \in [Threads -> [pc : WorkerPcs, task : Tasks \cup {NoTask}]]
  BY DEF Init, WorkerPcs
<1>4. caller \in [Callers -> [pc : CallerPcs, task : Tasks \cup {NoTask}, thread : Threads \cup {0}]]
  BY DEF Init, CallerPcs
<1> QED BY <1>1, <1>2, <1>3, <1>4 DEF Init, TypeOK, CallerPcs, WorkerPcs

\* A caller that waits or starts a thread holds a task.
LEMMA TypeStep == TypeOK /\ LocalsOK /\ [Next]_vars => TypeOK'
<1> SUFFICES ASSUME TypeOK, LocalsOK, [Next]_vars PROVE TypeOK' OBVIOUS
<1> USE DEF TypeOK, poolVars
<1>1. ASSUME NEW c \in Callers, NEW t \in Tasks, AddTask(c, t) PROVE TypeOK'
  <2> DEFINE r == [caller[c] EXCEPT !.task = t]
  <2>1. r \in [pc : CallerPcs, task : Tasks, thread : Threads \cup {0}] BY DEF CallerPcs
  <2>2. CASE Cardinality(threads_) < num_threads_ 
    <3>1. caller' = [caller EXCEPT ![c] = [r EXCEPT !.pc = "unlocked"]] /\ queue_' = queue_
      BY <1>1, <2>2 DEF AddTask
    <3>2. [r EXCEPT !.pc = "unlocked"] \in [pc : CallerPcs, task : Tasks \cup {NoTask},
                                          thread : Threads \cup {0}]
      <4> HIDE DEF r
      <4> QED BY <2>1 DEF CallerPcs
    <3>3. caller' \in [Callers -> [pc : CallerPcs, task : Tasks \cup {NoTask},
                                  thread : Threads \cup {0}]]
      BY <3>1, <3>2 DEF CallerPcs
    <3> QED BY <1>1, <3>1, <3>3 DEF AddTask, CallerPcs
  <2>3. CASE ~(Cardinality(threads_) < num_threads_)
    <3>1. PushOrWait(c, r) BY <1>1, <2>3 DEF AddTask
    <3>2. /\ caller' \in [Callers -> [pc : CallerPcs, task : Tasks \cup {NoTask},
                                     thread : Threads \cup {0}]]
          /\ queue_' \in Seq(Tasks) /\ Len(queue_') <= max_queue_size_
      <4> HIDE DEF r, TypeOK
      <4> QED BY <2>1, <3>1, PushTypes
    <3> QED BY <1>1, <3>2 DEF AddTask, CallerPcs
  <2> QED BY <2>2, <2>3
<1>2. ASSUME NEW c \in Callers, NEW w \in Threads, StartThread(c, w) PROVE TypeOK'
  BY <1>2 DEF StartThread
<1>3. ASSUME NEW c \in Callers, AddThread(c) PROVE TypeOK'
  <2> DEFINE r == [caller[c] EXCEPT !.thread = 0]
  <2>1. r \in [pc : CallerPcs, task : Tasks, thread : Threads \cup {0}]
    BY <1>3 DEF CallerPcs, AddThread, LocalsOK
  <2>2. PushOrWait(c, r) BY <1>3 DEF AddThread
  <2>3. /\ caller' \in [Callers -> [pc : CallerPcs, task : Tasks \cup {NoTask},
                                   thread : Threads \cup {0}]]
        /\ queue_' \in Seq(Tasks) /\ Len(queue_') <= max_queue_size_
    <3> HIDE DEF r, TypeOK
    <3> QED BY <2>1, <2>2, PushTypes
  <2>4. caller[c].thread \in Threads BY <1>3 DEF AddThread, LocalsOK
  <2> QED BY <1>3, <2>3, <2>4 DEF AddThread, CallerPcs
<1>4. ASSUME NEW c \in Callers, Recheck(c) PROVE TypeOK'
  <2>1. caller[c] \in [pc : CallerPcs, task : Tasks, thread : Threads \cup {0}]
    BY <1>4 DEF CallerPcs, Recheck, LocalsOK
  <2>2. PushOrWait(c, caller[c]) BY <1>4 DEF Recheck
  <2>3. /\ caller' \in [Callers -> [pc : CallerPcs, task : Tasks \cup {NoTask},
                                   thread : Threads \cup {0}]]
        /\ queue_' \in Seq(Tasks) /\ Len(queue_') <= max_queue_size_
    <3> HIDE DEF TypeOK
    <3> QED BY <2>1, <2>2, PushTypes
  <2> QED BY <1>4, <2>3 DEF Recheck, CallerPcs
<1>5. ASSUME NEW c \in Callers, NotifyEmpty(c) PROVE TypeOK'
  BY <1>5 DEF NotifyEmpty, AllLooking
<1>6. ASSUME NEW w \in Threads, Look(w) PROVE TypeOK'
  <2>1. CASE stopped_ \/ queue_ = <<>> BY <1>6, <2>1 DEF Look
  <2>2. CASE ~stopped_ /\ queue_ # <<>>
    <3>1. /\ Head(queue_) \in Tasks /\ Tail(queue_) \in Seq(Tasks)
          /\ Len(Tail(queue_)) <= max_queue_size_
      BY <2>2, ConstantFacts
    <3> QED BY <1>6, <2>2, <3>1 DEF Look
  <2> QED BY <2>1, <2>2
<1>7. ASSUME NEW w \in Threads, NotifyFull(w) PROVE TypeOK'
  <2> DEFINE blocked == {c \in Callers : caller[c].pc = "waiting"}
  <2>1. CASE blocked = {} BY <1>7, <2>1 DEF NotifyFull
  <2>2. CASE blocked # {}
    <3>1. PICK c \in blocked : caller' = [caller EXCEPT ![c].pc = "woken"]
      BY <1>7, <2>2 DEF NotifyFull
    <3>2. caller' \in [Callers -> [pc : CallerPcs, task : Tasks \cup {NoTask},
                                  thread : Threads \cup {0}]]
      BY <3>1 DEF CallerPcs
    <3>3. worker' = [worker EXCEPT ![w].pc = "running"] BY <1>7 DEF NotifyFull
    <3> QED BY <1>7, <3>2, <3>3 DEF NotifyFull, CallerPcs
  <2> QED BY <2>1, <2>2
<1>8. ASSUME NEW w \in Threads, Run(w) PROVE TypeOK' BY <1>8 DEF Run, LocalsOK
<1>9. CASE StopAll BY <1>9 DEF StopAll
<1>10. CASE StopStep BY <1>10 DEF StopStep, StopNotifyFull, StopNotifyEmpty, AllLooking
<1>11. CASE JoinStep
  <2>1. CASE JoinAll BY <2>1 DEF JoinAll
  <2>2. CASE JoinNotify BY <2>2 DEF JoinNotify, AllLooking
  <2>3. CASE JoinThreads BY <2>3 DEF JoinThreads
  <2> QED BY <1>11, <2>1, <2>2, <2>3 DEF JoinStep
<1>12. CASE WakeUp BY <1>12 DEF WakeUp, Spurious
<1>13. CASE Terminated \/ UNCHANGED vars BY <1>13 DEF Terminated, vars
<1> QED
  BY <1>1, <1>2, <1>3, <1>4, <1>5, <1>6, <1>7, <1>8, <1>9, <1>10, <1>11, <1>12, <1>13
  DEF Next, CallerStep, ThreadStep

-----------------------------------------------------------------------------
\* The invariant

CallerRecords == [pc : CallerPcs, task : Tasks \cup {NoTask}, thread : Threads \cup {0}]

\* What the common end of AddTask can do to its caller and to the queue.
PushOutcome(c, r) ==
  /\ \A d \in Callers : d # c => caller'[d] = caller[d]
  /\ caller'[c].thread = r.thread
  /\ \/ /\ Len(queue_) < max_queue_size_ /\ queue_' = Append(queue_, r.task)
        /\ caller'[c].pc = "pushed" /\ caller'[c].task = NoTask
     \/ /\ Len(queue_) >= max_queue_size_ /\ queue_' = queue_ /\ stopped_
        /\ caller'[c].pc = "idle" /\ caller'[c].task = NoTask
     \/ /\ Len(queue_) >= max_queue_size_ /\ queue_' = queue_ /\ ~stopped_
        /\ caller'[c].pc = "waiting" /\ caller'[c].task = r.task

LEMMA PushOutcomes ==
  ASSUME TypeOK, NEW c \in Callers, NEW r \in CallerRecords, PushOrWait(c, r)
  PROVE  PushOutcome(c, r)
<1>0. queue_ \in Seq(Tasks) /\ Len(queue_) \in Nat /\ max_queue_size_ \in Nat
  BY ConstantFacts DEF TypeOK
<1>1. caller \in [Callers -> CallerRecords] BY DEF TypeOK, CallerRecords, CallerPcs
<1>2. CASE Len(queue_) < max_queue_size_
  <2>1. caller' = [caller EXCEPT ![c] = [r EXCEPT !.pc = "pushed", !.task = NoTask]]
    <3>1. ~(Len(queue_) >= max_queue_size_) BY <1>0, <1>2
    <3> QED BY <3>1 DEF PushOrWait
  <2> QED BY <1>0, <1>1, <1>2, <2>1 DEF PushOrWait, PushOutcome, CallerRecords
<1>3. CASE Len(queue_) >= max_queue_size_ /\ stopped_
  <2>1. caller' = [caller EXCEPT ![c] = [r EXCEPT !.pc = "idle", !.task = NoTask]]
    BY <1>3 DEF PushOrWait
  <2> QED BY <1>0, <1>1, <1>3, <2>1 DEF PushOrWait, PushOutcome, CallerRecords
<1>4. CASE Len(queue_) >= max_queue_size_ /\ ~stopped_
  <2>1. caller' = [caller EXCEPT ![c] = [r EXCEPT !.pc = "waiting", !.task = r.task]]
    BY <1>4 DEF PushOrWait
  <2> QED BY <1>0, <1>1, <1>4, <2>1 DEF PushOrWait, PushOutcome, CallerRecords
<1> QED BY <1>0, <1>2, <1>3, <1>4

\* The same for the three actions that contain it.
LEMMA AddOutcomes ==
  ASSUME TypeOK, NEW c \in Callers
  PROVE  /\ \A t \in Tasks : AddTask(c, t) =>
               \/ /\ Cardinality(threads_) >= num_threads_
                  /\ PushOutcome(c, [caller[c] EXCEPT !.task = t])
               \/ /\ Cardinality(threads_) < num_threads_
                  /\ \A d \in Callers : d # c => caller'[d] = caller[d]
                  /\ caller'[c].pc = "unlocked" /\ caller'[c].task = t
                  /\ caller'[c].thread = caller[c].thread
                  /\ queue_' = queue_
         /\ AddThread(c) => PushOutcome(c, [caller[c] EXCEPT !.thread = 0])
         /\ Recheck(c) => PushOutcome(c, caller[c])
<1>0. caller \in [Callers -> CallerRecords] BY DEF TypeOK, CallerRecords, CallerPcs
<1>1. ASSUME NEW t \in Tasks, AddTask(c, t)
      PROVE  \/ /\ Cardinality(threads_) >= num_threads_
                /\ PushOutcome(c, [caller[c] EXCEPT !.task = t])
             \/ /\ Cardinality(threads_) < num_threads_
                /\ \A d \in Callers : d # c => caller'[d] = caller[d]
                /\ caller'[c].pc = "unlocked" /\ caller'[c].task = t
                /\ caller'[c].thread = caller[c].thread
                /\ queue_' = queue_
  <2> DEFINE r == [caller[c] EXCEPT !.task = t]
  <2>1. r \in CallerRecords BY <1>0 DEF CallerRecords
  <2>2. IsFiniteSet(threads_) BY ConstantFacts, FS_Subset DEF TypeOK
  <2>3. Cardinality(threads_) \in Nat BY <2>2, FS_CardinalityType
  <2>4. CASE Cardinality(threads_) < num_threads_
    <3>1. caller' = [caller EXCEPT ![c] = [r EXCEPT !.pc = "unlocked"]] /\ queue_' = queue_
      BY <1>1, <2>4 DEF AddTask
    <3>2. r.task = t /\ r.thread = caller[c].thread BY <1>0 DEF CallerRecords
    <3>3. /\ caller'[c] = [r EXCEPT !.pc = "unlocked"]
          /\ \A d \in Callers : d # c => caller'[d] = caller[d]
      BY <1>0, <3>1
    <3>4. caller'[c].pc = "unlocked" /\ caller'[c].task = r.task /\ caller'[c].thread = r.thread
      <4> HIDE DEF r
      <4> QED BY <2>1, <3>3 DEF CallerRecords
    <3> QED BY <2>4, <3>1, <3>2, <3>3, <3>4
  <2>5. CASE Cardinality(threads_) >= num_threads_
    <3>1. PushOrWait(c, r) BY <1>1, <2>3, <2>5, ConstantFacts DEF AddTask
    <3>2. PushOutcome(c, r)
      <4> HIDE DEF r
      <4> QED BY <2>1, <3>1, PushOutcomes
    <3> QED BY <2>5, <3>2
  <2> QED BY <2>3, <2>4, <2>5, ConstantFacts
<1>2. ASSUME AddThread(c) PROVE PushOutcome(c, [caller[c] EXCEPT !.thread = 0])
  <2> DEFINE r == [caller[c] EXCEPT !.thread = 0]
  <2>1. r \in CallerRecords BY <1>0 DEF CallerRecords
  <2>2. PushOrWait(c, r) BY <1>2 DEF AddThread
  <2> HIDE DEF r
  <2>3. PushOutcome(c, r) BY <2>1, <2>2, PushOutcomes
  <2> QED BY <2>3 DEF r
<1>3. ASSUME Recheck(c) PROVE PushOutcome(c, caller[c])
  BY <1>0, <1>3, PushOutcomes DEF Recheck
<1> QED BY <1>1, <1>2, <1>3

LEMMA LocalsStep == TypeOK /\ LocalsOK /\ [Next]_vars => LocalsOK'
<1> SUFFICES ASSUME TypeOK, LocalsOK, [Next]_vars PROVE LocalsOK' OBVIOUS
<1>0. /\ caller \in [Callers -> CallerRecords]
      /\ worker \in [Threads -> [pc : WorkerPcs, task : Tasks \cup {NoTask}]]
      /\ NoTask \notin Tasks /\ 0 \notin Threads
  BY ConstantsAssumption, ConstantFacts DEF TypeOK, CallerRecords, CallerPcs, WorkerPcs
<1> USE DEF LocalsOK, poolVars
<1>1. ASSUME NEW c \in Callers, NEW t \in Tasks, AddTask(c, t) PROVE LocalsOK'
  <2>1. worker' = worker /\ caller[c].pc = "idle" BY <1>1 DEF AddTask
  <2>2. CASE PushOutcome(c, [caller[c] EXCEPT !.task = t])
    <3>1. [caller[c] EXCEPT !.task = t].task = t /\ [caller[c] EXCEPT !.task = t].thread = caller[c].thread
      BY <1>0 DEF CallerRecords
    <3> QED BY <1>0, <2>1, <2>2, <3>1 DEF PushOutcome
  <2>3. CASE /\ \A d \in Callers : d # c => caller'[d] = caller[d]
             /\ caller'[c].pc = "unlocked" /\ caller'[c].task = t
             /\ caller'[c].thread = caller[c].thread
    BY <1>0, <2>1, <2>3 DEF CallerRecords
  <2> QED BY <1>1, <2>2, <2>3, AddOutcomes
<1>2. ASSUME NEW c \in Callers, NEW w \in Threads, StartThread(c, w) PROVE LocalsOK'
  BY <1>0, <1>2 DEF StartThread, CallerRecords
<1>3. ASSUME NEW c \in Callers, AddThread(c) PROVE LocalsOK'
  <2>1. PushOutcome(c, [caller[c] EXCEPT !.thread = 0]) BY <1>3, AddOutcomes
  <2> QED BY <1>0, <1>3, <2>1 DEF AddThread, PushOutcome, CallerRecords
<1>4. ASSUME NEW c \in Callers, Recheck(c) PROVE LocalsOK'
  <2>1. PushOutcome(c, caller[c]) BY <1>4, AddOutcomes
  <2> QED BY <1>0, <1>4, <2>1 DEF Recheck, PushOutcome, CallerRecords
<1>5. ASSUME NEW c \in Callers, NotifyEmpty(c) PROVE LocalsOK'
  BY <1>0, <1>5 DEF NotifyEmpty, AllLooking, CallerRecords
<1>6. ASSUME NEW w \in Threads, Look(w) PROVE LocalsOK'
  <2>1. queue_ # <<>> => Head(queue_) # NoTask BY <1>0 DEF TypeOK
  <2> QED BY <1>0, <1>6, <2>1 DEF Look
<1>7. ASSUME NEW w \in Threads, NotifyFull(w) PROVE LocalsOK'
  <2> DEFINE blocked == {c \in Callers : caller[c].pc = "waiting"}
  <2>1. CASE blocked = {} BY <1>0, <1>7, <2>1 DEF NotifyFull
  <2>2. CASE blocked # {}
    <3>1. PICK c \in blocked : caller' = [caller EXCEPT ![c].pc = "woken"]
      BY <1>7, <2>2 DEF NotifyFull
    <3> QED BY <1>0, <1>7, <3>1 DEF NotifyFull, CallerRecords
  <2> QED BY <2>1, <2>2
<1>8. ASSUME NEW w \in Threads, Run(w) PROVE LocalsOK' BY <1>0, <1>8 DEF Run
<1>9. CASE StopAll BY <1>9 DEF StopAll
<1>10. CASE StopStep
  BY <1>0, <1>10 DEF StopStep, StopNotifyFull, StopNotifyEmpty, AllLooking, CallerRecords
<1>11. CASE JoinStep BY <1>0, <1>11 DEF JoinStep, JoinAll, JoinNotify, JoinThreads, AllLooking
<1>12. CASE WakeUp BY <1>0, <1>12 DEF WakeUp, Spurious, CallerRecords
<1>13. CASE Terminated \/ UNCHANGED vars BY <1>13 DEF Terminated, vars
<1> QED
  BY <1>1, <1>2, <1>3, <1>4, <1>5, <1>6, <1>7, <1>8, <1>9, <1>10, <1>11, <1>12, <1>13
  DEF Next, CallerStep, ThreadStep

\* Threads are in threads_, and callers only go on when there are some.

LEMMA ThreadsStep == TypeOK /\ LocalsOK /\ ThreadsInv /\ [Next]_vars => ThreadsInv'
<1> SUFFICES ASSUME TypeOK, LocalsOK, ThreadsInv, [Next]_vars PROVE ThreadsInv' OBVIOUS
<1>0. /\ caller \in [Callers -> CallerRecords]
      /\ worker \in [Threads -> [pc : WorkerPcs, task : Tasks \cup {NoTask}]]
      /\ threads_ \subseteq Threads
      /\ 0 \notin Threads
  BY ConstantFacts DEF TypeOK, CallerRecords, CallerPcs, WorkerPcs
<1> USE DEF ThreadsInv, StartedOK, ThreadsOK, HasThread, poolVars
<1>1. ASSUME NEW c \in Callers, NEW t \in Tasks, AddTask(c, t) PROVE ThreadsInv'
  <2>1. worker' = worker /\ threads_' = threads_ /\ caller[c].pc = "idle" BY <1>1 DEF AddTask
  <2>2. CASE /\ Cardinality(threads_) >= num_threads_
             /\ PushOutcome(c, [caller[c] EXCEPT !.task = t])
    <3>1. [caller[c] EXCEPT !.task = t].thread = caller[c].thread BY <1>0 DEF CallerRecords
    <3>2. threads_ # {}
      <4>1. Cardinality({}) = 0 BY FS_EmptySet
      <4>2. threads_ = {} => Cardinality(threads_) = 0 BY <4>1
      <4>3. threads_ = {} => 0 >= num_threads_ BY <2>2, <4>2
      <4> QED BY <4>3, ConstantFacts
    <3>3. \A d \in Callers : caller'[d].thread = caller[d].thread
      BY <2>2, <3>1 DEF PushOutcome
    <3> QED BY <2>1, <3>2, <3>3
  <2>3. CASE /\ \A d \in Callers : d # c => caller'[d] = caller[d]
             /\ caller'[c].pc = "unlocked" /\ caller'[c].task = t
             /\ caller'[c].thread = caller[c].thread
             /\ queue_' = queue_
    BY <1>0, <2>1, <2>3 DEF CallerRecords
  <2> QED BY <1>1, <2>2, <2>3, AddOutcomes
<1>2. ASSUME NEW c \in Callers, NEW w \in Threads, StartThread(c, w) PROVE ThreadsInv'
  <2>1. /\ caller[c].thread = 0 /\ caller'[c].thread = w
        /\ \A d \in Callers : d # c => caller'[d] = caller[d]
        /\ caller'[c].pc = "started"
    BY <1>0, <1>2 DEF StartThread, LocalsOK, CallerRecords
  <2>2. /\ worker'[w].pc = "looking"
        /\ \A x \in Threads : x # w => worker'[x] = worker[x]
        /\ threads_' = threads_ /\ queue_' = queue_
    BY <1>0, <1>2 DEF StartThread
  <2>3. StartedOK' BY <1>0, <2>1, <2>2
  <2>4. HasThread' BY <1>0, <2>1, <2>2
  <2>5. ThreadsOK'
    <3>1. \A x \in Threads : worker[x].pc # "none" => worker'[x].pc # "none" BY <2>2
    <3>2. \A d \in Callers : d # c => caller[d].thread \in Threads \cup {0} BY <1>0 DEF CallerRecords
    <3> QED BY <1>0, <2>1, <2>2, <3>1, <3>2
  <2> QED BY <2>3, <2>4, <2>5
<1>3. ASSUME NEW c \in Callers, AddThread(c) PROVE ThreadsInv'
  <2>1. PushOutcome(c, [caller[c] EXCEPT !.thread = 0]) BY <1>3, AddOutcomes
  <2>2. worker' = worker /\ threads_' = threads_ \cup {caller[c].thread} /\ caller[c].pc = "started"
    BY <1>3 DEF AddThread
  <2>3. \A d \in Callers : d # c => caller'[d] = caller[d] BY <2>1 DEF PushOutcome
  <2>4. caller[c].thread \in Threads BY <1>0, <2>2 DEF LocalsOK, CallerRecords
  <2>5. worker[caller[c].thread].pc # "none" \/ caller[c].thread \in threads_' BY <2>2
  <2>6. StartedOK' BY <1>0, <2>2, <2>3
  <2>7. HasThread' BY <2>2
  <2>8. caller'[c].thread = 0 BY <1>0, <2>1 DEF PushOutcome, CallerRecords
  <2>9. worker[caller[c].thread].pc # "none" BY <1>0, <2>4
  <2>10. ThreadsOK' BY <2>2, <2>3, <2>8, <2>9
  <2> QED BY <2>6, <2>7, <2>10
<1>4. ASSUME NEW c \in Callers, Recheck(c) PROVE ThreadsInv'
  <2>1. PushOutcome(c, caller[c]) BY <1>4, AddOutcomes
  <2>2. worker' = worker /\ threads_' = threads_ /\ threads_ # {} BY <1>4 DEF Recheck
  <2>3. \A d \in Callers : caller'[d].thread = caller[d].thread BY <2>1 DEF PushOutcome
  <2> QED BY <2>2, <2>3
<1>5. ASSUME NEW c \in Callers, NotifyEmpty(c) PROVE ThreadsInv'
  BY <1>0, <1>5 DEF NotifyEmpty, AllLooking, CallerRecords
<1>6. ASSUME NEW w \in Threads, Look(w) PROVE ThreadsInv'
  BY <1>0, <1>6 DEF Look
<1>7. ASSUME NEW w \in Threads, NotifyFull(w) PROVE ThreadsInv'
  <2> DEFINE blocked == {c \in Callers : caller[c].pc = "waiting"}
  <2>1. CASE blocked = {} BY <1>0, <1>7, <2>1 DEF NotifyFull
  <2>2. CASE blocked # {}
    <3>1. PICK c \in blocked : caller' = [caller EXCEPT ![c].pc = "woken"]
      BY <1>7, <2>2 DEF NotifyFull
    <3> QED BY <1>0, <1>7, <3>1 DEF NotifyFull, CallerRecords
  <2> QED BY <2>1, <2>2
<1>8. ASSUME NEW w \in Threads, Run(w) PROVE ThreadsInv' BY <1>0, <1>8 DEF Run
<1>9. CASE StopAll BY <1>9 DEF StopAll
<1>10. CASE StopStep
  BY <1>0, <1>10 DEF StopStep, StopNotifyFull, StopNotifyEmpty, AllLooking, CallerRecords
<1>11. CASE JoinStep
  <2>1. CASE JoinAll BY <2>1 DEF JoinAll
  <2>2. CASE JoinNotify
    <3>1. \A w \in Threads : worker'[w].pc = "none" <=> worker[w].pc = "none"
      BY <1>0, <2>2 DEF JoinNotify, AllLooking
    <3>2. caller' = caller /\ queue_' = queue_ /\ threads_' = threads_ BY <2>2 DEF JoinNotify
    <3>3. \A c \in Callers : caller[c].thread \in Threads \cup {0} BY <1>0 DEF CallerRecords
    <3> QED BY <1>0, <3>1, <3>2, <3>3
  <2>3. CASE JoinThreads BY <2>3 DEF JoinThreads
  <2> QED BY <1>11, <2>1, <2>2, <2>3 DEF JoinStep
<1>12. CASE WakeUp
  <2>1. queue_' = queue_ /\ threads_' = threads_ BY <1>12 DEF WakeUp
  <2>2. ASSUME NEW c \in Callers, caller[c].pc = "waiting", worker' = worker,
               caller' = [caller EXCEPT ![c].pc = "woken"]
        PROVE  ThreadsInv'
    BY <1>0, <2>1, <2>2 DEF CallerRecords
  <2>3. ASSUME NEW w \in Threads, worker[w].pc = "waiting", caller' = caller,
               worker' = [worker EXCEPT ![w].pc = "looking"]
        PROVE  ThreadsInv'
    BY <1>0, <2>1, <2>3
  <2> QED BY <1>12, <2>2, <2>3 DEF WakeUp, Spurious
<1>13. CASE Terminated \/ UNCHANGED vars BY <1>13 DEF Terminated, vars
<1> QED
  BY <1>1, <1>2, <1>3, <1>4, <1>5, <1>6, <1>7, <1>8, <1>9, <1>10, <1>11, <1>12, <1>13
  DEF Next, CallerStep, ThreadStep

\* Without early calls of JoinAll, nothing is added to a joined pool.

LEMMA LeaveStep ==
  ASSUME EarlyJoin = FALSE, TypeOK, LocalsOK, LeaveInv, [Next]_vars
  PROVE  LeaveInv'
<1>0. /\ caller \in [Callers -> CallerRecords]
      /\ worker \in [Threads -> [pc : WorkerPcs, task : Tasks \cup {NoTask}]]
      /\ threads_ \subseteq Threads
  BY DEF TypeOK, CallerRecords, CallerPcs, WorkerPcs
<1> USE DEF LeaveInv, JoinOK, ExitOK, CallersDone, poolVars
<1>1. ASSUME NEW c \in Callers, CallerStep(c) PROVE LeaveInv'
  <2>1. caller[c].pc = "idle" => todo # {} /\ ~joined_
    BY <1>1 DEF CallerStep, AddTask, StartThread, AddThread, Recheck, NotifyEmpty
  <2>2. ~joined_ BY <2>1
  <2>3. joined_' = joined_ /\ joiner' = joiner /\ stopped_' = stopped_
    BY <1>1 DEF CallerStep, AddTask, StartThread, AddThread, Recheck, NotifyEmpty
  <2>4. \A w \in Threads : worker'[w].pc = "returned" => worker[w].pc = "returned"
    <3>1. CASE worker' = worker BY <3>1
    <3>2. ASSUME NEW w \in Threads, StartThread(c, w)
          PROVE \A x \in Threads : worker'[x].pc = "returned" => worker[x].pc = "returned"
      BY <1>0, <3>2 DEF StartThread
    <3>3. CASE NotifyEmpty(c) BY <1>0, <3>3 DEF NotifyEmpty, AllLooking
    <3>4. CASE worker' # worker
      BY <1>1, <3>2, <3>3, <3>4 DEF CallerStep, AddTask, AddThread, Recheck
    <3> QED BY <3>1, <3>4
  <2> QED BY <2>2, <2>3, <2>4
<1>2. ASSUME NEW w \in Threads, Look(w) PROVE LeaveInv'
  <2>1. /\ \A x \in Threads : x # w => worker'[x] = worker[x]
        /\ worker[w].pc = "looking"
        /\ worker'[w].pc = "returned" => stopped_ \/ (joined_ /\ queue_ = <<>>)
        /\ queue_ = <<>> => queue_' = <<>>
    BY <1>0, <1>2 DEF Look
  <2>2. UNCHANGED <<todo, caller, threads_, stopped_, joined_, joiner>> BY <1>2 DEF Look
  <2> QED BY <1>0, <2>1, <2>2
<1>3. ASSUME NEW w \in Threads, NotifyFull(w) PROVE LeaveInv'
  <2>1. /\ \A x \in Threads : x # w => worker'[x] = worker[x]
        /\ worker[w].pc = "popped" /\ worker'[w].pc = "running"
        /\ UNCHANGED <<todo, poolVars, joiner>>
    BY <1>0, <1>3 DEF NotifyFull
  <2>2. CallersDone => caller' = caller BY <1>3 DEF NotifyFull
  <2> QED BY <1>0, <2>1, <2>2
<1>4. ASSUME NEW w \in Threads, Run(w) PROVE LeaveInv'
  BY <1>0, <1>4 DEF Run
<1>5. CASE StopAll BY <1>5 DEF StopAll
<1>6. CASE StopStep
  <2>1. \A w \in Threads : worker[w].pc = "returned" <=> worker'[w].pc = "returned"
    BY <1>0, <1>6 DEF StopStep, StopNotifyFull, StopNotifyEmpty, AllLooking
  <2>2. UNCHANGED <<todo, poolVars, joiner>>
    BY <1>6 DEF StopStep, StopNotifyFull, StopNotifyEmpty
  <2>3. CallersDone => CallersDone'
    BY <1>0, <1>6 DEF StopStep, StopNotifyFull, StopNotifyEmpty
  <2> QED BY <1>0, <2>1, <2>2, <2>3
<1>7. CASE JoinStep
  <2>1. \A w \in Threads : worker[w].pc = "returned" <=> worker'[w].pc = "returned"
    BY <1>0, <1>7 DEF JoinStep, JoinAll, JoinNotify, JoinThreads, AllLooking
  <2>2. UNCHANGED <<todo, caller, queue_, threads_, stopped_>>
    BY <1>7 DEF JoinStep, JoinAll, JoinNotify, JoinThreads
  <2>3. CASE JoinAll BY <1>0, <2>1, <2>2, <2>3 DEF JoinAll
  <2>4. CASE JoinNotify BY <1>0, <2>1, <2>2, <2>4 DEF JoinNotify
  <2>5. CASE JoinThreads BY <1>0, <2>1, <2>2, <2>5 DEF JoinThreads
  <2> QED BY <1>7, <2>3, <2>4, <2>5 DEF JoinStep
<1>8. CASE WakeUp
  <2>1. \A w \in Threads : worker[w].pc = "returned" <=> worker'[w].pc = "returned"
    BY <1>0, <1>8 DEF WakeUp, Spurious
  <2>2. UNCHANGED <<todo, poolVars, joiner>> BY <1>8 DEF WakeUp
  <2>3. CallersDone => CallersDone' BY <1>0, <1>8 DEF WakeUp, Spurious
  <2> QED BY <1>0, <2>1, <2>2, <2>3
<1>9. CASE Terminated \/ UNCHANGED vars BY <1>9 DEF Terminated, vars
<1> QED BY <1>1, <1>2, <1>3, <1>4, <1>5, <1>6, <1>7, <1>8, <1>9 DEF Next, ThreadStep

\* A step moves a task from one place to the next, unless the pool is stopped.
LEMMA SomewhereStep ==
  ASSUME TypeOK, LocalsOK, [Next]_vars, ~stopped_, NEW t \in Tasks, Somewhere(t)
  PROVE  Somewhere(t)'
<1>0. /\ caller \in [Callers -> CallerRecords]
      /\ worker \in [Threads -> [pc : WorkerPcs, task : Tasks \cup {NoTask}]]
      /\ queue_ \in Seq(Tasks) /\ NoTask \notin Tasks
  BY ConstantsAssumption DEF TypeOK, CallerRecords, CallerPcs, WorkerPcs
<1> USE DEF Somewhere, poolVars
<1>a. ASSUME NEW c \in Callers, NEW r \in CallerRecords, PushOutcome(c, r), r.task \in Tasks,
             worker' = worker, done' = done,
             caller[c].task = NoTask \/ caller[c].task = r.task,
             todo' = todo \/ todo' = todo \ {r.task}
      PROVE  Somewhere(t)'
  <2>1. CASE r.task = t
    <3>1. CASE queue_' = Append(queue_, r.task)
      <4>1. Len(queue_') = Len(queue_) + 1 /\ queue_'[Len(queue_) + 1] = t BY <1>0, <1>a, <2>1, <3>1
      <4>2. Len(queue_) + 1 \in 1 .. Len(queue_') BY <1>0, <4>1
      <4> QED BY <4>1, <4>2
    <3>2. CASE caller'[c].task = r.task BY <2>1, <3>2
    <3> QED BY <1>a, <3>1, <3>2 DEF PushOutcome
  <2>2. CASE r.task # t
    <3>1. t \in todo => t \in todo' BY <1>a, <2>2
    <3>2. (\E d \in Callers : caller[d].task = t) => \E d \in Callers : caller'[d].task = t
      BY <1>0, <1>a, <2>2 DEF PushOutcome
    <3>3. (\E i \in 1 .. Len(queue_) : queue_[i] = t) => \E i \in 1 .. Len(queue_') : queue_'[i] = t
      <4>1. CASE queue_' = queue_ BY <4>1
      <4>2. CASE queue_' = Append(queue_, r.task)
        <5>1. \A i \in 1 .. Len(queue_) : i \in 1 .. Len(queue_') /\ queue_'[i] = queue_[i]
          BY <1>0, <1>a, <4>2
        <5> QED BY <5>1
      <4> QED BY <1>a, <4>1, <4>2 DEF PushOutcome
    <3> QED BY <1>a, <3>1, <3>2, <3>3
  <2> QED BY <2>1, <2>2
<1>1. ASSUME NEW c \in Callers, NEW u \in Tasks, AddTask(c, u) PROVE Somewhere(t)'
  <2> DEFINE r == [caller[c] EXCEPT !.task = u]
  <2>1. r \in CallerRecords /\ r.task = u BY <1>0 DEF CallerRecords
  <2>2. /\ todo' = todo \ {u} /\ worker' = worker /\ done' = done /\ caller[c].pc = "idle"
        /\ caller[c].task = NoTask
    BY <1>1 DEF AddTask, LocalsOK
  <2>3. CASE PushOutcome(c, r)
    <3> HIDE DEF r, Somewhere
    <3> QED BY <1>a, <2>1, <2>2, <2>3
  <2>4. CASE /\ \A d \in Callers : d # c => caller'[d] = caller[d]
             /\ caller'[c].task = u /\ queue_' = queue_
    BY <1>0, <2>2, <2>4
  <2> QED BY <1>1, <2>3, <2>4, AddOutcomes
<1>2. ASSUME NEW c \in Callers, NEW w \in Threads, StartThread(c, w) PROVE Somewhere(t)'
  <2>1. /\ \A d \in Callers : caller'[d].task = caller[d].task
        /\ \A x \in Threads : worker'[x].task = worker[x].task
        /\ UNCHANGED <<todo, done, queue_>>
    BY <1>0, <1>2 DEF StartThread, CallerRecords
  <2> QED BY <2>1
<1>3. ASSUME NEW c \in Callers, AddThread(c) PROVE Somewhere(t)'
  <2> DEFINE r == [caller[c] EXCEPT !.thread = 0]
  <2>1. r \in CallerRecords /\ r.task = caller[c].task BY <1>0 DEF CallerRecords
  <2>2. UNCHANGED <<todo, worker, done>> /\ caller[c].task \in Tasks
    BY <1>0, <1>3 DEF AddThread, LocalsOK, CallerRecords
  <2>3. PushOutcome(c, r) BY <1>3, AddOutcomes
  <2> HIDE DEF r, Somewhere
  <2> QED BY <1>a, <2>1, <2>2, <2>3
<1>4. ASSUME NEW c \in Callers, Recheck(c) PROVE Somewhere(t)'
  <2>1. UNCHANGED <<todo, worker, done>> /\ caller[c].task \in Tasks
    BY <1>0, <1>4 DEF Recheck, LocalsOK, CallerRecords
  <2>2. PushOutcome(c, caller[c]) BY <1>4, AddOutcomes
  <2> HIDE DEF Somewhere
  <2> QED BY <1>0, <1>a, <2>1, <2>2
<1>5. ASSUME UNCHANGED <<todo, done, queue_>>,
             \A d \in Callers : caller'[d].task = caller[d].task,
             \A x \in Threads : worker'[x].task = worker[x].task
      PROVE  Somewhere(t)'
  BY <1>5
<1>6. ASSUME NEW c \in Callers, NotifyEmpty(c) PROVE Somewhere(t)'
  <2>1. /\ \A d \in Callers : caller'[d].task = caller[d].task
        /\ \A x \in Threads : worker'[x].task = worker[x].task
    BY <1>0, <1>6 DEF NotifyEmpty, AllLooking, CallerRecords
  <2> QED BY <1>5, <1>6, <2>1 DEF NotifyEmpty
<1>7. ASSUME NEW w \in Threads, Look(w) PROVE Somewhere(t)'
  <2>1. UNCHANGED <<todo, caller, done>> BY <1>7 DEF Look
  <2>2. worker[w].task = NoTask /\ \A x \in Threads : x # w => worker'[x] = worker[x]
    BY <1>0, <1>7 DEF Look, LocalsOK
  <2>3. CASE queue_ = <<>>
    <3>1. queue_' = queue_ BY <1>7, <2>3 DEF Look
    <3> QED BY <1>0, <2>1, <2>2, <3>1
  <2>4. CASE queue_ # <<>>
    <3>1. queue_' = Tail(queue_) /\ worker'[w].task = Head(queue_) BY <1>0, <1>7, <2>4 DEF Look
    <3>2. ASSUME NEW i \in 1 .. Len(queue_), queue_[i] = t
          PROVE  worker'[w].task = t \/ \E j \in 1 .. Len(queue_') : queue_'[j] = t
      <4>1. CASE i = 1 BY <3>1, <3>2, <4>1
      <4>2. CASE i # 1
        <5>1. i - 1 \in 1 .. Len(queue_') /\ queue_'[i - 1] = queue_[i] BY <1>0, <2>4, <3>1, <4>2
        <5> QED BY <3>2, <5>1
      <4> QED BY <4>1, <4>2
    <3> QED BY <1>0, <2>1, <2>2, <3>2
  <2> QED BY <2>3, <2>4
<1>8. ASSUME NEW w \in Threads, NotifyFull(w) PROVE Somewhere(t)'
  <2>1. \A x \in Threads : worker'[x].task = worker[x].task BY <1>0, <1>8 DEF NotifyFull
  <2>2. \A d \in Callers : caller'[d].task = caller[d].task
    BY <1>0, <1>8 DEF NotifyFull, CallerRecords
  <2> QED BY <1>5, <1>8, <2>1, <2>2 DEF NotifyFull
<1>9. ASSUME NEW w \in Threads, Run(w) PROVE Somewhere(t)'
  <2>1. /\ UNCHANGED <<todo, caller, queue_>> /\ done' = done \cup {worker[w].task}
        /\ \A x \in Threads : x # w => worker'[x] = worker[x]
    BY <1>0, <1>9 DEF Run
  <2> QED BY <1>0, <2>1
<1>10. CASE StopAll \/ StopStep \/ JoinStep \/ WakeUp
  <2>1. UNCHANGED <<todo, done, queue_>>
    BY <1>10 DEF StopAll, StopStep, StopNotifyFull, StopNotifyEmpty, JoinStep, JoinAll, JoinNotify,
                 JoinThreads, WakeUp
  <2>2. \A d \in Callers : caller'[d].task = caller[d].task
    BY <1>0, <1>10 DEF StopAll, StopStep, StopNotifyFull, StopNotifyEmpty, JoinStep, JoinAll,
                      JoinNotify, JoinThreads, WakeUp, Spurious, CallerRecords
  <2>3. \A x \in Threads : worker'[x].task = worker[x].task
    BY <1>0, <1>10 DEF StopAll, StopStep, StopNotifyFull, StopNotifyEmpty, JoinStep, JoinAll,
                      JoinNotify, JoinThreads, WakeUp, Spurious, AllLooking
  <2> QED BY <1>5, <2>1, <2>2, <2>3
<1>11. CASE Terminated \/ UNCHANGED vars BY <1>11 DEF Terminated, vars
<1> QED
  BY <1>1, <1>2, <1>3, <1>4, <1>6, <1>7, <1>8, <1>9, <1>10, <1>11 DEF Next, CallerStep, ThreadStep

-----------------------------------------------------------------------------
\* Theorems

LEMMA InitIInv == Init => IInv
<1> SUFFICES ASSUME Init PROVE IInv OBVIOUS
<1>1. TypeOK BY TypeInit
<1>2. LocalsOK BY ConstantsAssumption, ConstantFacts DEF Init, LocalsOK
<1>3. ThreadsInv BY DEF Init, ThreadsInv, StartedOK, ThreadsOK, HasThread
<1>4. LeaveInv BY DEF Init, LeaveInv, JoinOK, ExitOK
<1>5. Covered BY DEF Init, Covered, Somewhere
<1> QED BY <1>1, <1>2, <1>3, <1>4, <1>5 DEF IInv

LEMMA StoppedForGood == [Next]_vars /\ stopped_ => stopped_'
<1> SUFFICES ASSUME [Next]_vars, stopped_ PROVE stopped_' OBVIOUS
<1>1. ASSUME NEW c \in Callers, CallerStep(c) PROVE stopped_'
  BY <1>1 DEF CallerStep, AddTask, StartThread, AddThread, Recheck, NotifyEmpty, poolVars
<1>2. ASSUME NEW w \in Threads, ThreadStep(w) PROVE stopped_'
  BY <1>2 DEF ThreadStep, Look, NotifyFull, Run, poolVars
<1>3. CASE StopAll \/ StopStep BY <1>3 DEF StopAll, StopStep, StopNotifyFull, StopNotifyEmpty, poolVars
<1>4. CASE JoinStep BY <1>4 DEF JoinStep, JoinAll, JoinNotify, JoinThreads, poolVars
<1>5. CASE WakeUp \/ Terminated \/ UNCHANGED vars BY <1>5 DEF WakeUp, Terminated, vars, poolVars
<1> QED BY <1>1, <1>2, <1>3, <1>4, <1>5 DEF Next

LEMMA NextIInv == ASSUME EarlyJoin = FALSE, IInv, [Next]_vars PROVE IInv'
<1>1. TypeOK' BY TypeStep DEF IInv
<1>2. LocalsOK' BY LocalsStep DEF IInv
<1>3. ThreadsInv' BY ThreadsStep DEF IInv
<1>4. LeaveInv' BY LeaveStep DEF IInv
<1>5. stopped_' \/ Covered'
  <2>1. CASE stopped_ BY <2>1, StoppedForGood
  <2>2. CASE ~stopped_
    <3>1. ASSUME NEW t \in Tasks PROVE Somewhere(t)'
      BY <2>2, SomewhereStep DEF IInv, Covered
    <3> QED BY <3>1 DEF Covered
  <2> QED BY <2>1, <2>2
<1> QED BY <1>1, <1>2, <1>3, <1>4, <1>5 DEF IInv

\* The types hold, also when JoinAll comes too early.
THEOREM TypeCorrectness == Spec => []TypeOK
<1>1. Init => TypeOK /\ LocalsOK BY InitIInv DEF IInv
<1>2. TypeOK /\ LocalsOK /\ [Next]_vars => TypeOK' /\ LocalsOK' BY TypeStep, LocalsStep
<1> QED BY <1>1, <1>2, PTL DEF Spec

THEOREM Invariance == ASSUME EarlyJoin = FALSE PROVE Spec => []IInv
<1>1. Init => IInv BY InitIInv
<1>2. IInv /\ [Next]_vars => IInv' BY NextIInv
<1> QED BY <1>1, <1>2, PTL DEF Spec

\* JoinAll returns from a pool at rest, whose tasks have all been run unless it
\* was stopped: a thread only leaves an empty queue, nothing is added after
\* JoinAll was called, and a pool without threads never had a task.
THEOREM JoinedQuiet == ASSUME EarlyJoin = FALSE PROVE Spec => []JoinedIsQuiet
<1>1. ASSUME IInv, joiner = "returned"
      PROVE  /\ \A w \in Threads : worker[w].pc \in {"none", "returned"}
             /\ stopped_ \/ done = Tasks
  <2> USE DEF IInv, LeaveInv, JoinOK
  <2>1. CallersDone BY <1>1
  <2>2. \A c \in Callers : caller[c].thread = 0 /\ caller[c].task = NoTask
    BY <1>1, <2>1 DEF CallersDone, LocalsOK
  <2>3. \A w \in Threads : worker[w].pc \in {"none", "returned"}
    BY <1>1, <2>2, ConstantFacts DEF ThreadsInv, StartedOK
  <2>4. ASSUME ~stopped_ PROVE done = Tasks
    <3>1. \A w \in Threads : worker[w].task = NoTask BY <1>1, <2>3 DEF LocalsOK
    <3>2. queue_ = <<>>
      <4>1. CASE threads_ = {} BY <1>1, <4>1 DEF ThreadsInv, HasThread
      <4>2. CASE threads_ # {} BY <1>1, <2>4, <4>2 DEF ExitOK, TypeOK
      <4> QED BY <4>1, <4>2
    <3>3. todo = {} BY <2>1 DEF CallersDone
    <3>4. NoTask \notin Tasks BY ConstantsAssumption
    <3>5. \A t \in Tasks : t \in done
      BY <1>1, <2>2, <2>4, <3>1, <3>2, <3>3, <3>4 DEF Covered, Somewhere
    <3> QED BY <1>1, <3>5 DEF TypeOK
  <2> QED BY <2>3, <2>4
<1>2. IInv => JoinedIsQuiet BY <1>1 DEF JoinedIsQuiet
<1> QED BY <1>2, Invariance, PTL

-----------------------------------------------------------------------------
\* Counting threads and notifications

LEMMA OneMore ==
  ASSUME NEW B, IsFiniteSet(B), NEW x, NEW A, A \subseteq B \cup {x}
  PROVE  /\ IsFiniteSet(A) /\ Cardinality(A) \in Nat /\ Cardinality(B) \in Nat
         /\ Cardinality(A) <= Cardinality(B) + 1
<1>1. /\ IsFiniteSet(B \cup {x})
      /\ Cardinality(B \cup {x}) <= Cardinality(B) + 1
      /\ Cardinality(B) \in Nat
  <2>1. CASE x \in B
    <3>1. B \cup {x} = B BY <2>1
    <3>2. Cardinality(B) \in Nat BY FS_CardinalityType
    <3>3. Cardinality(B \cup {x}) = Cardinality(B) /\ IsFiniteSet(B \cup {x}) BY <3>1
    <3> QED BY <3>2, <3>3
  <2>2. CASE x \notin B
    <3>1. IsFiniteSet(B \cup {x}) /\ Cardinality(B \cup {x}) = Cardinality(B) + 1
      BY <2>2, FS_AddElement
    <3> QED BY <3>1, FS_CardinalityType
  <2> QED BY <2>1, <2>2
<1>2. IsFiniteSet(A) /\ Cardinality(A) <= Cardinality(B \cup {x}) BY <1>1, FS_Subset
<1>3. Cardinality(A) \in Nat /\ Cardinality(B \cup {x}) \in Nat BY <1>1, <1>2, FS_CardinalityType
<1> QED BY <1>1, <1>2, <1>3

LEMMA OneNew ==
  ASSUME NEW B, IsFiniteSet(B), NEW A, A \subseteq B, NEW x \in B, x \notin A
  PROVE  /\ Cardinality(A) \in Nat /\ Cardinality(B) \in Nat
         /\ Cardinality(A) + 1 <= Cardinality(B)
<1>1. IsFiniteSet(A) BY FS_Subset
<1>2. Cardinality(A \cup {x}) = Cardinality(A) + 1 /\ IsFiniteSet(A \cup {x}) BY <1>1, FS_AddElement
<1>3. A \cup {x} \subseteq B OBVIOUS
<1>4. Cardinality(A \cup {x}) <= Cardinality(B) BY <1>3, FS_Subset
<1>5. Cardinality(A) \in Nat /\ Cardinality(B) \in Nat BY <1>1, FS_CardinalityType
<1> QED BY <1>2, <1>4, <1>5

LEMMA SubsetCount ==
  ASSUME NEW B, IsFiniteSet(B), NEW A, A \subseteq B
  PROVE  /\ IsFiniteSet(A) /\ Cardinality(A) \in Nat /\ Cardinality(B) \in Nat
         /\ Cardinality(A) <= Cardinality(B)
BY FS_Subset, FS_CardinalityType

LEMMA CountTypes ==
  ASSUME TypeOK
  PROVE  /\ IsFiniteSet(threads_) /\ IsFiniteSet(Starting) /\ IsFiniteSet(Popped) /\ IsFiniteSet(Coming)
         /\ Cardinality(threads_) \in Nat /\ Cardinality(Starting) \in Nat
         /\ Cardinality(Popped) \in Nat /\ Cardinality(Coming) \in Nat
         /\ Cardinality(Starting) <= Cardinality(Callers)
<1>1. /\ threads_ \subseteq Threads /\ Popped \subseteq Threads
      /\ Starting \subseteq Callers /\ Coming \subseteq Callers
  BY DEF TypeOK, Popped, Starting, Coming
<1>2. IsFiniteSet(threads_) /\ Cardinality(threads_) \in Nat BY <1>1, ConstantFacts, SubsetCount
<1>3. IsFiniteSet(Popped) /\ Cardinality(Popped) \in Nat BY <1>1, ConstantFacts, SubsetCount
<1>4. /\ IsFiniteSet(Starting) /\ Cardinality(Starting) \in Nat
      /\ Cardinality(Starting) <= Cardinality(Callers)
  BY <1>1, ConstantFacts, SubsetCount
<1>5. IsFiniteSet(Coming) /\ Cardinality(Coming) \in Nat BY <1>1, ConstantFacts, SubsetCount
<1> QED BY <1>2, <1>3, <1>4, <1>5

LEMMA ThreadsCount ==
  ASSUME TypeOK, TypeOK', LocalsOK, NoMoreThreads, [Next]_vars
  PROVE  NoMoreThreads'
<1>0. /\ caller \in [Callers -> CallerRecords]
      /\ worker \in [Threads -> [pc : WorkerPcs, task : Tasks \cup {NoTask}]]
  BY DEF TypeOK, CallerRecords, CallerPcs, WorkerPcs
<1> DEFINE Counts == /\ IsFiniteSet(threads_) /\ IsFiniteSet(Starting)
                     /\ Cardinality(threads_) \in Nat /\ Cardinality(Starting) \in Nat
                     /\ Cardinality(Starting) <= Cardinality(Callers)
<1>c. Counts BY CountTypes
<1>d. Counts' BY CountTypes, PTL
<1>1. ASSUME threads_' = threads_, Starting' \subseteq Starting PROVE NoMoreThreads'
  <2>1. Cardinality(Starting') <= Cardinality(Starting) BY <1>1, <1>c, SubsetCount
  <2>2. Cardinality(threads_') = Cardinality(threads_) BY <1>1
  <2> QED BY <1>c, <1>d, <2>1, <2>2, ConstantFacts DEF NoMoreThreads
<1>2. ASSUME NEW c \in Callers, NEW t \in Tasks, AddTask(c, t) PROVE NoMoreThreads'
  <2>1. threads_' = threads_ BY <1>2 DEF AddTask
  <2>2. CASE Cardinality(threads_) < num_threads_
    <3>1. Cardinality(threads_') < num_threads_ BY <2>1, <2>2
    <3> QED BY <1>d, <3>1, ConstantFacts DEF NoMoreThreads, MaxThreads
  <2>3. CASE PushOutcome(c, [caller[c] EXCEPT !.task = t])
    <3>1. Starting' \subseteq Starting BY <1>0, <2>3 DEF PushOutcome, Starting
    <3> QED BY <1>1, <2>1, <3>1
  <2> QED BY <1>2, <2>2, <2>3, AddOutcomes
<1>3. ASSUME NEW c \in Callers, AddThread(c) PROVE NoMoreThreads'
  <2>1. PushOutcome(c, [caller[c] EXCEPT !.thread = 0]) BY <1>3, AddOutcomes
  <2>2. threads_' \subseteq threads_ \cup {caller[c].thread} /\ caller[c].pc = "started"
    BY <1>3 DEF AddThread
  <2>3. Starting' \subseteq Starting /\ c \in Starting /\ c \notin Starting'
    BY <1>0, <2>1, <2>2 DEF PushOutcome, Starting
  <2>4. Cardinality(Starting') + 1 <= Cardinality(Starting) BY <1>c, <2>3, OneNew
  <2>5. Cardinality(threads_') <= Cardinality(threads_) + 1 BY <1>c, <2>2, OneMore
  <2> QED BY <1>c, <1>d, <2>4, <2>5, ConstantFacts DEF NoMoreThreads
<1>4. ASSUME NEW c \in Callers, \/ \E w \in Threads : StartThread(c, w)
                              \/ Recheck(c) \/ NotifyEmpty(c)
      PROVE  NoMoreThreads'
  <2>1. threads_' = threads_ BY <1>4 DEF StartThread, Recheck, NotifyEmpty, poolVars
  <2>2. CASE \E w \in Threads : StartThread(c, w)
    <3>1. /\ \A d \in Callers : d # c => caller'[d] = caller[d]
          /\ caller[c].pc = "unlocked"
      BY <1>0, <2>2 DEF StartThread
    <3>2. Starting' \subseteq Starting BY <3>1 DEF Starting
    <3> QED BY <1>1, <2>1, <3>2
  <2>3. CASE Recheck(c)
    <3>1. PushOutcome(c, caller[c]) BY <2>3, AddOutcomes
    <3>2. Starting' \subseteq Starting BY <1>0, <3>1 DEF PushOutcome, Starting
    <3> QED BY <1>1, <2>1, <3>2
  <2>4. CASE NotifyEmpty(c)
    <3>1. Starting' \subseteq Starting BY <1>0, <2>4 DEF NotifyEmpty, Starting, CallerRecords
    <3> QED BY <1>1, <2>1, <3>1
  <2> QED BY <1>4, <2>2, <2>3, <2>4
<1>5. ASSUME NEW w \in Threads, ThreadStep(w) PROVE NoMoreThreads'
  <2>1. threads_' = threads_ BY <1>5 DEF ThreadStep, Look, NotifyFull, Run, poolVars
  <2>2. Starting' \subseteq Starting
    BY <1>0, <1>5 DEF ThreadStep, Look, NotifyFull, Run, Starting, CallerRecords
  <2> QED BY <1>1, <2>1, <2>2
<1>6. CASE StopAll \/ StopStep \/ JoinStep \/ WakeUp
  <2>1. threads_' = threads_
    BY <1>6 DEF StopAll, StopStep, StopNotifyFull, StopNotifyEmpty, JoinStep, JoinAll, JoinNotify,
                JoinThreads, WakeUp, poolVars
  <2>2. Starting' \subseteq Starting
    <3>1. \A c \in Callers : \/ caller'[c] = caller[c]
                            \/ caller'[c].pc = "woken"
      BY <1>0, <1>6 DEF StopAll, StopStep, StopNotifyFull, StopNotifyEmpty, JoinStep, JoinAll,
                  JoinNotify, JoinThreads, WakeUp, Spurious, CallerRecords
    <3> QED BY <3>1 DEF Starting
  <2> QED BY <1>1, <2>1, <2>2
<1>7. CASE Terminated \/ UNCHANGED vars
  BY <1>7 DEF Terminated, vars, poolVars, NoMoreThreads, Starting
<1> QED BY <1>2, <1>3, <1>4, <1>5, <1>6, <1>7 DEF Next, CallerStep

\* The threads of the pool and those being started never exceed num_threads_ by
\* more than the other callers.
THEOREM ThreadsBounded == Spec => []NoMoreThreads
<1>1. Init => NoMoreThreads
  <2> SUFFICES ASSUME Init PROVE NoMoreThreads OBVIOUS
  <2>1. threads_ = {} /\ Starting = {} BY DEF Init, Starting
  <2>2. Cardinality(threads_) = 0 /\ Cardinality(Starting) = 0 BY <2>1, FS_EmptySet
  <2> QED BY <2>2, ConstantFacts DEF NoMoreThreads
<1>2. Init => TypeOK /\ LocalsOK BY InitIInv DEF IInv
<1>3. TypeOK /\ LocalsOK /\ [Next]_vars => TypeOK' /\ LocalsOK' BY TypeStep, LocalsStep
<1>4. TypeOK /\ TypeOK' /\ LocalsOK /\ NoMoreThreads /\ [Next]_vars => NoMoreThreads'
  BY ThreadsCount
<1> QED BY <1>1, <1>2, <1>3, <1>4, PTL DEF Spec

LEMMA RoomCount ==
  ASSUME TypeOK, TypeOK', LocalsOK, RoomIsNoticed, [Next]_vars
  PROVE  RoomIsNoticed'
<1>0. /\ caller \in [Callers -> CallerRecords]
      /\ worker \in [Threads -> [pc : WorkerPcs, task : Tasks \cup {NoTask}]]
      /\ queue_ \in Seq(Tasks) /\ Len(queue_) \in Nat /\ Len(queue_') \in Nat
  BY DEF TypeOK, CallerRecords, CallerPcs, WorkerPcs
<1> DEFINE Counts == /\ IsFiniteSet(Popped) /\ IsFiniteSet(Coming)
                     /\ Cardinality(Popped) \in Nat /\ Cardinality(Coming) \in Nat
           Sleeps == \E c \in Callers : caller[c].pc = "waiting"
<1>c. Counts BY CountTypes
<1>d. Counts' BY CountTypes, PTL
<1>e. max_queue_size_ \in Nat BY ConstantFacts
\* As long as nobody falls asleep, the left side may not outgrow the right one.
<1>1. ASSUME Sleeps' => Sleeps, Len(queue_') = Len(queue_),
             Popped \subseteq Popped', Coming \subseteq Coming'
      PROVE  RoomIsNoticed'
  <2>1. /\ Cardinality(Popped) <= Cardinality(Popped')
        /\ Cardinality(Coming) <= Cardinality(Coming')
    BY <1>1, <1>d, SubsetCount
  <2> QED BY <1>0, <1>1, <1>c, <1>d, <1>e, <2>1 DEF RoomIsNoticed
<1>2. ASSUME NEW c \in Callers, NEW r \in CallerRecords, PushOutcome(c, r), worker' = worker
      PROVE  RoomIsNoticed'
  <2>1. CASE Len(queue_) >= max_queue_size_ /\ queue_' = queue_
    <3>1. max_queue_size_ - Len(queue_') <= 0 BY <1>0, <1>e, <2>1
    <3> QED BY <1>0, <1>d, <1>e, <3>1 DEF RoomIsNoticed
  <2>2. CASE queue_' = Append(queue_, r.task) /\ caller'[c].pc = "pushed"
    <3>1. Len(queue_') = Len(queue_) + 1 BY <1>0, <2>2
    <3>2. Coming \subseteq Coming' \cup {c} BY <1>2 DEF PushOutcome, Coming
    <3>3. Cardinality(Coming) <= Cardinality(Coming') + 1 BY <1>d, <3>2, OneMore
    <3>4. Popped' = Popped BY <1>2 DEF Popped
    <3>5. Sleeps' => Sleeps BY <1>2, <2>2 DEF PushOutcome
    <3> QED BY <1>0, <1>c, <1>d, <1>e, <3>1, <3>3, <3>4, <3>5 DEF RoomIsNoticed
  <2> QED BY <1>2, <2>1, <2>2 DEF PushOutcome
<1>3. ASSUME NEW c \in Callers, NEW t \in Tasks, AddTask(c, t) PROVE RoomIsNoticed'
  <2> DEFINE r == [caller[c] EXCEPT !.task = t]
  <2>1. worker' = worker /\ r \in CallerRecords /\ caller[c].pc = "idle"
    BY <1>0, <1>3 DEF AddTask, CallerRecords
  <2>2. CASE PushOutcome(c, r)
    <3> HIDE DEF r, Counts
    <3> QED BY <1>2, <2>1, <2>2
  <2>3. CASE /\ \A d \in Callers : d # c => caller'[d] = caller[d]
             /\ caller'[c].pc = "unlocked" /\ queue_' = queue_
    <3>1. (Sleeps' => Sleeps) /\ Coming \subseteq Coming' BY <2>1, <2>3 DEF Coming
    <3>2. Popped \subseteq Popped' BY <2>1 DEF Popped
    <3> QED BY <1>1, <2>3, <3>1, <3>2
  <2> QED BY <1>3, <2>2, <2>3, AddOutcomes
<1>4. ASSUME NEW c \in Callers, NEW w \in Threads, StartThread(c, w) PROVE RoomIsNoticed'
  <2>1. /\ \A d \in Callers : d # c => caller'[d] = caller[d]
        /\ caller'[c].pc = "started"
        /\ \A x \in Threads : x # w => worker'[x] = worker[x]
        /\ worker[w].pc = "none" /\ queue_' = queue_
    BY <1>0, <1>4 DEF StartThread, CallerRecords, poolVars
  <2>2. (Sleeps' => Sleeps) /\ Coming \subseteq Coming' BY <2>1 DEF Coming
  <2>3. Popped \subseteq Popped' BY <2>1 DEF Popped
  <2> QED BY <1>1, <2>1, <2>2, <2>3
<1>5. ASSUME NEW c \in Callers, AddThread(c) \/ Recheck(c) PROVE RoomIsNoticed'
  <2>1. worker' = worker BY <1>5 DEF AddThread, Recheck
  <2>2. PICK r \in CallerRecords : PushOutcome(c, r)
    <3>1. [caller[c] EXCEPT !.thread = 0] \in CallerRecords /\ caller[c] \in CallerRecords
      BY <1>0 DEF CallerRecords
    <3> QED BY <1>5, <3>1, AddOutcomes
  <2> QED BY <1>2, <2>1, <2>2
<1>6. ASSUME NEW c \in Callers, NotifyEmpty(c) PROVE RoomIsNoticed'
  <2>1. /\ \A d \in Callers : d # c => caller'[d] = caller[d]
        /\ caller[c].pc = "pushed" /\ caller'[c].pc = "idle" /\ queue_' = queue_
    BY <1>0, <1>6 DEF NotifyEmpty, CallerRecords, poolVars
  <2>2. \A w \in Threads : worker[w].pc = "popped" => worker'[w].pc = "popped"
    BY <1>0, <1>6 DEF NotifyEmpty, AllLooking
  <2>3. (Sleeps' => Sleeps) /\ Coming \subseteq Coming' BY <2>1 DEF Coming
  <2>4. Popped \subseteq Popped' BY <2>2 DEF Popped
  <2> QED BY <1>1, <2>1, <2>3, <2>4
<1>7. ASSUME NEW w \in Threads, Look(w) PROVE RoomIsNoticed'
  <2>1. /\ \A x \in Threads : x # w => worker'[x] = worker[x]
        /\ worker[w].pc = "looking" /\ caller' = caller
    BY <1>0, <1>7 DEF Look
  <2>2. Popped \subseteq Popped' /\ Coming' = Coming BY <2>1 DEF Popped, Coming
  <2>3. CASE queue_' = queue_ BY <1>1, <2>1, <2>2, <2>3
  <2>4. CASE queue_' # queue_
    <3>1. queue_' = Tail(queue_) /\ queue_ # <<>> /\ worker'[w].pc = "popped"
      BY <1>0, <1>7, <2>4 DEF Look
    <3>2. Len(queue_') = Len(queue_) - 1 BY <1>0, <3>1
    <3>3. w \in Popped' /\ w \notin Popped BY <2>1, <3>1 DEF Popped
    <3>4. Cardinality(Popped) + 1 <= Cardinality(Popped') BY <1>d, <2>2, <3>3, OneNew
    <3> QED BY <1>0, <1>c, <1>d, <1>e, <2>1, <2>2, <3>2, <3>4 DEF RoomIsNoticed
  <2> QED BY <2>3, <2>4
<1>8. ASSUME NEW w \in Threads, NotifyFull(w) PROVE RoomIsNoticed'
  <2>1. /\ \A x \in Threads : x # w => worker'[x] = worker[x]
        /\ queue_' = queue_
    BY <1>0, <1>8 DEF NotifyFull, poolVars
  <2>2. CASE ~Sleeps
    <3>1. ~Sleeps' BY <1>8, <2>2 DEF NotifyFull
    <3> QED BY <3>1 DEF RoomIsNoticed
  <2>3. CASE Sleeps
    <3>1. PICK c \in Callers : /\ caller[c].pc = "waiting"
                              /\ caller' = [caller EXCEPT ![c].pc = "woken"]
      BY <1>8, <2>3 DEF NotifyFull
    <3>2. c \in Coming' /\ c \notin Coming /\ Coming \subseteq Coming'
      BY <1>0, <3>1 DEF Coming, CallerRecords
    <3>3. Cardinality(Coming) + 1 <= Cardinality(Coming') BY <1>d, <3>2, OneNew
    <3>4. Popped \subseteq Popped' \cup {w} BY <2>1 DEF Popped
    <3>5. Cardinality(Popped) <= Cardinality(Popped') + 1 BY <1>d, <3>4, OneMore
    <3> QED BY <1>0, <1>c, <1>d, <1>e, <2>1, <2>3, <3>3, <3>5 DEF RoomIsNoticed
  <2> QED BY <2>2, <2>3
<1>9. ASSUME NEW w \in Threads, Run(w) PROVE RoomIsNoticed'
  <2>1. /\ \A x \in Threads : x # w => worker'[x] = worker[x]
        /\ worker[w].pc = "running" /\ caller' = caller /\ queue_' = queue_
    BY <1>0, <1>9 DEF Run, poolVars
  <2>2. Popped \subseteq Popped' /\ Coming' = Coming BY <2>1 DEF Popped, Coming
  <2> QED BY <1>1, <2>1, <2>2
<1>10. CASE StopAll \/ StopStep \/ JoinStep \/ WakeUp
  <2>1. queue_' = queue_
    BY <1>10 DEF StopAll, StopStep, StopNotifyFull, StopNotifyEmpty, JoinStep, JoinAll, JoinNotify,
                 JoinThreads, WakeUp, poolVars
  <2>2. \A c \in Callers :
          \/ caller'[c] = caller[c]
          \/ caller[c].pc = "waiting" /\ caller'[c].pc = "woken"
    <3>1. CASE WakeUp BY <1>0, <3>1 DEF WakeUp, Spurious, CallerRecords
    <3>2. CASE StopNotifyFull BY <1>0, <3>2 DEF StopNotifyFull, CallerRecords
    <3>3. CASE StopAll \/ StopNotifyEmpty \/ JoinStep
      BY <3>3 DEF StopAll, StopNotifyEmpty, JoinStep, JoinAll, JoinNotify, JoinThreads
    <3> QED BY <1>10, <3>1, <3>2, <3>3 DEF StopStep
  <2>3. \A w \in Threads : worker[w].pc = "popped" => worker'[w].pc = "popped"
    <3>1. CASE WakeUp BY <1>0, <3>1 DEF WakeUp, Spurious
    <3>2. CASE StopAll \/ StopStep
      BY <1>0, <3>2 DEF StopAll, StopStep, StopNotifyFull, StopNotifyEmpty, AllLooking
    <3>3. CASE JoinStep BY <1>0, <3>3 DEF JoinStep, JoinAll, JoinNotify, JoinThreads, AllLooking
    <3> QED BY <1>10, <3>1, <3>2, <3>3
  <2>4. (Sleeps' => Sleeps) /\ Coming \subseteq Coming' BY <2>2 DEF Coming
  <2>5. Popped \subseteq Popped' BY <2>3 DEF Popped
  <2> QED BY <1>1, <2>1, <2>4, <2>5
<1>11. CASE Terminated \/ UNCHANGED vars
  BY <1>11 DEF Terminated, vars, poolVars, RoomIsNoticed, Popped, Coming
<1> QED
  BY <1>3, <1>4, <1>5, <1>6, <1>7, <1>8, <1>9, <1>10, <1>11 DEF Next, CallerStep, ThreadStep

\* One notify_one per freed place is enough for the callers of AddTask: no free
\* place goes unnoticed while one of them sleeps.
THEOREM RoomNoticed == Spec => []RoomIsNoticed
<1>1. Init => RoomIsNoticed BY DEF Init, RoomIsNoticed
<1>2. Init => TypeOK /\ LocalsOK BY InitIInv DEF IInv
<1>3. TypeOK /\ LocalsOK /\ [Next]_vars => TypeOK' /\ LocalsOK' BY TypeStep, LocalsStep
<1>4. TypeOK /\ TypeOK' /\ LocalsOK /\ RoomIsNoticed /\ [Next]_vars => RoomIsNoticed'
  BY RoomCount
<1> QED BY <1>1, <1>2, <1>3, <1>4, PTL DEF Spec

Busy == \E w \in Threads : worker[w].pc \in {"looking", "popped", "running"}
Telling == \E c \in Callers : caller[c].pc = "pushed"

LEMMA WorkStep ==
  ASSUME EarlyJoin = FALSE, IInv, WorkIsNoticed, [Next]_vars
  PROVE  WorkIsNoticed'
<1>0. /\ caller \in [Callers -> CallerRecords]
      /\ worker \in [Threads -> [pc : WorkerPcs, task : Tasks \cup {NoTask}]]
      /\ threads_ \subseteq Threads /\ queue_ \in Seq(Tasks)
  BY DEF IInv, TypeOK, CallerRecords, CallerPcs, WorkerPcs
<1>a. WorkIsNoticed <=> (queue_ # <<>> /\ ~stopped_ => Busy \/ Telling)
  BY DEF WorkIsNoticed, Busy, Telling
<1>b. WorkIsNoticed' <=> (queue_' # <<>> /\ ~stopped_' => Busy' \/ Telling')
  BY DEF WorkIsNoticed, Busy, Telling
\* A pool with a task has a thread that has not left.
<1>c. queue_ # <<>> /\ ~stopped_ =>
        \E w \in Threads : worker[w].pc \in {"looking", "waiting", "popped", "running"}
  <2>1. ASSUME queue_ # <<>>, ~stopped_
        PROVE \E w \in Threads : worker[w].pc \in {"looking", "waiting", "popped", "running"}
    <3>1. PICK w \in threads_ : TRUE BY <2>1 DEF IInv, ThreadsInv, HasThread
    <3>2. worker[w].pc # "none" /\ worker[w].pc # "returned"
      BY <1>0, <2>1, <3>1 DEF IInv, ThreadsInv, ThreadsOK, LeaveInv, ExitOK
    <3> QED BY <1>0, <3>1, <3>2 DEF WorkerPcs
  <2> QED BY <2>1
<1>1. ASSUME NEW c \in Callers, NEW r, PushOutcome(c, r), worker' = worker, stopped_' = stopped_,
             caller[c].pc # "pushed"
      PROVE  WorkIsNoticed'
  <2>1. Busy' <=> Busy BY <1>1 DEF Busy
  <2>2. Telling => Telling' BY <1>1 DEF PushOutcome, Telling
  <2>3. CASE caller'[c].pc = "pushed" BY <1>b, <2>3 DEF Telling
  <2>4. CASE queue_' = queue_ BY <1>1, <1>a, <1>b, <2>1, <2>2, <2>4
  <2> QED BY <1>1, <2>3, <2>4 DEF PushOutcome
<1>2. ASSUME NEW c \in Callers, NEW t \in Tasks, AddTask(c, t) PROVE WorkIsNoticed'
  <2>1. worker' = worker /\ stopped_' = stopped_ /\ caller[c].pc = "idle" BY <1>2 DEF AddTask
  <2>2. CASE PushOutcome(c, [caller[c] EXCEPT !.task = t]) BY <1>1, <2>1, <2>2
  <2>3. CASE (\A d \in Callers : d # c => caller'[d] = caller[d]) /\ queue_' = queue_
    BY <1>a, <1>b, <2>1, <2>3 DEF Busy, Telling
  <2> QED BY <1>2, <2>2, <2>3, AddOutcomes DEF IInv
<1>3. ASSUME NEW c \in Callers, NEW w \in Threads, StartThread(c, w) PROVE WorkIsNoticed'
  <2>1. worker'[w].pc = "looking" BY <1>0, <1>3 DEF StartThread
  <2> QED BY <1>b, <2>1 DEF Busy
<1>4. ASSUME NEW c \in Callers, AddThread(c) PROVE WorkIsNoticed'
  BY <1>1, <1>4, AddOutcomes DEF AddThread, IInv
<1>5. ASSUME NEW c \in Callers, Recheck(c) PROVE WorkIsNoticed'
  BY <1>1, <1>5, AddOutcomes DEF Recheck, IInv
\* notify_all leaves no thread asleep.
<1>6. ASSUME worker' = AllLooking, queue_' = queue_, stopped_' = stopped_ PROVE WorkIsNoticed'
  <2>1. ASSUME queue_ # <<>>, ~stopped_ PROVE Busy'
    <3>1. PICK w \in Threads : worker[w].pc \in {"looking", "waiting", "popped", "running"}
      BY <1>c, <2>1
    <3>2. worker'[w].pc \in {"looking", "popped", "running"} BY <1>0, <1>6, <3>1 DEF AllLooking
    <3> QED BY <3>2 DEF Busy
  <2> QED BY <1>6, <1>b, <2>1
<1>7. ASSUME NEW w \in Threads, Look(w) PROVE WorkIsNoticed'
  <2>1. CASE stopped_ BY <1>7, <1>b, <2>1 DEF Look
  <2>2. CASE queue_ = <<>> BY <1>7, <1>b, <2>2 DEF Look
  <2>3. CASE ~stopped_ /\ queue_ # <<>>
    <3>1. worker'[w].pc = "popped" BY <1>0, <1>7, <2>3 DEF Look
    <3> QED BY <1>b, <3>1 DEF Busy
  <2> QED BY <2>1, <2>2, <2>3
<1>8. ASSUME NEW w \in Threads, NotifyFull(w) \/ Run(w) PROVE WorkIsNoticed'
  <2>1. worker'[w].pc \in {"running", "looking"} BY <1>0, <1>8 DEF NotifyFull, Run
  <2> QED BY <1>b, <2>1 DEF Busy
<1>9. CASE StopAll BY <1>9, <1>b DEF StopAll
<1>10. CASE StopNotifyFull
  <2>1. worker' = worker /\ queue_' = queue_ /\ stopped_' = stopped_
    BY <1>10 DEF StopNotifyFull, poolVars
  <2>2. Telling => Telling' BY <1>0, <1>10 DEF StopNotifyFull, Telling
  <2> QED BY <1>a, <1>b, <2>1, <2>2 DEF Busy
<1>11. CASE JoinAll \/ JoinThreads
  BY <1>11, <1>a, <1>b DEF JoinAll, JoinThreads, Busy, Telling, poolVars
<1>12. CASE WakeUp
  <2>1. queue_' = queue_ /\ stopped_' = stopped_ BY <1>12 DEF WakeUp, poolVars
  <2>2. (Telling => Telling') /\ (Busy => Busy')
    BY <1>0, <1>12 DEF WakeUp, Spurious, Telling, Busy
  <2> QED BY <1>a, <1>b, <2>1, <2>2
<1>13. CASE Terminated \/ UNCHANGED vars
  BY <1>13, <1>a, <1>b DEF Terminated, vars, poolVars, Busy, Telling
<1> QED
  <2>1. \A c \in Callers : NotifyEmpty(c) => WorkIsNoticed'
    BY <1>6 DEF NotifyEmpty, poolVars
  <2>2. StopNotifyEmpty \/ JoinNotify => WorkIsNoticed'
    BY <1>6 DEF StopNotifyEmpty, JoinNotify, poolVars
  <2> QED
    BY <2>1, <2>2, <1>2, <1>3, <1>4, <1>5, <1>7, <1>8, <1>9, <1>10, <1>11, <1>12, <1>13
    DEF Next, CallerStep, ThreadStep, StopStep, JoinStep

\* No notification is missed: a queued task of a pool that was not stopped has a
\* thread awake or a notify_all on its way.
THEOREM WorkNoticed == ASSUME EarlyJoin = FALSE PROVE Spec => []WorkIsNoticed
<1>1. Init => WorkIsNoticed BY DEF Init, WorkIsNoticed
<1>2. Init => IInv BY InitIInv
<1>3. IInv /\ [Next]_vars => IInv' BY NextIInv
<1>4. IInv /\ WorkIsNoticed /\ [Next]_vars => WorkIsNoticed' BY WorkStep
<1> QED BY <1>1, <1>2, <1>3, <1>4, PTL DEF Spec

-----------------------------------------------------------------------------
\* Where the tasks are

Held == {caller[c].task : c \in {d \in Callers : caller[d].task # NoTask}}
Running == {worker[w].task : w \in {x \in Threads : worker[x].task # NoTask}}

\* A task is in one place only.
UniqueInv ==
  /\ \A c \in Callers : caller[c].task # NoTask =>
       /\ caller[c].task \notin todo
       /\ \A d \in Callers : caller[d].task = caller[c].task => d = c
       /\ \A i \in 1 .. Len(queue_) : queue_[i] # caller[c].task
  /\ \A w \in Threads : worker[w].task # NoTask =>
       /\ worker[w].task \notin todo
       /\ \A c \in Callers : caller[c].task # worker[w].task
       /\ \A x \in Threads : worker[x].task = worker[w].task => x = w
       /\ \A i \in 1 .. Len(queue_) : queue_[i] # worker[w].task
  /\ \A i \in 1 .. Len(queue_) :
       /\ queue_[i] \notin todo
       /\ \A j \in 1 .. Len(queue_) : queue_[i] = queue_[j] => i = j

\* What a step does to the tasks

CallersKeep == \A d \in Callers : caller'[d].task = caller[d].task
WorkersKeep == \A x \in Threads : worker'[x].task = worker[x].task

Nothing == CallersKeep /\ WorkersKeep /\ UNCHANGED <<todo, queue_, done>>

\* A caller has a task in its hands: its argument, or its local.
From(c, t) ==
  \/ caller[c].task = NoTask /\ t \in todo /\ todo' = todo \ {t}
  \/ caller[c].task = t /\ todo' = todo

Goes(c, t) ==
  /\ From(c, t)
  /\ \A d \in Callers : d # c => caller'[d].task = caller[d].task
  /\ WorkersKeep
  /\ UNCHANGED <<done, stopped_, joiner>>

Keep(c, t) == Goes(c, t) /\ caller'[c].task = t /\ queue_' = queue_
Push(c, t) ==
  /\ Goes(c, t) /\ caller'[c].task = NoTask
  /\ Len(queue_) < max_queue_size_ /\ queue_' = Append(queue_, t)
Drop(c, t) ==
  /\ Goes(c, t) /\ caller'[c].task = NoTask
  /\ stopped_ /\ Len(queue_) >= max_queue_size_ /\ queue_' = queue_

Begin(w) ==
  /\ ~stopped_ /\ queue_ # <<>>
  /\ worker[w].task = NoTask /\ worker'[w].task = Head(queue_)
  /\ queue_' = Tail(queue_)
  /\ \A x \in Threads : x # w => worker'[x].task = worker[x].task
  /\ CallersKeep
  /\ UNCHANGED <<todo, done, stopped_, joiner>>

End(w) ==
  /\ worker[w].task # NoTask /\ worker'[w].task = NoTask
  /\ done' = done \cup {worker[w].task}
  /\ \A x \in Threads : x # w => worker'[x].task = worker[x].task
  /\ CallersKeep
  /\ UNCHANGED <<todo, queue_, stopped_, joiner>>

Move ==
  \/ Nothing
  \/ \E c \in Callers : \E t \in Tasks : Keep(c, t) \/ Push(c, t) \/ Drop(c, t)
  \/ \E w \in Threads : Begin(w) \/ End(w)

LEMMA TaskTypes ==
  ASSUME TypeOK
  PROVE  /\ caller \in [Callers -> CallerRecords]
         /\ worker \in [Threads -> [pc : WorkerPcs, task : Tasks \cup {NoTask}]]
         /\ queue_ \in Seq(Tasks) /\ Len(queue_) \in Nat
         /\ todo \subseteq Tasks /\ NoTask \notin Tasks
  BY ConstantsAssumption DEF TypeOK, CallerRecords, CallerPcs, WorkerPcs

\* The common end of AddTask.
LEMMA PushMoves ==
  ASSUME TypeOK, NEW c \in Callers, NEW r \in CallerRecords, r.task \in Tasks,
         PushOutcome(c, r), From(c, r.task), UNCHANGED <<worker, done, stopped_, joiner>>
  PROVE  Move
<1>1. Goes(c, r.task)
  BY DEF Goes, PushOutcome, WorkersKeep
<1>2. Keep(c, r.task) \/ Push(c, r.task) \/ Drop(c, r.task)
  BY <1>1 DEF PushOutcome, Keep, Push, Drop
<1> QED
  BY <1>2 DEF Move

LEMMA StepMoves ==
  ASSUME TypeOK, LocalsOK, [Next]_vars
  PROVE  Move
<1> USE DEF poolVars
<1>1. ASSUME NEW c \in Callers, NEW t \in Tasks, AddTask(c, t) PROVE Move
  <2> DEFINE r == [caller[c] EXCEPT !.task = t]
  <2>1. r \in CallerRecords /\ r.task = t
    BY TaskTypes DEF CallerRecords
  <2>2. /\ UNCHANGED <<worker, done, stopped_, joiner>>
        /\ caller[c].task = NoTask /\ t \in todo /\ todo' = todo \ {t}
    BY <1>1 DEF AddTask, LocalsOK
  <2>3. CASE PushOutcome(c, r)
    <3> HIDE DEF r
    <3> QED
      BY <2>1, <2>2, <2>3, PushMoves DEF From
  <2>4. CASE /\ \A d \in Callers : d # c => caller'[d] = caller[d]
             /\ caller'[c].task = t /\ queue_' = queue_
    <3>1. Keep(c, t)
      BY <2>2, <2>4 DEF Keep, Goes, From, WorkersKeep
    <3> QED
      BY <3>1 DEF Move
  <2> QED
    BY <1>1, <2>3, <2>4, AddOutcomes
<1>2. ASSUME NEW c \in Callers, AddThread(c) PROVE Move
  <2> DEFINE r == [caller[c] EXCEPT !.thread = 0]
  <2>1. r \in CallerRecords /\ r.task = caller[c].task
    BY TaskTypes DEF CallerRecords
  <2>2. UNCHANGED <<worker, done, stopped_, joiner, todo>> /\ caller[c].task \in Tasks
    BY <1>2, TaskTypes DEF AddThread, LocalsOK, CallerRecords
  <2>3. PushOutcome(c, r)
    BY <1>2, AddOutcomes
  <2> HIDE DEF r
  <2> QED
    BY <2>1, <2>2, <2>3, PushMoves DEF From
<1>3. ASSUME NEW c \in Callers, Recheck(c) PROVE Move
  <2>1. UNCHANGED <<worker, done, stopped_, joiner, todo>> /\ caller[c].task \in Tasks
    BY <1>3, TaskTypes DEF Recheck, LocalsOK, CallerRecords
  <2> QED
    BY <1>3, <2>1, AddOutcomes, PushMoves, TaskTypes DEF From
<1>4. ASSUME NEW c \in Callers, NEW w \in Threads, StartThread(c, w) PROVE Move
  BY <1>4, TaskTypes DEF StartThread, CallerRecords, Move, Nothing, CallersKeep, WorkersKeep
<1>5. ASSUME NEW c \in Callers, NotifyEmpty(c) PROVE Move
  BY <1>5, TaskTypes
  DEF NotifyEmpty, AllLooking, CallerRecords, Move, Nothing, CallersKeep, WorkersKeep
<1>6. ASSUME NEW w \in Threads, Look(w) PROVE Move
  <2>1. /\ worker[w].task = NoTask
        /\ \A x \in Threads : x # w => worker'[x] = worker[x]
        /\ CallersKeep /\ UNCHANGED <<todo, done, stopped_, joiner>>
    BY <1>6, TaskTypes DEF Look, LocalsOK, CallersKeep
  <2>2. CASE stopped_ \/ queue_ = <<>>
    <3>1. queue_' = queue_ /\ worker'[w].task = worker[w].task
      BY <1>6, <2>2, TaskTypes DEF Look
    <3> QED
      BY <2>1, <3>1 DEF Move, Nothing, WorkersKeep
  <2>3. CASE ~stopped_ /\ queue_ # <<>>
    <3>1. queue_' = Tail(queue_) /\ worker'[w].task = Head(queue_)
      BY <1>6, <2>3, TaskTypes DEF Look
    <3> QED
      BY <2>1, <2>3, <3>1 DEF Move, Begin
  <2> QED
    BY <2>2, <2>3
<1>7. ASSUME NEW w \in Threads, NotifyFull(w) PROVE Move
  <2>1. WorkersKeep
    BY <1>7, TaskTypes DEF NotifyFull, WorkersKeep
  <2>2. CallersKeep
    BY <1>7, TaskTypes DEF NotifyFull, CallersKeep, CallerRecords
  <2> QED
    BY <1>7, <2>1, <2>2 DEF NotifyFull, Move, Nothing
<1>8. ASSUME NEW w \in Threads, Run(w) PROVE Move
  <2>1. worker[w].task # NoTask
    BY <1>8 DEF Run, LocalsOK
  <2>2. /\ worker'[w].task = NoTask
        /\ \A x \in Threads : x # w => worker'[x].task = worker[x].task
    BY <1>8, TaskTypes DEF Run
  <2>3. End(w)
    BY <1>8, <2>1, <2>2 DEF Run, End, CallersKeep
  <2> QED
    BY <2>3 DEF Move
<1>9. CASE StopAll \/ StopStep \/ JoinStep \/ WakeUp
  <2>1. UNCHANGED <<todo, done, queue_>>
    BY <1>9 DEF StopAll, StopStep, StopNotifyFull, StopNotifyEmpty, JoinStep, JoinAll, JoinNotify,
                JoinThreads, WakeUp
  <2>2. CallersKeep
    BY <1>9, TaskTypes
    DEF StopAll, StopStep, StopNotifyFull, StopNotifyEmpty, JoinStep, JoinAll, JoinNotify,
        JoinThreads, WakeUp, Spurious, CallerRecords, CallersKeep
  <2>3. WorkersKeep
    BY <1>9, TaskTypes
    DEF StopAll, StopStep, StopNotifyFull, StopNotifyEmpty, JoinStep, JoinAll, JoinNotify,
        JoinThreads, WakeUp, Spurious, AllLooking, WorkersKeep
  <2> QED
    BY <2>1, <2>2, <2>3 DEF Move, Nothing
<1>10. CASE Terminated \/ UNCHANGED vars
  BY <1>10 DEF Terminated, vars, Move, Nothing, CallersKeep, WorkersKeep
<1> QED
  BY <1>1, <1>2, <1>3, <1>4, <1>5, <1>6, <1>7, <1>8, <1>9, <1>10
  DEF Next, CallerStep, ThreadStep

-----------------------------------------------------------------------------
\* No task is in two places

LEMMA UniqueInit == Init => UniqueInv
  BY DEF Init, UniqueInv

LEMMA UniqueMove ==
  ASSUME TypeOK, UniqueInv, Move
  PROVE  UniqueInv'
<1>0. queue_ \in Seq(Tasks) /\ Len(queue_) \in Nat /\ NoTask \notin Tasks /\ todo \subseteq Tasks
  BY TaskTypes
<1>1. CASE Nothing
  BY <1>1 DEF Nothing, CallersKeep, WorkersKeep, UniqueInv
\* The task is in no other place, before and after.
<1>a. ASSUME NEW c \in Callers, NEW t \in Tasks, Goes(c, t)
      PROVE  /\ t \notin todo' /\ todo' \subseteq todo
             /\ \A d \in Callers : d # c => caller[d].task # t
             /\ \A w \in Threads : worker[w].task # t
             /\ \A i \in 1 .. Len(queue_) : queue_[i] # t
  <2>1. CASE caller[c].task = NoTask /\ t \in todo /\ todo' = todo \ {t}
    BY <1>0, <2>1 DEF UniqueInv
  <2>2. CASE caller[c].task = t /\ todo' = todo
    BY <1>0, <2>2 DEF UniqueInv
  <2> QED
    BY <1>a, <2>1, <2>2 DEF Goes, From
<1>2. ASSUME NEW c \in Callers, NEW t \in Tasks, Keep(c, t) PROVE UniqueInv'
  BY <1>a, <1>2 DEF Keep, Goes, WorkersKeep, UniqueInv
<1>3. ASSUME NEW c \in Callers, NEW t \in Tasks, Push(c, t) PROVE UniqueInv'
  <2>1. /\ Len(queue_') = Len(queue_) + 1 /\ queue_'[Len(queue_) + 1] = t
        /\ \A i \in 1 .. Len(queue_) : queue_'[i] = queue_[i]
    BY <1>0, <1>3 DEF Push
  <2>2. \A i \in 1 .. Len(queue_') : i \in 1 .. Len(queue_) \/ i = Len(queue_) + 1
    BY <1>0, <2>1
  <2>3. Goes(c, t) /\ caller'[c].task = NoTask
    BY <1>3 DEF Push
  <2>4. \A d \in Callers : caller'[d].task # NoTask => d # c /\ caller'[d].task = caller[d].task
    BY <2>3 DEF Goes
  <2>5. \A d \in Callers : caller'[d].task # NoTask =>
          /\ caller'[d].task \notin todo'
          /\ \A e \in Callers : caller'[e].task = caller'[d].task => e = d
          /\ \A i \in 1 .. Len(queue_') : queue_'[i] # caller'[d].task
    BY <1>a, <2>1, <2>2, <2>3, <2>4 DEF UniqueInv
  <2>6. \A w \in Threads : worker'[w].task # NoTask =>
          /\ worker'[w].task \notin todo'
          /\ \A d \in Callers : caller'[d].task # worker'[w].task
          /\ \A x \in Threads : worker'[x].task = worker'[w].task => x = w
          /\ \A i \in 1 .. Len(queue_') : queue_'[i] # worker'[w].task
    BY <1>a, <2>1, <2>2, <2>3, <2>4 DEF UniqueInv, Goes, WorkersKeep
  <2>7. \A i \in 1 .. Len(queue_') :
          /\ queue_'[i] \notin todo'
          /\ \A j \in 1 .. Len(queue_') : queue_'[i] = queue_'[j] => i = j
    BY <1>a, <2>1, <2>2, <2>3 DEF UniqueInv
  <2> QED
    BY <2>5, <2>6, <2>7 DEF UniqueInv
<1>4. ASSUME NEW c \in Callers, NEW t \in Tasks, Drop(c, t) PROVE UniqueInv'
  BY <1>a, <1>4 DEF Drop, Goes, WorkersKeep, UniqueInv
<1>5. ASSUME NEW w \in Threads, Begin(w) PROVE UniqueInv'
  <2>1. /\ Len(queue_) >= 1 /\ Len(queue_') = Len(queue_) - 1 /\ worker'[w].task = queue_[1]
        /\ \A i \in 1 .. Len(queue_') : i + 1 \in 2 .. Len(queue_) /\ queue_'[i] = queue_[i + 1]
        /\ \A i \in 2 .. Len(queue_) : i \in 1 .. Len(queue_) /\ i # 1
        /\ 1 \in 1 .. Len(queue_)
    BY <1>0, <1>5 DEF Begin
  <2>2. /\ \A x \in Threads : x # w => worker'[x].task = worker[x].task
        /\ \A d \in Callers : caller'[d].task = caller[d].task
        /\ todo' = todo
    BY <1>5 DEF Begin, CallersKeep
  <2>3. \A d \in Callers : caller'[d].task # NoTask =>
          /\ caller'[d].task \notin todo'
          /\ \A e \in Callers : caller'[e].task = caller'[d].task => e = d
          /\ \A i \in 1 .. Len(queue_') : queue_'[i] # caller'[d].task
    BY <2>1, <2>2 DEF UniqueInv
  <2>4. ASSUME NEW x \in Threads, worker'[x].task # NoTask
        PROVE  /\ worker'[x].task \notin todo'
               /\ \A d \in Callers : caller'[d].task # worker'[x].task
               /\ \A y \in Threads : worker'[y].task = worker'[x].task => y = x
               /\ \A i \in 1 .. Len(queue_') : queue_'[i] # worker'[x].task
    <3>1. queue_[1] \in Tasks
      BY <1>0, <2>1
    <3>2. CASE x = w
      BY <1>0, <2>1, <2>2, <3>1, <3>2 DEF UniqueInv
    <3>3. CASE x # w
      BY <1>0, <2>1, <2>2, <2>4, <3>1, <3>3 DEF UniqueInv
    <3> QED
      BY <3>2, <3>3
  <2>5. \A i \in 1 .. Len(queue_') :
          /\ queue_'[i] \notin todo'
          /\ \A j \in 1 .. Len(queue_') : queue_'[i] = queue_'[j] => i = j
    BY <2>1, <2>2 DEF UniqueInv
  <2> QED
    BY <2>3, <2>4, <2>5 DEF UniqueInv
<1>6. ASSUME NEW w \in Threads, End(w) PROVE UniqueInv'
  BY <1>6 DEF End, CallersKeep, UniqueInv
<1> QED
  BY <1>1, <1>2, <1>3, <1>4, <1>5, <1>6 DEF Move

-----------------------------------------------------------------------------
\* The steps of TaskPool

LEMMA Members ==
  /\ \A t : t \in Held <=> t # NoTask /\ \E c \in Callers : caller[c].task = t
  /\ \A t : t \in Running <=> t # NoTask /\ \E w \in Threads : worker[w].task = t
  BY DEF Held, Running

LEMMA MembersNext ==
  /\ \A t : t \in Held' <=> t # NoTask /\ \E c \in Callers : caller'[c].task = t
  /\ \A t : t \in Running' <=> t # NoTask /\ \E w \in Threads : worker'[w].task = t
  BY DEF Held, Running

\* The tasks that run do not outnumber the threads that have one.
LEMMA RunningCount ==
  ASSUME TypeOK, NEW w \in Threads, worker[w].task = NoTask
  PROVE  Cardinality(Running) < MaxThreads
<1> DEFINE S == {x \in Threads : worker[x].task # NoTask}
           f == [x \in S |-> worker[x].task]
<1>1. IsFiniteSet(Threads) /\ Cardinality(Threads) = MaxThreads /\ MaxThreads \in Nat
  BY ConstantFacts
<1>2. /\ IsFiniteSet(S) /\ Cardinality(S) \in Nat
      /\ Cardinality(S) + 1 <= Cardinality(Threads)
  <2>1. S \subseteq Threads /\ w \notin S
    OBVIOUS
  <2> HIDE DEF S
  <2> QED
    BY <1>1, <2>1, OneNew, FS_Subset
<1>3. f \in Surjection(S, Running)
  BY DEF Surjection, Running
<1>4. IsFiniteSet(Running) /\ Cardinality(Running) <= Cardinality(S)
  <2> HIDE DEF f, S
  <2> QED
    BY <1>2, <1>3, FS_Surjection
<1>5. Cardinality(Running) \in Nat
  BY <1>4, FS_CardinalityType
<1> QED
  BY <1>1, <1>2, <1>4, <1>5

\* While a caller has a task in its hands JoinAll has not returned.
LEMMA NotReturned ==
  ASSUME TypeOK, LocalsOK, JoinOK, NEW c \in Callers, NEW t \in Tasks, From(c, t)
  PROVE  joiner # "returned"
<1>1. ~CallersDone
  BY ConstantsAssumption DEF From, CallersDone, LocalsOK
<1> QED
  BY <1>1 DEF JoinOK

\* The variables of TaskPool, as ImplementsPool instantiates it.
poolView == <<todo \cup Held, queue_, Running, done, stopped_, joiner = "returned">>

LEMMA PoolInit == Init => Pool!Init
<1> SUFFICES ASSUME Init PROVE Pool!Init
  OBVIOUS
<1>1. Held = {} /\ Running = {}
  BY Members DEF Init
<1> QED
  BY <1>1 DEF Init, Pool!Init, Held, Running

\* A task that a caller puts into the queue was handed over; one that it drops,
\* refused.
LEMMA CallerMaps ==
  ASSUME TypeOK, LocalsOK, JoinOK, UniqueInv, NEW c \in Callers, NEW t \in Tasks,
         Keep(c, t) \/ Push(c, t) \/ Drop(c, t)
  PROVE  Pool!Next \/ UNCHANGED poolView
<1>1. Goes(c, t) /\ From(c, t)
  BY DEF Keep, Push, Drop, Goes
<1>2. t # NoTask /\ NoTask \notin todo
  BY TaskTypes
<1>3. t \in todo \cup Held
  BY <1>1, <1>2, Members DEF From
<1>4. Running' = Running
  BY <1>1, Members, MembersNext DEF Goes, WorkersKeep
<1>5. \A d \in Callers : d # c => caller[d].task # t
  BY <1>1, <1>2 DEF From, UniqueInv
<1>6. CASE Keep(c, t)
  <2>1. (todo \cup Held)' = todo \cup Held
    BY <1>1, <1>2, <1>6, Members, MembersNext DEF Goes, From, Keep
  <2> QED
    BY <1>1, <1>4, <1>6, <2>1 DEF poolView, Keep, Goes
<1>7. CASE caller'[c].task = NoTask
  <2>1. (todo \cup Held)' = (todo \cup Held) \ {t}
    <3>1. \A u : u \in Held' <=> u # NoTask /\ \E d \in Callers : d # c /\ caller[d].task = u
      BY <1>1, <1>7, MembersNext DEF Goes
    <3>2. \A u : u \in Held' <=> u \in Held /\ u # caller[c].task
      BY <3>1, Members DEF UniqueInv
    <3>3. CASE caller[c].task = NoTask /\ t \in todo /\ todo' = todo \ {t}
      BY <1>5, <3>2, <3>3, Members
    <3>4. CASE caller[c].task = t /\ todo' = todo
      BY <1>2, <3>2, <3>4 DEF UniqueInv
    <3> QED
      BY <1>1, <3>3, <3>4 DEF From
  <2>2. joiner # "returned" /\ UNCHANGED <<done, stopped_, joiner>>
    BY <1>1, NotReturned DEF Goes
  <2>3. CASE Push(c, t)
    <3>1. Pool!Hand(t)
      BY <1>3, <1>4, <2>1, <2>2, <2>3 DEF Push, Pool!Hand, Held, Running
    <3> QED
      BY <3>1 DEF Pool!Next
  <2>4. CASE Drop(c, t)
    <3>1. Len(queue_) = max_queue_size_
      BY <2>4, TaskTypes, ConstantFacts DEF Drop, TypeOK
    <3>2. Pool!Refuse(t)
      BY <1>3, <1>4, <2>1, <2>2, <2>4, <3>1 DEF Drop, Pool!Refuse, Held, Running
    <3> QED
      BY <3>2 DEF Pool!Next
  <2>5. CASE Keep(c, t)
    BY <1>6, <2>5
  <2> QED
    BY <2>3, <2>4, <2>5
<1> QED
  BY <1>6, <1>7 DEF Push, Drop

\* Threads start and finish tasks.
LEMMA ThreadMaps ==
  ASSUME TypeOK, UniqueInv, NEW w \in Threads, Begin(w) \/ End(w)
  PROVE  Pool!Next
<1>1. Held' = Held /\ todo' = todo
  <2>1. CallersKeep /\ todo' = todo
    BY DEF Begin, End
  <2>2. \A t : t \in Held' <=> t \in Held
    BY <2>1, Members, MembersNext DEF CallersKeep
  <2> QED
    BY <2>1, <2>2
<1>2. CASE Begin(w)
  <2>1. Head(queue_) # NoTask
    BY <1>2, TaskTypes DEF Begin
  <2>2. Running' = Running \cup {Head(queue_)}
    BY <1>2, <2>1, Members, MembersNext DEF Begin
  <2>3. Cardinality(Running) < MaxThreads
    BY <1>2, RunningCount DEF Begin
  <2>4. Pool!Start
    <3>1. Pool!Cardinality(Running) = Cardinality(Running)
      BY Zenon DEF Pool!Cardinality, Cardinality
    <3> QED
      BY <1>1, <1>2, <2>2, <2>3, <3>1 DEF Begin, Pool!Start, Held, Running
  <2> QED
    BY <2>4 DEF Pool!Next
<1>3. CASE End(w)
  <2>0. PICK t \in Tasks : t = worker[w].task
    BY <1>3, TaskTypes DEF End
  <2>1. t \in Running
    BY <1>3, <2>0, Members DEF End
  <2>2. Running' = Running \ {t}
    BY <1>3, <2>0, Members, MembersNext DEF End, UniqueInv
  <2>3. Pool!Finish(t)
    BY <1>1, <1>3, <2>0, <2>1, <2>2 DEF End, Pool!Finish, Held, Running
  <2> QED
    BY <2>3 DEF Pool!Next
<1> QED
  BY <1>2, <1>3

\* When JoinThreads is over nothing waits or runs.
LEMMA ReturnMaps ==
  ASSUME IInv, JoinThreads
  PROVE  /\ todo \cup Held = {} /\ Running = {}
         /\ queue_ = <<>> \/ stopped_
<1>1. CallersDone /\ \A w \in threads_ : worker[w].pc = "returned"
  BY DEF IInv, LeaveInv, JoinOK, JoinThreads
<1>2. \A c \in Callers : caller[c].task = NoTask /\ caller[c].thread = 0
  BY <1>1 DEF CallersDone, IInv, LocalsOK
<1>3. \A w \in Threads : worker[w].pc \in {"none", "returned"}
  BY <1>1, <1>2, ConstantFacts DEF IInv, ThreadsInv, StartedOK
<1>4. \A w \in Threads : worker[w].task = NoTask
  BY <1>3 DEF IInv, LocalsOK
<1>5. queue_ = <<>> \/ stopped_
  <2>1. SUFFICES ASSUME queue_ # <<>> PROVE stopped_
    OBVIOUS
  <2>2. PICK w \in threads_ : TRUE
    BY <2>1 DEF IInv, ThreadsInv, HasThread
  <2>3. w \in Threads
    BY <2>2 DEF IInv, TypeOK
  <2> QED
    BY <1>1, <2>1, <2>2, <2>3 DEF IInv, LeaveInv, ExitOK
<1> QED
  BY <1>1, <1>2, <1>4, <1>5, Members DEF CallersDone

\* Steps that leave the tasks where they are can only stop the pool or return.
LEMMA OtherMaps ==
  ASSUME IInv, [Next]_vars, Nothing
  PROVE  Pool!Next \/ UNCHANGED poolView
<1>1. Held' = Held /\ Running' = Running /\ UNCHANGED <<todo, queue_, done>>
  <2>1. CallersKeep /\ WorkersKeep /\ UNCHANGED <<todo, queue_, done>>
    BY DEF Nothing
  <2>2. \A t : t \in Held' <=> t \in Held
    BY <2>1, Members, MembersNext DEF CallersKeep
  <2>3. \A t : t \in Running' <=> t \in Running
    BY <2>1, Members, MembersNext DEF WorkersKeep
  <2> QED
    BY <2>1, <2>2, <2>3
<1>2. \/ UNCHANGED <<stopped_, joiner>>
      \/ StopAll \/ JoinStep
  BY DEF Next, CallerStep, ThreadStep, StopStep, AddTask, StartThread, AddThread, Recheck,
         NotifyEmpty, Look, NotifyFull, Run, StopNotifyFull, StopNotifyEmpty, WakeUp, Terminated,
         vars, poolVars
<1>3. CASE UNCHANGED <<stopped_, joiner>>
  BY <1>1, <1>3 DEF poolView
<1>4. CASE StopAll
  <2>1. Pool!Stop
    BY <1>1, <1>4 DEF StopAll, Pool!Stop, Held, Running
  <2> QED
    BY <2>1 DEF Pool!Next
<1>5. CASE JoinAll \/ JoinNotify
  <2>1. stopped_' = stopped_ /\ joiner # "returned" /\ joiner' # "returned"
    BY <1>5 DEF JoinAll, JoinNotify, poolVars
  <2> QED
    BY <1>1, <2>1 DEF poolView
<1>6. CASE JoinThreads
  <2>1. Pool!Return
    BY <1>1, <1>6, ReturnMaps DEF JoinThreads, poolVars, Pool!Return, Held, Running
  <2> QED
    BY <2>1 DEF Pool!Next
<1> QED
  BY <1>2, <1>3, <1>4, <1>5, <1>6 DEF JoinStep

\* SimpleThreadPool keeps the promises of TaskPool that a step can break: a task
\* is queued within the limit or refused by a stopped pool, tasks start in the
\* order of the queue, run once and not more at a time than there are threads,
\* and JoinAll returns when all of them are done.
THEOREM ImplementsPoolSteps ==
  ASSUME EarlyJoin = FALSE
  PROVE  Spec => Pool!Init /\ [][Pool!Next]_(Pool!vars)
<1>1. Init => Pool!Init /\ IInv /\ UniqueInv
  BY PoolInit, InitIInv, UniqueInit
<1>2. IInv /\ [Next]_vars => IInv'
  BY NextIInv
<1>3. IInv /\ UniqueInv /\ [Next]_vars => UniqueInv'
  BY StepMoves, UniqueMove DEF IInv
<1>4. ASSUME IInv, UniqueInv, [Next]_vars
      PROVE  [Pool!Next]_(Pool!vars)
  <2>1. UNCHANGED poolView => UNCHANGED Pool!vars
    BY DEF poolView, Pool!vars, Held, Running
  <2>2. Pool!Next \/ UNCHANGED poolView
    BY <1>4, StepMoves, CallerMaps, ThreadMaps, OtherMaps DEF IInv, LeaveInv, Move
  <2> QED
    BY <2>1, <2>2
<1> QED
  BY <1>1, <1>2, <1>3, <1>4, PTL DEF Spec
=============================================================================
