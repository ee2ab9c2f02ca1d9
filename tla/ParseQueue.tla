------------------------------ MODULE ParseQueue ------------------------------
(***************************************************************************)
(* ParseQueue (util/parsequeue): tasks are spread over worker processes; the *)
(* tasks of a worker that dies go to a recovery thread, which sends them to  *)
(* other workers and retries the one suspected of the crash by itself.       *)
(*                                                                           *)
(* Threads: the caller ("main": SendTask for every task, then Join), one     *)
(* reader per worker process, and the recovery thread.  A step is what a     *)
(* thread does under one lock.  One language.  The model ends when Join      *)
(* returns, since the queue may be destroyed then, and when the code has     *)
(* undefined behaviour, of which the program dies.  The worker processes are *)
(* external: they answer in order, and may die at any time.                  *)
(***************************************************************************)
EXTENDS Naturals, Sequences, FiniteSets, SequencesExt

CONSTANTS
  NumTasks,                  \* the caller sends tasks 1 .. NumTasks
  MaxPerLanguage,            \* max_workers_per_language_
  MaxWorkers,                \* bound: processes ever started for the queue
  MaxCrashes                 \* bound: worker processes that die

ASSUME ConstantsAssumption ==
  /\ {NumTasks, MaxPerLanguage, MaxWorkers} \subseteq Nat \ {0}
  /\ MaxCrashes \in Nat

Tasks == 1 .. NumTasks
Workers == 1 .. MaxWorkers
Senders == {"main", "recovery"}

NoSend == [task |-> 0, worker |-> 0]

VARIABLES
  workers_,                  \* entry: has a LanguageWorkerSet, queues: its queues
  sent_tasks,                \* per queue
  num_pending_sends,
  sending,                   \* the task and queue a sender is between two locks with
  process,                   \* "none", "running", "closed" (stdin is), "dead"
  stdin, stdout,             \* tasks and answers under way in buffers and pipes
  crashes,
  reader,                    \* "none", "reading", "leaving", "starting", "done", "undefined"
  pending_tasks,             \* local to the reader's callback
  released,                  \* queue_to_be_deleted # nullptr in that callback
  recovery_tasks_,
  recovery_running_,
  recovery_threads_,
  recovery,                  \* the recovery thread: its pc, number and locals
  joining_,
  main,                      \* the caller: its pc, next task and locals
  answered                   \* how often file_parsed_cb_ got the result of a task

queueVars == <<workers_, sent_tasks, num_pending_sends, sending>>
processVars == <<process, stdin, stdout, crashes>>
readerVars == <<reader, pending_tasks, released>>
recoveryVars == <<recovery_tasks_, recovery_running_, recovery_threads_, recovery>>
vars == <<queueVars, processVars, readerVars, recoveryVars, joining_, main, answered>>

TaskLists == [failed : Seq(Workers), suspected : Seq(Tasks), remaining : Seq(Tasks)]
NoTasks == [failed |-> <<>>, suspected |-> <<>>, remaining |-> <<>>]

-----------------------------------------------------------------------------
Init ==
  /\ workers_ = [entry |-> FALSE, queues |-> <<>>]
  /\ sent_tasks = [w \in Workers |-> <<>>]
  /\ num_pending_sends = [w \in Workers |-> 0]
  /\ sending = [s \in Senders |-> NoSend]
  /\ process = [w \in Workers |-> "none"]
  /\ stdin = [w \in Workers |-> <<>>] /\ stdout = [w \in Workers |-> <<>>]
  /\ crashes = 0
  /\ reader = [w \in Workers |-> "none"]
  /\ pending_tasks = [w \in Workers |-> <<>>]
  /\ released = [w \in Workers |-> FALSE]
  /\ recovery_tasks_ = NoTasks
  /\ recovery_running_ = FALSE
  /\ recovery_threads_ = {}
  /\ recovery = [pc |-> "none", id |-> 0, task |-> NoTasks]
  /\ joining_ = FALSE
  /\ main = [pc |-> "send", next |-> 1, held |-> {}, nonempty |-> FALSE, threads |-> {}]
  /\ answered = [t \in Tasks |-> 0]

-----------------------------------------------------------------------------
\* SendTask

\* GetQueue: the first idle queue, else a new one if there may be more, else
\* the shortest; among the shortest the last queue goes first.  Queues in
\* workers_ are valid: a queue leaves workers_ under the lock that invalidates it.
QueueFor(w) ==
  LET queues == workers_.queues
      Size(i) == Len(sent_tasks[queues[i]])
      idle == {i \in DOMAIN queues : Size(i) = 0}
      shortest == {i \in DOMAIN queues : \A j \in DOMAIN queues : Size(i) <= Size(j)}
  IN \/ idle # {} /\ w = queues[Min(idle)]
     \/ /\ idle = {} /\ Len(queues) < MaxPerLanguage
        /\ process[w] = "none" /\ \A x \in 1 .. w - 1 : process[x] # "none"
     \/ /\ idle = {} /\ Len(queues) >= MaxPerLanguage
        /\ w = queues[IF Len(queues) \in shortest THEN Len(queues) ELSE Min(shortest)]

BeginSend(s, t) ==
  /\ sending[s] = NoSend
  /\ \E w \in Workers :
       /\ QueueFor(w)
       /\ sent_tasks' = [sent_tasks EXCEPT ![w] = Append(@, t)]
       /\ num_pending_sends' = [num_pending_sends EXCEPT ![w] = @ + 1]
       /\ sending' = [sending EXCEPT ![s] = [task |-> t, worker |-> w]]
       /\ IF process[w] = "none"
          THEN /\ workers_' = [entry |-> TRUE, queues |-> Append(workers_.queues, w)]
               /\ process' = [process EXCEPT ![w] = "running"]
               /\ reader' = [reader EXCEPT ![w] = "reading"]
          ELSE UNCHANGED <<workers_, process, reader>>
  /\ UNCHANGED <<stdin, stdout, crashes, pending_tasks, released, joining_, answered>>

\* SendParseTask, whose result is ignored, and the end of the pending send.  The
\* count is lowered after the task is written, under another lock, and then its
\* waiters are notified; in between the sender touches nothing, and the others
\* could only be kept waiting longer, so one step stands for the three.
EndSend(s) ==
  LET w == sending[s].worker IN
  /\ sending[s] # NoSend
  /\ stdin' = IF process[w] = "dead" THEN stdin
              ELSE [stdin EXCEPT ![w] = Append(@, sending[s].task)]
  /\ num_pending_sends' = [num_pending_sends EXCEPT ![w] = @ - 1]
  /\ sending' = [sending EXCEPT ![s] = NoSend]
  /\ UNCHANGED <<workers_, sent_tasks, process, stdout, crashes, readerVars,
                 recoveryVars, joining_, main, answered>>

-----------------------------------------------------------------------------
\* The worker processes

\* What is written stays in a buffer of the sender until it is flushed or full, or
\* the input is closed: a worker answers at some time, surely only after that.
Alive(w) == process[w] \in {"running", "closed"}

Answer(w) ==
  /\ Alive(w) /\ stdin[w] # <<>>
  /\ stdin' = [stdin EXCEPT ![w] = Tail(@)]
  /\ stdout' = [stdout EXCEPT ![w] = Append(@, Head(stdin[w]))]
  /\ UNCHANGED <<queueVars, process, crashes, readerVars, recoveryVars,
                 joining_, main, answered>>

Exit(w) ==
  /\ process[w] = "closed" /\ stdin[w] = <<>>
  /\ process' = [process EXCEPT ![w] = "dead"]
  /\ UNCHANGED <<queueVars, stdin, stdout, crashes, readerVars, recoveryVars,
                 joining_, main, answered>>

Crash(w) ==
  /\ Alive(w) /\ crashes < MaxCrashes
  /\ process' = [process EXCEPT ![w] = "dead"]
  /\ stdin' = [stdin EXCEPT ![w] = <<>>]
  /\ crashes' = crashes + 1
  /\ UNCHANGED <<queueVars, stdout, readerVars, recoveryVars, joining_, main, answered>>

-----------------------------------------------------------------------------
\* The reader thread of a worker: the two callbacks given to Start by GetQueue

\* One answer: the queue forgets its oldest task, the caller gets the result.
Receive(w) ==
  /\ reader[w] = "reading" /\ stdout[w] # <<>>
  /\ stdout' = [stdout EXCEPT ![w] = Tail(@)]
  /\ sent_tasks' = [sent_tasks EXCEPT ![w] = Tail(@)]
  /\ answered' = [answered EXCEPT ![Head(stdout[w])] = @ + 1]
  /\ UNCHANGED <<workers_, num_pending_sends, sending, process, stdin, crashes,
                 readerVars, recoveryVars, joining_, main>>

\* Mutant of Detach: the tasks are copied, not swapped out.
DetachCopy(w) ==
  LET registered == w \in ToSet(workers_.queues) IN
  /\ reader[w] = "reading" /\ stdout[w] = <<>> /\ process[w] = "dead"
  /\ pending_tasks' = [pending_tasks EXCEPT ![w] = sent_tasks[w]]
  /\ workers_' = [workers_ EXCEPT !.queues = RemoveFirst(@, w)]
  /\ released' = [released EXCEPT ![w] = registered]
  /\ reader' = [reader EXCEPT ![w] =
       IF sent_tasks[w] # <<>> \/ registered THEN "leaving" ELSE "done"]
  /\ UNCHANGED <<sent_tasks, num_pending_sends, sending, processVars, recoveryVars,
                 joining_, main, answered>>

\* End of file: GetWorkerItemsForRecovery
Detach(w) ==
  LET registered == w \in ToSet(workers_.queues) IN
  /\ reader[w] = "reading" /\ stdout[w] = <<>> /\ process[w] = "dead"
  /\ pending_tasks' = [pending_tasks EXCEPT ![w] = sent_tasks[w]]
  /\ sent_tasks' = [sent_tasks EXCEPT ![w] = <<>>]
  /\ workers_' = [workers_ EXCEPT !.queues = RemoveFirst(@, w)]
  /\ released' = [released EXCEPT ![w] = registered]
  /\ reader' = [reader EXCEPT ![w] =
       IF sent_tasks[w] # <<>> \/ registered THEN "leaving" ELSE "done"]
  /\ UNCHANGED <<num_pending_sends, sending, processVars, recoveryVars,
                 joining_, main, answered>>

\* Mutant of Leave: the last task is popped for the suspected first one.
LeavePopBack(w) ==
  /\ reader[w] = "leaving" /\ pending_tasks[w] # <<>>
  /\ recovery_tasks_' =
       [failed |-> IF released[w] THEN Append(recovery_tasks_.failed, w)
                                  ELSE recovery_tasks_.failed,
        suspected |-> Append(recovery_tasks_.suspected, Head(pending_tasks[w])),
        remaining |-> recovery_tasks_.remaining \o Front(pending_tasks[w])]
  /\ pending_tasks' = [pending_tasks EXCEPT ![w] = <<>>]
  /\ reader' = [reader EXCEPT ![w] = "starting"]
  /\ UNCHANGED <<queueVars, processVars, released, recovery_running_,
                 recovery_threads_, recovery, joining_, main, answered>>

\* LeaveWorkerItemsForRecovery
Leave(w) ==
  /\ reader[w] = "leaving" /\ pending_tasks[w] # <<>>
  /\ recovery_tasks_' =
       [failed |-> IF released[w] THEN Append(recovery_tasks_.failed, w)
                                  ELSE recovery_tasks_.failed,
        suspected |-> Append(recovery_tasks_.suspected, Head(pending_tasks[w])),
        remaining |-> recovery_tasks_.remaining \o Tail(pending_tasks[w])]
  /\ pending_tasks' = [pending_tasks EXCEPT ![w] = <<>>]
  /\ reader' = [reader EXCEPT ![w] = "starting"]
  /\ UNCHANGED <<queueVars, processVars, released, recovery_running_,
                 recovery_threads_, recovery, joining_, main, answered>>

\* The same with no task: front() and pop() of an empty queue are undefined.  pop()
\* moves the queue's begin past its end, so the loop that empties the queue walks
\* on through memory, holding mutex_, until the program dies of it.
LeaveNothing(w) ==
  /\ reader[w] = "leaving" /\ pending_tasks[w] = <<>>
  /\ reader' = [reader EXCEPT ![w] = "undefined"]
  /\ UNCHANGED <<queueVars, processVars, pending_tasks, released, recoveryVars,
                 joining_, main, answered>>

\* StartErrorRecoveryThreadIfNotRunning
StartRecovery(w) ==
  /\ reader[w] = "starting"
  /\ reader' = [reader EXCEPT ![w] = "done"]
  /\ IF recovery_running_
     THEN UNCHANGED recoveryVars
     ELSE /\ recovery_running_' = TRUE
          /\ recovery' = [recovery EXCEPT !.pc = "wait", !.id = @ + 1]
          /\ recovery_threads_' = recovery_threads_ \cup {recovery.id + 1}
          /\ UNCHANGED recovery_tasks_
  /\ UNCHANGED <<queueVars, processVars, pending_tasks, released, joining_, main, answered>>

-----------------------------------------------------------------------------
\* The recovery thread

RecoveryUnchanged ==
  UNCHANGED <<processVars, readerVars, recovery_running_, recovery_threads_,
              joining_, main>>

TakeTasks ==
  /\ recovery.pc = "wait" /\ recovery_tasks_ # NoTasks
  /\ recovery' = [recovery EXCEPT !.pc = "stop", !.task = recovery_tasks_]
  /\ recovery_tasks_' = NoTasks
  /\ UNCHANGED <<queueVars, answered>> /\ RecoveryUnchanged

\* Mutant of FindNothing: when we are finishing, whatever is there.
FindNothingMore ==
  /\ recovery.pc = "wait" /\ joining_
  /\ recovery' = [recovery EXCEPT !.pc = "exiting"]
  /\ UNCHANGED <<queueVars, recovery_tasks_, answered>> /\ RecoveryUnchanged

\* No task was there, but we are finishing.
FindNothing ==
  /\ recovery.pc = "wait" /\ recovery_tasks_ = NoTasks /\ joining_
  /\ recovery' = [recovery EXCEPT !.pc = "exiting"]
  /\ UNCHANGED <<queueVars, recovery_tasks_, answered>> /\ RecoveryUnchanged

\* recovery_running_ = false, without a lock
EndThread ==
  /\ recovery.pc = "exiting"
  /\ recovery_running_' = FALSE
  /\ recovery' = [recovery EXCEPT !.pc = "none"]
  /\ UNCHANGED <<queueVars, processVars, readerVars, recovery_tasks_,
                 recovery_threads_, joining_, main, answered>>

\* Mutant of StopFailed: without WaitQueueHasNoPendingSends.
StopFailedAtOnce ==
  /\ recovery.pc = "stop"
  /\ IF recovery.task.failed = <<>>
     THEN recovery' = [recovery EXCEPT !.pc = "resend"]
     ELSE /\ reader[Head(recovery.task.failed)] = "done"
          /\ recovery' = [recovery EXCEPT !.task.failed = Tail(@)]
  /\ UNCHANGED <<queueVars, recovery_tasks_, answered>> /\ RecoveryUnchanged

\* WaitQueueHasNoPendingSends and WaitAndStop for a failed queue, then its end
StopFailed ==
  /\ recovery.pc = "stop"
  /\ IF recovery.task.failed = <<>>
     THEN recovery' = [recovery EXCEPT !.pc = "resend"]
     ELSE /\ num_pending_sends[Head(recovery.task.failed)] = 0
          /\ reader[Head(recovery.task.failed)] = "done"
          /\ recovery' = [recovery EXCEPT !.task.failed = Tail(@)]
  /\ UNCHANGED <<queueVars, recovery_tasks_, answered>> /\ RecoveryUnchanged

Resend ==
  /\ recovery.pc = "resend" /\ recovery.task.remaining # <<>>
  /\ BeginSend("recovery", Head(recovery.task.remaining))
  /\ recovery' = [recovery EXCEPT !.task.remaining = Tail(@)]
  /\ UNCHANGED <<recovery_tasks_, recovery_running_, recovery_threads_, main>>

EndResend ==
  /\ recovery.pc = "resend" /\ recovery.task.remaining = <<>>
  /\ sending["recovery"] = NoSend
  /\ recovery' = [recovery EXCEPT !.pc = "retry"]
  /\ UNCHANGED <<queueVars, recovery_tasks_, answered>> /\ RecoveryUnchanged

\* A suspected task in a process of its own: its result, or a failure if that
\* process dies too.
RetrySuspected ==
  /\ recovery.pc = "retry"
  /\ IF recovery.task.suspected = <<>>
     THEN recovery' = [recovery EXCEPT !.pc = "wait"] /\ UNCHANGED answered
     ELSE /\ answered' = [answered EXCEPT ![Head(recovery.task.suspected)] = @ + 1]
          /\ recovery' = [recovery EXCEPT !.task.suspected = Tail(@)]
  /\ UNCHANGED <<queueVars, recovery_tasks_>> /\ RecoveryUnchanged

-----------------------------------------------------------------------------
\* The caller

Send ==
  /\ main.pc = "send" /\ main.next <= NumTasks
  /\ BeginSend("main", main.next)
  /\ main' = [main EXCEPT !.next = @ + 1]
  /\ UNCHANGED recoveryVars

MainUnchanged ==
  UNCHANGED <<sent_tasks, num_pending_sends, sending, stdin, stdout, crashes,
              readerVars, recovery_tasks_, recovery_running_, recovery, answered>>

\* Mutant of Join: joining_ is not set.
JoinUnannounced ==
  /\ main.pc = "send" /\ main.next > NumTasks /\ sending["main"] = NoSend
  /\ main' = [main EXCEPT !.pc = "swap"]
  /\ UNCHANGED <<workers_, process, recovery_threads_, joining_>> /\ MainUnchanged

Join ==
  /\ main.pc = "send" /\ main.next > NumTasks /\ sending["main"] = NoSend
  /\ joining_' = TRUE
  /\ main' = [main EXCEPT !.pc = "swap"]
  /\ UNCHANGED <<workers_, process, recovery_threads_>> /\ MainUnchanged

\* JoinWorkers
SwapWorkers ==
  /\ main.pc = "swap"
  /\ main' = [main EXCEPT !.pc = "close", !.held = ToSet(workers_.queues),
                          !.nonempty = workers_.entry]
  /\ workers_' = [entry |-> FALSE, queues |-> <<>>]
  /\ UNCHANGED <<process, recovery_threads_, joining_>> /\ MainUnchanged

CloseWorkers ==
  /\ main.pc = "close"
  /\ \A w \in main.held : num_pending_sends[w] = 0
  /\ process' = [w \in Workers |->
       IF w \in main.held /\ process[w] = "running" THEN "closed" ELSE process[w]]
  /\ main' = [main EXCEPT !.pc = "stop"]
  /\ UNCHANGED <<workers_, recovery_threads_, joining_>> /\ MainUnchanged

StopWorkers ==
  /\ main.pc = "stop"
  /\ \A w \in main.held : reader[w] = "done"
  /\ main' = [main EXCEPT !.pc = IF main.nonempty THEN "swap" ELSE "threads",
                          !.held = {}]
  /\ UNCHANGED <<workers_, process, recovery_threads_, joining_>> /\ MainUnchanged

\* JoinRecovery
SwapThreads ==
  /\ main.pc = "threads"
  /\ main' = [main EXCEPT !.pc = IF recovery_threads_ = {} THEN "returned" ELSE "joining",
                          !.threads = recovery_threads_]
  /\ recovery_threads_' = {}
  /\ UNCHANGED <<workers_, process, joining_>> /\ MainUnchanged

\* Mutant of JoinThreads: the loop of Join is left after one round.
JoinThreadsOnce ==
  /\ main.pc = "joining"
  /\ recovery.pc = "none" \/ recovery.id \notin main.threads
  /\ main' = [main EXCEPT !.pc = "returned", !.threads = {}]
  /\ UNCHANGED <<workers_, process, recovery_threads_, joining_>> /\ MainUnchanged

JoinThreads ==
  /\ main.pc = "joining"
  /\ recovery.pc = "none" \/ recovery.id \notin main.threads
  /\ main' = [main EXCEPT !.pc = "swap", !.threads = {}]
  /\ UNCHANGED <<workers_, process, recovery_threads_, joining_>> /\ MainUnchanged

-----------------------------------------------------------------------------
Returned == main.pc = "returned"
Undefined == \E w \in Workers : reader[w] = "undefined"
Over == Returned \/ Undefined

Main ==
  \/ Send \/ EndSend("main") \/ Join \/ SwapWorkers \/ CloseWorkers \/ StopWorkers
  \/ SwapThreads \/ JoinThreads

Reader(w) == Receive(w) \/ Detach(w) \/ Leave(w) \/ LeaveNothing(w) \/ StartRecovery(w)

Recovery ==
  \/ TakeTasks \/ FindNothing \/ EndThread \/ StopFailed \/ Resend
  \/ EndSend("recovery") \/ EndResend \/ RetrySuspected

Process(w) == Answer(w) \/ Exit(w)

Next ==
  \/ ~Over /\ \/ Main
              \/ Recovery
              \/ \E w \in Workers : Reader(w) \/ Process(w) \/ Crash(w)
  \/ Over /\ UNCHANGED vars

\* Every thread is scheduled; a worker whose input is closed answers what it was
\* sent, and ends.  Nothing has to crash.
Fairness ==
  /\ WF_vars(~Over /\ Main)
  /\ WF_vars(~Over /\ Recovery)
  /\ \A w \in Workers : /\ WF_vars(~Over /\ Reader(w))
                        /\ WF_vars(~Over /\ process[w] = "closed" /\ Process(w))

Spec == Init /\ [][Next]_vars /\ Fairness

-----------------------------------------------------------------------------
\* Properties

\* The types of the queue's state, of the processes, and of the threads' locals.
QueueTypes ==
  /\ workers_ \in [entry : BOOLEAN, queues : Seq(Workers)]
  /\ sent_tasks \in [Workers -> Seq(Tasks)]
  /\ num_pending_sends \in [Workers -> 0 .. 2]
  /\ sending \in [Senders -> [task : Tasks, worker : Workers] \cup {NoSend}]

ProcessTypes ==
  /\ process \in [Workers -> {"none", "running", "closed", "dead"}]
  /\ stdin \in [Workers -> Seq(Tasks)] /\ stdout \in [Workers -> Seq(Tasks)]
  /\ crashes \in 0 .. MaxCrashes

ReaderTypes ==
  /\ reader \in [Workers -> {"none", "reading", "leaving", "starting", "done", "undefined"}]
  /\ pending_tasks \in [Workers -> Seq(Tasks)]
  /\ released \in [Workers -> BOOLEAN]

RecoveryTypes ==
  /\ recovery_tasks_ \in TaskLists
  /\ recovery_running_ \in BOOLEAN
  /\ recovery_threads_ \subseteq 1 .. recovery.id
  /\ recovery \in [pc : {"none", "wait", "exiting", "stop", "resend", "retry"},
                   id : Nat, task : TaskLists]

MainTypes ==
  /\ joining_ \in BOOLEAN
  /\ main \in [pc : {"send", "swap", "close", "stop", "threads", "joining", "returned"},
               next : 1 .. NumTasks + 1, held : SUBSET Workers, nonempty : BOOLEAN,
               threads : SUBSET (1 .. recovery.id)]
  /\ answered \in [Tasks -> Nat]

TypeOK == QueueTypes /\ ProcessTypes /\ ReaderTypes /\ RecoveryTypes /\ MainTypes

\* The lists that hold the tasks still to be answered: the queues, the readers
\* on their way to the recovery, and the recovery.
QueueLists == {sent_tasks[w] : w \in Workers}
HandOverLists == {pending_tasks[w] : w \in Workers}
LeftLists == {recovery_tasks_.suspected, recovery_tasks_.remaining}
RecoveryLists == {recovery.task.suspected, recovery.task.remaining}

In(t, lists) == \E list \in lists : t \in ToSet(list)

Lengths(lists) == SumFunction([w \in Workers |-> Len(lists[w])])
Length(task) == Len(task.suspected) + Len(task.remaining)

\* Every task that was sent is one entry of one list or one answer: no crash and
\* no hand-over between the caller, the readers and the recovery thread drops
\* or doubles an entry.
AnswersAddUp ==
  Lengths(sent_tasks) + Lengths(pending_tasks)
    + Length(recovery_tasks_) + Length(recovery.task)
    + SumFunction(answered) = main.next - 1

\* Two senders have pushed to one queue and not both written to its worker.
Racing == \E w \in Workers : \A s \in Senders : sending[s].worker = w

Held(t) == In(t, QueueLists \cup HandOverLists \cup LeftLists \cup RecoveryLists)

\* As long as the caller and the recovery thread never write to one worker at
\* the same time, the lists hold the very tasks that are not answered, and no
\* task is answered twice, whatever dies when.
ListsAreUnanswered ==
  []~Racing => [](\A t \in 1 .. main.next - 1 :
                    answered[t] <= 1 /\ (Held(t) <=> answered[t] = 0))

\* When Join returns no queue and no recovery thread has a task left: what is
\* not answered then was caught between a reader and the recovery.
JoinWaits ==
  Returned =>
    /\ \A t \in Tasks : ~In(t, QueueLists \cup RecoveryLists)
    /\ crashes = 0 => \A t \in Tasks : answered[t] = 1

\* A reader has left tasks to a recovery thread that has decided to end, but still
\* counts as running.
Late == recovery.pc = "exiting" /\ \E w \in Workers : reader[w] = "starting"

\* "Start the thread after submitting the task, because if we are finishing then
\* the recovery thread should never be idle (elsewhere it may stop)"
\* (parse_queue.cpp:240-241): as long as no reader is late, what is left when
\* Join returns was left by a reader that is about to start a thread for it.
LeftIsTaken ==
  []~Late => [](Returned /\ recovery_tasks_ # NoTasks
                  => \E w \in Workers : reader[w] = "starting")

\* A failed queue is only deleted (by the recovery thread or by JoinWorkers)
\* when no sender is about to write to it and its reader is through with it.
DeletedUnused ==
  [][\A w \in Workers :
       (\/ w \in main.held \ main'.held
        \/ w \in ToSet(recovery.task.failed) /\ w \notin ToSet(recovery'.task.failed))
       => reader[w] = "done" /\ \A s \in Senders : sending[s].worker # w]_vars

\* Join returns, unless the program has died.
JoinReturns == <>Over

\* What the source says of the queue, and the runs refute.  parse_queue.h: it "is
\* able to retry in case a parser process fails".  So when Join returns,
\* every task was answered.  What a reader holds at that time was not; nor what
\* was left Late; nor, after Racing, a task in whose place another one is held.
AllAnswered == Returned => \A t \in Tasks : answered[t] = 1

\* And a process that fails without a task is no harm to the program: the reader
\* leaves its queue for the recovery, and takes no front() of an empty queue.
FailureIsSurvived == ~Undefined
=============================================================================
