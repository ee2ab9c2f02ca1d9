--------------------------- MODULE ParseQueueProofs ---------------------------
(***************************************************************************)
(* That the parse queue loses nothing.  Inv is about its control: who holds  *)
(* which queue, what is under way in the pipes, and where JoinWorkers and    *)
(* the recovery thread stand; with it the numbers of AnswersAddUp add up.    *)
(* ListsInv is about the tasks themselves: every task is at one place.  It   *)
(* is kept by steps without a race of two senders for one worker, so what    *)
(* follows from it is proved of behaviours without such a race, and of all   *)
(* behaviours before the first crash (QuietInv).  Attended is about what is  *)
(* left for the recovery thread, and who is going to look at it.             *)
(***************************************************************************)
EXTENDS ParseQueue, OperatorLemmas

\* The queues in workers_.
Queued == ToSet(workers_.queues)

\* Workers that were never started, that are dead, or whose reader has left hold
\* nothing; only queues in workers_ or in the hands of Join hold tasks.
WorkerOK(w) ==
  /\ process[w] = "none" <=> reader[w] = "none"
  /\ process[w] = "none" =>
       sent_tasks[w] = <<>> /\ stdin[w] = <<>> /\ stdout[w] = <<>> /\ w \notin main.held
  /\ process[w] = "dead" => stdin[w] = <<>>
  /\ process[w] = "closed" => w \in main.held
  /\ reader[w] \in {"leaving", "starting", "done"} =>
       process[w] = "dead" /\ stdout[w] = <<>> /\ sent_tasks[w] = <<>>
  /\ reader[w] # "leaving" => pending_tasks[w] = <<>>
  /\ sent_tasks[w] # <<>> => w \in Queued \cup main.held

\* A queue in workers_ is there once, has a reader, and is not Join's.
QueueInv ==
  /\ IsInjective(workers_.queues)
  /\ \A w \in Queued :
       process[w] \in {"running", "dead"} /\ reader[w] = "reading" /\ w \notin main.held
  /\ \A w \in Workers : WorkerOK(w)

Sends(s, w) == IF sending[s].worker = w THEN 1 ELSE 0

\* A queue holds what is under way in its worker's pipes and what the senders
\* have yet to write.
PipeOK(w) ==
  /\ num_pending_sends[w] = Sends("main", w) + Sends("recovery", w)
  /\ reader[w] = "reading" => Len(sent_tasks[w]) >= Len(stdout[w]) + Len(stdin[w])
  /\ reader[w] = "reading" /\ Alive(w) =>
       Len(sent_tasks[w]) = Len(stdout[w]) + Len(stdin[w]) + num_pending_sends[w]

PipeInv ==
  /\ \A s \in Senders : sending[s] # NoSend => process[sending[s].worker] # "none"
  /\ \A w \in Workers : PipeOK(w)

\* Where JoinWorkers stands: the queues it holds are out of reach of the
\* senders, and new ones come from a recovery thread it has yet to join.
MainInv ==
  /\ main.pc \notin {"close", "stop"} => main.held = {}
  /\ main.pc # "joining" => main.threads = {}
  /\ main.pc # "send" => sending["main"] = NoSend /\ main.next = NumTasks + 1
  /\ main.pc = "stop" =>
       \A w \in main.held : num_pending_sends[w] = 0 /\ process[w] \in {"closed", "dead"}
  /\ main.pc \in {"close", "stop", "threads"} /\ recovery_threads_ = {} => Queued = {}
  /\ main.pc = "returned" => Queued = {} /\ recovery.pc = "none"

\* What the recovery thread holds at its steps; as long as it runs somebody is
\* going to join it.
RecoveryInv ==
  /\ recovery.pc = "none" <=> ~recovery_running_
  /\ recovery.pc # "none" => recovery.id \in recovery_threads_ \cup main.threads
  /\ recovery.pc \in {"none", "wait", "exiting"} => recovery.task = NoTasks
  /\ recovery.pc \in {"resend", "retry"} => recovery.task.failed = <<>>
  /\ recovery.pc = "retry" => recovery.task.remaining = <<>>
  /\ recovery.pc # "resend" => sending["recovery"] = NoSend

\* The inductive invariant of every behaviour.
Inv == TypeOK /\ QueueInv /\ PipeInv /\ MainInv /\ RecoveryInv /\ AnswersAddUp

-----------------------------------------------------------------------------
\* Where a task is: not sent, in one of the lists, or answered.
Places == {"unsent", "answered", "left suspected", "left remaining",
           "taken suspected", "taken remaining"}
Slots == Places \X {0} \cup {"queue", "reader"} \X Workers

Contents(place, w) ==
  CASE place = "unsent" -> main.next .. NumTasks
    [] place = "answered" -> {t \in Tasks : answered[t] # 0}
    [] place = "left suspected" -> ToSet(recovery_tasks_.suspected)
    [] place = "left remaining" -> ToSet(recovery_tasks_.remaining)
    [] place = "taken suspected" -> ToSet(recovery.task.suspected)
    [] place = "taken remaining" -> ToSet(recovery.task.remaining)
    [] place = "queue" -> ToSet(sent_tasks[w])
    [] place = "reader" -> ToSet(pending_tasks[w])

TasksAt == [slot \in Slots |-> Contents(slot[1], slot[2])]

Partition(c) ==
  /\ \A a, b \in Slots : a # b => c[a] \cap c[b] = {}
  /\ \A t \in Tasks : \E a \in Slots : t \in c[a]

\* No list has a task twice.
NoRepeats ==
  /\ \A w \in Workers : IsInjective(sent_tasks[w]) /\ IsInjective(pending_tasks[w])
  /\ IsInjective(recovery_tasks_.suspected) /\ IsInjective(recovery_tasks_.remaining)
  /\ IsInjective(recovery.task.suspected) /\ IsInjective(recovery.task.remaining)

OnceInv == Partition(TasksAt) /\ NoRepeats /\ \A t \in Tasks : answered[t] \in {0, 1}

\* Without a race a worker gets its tasks in the order of its queue.
InOrder(w) ==
  reader[w] = "reading" =>
    /\ \A i \in 1 .. Len(stdout[w]) : sent_tasks[w][i] = stdout[w][i]
    /\ Alive(w) =>
         /\ \A i \in 1 .. Len(stdin[w]) : sent_tasks[w][Len(stdout[w]) + i] = stdin[w][i]
         /\ \A s \in Senders : sending[s].worker = w =>
              sent_tasks[w][Len(sent_tasks[w])] = sending[s].task

OrderInv == \A w \in Workers : InOrder(w)

ListsInv == OnceInv /\ OrderInv

\* As long as nothing dies there is no recovery: a process ends after Join has
\* closed its input, when everything is answered.
QuietInv ==
  crashes = 0 =>
    /\ recovery_tasks_ = NoTasks /\ recovery.pc = "none"
    /\ \A w \in Workers :
         /\ reader[w] \in {"none", "reading", "done"}
         /\ process[w] = "closed" \/ (process[w] = "dead" /\ reader[w] = "reading")
              => main.pc = "stop" /\ w \in main.held
         /\ process[w] = "dead" /\ reader[w] = "reading"
              => Len(sent_tasks[w]) = Len(stdout[w])

QuietLists == crashes = 0 => ListsInv

-----------------------------------------------------------------------------
\* The workers and the tasks are finitely many.
LEMMA Finite == IsFiniteSet(Workers) /\ IsFiniteSet(Tasks)
BY FS_Interval, ConstantsAssumption DEF Workers, Tasks

\* A sum over the workers changes with the value of one worker.
LEMMA WorkersSum ==
  ASSUME NEW a \in [Workers -> Nat], NEW b \in [Workers -> Nat], NEW w \in Workers,
         \A x \in Workers \ {w} : b[x] = a[x]
  PROVE  /\ SumFunction(a) \in Nat /\ SumFunction(b) \in Nat
         /\ SumFunction(b) + a[w] = SumFunction(a) + b[w]
BY Finite, SumChange

\* The length of all lists changes with the list of one worker.
LEMMA LengthsChange ==
  ASSUME NEW f \in [Workers -> Seq(Tasks)], NEW g \in [Workers -> Seq(Tasks)],
         NEW w \in Workers, \A x \in Workers \ {w} : g[x] = f[x]
  PROVE  /\ Lengths(f) \in Nat /\ Lengths(g) \in Nat
         /\ Len(f[w]) \in Nat /\ Len(g[w]) \in Nat
         /\ Lengths(g) + Len(f[w]) = Lengths(f) + Len(g[w])
<1> DEFINE a == [x \in Workers |-> Len(f[x])]
           b == [x \in Workers |-> Len(g[x])]
<1>1. a \in [Workers -> Nat] /\ b \in [Workers -> Nat]
  OBVIOUS
<1>2. \A x \in Workers \ {w} : b[x] = a[x]
  OBVIOUS
<1>3. a[w] = Len(f[w]) /\ b[w] = Len(g[w]) /\ a[w] \in Nat /\ b[w] \in Nat
  OBVIOUS
<1>4. Lengths(f) = SumFunction(a) /\ Lengths(g) = SumFunction(b)
  BY Zenon DEF Lengths
<1> HIDE DEF a, b
<1>5. /\ SumFunction(a) \in Nat /\ SumFunction(b) \in Nat
      /\ SumFunction(b) + a[w] = SumFunction(a) + b[w]
  BY <1>1, <1>2, WorkersSum
<1> QED
  BY <1>3, <1>4, <1>5

\* One more answer makes one more answer in all.
LEMMA AnsweredChange ==
  ASSUME NEW f \in [Tasks -> Nat], NEW t \in Tasks
  PROVE  /\ SumFunction(f) \in Nat
         /\ SumFunction([f EXCEPT ![t] = @ + 1]) = SumFunction(f) + 1
<1> DEFINE g == [f EXCEPT ![t] = @ + 1]
<1>1. g \in [Tasks -> Nat] /\ g[t] = f[t] + 1 /\ f[t] \in Nat
  OBVIOUS
<1>2. \A x \in Tasks \ {t} : g[x] = f[x]
  OBVIOUS
<1> HIDE DEF g
<1>3. /\ SumFunction(f) \in Nat /\ SumFunction(g) \in Nat
      /\ SumFunction(g) + f[t] = SumFunction(f) + g[t]
  BY <1>1, <1>2, Finite, SumChange
<1>4. SumFunction(g) = SumFunction(f) + 1
  BY <1>1, <1>3
<1> QED
  BY <1>3, <1>4 DEF g

\* What the type invariant says of single values.
LEMMA Typed ==
  ASSUME TypeOK
  PROVE  /\ \A w \in Workers :
              /\ sent_tasks[w] \in Seq(Tasks) /\ Len(sent_tasks[w]) \in Nat
              /\ pending_tasks[w] \in Seq(Tasks) /\ Len(pending_tasks[w]) \in Nat
              /\ stdin[w] \in Seq(Tasks) /\ Len(stdin[w]) \in Nat
              /\ stdout[w] \in Seq(Tasks) /\ Len(stdout[w]) \in Nat
              /\ num_pending_sends[w] \in 0 .. 2
         /\ workers_.queues \in Seq(Workers) /\ Queued \in SUBSET Workers
         /\ recovery.task \in TaskLists
         /\ recovery_tasks_.failed \in Seq(Workers)
         /\ recovery_tasks_.suspected \in Seq(Tasks) /\ Len(recovery_tasks_.suspected) \in Nat
         /\ recovery_tasks_.remaining \in Seq(Tasks) /\ Len(recovery_tasks_.remaining) \in Nat
         /\ recovery.task.failed \in Seq(Workers)
         /\ recovery.task.suspected \in Seq(Tasks) /\ Len(recovery.task.suspected) \in Nat
         /\ recovery.task.remaining \in Seq(Tasks) /\ Len(recovery.task.remaining) \in Nat
<1>1. \A w \in Workers :
        /\ sent_tasks[w] \in Seq(Tasks) /\ pending_tasks[w] \in Seq(Tasks)
        /\ stdin[w] \in Seq(Tasks) /\ stdout[w] \in Seq(Tasks)
        /\ num_pending_sends[w] \in 0 .. 2
  BY DEF TypeOK, QueueTypes, ProcessTypes, ReaderTypes
<1>2. recovery_tasks_ \in TaskLists /\ recovery.task \in TaskLists
  BY DEF TypeOK, RecoveryTypes
<1>3. \A q \in Seq(Tasks) : Len(q) \in Nat
  OBVIOUS
<1>4. workers_.queues \in Seq(Workers)
  BY DEF TypeOK, QueueTypes
<1>5. Queued \in SUBSET Workers
  BY <1>4, ToSetMembers DEF Queued
<1>6. \A x \in TaskLists : /\ x.failed \in Seq(Workers)
                           /\ x.suspected \in Seq(Tasks) /\ x.remaining \in Seq(Tasks)
  BY DEF TaskLists
<1>7. /\ recovery_tasks_.failed \in Seq(Workers) /\ recovery.task.failed \in Seq(Workers)
      /\ recovery_tasks_.suspected \in Seq(Tasks) /\ recovery.task.suspected \in Seq(Tasks)
      /\ recovery_tasks_.remaining \in Seq(Tasks) /\ recovery.task.remaining \in Seq(Tasks)
  BY <1>2, <1>6
<1> QED
  BY <1>1, <1>2, <1>3, <1>4, <1>5, <1>7

\* The numbers that AnswersAddUp adds are natural numbers.
LEMMA SumsAreNat ==
  ASSUME TypeOK
  PROVE  /\ Lengths(sent_tasks) \in Nat /\ Lengths(pending_tasks) \in Nat
         /\ Length(recovery_tasks_) \in Nat /\ Length(recovery.task) \in Nat
         /\ SumFunction(answered) \in Nat /\ main.next \in Nat
<1>1. 1 \in Workers /\ 1 \in Tasks
  BY ConstantsAssumption DEF Workers, Tasks
<1>2. sent_tasks \in [Workers -> Seq(Tasks)] /\ pending_tasks \in [Workers -> Seq(Tasks)]
  BY DEF TypeOK, QueueTypes, ReaderTypes
<1>3. Lengths(sent_tasks) \in Nat /\ Lengths(pending_tasks) \in Nat
  BY <1>1, <1>2, LengthsChange
<1>4. SumFunction(answered) \in Nat
  BY <1>1, AnsweredChange DEF TypeOK, MainTypes
<1>5. Length(recovery_tasks_) \in Nat /\ Length(recovery.task) \in Nat
  <2>1. /\ Len(recovery_tasks_.suspected) \in Nat /\ Len(recovery_tasks_.remaining) \in Nat
        /\ Len(recovery.task.suspected) \in Nat /\ Len(recovery.task.remaining) \in Nat
    BY Typed
  <2> DEFINE a == Len(recovery_tasks_.suspected)
             b == Len(recovery_tasks_.remaining)
             c == Len(recovery.task.suspected)
             d == Len(recovery.task.remaining)
  <2>2. a + b \in Nat /\ c + d \in Nat
    <3> HIDE DEF a, b, c, d
    <3>1. a \in Nat /\ b \in Nat /\ c \in Nat /\ d \in Nat
      BY <2>1 DEF a, b, c, d
    <3> QED
      BY <3>1
  <2> QED
    BY <2>2 DEF Length
<1>6. main.next \in Nat
  BY ConstantsAssumption DEF TypeOK, MainTypes
<1> QED
  BY <1>3, <1>4, <1>5, <1>6

\* The invariant holds before anything is sent.
LEMMA InitInv == Init => Inv
<1> SUFFICES ASSUME Init PROVE Inv
  OBVIOUS
<1> USE DEF Init
<1>0. NumTasks \in Nat \ {0} /\ MaxCrashes \in Nat /\ MaxWorkers \in Nat
  BY ConstantsAssumption
<1>1. TypeOK
  <2>1. NoTasks \in TaskLists /\ <<>> \in Seq(Workers) /\ <<>> \in Seq(Tasks)
    BY DEF NoTasks, TaskLists
  <2>2. /\ main.next \in 1 .. NumTasks + 1 /\ main.held \in SUBSET Workers
        /\ main.threads \in SUBSET (1 .. recovery.id)
    BY <1>0
  <2>3. main \in [pc : {"send", "swap", "close", "stop", "threads", "joining", "returned"},
                  next : 1 .. NumTasks + 1, held : SUBSET Workers, nonempty : BOOLEAN,
                  threads : SUBSET (1 .. recovery.id)]
    BY <2>2
  <2>4. recovery_tasks_ \in TaskLists /\ recovery.task \in TaskLists
    BY <2>1
  <2>5. recovery \in [pc : {"none", "wait", "exiting", "stop", "resend", "retry"},
                     id : Nat, task : TaskLists]
    BY <2>1
  <2>6. /\ workers_ \in [entry : BOOLEAN, queues : Seq(Workers)]
        /\ sending \in [Senders -> [task : Tasks, worker : Workers] \cup {NoSend}]
        /\ crashes \in 0 .. MaxCrashes
        /\ recovery_threads_ \subseteq 1 .. recovery.id
    BY <1>0, <2>1
  <2>7. /\ sent_tasks \in [Workers -> Seq(Tasks)]
        /\ num_pending_sends \in [Workers -> 0 .. 2]
        /\ process \in [Workers -> {"none", "running", "closed", "dead"}]
        /\ stdin \in [Workers -> Seq(Tasks)] /\ stdout \in [Workers -> Seq(Tasks)]
        /\ reader \in [Workers -> {"none", "reading", "leaving", "starting", "done", "undefined"}]
        /\ pending_tasks \in [Workers -> Seq(Tasks)]
        /\ released \in [Workers -> BOOLEAN]
    BY <2>1
  <2>8. /\ recovery_running_ \in BOOLEAN /\ joining_ \in BOOLEAN
        /\ answered \in [Tasks -> Nat]
    OBVIOUS
  <2> QED
    BY <2>3, <2>4, <2>5, <2>6, <2>7, <2>8
       DEF TypeOK, QueueTypes, ProcessTypes, ReaderTypes, RecoveryTypes, MainTypes
<1>2. Queued = {}
  BY ToSetEmpty DEF Queued
<1>3. QueueInv
  BY <1>2 DEF QueueInv, WorkerOK, IsInjective
<1>4. PipeInv
  BY DEF PipeInv, PipeOK, Sends, NoSend, Workers, Senders, Alive
<1>6. MainInv
  BY <1>2 DEF MainInv
<1>7. RecoveryInv
  BY DEF RecoveryInv, Senders
<1>8. AnswersAddUp
  <2> DEFINE z == [w \in Workers |-> Len(sent_tasks[w])]
             y == [w \in Workers |-> Len(pending_tasks[w])]
  <2>1. /\ z \in [Workers -> Nat] /\ y \in [Workers -> Nat]
        /\ \A w \in Workers : z[w] = 0 /\ y[w] = 0
    OBVIOUS
  <2>2. answered \in [Tasks -> Nat] /\ \A t \in Tasks : answered[t] = 0
    OBVIOUS
  <2>3. Lengths(sent_tasks) = SumFunction(z) /\ Lengths(pending_tasks) = SumFunction(y)
    BY DEF Lengths
  <2>4. Length(recovery_tasks_) = 0 /\ Length(recovery.task) = 0 /\ main.next = 1
    BY DEF Length, NoTasks
  <2> HIDE DEF z, y, Init
  <2>5. SumFunction(z) = 0 /\ SumFunction(y) = 0 /\ SumFunction(answered) = 0
    BY <2>1, <2>2, Finite, SumOfZeros
  <2> QED
    BY <2>3, <2>4, <2>5 DEF AnswersAddUp
<1> QED
  BY <1>1, <1>3, <1>4, <1>6, <1>7, <1>8 DEF Inv

\* GetQueue picks a queue of workers_, or a worker that was never started.
LEMMA QueueForPicks ==
  ASSUME TypeOK, NEW w \in Workers, QueueFor(w)
  PROVE  w \in Queued \/ process[w] = "none"
<1> DEFINE queues == workers_.queues
           n == Len(queues)
           Size(i) == Len(sent_tasks[queues[i]])
           idle == {i \in DOMAIN queues : Size(i) = 0}
           shortest == {i \in DOMAIN queues : \A j \in DOMAIN queues : Size(i) <= Size(j)}
<1>1. /\ queues \in Seq(Workers) /\ n \in Nat /\ DOMAIN queues = 1 .. n
      /\ \A i \in 1 .. n : Size(i) \in Nat
  <2>1. queues \in Seq(Workers) /\ sent_tasks \in [Workers -> Seq(Tasks)]
    BY DEF TypeOK, QueueTypes
  <2>2. n \in Nat /\ DOMAIN queues = 1 .. n /\ \A i \in 1 .. n : queues[i] \in Workers
    BY <2>1
  <2>3. \A x \in Workers : Len(sent_tasks[x]) \in Nat
    BY <2>1
  <2> QED
    BY <2>1, <2>2, <2>3
<1>2. \A i \in 1 .. n : queues[i] \in Queued
  BY <1>1, ToSetMembers DEF Queued
<1>3. CASE idle # {} /\ w = queues[Min(idle)]
  <2>1. idle \in SUBSET Nat
    BY <1>1
  <2> HIDE DEF idle
  <2>2. Min(idle) \in idle
    BY <1>3, <2>1, MinIsElement
  <2> QED
    BY <1>1, <1>2, <1>3, <2>2 DEF idle
<1>4. CASE process[w] = "none"
  BY <1>4
<1>5. CASE /\ n >= MaxPerLanguage
           /\ w = queues[IF n \in shortest THEN n ELSE Min(shortest)]
  <2>1. n > 0 /\ 1 \in 1 .. n
    BY <1>1, <1>5, ConstantsAssumption
  <2> DEFINE sizes == {Size(i) : i \in 1 .. n}
  <2>2. sizes \in SUBSET Nat /\ sizes # {}
    BY <1>1, <2>1
  <2>3. PICK k \in 1 .. n : Size(k) = Min(sizes)
    <3> HIDE DEF sizes
    <3>1. Min(sizes) \in sizes
      BY <2>2, MinIsElement
    <3> QED
      BY <3>1 DEF sizes
  <2>4. \A i \in 1 .. n : Min(sizes) <= Size(i)
    <3>1. \A i \in 1 .. n : Size(i) \in sizes
      OBVIOUS
    <3> HIDE DEF sizes
    <3> QED
      BY <2>2, <3>1, MinIsElement
  <2>5. k \in shortest
    <3> HIDE DEF sizes
    <3> QED
      BY <1>1, <2>3, <2>4
  <2>6. shortest \in SUBSET Nat /\ shortest \in SUBSET (1 .. n)
    BY <1>1
  <2> HIDE DEF shortest
  <2>7. Min(shortest) \in shortest
    BY <2>5, <2>6, MinIsElement
  <2> QED
    BY <1>1, <1>2, <1>5, <2>1, <2>6, <2>7
<1> QED
  BY <1>3, <1>4, <1>5, Zenon DEF QueueFor

-----------------------------------------------------------------------------
\* The steps of the workers and their readers

\* A worker moves a task from one pipe to the other.
LEMMA AnswerInv ==
  ASSUME Inv, NEW w \in Workers, Answer(w)
  PROVE  Inv'
<1> USE DEF Inv, Answer, queueVars, readerVars, recoveryVars
<1>a. /\ Head(stdin[w]) \in Tasks /\ Tail(stdin[w]) \in Seq(Tasks)
      /\ Len(Tail(stdin[w])) = Len(stdin[w]) - 1
      /\ Append(stdout[w], Head(stdin[w])) \in Seq(Tasks)
      /\ Len(Append(stdout[w], Head(stdin[w]))) = Len(stdout[w]) + 1
  BY Typed, TailSet, AppendFacts
<1>b. /\ stdin' \in [Workers -> Seq(Tasks)] /\ stdout' \in [Workers -> Seq(Tasks)]
      /\ stdin'[w] = Tail(stdin[w]) /\ stdout'[w] = Append(stdout[w], Head(stdin[w]))
      /\ \A x \in Workers \ {w} : stdin'[x] = stdin[x] /\ stdout'[x] = stdout[x]
  BY <1>a DEF TypeOK, ProcessTypes
<1>c. Len(stdout'[w]) + Len(stdin'[w]) = Len(stdout[w]) + Len(stdin[w])
  <2>1. Len(stdout[w]) \in Nat /\ Len(stdin[w]) \in Nat
    BY Typed
  <2> QED
    BY <1>a, <1>b, <2>1
<1>d. process[w] \in {"running", "closed"} /\ reader[w] # "none"
  BY DEF QueueInv, WorkerOK, Alive
<1>1. TypeOK'
  BY <1>b DEF TypeOK, QueueTypes, ProcessTypes, ReaderTypes, RecoveryTypes, MainTypes
<1>2. QueueInv'
  <2>1. ASSUME NEW x \in Workers PROVE WorkerOK(x)'
    BY <1>b, <1>d DEF QueueInv, WorkerOK, Queued
  <2> QED
    BY <2>1 DEF QueueInv, Queued
<1>3. PipeInv'
  <2>1. ASSUME NEW x \in Workers PROVE PipeOK(x)'
    BY <1>b, <1>c, <1>d DEF PipeInv, PipeOK, Queued, Sends, Alive
  <2> QED
    BY <2>1 DEF PipeInv
<1>5. MainInv'
  BY DEF MainInv, Queued
<1>6. RecoveryInv'
  BY DEF RecoveryInv
<1>7. AnswersAddUp'
  BY DEF AnswersAddUp, Length
<1> QED
  BY <1>1, <1>2, <1>3, <1>5, <1>6, <1>7

\* A process that ends has nothing left in its input.
LEMMA ExitInv ==
  ASSUME Inv, NEW w \in Workers, Exit(w)
  PROVE  Inv'
<1> USE DEF Inv, Exit, queueVars, readerVars, recoveryVars
<1>a. w \notin Queued
  BY DEF QueueInv
<1>b. /\ process' \in [Workers -> {"none", "running", "closed", "dead"}]
      /\ process'[w] = "dead" /\ \A x \in Workers \ {w} : process'[x] = process[x]
  BY DEF TypeOK, ProcessTypes
<1>1. TypeOK'
  BY <1>b DEF TypeOK, QueueTypes, ProcessTypes, ReaderTypes, RecoveryTypes, MainTypes
<1>2. QueueInv'
  <2>1. ASSUME NEW x \in Workers PROVE WorkerOK(x)'
    BY <1>b DEF QueueInv, WorkerOK, Queued
  <2> QED
    BY <1>a, <1>b, <2>1, Typed DEF QueueInv, Queued
<1>3. PipeInv'
  <2>1. ASSUME NEW x \in Workers PROVE PipeOK(x)'
    BY <1>a, <1>b DEF PipeInv, PipeOK, Queued, Sends, Alive
  <2> QED
    BY <1>b, <2>1 DEF PipeInv, TypeOK, QueueTypes
<1>5. MainInv'
  BY <1>b DEF MainInv, Queued, TypeOK, MainTypes
<1>6. RecoveryInv'
  BY DEF RecoveryInv
<1>7. AnswersAddUp'
  BY DEF AnswersAddUp, Length
<1> QED
  BY <1>1, <1>2, <1>3, <1>5, <1>6, <1>7

\* What a process dies with is lost in the pipe, but its queue still has it.
LEMMA CrashInv ==
  ASSUME Inv, NEW w \in Workers, Crash(w)
  PROVE  Inv'
<1> USE DEF Inv, Crash, queueVars, readerVars, recoveryVars
<1>b. /\ process' \in [Workers -> {"none", "running", "closed", "dead"}]
      /\ stdin' \in [Workers -> Seq(Tasks)]
      /\ process'[w] = "dead" /\ stdin'[w] = <<>>
      /\ \A x \in Workers \ {w} : process'[x] = process[x] /\ stdin'[x] = stdin[x]
  BY EmptySeq DEF TypeOK, ProcessTypes
<1>c. crashes' \in 0 .. MaxCrashes
  BY ConstantsAssumption DEF TypeOK, ProcessTypes
<1>d. /\ Len(stdin[w]) \in Nat /\ Len(stdout[w]) \in Nat /\ Len(sent_tasks[w]) \in Nat
      /\ Len(stdin'[w]) = 0 /\ (stdin[w] # <<>> => Len(stdin[w]) > 0)
  BY <1>b, Typed, EmptySeq
<1>e. Alive(w) /\ reader[w] # "none"
  BY DEF QueueInv, WorkerOK, Alive
<1>1. TypeOK'
  BY <1>b, <1>c DEF TypeOK, QueueTypes, ProcessTypes, ReaderTypes, RecoveryTypes, MainTypes
<1>2. QueueInv'
  <2>1. ASSUME NEW x \in Workers PROVE WorkerOK(x)'
    BY <1>b, <1>e DEF QueueInv, WorkerOK, Queued, Alive
  <2> QED
    BY <1>b, <2>1, Typed DEF QueueInv, Queued
<1>3. PipeInv'
  <2>1. ASSUME NEW x \in Workers, x # w PROVE PipeOK(x)'
    BY <1>b, <2>1 DEF PipeInv, PipeOK, Queued, Sends, Alive
  <2>2. PipeOK(w)'
    <3>1. ~Alive(w)'
      BY <1>b DEF Alive
    <3>2. reader[w] = "reading" =>
            Len(sent_tasks[w]) >= Len(stdout[w]) + Len(stdin[w])
      BY DEF PipeInv, PipeOK
    <3>4. num_pending_sends[w] = Sends("main", w) + Sends("recovery", w)
      BY DEF PipeInv, PipeOK
    <3> DEFINE a == Len(sent_tasks[w])
               b == Len(stdout[w])
               c == Len(stdin[w])
    <3>5. a \in Nat /\ b \in Nat /\ c \in Nat
      BY <1>d
    <3>6. a >= b + c => a >= b + 0
      <4> HIDE DEF a, b, c
      <4> QED
        BY <3>5
    <3>7. reader[w] = "reading" => a >= b + Len(stdin'[w])
      <4> HIDE DEF a, b
      <4> QED
        BY <1>d, <3>2, <3>6 DEF a, b
    <3> QED
      BY <3>1, <3>4, <3>7, Zenon DEF PipeOK, Queued, Sends
  <2> QED
    BY <1>b, <2>1, <2>2 DEF PipeInv, TypeOK, QueueTypes
<1>5. MainInv'
  BY <1>b DEF MainInv, Queued, TypeOK, MainTypes
<1>6. RecoveryInv'
  BY DEF RecoveryInv
<1>7. AnswersAddUp'
  BY DEF AnswersAddUp, Length
<1> QED
  BY <1>1, <1>2, <1>3, <1>5, <1>6, <1>7

\* A queue and the pipe of answers lose their first entry together.
LEMMA ReceiveInv ==
  ASSUME Inv, NEW w \in Workers, Receive(w)
  PROVE  Inv'
<1> USE DEF Inv, Receive, readerVars, recoveryVars
<1>0. Len(sent_tasks[w]) >= Len(stdout[w]) + Len(stdin[w])
  BY DEF PipeInv, PipeOK
<1>a. /\ Head(stdout[w]) \in Tasks /\ Len(stdout[w]) > 0
      /\ Tail(stdout[w]) \in Seq(Tasks) /\ Len(Tail(stdout[w])) = Len(stdout[w]) - 1
  BY Typed, TailSet
<1>b. Len(sent_tasks[w]) > 0
  <2> DEFINE a == Len(sent_tasks[w])
             b == Len(stdout[w])
             c == Len(stdin[w])
  <2>1. a \in Nat /\ b \in Nat /\ c \in Nat /\ a >= b + c /\ b > 0
    BY <1>0, <1>a, Typed
  <2> HIDE DEF a, b, c
  <2>2. a > 0
    BY <2>1
  <2> QED
    BY <2>2 DEF a
<1>c. sent_tasks[w] # <<>>
  BY <1>b, EmptySeq
<1>d. Tail(sent_tasks[w]) \in Seq(Tasks) /\ Len(Tail(sent_tasks[w])) = Len(sent_tasks[w]) - 1
  BY <1>c, Typed, TailSet
<1>e. /\ sent_tasks' \in [Workers -> Seq(Tasks)] /\ stdout' \in [Workers -> Seq(Tasks)]
      /\ sent_tasks'[w] = Tail(sent_tasks[w]) /\ stdout'[w] = Tail(stdout[w])
      /\ \A x \in Workers \ {w} : sent_tasks'[x] = sent_tasks[x] /\ stdout'[x] = stdout[x]
  BY <1>a, <1>d DEF TypeOK, QueueTypes, ProcessTypes
<1>f. answered' \in [Tasks -> Nat]
  BY <1>a DEF TypeOK, MainTypes
<1>1. TypeOK'
  BY <1>e, <1>f DEF TypeOK, QueueTypes, ProcessTypes, ReaderTypes, RecoveryTypes, MainTypes
<1>2. QueueInv'
  <2>1. ASSUME NEW x \in Workers PROVE WorkerOK(x)'
    BY <1>c, <1>e DEF QueueInv, WorkerOK, Queued
  <2> QED
    BY <2>1 DEF QueueInv, Queued
<1>3. PipeInv'
  <2>1. ASSUME NEW x \in Workers, x # w PROVE PipeOK(x)'
    BY <1>e, <2>1 DEF PipeInv, PipeOK, Queued, Sends, Alive
  <2>2. PipeOK(w)'
    <3> DEFINE a == Len(sent_tasks[w])
               b == Len(stdout[w])
               c == Len(stdin[w])
               n == num_pending_sends[w]
    <3>1. a \in Nat /\ b \in Nat /\ c \in Nat /\ n \in Nat
      BY Typed
    <3>2. Len(sent_tasks'[w]) = a - 1 /\ Len(stdout'[w]) = b - 1
      BY <1>a, <1>d, <1>e
    <3>3. /\ a >= b + c /\ (Alive(w) => a = b + c + n)
          /\ n = Sends("main", w) + Sends("recovery", w)
      BY DEF PipeInv, PipeOK
    <3> HIDE DEF a, b, c, n
    <3>4. /\ (a >= b + c => a - 1 >= (b - 1) + c)
          /\ (a = b + c + n => a - 1 = (b - 1) + c + n)
      BY <3>1
    <3> QED
      BY <3>2, <3>3, <3>4 DEF PipeOK, Queued, Sends, Alive, c, n
  <2> QED
    BY <2>1, <2>2 DEF PipeInv
<1>5. MainInv'
  BY DEF MainInv, Queued
<1>6. RecoveryInv'
  BY DEF RecoveryInv
<1>7. AnswersAddUp'
  <2>1. Lengths(sent_tasks') + 1 = Lengths(sent_tasks) /\ Lengths(sent_tasks') \in Nat
    <3>1. /\ Lengths(sent_tasks) \in Nat /\ Lengths(sent_tasks') \in Nat
          /\ Len(sent_tasks[w]) \in Nat
          /\ Lengths(sent_tasks') + Len(sent_tasks[w]) = Lengths(sent_tasks) + Len(sent_tasks'[w])
      BY <1>e, LengthsChange DEF TypeOK, QueueTypes
    <3>2. Len(sent_tasks'[w]) = Len(sent_tasks[w]) - 1
      BY <1>d, <1>e
    <3> QED
      BY <3>1, <3>2
  <2>2. SumFunction(answered') = SumFunction(answered) + 1 /\ SumFunction(answered) \in Nat
    BY <1>a, AnsweredChange DEF TypeOK, MainTypes
  <2> QED
    BY <2>1, <2>2, SumsAreNat DEF AnswersAddUp
<1> QED
  BY <1>1, <1>2, <1>3, <1>5, <1>6, <1>7

\* The reader takes its queue out of workers_, and the tasks with it.
LEMMA DetachInv ==
  ASSUME Inv, NEW w \in Workers, Detach(w)
  PROVE  Inv'
<1> USE DEF Inv, Detach, processVars, recoveryVars
<1> DEFINE queues == RemoveFirst(workers_.queues, w)
<1>a. queues \in Seq(Workers) /\ IsInjective(queues) /\ ToSet(queues) = Queued \ {w}
  BY Typed, RemoveFirstSet DEF QueueInv, Queued
<1>b. /\ workers_' \in [entry : BOOLEAN, queues : Seq(Workers)]
      /\ workers_'.queues = queues /\ Queued' = Queued \ {w}
  BY <1>a DEF TypeOK, QueueTypes, Queued
<1> HIDE DEF queues
<1>c. /\ sent_tasks' \in [Workers -> Seq(Tasks)] /\ pending_tasks' \in [Workers -> Seq(Tasks)]
      /\ sent_tasks'[w] = <<>> /\ pending_tasks'[w] = sent_tasks[w]
      /\ \A x \in Workers \ {w} :
           sent_tasks'[x] = sent_tasks[x] /\ pending_tasks'[x] = pending_tasks[x]
  BY EmptySeq, Typed DEF TypeOK, QueueTypes, ReaderTypes
<1>d. /\ reader' \in [Workers -> {"none", "reading", "leaving", "starting", "done", "undefined"}]
      /\ reader'[w] = IF sent_tasks[w] # <<>> \/ w \in Queued THEN "leaving" ELSE "done"
      /\ \A x \in Workers \ {w} : reader'[x] = reader[x]
  BY DEF TypeOK, ReaderTypes, Queued
<1>e. released' \in [Workers -> BOOLEAN]
  BY DEF TypeOK, ReaderTypes
<1>1. TypeOK'
  BY <1>b, <1>c, <1>d, <1>e DEF TypeOK, QueueTypes, ProcessTypes, ReaderTypes, RecoveryTypes, MainTypes
<1>2. QueueInv'
  <2>1. ASSUME NEW x \in Workers, x # w PROVE WorkerOK(x)'
    BY <1>b, <1>c, <1>d, <2>1 DEF QueueInv, WorkerOK
  <2>2. WorkerOK(w)'
    BY <1>b, <1>c, <1>d DEF QueueInv, WorkerOK
  <2>3. \A x \in Queued' : process'[x] \in {"running", "dead"} /\ reader'[x] = "reading" /\ x \notin main'.held
    BY <1>b, <1>d, Typed DEF QueueInv
  <2> QED
    BY <1>a, <1>b, <2>1, <2>2, <2>3 DEF QueueInv
<1>3. PipeInv'
  <2>1. ASSUME NEW x \in Workers PROVE PipeOK(x)'
    BY <1>b, <1>c, <1>d DEF PipeInv, PipeOK, Sends, Alive
  <2> QED
    BY <2>1 DEF PipeInv
<1>5. MainInv'
  BY <1>b DEF MainInv
<1>6. RecoveryInv'
  BY DEF RecoveryInv
<1>7. AnswersAddUp'
  <2>1. /\ Lengths(sent_tasks) \in Nat /\ Lengths(sent_tasks') \in Nat /\ Len(sent_tasks[w]) \in Nat
        /\ Lengths(sent_tasks') + Len(sent_tasks[w]) = Lengths(sent_tasks) + Len(sent_tasks'[w])
    BY <1>c, LengthsChange DEF TypeOK, QueueTypes
  <2>2. /\ Lengths(pending_tasks) \in Nat /\ Lengths(pending_tasks') \in Nat
        /\ Lengths(pending_tasks') + Len(pending_tasks[w]) = Lengths(pending_tasks) + Len(pending_tasks'[w])
    BY <1>c, LengthsChange DEF TypeOK, ReaderTypes
  <2>3. Len(sent_tasks'[w]) = 0 /\ Len(pending_tasks[w]) = 0 /\ Len(pending_tasks'[w]) = Len(sent_tasks[w])
    BY <1>c, EmptySeq DEF QueueInv, WorkerOK
  <2>4. Lengths(sent_tasks') + Lengths(pending_tasks') = Lengths(sent_tasks) + Lengths(pending_tasks)
    BY <2>1, <2>2, <2>3
  <2> QED
    BY <2>4 DEF AnswersAddUp
<1> QED
  BY <1>1, <1>2, <1>3, <1>5, <1>6, <1>7

\* The reader hands its tasks to the recovery.
LEMMA LeaveInv ==
  ASSUME Inv, NEW w \in Workers, Leave(w)
  PROVE  Inv'
<1> USE DEF Inv, Leave, queueVars, processVars
<1> DEFINE q == pending_tasks[w]
           failed == IF released[w] THEN Append(recovery_tasks_.failed, w)
                                    ELSE recovery_tasks_.failed
           suspected == Append(recovery_tasks_.suspected, Head(q))
           remaining == recovery_tasks_.remaining \o Tail(q)
<1>a. /\ q \in Seq(Tasks) /\ Head(q) \in Tasks /\ Tail(q) \in Seq(Tasks)
      /\ Len(Tail(q)) = Len(q) - 1 /\ Len(q) \in Nat
  BY Typed, TailSet
<1>b. failed \in Seq(Workers)
  BY Typed, AppendFacts
<1>c. suspected \in Seq(Tasks) /\ Len(suspected) = Len(recovery_tasks_.suspected) + 1
  BY <1>a, Typed, AppendFacts
<1>d. /\ remaining \in Seq(Tasks)
      /\ Len(remaining) = Len(recovery_tasks_.remaining) + Len(Tail(q))
  BY <1>a, Typed, ConcatSet
<1>e. recovery_tasks_' = [failed |-> failed, suspected |-> suspected, remaining |-> remaining]
  OBVIOUS
<1> HIDE DEF failed, suspected, remaining
<1>f. /\ pending_tasks' \in [Workers -> Seq(Tasks)] /\ pending_tasks'[w] = <<>>
      /\ \A x \in Workers \ {w} : pending_tasks'[x] = pending_tasks[x]
  BY EmptySeq DEF TypeOK, ReaderTypes
<1>g. /\ reader' \in [Workers -> {"none", "reading", "leaving", "starting", "done", "undefined"}]
      /\ reader'[w] = "starting" /\ \A x \in Workers \ {w} : reader'[x] = reader[x]
  BY DEF TypeOK, ReaderTypes
<1>1. TypeOK'
  <2>1. failed \in Seq(Workers) /\ suspected \in Seq(Tasks) /\ remaining \in Seq(Tasks)
    BY <1>b, <1>c, <1>d
  <2>2. recovery_tasks_' \in TaskLists
    <3> HIDE DEF Leave, Inv
    <3> QED
      BY <1>e, <2>1 DEF TaskLists
  <2> QED
    BY <1>f, <1>g, <2>2 DEF TypeOK, QueueTypes, ProcessTypes, ReaderTypes, RecoveryTypes, MainTypes
<1>2. QueueInv'
  <2>1. ASSUME NEW x \in Workers PROVE WorkerOK(x)'
    BY <1>f, <1>g DEF QueueInv, WorkerOK, Queued
  <2>2. w \notin Queued
    BY DEF QueueInv
  <2> QED
    BY <1>g, <2>1, <2>2, Typed DEF QueueInv, Queued
<1>3. PipeInv'
  <2>1. ASSUME NEW x \in Workers PROVE PipeOK(x)'
    BY <1>g DEF PipeInv, PipeOK, Queued, Sends, Alive
  <2> QED
    BY <2>1 DEF PipeInv
<1>5. MainInv'
  BY DEF MainInv, Queued
<1>6. RecoveryInv'
  BY DEF RecoveryInv
<1>7. AnswersAddUp'
  <2>1. /\ Lengths(pending_tasks) \in Nat /\ Lengths(pending_tasks') \in Nat
        /\ Lengths(pending_tasks') + Len(q) = Lengths(pending_tasks) + Len(pending_tasks'[w])
    BY <1>f, LengthsChange DEF TypeOK, ReaderTypes
  <2>2. Len(pending_tasks'[w]) = 0
    BY <1>f, EmptySeq
  <2>3. Length(recovery_tasks_') = Length(recovery_tasks_) + Len(q) /\ Length(recovery_tasks_) \in Nat
    <3> DEFINE a == Len(recovery_tasks_.suspected)
               b == Len(recovery_tasks_.remaining)
               n == Len(q)
    <3>1. a \in Nat /\ b \in Nat /\ n \in Nat
      BY <1>a, Typed
    <3>2. Len(recovery_tasks_'.suspected) = a + 1 /\ Len(recovery_tasks_'.remaining) = b + (n - 1)
      <4>1. recovery_tasks_'.suspected = suspected /\ recovery_tasks_'.remaining = remaining
        <5> HIDE DEF Leave, Inv
        <5> QED
          BY <1>e
      <4>2. Len(suspected) = a + 1
        BY <1>c
      <4>3. Len(remaining) = b + (n - 1)
        BY <1>a, <1>d
      <4> QED
        <5> HIDE DEF EndSend, Inv
        <5> QED
          BY <4>1, <4>2, <4>3 DEF Sends
    <3> HIDE DEF a, b, n
    <3>3. (a + 1) + (b + (n - 1)) = (a + b) + n /\ a + b \in Nat
      BY <3>1
    <3>4. Length(recovery_tasks_) = a + b /\ Length(recovery_tasks_') = (a + 1) + (b + (n - 1))
      <4> HIDE DEF Inv, Leave
      <4>1. /\ Length(recovery_tasks_) = a + b
            /\ Length(recovery_tasks_') = Len(recovery_tasks_'.suspected)
                                           + Len(recovery_tasks_'.remaining)
        BY DEF Length, a, b
      <4> QED
        BY <3>2, <4>1
    <3> QED
      BY <3>3, <3>4 DEF n
  <2> HIDE DEF q
  <2>4. sent_tasks' = sent_tasks /\ recovery' = recovery /\ answered' = answered /\ main' = main
    OBVIOUS
  <2>5. /\ Lengths(sent_tasks) + Lengths(pending_tasks)
             + Length(recovery_tasks_) + Length(recovery.task)
             + SumFunction(answered) = main.next - 1
        /\ Lengths(sent_tasks) \in Nat /\ Length(recovery.task) \in Nat
        /\ SumFunction(answered) \in Nat /\ main.next \in Nat
    BY SumsAreNat DEF AnswersAddUp
  <2>6. Len(q) \in Nat
    BY <1>a, Typed
  <2> HIDE DEF Inv, Leave
  <2>7. Lengths(sent_tasks) + Lengths(pending_tasks')
          + Length(recovery_tasks_') + Length(recovery.task)
          + SumFunction(answered) = main.next - 1
    BY <2>1, <2>2, <2>3, <2>5, <2>6
  <2> QED
    BY <2>4, <2>7 DEF AnswersAddUp
<1> QED
  BY <1>1, <1>2, <1>3, <1>5, <1>6, <1>7

\* A reader without tasks goes to its end, and changes nothing before.
LEMMA LeaveNothingInv ==
  ASSUME Inv, NEW w \in Workers, LeaveNothing(w)
  PROVE  Inv'
<1> USE DEF Inv, LeaveNothing, queueVars, processVars, recoveryVars
<1>a. /\ reader' \in [Workers -> {"none", "reading", "leaving", "starting", "done", "undefined"}]
      /\ reader[w] = "leaving" /\ reader'[w] = "undefined"
      /\ \A x \in Workers \ {w} : reader'[x] = reader[x]
  BY DEF TypeOK, ReaderTypes
<1>1. TypeOK'
  BY <1>a DEF TypeOK, QueueTypes, ProcessTypes, ReaderTypes, RecoveryTypes, MainTypes
<1>2. QueueInv'
  <2>1. ASSUME NEW x \in Workers PROVE WorkerOK(x)'
    BY <1>a DEF QueueInv, WorkerOK, Queued
  <2>2. w \notin Queued
    BY <1>a DEF QueueInv
  <2> QED
    BY <1>a, <2>1, <2>2, Typed DEF QueueInv, Queued
<1>3. PipeInv'
  <2>1. ASSUME NEW x \in Workers PROVE PipeOK(x)'
    BY <1>a DEF PipeInv, PipeOK, Queued, Sends, Alive
  <2> QED
    BY <2>1 DEF PipeInv
<1>4. MainInv'
  BY DEF MainInv, Queued
<1>5. RecoveryInv'
  BY DEF RecoveryInv
<1>6. AnswersAddUp'
  BY DEF AnswersAddUp, Length
<1> QED
  BY <1>1, <1>2, <1>3, <1>4, <1>5, <1>6

\* A new recovery thread is one that Join can still find.
LEMMA StartRecoveryInv ==
  ASSUME Inv, NEW w \in Workers, ~Over, StartRecovery(w)
  PROVE  Inv'
<1> USE DEF Inv, StartRecovery, Over, Returned, queueVars, processVars, recoveryVars
<1>a. /\ recovery' \in [pc : {"none", "wait", "exiting", "stop", "resend", "retry"},
                       id : Nat, task : TaskLists]
      /\ recovery'.task = recovery.task /\ recovery.id \in Nat
      /\ recovery'.id = IF recovery_running_ THEN recovery.id ELSE recovery.id + 1
      /\ recovery'.pc = IF recovery_running_ THEN recovery.pc ELSE "wait"
  <2>1. recovery.id \in Nat /\ recovery.id + 1 \in Nat
    BY DEF TypeOK, RecoveryTypes
  <2>2. CASE recovery_running_
    BY <2>1, <2>2 DEF TypeOK, RecoveryTypes
  <2>3. CASE ~recovery_running_
    BY <2>1, <2>3 DEF TypeOK, RecoveryTypes
  <2> QED
    BY <2>2, <2>3
<1>b. /\ reader' \in [Workers -> {"none", "reading", "leaving", "starting", "done", "undefined"}]
      /\ reader'[w] = "done" /\ \A x \in Workers \ {w} : reader'[x] = reader[x]
  BY DEF TypeOK, ReaderTypes
<1>c. recovery_threads_' = IF recovery_running_ THEN recovery_threads_
                           ELSE recovery_threads_ \cup {recovery'.id}
  BY <1>a
<1>1. TypeOK'
  <2>1. \A n \in 1 .. recovery.id : n \in 1 .. recovery'.id
    BY <1>a
  <2>2. recovery_threads_' \subseteq 1 .. recovery'.id
    <3>1. recovery_threads_ \subseteq 1 .. recovery'.id
      BY <2>1 DEF TypeOK, RecoveryTypes
    <3>2. ~recovery_running_ => recovery'.id \in 1 .. recovery'.id
      BY <1>a
    <3> QED
      BY <1>c, <3>1, <3>2
  <2>3. main.threads \in SUBSET (1 .. recovery'.id)
    BY <2>1 DEF TypeOK, MainTypes
  <2>4. main' \in [pc : {"send", "swap", "close", "stop", "threads", "joining", "returned"},
                   next : 1 .. NumTasks + 1, held : SUBSET Workers, nonempty : BOOLEAN,
                   threads : SUBSET (1 .. recovery'.id)]
    BY <2>3 DEF TypeOK, MainTypes
  <2>5. recovery_tasks_' \in TaskLists /\ recovery_running_' \in BOOLEAN
    BY DEF TypeOK, RecoveryTypes
  <2>6. RecoveryTypes' /\ MainTypes'
    BY <1>a, <2>2, <2>4, <2>5 DEF RecoveryTypes, MainTypes, TypeOK
  <2> QED
    BY <1>b, <2>6 DEF TypeOK, QueueTypes, ProcessTypes, ReaderTypes
<1>2. QueueInv'
  <2>1. ASSUME NEW x \in Workers PROVE WorkerOK(x)'
    BY <1>b DEF QueueInv, WorkerOK, Queued
  <2>2. w \notin Queued
    BY DEF QueueInv
  <2> QED
    BY <1>b, <2>1, <2>2, Typed DEF QueueInv, Queued
<1>3. PipeInv'
  <2>1. ASSUME NEW x \in Workers PROVE PipeOK(x)'
    BY <1>b DEF PipeInv, PipeOK, Queued, Sends, Alive
  <2> QED
    BY <2>1 DEF PipeInv
<1>5. MainInv'
  BY <1>c DEF MainInv, Queued
<1>6. RecoveryInv'
  BY <1>a, <1>c DEF RecoveryInv
<1>7. AnswersAddUp'
  BY <1>a DEF AnswersAddUp, Length
<1> QED
  BY <1>1, <1>2, <1>3, <1>5, <1>6, <1>7

-----------------------------------------------------------------------------
\* The steps of the recovery thread

\* The recovery thread takes over all that was left to it.
LEMMA TakeTasksInv ==
  ASSUME Inv, TakeTasks
  PROVE  Inv'
<1> USE DEF Inv, TakeTasks, RecoveryUnchanged, queueVars, processVars, readerVars
<1>0. NoTasks \in TaskLists /\ Length(NoTasks) = 0
  BY DEF NoTasks, TaskLists, Length
<1>a. recovery.task = NoTasks /\ recovery'.task = recovery_tasks_
  BY DEF TypeOK, RecoveryTypes, RecoveryInv
<1>1. TypeOK'
  BY <1>0 DEF TypeOK, QueueTypes, ProcessTypes, ReaderTypes, RecoveryTypes, MainTypes
<1>2. QueueInv'
  BY DEF QueueInv, WorkerOK, Queued
<1>3. PipeInv'
  BY DEF PipeInv, PipeOK, Queued, Sends, Alive
<1>5. MainInv'
  BY DEF MainInv, Queued
<1>6. RecoveryInv'
  BY DEF RecoveryInv
<1>7. AnswersAddUp'
  <2>1. Length(recovery_tasks_) \in Nat
    BY SumsAreNat
  <2>2. /\ Length(recovery.task) = 0 /\ Length(recovery_tasks_') = 0
        /\ Length(recovery'.task) = Length(recovery_tasks_)
    BY <1>0, <1>a, Zenon
  <2> QED
    BY <2>1, <2>2, SumsAreNat DEF AnswersAddUp
<1> QED
  BY <1>1, <1>2, <1>3, <1>5, <1>6, <1>7

\* A recovery thread that has nothing to do leaves its loop.
LEMMA FindNothingInv ==
  ASSUME Inv, FindNothing
  PROVE  Inv'
<1> USE DEF Inv, FindNothing, RecoveryUnchanged, queueVars, processVars, readerVars
<1>1. TypeOK'
  BY DEF TypeOK, QueueTypes, ProcessTypes, ReaderTypes, RecoveryTypes, MainTypes
<1>2. QueueInv'
  BY DEF QueueInv, WorkerOK, Queued
<1>3. PipeInv'
  BY DEF PipeInv, PipeOK, Queued, Sends, Alive
<1>5. MainInv'
  BY DEF MainInv, Queued
<1>6. RecoveryInv'
  BY DEF RecoveryInv
<1>7. AnswersAddUp'
  <2>1. recovery'.task = recovery.task
    BY DEF TypeOK, RecoveryTypes
  <2> QED
    BY <2>1, Zenon DEF AnswersAddUp, RecoveryUnchanged
<1> QED
  BY <1>1, <1>2, <1>3, <1>5, <1>6, <1>7

\* A recovery thread ends with empty hands.
LEMMA EndThreadInv ==
  ASSUME Inv, EndThread
  PROVE  Inv'
<1> USE DEF Inv, EndThread, queueVars, processVars, readerVars
<1>1. TypeOK'
  BY DEF TypeOK, QueueTypes, ProcessTypes, ReaderTypes, RecoveryTypes, MainTypes
<1>2. QueueInv'
  BY DEF QueueInv, WorkerOK, Queued
<1>3. PipeInv'
  BY DEF PipeInv, PipeOK, Queued, Sends, Alive
<1>5. MainInv'
  BY DEF MainInv, Queued
<1>6. RecoveryInv'
  BY DEF RecoveryInv
<1>7. AnswersAddUp'
  <2>1. recovery'.task = recovery.task
    BY DEF TypeOK, RecoveryTypes
  <2> QED
    BY <2>1, Zenon DEF AnswersAddUp
<1> QED
  BY <1>1, <1>2, <1>3, <1>5, <1>6, <1>7

\* The failed queues are gone before the first task is sent again.
LEMMA StopFailedInv ==
  ASSUME Inv, StopFailed
  PROVE  Inv'
<1> USE DEF Inv, StopFailed, RecoveryUnchanged, queueVars, processVars, readerVars
<1> DEFINE task == recovery.task
<1>a. task.failed \in Seq(Workers) /\ (task.failed # <<>> => Tail(task.failed) \in Seq(Workers))
  BY Typed, TailSet
<1>b. /\ recovery'.id = recovery.id
      /\ recovery'.task = IF task.failed = <<>> THEN task
                          ELSE [task EXCEPT !.failed = Tail(@)]
      /\ recovery'.pc = IF task.failed = <<>> THEN "resend" ELSE "stop"
      /\ recovery' = [pc |-> recovery'.pc, id |-> recovery'.id, task |-> recovery'.task]
  BY DEF TypeOK, RecoveryTypes
<1>c. task = [failed |-> task.failed, suspected |-> task.suspected, remaining |-> task.remaining]
  BY Typed DEF TaskLists
<1>d. /\ recovery'.task.failed = IF task.failed = <<>> THEN <<>> ELSE Tail(task.failed)
      /\ recovery'.task.suspected = task.suspected /\ recovery'.task.remaining = task.remaining
      /\ recovery'.task = [failed |-> recovery'.task.failed, suspected |-> recovery'.task.suspected,
                           remaining |-> recovery'.task.remaining]
  BY <1>b, <1>c
<1>1. TypeOK'
  <2>1. recovery'.task \in TaskLists
    BY <1>a, <1>d, Typed DEF TaskLists
  <2> QED
    BY <1>b, <2>1 DEF TypeOK, QueueTypes, ProcessTypes, ReaderTypes, RecoveryTypes, MainTypes
<1>2. QueueInv'
  BY DEF QueueInv, WorkerOK, Queued
<1>3. PipeInv'
  BY DEF PipeInv, PipeOK, Queued, Sends, Alive
<1>5. MainInv'
  BY DEF MainInv, Queued
<1>6. RecoveryInv'
  BY <1>b, <1>d DEF RecoveryInv
<1>7. AnswersAddUp'
  BY <1>d DEF AnswersAddUp, Length
<1> QED
  BY <1>1, <1>2, <1>3, <1>5, <1>6, <1>7

\* The recovery thread goes on when it has sent all remaining tasks.
LEMMA EndResendInv ==
  ASSUME Inv, EndResend
  PROVE  Inv'
<1> USE DEF Inv, EndResend, RecoveryUnchanged, queueVars, processVars, readerVars
<1>1. TypeOK'
  BY DEF TypeOK, QueueTypes, ProcessTypes, ReaderTypes, RecoveryTypes, MainTypes
<1>2. QueueInv'
  BY DEF QueueInv, WorkerOK, Queued
<1>3. PipeInv'
  BY DEF PipeInv, PipeOK, Queued, Sends, Alive
<1>5. MainInv'
  BY DEF MainInv, Queued
<1>6. RecoveryInv'
  BY DEF RecoveryInv
<1>7. AnswersAddUp'
  <2>1. recovery'.task = recovery.task
    BY DEF TypeOK, RecoveryTypes
  <2> QED
    BY <2>1, Zenon DEF AnswersAddUp, RecoveryUnchanged
<1> QED
  BY <1>1, <1>2, <1>3, <1>5, <1>6, <1>7

\* A retried task turns into an answer.
LEMMA RetrySuspectedInv ==
  ASSUME Inv, RetrySuspected
  PROVE  Inv'
<1> USE DEF Inv, RetrySuspected, RecoveryUnchanged, queueVars, processVars, readerVars
<1> DEFINE task == recovery.task
           q == task.suspected
<1>a. /\ q \in Seq(Tasks)
      /\ (q # <<>> => /\ Head(q) \in Tasks /\ Tail(q) \in Seq(Tasks)
                      /\ Len(Tail(q)) = Len(q) - 1 /\ Len(q) \in Nat)
  BY Typed, TailSet
<1>b. /\ recovery'.id = recovery.id
      /\ recovery'.task = IF q = <<>> THEN task ELSE [task EXCEPT !.suspected = Tail(@)]
      /\ recovery'.pc = IF q = <<>> THEN "wait" ELSE "retry"
      /\ recovery' = [pc |-> recovery'.pc, id |-> recovery'.id, task |-> recovery'.task]
  BY DEF TypeOK, RecoveryTypes
<1>c. task = [failed |-> task.failed, suspected |-> task.suspected, remaining |-> task.remaining]
  BY Typed DEF TaskLists
<1>d. /\ recovery'.task.suspected = IF q = <<>> THEN <<>> ELSE Tail(q)
      /\ recovery'.task.failed = task.failed /\ recovery'.task.remaining = task.remaining
      /\ recovery'.task = [failed |-> recovery'.task.failed, suspected |-> recovery'.task.suspected,
                           remaining |-> recovery'.task.remaining]
  BY <1>b, <1>c
<1>1. TypeOK'
  <2>1. recovery'.task \in TaskLists
    BY <1>a, <1>d, Typed DEF TaskLists
  <2>2. answered' \in [Tasks -> Nat]
    BY <1>a DEF TypeOK, MainTypes
  <2> QED
    BY <1>b, <2>1, <2>2 DEF TypeOK, QueueTypes, ProcessTypes, ReaderTypes, RecoveryTypes, MainTypes
<1>2. QueueInv'
  BY DEF QueueInv, WorkerOK, Queued
<1>3. PipeInv'
  BY DEF PipeInv, PipeOK, Queued, Sends, Alive
<1>5. MainInv'
  BY DEF MainInv, Queued
<1>6. RecoveryInv'
  BY <1>b, <1>c, <1>d DEF RecoveryInv, NoTasks
<1>7. AnswersAddUp'
  <2>1. CASE q = <<>>
    BY <1>b, <2>1 DEF AnswersAddUp
  <2>2. CASE q # <<>>
    <3>1. SumFunction(answered') = SumFunction(answered) + 1 /\ SumFunction(answered) \in Nat
      BY <1>a, <2>2, AnsweredChange DEF TypeOK, MainTypes
    <3>2. Length(recovery'.task) + 1 = Length(task) /\ Length(recovery'.task) \in Nat
      <4> DEFINE a == Len(q)
                 b == Len(task.remaining)
                 c == Len(recovery'.task.suspected)
      <4>1. a \in Nat /\ b \in Nat /\ a > 0 /\ c = a - 1
        BY <1>a, <1>d, <2>2, Typed, EmptySeq
      <4>2. Length(recovery'.task) = c + b /\ Length(task) = a + b
        BY <1>d, Zenon DEF Length
      <4> HIDE DEF a, b, c
      <4>3. (c + b) + 1 = a + b /\ c + b \in Nat
        BY <4>1
      <4> QED
        BY <4>2, <4>3
    <3> QED
      BY <3>1, <3>2, SumsAreNat DEF AnswersAddUp
  <2> QED
    BY <2>1, <2>2
<1> QED
  BY <1>1, <1>2, <1>3, <1>5, <1>6, <1>7

-----------------------------------------------------------------------------
\* The steps of Join

\* Join starts when all tasks are sent.
LEMMA JoinInv ==
  ASSUME Inv, Join
  PROVE  Inv'
<1> USE DEF Inv, Join, MainUnchanged, readerVars
<1>a. main.next = NumTasks + 1
  BY ConstantsAssumption DEF TypeOK, MainTypes
<1>b. main'.next = main.next
  BY DEF TypeOK, MainTypes
<1>1. TypeOK'
  BY DEF TypeOK, QueueTypes, ProcessTypes, ReaderTypes, RecoveryTypes, MainTypes
<1>2. QueueInv'
  BY DEF QueueInv, WorkerOK, Queued
<1>3. PipeInv'
  BY DEF PipeInv, PipeOK, Queued, Sends, Alive
<1>5. MainInv'
  BY <1>a DEF MainInv, Queued, TypeOK, MainTypes
<1>6. RecoveryInv'
  BY DEF RecoveryInv
<1>7. AnswersAddUp'
  BY <1>b DEF AnswersAddUp
<1> QED
  BY <1>1, <1>2, <1>3, <1>5, <1>6, <1>7

\* Join takes the queues, and no recovery thread that is joined adds another.
LEMMA SwapWorkersInv ==
  ASSUME Inv, SwapWorkers
  PROVE  Inv'
<1> USE DEF Inv, SwapWorkers, MainUnchanged, readerVars
<1>0. /\ Queued' = {} /\ workers_'.queues = <<>>
      /\ workers_' \in [entry : BOOLEAN, queues : Seq(Workers)]
  <2>1. PICK q \in Seq(Workers) : q = <<>> /\ workers_' = [entry |-> FALSE, queues |-> q]
    BY EmptySeq
  <2>2. workers_'.queues = q /\ workers_' \in [entry : BOOLEAN, queues : Seq(Workers)]
    <3> HIDE DEF SwapWorkers, Inv
    <3> QED
      BY <2>1
  <2> QED
    BY <2>1, <2>2, ToSetEmpty, Zenon DEF Queued
<1>a. /\ main' = [pc |-> "close", next |-> main.next, held |-> Queued,
                  nonempty |-> workers_.entry, threads |-> main.threads]
      /\ workers_.entry \in BOOLEAN
  BY DEF TypeOK, MainTypes, QueueTypes, Queued
<1>b. main.held = {} /\ main'.held = Queued /\ Queued \subseteq Workers
  <2>1. Queued \subseteq Workers
    BY Typed, Zenon
  <2>2. main.held = {}
    BY DEF MainInv
  <2>3. main'.held = Queued
    <3> HIDE DEF SwapWorkers, Inv
    <3> QED
      BY <1>a
  <2> QED
    BY <2>1, <2>2, <2>3
<1>1. TypeOK'
  <2>1. main' \in [pc : {"send", "swap", "close", "stop", "threads", "joining", "returned"},
                   next : 1 .. NumTasks + 1, held : SUBSET Workers, nonempty : BOOLEAN,
                   threads : SUBSET (1 .. recovery.id)]
    BY <1>a, <1>b DEF TypeOK, MainTypes
  <2> QED
    BY <1>0, <2>1 DEF TypeOK, QueueTypes, ProcessTypes, ReaderTypes, RecoveryTypes, MainTypes
<1>2. QueueInv'
  <2>1. IsInjective(workers_'.queues)
    BY <1>0 DEF IsInjective
  <2>2. ASSUME NEW x \in Workers PROVE WorkerOK(x)'
    BY <1>0, <1>b DEF QueueInv, WorkerOK
  <2> QED
    BY <1>0, <2>1, <2>2 DEF QueueInv
<1>3. PipeInv'
  <2>1. ASSUME NEW x \in Workers PROVE PipeOK(x)'
    BY <1>0 DEF PipeInv, PipeOK, Sends, Alive
  <2> QED
    BY <2>1 DEF PipeInv
<1>5. MainInv'
  BY <1>0, <1>a DEF MainInv
<1>6. RecoveryInv'
  BY <1>a DEF RecoveryInv
<1>7. AnswersAddUp'
  BY <1>a DEF AnswersAddUp
<1> QED
  BY <1>1, <1>2, <1>3, <1>5, <1>6, <1>7

\* Join closes processes that nobody writes to any more.
LEMMA CloseWorkersInv ==
  ASSUME Inv, CloseWorkers
  PROVE  Inv'
<1> USE DEF Inv, CloseWorkers, MainUnchanged, readerVars
<1>a. /\ main'.held = main.held /\ main'.next = main.next /\ main'.threads = main.threads
      /\ main'.pc = "stop" /\ main.held \subseteq Workers
  BY DEF TypeOK, MainTypes
<1>b. \A x \in Workers : process'[x] = IF x \in main.held /\ process[x] = "running"
                                        THEN "closed" ELSE process[x]
  OBVIOUS
<1>c. \A x \in Workers : x \in main.held => process[x] # "none"
  BY DEF QueueInv, WorkerOK
<1>1. TypeOK'
  BY DEF TypeOK, QueueTypes, ProcessTypes, ReaderTypes, RecoveryTypes, MainTypes
<1>2. QueueInv'
  <2>1. ASSUME NEW x \in Workers PROVE WorkerOK(x)'
    BY DEF QueueInv, WorkerOK, Queued, TypeOK, MainTypes
  <2>2. \A x \in Queued : process'[x] = process[x]
    BY Typed DEF QueueInv
  <2>3. main'.held = main.held
    BY DEF TypeOK, MainTypes
  <2> QED
    BY <2>1, <2>2, <2>3 DEF QueueInv, Queued
<1>3. PipeInv'
  <2>1. ASSUME NEW x \in Workers PROVE PipeOK(x)'
    <3>1. /\ Alive(x)' = Alive(x)
          /\ x \in Queued => process'[x] = process[x]
      BY <1>b DEF Alive, QueueInv
    <3> QED
      BY <3>1, Zenon DEF PipeInv, PipeOK, Queued, Sends
  <2>2. \A s \in Senders : sending[s] # NoSend => process'[sending[s].worker] # "none"
    <3>1. \A s \in Senders : sending[s] # NoSend => sending[s].worker \in Workers
      BY DEF TypeOK, QueueTypes
    <3> QED
      BY <1>b, <3>1 DEF PipeInv
  <2> QED
    BY <2>1, <2>2 DEF PipeInv
<1>5. MainInv'
  <2>1. \A x \in main.held : process'[x] \in {"closed", "dead"}
    BY <1>a, <1>b, <1>c DEF TypeOK, ProcessTypes
  <2> QED
    BY <1>a, <2>1 DEF MainInv, Queued
<1>6. RecoveryInv'
  BY DEF RecoveryInv
<1>7. AnswersAddUp'
  BY <1>a DEF AnswersAddUp
<1> QED
  BY <1>1, <1>2, <1>3, <1>5, <1>6, <1>7

\* Join deletes queues whose readers have left.
LEMMA StopWorkersInv ==
  ASSUME Inv, StopWorkers
  PROVE  Inv'
<1> USE DEF Inv, StopWorkers, MainUnchanged, readerVars
<1>1. TypeOK'
  BY DEF TypeOK, QueueTypes, ProcessTypes, ReaderTypes, RecoveryTypes, MainTypes
<1>2. QueueInv'
  <2>1. ASSUME NEW x \in Workers PROVE WorkerOK(x)'
    BY DEF QueueInv, WorkerOK, Queued, TypeOK, MainTypes
  <2> QED
    BY <2>1 DEF QueueInv, Queued, TypeOK, MainTypes
<1>3. PipeInv'
  BY DEF PipeInv, PipeOK, Queued, Sends, Alive
<1>5. MainInv'
  BY DEF MainInv, Queued
<1>6. RecoveryInv'
  BY DEF RecoveryInv
<1>7. AnswersAddUp'
  BY DEF AnswersAddUp, TypeOK, MainTypes
<1> QED
  BY <1>1, <1>2, <1>3, <1>5, <1>6, <1>7

\* Join takes the recovery threads.
LEMMA SwapThreadsInv ==
  ASSUME Inv, SwapThreads
  PROVE  Inv'
<1> USE DEF Inv, SwapThreads, MainUnchanged, readerVars
<1>a. /\ main'.held = main.held /\ main'.next = main.next
      /\ main'.pc = IF recovery_threads_ = {} THEN "returned" ELSE "joining"
      /\ main'.threads = recovery_threads_
  BY DEF TypeOK, MainTypes
<1>1. TypeOK'
  BY DEF TypeOK, QueueTypes, ProcessTypes, ReaderTypes, RecoveryTypes, MainTypes
<1>2. QueueInv'
  BY DEF QueueInv, WorkerOK, Queued
<1>3. PipeInv'
  BY DEF PipeInv, PipeOK, Queued, Sends, Alive
<1>5. MainInv'
  BY <1>a DEF MainInv, RecoveryInv, Queued
<1>6. RecoveryInv'
  BY <1>a DEF RecoveryInv, MainInv
<1>7. AnswersAddUp'
  BY <1>a DEF AnswersAddUp
<1> QED
  BY <1>1, <1>2, <1>3, <1>5, <1>6, <1>7

\* Join has waited for the recovery thread, or has it still to find.
LEMMA JoinThreadsInv ==
  ASSUME Inv, JoinThreads
  PROVE  Inv'
<1> USE DEF Inv, JoinThreads, MainUnchanged, readerVars
<1>1. TypeOK'
  BY DEF TypeOK, QueueTypes, ProcessTypes, ReaderTypes, RecoveryTypes, MainTypes
<1>2. QueueInv'
  BY DEF QueueInv, WorkerOK, Queued
<1>3. PipeInv'
  BY DEF PipeInv, PipeOK, Queued, Sends, Alive
<1>5. MainInv'
  BY DEF MainInv, Queued
<1>6. RecoveryInv'
  BY DEF RecoveryInv
<1>7. AnswersAddUp'
  BY DEF AnswersAddUp, TypeOK, MainTypes
<1> QED
  BY <1>1, <1>2, <1>3, <1>5, <1>6, <1>7

-----------------------------------------------------------------------------
\* The two halves of a send

\* The second half of a send: the task is under way to the worker, if it lives.
LEMMA EndSendInv ==
  ASSUME Inv, NEW s \in Senders, EndSend(s)
  PROVE  Inv'
<1> USE DEF Inv, EndSend, readerVars, recoveryVars
<1>j. PICK u \in Workers : u = sending[s].worker
  BY DEF TypeOK, QueueTypes, NoSend
<1>0. /\ sending[s].task \in Tasks /\ u \in Workers /\ NoSend.worker \notin Workers
  BY <1>j DEF TypeOK, QueueTypes, NoSend, Workers
<1>a. /\ num_pending_sends[u] = Sends("main", u) + Sends("recovery", u)
      /\ process[u] # "none"
  BY <1>0, <1>j DEF PipeInv, PipeOK
<1>b. \A r \in Senders : sending'[r] = IF r = s THEN NoSend ELSE sending[r]
  BY DEF TypeOK, QueueTypes
<1>c. \A x \in Workers : Sends("main", x)' + Sends("recovery", x)'
        = IF x = u THEN Sends("main", x) + Sends("recovery", x) - 1
                   ELSE Sends("main", x) + Sends("recovery", x)
  BY <1>0, <1>b, <1>j DEF Sends, Senders
<1>d. /\ Append(stdin[u], sending[s].task) \in Seq(Tasks)
      /\ Len(Append(stdin[u], sending[s].task)) = Len(stdin[u]) + 1
  BY <1>0, Typed, AppendFacts
<1>g. \A x \in Workers : num_pending_sends'[x] = IF x = u THEN num_pending_sends[u] - 1 ELSE num_pending_sends[x]
  BY <1>0, <1>j DEF TypeOK, QueueTypes
<1>e. \A x \in Workers : num_pending_sends'[x] = Sends("main", x)' + Sends("recovery", x)'
  <2>1. \A x \in Workers : num_pending_sends[x] = Sends("main", x) + Sends("recovery", x)
    BY DEF PipeInv, PipeOK
  <2> QED
    <3> SUFFICES ASSUME NEW x \in Workers
                 PROVE  num_pending_sends'[x] = Sends("main", x)' + Sends("recovery", x)'
      OBVIOUS
    <3>1. CASE x = u
      <4>1. num_pending_sends'[u] = num_pending_sends[u] - 1
        BY <1>0, <1>g, Zenon
      <4>2. Sends("main", u)' + Sends("recovery", u)' = Sends("main", u) + Sends("recovery", u) - 1
        BY <1>0, <1>c, Zenon
      <4>3. num_pending_sends[u] = Sends("main", u) + Sends("recovery", u)
        BY <1>0, <2>1, Zenon
      <4>4. num_pending_sends'[u] = Sends("main", u)' + Sends("recovery", u)'
        <5> HIDE DEF EndSend, Inv
        <5> QED
          BY <4>1, <4>2, <4>3 DEF Sends
      <4> QED
        BY <3>1, <4>4, Zenon
    <3>2. CASE x # u
      BY <1>c, <1>g, <2>1, <3>2, Zenon
    <3> QED
      BY <3>1, <3>2
<1>f. /\ stdin' \in [Workers -> Seq(Tasks)]
      /\ \A x \in Workers : stdin'[x] = IF x = u /\ process[u] # "dead"
                                        THEN Append(stdin[u], sending[s].task) ELSE stdin[x]
  BY <1>0, <1>d, <1>j DEF TypeOK, ProcessTypes
<1>h. num_pending_sends' \in [Workers -> 0 .. 2]
  <2>1. \A x \in Workers : Sends("main", x)' + Sends("recovery", x)' \in 0 .. 2
    BY DEF Sends
  <2>2. \A x \in Workers : num_pending_sends'[x] \in 0 .. 2
    BY <1>e, <2>1
  <2>3. num_pending_sends' = [x \in Workers |-> num_pending_sends'[x]]
    BY DEF TypeOK, QueueTypes
  <2> QED
    BY <2>2, <2>3
<1>i. sending' \in [Senders -> [task : Tasks, worker : Workers] \cup {NoSend}]
  BY DEF TypeOK, QueueTypes
<1>1. TypeOK'
  BY <1>f, <1>h, <1>i DEF TypeOK, QueueTypes, ProcessTypes, ReaderTypes, RecoveryTypes, MainTypes
<1>2. QueueInv'
  <2>1. ASSUME NEW x \in Workers PROVE WorkerOK(x)'
    BY <1>a, <1>f DEF QueueInv, WorkerOK, Queued
  <2> QED
    BY <2>1 DEF QueueInv, Queued
<1>3. PipeInv'
  <2>1. ASSUME NEW x \in Workers PROVE PipeOK(x)'
    <3>1. PipeOK(x) /\ WorkerOK(x)
      BY DEF PipeInv, QueueInv
    <3>2. num_pending_sends'[x] = Sends("main", x)' + Sends("recovery", x)'
      BY <1>e
    <3>3. reader[x] = "reading" /\ Alive(x) =>
            /\ Len(sent_tasks[x]) >= Len(stdout[x]) + Len(stdin'[x])
            /\ Len(sent_tasks[x]) = Len(stdout[x]) + Len(stdin'[x]) + num_pending_sends'[x]
      <4> DEFINE a == Len(sent_tasks[x])
                 b == Len(stdout[x])
                 c == Len(stdin[x])
                 d == Len(stdin'[x])
                 n == num_pending_sends[x]
                 m == num_pending_sends'[x]
      <4>1. a \in Nat /\ b \in Nat /\ c \in Nat /\ n \in Nat /\ m \in Nat
        BY <1>h, Typed
      <4>2. reader[x] = "reading" /\ Alive(x) => a = b + c + n
        BY <3>1 DEF PipeOK
      <4>3. Alive(x) => d = (IF x = u THEN c + 1 ELSE c) /\ m = (IF x = u THEN n - 1 ELSE n)
        BY <1>d, <1>f, <1>g DEF Alive
      <4> HIDE DEF a, b, c, d, n, m
      <4>4. reader[x] = "reading" /\ Alive(x) => a >= b + d /\ a = b + d + m
        <5> HIDE DEF EndSend, Inv
        <5> QED
          BY <4>1, <4>2, <4>3 DEF Sends
      <4> QED
        BY <4>4 DEF a, b, d, m
    <3>4. ~Alive(x) => stdin'[x] = stdin[x]
      BY <1>a, <1>f DEF Alive, TypeOK, ProcessTypes
    <3> QED
      BY <3>1, <3>2, <3>3, <3>4 DEF PipeOK, Alive, Queued
  <2> QED
    BY <1>b, <2>1 DEF PipeInv
<1>5. MainInv'
  <2>1. main.pc = "stop" => u \notin main.held
    <3>1. Sends("main", u) + Sends("recovery", u) > 0
      BY <1>j DEF Sends, Senders
    <3> QED
      BY <1>a, <3>1 DEF MainInv
  <2>2. main.held \subseteq Workers
    BY DEF TypeOK, MainTypes
  <2> QED
    BY <1>b, <1>g, <2>1, <2>2 DEF MainInv, Queued
<1>6. RecoveryInv'
  BY <1>b DEF RecoveryInv, Senders
<1>7. AnswersAddUp'
  BY DEF AnswersAddUp, Length
<1> QED
  BY <1>1, <1>2, <1>3, <1>5, <1>6, <1>7

\* The first half of a send, by whomever: all but the numbers of tasks.
LEMMA BeginSendInv ==
  ASSUME TypeOK, QueueInv, PipeInv, NEW s \in Senders, NEW t \in Tasks, BeginSend(s, t),
         main'.held = main.held
  PROVE  /\ QueueTypes' /\ ProcessTypes' /\ ReaderTypes' /\ QueueInv' /\ PipeInv'
         /\ Lengths(sent_tasks') = Lengths(sent_tasks) + 1
         /\ \A r \in Senders : r # s => sending'[r] = sending[r]
         /\ \A x \in main.held :
              num_pending_sends'[x] = num_pending_sends[x] /\ process'[x] = process[x]
<1>1. PICK u \in Workers :
        /\ QueueFor(u)
        /\ sent_tasks' = [sent_tasks EXCEPT ![u] = Append(@, t)]
        /\ num_pending_sends' = [num_pending_sends EXCEPT ![u] = @ + 1]
        /\ sending' = [sending EXCEPT ![s] = [task |-> t, worker |-> u]]
        /\ IF process[u] = "none"
           THEN /\ workers_' = [entry |-> TRUE, queues |-> Append(workers_.queues, u)]
                /\ process' = [process EXCEPT ![u] = "running"]
                /\ reader' = [reader EXCEPT ![u] = "reading"]
           ELSE UNCHANGED <<workers_, process, reader>>
  BY Zenon DEF BeginSend
<1>2. /\ sending[s] = NoSend
      /\ UNCHANGED <<stdin, stdout, crashes, pending_tasks, released, joining_, answered>>
  BY Zenon DEF BeginSend
<1>3. u \in Queued \/ process[u] = "none"
  BY <1>1, QueueForPicks, Zenon
<1>4. u \notin main.held /\ (process[u] = "none" => u \notin Queued)
  BY <1>3 DEF QueueInv, WorkerOK
<1> DEFINE q == Append(sent_tasks[u], t)
           queues == Append(workers_.queues, u)
<1>5. q \in Seq(Tasks) /\ Len(q) = Len(sent_tasks[u]) + 1 /\ q # <<>>
  <2>1. q \in Seq(Tasks) /\ Len(q) = Len(sent_tasks[u]) + 1 /\ Len(sent_tasks[u]) \in Nat
    BY Typed, AppendFacts
  <2>2. Len(q) # 0
    <3> DEFINE n == Len(sent_tasks[u])
    <3>1. n + 1 # 0
      <4> HIDE DEF n
      <4> QED
        BY <2>1 DEF n
    <3> QED
      BY <2>1, <3>1
  <2> QED
    BY <2>1, <2>2, EmptySeq
<1>6. /\ sent_tasks' \in [Workers -> Seq(Tasks)]
      /\ sent_tasks'[u] = q /\ \A x \in Workers \ {u} : sent_tasks'[x] = sent_tasks[x]
  BY <1>1, <1>5 DEF TypeOK, QueueTypes
<1>7. queues \in Seq(Workers) /\ ToSet(queues) = Queued \cup {u}
  BY Typed, ToSetAppend DEF Queued
<1>8. process[u] = "none" => IsInjective(queues)
  BY <1>4, Typed, AppendKeepsInjective DEF QueueInv, Queued
<1> HIDE DEF q, queues
<1>9. /\ process[u] = "none" => /\ workers_'.queues = queues
                                /\ workers_' \in [entry : BOOLEAN, queues : Seq(Workers)]
      /\ process[u] # "none" => workers_' = workers_
  <2>1. PICK list \in Seq(Workers) : list = queues
    BY <1>7
  <2>2. process[u] = "none" => workers_' = [entry |-> TRUE, queues |-> list]
    BY <1>1, <2>1, Zenon DEF queues
  <2>3. process[u] = "none" =>
          workers_'.queues = list /\ workers_' \in [entry : BOOLEAN, queues : Seq(Workers)]
    <3>1. /\ [entry |-> TRUE, queues |-> list].queues = list
          /\ [entry |-> TRUE, queues |-> list] \in [entry : BOOLEAN, queues : Seq(Workers)]
      OBVIOUS
    <3> QED
      BY <2>2, <3>1, Zenon
  <2>4. process[u] # "none" => workers_' = workers_
    BY <1>1, Zenon
  <2> QED
    BY <2>1, <2>3, <2>4
<1>10. Queued' = Queued \cup {u}
  BY <1>3, <1>7, <1>9 DEF Queued
<1>11. /\ process' \in [Workers -> {"none", "running", "closed", "dead"}]
       /\ reader' \in [Workers -> {"none", "reading", "leaving", "starting", "done", "undefined"}]
       /\ \A x \in Workers : process'[x] = IF x = u /\ process[u] = "none" THEN "running" ELSE process[x]
       /\ \A x \in Workers : reader'[x] = IF x = u /\ process[u] = "none" THEN "reading" ELSE reader[x]
  BY <1>1 DEF TypeOK, ProcessTypes, ReaderTypes
<1>12. reader'[u] = "reading" /\ process'[u] \in {"running", "dead"}
  BY <1>3, <1>11 DEF QueueInv
<1>13. /\ sending' \in [Senders -> [task : Tasks, worker : Workers] \cup {NoSend}]
       /\ sending'[s].worker = u
       /\ \A r \in Senders : r # s => sending'[r] = sending[r]
  BY <1>1 DEF TypeOK, QueueTypes
<1>14. \A x \in Workers : num_pending_sends'[x] = IF x = u THEN num_pending_sends[u] + 1
                                                  ELSE num_pending_sends[x]
  BY <1>1 DEF TypeOK, QueueTypes
<1>15. \A x \in Workers : Sends("main", x)' + Sends("recovery", x)'
         = IF x = u THEN Sends("main", x) + Sends("recovery", x) + 1
                    ELSE Sends("main", x) + Sends("recovery", x)
  <2>1. \A x \in Workers : NoSend.worker # x
    BY DEF NoSend, Workers
  <2> QED
    BY <1>2, <1>13, <2>1 DEF Sends, Senders
<1>16. \A x \in Workers : num_pending_sends'[x] = Sends("main", x)' + Sends("recovery", x)'
  <2>1. \A x \in Workers : num_pending_sends[x] = Sends("main", x) + Sends("recovery", x)
    BY DEF PipeInv, PipeOK
  <2> SUFFICES ASSUME NEW x \in Workers
               PROVE  num_pending_sends'[x] = Sends("main", x)' + Sends("recovery", x)'
    OBVIOUS
  <2>2. CASE x = u
    <3>1. num_pending_sends'[u] = num_pending_sends[u] + 1
      BY <1>14, Zenon
    <3>2. Sends("main", u)' + Sends("recovery", u)' = Sends("main", u) + Sends("recovery", u) + 1
      BY <1>15, Zenon
    <3>3. num_pending_sends[u] = Sends("main", u) + Sends("recovery", u)
      BY <2>1, Zenon
    <3> QED
      BY <2>2, <3>1, <3>2, <3>3 DEF Sends
  <2>3. CASE x # u
    BY <1>14, <1>15, <2>1, <2>3, Zenon
  <2> QED
    BY <2>2, <2>3
<1>17. num_pending_sends' \in [Workers -> 0 .. 2]
  <2>1. \A x \in Workers : Sends("main", x)' + Sends("recovery", x)' \in 0 .. 2
    BY DEF Sends
  <2>2. \A x \in Workers : num_pending_sends'[x] \in 0 .. 2
    BY <1>16, <2>1
  <2>3. num_pending_sends' = [x \in Workers |-> num_pending_sends'[x]]
    BY <1>1 DEF TypeOK, QueueTypes
  <2> QED
    BY <2>2, <2>3
<1>18. QueueTypes'
  BY <1>6, <1>9, <1>13, <1>17 DEF QueueTypes, TypeOK
<1>19. ProcessTypes' /\ ReaderTypes'
  BY <1>2, <1>11 DEF TypeOK, ProcessTypes, ReaderTypes
<1>20. ASSUME NEW x \in Workers PROVE WorkerOK(x)'
  <2>1. CASE x # u
    BY <1>2, <1>6, <1>10, <1>11, <2>1 DEF QueueInv, WorkerOK
  <2>2. CASE x = u
    <3>1. WorkerOK(u)
      BY DEF QueueInv
    <3> QED
      BY <1>2, <1>4, <1>10, <1>11, <1>12, <2>2, <3>1 DEF WorkerOK
  <2> QED
    BY <2>1, <2>2
<1>21. QueueInv'
  <2>1. IsInjective(workers_'.queues)
    BY <1>8, <1>9 DEF QueueInv
  <2>2. \A x \in Queued' : process'[x] \in {"running", "dead"} /\ reader'[x] = "reading" /\ x \notin main'.held
    BY <1>4, <1>10, <1>11, <1>12, Typed DEF QueueInv
  <2> QED
    BY <1>20, <2>1, <2>2 DEF QueueInv
<1>22. ASSUME NEW x \in Workers PROVE PipeOK(x)'
  <2>1. CASE x # u
    <3>1. PipeOK(x)
      BY DEF PipeInv
    <3>2. num_pending_sends'[x] = Sends("main", x)' + Sends("recovery", x)'
      BY <1>16
    <3>3. num_pending_sends'[x] = num_pending_sends[x] /\ Alive(x)' = Alive(x)
          /\ sent_tasks'[x] = sent_tasks[x] /\ reader'[x] = reader[x]
          /\ process'[x] = process[x] /\ (x \in Queued' <=> x \in Queued)
      BY <1>6, <1>10, <1>11, <1>14, <2>1 DEF Alive
    <3> QED
      BY <1>2, <3>1, <3>2, <3>3 DEF PipeOK
  <2>2. CASE x = u
    <3> DEFINE a == Len(sent_tasks[u])
               b == Len(stdout[u])
               c == Len(stdin[u])
               n == num_pending_sends[u]
    <3>1. a \in Nat /\ b \in Nat /\ c \in Nat /\ n \in Nat
      <4>1. a \in Nat /\ b \in Nat /\ c \in Nat /\ n \in 0 .. 2
        BY Typed
      <4> HIDE DEF a, b, c, n
      <4> QED
        BY <4>1
    <3>2. /\ PipeOK(u) /\ WorkerOK(u)
          /\ num_pending_sends'[u] = Sends("main", u)' + Sends("recovery", u)'
      BY <1>16 DEF PipeInv, QueueInv
    <3>3. CASE process[u] = "none"
      <4>1. a = 0 /\ b = 0 /\ c = 0 /\ process'[u] = "running" /\ u \notin Queued
        BY <1>4, <1>11, <3>2, <3>3, EmptySeq DEF WorkerOK
      <4>2. n = 0
        <5>1. \A r \in Senders : sending[r].worker # u
          BY <3>3 DEF PipeInv, TypeOK, QueueTypes, NoSend, Workers
        <5> QED
          BY <3>2, <5>1 DEF PipeOK, Sends, Senders
      <4>3. Len(sent_tasks'[u]) = 1 /\ num_pending_sends'[u] = 1
        BY <1>5, <1>6, <1>14, <4>1, <4>2
      <4>4. Len(stdout'[u]) = 0 /\ Len(stdin'[u]) = 0
        BY <1>2, <4>1
      <4> HIDE DEF a, b, c, n
      <4> QED
        BY <2>2, <3>2, <4>1, <4>3, <4>4 DEF PipeOK
    <3>4. CASE process[u] # "none"
      <4>1. u \in Queued /\ reader[u] = "reading" /\ process'[u] = process[u]
        BY <1>3, <1>11, <3>4 DEF QueueInv
      <4>2. /\ a >= b + c /\ (Alive(u) => a = b + c + n)
        BY <3>2, <4>1 DEF PipeOK
      <4>3. Len(sent_tasks'[u]) = a + 1 /\ num_pending_sends'[u] = n + 1
        BY <1>5, <1>6, <1>14
      <4>4. Len(stdout'[u]) = b /\ Len(stdin'[u]) = c /\ Alive(u)' = Alive(u)
        BY <1>2, <4>1 DEF Alive
      <4> HIDE DEF a, b, c, n
      <4>5. /\ a + 1 >= b + c /\ (Alive(u) => a + 1 = b + c + (n + 1))
        BY <3>1, <4>2
      <4>6. PipeOK(u)'
        BY <3>2, <4>1, <4>3, <4>4, <4>5 DEF PipeOK
      <4> QED
        BY <2>2, <4>6
    <3> QED
      BY <3>3, <3>4
  <2> QED
    BY <2>1, <2>2
<1>23. PipeInv'
  <2>1. \A r \in Senders : sending'[r] # NoSend => process'[sending'[r].worker] # "none"
    <3> SUFFICES ASSUME NEW r \in Senders, sending'[r] # NoSend
                 PROVE  process'[sending'[r].worker] # "none"
      OBVIOUS
    <3>1. CASE r = s
      BY <1>12, <1>13, <3>1
    <3>2. CASE r # s
      <4>1. sending[r] # NoSend /\ sending[r].worker \in Workers /\ sending'[r] = sending[r]
        BY <1>13, <3>2 DEF TypeOK, QueueTypes
      <4> QED
        BY <1>11, <4>1 DEF PipeInv
    <3> QED
      BY <3>1, <3>2
  <2> QED
    BY <1>22, <2>1 DEF PipeInv
<1>24. Lengths(sent_tasks') = Lengths(sent_tasks) + 1
  <2>1. /\ Lengths(sent_tasks) \in Nat /\ Lengths(sent_tasks') \in Nat
        /\ Len(sent_tasks[u]) \in Nat
        /\ Lengths(sent_tasks') + Len(sent_tasks[u]) = Lengths(sent_tasks) + Len(sent_tasks'[u])
    BY <1>6, LengthsChange DEF TypeOK, QueueTypes
  <2>2. Len(sent_tasks'[u]) = Len(sent_tasks[u]) + 1
    BY <1>5, <1>6
  <2> QED
    BY <2>1, <2>2
<1>25. \A x \in main.held :
         num_pending_sends'[x] = num_pending_sends[x] /\ process'[x] = process[x]
  BY <1>4, <1>11, <1>14 DEF TypeOK, MainTypes
<1> QED
  BY <1>13, <1>18, <1>19, <1>21, <1>23, <1>24, <1>25

\* The caller sends its next task.
LEMMA SendInv ==
  ASSUME Inv, Send
  PROVE  Inv'
<1> USE DEF Inv
<1>1. /\ main.pc = "send" /\ main.next \in Tasks /\ BeginSend("main", main.next)
      /\ main' = [main EXCEPT !.next = @ + 1] /\ UNCHANGED recoveryVars
  BY DEF Send, TypeOK, MainTypes, Tasks
<1>2. /\ main'.held = main.held /\ main'.pc = main.pc /\ main'.threads = main.threads
      /\ main'.next = main.next + 1
  BY <1>1 DEF TypeOK, MainTypes
<1>3. /\ QueueTypes' /\ ProcessTypes' /\ ReaderTypes' /\ QueueInv' /\ PipeInv'
      /\ Lengths(sent_tasks') = Lengths(sent_tasks) + 1
      /\ \A r \in Senders : r # "main" => sending'[r] = sending[r]
  BY <1>1, <1>2, BeginSendInv DEF Senders
<1>4. UNCHANGED <<pending_tasks, joining_, answered>>
  BY <1>1, Zenon DEF BeginSend
<1>5. TypeOK'
  <2>1. main.next + 1 \in 1 .. NumTasks + 1
    BY <1>1, ConstantsAssumption DEF Tasks
  <2>2. MainTypes'
    BY <1>1, <1>4, <2>1 DEF TypeOK, MainTypes, recoveryVars
  <2> QED
    BY <1>1, <1>3, <2>2 DEF TypeOK, RecoveryTypes, recoveryVars
<1>7. MainInv'
  BY <1>1, <1>2 DEF MainInv
<1>8. RecoveryInv'
  BY <1>1, <1>2, <1>3 DEF RecoveryInv, recoveryVars, Senders
<1>9. AnswersAddUp'
  BY <1>1, <1>2, <1>3, <1>4, SumsAreNat DEF AnswersAddUp, recoveryVars
<1> QED
  BY <1>3, <1>5, <1>7, <1>8, <1>9

\* The recovery thread sends the next remaining task.
LEMMA ResendInv ==
  ASSUME Inv, Resend
  PROVE  Inv'
<1> USE DEF Inv
<1> DEFINE task == recovery.task
           q == task.remaining
<1>1. /\ recovery.pc = "resend" /\ q # <<>> /\ BeginSend("recovery", Head(q))
      /\ recovery' = [recovery EXCEPT !.task.remaining = Tail(@)]
      /\ UNCHANGED <<recovery_tasks_, recovery_running_, recovery_threads_, main>>
  BY DEF Resend
<1>2. q \in Seq(Tasks) /\ Head(q) \in Tasks /\ Tail(q) \in Seq(Tasks) /\ Len(Tail(q)) = Len(q) - 1
  BY <1>1, Typed, TailSet
<1>3. /\ recovery'.id = recovery.id /\ recovery'.pc = recovery.pc
      /\ recovery'.task = [task EXCEPT !.remaining = Tail(@)]
      /\ recovery' = [pc |-> recovery'.pc, id |-> recovery'.id, task |-> recovery'.task]
  BY <1>1 DEF TypeOK, RecoveryTypes
<1>4. task = [failed |-> task.failed, suspected |-> task.suspected, remaining |-> task.remaining]
  BY Typed DEF TaskLists
<1>5. /\ recovery'.task.remaining = Tail(q)
      /\ recovery'.task.failed = task.failed /\ recovery'.task.suspected = task.suspected
      /\ recovery'.task = [failed |-> recovery'.task.failed, suspected |-> recovery'.task.suspected,
                           remaining |-> recovery'.task.remaining]
  BY <1>3, <1>4
<1>6. /\ QueueTypes' /\ ProcessTypes' /\ ReaderTypes' /\ QueueInv' /\ PipeInv'
      /\ Lengths(sent_tasks') = Lengths(sent_tasks) + 1
      /\ \A r \in Senders : r # "recovery" => sending'[r] = sending[r]
      /\ \A x \in main.held :
           num_pending_sends'[x] = num_pending_sends[x] /\ process'[x] = process[x]
  BY <1>1, <1>2, BeginSendInv DEF Senders
<1>7. UNCHANGED <<pending_tasks, joining_, answered>>
  BY <1>1, Zenon DEF BeginSend
<1>8. TypeOK'
  <2>1. recovery'.task \in TaskLists
    BY <1>2, <1>5, Typed DEF TaskLists
  <2>2. RecoveryTypes' /\ MainTypes'
    BY <1>1, <1>3, <1>7, <2>1 DEF TypeOK, RecoveryTypes, MainTypes
  <2> QED
    BY <1>6, <2>2 DEF TypeOK
<1>10. MainInv'
  BY <1>1, <1>3, <1>6 DEF MainInv, RecoveryInv, Senders
<1>11. RecoveryInv'
  BY <1>1, <1>3, <1>5 DEF RecoveryInv
<1>12. AnswersAddUp'
  <2>1. Length(recovery'.task) + 1 = Length(task) /\ Length(recovery'.task) \in Nat
    <3> DEFINE a == Len(q)
               b == Len(task.suspected)
               c == Len(recovery'.task.remaining)
    <3>1. a \in Nat /\ b \in Nat /\ a > 0 /\ c = a - 1
      BY <1>1, <1>2, <1>5, Typed, EmptySeq
    <3>2. Length(recovery'.task) = b + c /\ Length(task) = b + a
      BY <1>5, Zenon DEF Length
    <3> HIDE DEF a, b, c
    <3>3. (b + c) + 1 = b + a /\ b + c \in Nat
      BY <3>1
    <3> QED
      BY <3>2, <3>3
  <2> QED
    BY <1>1, <1>6, <1>7, <2>1, SumsAreNat DEF AnswersAddUp
<1> QED
  BY <1>6, <1>8, <1>10, <1>11, <1>12

\* Every step keeps the invariant.
LEMMA NextInv == Inv /\ [Next]_vars => Inv'
<1> SUFFICES ASSUME Inv, [Next]_vars PROVE Inv'
  OBVIOUS
<1>1. CASE UNCHANGED vars
  <2> USE <1>1 DEF vars, queueVars, processVars, readerVars, recoveryVars
  <2>1. TypeOK'
    BY DEF Inv, TypeOK, QueueTypes, ProcessTypes, ReaderTypes, RecoveryTypes, MainTypes
  <2>2. QueueInv'
    BY DEF Inv, QueueInv, WorkerOK, Queued
  <2>3. PipeInv'
    BY DEF Inv, PipeInv, PipeOK, Sends, Alive, Queued
  <2>4. MainInv' /\ RecoveryInv' /\ AnswersAddUp'
    BY DEF Inv, MainInv, RecoveryInv, AnswersAddUp, Queued
  <2> QED
    BY <2>1, <2>2, <2>3, <2>4 DEF Inv
<1>2. CASE ~Over /\ Main
  BY <1>2, SendInv, EndSendInv, JoinInv, SwapWorkersInv, CloseWorkersInv, StopWorkersInv,
     SwapThreadsInv, JoinThreadsInv DEF Main, Senders
<1>3. CASE ~Over /\ Recovery
  BY <1>3, TakeTasksInv, FindNothingInv, EndThreadInv, StopFailedInv, ResendInv, EndSendInv,
     EndResendInv, RetrySuspectedInv DEF Recovery, Senders
<1>4. ASSUME NEW w \in Workers, ~Over, Reader(w) \/ Process(w) \/ Crash(w)
      PROVE  Inv'
  BY <1>4, ReceiveInv, DetachInv, LeaveInv, LeaveNothingInv, StartRecoveryInv, AnswerInv, ExitInv, CrashInv
     DEF Reader, Process
<1> QED
  BY <1>1, <1>2, <1>3, <1>4 DEF Next

\* The invariant holds in every reachable state: the control of the queue, for
\* every number of tasks, workers and crashes.
THEOREM InvHolds == Spec => []Inv
<1>1. Inv /\ [Next]_vars => Inv'
  BY NextInv
<1> QED
  BY <1>1, InitInv, PTL DEF Spec

\* Every task that was sent is one entry of one list or one answer, whatever
\* crashes: the hand-over from the queue of a dead worker over its reader to the
\* recovery thread and back to a queue neither drops an entry nor doubles one.
THEOREM NothingIsLost == Spec => []AnswersAddUp
<1>1. Inv => AnswersAddUp
  BY DEF Inv
<1> QED
  BY <1>1, InvHolds, PTL

-----------------------------------------------------------------------------
\* Only the end of JoinWorkers deletes queues that Join holds,
LEMMA HeldDropped ==
  ASSUME Inv, [Next]_vars, NEW w \in Workers, w \in main.held, w \notin main'.held
  PROVE  StopWorkers
<1> USE DEF Inv, TypeOK, MainTypes
<1>1. CASE UNCHANGED vars
  BY <1>1 DEF vars
<1>2. CASE Main
  <2>1. Send => main'.held = main.held
    BY DEF Send
  <2>2. EndSend("main") => main'.held = main.held
    BY DEF EndSend
  <2>3. Join => main'.held = main.held
    BY DEF Join
  <2>4. SwapWorkers => main.held = {}
    BY DEF SwapWorkers, MainInv
  <2>5. CloseWorkers => main'.held = main.held
    BY DEF CloseWorkers
  <2>6. SwapThreads => main'.held = main.held
    BY DEF SwapThreads
  <2>7. JoinThreads => main'.held = main.held
    BY DEF JoinThreads
  <2> QED
    BY <1>2, <2>1, <2>2, <2>3, <2>4, <2>5, <2>6, <2>7 DEF Main
<1>3. CASE Recovery
  <2>1. main' = main
    BY <1>3 DEF Recovery, TakeTasks, FindNothing, EndThread, StopFailed, Resend, EndSend,
                EndResend, RetrySuspected, RecoveryUnchanged
  <2> QED
    BY <2>1
<1>4. ASSUME NEW x \in Workers, Reader(x) \/ Process(x) \/ Crash(x) PROVE FALSE
  <2>1. main' = main
    BY <1>4 DEF Reader, Receive, Detach, Leave, LeaveNothing, StartRecovery, Process, Answer, Exit, Crash
  <2> QED
    BY <2>1
<1> QED
  BY <1>1, <1>2, <1>3, <1>4 DEF Next

\* and only the loop over the failed queues deletes those.
LEMMA FailedDropped ==
  ASSUME Inv, [Next]_vars, NEW w \in Workers,
         w \in ToSet(recovery.task.failed), w \notin ToSet(recovery'.task.failed)
  PROVE  StopFailed
<1>1. CASE UNCHANGED vars
  BY <1>1 DEF vars, recoveryVars
<1>2. CASE Main
  <2>1. recovery' = recovery
    BY <1>2 DEF Main, Send, Join, SwapWorkers, CloseWorkers, StopWorkers, SwapThreads, JoinThreads,
                EndSend, MainUnchanged, recoveryVars
  <2> QED
    BY <2>1
<1>3. CASE Recovery
  <2> USE DEF Inv, TypeOK, RecoveryTypes
  <2>1. TakeTasks => recovery.task.failed = <<>>
    BY DEF TakeTasks, RecoveryInv, NoTasks
  <2>2. FindNothing \/ EndThread \/ EndResend => recovery'.task = recovery.task
    BY DEF FindNothing, EndThread, EndResend
  <2>3. Resend => recovery'.task.failed = recovery.task.failed
    <3> SUFFICES ASSUME Resend PROVE recovery'.task.failed = recovery.task.failed
      OBVIOUS
    <3>1. recovery' = [recovery EXCEPT !.task.remaining = Tail(@)]
      BY Zenon DEF Resend
    <3>2. recovery'.task = [recovery.task EXCEPT !.remaining = Tail(@)]
      BY <3>1
    <3>3. recovery.task = [failed |-> recovery.task.failed, suspected |-> recovery.task.suspected,
                           remaining |-> recovery.task.remaining]
      BY Typed DEF TaskLists
    <3> QED
      BY <3>2, <3>3
  <2>4. EndSend("recovery") => recovery' = recovery
    BY DEF EndSend, recoveryVars
  <2>5. RetrySuspected => recovery'.task.failed = recovery.task.failed
    <3> SUFFICES ASSUME RetrySuspected PROVE recovery'.task.failed = recovery.task.failed
      OBVIOUS
    <3>1. recovery'.task = recovery.task \/ recovery'.task = [recovery.task EXCEPT !.suspected = Tail(@)]
      BY DEF RetrySuspected
    <3>2. recovery.task = [failed |-> recovery.task.failed, suspected |-> recovery.task.suspected,
                           remaining |-> recovery.task.remaining]
      BY Typed DEF TaskLists
    <3> QED
      BY <3>1, <3>2
  <2> QED
    BY <1>3, <2>1, <2>2, <2>3, <2>4, <2>5, ToSetEmpty DEF Recovery
<1>4. ASSUME NEW x \in Workers, Reader(x) \/ Process(x) \/ Crash(x) PROVE FALSE
  <2>1. recovery'.task = recovery.task
    BY <1>4 DEF Reader, Receive, Detach, Leave, LeaveNothing, StartRecovery, Process, Answer, Exit, Crash, recoveryVars,
                Inv, TypeOK, RecoveryTypes
  <2> QED
    BY <2>1
<1> QED
  BY <1>1, <1>2, <1>3, <1>4 DEF Next

\* A queue is only deleted, by JoinWorkers or by the recovery thread, when its
\* reader is through with it and no sender is between the two locks of a send.
THEOREM DeletedWhenUnused == Spec => DeletedUnused
<1> DEFINE Dropped(w) ==
      \/ w \in main.held \ main'.held
      \/ w \in ToSet(recovery.task.failed) /\ w \notin ToSet(recovery'.task.failed)
<1>1. ASSUME Inv, [Next]_vars, NEW w \in Workers, Dropped(w)
      PROVE  reader[w] = "done" /\ \A s \in Senders : sending[s].worker # w
  <2>1. reader[w] = "done" /\ num_pending_sends[w] = 0
    <3>1. CASE w \in main.held \ main'.held
      <4>1. StopWorkers
        BY <1>1, <3>1, HeldDropped
      <4> QED
        BY <3>1, <4>1, <1>1 DEF StopWorkers, Inv, MainInv
    <3>2. CASE w \in ToSet(recovery.task.failed) /\ w \notin ToSet(recovery'.task.failed)
      <4>1. StopFailed
        BY <1>1, <3>2, FailedDropped
      <4> DEFINE q == recovery.task.failed
      <4>2. q \in Seq(Workers) /\ q # <<>>
        BY <1>1, <3>2, Typed, ToSetEmpty DEF Inv
      <4>3. recovery' = [recovery EXCEPT !.task.failed = Tail(@)]
        BY <4>1, <4>2, Zenon DEF StopFailed
      <4>4. recovery'.task.failed = Tail(q)
        <5>1. recovery'.task = [recovery.task EXCEPT !.failed = Tail(@)]
          BY <1>1, <4>3 DEF Inv, TypeOK, RecoveryTypes
        <5>2. recovery.task = [failed |-> recovery.task.failed, suspected |-> recovery.task.suspected,
                               remaining |-> recovery.task.remaining]
          BY <1>1, Typed DEF TaskLists, Inv
        <5> QED
          BY <5>1, <5>2
      <4>5. ToSet(q) = {Head(q)} \cup ToSet(Tail(q))
        BY <4>2, TailSet
      <4>6. w = Head(q)
        BY <3>2, <4>4, <4>5
      <4> QED
        BY <4>1, <4>2, <4>6, Zenon DEF StopFailed
    <3> QED
      BY <1>1, <3>1, <3>2
  <2>2. num_pending_sends[w] = Sends("main", w) + Sends("recovery", w)
    BY <1>1 DEF Inv, PipeInv, PipeOK
  <2> QED
    BY <2>1, <2>2 DEF Sends, Senders
<1>2. Inv /\ [Next]_vars =>
        [\A w \in Workers : Dropped(w) => reader[w] = "done" /\ \A s \in Senders : sending[s].worker # w]_vars
  BY <1>1
<1> QED
  BY <1>2, InvHolds, PTL DEF Spec, DeletedUnused

-----------------------------------------------------------------------------
\* The places of the tasks

\* Moving tasks from one place to another keeps the partition.
LEMMA Moves ==
  ASSUME NEW c, NEW d, Partition(c), NEW a \in Slots, NEW b \in Slots, a # b,
         NEW M \in SUBSET c[a], d[a] = c[a] \ M, d[b] = c[b] \cup M,
         \A slot \in Slots \ {a, b} : d[slot] = c[slot]
  PROVE  Partition(d)
<1>1. \A x, y \in Slots : x # y => c[x] \cap c[y] = {}
  BY DEF Partition
<1>2. \A x, y \in Slots : x # y => d[x] \cap d[y] = {}
  <2> SUFFICES ASSUME NEW x \in Slots, NEW y \in Slots, x # y, NEW t, t \in d[x], t \in d[y]
               PROVE  FALSE
    OBVIOUS
  <2>1. \A z \in Slots : t \in d[z] => t \in c[z] \/ (z = b /\ t \in M)
    OBVIOUS
  <2>2. t \in M => t \notin d[a] /\ \A z \in Slots : z # a => t \notin c[z]
    BY <1>1
  <2>3. CASE t \in M
    <3>1. x = b /\ y = b
      BY <2>1, <2>2, <2>3
    <3> QED
      BY <3>1
  <2>4. CASE t \notin M
    BY <1>1, <2>1, <2>4
  <2> QED
    BY <2>3, <2>4
<1>3. \A t \in Tasks : \E x \in Slots : t \in d[x]
  <2> SUFFICES ASSUME NEW t \in Tasks PROVE \E x \in Slots : t \in d[x]
    OBVIOUS
  <2>1. PICK x \in Slots : t \in c[x]
    BY DEF Partition
  <2>2. CASE t \in M
    BY <2>2
  <2>3. CASE t \notin M
    <3>1. t \in d[x]
      BY <2>1, <2>3
    <3> QED
      BY <3>1
  <2> QED
    BY <2>2, <2>3
<1> QED
  BY <1>2, <1>3 DEF Partition

\* The places by name,
LEMMA SlotNames ==
  /\ \A place \in Places : <<place, 0>> \in Slots
  /\ \A w \in Workers : <<"queue", w>> \in Slots /\ <<"reader", w>> \in Slots
  /\ \A slot \in Slots :
       \/ slot \in {<<"unsent", 0>>, <<"answered", 0>>, <<"left suspected", 0>>, <<"left remaining", 0>>,
                    <<"taken suspected", 0>>, <<"taken remaining", 0>>}
       \/ \E w \in Workers : slot = <<"queue", w>> \/ slot = <<"reader", w>>
<1>1. Slots = (Places \X {0}) \cup ({"queue", "reader"} \X Workers)
  BY DEF Slots
<1>2. \A place \in Places : <<place, 0>> \in Places \X {0}
  OBVIOUS
<1>3. \A w \in Workers : /\ <<"queue", w>> \in {"queue", "reader"} \X Workers
                         /\ <<"reader", w>> \in {"queue", "reader"} \X Workers
  OBVIOUS
<1>4. ASSUME NEW slot \in Places \X {0}
      PROVE  slot \in {<<"unsent", 0>>, <<"answered", 0>>, <<"left suspected", 0>>,
                       <<"left remaining", 0>>, <<"taken suspected", 0>>, <<"taken remaining", 0>>}
  <2>1. PICK place \in Places : slot = <<place, 0>>
    OBVIOUS
  <2> QED
    BY <2>1 DEF Places
<1>5. ASSUME NEW slot \in {"queue", "reader"} \X Workers
      PROVE  \E w \in Workers : slot = <<"queue", w>> \/ slot = <<"reader", w>>
  <2>1. PICK place \in {"queue", "reader"}, w \in Workers : slot = <<place, w>>
    OBVIOUS
  <2> QED
    BY <2>1
<1> QED
  BY <1>1, <1>2, <1>3, <1>4, <1>5

\* what is there,
LEMMA HeldAt ==
  /\ TasksAt[<<"unsent", 0>>] = main.next .. NumTasks
  /\ TasksAt[<<"answered", 0>>] = {t \in Tasks : answered[t] # 0}
  /\ TasksAt[<<"left suspected", 0>>] = ToSet(recovery_tasks_.suspected)
  /\ TasksAt[<<"left remaining", 0>>] = ToSet(recovery_tasks_.remaining)
  /\ TasksAt[<<"taken suspected", 0>>] = ToSet(recovery.task.suspected)
  /\ TasksAt[<<"taken remaining", 0>>] = ToSet(recovery.task.remaining)
  /\ \A w \in Workers : /\ TasksAt[<<"queue", w>>] = ToSet(sent_tasks[w])
                        /\ TasksAt[<<"reader", w>>] = ToSet(pending_tasks[w])
<1>1. \A slot \in Slots : TasksAt[slot] = Contents(slot[1], slot[2])
  BY Zenon DEF TasksAt
<1>2. \A place \in Places : TasksAt[<<place, 0>>] = Contents(place, 0)
  BY <1>1, SlotNames
<1>3. \A w \in Workers : /\ TasksAt[<<"queue", w>>] = Contents("queue", w)
                         /\ TasksAt[<<"reader", w>>] = Contents("reader", w)
  BY <1>1, SlotNames
<1>4. {"unsent", "answered", "left suspected", "left remaining", "taken suspected",
       "taken remaining"} = Places
  BY DEF Places
<1>5. /\ Contents("unsent", 0) = main.next .. NumTasks
      /\ Contents("answered", 0) = {t \in Tasks : answered[t] # 0}
      /\ Contents("left suspected", 0) = ToSet(recovery_tasks_.suspected)
      /\ Contents("left remaining", 0) = ToSet(recovery_tasks_.remaining)
      /\ Contents("taken suspected", 0) = ToSet(recovery.task.suspected)
      /\ Contents("taken remaining", 0) = ToSet(recovery.task.remaining)
  BY DEF Contents
<1>6. \A w \in Workers : /\ Contents("queue", w) = ToSet(sent_tasks[w])
                         /\ Contents("reader", w) = ToSet(pending_tasks[w])
  BY DEF Contents
<1> QED
  BY <1>2, <1>3, <1>4, <1>5, <1>6

\* and what will be there.
LEMMA HeldNext ==
  /\ TasksAt'[<<"unsent", 0>>] = main'.next .. NumTasks
  /\ TasksAt'[<<"answered", 0>>] = {t \in Tasks : answered'[t] # 0}
  /\ TasksAt'[<<"left suspected", 0>>] = ToSet(recovery_tasks_'.suspected)
  /\ TasksAt'[<<"left remaining", 0>>] = ToSet(recovery_tasks_'.remaining)
  /\ TasksAt'[<<"taken suspected", 0>>] = ToSet(recovery'.task.suspected)
  /\ TasksAt'[<<"taken remaining", 0>>] = ToSet(recovery'.task.remaining)
  /\ \A w \in Workers : /\ TasksAt'[<<"queue", w>>] = ToSet(sent_tasks'[w])
                        /\ TasksAt'[<<"reader", w>>] = ToSet(pending_tasks'[w])
<1>1. \A slot \in Slots : TasksAt'[slot] = Contents(slot[1], slot[2])'
  BY Zenon DEF TasksAt
<1>2. \A place \in Places : TasksAt'[<<place, 0>>] = Contents(place, 0)'
  BY <1>1, SlotNames
<1>3. \A w \in Workers : /\ TasksAt'[<<"queue", w>>] = Contents("queue", w)'
                         /\ TasksAt'[<<"reader", w>>] = Contents("reader", w)'
  BY <1>1, SlotNames
<1>4. {"unsent", "answered", "left suspected", "left remaining", "taken suspected",
       "taken remaining"} = Places
  BY DEF Places
<1>5. /\ Contents("unsent", 0)' = main'.next .. NumTasks
      /\ Contents("answered", 0)' = {t \in Tasks : answered'[t] # 0}
      /\ Contents("left suspected", 0)' = ToSet(recovery_tasks_'.suspected)
      /\ Contents("left remaining", 0)' = ToSet(recovery_tasks_'.remaining)
      /\ Contents("taken suspected", 0)' = ToSet(recovery'.task.suspected)
      /\ Contents("taken remaining", 0)' = ToSet(recovery'.task.remaining)
  BY DEF Contents
<1>6. \A w \in Workers : /\ Contents("queue", w)' = ToSet(sent_tasks'[w])
                         /\ Contents("reader", w)' = ToSet(pending_tasks'[w])
  BY DEF Contents
<1> QED
  BY <1>2, <1>3, <1>4, <1>5, <1>6

\* A place whose variable does not change keeps its tasks.
LEMMA Frame ==
  ASSUME NEW A,
         <<"unsent", 0>> \in A \/ main'.next = main.next,
         <<"answered", 0>> \in A \/ answered' = answered,
         <<"left suspected", 0>> \in A \/ recovery_tasks_'.suspected = recovery_tasks_.suspected,
         <<"left remaining", 0>> \in A \/ recovery_tasks_'.remaining = recovery_tasks_.remaining,
         <<"taken suspected", 0>> \in A \/ recovery'.task.suspected = recovery.task.suspected,
         <<"taken remaining", 0>> \in A \/ recovery'.task.remaining = recovery.task.remaining,
         \A w \in Workers : <<"queue", w>> \in A \/ sent_tasks'[w] = sent_tasks[w],
         \A w \in Workers : <<"reader", w>> \in A \/ pending_tasks'[w] = pending_tasks[w]
  PROVE  \A slot \in Slots \ A : TasksAt'[slot] = TasksAt[slot]
<1> SUFFICES ASSUME NEW slot \in Slots, slot \notin A PROVE TasksAt'[slot] = TasksAt[slot]
  OBVIOUS
<1>1. CASE slot = <<"unsent", 0>>
  BY <1>1, HeldAt, HeldNext, Zenon
<1>2. CASE slot = <<"answered", 0>>
  BY <1>2, HeldAt, HeldNext, Zenon
<1>3. CASE slot = <<"left suspected", 0>>
  BY <1>3, HeldAt, HeldNext, Zenon
<1>4. CASE slot = <<"left remaining", 0>>
  BY <1>4, HeldAt, HeldNext, Zenon
<1>5. CASE slot = <<"taken suspected", 0>>
  BY <1>5, HeldAt, HeldNext, Zenon
<1>6. CASE slot = <<"taken remaining", 0>>
  BY <1>6, HeldAt, HeldNext, Zenon
<1>7. ASSUME NEW w \in Workers, slot = <<"queue", w>> PROVE TasksAt'[slot] = TasksAt[slot]
  <2>1. sent_tasks'[w] = sent_tasks[w]
    BY <1>7
  <2>2. TasksAt[<<"queue", w>>] = ToSet(sent_tasks[w]) /\ TasksAt'[<<"queue", w>>] = ToSet(sent_tasks'[w])
    BY HeldAt, HeldNext
  <2> QED
    BY <1>7, <2>1, <2>2, Zenon
<1>8. ASSUME NEW w \in Workers, slot = <<"reader", w>> PROVE TasksAt'[slot] = TasksAt[slot]
  <2>1. pending_tasks'[w] = pending_tasks[w]
    BY <1>8
  <2>2. TasksAt[<<"reader", w>>] = ToSet(pending_tasks[w]) /\ TasksAt'[<<"reader", w>>] = ToSet(pending_tasks'[w])
    BY HeldAt, HeldNext
  <2> QED
    BY <1>8, <2>1, <2>2, Zenon
<1> QED
  BY <1>1, <1>2, <1>3, <1>4, <1>5, <1>6, <1>7, <1>8, SlotNames

\* Nothing moves.
LEMMA SamePartition ==
  ASSUME Partition(TasksAt), \A slot \in Slots : TasksAt'[slot] = TasksAt[slot]
  PROVE  Partition(TasksAt)'
BY DEF Partition

\* A step that leaves all lists and answers as they are.
LEMMA OnceFrame ==
  ASSUME OnceInv, main'.next = main.next, answered' = answered,
         recovery_tasks_'.suspected = recovery_tasks_.suspected,
         recovery_tasks_'.remaining = recovery_tasks_.remaining,
         recovery'.task.suspected = recovery.task.suspected,
         recovery'.task.remaining = recovery.task.remaining,
         sent_tasks' = sent_tasks, pending_tasks' = pending_tasks
  PROVE  OnceInv'
<1>1. \A w \in Workers : sent_tasks'[w] = sent_tasks[w] /\ pending_tasks'[w] = pending_tasks[w]
  BY Zenon
<1>2. \A slot \in Slots \ {} : TasksAt'[slot] = TasksAt[slot]
  BY <1>1, Frame
<1>3. Partition(TasksAt)'
  BY <1>2, SamePartition DEF OnceInv
<1>4. NoRepeats'
  BY DEF OnceInv, NoRepeats
<1> QED
  BY <1>3, <1>4 DEF OnceInv

\* A step that leaves the pipes of a worker and its queue as they are.
LEMMA OrderFrame ==
  ASSUME NEW w \in Workers, InOrder(w),
         reader'[w] = "reading" =>
           /\ reader[w] = "reading" /\ sent_tasks'[w] = sent_tasks[w] /\ stdout'[w] = stdout[w]
           /\ Alive(w)' => Alive(w) /\ stdin'[w] = stdin[w],
         \A s \in Senders : sending'[s].worker = w => sending'[s] = sending[s]
  PROVE  InOrder(w)'
BY DEF InOrder

\* The same for all workers.
LEMMA AllOrderFrame ==
  ASSUME TypeOK, OrderInv, sending' = sending,
         \A w \in Workers : reader'[w] = "reading" =>
           /\ reader[w] = "reading" /\ sent_tasks'[w] = sent_tasks[w] /\ stdout'[w] = stdout[w]
           /\ Alive(w)' => Alive(w) /\ stdin'[w] = stdin[w]
  PROVE  OrderInv'
<1> SUFFICES ASSUME NEW w \in Workers PROVE InOrder(w)'
  BY DEF OrderInv
<1> QED
  BY OrderFrame DEF OrderInv

\* In the beginning no task is sent.
LEMMA InitLists == Init => ListsInv
<1> SUFFICES ASSUME Init PROVE ListsInv
  OBVIOUS
<1>1. /\ TasksAt[<<"unsent", 0>>] = Tasks
      /\ \A slot \in Slots : slot # <<"unsent", 0>> => TasksAt[slot] = {}
  <2>1. /\ main.next = 1 /\ \A t \in Tasks : answered[t] = 0
        /\ recovery_tasks_.suspected = <<>> /\ recovery_tasks_.remaining = <<>>
        /\ recovery.task.suspected = <<>> /\ recovery.task.remaining = <<>>
        /\ \A w \in Workers : sent_tasks[w] = <<>> /\ pending_tasks[w] = <<>>
    BY DEF Init, NoTasks
  <2> QED
    BY <2>1, HeldAt, SlotNames, ToSetEmpty, Zenon DEF Tasks
<1>2. Partition(TasksAt)
  BY <1>1, SlotNames DEF Partition, Places
<1>3. NoRepeats
  BY DEF Init, NoTasks, NoRepeats, IsInjective
<1>4. OrderInv
  BY DEF Init, OrderInv, InOrder
<1>5. \A t \in Tasks : answered[t] \in {0, 1}
  BY DEF Init
<1> QED
  BY <1>2, <1>3, <1>4, <1>5 DEF ListsInv, OnceInv

\* A step that moves tasks to one place.
LEMMA HeldMoves ==
  ASSUME NEW c, Partition(c), NEW a \in Slots, NEW b \in Slots, a # b,
         NEW M \in SUBSET c[a], TasksAt'[a] = c[a] \ M, TasksAt'[b] = c[b] \cup M,
         \A slot \in Slots \ {a, b} : TasksAt'[slot] = c[slot]
  PROVE  Partition(TasksAt)'
<1>1. PICK d : d = TasksAt'
  OBVIOUS
<1>2. Partition(d)
  BY <1>1, Moves
<1> QED
  BY <1>1, <1>2 DEF Partition

\* From a queue to its reader.
LEMMA DetachLists ==
  ASSUME Inv, ListsInv, NEW w \in Workers, Detach(w)
  PROVE  ListsInv'
<1> USE DEF Detach, processVars, recoveryVars
<1> DEFINE q == sent_tasks[w]
           a == <<"queue", w>>
           b == <<"reader", w>>
<1>1. /\ q \in Seq(Tasks) /\ pending_tasks[w] = <<>>
      /\ sent_tasks'[w] = <<>> /\ pending_tasks'[w] = q
      /\ \A x \in Workers \ {w} :
           sent_tasks'[x] = sent_tasks[x] /\ pending_tasks'[x] = pending_tasks[x]
  BY Typed DEF Inv, QueueInv, WorkerOK, TypeOK, QueueTypes, ReaderTypes
<1>2. a \in Slots /\ b \in Slots /\ a # b
  BY SlotNames
<1>3. /\ TasksAt[a] = ToSet(q) /\ TasksAt[b] = {}
      /\ TasksAt'[a] = {} /\ TasksAt'[b] = ToSet(q)
  BY <1>1, HeldAt, HeldNext, ToSetEmpty
<1>4. \A slot \in Slots \ {a, b} : TasksAt'[slot] = TasksAt[slot]
  <2>1. \A x \in Workers : <<"queue", x>> \in {a, b} \/ sent_tasks'[x] = sent_tasks[x]
    BY <1>1
  <2>2. \A x \in Workers : <<"reader", x>> \in {a, b} \/ pending_tasks'[x] = pending_tasks[x]
    BY <1>1
  <2> HIDE DEF a, b
  <2> QED
    BY <2>1, <2>2, Frame
<1>5. Partition(TasksAt)'
  <2>1. /\ TasksAt[a] \in SUBSET TasksAt[a] /\ TasksAt'[a] = TasksAt[a] \ TasksAt[a]
        /\ TasksAt'[b] = TasksAt[b] \cup TasksAt[a]
    BY <1>3
  <2> HIDE DEF a, b, q
  <2> QED
    BY <1>2, <1>4, <2>1, HeldMoves DEF ListsInv, OnceInv
<1>6. NoRepeats'
  <2>1. IsInjective(<<>>)
    BY DEF IsInjective
  <2> QED
    BY <1>1, <2>1 DEF NoRepeats, ListsInv, OnceInv
<1>7. OrderInv'
  <2>1. \A x \in Workers : reader'[x] = "reading" => x # w /\ reader[x] = "reading"
    BY DEF Inv, TypeOK, ReaderTypes
  <2> QED
    BY <1>1, <2>1, AllOrderFrame DEF Inv, ListsInv, Alive
<1> QED
  BY <1>5, <1>6, <1>7 DEF ListsInv, OnceInv

\* A queue that a sender is about to write to counts a pending send.
LEMMA PendingSend ==
  ASSUME Inv, NEW w \in Workers
  PROVE  /\ num_pending_sends[w] \in Nat
         /\ \A s \in Senders : sending[s].worker = w => num_pending_sends[w] >= 1
<1>1. num_pending_sends[w] = Sends("main", w) + Sends("recovery", w)
  BY DEF Inv, PipeInv, PipeOK
<1> QED
  BY <1>1 DEF Sends, Senders

\* From a queue to the answers: the task that is forgotten is the one that is
\* answered, as the answers come in the order of the queue.
LEMMA ReceiveLists ==
  ASSUME Inv, ListsInv, NEW w \in Workers, Receive(w)
  PROVE  ListsInv'
<1> USE DEF Receive, readerVars, recoveryVars
<1> DEFINE q == sent_tasks[w]
           o == stdout[w]
           i == stdin[w]
           t == Head(o)
           a == <<"queue", w>>
           b == <<"answered", 0>>
<1>1. /\ q \in Seq(Tasks) /\ o \in Seq(Tasks) /\ o # <<>> /\ i \in Seq(Tasks)
      /\ Len(q) \in Nat /\ Len(o) \in Nat /\ Len(i) \in Nat
      /\ Len(q) >= Len(o) + Len(i)
  BY Typed DEF Inv, PipeInv, PipeOK
<1>2. /\ t \in Tasks /\ Tail(o) \in Seq(Tasks) /\ Len(Tail(o)) = Len(o) - 1 /\ Len(o) > 0
      /\ t = o[1] /\ \A j \in 1 .. Len(o) - 1 : Tail(o)[j] = o[j + 1]
  BY <1>1, TailSet
<1>3. q # <<>>
  <2> DEFINE l == Len(q)
             m == Len(o)
             n == Len(i)
  <2>1. l \in Nat /\ m \in Nat /\ n \in Nat /\ l >= m + n /\ m > 0
    BY <1>1, <1>2
  <2>2. l > 0
    <3> HIDE DEF l, m, n
    <3> QED
      BY <2>1
  <2> QED
    BY <2>2, EmptySeq
<1>4. /\ Tail(q) \in Seq(Tasks) /\ Len(Tail(q)) = Len(q) - 1 /\ Len(q) > 0
      /\ Head(q) = q[1] /\ \A j \in 1 .. Len(q) - 1 : Tail(q)[j] = q[j + 1]
      /\ ToSet(q) = {Head(q)} \cup ToSet(Tail(q))
  BY <1>1, <1>3, TailSet
<1>5. InOrder(w)
  BY DEF ListsInv, OrderInv
<1>6. Head(q) = t
  <2>1. 1 \in 1 .. Len(o)
    BY <1>1, <1>2
  <2>2. \A j \in 1 .. Len(o) : q[j] = o[j]
    BY <1>5 DEF InOrder
  <2> QED
    BY <1>2, <1>4, <2>1, <2>2
<1>7. /\ sent_tasks'[w] = Tail(q) /\ stdout'[w] = Tail(o)
      /\ \A x \in Workers \ {w} : sent_tasks'[x] = sent_tasks[x] /\ stdout'[x] = stdout[x]
      /\ answered' = [answered EXCEPT ![t] = @ + 1]
  BY DEF Inv, TypeOK, QueueTypes, ProcessTypes
<1>8. a \in Slots /\ b \in Slots /\ a # b
  BY SlotNames DEF Places
<1>9. /\ TasksAt[a] = ToSet(q) /\ TasksAt'[a] = ToSet(Tail(q))
      /\ TasksAt[b] = {x \in Tasks : answered[x] # 0}
      /\ TasksAt'[b] = {x \in Tasks : answered'[x] # 0}
  BY <1>7, HeldAt, HeldNext
<1>a. IsInjective(q) /\ IsInjective(Tail(q)) /\ t \notin ToSet(Tail(q))
  BY <1>1, <1>3, <1>6, TailInjective DEF ListsInv, OnceInv, NoRepeats
<1>b. answered[t] = 0
  <2>1. t \in ToSet(q)
    BY <1>4, <1>6
  <2>2. TasksAt[a] \cap TasksAt[b] = {}
    <3> HIDE DEF a, b
    <3> QED
      BY <1>8 DEF ListsInv, OnceInv, Partition
  <2> QED
    BY <1>2, <1>9, <2>1, <2>2
<1>c. /\ answered' \in [Tasks -> Nat] /\ answered'[t] = 1
      /\ \A x \in Tasks \ {t} : answered'[x] = answered[x]
  BY <1>2, <1>7, <1>b DEF Inv, TypeOK, MainTypes
<1>d. TasksAt'[a] = TasksAt[a] \ {t} /\ TasksAt'[b] = TasksAt[b] \cup {t} /\ {t} \in SUBSET TasksAt[a]
  <2>1. ToSet(Tail(q)) = ToSet(q) \ {t} /\ t \in ToSet(q)
    BY <1>4, <1>6, <1>a
  <2>2. {x \in Tasks : answered'[x] # 0} = {x \in Tasks : answered[x] # 0} \cup {t}
    BY <1>2, <1>c
  <2> QED
    BY <1>9, <2>1, <2>2
<1>e. \A slot \in Slots \ {a, b} : TasksAt'[slot] = TasksAt[slot]
  <2>1. \A x \in Workers : <<"queue", x>> \in {a, b} \/ sent_tasks'[x] = sent_tasks[x]
    BY <1>7
  <2>2. b = <<"answered", 0>>
    OBVIOUS
  <2> HIDE DEF a, b
  <2> QED
    BY <2>1, <2>2, Frame
<1>f. Partition(TasksAt)'
  <2> HIDE DEF a, b, t
  <2> QED
    BY <1>8, <1>d, <1>e, HeldMoves DEF ListsInv, OnceInv
<1>g. NoRepeats'
  BY <1>7, <1>a DEF NoRepeats, ListsInv, OnceInv
<1>h. \A x \in Tasks : answered'[x] \in {0, 1}
  BY <1>c DEF ListsInv, OnceInv
<1>i. OrderInv'
  <2>1. ASSUME NEW x \in Workers, x # w PROVE InOrder(x)'
    BY <1>7, <2>1, OrderFrame DEF ListsInv, OrderInv, Alive
  <2>2. InOrder(w)'
    <3> DEFINE l == Len(q)
               m == Len(o)
               n == Len(i)
               r == Tail(q)
               p == Tail(o)
               v == sending
    <3>1. /\ l \in Nat /\ m \in Nat /\ n \in Nat /\ l >= m + n /\ m > 0
          /\ Len(r) = l - 1 /\ Len(p) = m - 1
          /\ \A j \in 1 .. l - 1 : r[j] = q[j + 1]
          /\ \A j \in 1 .. m - 1 : p[j] = o[j + 1]
      BY <1>1, <1>2, <1>4
    <3>2. /\ \A j \in 1 .. m : q[j] = o[j]
          /\ Alive(w) => /\ \A j \in 1 .. n : q[m + j] = i[j]
                         /\ \A s \in Senders : v[s].worker = w => q[l] = v[s].task
      BY <1>5 DEF InOrder
    <3>2a. reader[w] = "reading" /\ Alive(w)' = Alive(w) /\ sending' = v
      BY DEF Alive
    <3>3. Alive(w) /\ (\E s \in Senders : v[s].worker = w) => l > m + n
      <4> SUFFICES ASSUME Alive(w), NEW s \in Senders, v[s].worker = w PROVE l > m + n
        OBVIOUS
      <4>1. num_pending_sends[w] >= 1
        BY PendingSend
      <4>2. l = m + n + num_pending_sends[w]
        BY DEF Inv, PipeInv, PipeOK
      <4> HIDE DEF l, m, n
      <4>3. num_pending_sends[w] \in Nat
        BY PendingSend
      <4> QED
        BY <3>1, <4>1, <4>2, <4>3
    <3> HIDE DEF q, o, i, l, m, n, r, p, v
    <3>4. \A j \in 1 .. m - 1 : r[j] = p[j]
      <4> TAKE j \in 1 .. m - 1
      <4>1. j + 1 \in 1 .. m /\ j \in 1 .. l - 1
        BY <3>1
      <4> QED
        BY <3>1, <3>2, <4>1
    <3>5. Alive(w) => \A j \in 1 .. n : r[(m - 1) + j] = i[j]
      <4> SUFFICES ASSUME Alive(w), NEW j \in 1 .. n PROVE r[(m - 1) + j] = i[j]
        OBVIOUS
      <4>1. (m - 1) + j \in 1 .. l - 1 /\ ((m - 1) + j) + 1 = m + j
        BY <3>1
      <4> QED
        BY <3>1, <3>2, <4>1
    <3>6. Alive(w) => \A s \in Senders : v[s].worker = w => r[l - 1] = v[s].task
      <4> SUFFICES ASSUME Alive(w), NEW s \in Senders, v[s].worker = w PROVE r[l - 1] = v[s].task
        OBVIOUS
      <4>1. l - 1 \in 1 .. l - 1 /\ (l - 1) + 1 = l
        BY <3>1, <3>3
      <4> QED
        BY <3>1, <3>2, <4>1
    <3>7. sent_tasks'[w] = r /\ stdout'[w] = p /\ stdin'[w] = i
      BY <1>7 DEF r, p, i, q, o
    <3> QED
      BY <3>1, <3>2a, <3>4, <3>5, <3>6, <3>7 DEF InOrder, n
  <2> QED
    BY <2>1, <2>2 DEF OrderInv
<1> QED
  BY <1>f, <1>g, <1>h, <1>i DEF ListsInv, OnceInv

HalfWay(c, a, b, M) ==
  /\ Partition(c) /\ c[a] = TasksAt[a] \ M /\ c[b] = TasksAt[b] \cup M
  /\ \A slot \in Slots \ {a, b} : c[slot] = TasksAt[slot]

\* The first half of a step that moves tasks to two places.
LEMMA HalfMoved ==
  ASSUME Partition(TasksAt), NEW a \in Slots, NEW b \in Slots, a # b, NEW M \in SUBSET TasksAt[a]
  PROVE  \E c : HalfWay(c, a, b, M)
<1> DEFINE c == [TasksAt EXCEPT ![a] = @ \ M, ![b] = @ \cup M]
<1>1. /\ c[a] = TasksAt[a] \ M /\ c[b] = TasksAt[b] \cup M
      /\ \A slot \in Slots \ {a, b} : c[slot] = TasksAt[slot]
  BY DEF TasksAt
<1> HIDE DEF c
<1>2. Partition(c)
  BY <1>1, Moves
<1> QED
  BY <1>1, <1>2 DEF HalfWay

\* From a reader to the recovery: the first task is suspected, the rest remain.
LEMMA LeaveLists ==
  ASSUME Inv, ListsInv, NEW w \in Workers, Leave(w)
  PROVE  ListsInv'
<1> USE DEF Leave, queueVars, processVars
<1> DEFINE q == pending_tasks[w]
           s == recovery_tasks_.suspected
           r == recovery_tasks_.remaining
           a == <<"reader", w>>
           b == <<"left suspected", 0>>
           d == <<"left remaining", 0>>
<1>1. /\ q \in Seq(Tasks) /\ q # <<>> /\ s \in Seq(Tasks) /\ r \in Seq(Tasks)
  BY Typed DEF Inv
<1>2. /\ Head(q) \in Tasks /\ Tail(q) \in Seq(Tasks)
      /\ ToSet(q) = {Head(q)} \cup ToSet(Tail(q))
  BY <1>1, TailSet
<1>3. IsInjective(q) /\ IsInjective(s) /\ IsInjective(r)
  BY DEF ListsInv, OnceInv, NoRepeats
<1>4. IsInjective(Tail(q)) /\ Head(q) \notin ToSet(Tail(q))
  BY <1>1, <1>3, TailInjective
<1>5. /\ recovery_tasks_'.suspected = Append(s, Head(q))
      /\ recovery_tasks_'.remaining = r \o Tail(q)
      /\ pending_tasks'[w] = <<>>
      /\ \A x \in Workers \ {w} : pending_tasks'[x] = pending_tasks[x]
  BY DEF Inv, TypeOK, ReaderTypes
<1>6. /\ ToSet(Append(s, Head(q))) = ToSet(s) \cup {Head(q)}
      /\ ToSet(r \o Tail(q)) = ToSet(r) \cup ToSet(Tail(q))
  <2> HIDE DEF Leave, q, s, r
  <2>1. ToSet(Append(s, Head(q))) = ToSet(s) \cup {Head(q)}
    BY <1>1, <1>2, ToSetAppend
  <2>2. ToSet(r \o Tail(q)) = ToSet(r) \cup ToSet(Tail(q))
    <3> DEFINE p == Tail(q)
    <3>1. r \in Seq(Tasks) /\ p \in Seq(Tasks)
      BY <1>1, <1>2
    <3> HIDE DEF p
    <3>2. ToSet(r \o p) = ToSet(r) \cup ToSet(p)
      BY <3>1, ConcatSet
    <3> QED
      BY <3>2 DEF p
  <2> QED
    BY <2>1, <2>2
<1>7. a \in Slots /\ b \in Slots /\ d \in Slots /\ a # b /\ a # d /\ b # d
  BY SlotNames DEF Places
<1>8. /\ TasksAt[a] = ToSet(q) /\ TasksAt[b] = ToSet(s) /\ TasksAt[d] = ToSet(r)
      /\ TasksAt'[a] = {} /\ TasksAt'[b] = ToSet(s) \cup {Head(q)}
      /\ TasksAt'[d] = ToSet(r) \cup ToSet(Tail(q))
  BY <1>5, <1>6, HeldAt, HeldNext, ToSetEmpty
<1>9. \A slot \in Slots \ {a, b, d} : TasksAt'[slot] = TasksAt[slot]
  <2>1. \A x \in Workers : <<"reader", x>> \in {a, b, d} \/ pending_tasks'[x] = pending_tasks[x]
    BY <1>5
  <2>2. b = <<"left suspected", 0>> /\ d = <<"left remaining", 0>>
    OBVIOUS
  <2>3. recovery' = recovery /\ main' = main /\ answered' = answered /\ sent_tasks' = sent_tasks
    OBVIOUS
  <2> HIDE DEF a, b, d, Leave
  <2> QED
    BY <2>1, <2>2, <2>3, Frame
<1>a. Partition(TasksAt)'
  <2>1. Partition(TasksAt)
    BY DEF ListsInv, OnceInv
  <2>2. {Head(q)} \in SUBSET TasksAt[a]
    BY <1>2, <1>8
  <2>3. PICK c : /\ Partition(c) /\ c[a] = TasksAt[a] \ {Head(q)} /\ c[b] = TasksAt[b] \cup {Head(q)}
                 /\ \A slot \in Slots \ {a, b} : c[slot] = TasksAt[slot]
    <3> DEFINE M == {Head(q)}
    <3>1. M \in SUBSET TasksAt[a]
      BY <2>2
    <3> HIDE DEF a, b, d, M, Leave
    <3>2. \E c : HalfWay(c, a, b, M)
      BY <1>7, <2>1, <3>1, HalfMoved
    <3> QED
      BY <3>2 DEF M, HalfWay
  <2>4. /\ c[a] = ToSet(Tail(q)) /\ c[d] = ToSet(r)
        /\ \A slot \in Slots \ {a, d} : TasksAt'[slot] = c[slot]
    <3> HIDE DEF a, b, d, q, s, r, Leave
    <3>1. c[a] = ToSet(Tail(q))
      BY <1>2, <1>4, <1>8, <2>3
    <3>2. c[d] = ToSet(r) /\ c[b] = TasksAt'[b]
      BY <1>7, <1>8, <2>3
    <3> QED
      BY <1>9, <2>3, <3>1, <3>2
  <2>5. /\ c[a] \in SUBSET c[a] /\ TasksAt'[a] = c[a] \ c[a]
        /\ TasksAt'[d] = c[d] \cup c[a]
    BY <1>8, <2>4
  <2> HIDE DEF a, b, d, q, s, r
  <2> QED
    BY <1>7, <2>3, <2>4, <2>5, HeldMoves
<1>b. NoRepeats'
  <2>1. TasksAt[a] \cap TasksAt[b] = {} /\ TasksAt[a] \cap TasksAt[d] = {}
    <3> HIDE DEF a, b, d
    <3> QED
      BY <1>7 DEF ListsInv, OnceInv, Partition
  <2>2. Head(q) \notin ToSet(s) /\ ToSet(r) \cap ToSet(Tail(q)) = {}
    <3> HIDE DEF a, b, d, q, s, r, Leave
    <3> QED
      BY <1>2, <1>8, <2>1
  <2>3. IsInjective(Append(s, Head(q))) /\ IsInjective(r \o Tail(q)) /\ IsInjective(<<>>)
    <3> HIDE DEF q, s, r, Leave
    <3>1. IsInjective(Append(s, Head(q)))
      BY <1>1, <1>2, <1>3, <2>2, AppendKeepsInjective
    <3>2. IsInjective(r \o Tail(q))
      BY <1>1, <1>2, <1>3, <1>4, <2>2, ConcatInjective
    <3>3. IsInjective(<<>>)
      BY DEF IsInjective
    <3> QED
      BY <3>1, <3>2, <3>3
  <2>4. sent_tasks' = sent_tasks /\ recovery' = recovery
    OBVIOUS
  <2> HIDE DEF Leave, q, s, r
  <2> QED
    BY <1>5, <2>3, <2>4 DEF ListsInv, OnceInv, NoRepeats, q, s, r
<1>c. OrderInv'
  <2>1. \A x \in Workers : reader'[x] = "reading" => reader[x] = "reading"
    BY DEF Inv, TypeOK, ReaderTypes
  <2> QED
    BY <2>1, AllOrderFrame DEF Inv, ListsInv, Alive
<1> QED
  BY <1>a, <1>b, <1>c DEF ListsInv, OnceInv

\* From what was left to what the recovery thread has taken.
LEMMA TakeTasksLists ==
  ASSUME Inv, ListsInv, TakeTasks
  PROVE  ListsInv'
<1> USE DEF TakeTasks, RecoveryUnchanged, queueVars, processVars, readerVars
<1> DEFINE s == recovery_tasks_.suspected
           r == recovery_tasks_.remaining
           a == <<"left suspected", 0>>
           b == <<"taken suspected", 0>>
           d == <<"left remaining", 0>>
           e == <<"taken remaining", 0>>
<1>1. recovery.task.suspected = <<>> /\ recovery.task.remaining = <<>>
  BY DEF Inv, RecoveryInv, NoTasks
<1>2. /\ recovery'.task.suspected = s /\ recovery'.task.remaining = r
      /\ recovery_tasks_'.suspected = <<>> /\ recovery_tasks_'.remaining = <<>>
  BY DEF Inv, TypeOK, RecoveryTypes, NoTasks
<1>3. /\ a \in Slots /\ b \in Slots /\ d \in Slots /\ e \in Slots
      /\ a # b /\ a # d /\ a # e /\ b # d /\ b # e /\ d # e
  BY SlotNames DEF Places
<1>4. /\ TasksAt[a] = ToSet(s) /\ TasksAt[b] = {} /\ TasksAt[d] = ToSet(r) /\ TasksAt[e] = {}
      /\ TasksAt'[a] = {} /\ TasksAt'[b] = ToSet(s) /\ TasksAt'[d] = {} /\ TasksAt'[e] = ToSet(r)
  BY <1>1, <1>2, HeldAt, HeldNext, ToSetEmpty
<1>5. \A slot \in Slots \ {a, b, d, e} : TasksAt'[slot] = TasksAt[slot]
  <2>1. /\ a = <<"left suspected", 0>> /\ b = <<"taken suspected", 0>>
        /\ d = <<"left remaining", 0>> /\ e = <<"taken remaining", 0>>
    OBVIOUS
  <2>2. /\ main' = main /\ answered' = answered /\ sent_tasks' = sent_tasks
        /\ pending_tasks' = pending_tasks
    OBVIOUS
  <2> HIDE DEF a, b, d, e, TakeTasks
  <2> QED
    BY <2>1, <2>2, Frame
<1>6. Partition(TasksAt)'
  <2>1. Partition(TasksAt) /\ ToSet(s) \in SUBSET TasksAt[a]
    BY <1>4 DEF ListsInv, OnceInv
  <2> HIDE DEF a, b, d, e, s, r
  <2>2. PICK c : /\ Partition(c) /\ c[a] = TasksAt[a] \ ToSet(s) /\ c[b] = TasksAt[b] \cup ToSet(s)
                 /\ \A slot \in Slots \ {a, b} : c[slot] = TasksAt[slot]
    <3> DEFINE M == ToSet(s)
    <3>1. M \in SUBSET TasksAt[a]
      BY <2>1
    <3> HIDE DEF M, TakeTasks
    <3>2. \E c : HalfWay(c, a, b, M)
      BY <1>3, <2>1, <3>1, HalfMoved
    <3> QED
      BY <3>2 DEF M, HalfWay
  <2>3. /\ c[d] = ToSet(r) /\ c[e] = {} /\ c[a] = {} /\ c[b] = ToSet(s)
        /\ \A slot \in Slots \ {d, e} : TasksAt'[slot] = c[slot]
    BY <1>3, <1>4, <1>5, <2>2
  <2>4. /\ ToSet(r) \in SUBSET c[d] /\ TasksAt'[d] = c[d] \ ToSet(r)
        /\ TasksAt'[e] = c[e] \cup ToSet(r)
    BY <1>4, <2>3
  <2> QED
    BY <1>3, <2>2, <2>3, <2>4, HeldMoves
<1>7. NoRepeats'
  <2>1. IsInjective(<<>>)
    BY DEF IsInjective
  <2> QED
    BY <1>2, <2>1 DEF ListsInv, OnceInv, NoRepeats
<1>8. OrderInv'
  BY AllOrderFrame DEF Inv, ListsInv, Alive
<1> QED
  BY <1>6, <1>7, <1>8 DEF ListsInv, OnceInv

\* From the suspected tasks to the answers.
LEMMA RetrySuspectedLists ==
  ASSUME Inv, ListsInv, RetrySuspected
  PROVE  ListsInv'
<1> USE DEF RetrySuspected, RecoveryUnchanged, queueVars, processVars, readerVars
<1> DEFINE s == recovery.task.suspected
           t == Head(s)
           a == <<"taken suspected", 0>>
           b == <<"answered", 0>>
<1>1. OrderInv'
  BY AllOrderFrame DEF Inv, ListsInv, Alive
<1>2. CASE s = <<>>
  <2>1. recovery'.task = recovery.task /\ answered' = answered /\ main' = main
    BY <1>2 DEF Inv, TypeOK, RecoveryTypes
  <2>2. sent_tasks' = sent_tasks /\ pending_tasks' = pending_tasks /\ recovery_tasks_' = recovery_tasks_
    OBVIOUS
  <2> HIDE DEF RetrySuspected
  <2> QED
    BY <1>1, <2>1, <2>2, OnceFrame DEF ListsInv
<1>3. CASE s # <<>>
  <2>1. s \in Seq(Tasks) /\ IsInjective(s)
    BY Typed DEF Inv, ListsInv, OnceInv, NoRepeats
  <2>2. /\ t \in Tasks /\ Tail(s) \in Seq(Tasks) /\ ToSet(s) = {t} \cup ToSet(Tail(s))
        /\ IsInjective(Tail(s)) /\ t \notin ToSet(Tail(s))
    <3> HIDE DEF s, RetrySuspected
    <3> QED
      BY <1>3, <2>1, TailSet, TailInjective
  <2>3. /\ recovery' = [recovery EXCEPT !.task.suspected = Tail(@)]
        /\ answered' = [answered EXCEPT ![t] = @ + 1]
    BY <1>3
  <2>4. /\ recovery'.task.suspected = Tail(s)
        /\ recovery'.task.remaining = recovery.task.remaining
    <3>1. recovery'.task = [recovery.task EXCEPT !.suspected = Tail(@)]
      BY <2>3 DEF Inv, TypeOK, RecoveryTypes
    <3>2. recovery.task = [failed |-> recovery.task.failed, suspected |-> recovery.task.suspected,
                           remaining |-> recovery.task.remaining]
      BY Typed DEF TaskLists, Inv
    <3> QED
      BY <3>1, <3>2
  <2>5. /\ main' = main /\ sent_tasks' = sent_tasks /\ pending_tasks' = pending_tasks
        /\ recovery_tasks_' = recovery_tasks_
    OBVIOUS
  <2> HIDE DEF RetrySuspected
  <2>6. a \in Slots /\ b \in Slots /\ a # b
    BY SlotNames DEF Places
  <2>7. /\ TasksAt[a] = ToSet(s) /\ TasksAt'[a] = ToSet(Tail(s))
        /\ TasksAt[b] = {x \in Tasks : answered[x] # 0}
        /\ TasksAt'[b] = {x \in Tasks : answered'[x] # 0}
    BY <2>4, HeldAt, HeldNext
  <2>8. answered[t] = 0
    <3>1. TasksAt[a] \cap TasksAt[b] = {}
      <4> HIDE DEF a, b
      <4> QED
        BY <2>6 DEF ListsInv, OnceInv, Partition
    <3> HIDE DEF t, s
    <3> QED
      BY <2>2, <2>7, <3>1
  <2>9. /\ answered' \in [Tasks -> Nat] /\ answered'[t] = 1
        /\ \A x \in Tasks \ {t} : answered'[x] = answered[x]
    <3> HIDE DEF t
    <3> QED
      BY <2>2, <2>3, <2>8 DEF Inv, TypeOK, MainTypes
  <2>a. TasksAt'[a] = TasksAt[a] \ {t} /\ TasksAt'[b] = TasksAt[b] \cup {t} /\ {t} \in SUBSET TasksAt[a]
    <3> HIDE DEF t, s
    <3>1. ToSet(Tail(s)) = ToSet(s) \ {t} /\ t \in ToSet(s)
      BY <2>2
    <3>2. {x \in Tasks : answered'[x] # 0} = {x \in Tasks : answered[x] # 0} \cup {t}
      BY <2>2, <2>9
    <3> QED
      BY <2>7, <3>1, <3>2
  <2>b. \A slot \in Slots \ {a, b} : TasksAt'[slot] = TasksAt[slot]
    <3>1. a = <<"taken suspected", 0>> /\ b = <<"answered", 0>>
      OBVIOUS
    <3> HIDE DEF a, b
    <3> QED
      BY <2>4, <2>5, <3>1, Frame
  <2>c. Partition(TasksAt)'
    <3> HIDE DEF a, b, t
    <3> QED
      BY <2>6, <2>a, <2>b, HeldMoves DEF ListsInv, OnceInv
  <2>d. NoRepeats'
    BY <2>2, <2>4, <2>5 DEF NoRepeats, ListsInv, OnceInv
  <2>e. \A x \in Tasks : answered'[x] \in {0, 1}
    BY <2>9 DEF ListsInv, OnceInv
  <2> QED
    BY <1>1, <2>c, <2>d, <2>e DEF ListsInv, OnceInv
<1> QED
  BY <1>2, <1>3

\* A task that moves from one pipe to the other keeps its turn.
LEMMA AnswerLists ==
  ASSUME Inv, ListsInv, NEW w \in Workers, Answer(w)
  PROVE  ListsInv'
<1> USE DEF Answer, queueVars, readerVars, recoveryVars
<1>1. OnceInv'
  <2>1. /\ main' = main /\ answered' = answered /\ recovery_tasks_' = recovery_tasks_
        /\ recovery' = recovery /\ sent_tasks' = sent_tasks /\ pending_tasks' = pending_tasks
    OBVIOUS
  <2> HIDE DEF Answer
  <2> QED
    BY <2>1, OnceFrame DEF ListsInv
<1>2. ASSUME NEW x \in Workers, x # w PROVE InOrder(x)'
  <2>1. stdin'[x] = stdin[x] /\ stdout'[x] = stdout[x]
    BY <1>2 DEF Inv, TypeOK, ProcessTypes
  <2> QED
    BY <2>1, OrderFrame DEF ListsInv, OrderInv, Alive
<1>3. InOrder(w)'
  <2> DEFINE q == sent_tasks[w]
             o == stdout[w]
             i == stdin[w]
             l == Len(q)
             m == Len(o)
             n == Len(i)
             r == Append(o, Head(i))
             p == Tail(i)
  <2>1. stdin'[w] = p /\ stdout'[w] = r /\ sent_tasks'[w] = q /\ sending' = sending /\ Alive(w)
        /\ reader' = reader
    BY DEF Inv, TypeOK, ProcessTypes
  <2>2. /\ o \in Seq(Tasks) /\ i \in Seq(Tasks) /\ i # <<>> /\ l \in Nat /\ m \in Nat /\ n \in Nat
    BY Typed DEF Inv
  <2>3. reader[w] = "reading" =>
          /\ \A j \in 1 .. m : q[j] = o[j]
          /\ \A j \in 1 .. n : q[m + j] = i[j]
          /\ \A s \in Senders : sending[s].worker = w => q[l] = sending[s].task
    BY <2>1 DEF ListsInv, OrderInv, InOrder
  <2> HIDE DEF Answer, q, o, i
  <2>4. /\ Head(i) \in Tasks /\ Len(p) = n - 1 /\ n > 0 /\ Head(i) = i[1]
        /\ \A j \in 1 .. n - 1 : p[j] = i[j + 1]
    BY <2>2, TailSet
  <2>5. /\ Len(r) = m + 1 /\ r[m + 1] = i[1] /\ \A j \in 1 .. m : r[j] = o[j]
    BY <2>2, <2>4, AppendFacts
  <2> HIDE DEF l, m, n, r, p
  <2>6. ASSUME reader[w] = "reading", NEW j \in 1 .. m + 1 PROVE q[j] = r[j]
    <3>1. CASE j \in 1 .. m
      BY <2>3, <2>5, <2>6, <3>1
    <3>2. CASE j = m + 1
      <4>1. 1 \in 1 .. n
        BY <2>2, <2>4
      <4> QED
        BY <2>3, <2>5, <2>6, <3>2, <4>1
    <3> QED
      BY <2>2, <3>1, <3>2
  <2>7. ASSUME reader[w] = "reading", NEW j \in 1 .. n - 1 PROVE q[(m + 1) + j] = p[j]
    <3>1. j + 1 \in 1 .. n /\ (m + 1) + j = m + (j + 1)
      BY <2>2
    <3> QED
      BY <2>3, <2>4, <2>7, <3>1
  <2> QED
    BY <2>1, <2>2, <2>3, <2>4, <2>5, <2>6, <2>7 DEF InOrder, l
<1> QED
  BY <1>1, <1>2, <1>3 DEF ListsInv, OrderInv

\* The one sender of a worker writes the last task of its queue.
LEMMA EndSendLists ==
  ASSUME Inv, ListsInv, ~Racing, NEW s \in Senders, EndSend(s)
  PROVE  ListsInv'
<1> USE DEF EndSend, readerVars, recoveryVars
<1>1. OnceInv'
  <2>1. /\ main' = main /\ answered' = answered /\ recovery_tasks_' = recovery_tasks_
        /\ recovery' = recovery /\ sent_tasks' = sent_tasks /\ pending_tasks' = pending_tasks
    OBVIOUS
  <2> HIDE DEF EndSend
  <2> QED
    BY <2>1, OnceFrame DEF ListsInv
<1>2. PICK w \in Workers : w = sending[s].worker
  BY DEF Inv, TypeOK, QueueTypes
<1>3. PICK t \in Tasks : t = sending[s].task
  BY DEF Inv, TypeOK, QueueTypes
<1>4. /\ sending'[s] = NoSend /\ \A z \in Senders \ {s} : sending'[z] = sending[z]
      /\ reader' = reader /\ sent_tasks' = sent_tasks /\ stdout' = stdout /\ process' = process
  BY DEF Inv, TypeOK, QueueTypes
<1>5. stdin' = IF process[w] = "dead" THEN stdin ELSE [stdin EXCEPT ![w] = Append(@, t)]
  BY <1>2, <1>3
<1>6. \A z \in Senders : z # s => sending[z].worker # w
  BY <1>2 DEF Racing, Senders
<1>7. \A x \in Workers : x # NoSend.worker
  BY DEF Workers, NoSend
<1> HIDE DEF EndSend
<1>8. ASSUME NEW x \in Workers, x # w \/ process[w] = "dead" PROVE InOrder(x)'
  <2>1. \A z \in Senders : sending'[z].worker = x => sending'[z] = sending[z]
    BY <1>4, <1>7
  <2>2. Alive(x)' => Alive(x) /\ stdin'[x] = stdin[x]
    BY <1>4, <1>5, <1>8 DEF Inv, TypeOK, ProcessTypes, Alive
  <2> QED
    BY <1>4, <2>1, <2>2, OrderFrame DEF ListsInv, OrderInv
<1>9. CASE process[w] # "dead"
  <2> DEFINE q == sent_tasks[w]
             o == stdout[w]
             i == stdin[w]
             l == Len(q)
             m == Len(o)
             n == Len(i)
             r == Append(i, t)
  <2>1. Alive(w)
    BY <1>2, <1>9 DEF Inv, PipeInv, NoSend, Workers, TypeOK, ProcessTypes, Alive
  <2>2. o \in Seq(Tasks) /\ i \in Seq(Tasks) /\ l \in Nat /\ m \in Nat /\ n \in Nat
    BY Typed DEF Inv
  <2>3. num_pending_sends[w] = 1
    <3>1. num_pending_sends[w] = Sends("main", w) + Sends("recovery", w)
      BY DEF Inv, PipeInv, PipeOK
    <3>2. Sends(s, w) = 1 /\ \A z \in Senders : z # s => Sends(z, w) = 0
      BY <1>2, <1>6 DEF Sends
    <3>3. s = "main" \/ s = "recovery"
      BY DEF Senders
    <3> QED
      BY <3>1, <3>2, <3>3 DEF Senders
  <2>4. reader[w] = "reading" =>
          /\ l = m + n + 1
          /\ \A j \in 1 .. m : q[j] = o[j]
          /\ \A j \in 1 .. n : q[m + j] = i[j]
          /\ q[l] = t
    BY <1>2, <1>3, <2>1, <2>3 DEF ListsInv, OrderInv, InOrder, Inv, PipeInv, PipeOK
  <2>5. stdin'[w] = r
    BY <1>5, <1>9 DEF Inv, TypeOK, ProcessTypes
  <2> HIDE DEF q, o, i
  <2>6. Len(r) = n + 1 /\ r[n + 1] = t /\ \A j \in 1 .. n : r[j] = i[j]
    BY <2>2, AppendFacts
  <2> HIDE DEF l, m, n, r
  <2>7. ASSUME reader[w] = "reading", NEW j \in 1 .. n + 1 PROVE q[m + j] = r[j]
    <3>1. CASE j \in 1 .. n
      BY <2>4, <2>6, <2>7, <3>1
    <3>2. CASE j = n + 1
      <4>1. m + j = l
        BY <2>2, <2>4, <2>7, <3>2
      <4> QED
        BY <2>4, <2>6, <2>7, <3>2, <4>1
    <3> QED
      BY <2>2, <3>1, <3>2
  <2>8. \A z \in Senders : sending'[z].worker # w
    BY <1>4, <1>6, <1>7
  <2>9. InOrder(w)'
    BY <1>4, <2>4, <2>5, <2>6, <2>7, <2>8 DEF InOrder, q, o, m
  <2> QED
    BY <1>1, <1>8, <2>9 DEF ListsInv, OrderInv
<1> QED
  BY <1>1, <1>8, <1>9 DEF ListsInv, OrderInv

\* A send appends to one queue, and keeps the order in which its worker will
\* get the tasks if no other sender is about to write to it.
LEMMA BeginSendOrder ==
  ASSUME Inv, ListsInv, ~Racing', NEW s \in Senders, NEW t \in Tasks, BeginSend(s, t)
  PROVE  /\ \E w \in Workers :
              /\ sent_tasks'[w] = Append(sent_tasks[w], t)
              /\ \A x \in Workers \ {w} : sent_tasks'[x] = sent_tasks[x]
         /\ pending_tasks' = pending_tasks /\ answered' = answered
         /\ OrderInv'
<1>1. PICK w \in Workers :
        /\ QueueFor(w)
        /\ sent_tasks' = [sent_tasks EXCEPT ![w] = Append(@, t)]
        /\ sending' = [sending EXCEPT ![s] = [task |-> t, worker |-> w]]
        /\ IF process[w] = "none"
           THEN /\ process' = [process EXCEPT ![w] = "running"]
                /\ reader' = [reader EXCEPT ![w] = "reading"]
           ELSE process' = process /\ reader' = reader
  BY DEF BeginSend
<1>2. stdin' = stdin /\ stdout' = stdout /\ pending_tasks' = pending_tasks /\ answered' = answered
  BY DEF BeginSend
<1>3. /\ sent_tasks'[w] = Append(sent_tasks[w], t)
      /\ \A x \in Workers \ {w} : sent_tasks'[x] = sent_tasks[x]
  BY <1>1 DEF Inv, TypeOK, QueueTypes
<1>4. /\ sending'[s].task = t /\ sending'[s].worker = w
      /\ \A z \in Senders \ {s} : sending'[z] = sending[z]
  BY <1>1 DEF Inv, TypeOK, QueueTypes
<1>5. \A z \in Senders : z # s => sending'[z].worker # w
  BY <1>4 DEF Racing, Senders
<1>6. ASSUME NEW x \in Workers, x # w PROVE InOrder(x)'
  <2>1. \A z \in Senders : sending'[z].worker = x => sending'[z] = sending[z]
    BY <1>4, <1>6
  <2>2. process'[x] = process[x] /\ reader'[x] = reader[x]
    BY <1>1, <1>6 DEF Inv, TypeOK, ProcessTypes, ReaderTypes
  <2> QED
    BY <1>2, <1>3, <1>6, <2>1, <2>2, OrderFrame DEF ListsInv, OrderInv, Alive
<1>7. InOrder(w)'
  <2> DEFINE q == sent_tasks[w]
             o == stdout[w]
             i == stdin[w]
             l == Len(q)
             m == Len(o)
             n == Len(i)
             r == Append(q, t)
  <2>1. /\ q \in Seq(Tasks) /\ l \in Nat /\ m \in Nat /\ n \in Nat
        /\ stdin'[w] = i /\ stdout'[w] = o /\ sent_tasks'[w] = r
    BY <1>2, <1>3, Typed DEF Inv
  <2>2. /\ l >= m + n
        /\ \A j \in 1 .. m : q[j] = o[j]
        /\ Alive(w)' => \A j \in 1 .. n : q[m + j] = i[j]
    <3>1. CASE process[w] = "none"
      <4>1. q = <<>> /\ o = <<>> /\ i = <<>>
        BY <3>1 DEF Inv, QueueInv, WorkerOK
      <4>2. l = 0 /\ m = 0 /\ n = 0
        BY <4>1
      <4> HIDE DEF l, m, n
      <4> QED
        BY <4>2
    <3>2. CASE process[w] # "none"
      <4>1. w \in Queued /\ reader[w] = "reading"
        BY <1>1, <3>2, QueueForPicks DEF Inv, QueueInv
      <4>2. Alive(w)' = Alive(w)
        BY <1>1, <3>2 DEF Alive
      <4> QED
        BY <4>1, <4>2 DEF ListsInv, OrderInv, InOrder, Inv, PipeInv, PipeOK
    <3> QED
      BY <3>1, <3>2
  <2>3. Len(r) = l + 1 /\ r[l + 1] = t /\ \A j \in 1 .. l : r[j] = q[j]
    <3> HIDE DEF q
    <3> QED
      BY <2>1, AppendFacts
  <2> HIDE DEF q, o, i, l, m, n, r
  <2>4. \A j \in 1 .. m : r[j] = o[j]
    <3> TAKE j \in 1 .. m
    <3>1. j \in 1 .. l
      BY <2>1, <2>2
    <3> QED
      BY <2>2, <2>3, <3>1
  <2>5. Alive(w)' => \A j \in 1 .. n : r[m + j] = i[j]
    <3> SUFFICES ASSUME Alive(w)', NEW j \in 1 .. n PROVE r[m + j] = i[j]
      OBVIOUS
    <3>1. m + j \in 1 .. l
      BY <2>1, <2>2
    <3> QED
      BY <2>2, <2>3, <3>1
  <2>6. \A z \in Senders : sending'[z].worker = w => sending'[z].task = t
    BY <1>4, <1>5
  <2> QED
    BY <2>1, <2>3, <2>4, <2>5, <2>6 DEF InOrder, m, n
<1> QED
  BY <1>2, <1>3, <1>6, <1>7 DEF OrderInv

\* From the caller to a queue.
LEMMA SendLists ==
  ASSUME Inv, ListsInv, ~Racing', Send
  PROVE  ListsInv'
<1> DEFINE t == main.next
           a == <<"unsent", 0>>
<1>1. /\ t \in Nat /\ t \in Tasks /\ t <= NumTasks /\ "main" \in Senders /\ BeginSend("main", t)
      /\ main'.next = t + 1 /\ recovery' = recovery /\ recovery_tasks_' = recovery_tasks_
  BY ConstantsAssumption DEF Send, Inv, TypeOK, MainTypes, Senders, Tasks, recoveryVars
<1>2. PICK w \in Workers : /\ sent_tasks'[w] = Append(sent_tasks[w], t)
                           /\ \A x \in Workers \ {w} : sent_tasks'[x] = sent_tasks[x]
  <2> HIDE DEF t
  <2> QED
    BY <1>1, BeginSendOrder
<1>3. pending_tasks' = pending_tasks /\ answered' = answered /\ OrderInv'
  <2> HIDE DEF t
  <2> QED
    BY <1>1, BeginSendOrder
<1> DEFINE q == sent_tasks[w]
           b == <<"queue", w>>
<1>4. a \in Slots /\ b \in Slots /\ a # b
  BY SlotNames DEF Places
<1>5. q \in Seq(Tasks) /\ ToSet(Append(q, t)) = ToSet(q) \cup {t}
  <2>1. q \in Seq(Tasks)
    BY Typed DEF Inv
  <2> HIDE DEF q, t
  <2> QED
    BY <1>1, <2>1, ToSetAppend
<1>6. /\ TasksAt[a] = t .. NumTasks /\ TasksAt'[a] = t + 1 .. NumTasks
      /\ TasksAt[b] = ToSet(q) /\ TasksAt'[b] = ToSet(q) \cup {t}
  BY <1>1, <1>2, <1>5, HeldAt, HeldNext
<1> HIDE DEF t
<1>7. {t} \in SUBSET TasksAt[a] /\ TasksAt'[a] = TasksAt[a] \ {t} /\ TasksAt'[b] = TasksAt[b] \cup {t}
  <2>1. NumTasks \in Nat
    BY ConstantsAssumption
  <2>2. t \in t .. NumTasks /\ t + 1 .. NumTasks = (t .. NumTasks) \ {t}
    BY <1>1, <2>1
  <2> HIDE DEF a, b, q
  <2> QED
    BY <1>6, <2>2
<1>8. \A slot \in Slots \ {a, b} : TasksAt'[slot] = TasksAt[slot]
  <2>1. \A x \in Workers : <<"queue", x>> \in {a, b} \/ sent_tasks'[x] = sent_tasks[x]
    BY <1>2
  <2>2. a = <<"unsent", 0>>
    OBVIOUS
  <2> HIDE DEF a, b
  <2> QED
    BY <1>1, <1>3, <2>1, <2>2, Frame
<1>9. Partition(TasksAt)'
  <2> HIDE DEF a, b
  <2> QED
    BY <1>4, <1>7, <1>8, HeldMoves DEF ListsInv, OnceInv
<1>a. NoRepeats'
  <2>1. TasksAt[a] \cap TasksAt[b] = {}
    <3> HIDE DEF a, b
    <3> QED
      BY <1>4 DEF ListsInv, OnceInv, Partition
  <2>2. IsInjective(q) /\ t \notin ToSet(q)
    BY <1>6, <1>7, <2>1 DEF ListsInv, OnceInv, NoRepeats
  <2>3. IsInjective(Append(q, t))
    <3> HIDE DEF q
    <3> QED
      BY <1>1, <1>5, <2>2, AppendKeepsInjective
  <2> QED
    BY <1>1, <1>2, <1>3, <2>3 DEF NoRepeats, ListsInv, OnceInv
<1> QED
  BY <1>3, <1>9, <1>a DEF ListsInv, OnceInv

\* From the recovery thread back to a queue.
LEMMA ResendLists ==
  ASSUME Inv, ListsInv, ~Racing', Resend
  PROVE  ListsInv'
<1> DEFINE r == recovery.task.remaining
           t == Head(r)
           a == <<"taken remaining", 0>>
<1>0. /\ r \in Seq(Tasks) /\ r # <<>> /\ "recovery" \in Senders /\ BeginSend("recovery", t)
      /\ recovery' = [recovery EXCEPT !.task.remaining = Tail(@)]
      /\ recovery_tasks_' = recovery_tasks_ /\ main' = main
  BY Typed DEF Resend, Inv, Senders
<1>1. /\ t \in Tasks /\ Tail(r) \in Seq(Tasks) /\ ToSet(r) = {t} \cup ToSet(Tail(r))
      /\ IsInjective(Tail(r)) /\ t \notin ToSet(Tail(r))
  <2>1. IsInjective(r)
    BY DEF ListsInv, OnceInv, NoRepeats
  <2> HIDE DEF r
  <2> QED
    BY <1>0, <2>1, TailSet, TailInjective
<1>2. recovery'.task.remaining = Tail(r) /\ recovery'.task.suspected = recovery.task.suspected
  <2>1. recovery'.task = [recovery.task EXCEPT !.remaining = Tail(@)]
    BY <1>0 DEF Inv, TypeOK, RecoveryTypes
  <2>2. recovery.task = [failed |-> recovery.task.failed, suspected |-> recovery.task.suspected,
                         remaining |-> recovery.task.remaining]
    BY Typed DEF TaskLists, Inv
  <2> QED
    BY <2>1, <2>2
<1>3. PICK w \in Workers : /\ sent_tasks'[w] = Append(sent_tasks[w], t)
                           /\ \A x \in Workers \ {w} : sent_tasks'[x] = sent_tasks[x]
  <2> HIDE DEF t
  <2> QED
    BY <1>0, <1>1, BeginSendOrder
<1>4. pending_tasks' = pending_tasks /\ answered' = answered /\ OrderInv'
  <2> HIDE DEF t
  <2> QED
    BY <1>0, <1>1, BeginSendOrder
<1> DEFINE q == sent_tasks[w]
           b == <<"queue", w>>
<1>5. a \in Slots /\ b \in Slots /\ a # b
  BY SlotNames DEF Places
<1>6. q \in Seq(Tasks) /\ ToSet(Append(q, t)) = ToSet(q) \cup {t}
  <2>1. q \in Seq(Tasks)
    BY Typed DEF Inv
  <2> HIDE DEF q, t
  <2> QED
    BY <1>1, <2>1, ToSetAppend
<1>7. /\ TasksAt[a] = ToSet(r) /\ TasksAt'[a] = ToSet(Tail(r))
      /\ TasksAt[b] = ToSet(q) /\ TasksAt'[b] = ToSet(q) \cup {t}
  BY <1>2, <1>3, <1>6, HeldAt, HeldNext
<1> HIDE DEF t
<1>8. {t} \in SUBSET TasksAt[a] /\ TasksAt'[a] = TasksAt[a] \ {t} /\ TasksAt'[b] = TasksAt[b] \cup {t}
  <2> HIDE DEF a, b, q, r
  <2> QED
    BY <1>1, <1>7
<1>9. \A slot \in Slots \ {a, b} : TasksAt'[slot] = TasksAt[slot]
  <2>1. \A x \in Workers : <<"queue", x>> \in {a, b} \/ sent_tasks'[x] = sent_tasks[x]
    BY <1>3
  <2>2. a = <<"taken remaining", 0>>
    OBVIOUS
  <2> HIDE DEF a, b
  <2> QED
    BY <1>0, <1>2, <1>4, <2>1, <2>2, Frame
<1>a. Partition(TasksAt)'
  <2> HIDE DEF a, b
  <2> QED
    BY <1>5, <1>8, <1>9, HeldMoves DEF ListsInv, OnceInv
<1>b. NoRepeats'
  <2>1. TasksAt[a] \cap TasksAt[b] = {}
    <3> HIDE DEF a, b
    <3> QED
      BY <1>5 DEF ListsInv, OnceInv, Partition
  <2>2. IsInjective(q) /\ t \notin ToSet(q)
    BY <1>7, <1>8, <2>1 DEF ListsInv, OnceInv, NoRepeats
  <2>3. IsInjective(Append(q, t))
    <3> HIDE DEF q
    <3> QED
      BY <1>1, <1>6, <2>2, AppendKeepsInjective
  <2> QED
    BY <1>0, <1>1, <1>2, <1>3, <1>4, <2>3 DEF NoRepeats, ListsInv, OnceInv
<1> QED
  BY <1>4, <1>a, <1>b DEF ListsInv, OnceInv

\* Steps that leave the lists alone.
LEMMA ListsFrame ==
  ASSUME Inv, ListsInv, main'.next = main.next,
         recovery_tasks_'.suspected = recovery_tasks_.suspected,
         recovery_tasks_'.remaining = recovery_tasks_.remaining,
         recovery'.task.suspected = recovery.task.suspected,
         recovery'.task.remaining = recovery.task.remaining,
         sent_tasks' = sent_tasks, pending_tasks' = pending_tasks, answered' = answered,
         sending' = sending, stdout' = stdout,
         \A w \in Workers : reader'[w] = "reading" => reader[w] = "reading",
         \A w \in Workers : Alive(w)' => Alive(w) /\ stdin'[w] = stdin[w]
  PROVE  ListsInv'
<1>1. OnceInv'
  BY OnceFrame DEF ListsInv
<1>2. OrderInv'
  BY AllOrderFrame DEF ListsInv, Inv
<1> QED
  BY <1>1, <1>2 DEF ListsInv

\* Steps around a worker that move no task.
LEMMA WorkerLists ==
  ASSUME Inv, ListsInv, NEW w \in Workers, Exit(w) \/ Crash(w) \/ LeaveNothing(w) \/ StartRecovery(w)
  PROVE  ListsInv'
<1>1. /\ main' = main /\ recovery_tasks_' = recovery_tasks_ /\ sent_tasks' = sent_tasks
      /\ pending_tasks' = pending_tasks /\ answered' = answered /\ sending' = sending
      /\ stdout' = stdout
  BY DEF Exit, Crash, LeaveNothing, StartRecovery, queueVars, processVars, readerVars, recoveryVars
<1>2. recovery'.task = recovery.task
  BY DEF Exit, Crash, LeaveNothing, StartRecovery, recoveryVars, Inv, TypeOK, RecoveryTypes
<1>3. \A x \in Workers : reader'[x] = "reading" => reader[x] = "reading"
  BY DEF Exit, Crash, LeaveNothing, StartRecovery, readerVars, Inv, TypeOK, ReaderTypes
<1>4. \A x \in Workers : Alive(x)' => Alive(x) /\ stdin'[x] = stdin[x]
  BY DEF Exit, Crash, LeaveNothing, StartRecovery, processVars, Inv, TypeOK, ProcessTypes, Alive
<1> QED
  BY <1>1, <1>2, <1>3, <1>4, ListsFrame

\* Steps of the recovery thread that move no task.
LEMMA RecoveryStepLists ==
  ASSUME Inv, ListsInv, FindNothing \/ EndThread \/ StopFailed \/ EndResend
  PROVE  ListsInv'
<1>1. /\ main' = main /\ recovery_tasks_' = recovery_tasks_ /\ sent_tasks' = sent_tasks
      /\ pending_tasks' = pending_tasks /\ answered' = answered /\ sending' = sending
      /\ stdout' = stdout /\ stdin' = stdin /\ process' = process /\ reader' = reader
  <2> USE DEF RecoveryUnchanged, queueVars, processVars, readerVars
  <2>1. CASE FindNothing
    BY <2>1 DEF FindNothing
  <2>2. CASE EndThread
    BY <2>2 DEF EndThread
  <2>3. CASE StopFailed
    BY <2>3 DEF StopFailed
  <2>4. CASE EndResend
    BY <2>4 DEF EndResend
  <2> QED
    BY <2>1, <2>2, <2>3, <2>4
<1>2. /\ recovery'.task.suspected = recovery.task.suspected
      /\ recovery'.task.remaining = recovery.task.remaining
  <2>1. CASE FindNothing \/ EndThread \/ EndResend
    BY <2>1 DEF FindNothing, EndThread, EndResend, Inv, TypeOK, RecoveryTypes
  <2>2. CASE StopFailed
    <3>1. recovery'.task = recovery.task \/ recovery'.task = [recovery.task EXCEPT !.failed = Tail(@)]
      BY <2>2 DEF StopFailed, Inv, TypeOK, RecoveryTypes
    <3>2. recovery.task = [failed |-> recovery.task.failed, suspected |-> recovery.task.suspected,
                           remaining |-> recovery.task.remaining]
      BY Typed DEF TaskLists, Inv
    <3> QED
      BY <3>1, <3>2
  <2> QED
    BY <2>1, <2>2
<1>3. /\ main'.next = main.next
      /\ \A w \in Workers : Alive(w)' => Alive(w) /\ stdin'[w] = stdin[w]
      /\ \A w \in Workers : reader'[w] = "reading" => reader[w] = "reading"
      /\ recovery_tasks_'.suspected = recovery_tasks_.suspected
      /\ recovery_tasks_'.remaining = recovery_tasks_.remaining
  BY <1>1 DEF Alive
<1> QED
  BY <1>1, <1>2, <1>3, ListsFrame

\* Steps of Join move no task.
LEMMA MainLists ==
  ASSUME Inv, ListsInv,
         Join \/ SwapWorkers \/ CloseWorkers \/ StopWorkers \/ SwapThreads \/ JoinThreads
  PROVE  ListsInv'
<1>1. /\ recovery' = recovery /\ recovery_tasks_' = recovery_tasks_ /\ sent_tasks' = sent_tasks
      /\ pending_tasks' = pending_tasks /\ answered' = answered /\ sending' = sending
      /\ stdout' = stdout /\ stdin' = stdin /\ reader' = reader
  BY DEF Join, SwapWorkers, CloseWorkers, StopWorkers, SwapThreads, JoinThreads, MainUnchanged,
         readerVars
<1>2. main'.next = main.next
  BY DEF Join, SwapWorkers, CloseWorkers, StopWorkers, SwapThreads, JoinThreads, Inv, TypeOK,
         MainTypes
<1>3. \A x \in Workers : Alive(x)' => Alive(x)
  BY DEF Join, SwapWorkers, CloseWorkers, StopWorkers, SwapThreads, JoinThreads, Alive
<1> QED
  BY <1>1, <1>2, <1>3, ListsFrame

\* Every step without a race keeps the lists.
LEMMA NextLists ==
  ASSUME Inv, ListsInv, ~Racing, ~Racing', [Next]_vars
  PROVE  ListsInv'
<1>1. CASE UNCHANGED vars
  <2>1. /\ main' = main /\ recovery' = recovery /\ recovery_tasks_' = recovery_tasks_
        /\ sent_tasks' = sent_tasks /\ pending_tasks' = pending_tasks /\ answered' = answered
        /\ sending' = sending /\ stdout' = stdout /\ stdin' = stdin /\ process' = process
        /\ reader' = reader
    BY <1>1 DEF vars, queueVars, processVars, readerVars, recoveryVars
  <2> QED
    BY <2>1, ListsFrame DEF Alive
<1>2. CASE Main
  BY <1>2, SendLists, EndSendLists, MainLists DEF Main, Senders
<1>3. CASE Recovery
  <2>1. CASE TakeTasks
    BY <2>1, TakeTasksLists
  <2>2. CASE Resend
    BY <2>2, ResendLists
  <2>3. CASE EndSend("recovery")
    BY <2>3, EndSendLists DEF Senders
  <2>4. CASE RetrySuspected
    BY <2>4, RetrySuspectedLists
  <2>5. CASE FindNothing \/ EndThread \/ StopFailed \/ EndResend
    BY <2>5, RecoveryStepLists
  <2> QED
    BY <1>3, <2>1, <2>2, <2>3, <2>4, <2>5 DEF Recovery
<1>4. ASSUME NEW w \in Workers, Reader(w) \/ Process(w) \/ Crash(w) PROVE ListsInv'
  BY <1>4, ReceiveLists, DetachLists, LeaveLists, AnswerLists, WorkerLists DEF Reader, Process
<1> QED
  BY <1>1, <1>2, <1>3, <1>4 DEF Next

\* What the partition says of a task that was sent.
LEMMA Unanswered ==
  ASSUME Inv, ListsInv, NEW t \in 1 .. main.next - 1
  PROVE  answered[t] <= 1 /\ (Held(t) <=> answered[t] = 0)
<1>1. t \in Tasks /\ main.next \in Nat /\ t \notin main.next .. NumTasks
  BY ConstantsAssumption DEF Inv, TypeOK, MainTypes, Tasks
<1>2. answered[t] \in {0, 1}
  BY <1>1 DEF ListsInv, OnceInv
<1>3. Held(t) <=>
        \/ \E w \in Workers : t \in ToSet(sent_tasks[w]) \/ t \in ToSet(pending_tasks[w])
        \/ t \in ToSet(recovery_tasks_.suspected) \/ t \in ToSet(recovery_tasks_.remaining)
        \/ t \in ToSet(recovery.task.suspected) \/ t \in ToSet(recovery.task.remaining)
  BY Zenon DEF Held, In, QueueLists, HandOverLists, LeftLists, RecoveryLists
<1>4. Held(t) <=> \E slot \in Slots \ {<<"unsent", 0>>, <<"answered", 0>>} : t \in TasksAt[slot]
  <2>1. ASSUME Held(t)
        PROVE  \E slot \in Slots \ {<<"unsent", 0>>, <<"answered", 0>>} : t \in TasksAt[slot]
    <3>1. /\ {<<"left suspected", 0>>, <<"left remaining", 0>>, <<"taken suspected", 0>>,
              <<"taken remaining", 0>>} \subseteq Slots \ {<<"unsent", 0>>, <<"answered", 0>>}
          /\ \A w \in Workers : {<<"queue", w>>, <<"reader", w>>}
                                  \subseteq Slots \ {<<"unsent", 0>>, <<"answered", 0>>}
      <4>1. /\ <<"left suspected", 0>> \in Slots /\ <<"left remaining", 0>> \in Slots
            /\ <<"taken suspected", 0>> \in Slots /\ <<"taken remaining", 0>> \in Slots
        BY SlotNames DEF Places
      <4>2. \A w \in Workers : <<"queue", w>> \in Slots /\ <<"reader", w>> \in Slots
        BY SlotNames
      <4>3. \A w \in Workers : /\ <<"queue", w>> \notin {<<"unsent", 0>>, <<"answered", 0>>}
                               /\ <<"reader", w>> \notin {<<"unsent", 0>>, <<"answered", 0>>}
        OBVIOUS
      <4>4. {<<"left suspected", 0>>, <<"left remaining", 0>>, <<"taken suspected", 0>>,
             <<"taken remaining", 0>>} \cap {<<"unsent", 0>>, <<"answered", 0>>} = {}
        OBVIOUS
      <4> QED
        BY <4>1, <4>2, <4>3, <4>4, Zenon
    <3> QED
      BY <1>3, <2>1, <3>1, HeldAt
  <2>2. ASSUME NEW slot \in Slots \ {<<"unsent", 0>>, <<"answered", 0>>}, t \in TasksAt[slot]
        PROVE  Held(t)
    BY <1>3, <2>2, HeldAt, SlotNames
  <2> QED
    BY <2>1, <2>2
<1>5. answered[t] # 0 <=> t \in TasksAt[<<"answered", 0>>]
  BY <1>1, HeldAt
<1>6. t \notin TasksAt[<<"unsent", 0>>]
  BY <1>1, HeldAt
<1>7. /\ <<"answered", 0>> \in Slots
      /\ \A a, b \in Slots : a # b => TasksAt[a] \cap TasksAt[b] = {}
      /\ \E a \in Slots : t \in TasksAt[a]
  BY <1>1, SlotNames DEF ListsInv, OnceInv, Partition, Places
<1> DEFINE u == <<"unsent", 0>>
           v == <<"answered", 0>>
<1> HIDE DEF u, v
<1>8. Held(t) <=> answered[t] = 0
  <2>1. /\ Held(t) <=> \E slot \in Slots \ {u, v} : t \in TasksAt[slot]
        /\ answered[t] # 0 <=> t \in TasksAt[v]
        /\ t \notin TasksAt[u] /\ v \in Slots
    BY <1>4, <1>5, <1>6, <1>7 DEF u, v
  <2> QED
    BY <1>7, <2>1
<1> QED
  BY <1>2, <1>8

\* As long as the caller and the recovery thread never write to one worker at the
\* same time, the lists hold the very tasks that are not answered, and no task is
\* answered twice, whatever dies when.  With such a race the tasks of a worker may
\* reach it in another order than its queue has, and the wrong one is forgotten.
THEOREM ListsHoldTheUnanswered == Spec => ListsAreUnanswered
<1> DEFINE P == \A t \in 1 .. main.next - 1 : answered[t] <= 1 /\ (Held(t) <=> answered[t] = 0)
<1>1. Inv /\ ListsInv => P
  BY Unanswered
<1>2. Inv /\ ListsInv /\ ~Racing /\ (~Racing)' /\ [Next]_vars => ListsInv'
  BY NextLists
<1>3. Spec /\ []~Racing => []ListsInv
  BY <1>2, InvHolds, InitLists, PTL DEF Spec
<1>4. Spec /\ []~Racing => []P
  <2> HIDE DEF P
  <2> QED
    BY <1>1, <1>3, InvHolds, PTL
<1> QED
  BY <1>4, PTL DEF ListsAreUnanswered

-----------------------------------------------------------------------------
\* Before the first crash

\* Before the first crash only the caller sends.
LEMMA QuietMeansNoRace ==
  ASSUME Inv, QuietInv, crashes = 0
  PROVE  ~Racing
<1>1. sending["recovery"] = NoSend
  BY DEF QuietInv, Inv, RecoveryInv
<1> QED
  BY <1>1 DEF Racing, Senders, NoSend, Workers

\* No process is closed, and none is dead with a reader, outside JoinWorkers.
Working(w) == process[w] # "closed" /\ ~(process[w] = "dead" /\ reader[w] = "reading")

\* What has to be looked at to keep QuietInv.
LEMMA QuietFrame ==
  ASSUME QuietInv, crashes = 0,
         recovery_tasks_' = recovery_tasks_, recovery'.pc = recovery.pc,
         \A w \in Workers :
           /\ reader'[w] \in {reader[w], "reading", "done"}
           /\ process'[w] = "closed" \/ (process'[w] = "dead" /\ reader'[w] = "reading")
                => main'.pc = "stop" /\ w \in main'.held
           /\ process'[w] = "dead" /\ reader'[w] = "reading"
                => Len(sent_tasks'[w]) = Len(stdout'[w])
  PROVE  QuietInv'
BY DEF QuietInv

\* Steps of a worker and its reader before the first crash.
LEMMA QuietReaders ==
  ASSUME Inv, QuietInv, crashes = 0, NEW w \in Workers, Receive(w) \/ Detach(w) \/ Answer(w) \/ Exit(w)
  PROVE  QuietInv'
<1>1. recovery_tasks_' = recovery_tasks_ /\ recovery' = recovery /\ main' = main
  BY DEF Receive, Detach, Answer, Exit, recoveryVars
<1>2. ASSUME NEW x \in Workers, x # w
      PROVE  /\ process'[x] = process[x] /\ reader'[x] = reader[x]
             /\ sent_tasks'[x] = sent_tasks[x] /\ stdout'[x] = stdout[x]
  BY <1>2 DEF Receive, Detach, Answer, Exit, queueVars, processVars, readerVars, Inv, TypeOK,
             QueueTypes, ProcessTypes, ReaderTypes
<1>3. /\ reader'[w] \in {reader[w], "done"}
      /\ process'[w] = "closed" \/ (process'[w] = "dead" /\ reader'[w] = "reading")
           => main.pc = "stop" /\ w \in main.held
      /\ process'[w] = "dead" /\ reader'[w] = "reading" => Len(sent_tasks'[w]) = Len(stdout'[w])
  <2>1. CASE Receive(w)
    <3>1. reader' = reader /\ process' = process /\ reader[w] = "reading" /\ stdout[w] # <<>>
      BY <2>1 DEF Receive, readerVars
    <3>2. sent_tasks'[w] = Tail(sent_tasks[w]) /\ stdout'[w] = Tail(stdout[w])
      BY <2>1 DEF Receive, Inv, TypeOK, QueueTypes, ProcessTypes
    <3>3. ASSUME process[w] = "dead" PROVE Len(Tail(sent_tasks[w])) = Len(Tail(stdout[w]))
      <4> DEFINE q == sent_tasks[w]
                 o == stdout[w]
      <4>1. q \in Seq(Tasks) /\ o \in Seq(Tasks) /\ o # <<>> /\ Len(q) = Len(o)
        BY <3>1, <3>3, Typed DEF Inv, QuietInv
      <4> HIDE DEF q, o
      <4>2. Len(o) \in Nat /\ Len(o) > 0 /\ Len(Tail(o)) = Len(o) - 1
        BY <4>1, TailSet
      <4>3. q # <<>>
        BY <4>1, <4>2
      <4>4. Len(Tail(q)) = Len(q) - 1
        BY <4>1, <4>3, TailSet
      <4>5. Len(Tail(q)) = Len(Tail(o))
        BY <4>1, <4>2, <4>4
      <4> QED
        BY <4>5 DEF q, o
    <3> QED
      BY <3>1, <3>2, <3>3 DEF QuietInv
  <2>2. CASE Detach(w)
    <3>1. Len(sent_tasks[w]) = Len(stdout[w]) /\ w \in main.held /\ stdout[w] = <<>>
      BY <2>2 DEF Detach, QuietInv
    <3>2. sent_tasks[w] = <<>> /\ w \notin Queued
      BY <3>1, Typed, EmptySeq DEF Inv, QueueInv
    <3>3. reader'[w] = "done" /\ process' = process
      BY <2>2, <3>2 DEF Detach, processVars, Queued, Inv, TypeOK, ReaderTypes
    <3> QED
      BY <3>3 DEF QuietInv
  <2>3. CASE Answer(w)
    <3>1. reader' = reader /\ process' = process /\ process[w] # "dead"
      BY <2>3 DEF Answer, readerVars, Alive
    <3> QED
      BY <3>1 DEF QuietInv
  <2>4. CASE Exit(w)
    <3>1. /\ process[w] = "closed" /\ reader' = reader /\ main.pc = "stop" /\ w \in main.held
          /\ sent_tasks' = sent_tasks /\ stdout' = stdout /\ stdin[w] = <<>>
      BY <2>4 DEF Exit, readerVars, queueVars, QuietInv
    <3>2. process'[w] = "dead"
      BY <2>4 DEF Exit, Inv, TypeOK, ProcessTypes
    <3>3. reader[w] = "reading" => Len(sent_tasks[w]) = Len(stdout[w])
      <4> SUFFICES ASSUME reader[w] = "reading" PROVE Len(sent_tasks[w]) = Len(stdout[w])
        OBVIOUS
      <4> DEFINE l == Len(sent_tasks[w])
                 m == Len(stdout[w])
                 n == Len(stdin[w])
      <4>1. /\ l = m + n + num_pending_sends[w] /\ num_pending_sends[w] = 0 /\ n = 0
            /\ l \in Nat /\ m \in Nat
        BY <3>1, Typed DEF Inv, PipeInv, PipeOK, MainInv, Alive
      <4> HIDE DEF l, m, n
      <4>2. l = m
        BY <4>1
      <4> QED
        BY <4>2 DEF l, m
    <3> QED
      BY <3>1, <3>2, <3>3
  <2> QED
    BY <2>1, <2>2, <2>3, <2>4
<1>4. ASSUME NEW x \in Workers
      PROVE  /\ reader'[x] \in {reader[x], "reading", "done"}
             /\ process'[x] = "closed" \/ (process'[x] = "dead" /\ reader'[x] = "reading")
                  => main'.pc = "stop" /\ x \in main'.held
             /\ process'[x] = "dead" /\ reader'[x] = "reading"
                  => Len(sent_tasks'[x]) = Len(stdout'[x])
  BY <1>1, <1>2, <1>3 DEF QuietInv
<1> QED
  BY <1>1, <1>4, QuietFrame

\* Steps of the caller before the first crash.
LEMMA QuietMain ==
  ASSUME Inv, QuietInv, crashes = 0, Main
  PROVE  QuietInv'
<1>1. recovery_tasks_' = recovery_tasks_ /\ recovery' = recovery
  BY DEF Main, Send, EndSend, Join, SwapWorkers, CloseWorkers, StopWorkers, SwapThreads,
         JoinThreads, MainUnchanged, recoveryVars
<1>2. SUFFICES ASSUME NEW w \in Workers
               PROVE  /\ reader'[w] \in {reader[w], "reading"}
                      /\ ~Working(w)' => main'.pc = "stop" /\ w \in main'.held
                      /\ process'[w] = "dead" /\ reader'[w] = "reading"
                           => Len(sent_tasks'[w]) = Len(stdout'[w])
  BY <1>1, QuietFrame DEF Working
<1>3. main.pc # "stop" => Working(w)
  BY DEF QuietInv, Working
<1>4. CASE Send
  <2>1. main.pc = "send" /\ BeginSend("main", main.next)
    BY <1>4 DEF Send
  <2>2. process'[w] \in {process[w], "running"}
    BY <2>1 DEF BeginSend, Inv, TypeOK, ProcessTypes
  <2>3. reader'[w] \in {reader[w], "reading"} /\ (reader'[w] # reader[w] => process'[w] = "running")
    BY <2>1 DEF BeginSend, Inv, TypeOK, ProcessTypes, ReaderTypes
  <2> QED
    BY <1>3, <2>1, <2>2, <2>3 DEF Working
<1>5. CASE EndSend("main")
  <2>1. main.pc = "send"
    BY <1>5 DEF EndSend, Inv, MainInv
  <2>2. process' = process /\ reader' = reader
    BY <1>5 DEF EndSend, readerVars
  <2> QED
    BY <1>3, <2>1, <2>2 DEF Working
<1>6. CASE Join \/ SwapWorkers \/ SwapThreads \/ JoinThreads
  <2>1. main.pc # "stop" /\ process' = process /\ reader' = reader
    BY <1>6 DEF Join, SwapWorkers, SwapThreads, JoinThreads, MainUnchanged, readerVars
  <2> QED
    BY <1>3, <2>1 DEF Working
<1>7. CASE CloseWorkers
  <2>1. /\ main.pc # "stop" /\ reader' = reader /\ main'.pc = "stop" /\ main'.held = main.held
        /\ process'[w] = IF w \in main.held /\ process[w] = "running" THEN "closed" ELSE process[w]
    BY <1>7 DEF CloseWorkers, MainUnchanged, readerVars, Inv, TypeOK, MainTypes
  <2> QED
    BY <1>3, <2>1 DEF Working
<1>8. CASE StopWorkers
  <2>1. process' = process /\ reader' = reader /\ \A x \in main.held : reader[x] = "done"
    BY <1>8 DEF StopWorkers, MainUnchanged, readerVars
  <2>2. Working(w)
    BY <2>1 DEF QuietInv, Working, Inv, QueueInv, WorkerOK
  <2> QED
    BY <2>1, <2>2 DEF Working
<1> QED
  BY <1>4, <1>5, <1>6, <1>7, <1>8 DEF Main

\* Every step keeps QuietInv,
LEMMA QuietNext == Inv /\ QuietInv /\ [Next]_vars => QuietInv'
<1> SUFFICES ASSUME Inv, QuietInv, [Next]_vars, crashes' = 0 PROVE QuietInv'
  BY DEF QuietInv
<1>1. CASE UNCHANGED vars
  BY <1>1 DEF vars, queueVars, processVars, readerVars, recoveryVars, QuietInv
<1>2. CASE Main
  <2>1. crashes' = crashes
    BY <1>2 DEF Main, Send, BeginSend, EndSend, Join, SwapWorkers, CloseWorkers, StopWorkers,
                SwapThreads, JoinThreads, MainUnchanged
  <2> QED
    BY <1>2, <2>1, QuietMain
<1>3. CASE Recovery
  <2>1. crashes' = crashes
    BY <1>3 DEF Recovery, TakeTasks, FindNothing, EndThread, StopFailed, Resend, BeginSend,
                EndSend, EndResend, RetrySuspected, RecoveryUnchanged, processVars
  <2>2. recovery.pc = "none" /\ sending["recovery"] = NoSend
    BY <2>1 DEF QuietInv, Inv, RecoveryInv
  <2> QED
    BY <1>3, <2>2 DEF Recovery, TakeTasks, FindNothing, EndThread, StopFailed, Resend, EndSend,
                      EndResend, RetrySuspected
<1>4. ASSUME NEW w \in Workers, Reader(w) \/ Process(w) PROVE QuietInv'
  <2>1. crashes' = crashes
    BY <1>4 DEF Reader, Receive, Detach, Leave, LeaveNothing, StartRecovery, Process, Answer, Exit, processVars
  <2>2. ~Leave(w) /\ ~LeaveNothing(w) /\ ~StartRecovery(w)
    BY <2>1 DEF Leave, LeaveNothing, StartRecovery, QuietInv
  <2> QED
    BY <1>4, <2>1, <2>2, QuietReaders DEF Reader, Process
<1>5. ASSUME NEW w \in Workers, Crash(w) PROVE FALSE
  BY <1>5 DEF Crash, Inv, TypeOK, ProcessTypes
<1> QED
  BY <1>1, <1>2, <1>3, <1>4, <1>5 DEF Next

\* and so the lists need no assumption on the senders before the first crash.
LEMMA QuietListsNext == Inv /\ QuietInv /\ QuietLists /\ [Next]_vars => QuietLists'
<1> SUFFICES ASSUME Inv, QuietInv, QuietLists, [Next]_vars, crashes' = 0 PROVE ListsInv'
  BY DEF QuietLists
<1>1. crashes = 0
  <2>1. ASSUME NEW w \in Workers, Crash(w) PROVE FALSE
    BY <2>1 DEF Crash, Inv, TypeOK, ProcessTypes
  <2>2. \A w \in Workers : Reader(w) \/ Process(w) => crashes' = crashes
    BY DEF Reader, Receive, Detach, Leave, LeaveNothing, StartRecovery, Process, Answer, Exit, processVars
  <2>3. Main => crashes' = crashes
    BY DEF Main, Send, BeginSend, EndSend, Join, SwapWorkers, CloseWorkers, StopWorkers,
           SwapThreads, JoinThreads, MainUnchanged
  <2>4. Recovery => crashes' = crashes
    BY DEF Recovery, TakeTasks, FindNothing, EndThread, StopFailed, Resend, BeginSend,
           EndSend, EndResend, RetrySuspected, RecoveryUnchanged, processVars
  <2> QED
    BY <2>1, <2>2, <2>3, <2>4 DEF Next, vars, processVars
<1>2. Inv' /\ QuietInv'
  BY NextInv, QuietNext
<1>3. ~Racing /\ ~Racing'
  <2>1. ~Racing
    BY <1>1, QuietMeansNoRace
  <2>2. sending'["recovery"] = NoSend
    BY <1>2 DEF QuietInv, Inv, RecoveryInv
  <2>3. ~Racing'
    BY <2>2 DEF Racing, Senders, NoSend, Workers
  <2> QED
    BY <2>1, <2>3
<1> QED
  BY <1>1, <1>3, NextLists DEF QuietLists

\* Nothing has died in the beginning.
LEMMA InitQuiet == Init => QuietInv /\ QuietLists
<1>1. Init => QuietInv
  BY DEF Init, QuietInv
<1> QED
  BY <1>1, InitLists DEF QuietLists

\* When Join returns no queue and no recovery thread has a task left, and without
\* a crash every task is answered, once.
THEOREM JoinLeavesNothing == Spec => []JoinWaits
<1>1. ASSUME Inv, QuietInv, QuietLists, Returned PROVE JoinWaits
  <2>1. /\ \A w \in Workers : sent_tasks[w] = <<>>
        /\ recovery.task = NoTasks /\ main.next = NumTasks + 1
    BY <1>1 DEF Returned, Inv, MainInv, RecoveryInv, QueueInv, WorkerOK
  <2>2. recovery.task.suspected = <<>> /\ recovery.task.remaining = <<>>
    BY <2>1 DEF NoTasks
  <2>3. ASSUME NEW t \in Tasks PROVE ~In(t, QueueLists \cup RecoveryLists)
    <3>1. \A list \in QueueLists \cup RecoveryLists : list = <<>>
      BY <2>1, <2>2 DEF QueueLists, RecoveryLists
    <3> QED
      BY <3>1, ToSetEmpty DEF In
  <2>4. ASSUME crashes = 0, NEW t \in Tasks PROVE answered[t] = 1
    <3>1. ListsInv /\ recovery_tasks_ = NoTasks /\ \A w \in Workers : reader[w] # "leaving"
      BY <1>1, <2>4 DEF QuietLists, QuietInv
    <3>2. \A w \in Workers : pending_tasks[w] = <<>>
      BY <1>1, <3>1 DEF Inv, QueueInv, WorkerOK
    <3>3. ~Held(t)
      <4>1. recovery_tasks_.suspected = <<>> /\ recovery_tasks_.remaining = <<>>
        BY <3>1 DEF NoTasks
      <4>2. \A list \in QueueLists \cup HandOverLists \cup LeftLists \cup RecoveryLists : list = <<>>
        BY <2>1, <2>2, <3>2, <4>1 DEF QueueLists, HandOverLists, LeftLists, RecoveryLists
      <4> QED
        BY <4>2, ToSetEmpty DEF Held, In
    <3>4. t \in 1 .. main.next - 1
      BY <2>1, ConstantsAssumption DEF Tasks
    <3>5. answered[t] \in {0, 1} /\ answered[t] # 0
      BY <1>1, <3>1, <3>3, <3>4, Unanswered DEF ListsInv, OnceInv
    <3> QED
      BY <3>5
  <2> QED
    BY <2>3, <2>4 DEF JoinWaits
<1>2. Inv /\ QuietInv /\ QuietLists => JoinWaits
  BY <1>1 DEF JoinWaits
<1> QED
  BY <1>2, InvHolds, InitQuiet, QuietNext, QuietListsNext, PTL DEF Spec
-----------------------------------------------------------------------------
\* What is left for the recovery

\* The recovery thread is going to look for tasks again, or a reader to start it.
Attended ==
  \/ recovery.pc \notin {"none", "exiting"}
  \/ \E w \in Workers : reader[w] = "starting"

LeftInv == recovery_tasks_ # NoTasks => Attended

\* A reader that is not late finds the thread attentive, or starts it.
LEMMA ReaderAttends ==
  ASSUME Inv, LeftInv, ~Late, NEW w \in Workers, Reader(w)
  PROVE  LeftInv'
<1>1. CASE Leave(w)
  <2>1. reader'[w] = "starting"
    BY <1>1 DEF Leave, Inv, TypeOK, ReaderTypes
  <2> QED
    BY <2>1 DEF LeftInv, Attended
<1>2. CASE StartRecovery(w)
  <2>1. CASE recovery_running_
    <3>1. recovery.pc \notin {"none", "exiting"}
      BY <1>2, <2>1 DEF StartRecovery, Late, Inv, RecoveryInv
    <3>2. recovery' = recovery
      BY <1>2, <2>1 DEF StartRecovery, recoveryVars
    <3> QED
      BY <3>1, <3>2 DEF LeftInv, Attended
  <2>2. CASE ~recovery_running_
    <3>1. recovery'.pc = "wait"
      BY <1>2, <2>2 DEF StartRecovery, Inv, TypeOK, RecoveryTypes
    <3> QED
      BY <3>1 DEF LeftInv, Attended
  <2> QED
    BY <2>1, <2>2
<1>3. CASE Receive(w) \/ Detach(w) \/ LeaveNothing(w)
  <2>1. recovery_tasks_' = recovery_tasks_ /\ recovery' = recovery
    BY <1>3 DEF Receive, Detach, LeaveNothing, recoveryVars
  <2>2. reader[w] # "starting"
    BY <1>3 DEF Receive, Detach, LeaveNothing
  <2>3. \A x \in Workers : reader[x] = "starting" => reader'[x] = "starting"
    <3>1. \A x \in Workers \ {w} : reader'[x] = reader[x]
      BY <1>3 DEF Receive, Detach, LeaveNothing, readerVars, Inv, TypeOK, ReaderTypes
    <3> QED
      BY <2>2, <3>1
  <2> QED
    BY <2>1, <2>3 DEF LeftInv, Attended
<1> QED
  BY <1>1, <1>2, <1>3 DEF Reader

\* The thread ends only when nothing was there, and is left with nothing.
LEMMA RecoveryAttends ==
  ASSUME Inv, LeftInv, ~Late, Recovery
  PROVE  LeftInv'
<1>1. CASE TakeTasks
  BY <1>1 DEF TakeTasks, LeftInv
<1>2. CASE FindNothing
  BY <1>2 DEF FindNothing, LeftInv
<1>3. CASE EndThread
  <2>1. recovery_tasks_ = NoTasks
    BY <1>3 DEF EndThread, LeftInv, Attended, Late
  <2> QED
    BY <1>3, <2>1 DEF EndThread, LeftInv
<1>4. CASE StopFailed
  <2>1. recovery'.pc \in {"stop", "resend"}
    BY <1>4 DEF StopFailed, Inv, TypeOK, RecoveryTypes
  <2> QED
    BY <2>1 DEF LeftInv, Attended
<1>5. CASE Resend \/ EndResend \/ RetrySuspected
  <2>1. recovery'.pc \in {"resend", "retry", "wait"}
    BY <1>5 DEF Resend, EndResend, RetrySuspected, Inv, TypeOK, RecoveryTypes
  <2> QED
    BY <2>1 DEF LeftInv, Attended
<1>6. CASE EndSend("recovery")
  BY <1>6 DEF EndSend, readerVars, recoveryVars, LeftInv, Attended
<1> QED
  BY <1>1, <1>2, <1>3, <1>4, <1>5, <1>6 DEF Recovery

\* The caller and the processes leave it alone.
LEMMA OthersAttend ==
  ASSUME Inv, LeftInv,
         \/ Main
         \/ \E w \in Workers : Process(w) \/ Crash(w)
         \/ UNCHANGED vars
  PROVE  LeftInv'
<1>1. recovery_tasks_' = recovery_tasks_ /\ recovery' = recovery
  BY DEF Main, Send, BeginSend, EndSend, Join, SwapWorkers, CloseWorkers, StopWorkers,
         SwapThreads, JoinThreads, MainUnchanged, Process, Answer, Exit, Crash,
         vars, recoveryVars
<1>2. ASSUME NEW w \in Workers, reader[w] = "starting" PROVE reader'[w] = "starting"
  <2>1. CASE Send
    <3>1. PICK x \in Workers : QueueFor(x) /\
            (IF process[x] = "none"
             THEN reader' = [reader EXCEPT ![x] = "reading"] ELSE reader' = reader)
      BY <2>1 DEF Send, BeginSend
    <3>2. process[w] # "none"
      BY <1>2 DEF Inv, QueueInv, WorkerOK
    <3> QED
      BY <1>2, <3>1, <3>2 DEF Inv, TypeOK, ReaderTypes
  <2>2. CASE ~Send
    <3>1. reader' = reader
      BY <2>2 DEF Main, EndSend, Join, SwapWorkers, CloseWorkers, StopWorkers,
                  SwapThreads, JoinThreads, MainUnchanged, Process, Answer, Exit, Crash,
                  vars, readerVars
    <3> QED
      BY <1>2, <3>1
  <2> QED
    BY <2>1, <2>2
<1> QED
  BY <1>1, <1>2 DEF LeftInv, Attended

\* As long as no reader is late, what is left when Join returns was left by a
\* reader that is about to start the recovery thread for it: neither Join nor the
\* end of the thread passes tasks over.
THEOREM LeftForTheNextThread == Spec => LeftIsTaken
<1> DEFINE P == Returned /\ recovery_tasks_ # NoTasks
                  => \E w \in Workers : reader[w] = "starting"
<1>1. Inv /\ LeftInv => P
  BY DEF Inv, MainInv, Returned, LeftInv, Attended
<1>2. Inv /\ LeftInv /\ ~Late /\ [Next]_vars => LeftInv'
  <2> SUFFICES ASSUME Inv, LeftInv, ~Late, [Next]_vars PROVE LeftInv'
    OBVIOUS
  <2>1. CASE \E w \in Workers : Reader(w)
    BY <2>1, ReaderAttends
  <2>2. CASE Recovery
    BY <2>2, RecoveryAttends
  <2>3. CASE Main \/ (\E w \in Workers : Process(w) \/ Crash(w)) \/ UNCHANGED vars
    BY <2>3, OthersAttend
  <2> QED
    BY <2>1, <2>2, <2>3 DEF Next
<1>3. Init => LeftInv
  BY DEF Init, LeftInv
<1>4. Spec /\ []~Late => []P
  <2> HIDE DEF P
  <2> QED
    BY <1>1, <1>2, <1>3, InvHolds, PTL DEF Spec
<1> QED
  BY <1>4, PTL DEF LeftIsTaken
===============================================================================
