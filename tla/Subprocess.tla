------------------------------ MODULE Subprocess ------------------------------
(***************************************************************************)
(* Subprocess (util/process): child processes with redirected stdin and      *)
(* stdout, and what fork does to the pipes of the others.                    *)
(*                                                                           *)
(* Each subprocess has a thread of the parent that starts it, closes its     *)
(* stdin and destroys it, and a reader of its stdout.  A fork copies all     *)
(* open ends of the parent, an exec closes those marked close-on-exec.  Some *)
(* subprocesses are started under a mutex (ParseQueue::GetQueue holds        *)
(* workers_mutex_), others without one (the single parser of the recovery    *)
(* thread).  A child is a filter: it ends when its stdin does, or dies.      *)
(***************************************************************************)
EXTENDS Naturals, FiniteSets

CONSTANTS
  Procs,                     \* the subprocesses, with the thread of each
  Guarded                    \* those started under a mutex they share

ASSUME ConstantsAssumption == Guarded \subseteq Procs

Ends == [of : Procs, end : {"stdin r", "stdin w", "stdout r", "stdout w"}]
End(p, e) == [of |-> p, end |-> e]

VARIABLES
  thread,                    \* "new", "piped", "forked", "closed ends", "started",
                             \* "closed", "waited", "done"
  mutex,                     \* who is in GetQueue
  parent,                    \* the ends the parent has open
  cloexec,                   \* those of them marked close-on-exec
  child,                     \* "none", "forked", "running", "ended"
  held,                      \* the ends each child has open
  marks,                     \* cloexec as it was copied by the fork
  reader                     \* "none", "reading", "done"

vars == <<thread, mutex, parent, cloexec, child, held, marks, reader>>

Init ==
  /\ thread = [p \in Procs |-> "new"]
  /\ mutex = {}
  /\ parent = {} /\ cloexec = {}
  /\ child = [p \in Procs |-> "none"]
  /\ held = [p \in Procs |-> {}]
  /\ marks = [p \in Procs |-> {}]
  /\ reader = [p \in Procs |-> "none"]

\* Some process has the end open: as long as one has a write end, the reader of
\* the pipe sees no end of file.
Open(e) == e \in parent \/ \E p \in Procs : e \in held[p]

-----------------------------------------------------------------------------
\* Start, in the thread of the parent

MakePipes(p) ==
  /\ thread[p] = "new"
  /\ p \in Guarded => mutex = {}
  /\ mutex' = mutex \cup ({p} \cap Guarded)
  /\ parent' = parent \cup [of : {p}, end : {"stdin r", "stdin w", "stdout r", "stdout w"}]
  /\ thread' = [thread EXCEPT ![p] = "piped"]
  /\ UNCHANGED <<cloexec, child, held, marks, reader>>

Fork(p) ==
  /\ thread[p] = "piped"
  /\ thread' = [thread EXCEPT ![p] = "forked"]
  /\ child' = [child EXCEPT ![p] = "forked"]
  /\ held' = [held EXCEPT ![p] = parent]
  /\ marks' = [marks EXCEPT ![p] = cloexec]
  /\ UNCHANGED <<mutex, parent, cloexec, reader>>

\* Mutant of CloseEnds: the parent keeps the write end of stdout.
CloseStdinOnly(p) ==
  /\ thread[p] = "forked"
  /\ parent' = parent \ {End(p, "stdin r")}
  /\ thread' = [thread EXCEPT ![p] = "closed ends"]
  /\ UNCHANGED <<mutex, cloexec, child, held, marks, reader>>

CloseEnds(p) ==
  /\ thread[p] = "forked"
  /\ parent' = parent \ {End(p, "stdin r"), End(p, "stdout w")}
  /\ thread' = [thread EXCEPT ![p] = "closed ends"]
  /\ UNCHANGED <<mutex, cloexec, child, held, marks, reader>>

\* MakeFDNotInheritedByChildren for both ends, the reader, and the end of Start
MarkAndRead(p) ==
  /\ thread[p] = "closed ends"
  /\ cloexec' = cloexec \cup {End(p, "stdin w"), End(p, "stdout r")}
  /\ reader' = [reader EXCEPT ![p] = "reading"]
  /\ thread' = [thread EXCEPT ![p] = "started"]
  /\ mutex' = mutex \ {p}
  /\ UNCHANGED <<parent, child, held, marks>>

-----------------------------------------------------------------------------
\* The child

\* Mutant of Exec: the child keeps the ends it was redirected from.
ExecKeepingOwn(p) ==
  /\ child[p] = "forked"
  /\ held' = [held EXCEPT ![p] = @ \ marks[p]]
  /\ child' = [child EXCEPT ![p] = "running"]
  /\ UNCHANGED <<thread, mutex, parent, cloexec, marks, reader>>

\* Redirect, close and execv: the child keeps its stdin and stdout, and what it
\* inherited without a mark.
Exec(p) ==
  /\ child[p] = "forked"
  /\ held' = [held EXCEPT ![p] =
       {End(p, "stdin r"), End(p, "stdout w")} \cup {e \in @ : e.of # p /\ e \notin marks[p]}]
  /\ child' = [child EXCEPT ![p] = "running"]
  /\ UNCHANGED <<thread, mutex, parent, cloexec, marks, reader>>

Ended(p) ==
  /\ child' = [child EXCEPT ![p] = "ended"]
  /\ held' = [held EXCEPT ![p] = {}]
  /\ UNCHANGED <<thread, mutex, parent, cloexec, marks, reader>>

\* The end of its input
Finish(p) == child[p] = "running" /\ ~Open(End(p, "stdin w")) /\ Ended(p)

\* A failed execv, a memory limit, a crash
Die(p) == child[p] \in {"forked", "running"} /\ Ended(p)

-----------------------------------------------------------------------------
\* The reader's loop ends with the output, and closes its end.
ReadEnd(p) ==
  /\ reader[p] = "reading" /\ ~Open(End(p, "stdout w"))
  /\ reader' = [reader EXCEPT ![p] = "done"]
  /\ parent' = parent \ {End(p, "stdout r")}
  /\ UNCHANGED <<thread, mutex, cloexec, child, held, marks>>

Close(p) ==
  /\ thread[p] = "started"
  /\ parent' = parent \ {End(p, "stdin w")}
  /\ thread' = [thread EXCEPT ![p] = "closed"]
  /\ UNCHANGED <<mutex, cloexec, child, held, marks, reader>>

\* ~Subprocess
WaitPid(p) ==
  /\ thread[p] = "closed" /\ child[p] = "ended"
  /\ thread' = [thread EXCEPT ![p] = "waited"]
  /\ UNCHANGED <<mutex, parent, cloexec, child, held, marks, reader>>

JoinReader(p) ==
  /\ thread[p] = "waited" /\ reader[p] = "done"
  /\ thread' = [thread EXCEPT ![p] = "done"]
  /\ UNCHANGED <<mutex, parent, cloexec, child, held, marks, reader>>

ThreadStep(p) ==
  \/ MakePipes(p) \/ Fork(p) \/ CloseEnds(p) \/ MarkAndRead(p)
  \/ Close(p) \/ WaitPid(p) \/ JoinReader(p)
ChildStep(p) == Exec(p) \/ Finish(p)

Next == \E p \in Procs : ThreadStep(p) \/ ChildStep(p) \/ ReadEnd(p) \/ Die(p)

\* Threads and processes are scheduled, nobody keeps the mutex from a thread
\* for ever, and no child has to die.
Spec ==
  /\ Init /\ [][Next]_vars
  /\ \A p \in Procs : SF_vars(ThreadStep(p)) /\ WF_vars(ChildStep(p)) /\ WF_vars(ReadEnd(p))

-----------------------------------------------------------------------------
\* Properties

\* The types of the threads' and processes' states; one thread is in the mutex.
TypeOK ==
  /\ thread \in [Procs -> {"new", "piped", "forked", "closed ends", "started", "closed",
                           "waited", "done"}]
  /\ mutex \subseteq Guarded /\ Cardinality(mutex) <= 1
  /\ parent \subseteq Ends /\ cloexec \subseteq Ends
  /\ child \in [Procs -> {"none", "forked", "running", "ended"}]
  /\ held \in [Procs -> SUBSET Ends] /\ marks \in [Procs -> SUBSET Ends]
  /\ reader \in [Procs -> {"none", "reading", "done"}]

\* "This ensures that once we close the stdin, the child will see it as eof"
\* (subprocess.cpp:153).
SeesEof == \A p \in Procs : thread[p] = "closed" ~> child[p] = "ended"

\* The reader of a process that has ended hears of it while the others live:
\* this is how ParseQueue notices that a worker died.
DeathIsNoticed == \A p \in Procs : child[p] = "ended" /\ reader[p] = "reading" ~> reader[p] = "done"
==============================================================================
