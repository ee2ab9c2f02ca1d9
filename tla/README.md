# A TLA+ development of InferUI

InferUI synthesises Android constraint layouts: from the absolute positions of
the views of one or several screens it computes *constraints* (alignments,
centerings, margins between views) that reproduce the positions and generalise
to other screen sizes. This directory models the parts of `src/` whose
correctness depends on long sequences of steps or on several threads, checks
them with TLC and proves properties of them with TLAPS.

## 1. Inventory

| Component | Source | State | Operations | Interacts with |
|---|---|---|---|---|
| View graph | `inferui/model/model.h`, `model.cpp` | views with one attribute per orientation, an attribute naming one or two target views | `IsAnchored`, `ReferencedNodes`, `IsCircularRelation`, `IsAnchoredWithAttr`, `ApplyAttribute`; the tables over constraint types; JSON and protobuf conversion | read by every synthesis, sent to the layout server |
| Greedy synthesis | `inferui/model/synthesis.h`, `base/iterutil.h` | the candidate lists, one position per list, the attributes of the views | `Synthesize`, `ShouldApplyConstraint`, the `MultiSortedIterator` | constraint cache, view graph |
| Constraint cache | `synthesis.h`, `constraints.h`, `constraints.cpp` | the candidate attributes of each view, their scores | generators, filter over several apps, pruning | scorers |
| Solver-based synthesis, candidate search | `inferui/synthesis/z3inference.h`, `.cpp` | candidate lists ordered by score, how many of them the solver was told, literals for "exactly one of these" | `GetSatConstraints*`, `SynthesizeMultiDeviceProb*` | Z3 |
| Solver-based synthesis, iteration | same files | blocking constraints, devices whose positions are still to be chosen | `SynthesizeLayoutIterative`, `BlockingConstraintsHelper`, the callbacks of `eval/nogis` and of the data generation | candidate search, oracle |
| User feedback | `datasets/dataset_util.cpp` | the places told for each device, the views corrected | `UserFeedbackSynthesis::Synthesize` | candidate search (base and fallback), repair |
| Probabilistic model | `constraint_model.*` | counts | training, scoring, serialisation | datasets, cache |
| Consistency repair | `syn_helper.*` | the app under repair | `TryFixInconsistencies`, `NormalizeMargins` | layout server |
| Layout server and its client | `layout_solver/solver.h`, the Java project | none between requests | one HTTP request per app | repair, evaluation |
| Parse queue | `util/parsequeue` | worker processes and their queues, tasks left for recovery, threads | `SendTask`, `Join`, reader callbacks, recovery thread | subprocess, callers |
| Subprocess | `util/process` | pid, pipes, a reader thread | `Start`, `WaitAndStop`, writes | parse queue |
| Thread pool and bounded queue | `util/thread/work_queue.h` | a queue, threads, flags | `AddTask`, `JoinAll`, `StopAll`, push and pop | training, evaluation |
| Records, streams, base utilities, servers, evaluation, vendored code | the rest | | | |

Hard behaviours, and what makes each component correct:

* *View graph and greedy synthesis.* Attributes are applied and replaced in an
  order given by floating-point scores; every decision looks at one attribute
  only. The result must be acyclic (the recursive walks and the layout solver
  rely on it), views must end up tied to the content frame when they can be,
  and what is tied must not come loose when something below it is replaced.
  The iterator has hand-written end and skip arithmetic.
* *Candidate search.* The solver learns the problem in pieces and under
  literals that stand for larger and larger sets; a second solver must be told
  the same again from the beginning. Bookkeeping that is stale by one step does
  not crash; it makes the search report UNSAT or accept a layout that does
  not fit. The solver may give up at any time, its cores are arbitrary.
* *Parse queue.* Five mutexes and a condition variable, processes that die,
  readers that hand tasks to a recovery thread which is itself a sender, and a
  Join that runs concurrently with all of it. No task may be lost or doubled,
  no queue deleted while somebody writes to it, and Join must return, having
  waited for everything.
* *Candidate generation.* Margins are halves that are doubled, split over two
  fields and sometimes ignored by the renderer; every candidate must reproduce
  the design. Pruning fixes one direction of reference for each pair of views,
  from an order with ties that the sort does not fix, and must leave every view
  something.
* *Iteration and user feedback.* Places chosen by the solver must be blocked and
  reset between queries, while the places of all other views stay; one value
  marks an unset place and is a place, too. A failing query leaves its apps half
  reset; a fallback writes into the specification it is given.
* *Repair.* Two loops over an external renderer without an obvious measure, one
  of which edits the app in place and takes back what made a difference.
* *Thread pool.* Two condition variables with `notify_one` and `notify_all` after
  the unlock, threads started with the mutex released, stops and joins.
* *Subprocess.* File descriptors that a concurrent `fork` copies between `pipe`
  and `FD_CLOEXEC`; whether anybody sees the end of a pipe depends on all ends
  being closed everywhere.

`PROJECT.json` lists the individual hazards with their lines.

## 2. Modules

    ViewGraph           <--  LayoutSynthesis, ViewGraphWalk
    LayoutSynthesis, ViewGraphWalk  <--  MCViewGraphs
                                    <--  LayoutSynthesisProofs

    ViewGraph, Anchors  <--  ConstraintCache    <--  MCConstraintCache
                                                <--  ConstraintCacheProofs
                        <--  ConsistencyRepair  <--  MCConsistencyRepair
                                                <--  ConsistencyRepairProofs

    CandidateSearch     <--  MCCandidateSearch
                        <--  CandidateSearchProofs

    DeviceQuery         <--  IterativeSynthesis, UserFeedback
    IterativeSynthesis, UserFeedback  <--  MCDeviceQueries
                                      <--  DeviceQueryProofs

    TaskPool  <-- (refined by)  ThreadPool  <--  ThreadPoolProofs

    ParseQueue          <--  ParseQueueProofs
    Subprocess

    OperatorLemmas      <--  the Proofs modules except those of
                             CandidateSearch and ThreadPool

An arrow points from a module to the one it extends.

### ViewGraph, ViewGraphWalk

A view graph maps each view of `0 .. NumViews` (0 is the content frame, which
has no attribute) to the set of its targets: none, one, or two for a centering.
`ViewGraph` defines the reachable views and the anchored ones as least fixed
points: the views in every set that holds the start and is closed under targets,
and the views in every set that holds the content frame and each view whose
targets, at least one, it holds. The code computes both by recursion.
`ViewGraphWalk` writes the walks as recursive functions of a view and the set of
views the callers have visited: `ReferencedNodesInner` has one set that all
branches add to, `IsAnchored` passes its set on to the primary target and starts
a fresh one for the secondary target. `AnchoredFrom` and `VisitedFrom` are the
bodies; the walk that answers the inner calls is their first argument.

* `WalkReachesAll`: on every graph, cyclic ones included, the shared set hides
  no reachable view.
* `WalkFindsAnchors`: on acyclic graphs the walk says anchored exactly when
  the fixed point does. The restriction is the code's own: on a cyclic graph
  the fresh set for the secondary target lets the recursion run forever, which
  is why `ReferencesAcyclic` below matters.
* `LevelsMeanAnchored`: the solver-based synthesis has no walks; it gives every
  view a positive integer, one more than the integer of its target or than the
  sum of those of both (`AddAnchorConstraints`, `AddSynAttributes`). When every
  view holds an attribute, these equations have a solution exactly when every
  view is anchored.

The run `view_graphs` enumerates all graphs of three views (2197 of them). Three views
are enough for a cycle through two others, for a centering whose targets share
a target, and for a chain that a shared visited set could cut. `MaxLevel = 7`
is the largest level three views can need (0, 1, 3, 7
when both targets of each view are the one before it); the module assumes that
`MaxLevel` is at least that number for its views.

### LayoutSynthesis

`Synthesize` for one orientation; the loop for the other orientation touches
other attributes. `candidates` is `candidate_attrs_`, `top` the iterator's
`top_`, `attributes` the attribute each view has. Probabilities are ranks in
`0 .. MaxProb`, since the code only compares them. One step is one turn of the
loop: `SkipCandidate` (`it++`) or `ApplyCandidate` (`ApplyAttribute`, then
`SetCurrentToEnd` if that anchors the view, then `it++`). What the constructor
of the cache guarantees is the predicate `IsCache`: each view has a non-empty
list, sorted by falling probability, in which it is never its own target. The
set of caches the synthesis may start from is the constant `Caches`;
`ConstraintCache` models how such a cache comes about.

`MCViewGraphs` also has the caches for the synthesis: every graph is walked beside
one short synthesis, every cache is used beside one graph, since the two do not
interact. Run `view_graphs`: three views and lists chosen so that heads tie across
views, relative candidates come before the one to the content frame, centerings
have two targets, and cycles of length two and three are on offer. Weak
fairness of the loop body: it is one sequential loop.

### CandidateSearch

The loop that looks for satisfiable candidate sets, the second solver that picks
among them, and the retry without optimisation. A view stands for a view in
one orientation: the single query treats the views of both alike. A
candidate is its rank; the geometry is a set of `conflicts`, sets of choices
that cannot hold together. `Models` is the external solver: it knows only what
it was told, so a conflict counts only when the device views were told about
its candidates, and a literal only constrains what was asserted under it. Its
answer is sound or "unknown"; its core is any unsatisfiable set of assumptions.
Cyclic references and anchors are part of the conflicts; `ViewGraphWalk` covers
the encoding of those.

`constraints_max_rank` and `constraints_added` are the fields of
`CandidateConstraints`, `constraints` and `satisfied_id` those of `Z3View`,
`device` what `AddGenAttributes` asserted, `groups` the implications asserted by
`FinishedAddingConstraints`. The actions are the encoding, a solver call,
a round of the loop (`AddMore`), the failures, and the hand-over to the second
solver (`Restart`).

The run uses steps of 1 in place of 5 and 10, so that lists of three candidates
need several rounds; the sweep comes every third round and there are six rounds,
enough for `SolvesSolvable` (two views with three candidates each) and few
enough that the search also runs out of them. `Problems` has every set of
excluding pairs. Fairness: one sequential procedure, every solver call returns
by its timeout. `SolvesSolvable` is conditional on a solver that never gives up
and on the time not running out, as the code reports anything else as TIMEOUT
or UNKNOWN. `RetryWithoutOpt = FALSE` with a `SweepEvery` beyond `MaxTries` is
the variant of `GetSatConstraints` and `SynthesizeMultiDeviceProb` for one
orientation; the proofs hold for it, too, and the run has the parameters of the single
query only.

### Anchors, ConstraintCache

`Anchors` writes a constraint type as the pair `SplitAnchor` gives: the side of
the target the start of a view is tied to, and the side its end is tied to. The
margins and the renderer follow from the sides, for both orientations alike.
`CenterMargin` is kept doubled, so that halves are integers. The renderer is
external: it places an aligned view by its margin, stretches a view of
`MATCH_CONSTRAINT` size between its anchors, and gives a centered view half of
the free space on either side; an odd unit goes to one side or the other (`up`),
and the margins of a view centered on one and the same anchor are ignored, as
the comment at `constraints.h:50` says.

`ConstraintCache` is the constructor: `Generate` (the three generators),
`FilterByApp` (one turn of the loop over further apps, with `matches` and
`attrs` under their two numberings), `Emplace`, then the pruning iteration,
where `Visit` takes a most probable attribute of the first view that has one.
`std::sort` is not stable, so that equally probable attributes of one view come
in any order: the candidates of a view are a set. Which scores the model gives
is the constant `AttrProb`.

* `CandidatesRender`: whatever the generators and the filter leave reproduces
  the design, in the app and in every further app, however halves are rounded.
* `NotBothWays`, `ProbabilityDecides`: of two views only one may refer to the
  other, and it is the more probable direction that is allowed.
* `AlwaysAllowed`: pruning and `IsValid` leave every view an attribute, so that
  the solver always has one to choose.

The run has 50 designs of three views out of five intervals (nested, adjacent,
overlapping, partly outside of the frame), three orders of probability with
ties, and four choices of further apps of which one or two come together, where
views move or grow with the frame. The property on the filter is one-sided on
purpose: with two further apps the stale numbering of `synthesis.h:265-278` may
drop attributes that fit all apps, and the `CHECK` of line 294 may fail. No
program of the repository passes further apps.

### ConsistencyRepair

`TryFixInconsistencies` followed by `NormalizeMargins`, as `dataset_util.cpp`
calls them. `ref_app` is the caller's app, `app` the working copy; one step is
one request to the layout server with what is done to the answer. As the
references are acyclic, the server's answer is the recursive function `Layout`.
The inputs are apps with acyclic references that satisfy what the solver has
asserted of every attribute (`SatisfiesConstraint`): its view is where it is
designed, given that its targets are, except that a centered view of fixed size
may have its center half a unit low, as `round_real2int` takes -1/2 for 0.

* `SuccessIsRendered`: a claimed success renders as designed in *both*
  orientations although the orientations are repaired one after the other, and
  normalization, which works on the repaired app in place, never gives it up.
* `GivesUpForReason`: when the repair fails, some wrong view had no margin to
  move it by. The test that ends the loop (as many wrong views as before)
  therefore never stops too early.
* `Terminates`: the number of wrong views never alternates.

The run takes two designs of three views, all acyclic choices of up to two
targets each that the lists offer, and two vertical layouts; three views are
enough for a wrong view below a wrong view, and for a unit margin that makes a
difference only through another view.

### DeviceQuery, IterativeSynthesis, UserFeedback

`DeviceQuery` is what one query of the solver does to the apps of its devices:
it gives a place to the views that have none and leaves the others. A place
stands for the four coordinates. `AtMinusOne` are the places with a coordinate
-1, which `HasFixedPosition` takes for unset.

`IterativeSynthesis` is `SynthesizeLayoutIterative` with the callbacks of
`nogis_iterative.cpp`: a view joins (`NextView`), the solver is asked for
candidates that differ from those before (`Candidate`, with
`BlockingConstraintsHelper`), a query may fail (`NoCandidate`, which leaves the
views reset), `predict_cb` chooses (`Predict`: the best candidate, or the true
layout when data is generated), and after the last view one more query yields
the result.

`UserFeedback` is the loop of `UserFeedbackSynthesis::Synthesize`: synthesis by
the base synthesizer, by the fallback, repair, and the correction of the first
wrong view nobody was told about. What the layout server makes of a synthesized
app is any layout, since neither synthesis nor repair promises to keep to the
places it was given. `Synthesize` hands the base synthesizer a copy of
`gen_apps`, `Fallback` hands over `gen_apps` itself.

* `SettledViewsStay`: no step of an iteration moves a view that had a place
  when the last one was added. A view is settled unless it counts as open, for
  which a coordinate -1 suffices.
* `LastViewMovesIfSettled`: two candidates of an iteration differ in the last
  view, always when data is generated (the earlier views then are the beginning
  of the true layout, which has no coordinate -1), and else as long as the earlier
  views are settled. `LastViewMoves`, without the condition, is what the comment
  of `nogis_iterative.cpp` claims.
* `IterationsComplete`: what an iteration ends with is complete.
* `FeedbackKept`, `CorrectionsSuffice`: corrections survive the fallback's
  writing, and a layout that honours all of them at the end is the right one.
* `LoopsEnd`: both loops end.

`MCDeviceQueries` runs the one or the other program, in run `device_queries`: three
views, two places and one with a coordinate -1, up to two candidates (a view
placed at -1 is open again in the next iterations); or two views on two devices,
which are needed for a correction on one to be overlooked on the other. A place the
fallback leaves in `gen_apps` then is right, wrong, or wrong and open again; what
the layout server makes of an app is right or wrong in each view, for which two
places suffice (`RenderedPlaces`), and which of them is the right one does not
matter. Run `iterative_minus_one` shows, with two views, that `LastViewMoves` is
violated. Fairness: sequential programs whose queries return.

### ParseQueue

The caller (`SendTask` for each task, then `Join`), one reader thread per worker
process, the recovery thread, and the processes, which are external: they
answer in order and may die at any time, with input or idle. One step is what a
thread does under one lock;
`SendTask` is two steps because it pushes under `workers_mutex_` and writes
under `send_mutex`. `EndSend` takes the write, the end of the pending send and its
notification together: between them the sender changes nothing that others
read, and whoever waits for the count could only wait longer. `LeaveWorkerItemsForRecovery` and
`StartErrorRecoveryThreadIfNotRunning` are two steps of the reader, taking the
queue out of `workers_` an earlier one. A lock that is held across a step is
modelled by the step's atomicity; two waits (no pending sends, reader joined)
are guards. A worker's number is also the identity of its queue.

`LeaveNothing` is the end of a behaviour that C++ does not define: a reader hands
over no task (line 288 calls `front()` on an empty queue), because its worker died
after its last answer while it was registered. `pop()` then moves the
beginning of the queue past its end, and the loop that empties it walks on
through memory. The model stops there (`Undefined`): no property of a later
state could be meant.

Run `parse_queue`: four tasks, two workers per language, up to seven processes,
two deaths at any time. That gives queues longer than
one (so that there is an order to get wrong), two readers that hand over at the
same time, a worker started by the recovery thread that dies again, and Join
anywhere in between. Seven processes are never exhausted, so the bound
cuts nothing. Fairness: each thread is scheduled; a process whose input was
closed answers what it was sent and ends, since closing flushes what was
written. While the input is open nothing forces an answer, as a written task may
still be in the buffer of the stream. A crash is never owed.

* `AnswersAddUp`, `ListsAreUnanswered`: no crash or hand-over drops, doubles or
  exchanges a task; the latter as long as the two senders do not write to one
  worker at once.
* `JoinWaits`, `JoinReturns`: what Join has waited for when it returns, and that it
  returns, or the program reached undefined behaviour.
* `LeftIsTaken`: what is left for the recovery is taken by its thread, before Join
  returns or by one that is about to be started, as long as no reader is `Late`.
* `DeletedUnused`: no queue is deleted while a sender is about to write to it.

Two runs refute what the header says, that the queue "is able to retry in case a
parser process fails". `FailureIsSurvived` (`parse_queue_idle_death`): an idle worker
dies, `LeaveNothing`. `AllAnswered` (`parse_queue_unanswered`): a reader that took its
queue out of `workers_` and has not left the tasks yet is invisible to Join. That is
the shortest of three ways to break `AllAnswered`. The other two are what the
conditions of `LeftIsTaken` and `ListsAreUnanswered` exclude:

* `Late`: the recovery thread decides to end, a reader leaves its tasks and finds
  `recovery_running_` still set, and no thread takes them (line 362, against the
  comment of line 240).
* `Racing`: the caller and the recovery thread push to one queue in one order and
  write in the other; the reader pops by position, so that after a death an answered
  task is recovered in place of one that was not, which nobody sends again
  (line 187).

Without its condition, either property is violated. `LeftIsTaken` and
`ListsAreUnanswered` show that there is no further way of the kind.

### TaskPool, ThreadPool

`TaskPool` is what the pool promises: tasks are queued up to a limit, started in
that order, run once, refused only by a stopped pool with a full queue, and
`JoinAll` returns when all are done or the pool was stopped. `ThreadPool` is the
code: a step is what a thread does under `mutex_`, or one call outside of it
(starting a thread, notifying, running a task). A notification reaches those
who wait and is lost otherwise; a wait may end without one. `AddTask` has the
steps `AddTask`, `StartThread`, `AddThread` (the mutex is released in between),
`Recheck` after each wait, `NotifyEmpty`.

* `WorkIsNoticed`, `RoomIsNoticed`: no notification is missed. The second counts:
  while a caller sleeps, free places are matched by notifications under way or
  callers that are awake.
* `NoMoreThreads`: the pool exceeds `num_threads_` by the other callers at most,
  which are not excluded while one starts a thread.
* `JoinedIsQuiet`, `JoinReturns`, and `ImplementsPool`: the refinement of
  `TaskPool`, its liveness included.

Two callers, three tasks, a queue of one place and one thread (two when they
race) make callers wait, threads sleep and stops arrive in between. `JoinAll`
comes when the callers are done, as the class is used; `EarlyJoin = TRUE` lets it
cross `AddTask`, which then aborts in one of its two `CHECK`s. Fairness: threads
are scheduled and tasks return; nothing forces `StopAll`.

### Subprocess

Several subprocesses are started, closed and destroyed by threads of one
parent. The state is which process has which end of which pipe open and which
ends are marked close-on-exec; `Fork` copies them, `Exec` closes the marked ones.
`Guarded` are the subprocesses started under a common mutex, as the workers of
`ParseQueue` are.

* `SeesEof`: after `Close` the child ends. `DeathIsNoticed`: the reader of a dead
  child hears of it while its siblings live, which `ParseQueue` takes for granted
  (its `Detach` follows a death).

Three guarded processes, any of which may die, in `subprocess`; one guarded and
one not in `subprocess_concurrent_start`. Strong fairness of a thread that waits
for the mutex, weak fairness of the rest.

## 3. Runs and results

| Run | Result |
|---|---|
| `view_graphs` | the walks and the solver's levels compute the fixed points; the synthesis is acyclic, anchored at the end, anchored for good, and terminates |
| `constraint_cache` | candidates reproduce the design, one direction per pair, the probable one, every view keeps a candidate |
| `candidate_search` | the encoding equals the ranks, the second solver agrees with the first, SUCCESS is a solution, no round is wasted on a solvable problem, solvable problems are solved |
| `consistency_repair` | success is rendered, failure has a reason, both loops end |
| `device_queries` | settled views and corrections stay, candidates place the last view anew while the earlier ones are settled, nothing is left open, corrections suffice, both loops end |
| `parse_queue` | entries are neither lost nor doubled, what is left is taken unless it is left late, queues are deleted unused, Join returns, unless the program reached undefined behaviour before, and leaves no task in a queue or with the recovery thread |
| `thread_pool` | nothing is missed, joins return from a quiet pool, the abstract pool is implemented |
| `subprocess` | every child sees the end of its input, every death is noticed |
| `parse_queue_unanswered` (violation) | Join can return while a reader still holds the tasks of a dead worker |
| `parse_queue_idle_death` (violation) | a worker that dies idle makes its reader take the front of an empty queue |
| `subprocess_concurrent_start` (violation) | two children that are started at the same time keep each other's input open for ever |
| `iterative_minus_one` (violation) | a view placed at -1 is taken for an open one, and two candidates place the last view alike |

The violations are disagreements between the code and its own comments;
`PROJECT.json` quotes both sides. One more place of the kind is named in its hazard
only, since nothing in the sources says otherwise and no caller gets there: the
filter over several apps (`synthesis.h:266`) mixes two numberings of the
attributes, and compares them without the sizes of the views.

## 4. Proofs

The run of each module gives its invariants a small instance; the theorems below
hold for every value of the constants. `TypeOK` and the remaining parts of the
inductive invariants are conjuncts of what is proved.

`LayoutSynthesisProofs` proves, for every number of views, every probability
range and every set of caches:

* `TypeCorrectness`, `AcyclicReferences`, `EndIsExhaustion`, `EndsAnchored`
  (invariants) and `AnchoredStaysAnchored`, `ReplacementAnchors`, `MergeFalls`
  (action properties).

They follow from the inductive invariant

    IInv == TypeOK /\ ReferencesAcyclic /\ ChosenBeatsRest /\ RootCandidatesDone

`ReferencesAcyclic` alone is inductive with `TypeOK`, but the rest is needed to
see what `ShouldApplyConstraint` may do to an attribute that is already there.
`ChosenBeatsRest` (no candidate still to come is more probable than the applied
one) holds because the lists are sorted; it makes the branch "same anchoring,
more probable" unreachable, so that an attribute is only replaced when its view
is loose and the new targets are anchored. Then anchored views stay anchored
(lemma `AppliedOnlyToLoose`), and `RootCandidatesDone` (a view whose
content-frame candidate was visited is anchored) survives every later step; at
the end of the loop everything was visited, which gives `EndsAnchored`.

`MergeFalls` needs only the types: the iterator stands on the most probable
head before and after the step, and no head moves back in its sorted list.

The lemmas about graphs come first: reachability is reflexive, transitive and
least; replacing the targets of a view from which the view
cannot be reached keeps the graph acyclic; replacing the targets of a loose
view by anchored ones anchors it and keeps every anchored view anchored. The
fixed points are defined by quantification over sets of views, so these need no
induction. The only assumptions are those the modules name: `NumViews` and
`MaxProb` are naturals (the former positive) and every member of `Caches` is a
cache.

The same module proves, for every number of views, that the walks compute these
fixed points: `WalksReachAll`, `WalksFindAnchors` and `LevelsAgree`. A recursive
definition means nothing before there is a function that satisfies it; that
comes from `RecursionExists` (below), with the number of unvisited views as the
measure of a call of `ReferencedNodes`. For `IsAnchored` no such measure exists,
as the visited set is dropped at every secondary target; its measure is the
number of views its view reaches, and the walk ends because the graph has no
cycle. That is where `WalkFindsAnchors` needs `Acyclic`. Given the functions,
what a call returns is shown by induction over the same measures. In
`LevelsAgree`, levels anchor every view because an unanchored view of least level
would have an unanchored target of lower level; conversely the views can be given
levels one after another, each after its targets, which adds up to at most
`2^n - 1`.

`CandidateSearchProofs` proves, for every set of problems, any views (a finite
set or not), all list lengths, ranks, step sizes and numbers of tries, and any
sound solver: `TypeCorrectness`, `SolverKnowsRanks`, `SecondSolverAgrees`,
`SuccessSolves` and `CoresCanGrow`. The inductive invariant is

    IInv == TypeOK /\ Told /\ Answered /\ RanksSuffice /\ SuccessIsSolution /\ ...

`EncodesRanks` speaks of the moment the solver is asked, and is too weak to be
inductive: a view that did not grow keeps its literal, so one must know that
every formula under that literal already counts the same candidates (the last
conjunct of `ToldRanks`), and a view that grew gets a literal that no formula
mentions, so one must know that all numbers in use are lower. The lemma
`NewIsGained` says that the increments of `GetAttributes` are disjoint and add up,
the anchor's early arrival included; it needs ranks to be positive once something was
added, which is why `InitialRank` must be. `ModelFits` and `FittingIsModel`
translate between the solver's models and choices of encoded candidates without
conflict. With them, `Answered` (what the last answer says while nothing is
added) gives `RanksSuffice` when the first stage hands over, hence
`SecondSolverAgrees`, and turns a solution of the problem into a model of any
core all of whose views are exhausted, hence `CoresCanGrow`. The properties that
follow are checked by TLC on the instances of section 3.

Assumptions: `ParametersAssumption` and `ProblemsAssumption` (lists are
non-empty, the anchor of a view is an allowed candidate of its list, as
`InitAnchor` and the content-frame candidates provide).

`ThreadPoolProofs` proves, for any finite set of callers, any tasks, limits and
any use of `StopAll`: `TypeCorrectness`, `ThreadsBounded` and `RoomNoticed`, and,
when `JoinAll` comes after the callers (`EarlyJoin = FALSE`), `JoinedQuiet` and
`WorkNoticed`. The inductive invariant for `JoinedQuiet` is

    IInv == TypeOK /\ LocalsOK /\ ThreadsInv /\ LeaveInv /\ (stopped_ \/ Covered)

`Covered` says that every task is done or in somebody's hands, `LeaveInv` that a
thread left only a stopped pool or an empty queue to which nothing is added any
more, `ThreadsInv` that a thread was started by a caller that has yet to
add it to `threads_`, or is there. `RoomNoticed` and `ThreadsBounded` are
inductive with the types; their proofs count finite sets (a step adds or removes
one element of `Popped`, `Coming` or `Starting`).

The module also proves the refinement, `ImplementsPoolSteps`: with `JoinAll` after
the callers, the initial state and every step of `ThreadPool` map to those of
`TaskPool`, or to a stutter, under the substitution of `ImplementsPool`. Every
step is first classified by what it does to the tasks (`Move`: a caller keeps,
pushes or drops a task, a thread begins or ends one, or nothing moves), so that
the rest of the argument speaks of moves instead of actions. It needs
`UniqueInv`, that a task is in one place only: otherwise a task pushed by one
caller might still be waiting with another, and `Finish` might not empty the set
of running tasks. That `Return` is allowed follows from `ThreadsInv` and
`LeaveInv`.

`ConstraintCacheProofs` proves all four properties of `ConstraintCache`, for any
number of views, any placements in the integers, any further apps, scores and
order of equally probable attributes: `CandidatesFitTheDesign`, `OneDirection`,
`DirectionIsProbable` and `SomethingIsAllowed`. The invariant is

    CacheInv == TypeInv /\ FilterInv /\ AloneInv /\ PruneInv /\ DirectionInv /\ FrameInv

`TypeInv` and `FilterInv` say that what is kept of a view was generated for
every app it has gone through, which is more than that it renders there and is
what the filter's test of equal attributes preserves; that a generated attribute
renders as designed is then a fact about margins and halves
(`CandidatesFitTheDesign` needs no more). `DirectionInv` says of a visited
relational attribute that its pair of views has a direction, and of an allowed
pair that no relational attribute the other way was more probable; it needs that
the pruning visits in falling order of probability. `FrameInv` and `AloneInv`
give `SomethingIsAllowed`: an app that comes alone keeps for every view the
attribute that spans the content frame, and nothing in the frame refers back.
With further apps a view may be left without a candidate, in which case the code
aborts; the property does not claim otherwise.

`ConsistencyRepairProofs` proves, for any number of views and any inputs,

* `RepairIsHonest`, from `DomainInv /\ LoopInv /\ SuccessIsRendered`. `LoopInv`
  says that `view_ids` is the set of views that are wrong now, and that nothing
  is wrong horizontally any more while the vertical orientation is repaired. The
  lemma `OwnOrientationOnly` makes that stable: which views are wrong in one
  orientation depends on the attributes of that orientation only. Nothing is
  used about how the server lays out views.
* `GivingUpHasReason`, from `ReasonInv`: every attribute satisfies what the solver
  asserted, and one that was changed puts its view exactly where it is designed
  (`Tuned`). Everything is about how an app is laid out. A view moves with its
  targets and to the right when a margin at its end shrinks (`RenderedRises`,
  `LayoutRises`), and it never is beyond its design (`LayoutIsLow`). So a round,
  which only takes away margin, leaves what is in place there, and the wrong
  views after it are among those before: if there are as many, they are the
  same (`RoundHelps`). Among the wrong views there is one that refers to no other
  (`LowestInSet`), which is one unit low by its own fault; a margin would have put it
  in place, so it has none. What the solver asserts is
  essential: with centers off by more, in both directions, two errors can
  cancel, the repair of one view puts another out of place, and the number of
  wrong views says nothing.

`DeviceQueryProofs` proves, for any number of views, devices and
candidates and whatever coordinates the solver chooses, `IterationsAreComplete`,
`LastViewIsNew` and `SettledViewsAreKept`. The invariant has two layers. `ShapeInv`
(all apps have the same number of views, the app and the candidates are complete
when they should be) is inductive by itself. `OrderInv` adds that in an iteration the
last view is open and of the others only those that are not settled (`QueryInv`),
that all candidates agree with the app on the settled ones and are blocked, and that
the app is the beginning of the true layout while data is generated (`KnownInv`,
needed for the step of `predict_cb`, and for `EarlierSettled` in that program). Two
candidates that agree on all settled views and differ somewhere differ in the last
view when no other one is open. The one assumption about coordinates is
that of the input: the true layout has none at -1.

It also proves `CorrectionsAreKept` and `FeedbackSuffices` for any
views and devices. That corrections are kept rests on the lemma
`PlacedKeepsFixed`: a query places only views without a fixed position, and the
user's places are fixed positions. `EndInv` says that a loop that ended with a
layout has no wrong view left that was not corrected.

The theorems are about `IterativeSpec` and `FeedbackSpec`; an execution of
`MCDeviceQueries` is one of the one or the other.

`ParseQueueProofs` proves, for any numbers of tasks, workers and crashes,
`NothingIsLost`, `DeletedWhenUnused`, `JoinLeavesNothing`, `ListsHoldTheUnanswered` and
`LeftForTheNextThread`, with workers that die at any time. There are four layers:

* `Inv`, which every step keeps. `QueueInv` says who may hold a queue, `PipeInv` that
  a queue holds what is under way in the pipes and what the senders have yet to
  write, `MainInv` and `RecoveryInv` where `JoinWorkers` and the recovery thread
  stand. The count of entries is kept by itself, step by step, except that
  where `SendTask` opens a worker or Join drops one, one must know that the
  lists of that worker are empty.
* `ListsInv`: every task is in one place of the system, once, and a worker answers
  in the order of its queue. Steps keep it that start and end without `Racing`; two
  senders that push in one order and write in the other break the order, and
  a worker's death then hands over the wrong tasks. Hence the condition of
  `ListsAreUnanswered`, which is about whole behaviours.
* `QuietInv`, for the part of `JoinWaits` that says every task was answered:
  before the first crash nothing is handed over, so that there is no second
  sender, no race, and `ListsInv` holds in every behaviour.
* `LeftInv`: while tasks are left, the recovery thread will look again or a
  reader is about to start it. Steps keep it that start without `Late`; the thread
  decides to end under the lock and sees all that was left before, and who comes
  later is late.

`OperatorLemmas` holds what these proofs share, all of it general: sums, folds,
least and greatest numbers, what operations on sequences do to their elements;
two induction principles stated for sets instead of predicates (a set of
numbers with 0 and all successors; a set of subsets of a finite set), since
the SMT solver and Zenon cannot use a theorem whose parameter is an operator; `RecursionExists`, that a recursion
whose inner calls have a smaller
bounded measure has a solution; and graphs without loops: induction along their
edges, a lowest member of a set of vertices, and `LooplessRecursion`, from which
the layout of an app gets its meaning.

Checked by TLC only: liveness (`Terminates`, `SolvesSolvable`, `JoinReturns`,
`LoopsEnd`, `SeesEof`, `DeathIsNoticed`), for which the provers cannot use the
enabledness that fairness is about, and the fairness part of the refinement of
`TaskPool`. Every invariant and every action property of the passing runs is
also proved.

## 5. Not modelled

* Scores and training: floating point and counting; only the order of the scores
  matters to the synthesis.
* The geometry of the constraints in `CandidateSearch`: it is a set of conflicts.
* The robust synthesis and the oracle variants of the solver-based synthesis:
  they build formulas over the places of virtual devices and keep no state of
  their own; `computeCandidates` is never called and
  `SynthesizeLayoutProbOracle` is declared without a definition.
* The HTTP client and the Java layout server (no state between requests). The
  client treats a failed request as an empty answer, whose parse is fatal.
* `ProducerConsumerQueue` (used by its own test only), record files, streams,
  JSON and protobuf conversion, the JSON-RPC handlers, the evaluation programs
  that call the synthesis once per app and count.
* Vendored code: jsoncpp and sparsehash are about a third of the lines of `src/`.
* In `ParseQueue`: several languages (they only share the joining flag and the
  recovery thread), answers that are no JSON, and the lifetime of a condition
  variable notified after the unlock (`parse_queue.cpp:196`).
* In `ConsistencyRepair`: margins of 10000 and more, which `GetMargins`
  (`z3inference.h:321`) reads as 0; the apps of the model satisfy the
  solver's constraints.
* In `ConstraintCache`: the size of a view in a further app, when it has
  another one there. `CandidatesRender` gives a view of fixed size the size it has
  in the app at hand, while `AddGenAttributes` (`z3inference.h:1263`) would take
  that of the first app. No caller passes further apps.

## 6. Further work

1. A refinement from `CandidateSearch` to the queries of `DeviceQuery`.
2. The composition of `ParseQueue` with `Subprocess`, so that a queue's reader
   depends on the ends of pipes of its siblings.
3. Proofs: what the solver's levels imply for the apps `CandidateSearch` accepts,
   once its conflicts are refined to references.
4. The safety that `SeesEof` rests on, as an invariant of `Subprocess`: no
   process but the parent holds an input of a child that was closed.
