--------------------------- MODULE CandidateSearch ---------------------------
(***************************************************************************)
(* The search for candidate constraints of the solver-based synthesis       *)
(* (synthesis/z3inference): SynthesizeMultiDeviceProbSingleQuery with        *)
(* GetSatConstraintsSingleQuery, and the one-orientation pair                *)
(* SynthesizeMultiDeviceProb / GetSatConstraints.  Only the most probable    *)
(* candidates of each view are given to the solver; while it answers unsat,  *)
(* the views named in its core get more; once it answers sat, a second       *)
(* solver gets the same candidates and picks among them.                     *)
(*                                                                          *)
(* A view here is a view in one orientation: the single query runs the same  *)
(* steps for the views of both.  A candidate is its rank in the list of the  *)
(* view.  The solver is external: its answers are those of a sound solver    *)
(* that may also give up, its cores need not be minimal.                     *)
(***************************************************************************)
EXTENDS Naturals, FiniteSets

CONSTANTS
  Views,                     \* all but the content frame
  MaxLen,                    \* bound on the length of a candidate list
  InitialRank,               \* 5 in the code
  CoreStep,                  \* 10
  SweepStep,                 \* 5
  SweepEvery,                \* 20; above MaxTries in the one-orientation code
  MaxTries,                  \* 100; 50 in the one-orientation code
  RetryWithoutOpt            \* FALSE in the one-orientation code

ASSUME ParametersAssumption ==
  /\ {MaxLen, InitialRank, CoreStep, SweepStep, SweepEvery} \subseteq Nat \ {0}
  /\ MaxTries \in Nat
  /\ RetryWithoutOpt \in BOOLEAN

Ranks == 0 .. MaxLen - 1

\* What one call of the synthesis is given: the candidate lists, the ranks
\* that IsAllowed and IsProhibitedConstraint let through, the anchors that
\* InitAnchor found, and the sets of choices <<view, rank>> that the positions
\* (and the acyclic references the solver insists on) rule out together.
IsProblem(p) ==
  /\ p.len \in [Views -> 1 .. MaxLen]
  /\ p.allowed \in [Views -> SUBSET Ranks]
  /\ p.anchor \in [Views -> Ranks]
  /\ \A v \in Views : p.anchor[v] \in p.allowed[v] /\ p.anchor[v] < p.len[v]
  /\ p.conflicts \subseteq SUBSET (Views \X Ranks)

CONSTANT Problems
ASSUME ProblemsAssumption == \A p \in Problems : IsProblem(p)

VARIABLES
  problem,
  stage,                     \* "search" then "opt" and/or "noopt", then "done"
  step,                      \* "encode", "check", "decide"
  constraints_max_rank,
  constraints_added,
  constraints,               \* Z3View::constraints: how often each rank is in it
  device,                    \* ranks whose meaning the device views got
  groups,                    \* satisfied_<view>_<id> => exactly one of counts
  satisfied_id,
  res,                       \* the last answer of the solver
  core,                      \* and the views its unsat core names
  num_tries,
  late,                      \* check_timer is past the timeout
  status,
  attributes                 \* the attributes AssignModel gave the views

solver == <<constraints, device, groups, satisfied_id>>
candidates == <<constraints_max_rank, constraints_added>>
answer == <<res, core, late>>
vars == <<problem, stage, step, candidates, solver, answer, num_tries, status,
          attributes>>

-----------------------------------------------------------------------------
\* The candidates

InList(v, r) == r < problem.len[v] /\ r \in problem.allowed[v]

\* Mutant of GetAttributes: the anchor is added again at its own rank.
GetAttributesTwice(v, added, maxRank) ==
  {r \in Ranks : \/ r = problem.anchor[v] /\ added = 0
                 \/ added <= r /\ r < maxRank /\ InList(v, r)}

\* The ranks that are new since FinishAdding, the anchor among the first.
GetAttributes(v, added, maxRank) ==
  {r \in Ranks : r = problem.anchor[v] /\ added = 0}
  \cup {r \in Ranks : /\ added <= r /\ r < maxRank
                      /\ InList(v, r) /\ r # problem.anchor[v]}

-----------------------------------------------------------------------------
\* The solver

\* A choice of one rank for each view of A satisfies the groups assumed for A
\* when it occurs exactly once in each; a conflict only counts if the device
\* views know what every choice in it means.
Models(A) ==
  {sel \in [A -> Ranks] :
     /\ \A g \in groups : g.view \in A /\ g.id = satisfied_id[g.view] =>
                            g.counts[sel[g.view]] = 1
     /\ \A c \in problem.conflicts :
          \E choice \in c : \/ choice[1] \notin A
                            \/ sel[choice[1]] # choice[2]
                            \/ choice[2] \notin device[choice[1]]}

Sat(A) == Models(A) # {}

Check ==
  /\ step = "check"
  /\ \/ Sat(Views) /\ res' = "sat" /\ core' = {}
     \/ /\ ~Sat(Views) /\ res' = "unsat"
        /\ core' \in {A \in SUBSET Views : ~Sat(A)}
     \/ res' = "unknown" /\ core' = {}
  /\ late' \in (IF stage = "search" THEN {late, TRUE} ELSE BOOLEAN)
  /\ step' = "decide"
  /\ UNCHANGED <<problem, stage, candidates, solver, num_tries, status, attributes>>

\* IncreaseRank, IncSatisfiedId
IncreaseRank(grown, by) ==
  constraints_max_rank' =
    [v \in Views |-> constraints_max_rank[v] + IF v \in grown THEN by ELSE 0]

IncSatisfiedId(grown) ==
  satisfied_id' = [v \in Views |-> satisfied_id[v] + IF v \in grown THEN 1 ELSE 0]

NewAttributes(v) ==
  GetAttributes(v, constraints_added[v], constraints_max_rank'[v])

\* AddSynAttributes
AddSynAttributes ==
  constraints' = [v \in Views |-> [r \in Ranks |->
                    constraints[v][r] + IF r \in NewAttributes(v) THEN 1 ELSE 0]]

\* AddGenAttributes for all devices, FinishAdding
AddGenAttributes ==
  /\ device' = [v \in Views |-> device[v] \cup NewAttributes(v)]
  /\ constraints_added' = constraints_max_rank'

FinishedAddingConstraints ==
  groups' = groups \cup
    {[view |-> v, id |-> satisfied_id'[v], counts |-> constraints'[v]] : v \in Views}

\* Mutants of AddAttributes: the literal of a grown view is kept; the devices
\* come after FinishAdding, when nothing is new.
AddUnderOldLiteral(grown, by) ==
  /\ IncreaseRank(grown, by) /\ IncSatisfiedId({})
  /\ AddSynAttributes /\ AddGenAttributes /\ FinishedAddingConstraints

AddDevicesLate(grown, by) ==
  /\ IncreaseRank(grown, by) /\ IncSatisfiedId(grown)
  /\ AddSynAttributes /\ FinishedAddingConstraints
  /\ constraints_added' = constraints_max_rank'
  /\ UNCHANGED device

\* Raise the ranks of the views of grown and tell the solver what is new.
AddAttributes(grown, by) ==
  /\ IncreaseRank(grown, by) /\ IncSatisfiedId(grown)
  /\ AddSynAttributes /\ AddGenAttributes /\ FinishedAddingConstraints

-----------------------------------------------------------------------------
Init ==
  /\ problem \in Problems
  /\ stage = "search" /\ step = "encode"
  /\ constraints_max_rank = [v \in Views |-> InitialRank]
  /\ constraints_added = [v \in Views |-> 0]
  /\ constraints = [v \in Views |-> [r \in Ranks |-> 0]]
  /\ device = [v \in Views |-> {}]
  /\ groups = {}
  /\ satisfied_id = [v \in Views |-> 0]
  /\ res = "none" /\ core = {} /\ num_tries = 0 /\ late = FALSE
  /\ status = "none"
  /\ attributes = <<>>

\* AddConstraintsSingleQuery
Encode ==
  /\ step = "encode"
  /\ AddAttributes({}, 0)
  /\ step' = "check"
  /\ UNCHANGED <<problem, stage, answer, num_tries, status, attributes>>

\* One round of the loop: every SweepEvery-th raises all views, the others
\* raise the views of the core.
AddMore ==
  /\ stage = "search" /\ step = "decide" /\ res = "unsat"
  /\ num_tries < MaxTries /\ ~late
  /\ num_tries' = num_tries + 1
  /\ IF num_tries' % SweepEvery = 0
     THEN AddAttributes(Views, SweepStep)
     ELSE AddAttributes(core, CoreStep)
  /\ step' = "check"
  /\ UNCHANGED <<problem, stage, answer, status, attributes>>

Return(s) == stage' = "done" /\ step' = "decide" /\ status' = s

FailedStatus ==
  IF late THEN "TIMEOUT" ELSE IF res = "unsat" THEN "UNSAT" ELSE "UNKNOWN"

\* The loop ends without a satisfiable set of candidates.
GiveUp ==
  /\ stage = "search" /\ step = "decide" /\ res # "sat"
  /\ res = "unsat" => num_tries = MaxTries \/ late
  /\ Return(FailedStatus)
  /\ UNCHANGED <<problem, candidates, solver, answer, num_tries, attributes>>

\* Mutant of Restart: without ResetAdding.
RestartAdded(next) ==
  /\ stage' = next /\ step' = "encode"
  /\ constraints' = [v \in Views |-> [r \in Ranks |-> 0]]
  /\ device' = [v \in Views |-> {}]
  /\ groups' = {}
  /\ satisfied_id' = [v \in Views |-> 0]
  /\ UNCHANGED <<problem, candidates, answer, num_tries, status, attributes>>

\* SynthesizeMultiDeviceProbSingleQueryInner starts: new views, ResetAdding.
Restart(next) ==
  /\ stage' = next /\ step' = "encode"
  /\ constraints_added' = [v \in Views |-> 0]
  /\ constraints' = [v \in Views |-> [r \in Ranks |-> 0]]
  /\ device' = [v \in Views |-> {}]
  /\ groups' = {}
  /\ satisfied_id' = [v \in Views |-> 0]
  /\ UNCHANGED <<problem, constraints_max_rank, answer, num_tries, status, attributes>>

\* The caller asks for the most probable model (opt) or for any.
Found ==
  /\ stage = "search" /\ step = "decide" /\ res = "sat"
  /\ \E next \in {"opt", "noopt"} : Restart(next)

\* Mutant of Retry: it optimises again.
RetryOptimising ==
  /\ stage = "opt" /\ step = "decide" /\ res # "sat" /\ RetryWithoutOpt
  /\ Restart("opt")

\* The optimising solver failed: once more without optimising.
Retry ==
  /\ stage = "opt" /\ step = "decide" /\ res # "sat" /\ RetryWithoutOpt
  /\ Restart("noopt")

FailInner ==
  /\ stage \in {"opt", "noopt"} /\ step = "decide" /\ res # "sat"
  /\ stage = "opt" => ~RetryWithoutOpt
  /\ Return(FailedStatus)
  /\ UNCHANGED <<problem, candidates, solver, answer, num_tries, attributes>>

\* AssignModel
Succeed ==
  /\ stage \in {"opt", "noopt"} /\ step = "decide" /\ res = "sat"
  /\ attributes' \in Models(Views)
  /\ Return("SUCCESS")
  /\ UNCHANGED <<problem, candidates, solver, answer, num_tries>>

Done == stage = "done" /\ UNCHANGED vars

Working ==
  Encode \/ Check \/ AddMore \/ GiveUp \/ Found \/ Retry \/ FailInner \/ Succeed

Next == Working \/ Done

\* One sequential procedure; every call of the solver returns, by its timeout.
Spec == Init /\ [][Next]_vars /\ WF_vars(Working)

-----------------------------------------------------------------------------
\* Properties

\* The types of the search state, for ranks and tries within their bounds.
TypeOK ==
  /\ IsProblem(problem)
  /\ stage \in {"search", "opt", "noopt", "done"}
  /\ step \in {"encode", "check", "decide"}
  /\ constraints_max_rank \in [Views -> Nat \ {0}]
  /\ constraints_added \in [Views -> Nat]
  /\ constraints \in [Views -> [Ranks -> Nat]]
  /\ device \in [Views -> SUBSET Ranks]
  /\ groups \subseteq [view : Views, id : Nat, counts : [Ranks -> Nat]]
  /\ satisfied_id \in [Views -> Nat]
  /\ res \in {"none", "sat", "unsat", "unknown"}
  /\ core \subseteq Views
  /\ num_tries \in 0 .. MaxTries
  /\ late \in BOOLEAN
  /\ status \in {"none", "SUCCESS", "TIMEOUT", "UNSAT", "UNKNOWN"}
  /\ attributes \in [Views -> Ranks] \cup {<<>>}

\* The candidates the ranks stand for.
Encoded(v) ==
  {r \in Ranks : r = problem.anchor[v]
                 \/ (r < constraints_max_rank[v] /\ InList(v, r))}

Consistent(sel) ==
  \A c \in problem.conflicts : \E choice \in c : sel[choice[1]] # choice[2]

\* Whenever the solver is asked, what it knows is what the ranks say, in spite
\* of the pieces it was told in: each candidate below the rank and the anchor
\* exactly once, for the device views too, and the assumed literal of a view
\* stands for exactly one of all of them, not of an earlier, smaller set.
EncodesRanks ==
  step = "check" =>
    \A v \in Views :
      /\ device[v] = Encoded(v)
      /\ constraints[v] = [r \in Ranks |-> IF r \in Encoded(v) THEN 1 ELSE 0]
      /\ \E g \in groups : g.view = v /\ g.id = satisfied_id[v]
      /\ \A g \in groups : g.view = v /\ g.id = satisfied_id[v] =>
                             g.counts = constraints[v]

\* "Got result ... but expected sat": the solver of the second stage never
\* answers unsat to the candidates for which the first one answered sat.
ExpectedSat == stage \in {"opt", "noopt"} /\ step = "decide" => res # "unsat"

\* SUCCESS means that every view got one of its allowed candidates and that no
\* positions rule the choices out.
SuccessIsSolution ==
  status = "SUCCESS" =>
    /\ attributes \in [Views -> Ranks]
    /\ \A v \in Views : InList(v, attributes[v])
    /\ Consistent(attributes)

\* The views have candidates, at any rank, that fit together.
Solvable ==
  \E sel \in [Views -> Ranks] :
    Consistent(sel) /\ \A v \in Views : InList(v, sel[v])

\* No round of the loop is wasted on a solvable problem: the core names a view
\* that still has candidates the solver was not told.
CoreCanGrow ==
  stage = "search" /\ step = "decide" /\ res = "unsat" /\ Solvable =>
    \E v \in core : constraints_max_rank[v] < problem.len[v]

\* The inductive invariant behind EncodesRanks, ExpectedSat, SuccessIsSolution
\* and CoreCanGrow.  Told: before encoding the solver knows nothing, after it
\* what the ranks say; literals that are not assumed any more have lower
\* numbers.  Answered: what the last answer means while the solver is not told
\* more.  RanksSuffice: the second stage starts with ranks that have a solution.
Untold(v) ==
  /\ constraints_added[v] = 0
  /\ constraints[v] = [r \in Ranks |-> 0]
  /\ device[v] = {}

ToldRanks(v) ==
  /\ constraints_added[v] = constraints_max_rank[v]
  /\ constraints[v] = [r \in Ranks |-> IF r \in Encoded(v) THEN 1 ELSE 0]
  /\ device[v] = Encoded(v)
  /\ \E g \in groups : g.view = v /\ g.id = satisfied_id[v]
  /\ \A g \in groups : g.view = v =>
       /\ g.id <= satisfied_id[v]
       /\ g.id = satisfied_id[v] => g.counts = constraints[v]

Told ==
  IF step = "encode" THEN groups = {} /\ \A v \in Views : Untold(v)
                     ELSE \A v \in Views : ToldRanks(v)

Answered ==
  step = "decide" /\ stage # "done" => /\ res = "sat" => Sat(Views)
                                       /\ res = "unsat" => ~Sat(core)

RanksSuffice ==
  stage \in {"opt", "noopt"} =>
    \E sel \in [Views -> Ranks] :
      Consistent(sel) /\ \A v \in Views : sel[v] \in Encoded(v)

IInv ==
  /\ TypeOK /\ Told /\ Answered /\ RanksSuffice /\ SuccessIsSolution
  /\ (stage # "done" => status = "none")
  /\ (stage = "done" => step = "decide")

\* The procedure ends.
Terminates == <>(stage = "done")

\* Every round tells the solver about at least one more candidate.
EnoughTries == Cardinality(Views) * MaxLen <= MaxTries

\* A solvable problem is solved when the solver never gives up, the time does
\* not run out and there are enough tries to tell the solver everything.
SolvesSolvable ==
  Solvable /\ EnoughTries /\ [](~late /\ res # "unknown") => <>(status = "SUCCESS")
=============================================================================
