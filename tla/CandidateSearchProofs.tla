------------------------ MODULE CandidateSearchProofs ------------------------
(***************************************************************************)
(* The search for candidate constraints keeps the solver informed and its    *)
(* answers meaningful, for all problems, all numbers of views and all step   *)
(* sizes: proofs for CandidateSearch.                                        *)
(***************************************************************************)
EXTENDS CandidateSearch, TLAPS

-----------------------------------------------------------------------------
\* The bookkeeping keeps its types when candidates are added.
LEMMA AddingKeepsTypes ==
  ASSUME TypeOK, NEW grown \in SUBSET Views, NEW by \in Nat,
         AddAttributes(grown, by)
  PROVE  /\ constraints_max_rank' \in [Views -> Nat \ {0}]
         /\ constraints_added' \in [Views -> Nat]
         /\ constraints' \in [Views -> [Ranks -> Nat]]
         /\ device' \in [Views -> SUBSET Ranks]
         /\ satisfied_id' \in [Views -> Nat]
         /\ groups' \subseteq [view : Views, id : Nat, counts : [Ranks -> Nat]]
<1>1. constraints_max_rank' \in [Views -> Nat \ {0}]
  BY DEF TypeOK, AddAttributes, IncreaseRank
<1>2. constraints_added' \in [Views -> Nat]
  BY <1>1 DEF AddAttributes, AddGenAttributes
<1>3. constraints' \in [Views -> [Ranks -> Nat]]
  BY DEF TypeOK, AddAttributes, AddSynAttributes
<1>4. device' \in [Views -> SUBSET Ranks]
  BY DEF TypeOK, AddAttributes, AddGenAttributes, NewAttributes, GetAttributes
<1>5. satisfied_id' \in [Views -> Nat]
  BY DEF TypeOK, AddAttributes, IncSatisfiedId
<1>6. \A v \in Views :
        [view |-> v, id |-> satisfied_id'[v], counts |-> constraints'[v]]
          \in [view : Views, id : Nat, counts : [Ranks -> Nat]]
  BY <1>3, <1>5
<1>7. groups' \subseteq [view : Views, id : Nat, counts : [Ranks -> Nat]]
  BY <1>6 DEF TypeOK, AddAttributes, FinishedAddingConstraints
<1>8. QED
  BY <1>1, <1>2, <1>3, <1>4, <1>5, <1>7

\* What GetAttributes returns for a view is what the ranks gain: everything at
\* the first call, later the candidates between the old and the new rank.
LEMMA NewIsGained ==
  ASSUME TypeOK, Told, NEW grown \in SUBSET Views, NEW by \in Nat,
         step = "encode" => grown = {},
         AddAttributes(grown, by), problem' = problem, NEW v \in Views
  PROVE  /\ Encoded(v)' = IF step = "encode" THEN NewAttributes(v)
                          ELSE Encoded(v) \cup NewAttributes(v)
         /\ step # "encode" => NewAttributes(v) \cap Encoded(v) = {}
         /\ step # "encode" /\ v \notin grown => NewAttributes(v) = {}
<1> DEFINE old == constraints_max_rank[v]
           new == constraints_max_rank'[v]
<1>1. /\ old \in Nat \ {0} /\ new \in Nat \ {0} /\ old <= new
      /\ v \notin grown => new = old
  BY DEF TypeOK, AddAttributes, IncreaseRank
<1>2. problem.anchor[v] \in Ranks /\ InList(v, problem.anchor[v])
  BY DEF TypeOK, IsProblem, InList
<1>3. CASE step = "encode"
  <2>1. constraints_added[v] = 0
    BY <1>3 DEF Told, Untold
  <2>2. NewAttributes(v) = {r \in Ranks : r = problem.anchor[v]}
                           \cup {r \in Ranks : /\ 0 <= r /\ r < new
                                               /\ InList(v, r) /\ r # problem.anchor[v]}
    BY <2>1 DEF NewAttributes, GetAttributes
  <2>3. Encoded(v)' = {r \in Ranks : r = problem.anchor[v] \/ (r < new /\ InList(v, r))}
    BY DEF Encoded, InList
  <2>4. \A r \in Ranks : 0 <= r
    BY ParametersAssumption DEF Ranks
  <2>5. QED
    BY <1>3, <2>2, <2>3, <2>4
<1>4. CASE step # "encode"
  <2>1. constraints_added[v] = old /\ old # 0
    BY <1>1, <1>4 DEF Told, ToldRanks
  <2>2. NewAttributes(v) = {r \in Ranks : /\ old <= r /\ r < new
                                          /\ InList(v, r) /\ r # problem.anchor[v]}
    BY <2>1 DEF NewAttributes, GetAttributes
  <2>3. Encoded(v)' = {r \in Ranks : r = problem.anchor[v] \/ (r < new /\ InList(v, r))}
    BY DEF Encoded, InList
  <2>4. Encoded(v) = {r \in Ranks : r = problem.anchor[v] \/ (r < old /\ InList(v, r))}
    BY DEF Encoded
  <2>5. \A r \in Ranks : r \in Nat
    BY ParametersAssumption DEF Ranks
  <2>6. \A r \in Ranks : r < new <=> r < old \/ (old <= r /\ r < new)
    BY <1>1, <2>5
  <2>7. Encoded(v)' = Encoded(v) \cup NewAttributes(v)
    BY <2>2, <2>3, <2>4, <2>6
  <2>8. NewAttributes(v) \cap Encoded(v) = {}
    BY <1>1, <2>2, <2>4, <2>5
  <2>9. v \notin grown => NewAttributes(v) = {}
    BY <1>1, <2>2, <2>5
  <2>10. QED
    BY <1>4, <2>7, <2>8, <2>9
<1>5. QED
  BY <1>3, <1>4

\* Adding candidates leaves the solver told what the ranks say, whether it is
\* the first encoding or a round of the loop: views that did not grow keep their
\* literal, those that did get a literal that no earlier formula mentions.
LEMMA AddingTells ==
  ASSUME TypeOK, Told, NEW grown \in SUBSET Views, NEW by \in Nat,
         step = "encode" => grown = {},
         AddAttributes(grown, by), problem' = problem, step' # "encode"
  PROVE  Told'
<1> SUFFICES ASSUME NEW v \in Views PROVE ToldRanks(v)'
  BY DEF Told
<1> DEFINE asserted == [view |-> v, id |-> satisfied_id'[v], counts |-> constraints'[v]]
<1>1. constraints_added'[v] = constraints_max_rank'[v]
  BY DEF AddAttributes, AddGenAttributes
<1>2. device'[v] = Encoded(v)'
  <2>1. device'[v] = device[v] \cup NewAttributes(v)
    BY DEF AddAttributes, AddGenAttributes
  <2>2. step = "encode" => device[v] = {}
    BY DEF Told, Untold
  <2>3. step # "encode" => device[v] = Encoded(v)
    BY DEF Told, ToldRanks
  <2>4. QED
    BY <2>1, <2>2, <2>3, NewIsGained
<1>3. constraints'[v] = [r \in Ranks |-> IF r \in Encoded(v)' THEN 1 ELSE 0]
  <2>1. constraints'[v] = [r \in Ranks |->
          constraints[v][r] + IF r \in NewAttributes(v) THEN 1 ELSE 0]
    BY DEF AddAttributes, AddSynAttributes
  <2>2. step = "encode" => \A r \in Ranks : constraints[v][r] = 0
    BY DEF Told, Untold
  <2>3. step # "encode" =>
          \A r \in Ranks : constraints[v][r] = IF r \in Encoded(v) THEN 1 ELSE 0
    <3>1. step # "encode" =>
            constraints[v] = [r \in Ranks |-> IF r \in Encoded(v) THEN 1 ELSE 0]
      BY DEF Told, ToldRanks
    <3>2. QED
      BY <3>1
  <2>4. \A r \in Ranks : (constraints[v][r] + IF r \in NewAttributes(v) THEN 1 ELSE 0)
                         = IF r \in Encoded(v)' THEN 1 ELSE 0
    <3>1. CASE step = "encode"
      <4>1. Encoded(v)' = NewAttributes(v)
        BY <3>1, NewIsGained
      <4>2. QED
        BY <2>2, <3>1, <4>1
    <3>2. CASE step # "encode"
      <4>1. /\ Encoded(v)' = Encoded(v) \cup NewAttributes(v)
            /\ NewAttributes(v) \cap Encoded(v) = {}
        BY <3>2, NewIsGained
      <4>2. QED
        BY <2>3, <3>2, <4>1
    <3>3. QED
      BY <3>1, <3>2
  <2>5. QED
    BY <2>1, <2>4
<1>4. asserted \in groups'
  BY DEF AddAttributes, FinishedAddingConstraints
<1>5. ASSUME NEW g \in groups', g.view = v
      PROVE  /\ g.id <= satisfied_id'[v]
             /\ g.id = satisfied_id'[v] => g.counts = constraints'[v]
  <2>1. /\ satisfied_id[v] \in Nat
        /\ satisfied_id'[v] = satisfied_id[v] + IF v \in grown THEN 1 ELSE 0
    BY DEF TypeOK, AddAttributes, IncSatisfiedId
  <2>2. CASE g \in groups
    <3>1. step # "encode"
      BY <2>2 DEF Told
    <3>2. /\ g.id \in Nat /\ g.id <= satisfied_id[v]
          /\ g.id = satisfied_id[v] => g.counts = constraints[v]
      BY <1>5, <2>2, <3>1 DEF Told, ToldRanks, TypeOK
    <3>3. CASE v \in grown
      BY <2>1, <3>2, <3>3
    <3>4. CASE v \notin grown
      <4>1. Encoded(v)' = Encoded(v)
        BY <3>1, <3>4, NewIsGained
      <4>2. constraints'[v] = constraints[v]
        BY <1>3, <3>1, <4>1 DEF Told, ToldRanks
      <4>3. QED
        BY <2>1, <3>2, <3>4, <4>2
    <3>5. QED
      BY <3>3, <3>4
  <2>3. CASE g \notin groups
    <3>1. g = asserted
      BY <1>5, <2>3 DEF AddAttributes, FinishedAddingConstraints
    <3>2. QED
      BY <2>1, <3>1
  <2>4. QED
    BY <2>2, <2>3
<1>6. QED
  BY <1>1, <1>2, <1>3, <1>4, <1>5 DEF ToldRanks

-----------------------------------------------------------------------------
\* What the solver answers means what it should: a model picks an encoded
\* candidate for every view, and no conflict is overlooked for want of a device
\* formula.
LEMMA ModelFits ==
  ASSUME TypeOK, Told, step # "encode", NEW sel \in Models(Views)
  PROVE  /\ sel \in [Views -> Ranks]
         /\ \A v \in Views : sel[v] \in Encoded(v)
         /\ Consistent(sel)
<1>1. sel \in [Views -> Ranks]
  BY DEF Models
<1>2. ASSUME NEW v \in Views PROVE sel[v] \in Encoded(v)
  <2>1. PICK g \in groups : g.view = v /\ g.id = satisfied_id[v]
    BY DEF Told, ToldRanks
  <2>2. g.counts[sel[v]] = 1
    BY <2>1 DEF Models
  <2>3. g.counts = constraints[v]
    BY <2>1 DEF Told, ToldRanks
  <2>4. constraints[v] = [r \in Ranks |-> IF r \in Encoded(v) THEN 1 ELSE 0]
    BY DEF Told, ToldRanks
  <2>5. QED
    BY <1>1, <2>2, <2>3, <2>4
<1>3. Consistent(sel)
  <2> SUFFICES ASSUME NEW c \in problem.conflicts
               PROVE  \E choice \in c : sel[choice[1]] # choice[2]
    BY DEF Consistent
  <2>1. PICK choice \in c : \/ choice[1] \notin Views
                            \/ sel[choice[1]] # choice[2]
                            \/ choice[2] \notin device[choice[1]]
    BY DEF Models
  <2>2. choice[1] \in Views
    BY DEF TypeOK, IsProblem
  <2>3. device[choice[1]] = Encoded(choice[1])
    BY <2>2 DEF Told, ToldRanks
  <2>4. QED
    BY <1>2, <2>1, <2>2, <2>3
<1>4. QED
  BY <1>1, <1>2, <1>3

\* Whatever fits together and is encoded is a model, for any set of assumptions.
LEMMA FittingIsModel ==
  ASSUME TypeOK, Told, step # "encode", NEW A \in SUBSET Views,
         NEW sel \in [Views -> Ranks], Consistent(sel),
         \A v \in A : sel[v] \in Encoded(v)
  PROVE  Sat(A)
<1> DEFINE part == [v \in A |-> sel[v]]
<1>1. part \in [A -> Ranks]
  OBVIOUS
<1>2. ASSUME NEW g \in groups, g.view \in A, g.id = satisfied_id[g.view]
      PROVE  g.counts[part[g.view]] = 1
  <2>1. g.counts = constraints[g.view]
    BY <1>2 DEF Told, ToldRanks
  <2>2. constraints[g.view] = [r \in Ranks |-> IF r \in Encoded(g.view) THEN 1 ELSE 0]
    BY <1>2 DEF Told, ToldRanks
  <2>3. QED
    BY <1>2, <2>1, <2>2
<1>3. ASSUME NEW c \in problem.conflicts
      PROVE  \E choice \in c : \/ choice[1] \notin A
                               \/ part[choice[1]] # choice[2]
                               \/ choice[2] \notin device[choice[1]]
  BY DEF Consistent
<1>4. part \in Models(A)
  BY <1>1, <1>2, <1>3 DEF Models
<1>5. QED
  BY <1>4 DEF Sat

-----------------------------------------------------------------------------
\* As long as nothing is added, what the solver was told stays what it was.
LEMMA ToldStays ==
  ASSUME Told, step # "encode", step' # "encode",
         UNCHANGED <<problem, candidates, solver>>
  PROVE  /\ Told'
         /\ \A v \in Views : Encoded(v)' = Encoded(v)
<1>1. \A v \in Views : Encoded(v)' = Encoded(v)
  BY DEF Encoded, InList, candidates
<1>2. ASSUME NEW v \in Views PROVE ToldRanks(v)'
  BY <1>1 DEF Told, ToldRanks, candidates, solver
<1>3. QED
  BY <1>1, <1>2 DEF Told

\* The ranks that suffice keep doing so while they are kept.
LEMMA SufficingStays ==
  ASSUME RanksSuffice, stage \in {"opt", "noopt"},
         UNCHANGED <<problem, constraints_max_rank>>
  PROVE  RanksSuffice'
BY DEF RanksSuffice, Consistent, Encoded, InList

\* The constructors of CandidateConstraints and the views establish the
\* invariant.
LEMMA InitInvariant == Init => IInv
<1> SUFFICES ASSUME Init PROVE IInv
  OBVIOUS
<1>1. TypeOK
  <2>1. IsProblem(problem)
    BY ProblemsAssumption DEF Init
  <2>2. InitialRank \in Nat \ {0} /\ MaxTries \in Nat
    BY ParametersAssumption
  <2>3. /\ constraints_max_rank \in [Views -> Nat \ {0}]
        /\ constraints_added \in [Views -> Nat]
        /\ satisfied_id \in [Views -> Nat]
    BY <2>2 DEF Init
  <2>4. /\ constraints \in [Views -> [Ranks -> Nat]]
        /\ device \in [Views -> SUBSET Ranks]
        /\ groups \subseteq [view : Views, id : Nat, counts : [Ranks -> Nat]]
    BY DEF Init
  <2>5. /\ num_tries \in 0 .. MaxTries /\ late \in BOOLEAN
        /\ attributes \in [Views -> Ranks] \cup {<<>>}
    <3>1. num_tries \in 0 .. MaxTries
      BY <2>2 DEF Init
    <3>2. late = FALSE /\ attributes = <<>>
      BY DEF Init
    <3>3. QED
      BY <3>1, <3>2
  <2>6. QED
    BY <2>1, <2>3, <2>4, <2>5 DEF Init, TypeOK
<1>2. Told
  BY DEF Init, Told, Untold
<1>3. QED
  BY <1>1, <1>2 DEF Init, IInv, Answered, RanksSuffice, SuccessIsSolution

\* The first encoding of a stage.
LEMMA EncodeKeepsInvariant ==
  ASSUME IInv, Encode
  PROVE  IInv'
<1>1. /\ TypeOK /\ Told /\ RanksSuffice /\ stage # "done"
      /\ AddAttributes({}, 0) /\ step = "encode" /\ step' = "check"
      /\ UNCHANGED <<problem, stage, answer, num_tries, status, attributes>>
  BY DEF IInv, Encode
<1>2. 0 \in Nat /\ {} \in SUBSET Views
  OBVIOUS
<1>3. TypeOK'
  BY <1>1, <1>2, AddingKeepsTypes DEF TypeOK, answer
<1>4. Told'
  BY <1>1, <1>2, AddingTells
<1>5. constraints_max_rank' = constraints_max_rank
  BY <1>1 DEF TypeOK, AddAttributes, IncreaseRank
<1>6. RanksSuffice'
  BY <1>1, <1>5, SufficingStays DEF RanksSuffice
<1>7. QED
  BY <1>1, <1>3, <1>4, <1>6 DEF IInv, Answered, SuccessIsSolution

\* One round of the loop of GetSatConstraintsSingleQuery.
LEMMA AddMoreKeepsInvariant ==
  ASSUME IInv, AddMore
  PROVE  IInv'
<1>1. /\ TypeOK /\ Told /\ stage = "search" /\ step = "decide" /\ step' = "check"
      /\ num_tries < MaxTries /\ num_tries' = num_tries + 1 /\ status = "none"
      /\ UNCHANGED <<problem, stage, answer, status, attributes>>
  BY DEF IInv, AddMore
<1>2. PICK grown \in SUBSET Views, by \in Nat : AddAttributes(grown, by)
  <2>1. /\ Views \in SUBSET Views /\ core \in SUBSET Views
        /\ SweepStep \in Nat /\ CoreStep \in Nat
    BY <1>1, ParametersAssumption DEF TypeOK
  <2>2. AddAttributes(Views, SweepStep) \/ AddAttributes(core, CoreStep)
    BY DEF AddMore
  <2>3. QED
    BY <2>1, <2>2
<1>3. num_tries' \in 0 .. MaxTries
  BY <1>1, ParametersAssumption DEF TypeOK
<1>4. TypeOK'
  BY <1>1, <1>2, <1>3, AddingKeepsTypes DEF TypeOK, answer
<1>5. Told'
  BY <1>1, <1>2, AddingTells
<1>6. QED
  BY <1>1, <1>4, <1>5 DEF IInv, Answered, RanksSuffice, SuccessIsSolution

\* An answer of the solver.
LEMMA CheckKeepsInvariant ==
  ASSUME IInv, Check
  PROVE  IInv'
<1>1. /\ TypeOK /\ Told /\ RanksSuffice /\ stage # "done" /\ status = "none"
      /\ step = "check" /\ step' = "decide"
      /\ UNCHANGED <<problem, stage, candidates, solver, num_tries, status, attributes>>
  BY DEF IInv, Check
<1>2. TypeOK'
  BY <1>1 DEF Check, TypeOK, candidates, solver
<1>3. Told'
  BY <1>1, ToldStays
<1>4. Answered'
  <2>1. \/ res' = "sat" /\ Sat(Views)
        \/ res' = "unsat" /\ ~Sat(core')
        \/ res' = "unknown"
    BY DEF Check
  <2>2. Sat(Views)' = Sat(Views)
    BY <1>1 DEF Sat, Models, solver
  <2>3. Sat(core)' = Sat(core')
    BY <1>1 DEF Sat, Models, solver
  <2>4. QED
    BY <2>1, <2>2, <2>3 DEF Answered
<1>5. RanksSuffice'
  BY <1>1, SufficingStays DEF RanksSuffice, candidates
<1>6. QED
  BY <1>1, <1>2, <1>3, <1>4, <1>5 DEF IInv, SuccessIsSolution

\* The ways to fail.
LEMMA FailureKeepsInvariant ==
  ASSUME IInv, GiveUp \/ FailInner
  PROVE  IInv'
<1>1. /\ TypeOK /\ Told /\ step = "decide" /\ step' = "decide" /\ stage' = "done"
      /\ status' = FailedStatus
      /\ UNCHANGED <<problem, candidates, solver, answer, num_tries, attributes>>
  BY DEF IInv, GiveUp, FailInner, Return
<1>2. status' \in {"TIMEOUT", "UNSAT", "UNKNOWN"}
  BY <1>1 DEF FailedStatus
<1>3. TypeOK'
  BY <1>1, <1>2 DEF TypeOK, candidates, solver, answer
<1>4. Told'
  BY <1>1, ToldStays
<1>5. QED
  BY <1>1, <1>2, <1>3, <1>4 DEF IInv, Answered, RanksSuffice, SuccessIsSolution

\* A new stage starts with a solver that knows nothing, and with ranks that
\* suffice: those of the model just found, or those of the stage before.
LEMMA RestartKeepsInvariant ==
  ASSUME IInv, Found \/ Retry
  PROVE  IInv'
<1>1. /\ TypeOK /\ Told /\ Answered /\ RanksSuffice /\ status = "none"
      /\ step = "decide"
      /\ \/ stage = "search" /\ res = "sat"
         \/ stage = "opt"
  BY DEF IInv, Found, Retry
<1>2. PICK next \in {"opt", "noopt"} : Restart(next)
  BY DEF Found, Retry
<1>3. \E sel \in [Views -> Ranks] :
        Consistent(sel) /\ \A v \in Views : sel[v] \in Encoded(v)
  <2>1. CASE stage = "search" /\ res = "sat"
    <3>1. Sat(Views)
      BY <1>1, <2>1 DEF Answered
    <3>2. PICK sel \in Models(Views) : TRUE
      BY <3>1 DEF Sat
    <3>3. QED
      BY <1>1, <3>2, ModelFits
  <2>2. CASE stage = "opt"
    BY <1>1, <2>2 DEF RanksSuffice
  <2>3. QED
    BY <1>1, <2>1, <2>2
<1>4. RanksSuffice'
  BY <1>2, <1>3 DEF Restart, RanksSuffice, Consistent, Encoded, InList
<1>5. TypeOK'
  BY <1>1, <1>2 DEF Restart, TypeOK, answer
<1>6. Told'
  BY <1>2 DEF Restart, Told, Untold
<1>7. QED
  BY <1>1, <1>2, <1>4, <1>5, <1>6 DEF Restart, IInv, Answered, SuccessIsSolution

\* AssignModel.
LEMMA SucceedKeepsInvariant ==
  ASSUME IInv, Succeed
  PROVE  IInv'
<1>1. /\ TypeOK /\ Told /\ step = "decide" /\ step' = "decide" /\ stage' = "done"
      /\ status' = "SUCCESS" /\ attributes' \in Models(Views)
      /\ UNCHANGED <<problem, candidates, solver, answer, num_tries>>
  BY DEF IInv, Succeed, Return
<1>2. /\ attributes' \in [Views -> Ranks]
      /\ \A v \in Views : attributes'[v] \in Encoded(v)
      /\ Consistent(attributes')
  BY <1>1, ModelFits
<1>3. TypeOK'
  BY <1>1, <1>2 DEF TypeOK, candidates, solver, answer
<1>4. Told'
  BY <1>1, ToldStays
<1>5. \A v \in Views : InList(v, attributes'[v])
  BY <1>1, <1>2 DEF Encoded, InList, TypeOK, IsProblem
<1>6. SuccessIsSolution'
  BY <1>1, <1>2, <1>5 DEF SuccessIsSolution, Consistent, InList
<1>7. QED
  BY <1>1, <1>3, <1>4, <1>6 DEF IInv, Answered, RanksSuffice

\* The invariant depends on the variables alone.
LEMMA StutterKeepsInvariant ==
  ASSUME IInv, UNCHANGED vars
  PROVE  IInv'
<1>1. /\ UNCHANGED <<problem, stage, step, constraints_max_rank, constraints_added>>
      /\ UNCHANGED <<constraints, device, groups, satisfied_id>>
      /\ UNCHANGED <<res, core, late, num_tries, status, attributes>>
  BY DEF vars, candidates, solver, answer
<1>2. TypeOK'
  BY <1>1 DEF IInv, TypeOK
<1>3. Told'
  BY <1>1 DEF IInv, Told, Untold, ToldRanks, Encoded, InList
<1>4. Answered'
  BY <1>1 DEF IInv, Answered, Sat, Models
<1>5. RanksSuffice'
  BY <1>1 DEF IInv, RanksSuffice, Consistent, Encoded, InList
<1>6. SuccessIsSolution'
  BY <1>1 DEF IInv, SuccessIsSolution, Consistent, InList
<1>7. QED
  BY <1>1, <1>2, <1>3, <1>4, <1>5, <1>6 DEF IInv

-----------------------------------------------------------------------------
\* The invariant holds in every reachable state of the search.
THEOREM Invariance == Spec => []IInv
<1>1. ASSUME IInv, [Next]_vars PROVE IInv'
  <2>1. CASE Encode
    BY <1>1, <2>1, EncodeKeepsInvariant
  <2>2. CASE Check
    BY <1>1, <2>2, CheckKeepsInvariant
  <2>3. CASE AddMore
    BY <1>1, <2>3, AddMoreKeepsInvariant
  <2>4. CASE GiveUp \/ FailInner
    BY <1>1, <2>4, FailureKeepsInvariant
  <2>5. CASE Found \/ Retry
    BY <1>1, <2>5, RestartKeepsInvariant
  <2>6. CASE Succeed
    BY <1>1, <2>6, SucceedKeepsInvariant
  <2>7. CASE Done \/ UNCHANGED vars
    BY <1>1, <2>7, StutterKeepsInvariant DEF Done
  <2>8. QED
    BY <1>1, <2>1, <2>2, <2>3, <2>4, <2>5, <2>6, <2>7 DEF Next, Working
<1>2. QED
  BY <1>1, InitInvariant, PTL DEF Spec

\* The types of the search state hold throughout.
THEOREM TypeCorrectness == Spec => []TypeOK
<1>1. IInv => TypeOK
  BY DEF IInv
<1>2. QED
  BY <1>1, Invariance, PTL

\* Whenever the solver is asked it knows exactly the candidates below the
\* ranks, in spite of the increments and literals it was told them with.
THEOREM SolverKnowsRanks == Spec => []EncodesRanks
<1>1. IInv => EncodesRanks
  BY DEF IInv, Told, ToldRanks, EncodesRanks
<1>2. QED
  BY <1>1, Invariance, PTL

\* The solver of the second stage never refutes what the first one accepted.
THEOREM SecondSolverAgrees == Spec => []ExpectedSat
<1>1. ASSUME IInv PROVE ExpectedSat
  <2> SUFFICES ASSUME stage \in {"opt", "noopt"}, step = "decide", res = "unsat"
               PROVE  FALSE
    BY DEF ExpectedSat
  <2>1. PICK sel \in [Views -> Ranks] :
          Consistent(sel) /\ \A v \in Views : sel[v] \in Encoded(v)
    BY <1>1 DEF IInv, RanksSuffice
  <2>2. TypeOK /\ Told /\ core \in SUBSET Views /\ ~Sat(core)
    BY <1>1 DEF IInv, Answered, TypeOK
  <2>3. QED
    BY <2>1, <2>2, FittingIsModel
<1>2. QED
  BY <1>1, Invariance, PTL

\* SUCCESS is only reported with an allowed candidate for every view, and no
\* conflict among them.
THEOREM SuccessSolves == Spec => []SuccessIsSolution
<1>1. IInv => SuccessIsSolution
  BY DEF IInv
<1>2. QED
  BY <1>1, Invariance, PTL

\* Whatever core the solver returns, minimal or not, a solvable problem has a
\* view in it that still has candidates to add.
THEOREM CoresCanGrow == Spec => []CoreCanGrow
<1>1. ASSUME IInv PROVE CoreCanGrow
  <2> SUFFICES ASSUME stage = "search", step = "decide", res = "unsat", Solvable,
                      \A v \in core : ~(constraints_max_rank[v] < problem.len[v])
               PROVE  FALSE
    BY DEF CoreCanGrow
  <2>1. PICK sel \in [Views -> Ranks] :
          Consistent(sel) /\ \A v \in Views : InList(v, sel[v])
    BY DEF Solvable
  <2>2. TypeOK /\ Told /\ core \in SUBSET Views /\ ~Sat(core)
    BY <1>1 DEF IInv, Answered, TypeOK
  <2>3. ASSUME NEW v \in core PROVE sel[v] \in Encoded(v)
    <3>1. /\ v \in Views /\ sel[v] \in Ranks /\ sel[v] < problem.len[v]
          /\ ~(constraints_max_rank[v] < problem.len[v])
      BY <2>1, <2>2 DEF InList
    <3>2. sel[v] \in Nat /\ problem.len[v] \in Nat /\ constraints_max_rank[v] \in Nat
      BY <2>2, <3>1, ParametersAssumption DEF TypeOK, IsProblem, Ranks
    <3>3. QED
      BY <2>1, <3>1, <3>2 DEF Encoded
  <2>4. QED
    BY <2>1, <2>2, <2>3, FittingIsModel
<1>2. QED
  BY <1>1, Invariance, PTL
=============================================================================
