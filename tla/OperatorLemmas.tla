---------------------------- MODULE OperatorLemmas ----------------------------
(***************************************************************************)
(* Lemmas about the operators that the models are built from: sums over a    *)
(* function, folds over a set, the least and greatest number of a set, and   *)
(* what appending, dropping, joining and removing do to the elements of a    *)
(* sequence.  The folds of the community modules are recursive functions.    *)
(* Their theorems rest on induction stated for sets instead of predicates:   *)
(* a set of numbers with 0 and all successors is Nat, and a set of subsets   *)
(* that has every subset whose one smaller subsets it has, has all.  The last *)
(* ones say when a recursive function exists, and how one reasons along the  *)
(* edges of a graph without loops.                                           *)
(***************************************************************************)
EXTENDS SequencesExt, FiniteSetTheorems, SequenceTheorems, WellFoundedInduction, TLAPS

\* Induction over the numbers, for a set of numbers.
LEMMA NatSetInduction ==
  ASSUME NEW G \in SUBSET Nat, 0 \in G, \A n \in G : n + 1 \in G
  PROVE  G = Nat
<1> SUFFICES ASSUME Nat \ G # {} PROVE FALSE
  OBVIOUS
<1>1. PICK m \in Nat \ G : \A y \in Nat \ G : ~(<<y, m>> \in OpToRel(<, Nat))
  BY NatLessThanWellFounded, WFMin, Zenon
<1>2. m \in Nat /\ m \notin G
  OBVIOUS
<1>3. m # 0 /\ m - 1 \in Nat /\ m - 1 < m
  BY <1>2
<1>4. <<m - 1, m>> \in OpToRel(<, Nat)
  BY <1>1, <1>3 DEF OpToRel
<1>5. m - 1 \in G
  BY <1>1, <1>3, <1>4, Zenon
<1>6. (m - 1) + 1 = m
  BY <1>2
<1> QED
  BY <1>1, <1>5, <1>6

\* Induction over the subsets of a finite set, for a set of subsets.
LEMMA SubsetInduction ==
  ASSUME NEW S, IsFiniteSet(S), NEW G \in SUBSET SUBSET S,
         \A s \in SUBSET S : (\A x \in s : s \ {x} \in G) => s \in G
  PROVE  G = SUBSET S
<1> DEFINE N == {n \in Nat : \A s \in SUBSET S : Cardinality(s) = n => s \in G}
<1>0. \A s \in SUBSET S : IsFiniteSet(s) /\ Cardinality(s) \in Nat
  BY FS_Subset, FS_CardinalityType
<1>1. 0 \in N
  <2> SUFFICES ASSUME NEW s \in SUBSET S, Cardinality(s) = 0 PROVE s \in G
    OBVIOUS
  <2>1. s = {}
    BY <1>0, FS_EmptySet
  <2> QED
    BY <2>1
<1>2. \A n \in N : n + 1 \in N
  <2> SUFFICES ASSUME NEW n \in N, NEW s \in SUBSET S, Cardinality(s) = n + 1
               PROVE  s \in G
    OBVIOUS
  <2>1. \A x \in s : Cardinality(s \ {x}) = n
    <3> SUFFICES ASSUME NEW x \in s PROVE Cardinality(s \ {x}) = n
      OBVIOUS
    <3>1. Cardinality(s \ {x}) = Cardinality(s) - 1
      BY <1>0, FS_RemoveElement
    <3> QED
      BY <3>1
  <2>2. \A x \in s : s \ {x} \in G
    BY <2>1
  <2> QED
    BY <2>2
<1>3. N = Nat
  <2> HIDE DEF N
  <2>1. N \in SUBSET Nat
    BY DEF N
  <2> QED
    BY <1>1, <1>2, <2>1, NatSetInduction
<1> QED
  BY <1>0, <1>3

\* A subset that lacks an element is smaller.
LEMMA SmallerCardinality ==
  ASSUME NEW U, IsFiniteSet(U), NEW V, V \subseteq U, NEW t \in U, t \notin V
  PROVE  Cardinality(V) < Cardinality(U) /\ Cardinality(V) \in Nat /\ Cardinality(U) \in Nat
<1>1. V \subseteq U \ {t}
  OBVIOUS
<1>2. /\ IsFiniteSet(U \ {t}) /\ Cardinality(U \ {t}) = Cardinality(U) - 1
      /\ Cardinality(U) \in Nat
  BY FS_RemoveElement, FS_CardinalityType
<1>3. IsFiniteSet(V) /\ Cardinality(V) <= Cardinality(U \ {t}) /\ Cardinality(V) \in Nat
  BY <1>1, <1>2, FS_Subset, FS_CardinalityType
<1> QED
  BY <1>2, <1>3

\* f folds step over every set of S, taking the element pick says first.
Folded(S, base, pick, step, f) ==
  \A s \in S : f[s] = IF s = {} THEN base ELSE step[pick[s], f[s \ {pick[s]}]]

\* The function a fold is defined by exists.
LEMMA FoldExists ==
  ASSUME NEW S, IsFiniteSet(S), NEW X, NEW base \in X,
         NEW pick, \A s \in SUBSET S : s # {} => pick[s] \in s,
         NEW step \in [S \X X -> X]
  PROVE  \E f \in [SUBSET S -> X] : Folded(SUBSET S, base, pick, step, f)
<1> DEFINE Small(n) == {s \in SUBSET S : Cardinality(s) <= n}
           N == {n \in Nat : \E f \in [Small(n) -> X] : Folded(Small(n), base, pick, step, f)}
<1>0. \A s \in SUBSET S : IsFiniteSet(s) /\ Cardinality(s) \in Nat
  BY FS_Subset, FS_CardinalityType
<1>1. 0 \in N
  <2>1. \A s \in Small(0) : s = {}
    BY <1>0, FS_EmptySet
  <2>2. Folded(Small(0), base, pick, step, [s \in Small(0) |-> base])
    BY <2>1, Zenon DEF Folded
  <2>3. [s \in Small(0) |-> base] \in [Small(0) -> X]
    OBVIOUS
  <2> QED
    BY <2>2, <2>3
<1>2. \A n \in N : n + 1 \in N
  <2> SUFFICES ASSUME NEW n \in N PROVE n + 1 \in N
    OBVIOUS
  <2>1. PICK f \in [Small(n) -> X] : Folded(Small(n), base, pick, step, f)
    OBVIOUS
  <2> DEFINE g == [s \in Small(n + 1) |->
                     IF s = {} THEN base ELSE step[pick[s], f[s \ {pick[s]}]]]
  <2>2. \A s \in Small(n + 1) : s # {} => pick[s] \in S /\ s \ {pick[s]} \in Small(n)
    BY <1>0, FS_RemoveElement
  <2>3. g \in [Small(n + 1) -> X]
    <3> SUFFICES ASSUME NEW s \in Small(n + 1), s # {}
                 PROVE  step[pick[s], f[s \ {pick[s]}]] \in X
      OBVIOUS
    <3>1. pick[s] \in S /\ f[s \ {pick[s]}] \in X
      BY <2>2
    <3> QED
      BY <3>1
  <2>4. \A s \in Small(n) : s \in Small(n + 1) /\ g[s] = f[s]
    <3> SUFFICES ASSUME NEW s \in Small(n) PROVE s \in Small(n + 1) /\ g[s] = f[s]
      OBVIOUS
    <3>1. s \in Small(n + 1)
      BY <1>0
    <3>2. g[s] = IF s = {} THEN base ELSE step[pick[s], f[s \ {pick[s]}]]
      BY <3>1
    <3>3. f[s] = IF s = {} THEN base ELSE step[pick[s], f[s \ {pick[s]}]]
      BY <2>1, Zenon DEF Folded
    <3> QED
      BY <3>1, <3>2, <3>3, Zenon
  <2>5. Folded(Small(n + 1), base, pick, step, g)
    <3> SUFFICES ASSUME NEW s \in Small(n + 1)
                 PROVE  g[s] = IF s = {} THEN base ELSE step[pick[s], g[s \ {pick[s]}]]
      BY Zenon DEF Folded
    <3>1. g[s] = IF s = {} THEN base ELSE step[pick[s], f[s \ {pick[s]}]]
      OBVIOUS
    <3> HIDE DEF g, Small
    <3> QED
      BY <2>2, <2>4, <3>1
  <2> QED
    <3> HIDE DEF g
    <3>1. \E h \in [Small(n + 1) -> X] : Folded(Small(n + 1), base, pick, step, h)
      BY <2>3, <2>5, Zenon
    <3>2. n + 1 \in Nat
      OBVIOUS
    <3> QED
      BY <3>1, <3>2, Zenon
<1>3. N = Nat
  <2> HIDE DEF N
  <2>1. N \in SUBSET Nat
    BY DEF N
  <2> QED
    BY <1>1, <1>2, <2>1, NatSetInduction
<1>4. Cardinality(S) \in N
  BY <1>0, <1>3
<1>5. Small(Cardinality(S)) = SUBSET S
  BY <1>0, FS_Subset
<1> QED
  BY <1>4, <1>5

-----------------------------------------------------------------------------
\* Elements of sequences, and folds

\* The empty sequence has no elements.
LEMMA ToSetEmpty == ToSet(<<>>) = {}
BY DEF ToSet

\* Append adds one entry at the end,
LEMMA AppendFacts ==
  ASSUME NEW S, NEW q \in Seq(S), NEW x \in S
  PROVE  /\ Append(q, x) \in Seq(S) /\ Len(q) \in Nat
         /\ DOMAIN Append(q, x) = 1 .. Len(q) + 1 /\ DOMAIN q = 1 .. Len(q)
         /\ Len(Append(q, x)) = Len(q) + 1
         /\ \A i \in 1 .. Len(q) : Append(q, x)[i] = q[i]
         /\ Append(q, x)[Len(q) + 1] = x
OBVIOUS

\* and one element.
LEMMA ToSetAppend ==
  ASSUME NEW S, NEW q \in Seq(S), NEW x \in S
  PROVE  Append(q, x) \in Seq(S) /\ ToSet(Append(q, x)) = ToSet(q) \cup {x}
<1>1. /\ Append(q, x) \in Seq(S) /\ Len(q) \in Nat
      /\ DOMAIN Append(q, x) = 1 .. Len(q) + 1 /\ DOMAIN q = 1 .. Len(q)
      /\ \A i \in 1 .. Len(q) : Append(q, x)[i] = q[i]
      /\ Append(q, x)[Len(q) + 1] = x
  BY AppendFacts
<1>2. \A y : y \in ToSet(Append(q, x)) <=> y \in ToSet(q) \cup {x}
  BY <1>1 DEF ToSet
<1> QED
  BY <1>1, <1>2

\* Appending all elements of a set, in any order, gives a sequence of them.
LEMMA AppendAll ==
  ASSUME NEW S, IsFiniteSet(S)
  PROVE  LET f == FoldSet(LAMBDA a, s : Append(s, a), <<>>, S)
         IN  f \in Seq(S) /\ ToSet(f) = S
<1> DEFINE pick == [s \in SUBSET S |-> CHOOSE x \in s : TRUE]
           step == [p \in S \X Seq(S) |-> Append(p[2], p[1])]
           Body(it) == [s \in SUBSET S |->
                          IF s = {} THEN <<>>
                          ELSE Append(it[s \ {CHOOSE x \in s : TRUE}], CHOOSE x \in s : TRUE)]
           iter == CHOOSE it : it = Body(it)
<1>1. \A s \in SUBSET S : pick[s] = CHOOSE x \in s : TRUE
  OBVIOUS
<1>2. \A s \in SUBSET S : s # {} => pick[s] \in s
  OBVIOUS
<1>3. \A s \in SUBSET S : s # {} => (CHOOSE x \in s : TRUE) \in s
  OBVIOUS
<1>4. step \in [S \X Seq(S) -> Seq(S)]
  OBVIOUS
<1>5. \A x \in S, q \in Seq(S) : step[x, q] = Append(q, x)
  OBVIOUS
<1>6. <<>> \in Seq(S)
  OBVIOUS
<1>7. PICK f \in [SUBSET S -> Seq(S)] : Folded(SUBSET S, <<>>, pick, step, f)
  <2> HIDE DEF pick, step
  <2> QED
    BY <1>4, <1>6, <1>2, FoldExists, Zenon
<1> HIDE DEF pick, step
<1>8. f = Body(f)
  <2>1. \A s \in SUBSET S : f[s] = Body(f)[s]
    <3> SUFFICES ASSUME NEW s \in SUBSET S, s # {}
                 PROVE  f[s] = Append(f[s \ {CHOOSE x \in s : TRUE}], CHOOSE x \in s : TRUE)
      BY <1>7 DEF Folded
    <3> DEFINE x == CHOOSE x \in s : TRUE
    <3>1. x \in S /\ pick[s] = x /\ f[s \ {x}] \in Seq(S)
      BY <1>1, <1>3
    <3> HIDE DEF x
    <3>2. f[s] = Append(f[s \ {x}], x)
      BY <3>1, <1>5, <1>7 DEF Folded
    <3> QED
      BY <3>2 DEF x
  <2> QED
    BY <2>1
<1>9. iter = Body(iter)
  <2> HIDE DEF Body
  <2> QED
    BY <1>8
<1>10. FoldSet(LAMBDA a, s : Append(s, a), <<>>, S) = iter[S]
  BY DEF FoldSet, MapThenFoldSet
<1> DEFINE G == {s \in SUBSET S : iter[s] \in Seq(S) /\ ToSet(iter[s]) = s}
<1>11. \A s \in SUBSET S : (\A x \in s : s \ {x} \in G) => s \in G
  <2> SUFFICES ASSUME NEW s \in SUBSET S, \A x \in s : s \ {x} \in G
               PROVE  s \in G
    OBVIOUS
  <2>1. CASE s = {}
    <3>1. iter[s] = <<>>
      <4> HIDE DEF iter
      <4> QED
        BY <1>9, <2>1
    <3> HIDE DEF iter
    <3> QED
      BY <3>1, <2>1, <1>6, ToSetEmpty, Zenon
  <2>2. CASE s # {}
    <3> DEFINE x == CHOOSE x \in s : TRUE
    <3>1. iter[s] = Append(iter[s \ {x}], x)
      <4> HIDE DEF iter
      <4> QED
        BY <1>9, <2>2
    <3>2. x \in s
      BY <2>2
    <3> HIDE DEF x, iter
    <3> DEFINE q == iter[s \ {x}]
    <3>3. iter[s \ {x}] \in Seq(S) /\ ToSet(iter[s \ {x}]) = s \ {x}
      BY <3>2
    <3>4. iter[s] \in Seq(S) /\ ToSet(iter[s]) = ToSet(iter[s \ {x}]) \cup {x}
      <4>1. x \in S
        BY <3>2
      <4>2. /\ Append(iter[s \ {x}], x) \in Seq(S)
            /\ ToSet(Append(iter[s \ {x}], x)) = ToSet(iter[s \ {x}]) \cup {x}
        <5>1. q \in Seq(S)
          BY <3>3
        <5> HIDE DEF q
        <5>2. Append(q, x) \in Seq(S) /\ ToSet(Append(q, x)) = ToSet(q) \cup {x}
          BY <4>1, <5>1, ToSetAppend
        <5> QED
          BY <5>2 DEF q
      <4> QED
        BY <3>1, <4>2, Zenon
    <3> QED
      BY <3>2, <3>3, <3>4
  <2> QED
    BY <2>1, <2>2
<1>12. G = SUBSET S
  <2>1. G \in SUBSET SUBSET S
    OBVIOUS
  <2> HIDE DEF G
  <2> QED
    BY <1>11, <2>1, SubsetInduction, Zenon
<1> HIDE DEF iter
<1> QED
  BY <1>10, <1>12, Zenon

\* The least and the greatest element of a set of numbers are elements of it.
LEMMA MinIsElement ==
  ASSUME NEW S \in SUBSET Nat, S # {}
  PROVE  Min(S) \in S /\ \A y \in S : Min(S) <= y
<1>1. PICK x \in S : \A y \in S : ~(<<y, x>> \in OpToRel(<, Nat))
  BY NatLessThanWellFounded, WFMin
<1>2. \A y \in S : y < x => <<y, x>> \in OpToRel(<, Nat)
  BY DEF OpToRel
<1>3. \A y \in S : ~(y < x)
  BY <1>1, <1>2, Zenon
<1>4. \A y \in S : x =< y
  BY <1>3, SMT
<1> QED
  BY <1>4 DEF Min

\* The same for the greatest number of a bounded set.
LEMMA MaxIsElement ==
  ASSUME NEW n \in Nat, NEW S \in SUBSET (1 .. n), S # {}
  PROVE  Max(S) \in S /\ \A y \in S : Max(S) >= y
<1> DEFINE T == {n - x : x \in S}
<1>1. T \in SUBSET Nat /\ T # {}
  OBVIOUS
<1>2. Min(T) \in T /\ \A y \in T : Min(T) <= y
  <2> HIDE DEF T
  <2> QED
    BY <1>1, MinIsElement
<1>3. PICK x \in S : Min(T) = n - x
  BY <1>2
<1>4. \A y \in S : n - y \in T
  OBVIOUS
<1>5. \A y \in S : n - x <= n - y
  <2> HIDE DEF T
  <2> QED
    BY <1>2, <1>3, <1>4
<1>6. \A y \in S : x >= y
  BY <1>5
<1> QED
  BY <1>6 DEF Max

\* SumFunctionOnSet is a sum: it can be taken apart at any element.
LEMMA SumFolds ==
  ASSUME NEW S, IsFiniteSet(S), NEW f, \A x \in S : f[x] \in Nat
  PROVE  \E t \in [SUBSET S -> Nat] :
           /\ t[{}] = 0
           /\ \A s \in SUBSET S : \A x \in s : t[s] = f[x] + t[s \ {x}]
           /\ SumFunctionOnSet(f, S) = t[S]
<1> DEFINE pick == [s \in SUBSET S |-> CHOOSE x \in s : TRUE]
           step == [p \in S \X Nat |-> f[p[1]] + p[2]]
           Body(it) == [s \in SUBSET S |->
                          IF s = {} THEN 0
                          ELSE f[CHOOSE x \in s : TRUE] + it[s \ {CHOOSE x \in s : TRUE}]]
           iter == CHOOSE it : it = Body(it)
<1>1. \A s \in SUBSET S : pick[s] = CHOOSE x \in s : TRUE
  OBVIOUS
<1>2. \A s \in SUBSET S : s # {} => pick[s] \in s
  OBVIOUS
<1>3. step \in [S \X Nat -> Nat]
  OBVIOUS
<1>4. \A x \in S, n \in Nat : step[x, n] = f[x] + n
  OBVIOUS
<1>5. 0 \in Nat
  OBVIOUS
<1>6. PICK g \in [SUBSET S -> Nat] : Folded(SUBSET S, 0, pick, step, g)
  <2> HIDE DEF pick, step
  <2> QED
    BY <1>2, <1>3, <1>5, FoldExists, Zenon
<1> HIDE DEF pick, step
<1>7. g = Body(g)
  <2>1. \A s \in SUBSET S : g[s] = Body(g)[s]
    <3> SUFFICES ASSUME NEW s \in SUBSET S, s # {}
                 PROVE  g[s] = f[CHOOSE x \in s : TRUE] + g[s \ {CHOOSE x \in s : TRUE}]
      BY <1>6 DEF Folded
    <3> DEFINE x == CHOOSE x \in s : TRUE
    <3>1. x \in S /\ pick[s] = x /\ g[s \ {x}] \in Nat
      BY <1>1, <1>2
    <3> HIDE DEF x
    <3>2. g[s] = f[x] + g[s \ {x}]
      BY <3>1, <1>4, <1>6 DEF Folded
    <3> QED
      BY <3>2 DEF x
  <2> QED
    BY <2>1
<1>8. iter = Body(iter)
  <2> HIDE DEF Body
  <2> QED
    BY <1>7
<1>9. SumFunctionOnSet(f, S) = iter[S]
  BY DEF SumFunctionOnSet, FoldFunctionOnSet, MapThenFoldSet
<1>10. iter[{}] = 0
  <2> HIDE DEF iter
  <2> QED
    BY <1>8
<1>11. \A s \in SUBSET S : s # {} => \E c \in s : iter[s] = f[c] + iter[s \ {c}]
  <2> HIDE DEF iter
  <2> SUFFICES ASSUME NEW s \in SUBSET S, s # {}
               PROVE  \E c \in s : iter[s] = f[c] + iter[s \ {c}]
    OBVIOUS
  <2>1. (CHOOSE x \in s : TRUE) \in s
    OBVIOUS
  <2>2. iter[s] = f[CHOOSE x \in s : TRUE] + iter[s \ {CHOOSE x \in s : TRUE}]
    BY <1>8
  <2> QED
    BY <2>1, <2>2
<1>12. DOMAIN iter = SUBSET S /\ iter = [s \in SUBSET S |-> iter[s]]
  <2> HIDE DEF iter
  <2> QED
    BY <1>8
<1> HIDE DEF iter
<1> DEFINE N == {s \in SUBSET S : iter[s] \in Nat}
<1>13. \A s \in SUBSET S : (\A x \in s : s \ {x} \in N) => s \in N
  <2> SUFFICES ASSUME NEW s \in SUBSET S, \A x \in s : s \ {x} \in N
               PROVE  iter[s] \in Nat
    OBVIOUS
  <2>1. CASE s = {}
    BY <1>10, <2>1, <1>5, Zenon
  <2>2. CASE s # {}
    <3>1. PICK c \in s : iter[s] = f[c] + iter[s \ {c}]
      BY <1>11, <2>2
    <3>2. f[c] \in Nat /\ iter[s \ {c}] \in Nat
      OBVIOUS
    <3> DEFINE a == f[c]
               b == iter[s \ {c}]
    <3>3. a + b \in Nat
      <4> HIDE DEF a, b
      <4> SUFFICES a \in Nat /\ b \in Nat
        OBVIOUS
      <4> QED
        BY <3>2 DEF a, b
    <3> QED
      BY <3>1, <3>3, Zenon
  <2> QED
    BY <2>1, <2>2
<1>14. N = SUBSET S
  <2>1. N \in SUBSET SUBSET S
    OBVIOUS
  <2> HIDE DEF N
  <2> QED
    BY <1>13, <2>1, SubsetInduction, Zenon
<1>15. iter \in [SUBSET S -> Nat]
  BY <1>12, <1>14
<1> HIDE DEF N
<1> DEFINE G == {s \in SUBSET S : \A x \in s : iter[s] = f[x] + iter[s \ {x}]}
<1>16. \A s \in SUBSET S : (\A x \in s : s \ {x} \in G) => s \in G
  <2> SUFFICES ASSUME NEW s \in SUBSET S, \A x \in s : s \ {x} \in G, NEW x \in s
               PROVE  iter[s] = f[x] + iter[s \ {x}]
    OBVIOUS
  <2>1. PICK c \in s : iter[s] = f[c] + iter[s \ {c}]
    BY <1>11
  <2>2. CASE x = c
    BY <2>1, <2>2
  <2>3. CASE x # c
    <3> DEFINE r == (s \ {c}) \ {x}
               a == iter[s \ {c}]
               b == iter[s \ {x}]
               n == iter[r]
    <3>1. x \in s \ {c} /\ c \in s \ {x} /\ (s \ {x}) \ {c} = r
      BY <2>3
    <3>2. a = f[x] + n
      BY <3>1, Zenon
    <3>3. b = f[c] + n
      BY <3>1, Zenon
    <3>4. n \in Nat /\ f[x] \in Nat /\ f[c] \in Nat
      BY <1>15
    <3> HIDE DEF a, b, n
    <3>5. f[c] + a = f[x] + b
      BY <3>2, <3>3, <3>4
    <3> QED
      BY <2>1, <3>5, Zenon DEF a, b
  <2> QED
    BY <2>2, <2>3
<1>17. G = SUBSET S
  <2>1. G \in SUBSET SUBSET S
    OBVIOUS
  <2> HIDE DEF G
  <2> QED
    BY <1>16, <2>1, SubsetInduction, Zenon
<1> QED
  BY <1>9, <1>10, <1>15, <1>17

\* When the values of one argument change, the sum changes by as much.
LEMMA SumChange ==
  ASSUME NEW S, IsFiniteSet(S), NEW f \in [S -> Nat], NEW g \in [S -> Nat],
         NEW x \in S, \A y \in S \ {x} : g[y] = f[y]
  PROVE  /\ SumFunction(f) \in Nat /\ SumFunction(g) \in Nat
         /\ SumFunction(g) + f[x] = SumFunction(f) + g[x]
<1>1. PICK t \in [SUBSET S -> Nat] :
           /\ t[{}] = 0
           /\ \A s \in SUBSET S : \A y \in s : t[s] = f[y] + t[s \ {y}]
           /\ SumFunctionOnSet(f, S) = t[S]
  BY SumFolds
<1>2. PICK u \in [SUBSET S -> Nat] :
           /\ u[{}] = 0
           /\ \A s \in SUBSET S : \A y \in s : u[s] = g[y] + u[s \ {y}]
           /\ SumFunctionOnSet(g, S) = u[S]
  BY SumFolds
<1> DEFINE R == S \ {x}
           G == {s \in SUBSET R : t[s] = u[s]}
<1>3. \A s \in SUBSET R : (\A y \in s : s \ {y} \in G) => s \in G
  <2> SUFFICES ASSUME NEW s \in SUBSET R, \A y \in s : s \ {y} \in G
               PROVE  t[s] = u[s]
    OBVIOUS
  <2>1. CASE s = {}
    BY <1>1, <1>2, <2>1
  <2>2. CASE s # {}
    <3>1. PICK y \in s : TRUE
      BY <2>2
    <3>2. t[s] = f[y] + t[s \ {y}] /\ u[s] = g[y] + u[s \ {y}]
      BY <1>1, <1>2
    <3>3. f[y] = g[y] /\ t[s \ {y}] = u[s \ {y}]
      OBVIOUS
    <3> QED
      BY <3>2, <3>3, Zenon
  <2> QED
    BY <2>1, <2>2
<1>4. G = SUBSET R
  <2>1. G \in SUBSET SUBSET R
    OBVIOUS
  <2>2. IsFiniteSet(R)
    BY FS_RemoveElement
  <2> HIDE DEF G, R
  <2> QED
    BY <1>3, <2>1, <2>2, SubsetInduction, Zenon
<1>5. t[R] = u[R] /\ t[R] \in Nat
  <2>1. R \in G
    BY <1>4
  <2> QED
    BY <2>1
<1>6. t[S] = f[x] + t[R] /\ u[S] = g[x] + u[R]
  BY <1>1, <1>2
<1>7. SumFunction(f) = t[S] /\ SumFunction(g) = u[S]
  <2>1. DOMAIN f = S /\ DOMAIN g = S
    OBVIOUS
  <2> QED
    BY <1>1, <1>2, <2>1, Zenon DEF SumFunction
<1>8. f[x] \in Nat /\ g[x] \in Nat /\ t[S] \in Nat /\ u[S] \in Nat
  OBVIOUS
<1> HIDE DEF R
<1> QED
  BY <1>5, <1>6, <1>7, <1>8

\* A sum of zeros is zero.
LEMMA SumOfZeros ==
  ASSUME NEW S, IsFiniteSet(S), NEW f \in [S -> Nat], \A x \in S : f[x] = 0
  PROVE  SumFunction(f) = 0
<1>1. PICK t \in [SUBSET S -> Nat] :
           /\ t[{}] = 0
           /\ \A s \in SUBSET S : \A y \in s : t[s] = f[y] + t[s \ {y}]
           /\ SumFunctionOnSet(f, S) = t[S]
  BY SumFolds
<1> DEFINE G == {s \in SUBSET S : t[s] = 0}
<1>2. \A s \in SUBSET S : (\A y \in s : s \ {y} \in G) => s \in G
  <2> SUFFICES ASSUME NEW s \in SUBSET S, \A y \in s : s \ {y} \in G
               PROVE  t[s] = 0
    OBVIOUS
  <2>1. CASE s = {}
    BY <1>1, <2>1
  <2>2. CASE s # {}
    <3>1. PICK y \in s : TRUE
      BY <2>2
    <3>2. t[s] = f[y] + t[s \ {y}]
      BY <1>1
    <3>3. f[y] = 0 /\ t[s \ {y}] = 0
      OBVIOUS
    <3> QED
      BY <3>2, <3>3
  <2> QED
    BY <2>1, <2>2
<1>3. G = SUBSET S
  <2>1. G \in SUBSET SUBSET S
    OBVIOUS
  <2> HIDE DEF G
  <2> QED
    BY <1>2, <2>1, SubsetInduction, Zenon
<1>4. t[S] = 0
  BY <1>3
<1>5. DOMAIN f = S
  OBVIOUS
<1> QED
  BY <1>1, <1>4, <1>5, Zenon DEF SumFunction

-----------------------------------------------------------------------------
\* Sequences and their elements

\* The elements of a sequence are its entries.
LEMMA ToSetMembers ==
  ASSUME NEW S, NEW q \in Seq(S)
  PROVE  /\ ToSet(q) \in SUBSET S
         /\ \A x : x \in ToSet(q) <=> \E i \in 1 .. Len(q) : q[i] = x
BY DEF ToSet

\* A sequence is injective when no two of its entries are the same.
LEMMA InjectiveSeq ==
  ASSUME NEW S, NEW q \in Seq(S)
  PROVE  IsInjective(q) <=> \A i, j \in 1 .. Len(q) : q[i] = q[j] => i = j
<1>1. DOMAIN q = 1 .. Len(q)
  OBVIOUS
<1> QED
  BY <1>1, Zenon DEF IsInjective

\* Appending a new element makes no repetition.
LEMMA AppendKeepsInjective ==
  ASSUME NEW S, NEW q \in Seq(S), NEW x \in S, IsInjective(q), x \notin ToSet(q)
  PROVE  IsInjective(Append(q, x))
<1> DEFINE r == Append(q, x)
           n == Len(q)
<1>1. /\ r \in Seq(S) /\ Len(r) = n + 1 /\ n \in Nat
      /\ \A i \in 1 .. n : r[i] = q[i]
      /\ r[n + 1] = x
  BY AppendFacts
<1>2. \A i \in 1 .. n : q[i] # x
  BY ToSetMembers
<1>3. \A i, j \in 1 .. n : q[i] = q[j] => i = j
  BY InjectiveSeq
<1> HIDE DEF r, n
<1>4. \A i \in 1 .. n + 1 : i # n + 1 => i \in 1 .. n
  BY <1>1
<1>5. \A i, j \in 1 .. n + 1 : r[i] = r[j] => i = j
  BY <1>1, <1>2, <1>3, <1>4
<1>6. IsInjective(r)
  BY <1>1, <1>5, InjectiveSeq
<1> QED
  BY <1>6 DEF r

\* A sequence that is not empty is its head and its tail,
LEMMA TailSet ==
  ASSUME NEW S, NEW q \in Seq(S), q # <<>>
  PROVE  /\ Head(q) \in S /\ Tail(q) \in Seq(S)
         /\ Len(q) \in Nat /\ Len(q) > 0 /\ Len(Tail(q)) = Len(q) - 1
         /\ Head(q) = q[1] /\ \A i \in 1 .. Len(q) - 1 : Tail(q)[i] = q[i + 1]
         /\ ToSet(q) = {Head(q)} \cup ToSet(Tail(q))
<1>1. /\ Head(q) \in S /\ Tail(q) \in Seq(S)
      /\ Len(q) \in Nat /\ Len(q) > 0 /\ Len(Tail(q)) = Len(q) - 1
      /\ Head(q) = q[1] /\ \A i \in 1 .. Len(q) - 1 : Tail(q)[i] = q[i + 1]
  OBVIOUS
<1> DEFINE n == Len(q)
           r == Tail(q)
<1>2. ASSUME NEW x PROVE x \in ToSet(q) <=> x = q[1] \/ x \in ToSet(r)
  <2>1. x \in ToSet(q) <=> \E i \in 1 .. n : q[i] = x
    BY ToSetMembers
  <2>2. x \in ToSet(r) <=> \E i \in 1 .. n - 1 : r[i] = x
    <3>1. r \in Seq(S) /\ Len(r) = n - 1
      BY <1>1
    <3> HIDE DEF r, n
    <3> QED
      BY <3>1, ToSetMembers
  <2>3. (\E i \in 1 .. n : q[i] = x) <=> q[1] = x \/ \E i \in 1 .. n - 1 : q[i + 1] = x
    <3>1. ASSUME NEW i \in 1 .. n, q[i] = x, q[1] # x
          PROVE  \E j \in 1 .. n - 1 : q[j + 1] = x
      <4>1. i - 1 \in 1 .. n - 1 /\ (i - 1) + 1 = i
        BY <1>1, <3>1
      <4> QED
        BY <3>1, <4>1
    <3>2. \A j \in 1 .. n - 1 : j + 1 \in 1 .. n
      BY <1>1
    <3>3. 1 \in 1 .. n
      BY <1>1
    <3> QED
      BY <3>1, <3>2, <3>3
  <2> QED
    BY <1>1, <2>1, <2>2, <2>3
<1> QED
  BY <1>1, <1>2

\* and if it is injective, its head is not in its tail.
LEMMA TailInjective ==
  ASSUME NEW S, NEW q \in Seq(S), q # <<>>, IsInjective(q)
  PROVE  IsInjective(Tail(q)) /\ Head(q) \notin ToSet(Tail(q))
<1> DEFINE n == Len(q)
           r == Tail(q)
<1>1. /\ r \in Seq(S) /\ n \in Nat /\ n > 0 /\ Len(r) = n - 1
      /\ Head(q) = q[1] /\ \A i \in 1 .. n - 1 : r[i] = q[i + 1]
  BY TailSet
<1>2. \A i, j \in 1 .. n : q[i] = q[j] => i = j
  BY InjectiveSeq
<1> HIDE DEF n, r
<1>3. \A i \in 1 .. n - 1 : i + 1 \in 1 .. n /\ i + 1 # 1
  BY <1>1
<1>4. \A i, j \in 1 .. n - 1 : r[i] = r[j] => i = j
  BY <1>1, <1>2, <1>3
<1>5. \A i \in 1 .. n - 1 : r[i] # q[1]
  BY <1>1, <1>2, <1>3
<1>6. IsInjective(r)
  BY <1>1, <1>4, InjectiveSeq
<1>7. q[1] \notin ToSet(r)
  BY <1>1, <1>5, ToSetMembers
<1> QED
  BY <1>1, <1>6, <1>7 DEF r

\* The elements of two sequences together.
LEMMA ConcatSet ==
  ASSUME NEW S, NEW p \in Seq(S), NEW q \in Seq(S)
  PROVE  /\ p \o q \in Seq(S) /\ Len(p \o q) = Len(p) + Len(q)
         /\ ToSet(p \o q) = ToSet(p) \cup ToSet(q)
<1> DEFINE r == p \o q
           m == Len(p)
           n == Len(q)
<1>1. /\ r \in Seq(S) /\ Len(r) = m + n /\ m \in Nat /\ n \in Nat
      /\ \A i \in 1 .. m + n : r[i] = IF i <= m THEN p[i] ELSE q[i - m]
  BY ConcatProperties
<1>2. ASSUME NEW x PROVE x \in ToSet(r) <=> x \in ToSet(p) \/ x \in ToSet(q)
  <2>1. x \in ToSet(r) <=> \E i \in 1 .. m + n : r[i] = x
    BY <1>1, ToSetMembers
  <2>2. x \in ToSet(p) <=> \E i \in 1 .. m : p[i] = x
    BY ToSetMembers
  <2>3. x \in ToSet(q) <=> \E i \in 1 .. n : q[i] = x
    BY ToSetMembers
  <2> HIDE DEF r, m, n
  <2>4. ASSUME NEW i \in 1 .. m + n, r[i] = x
        PROVE  (\E j \in 1 .. m : p[j] = x) \/ \E j \in 1 .. n : q[j] = x
    <3>1. CASE i <= m
      BY <1>1, <2>4, <3>1
    <3>2. CASE i > m
      <4>1. i - m \in 1 .. n
        BY <1>1, <3>2
      <4> QED
        BY <1>1, <2>4, <3>2, <4>1
    <3> QED
      BY <1>1, <3>1, <3>2
  <2>5. ASSUME NEW i \in 1 .. m PROVE i \in 1 .. m + n /\ r[i] = p[i]
    BY <1>1
  <2>6. ASSUME NEW i \in 1 .. n PROVE m + i \in 1 .. m + n /\ r[m + i] = q[i]
    <3>1. m + i \in 1 .. m + n /\ ~(m + i <= m) /\ (m + i) - m = i
      BY <1>1
    <3> QED
      BY <1>1, <3>1
  <2> QED
    BY <2>1, <2>2, <2>3, <2>4, <2>5, <2>6
<1> QED
  BY <1>1, <1>2

\* Sequences without a common element make no repetition together.
LEMMA ConcatInjective ==
  ASSUME NEW S, NEW p \in Seq(S), NEW q \in Seq(S), IsInjective(p), IsInjective(q),
         ToSet(p) \cap ToSet(q) = {}
  PROVE  IsInjective(p \o q)
<1> DEFINE r == p \o q
           m == Len(p)
           n == Len(q)
<1>1. /\ r \in Seq(S) /\ Len(r) = m + n /\ m \in Nat /\ n \in Nat
      /\ \A i \in 1 .. m + n : r[i] = IF i <= m THEN p[i] ELSE q[i - m]
  BY ConcatProperties
<1>2. /\ \A i, j \in 1 .. m : p[i] = p[j] => i = j
      /\ \A i, j \in 1 .. n : q[i] = q[j] => i = j
  BY InjectiveSeq
<1>3. \A i \in 1 .. m, j \in 1 .. n : p[i] # q[j]
  BY ToSetMembers
<1> HIDE DEF r, m, n
<1>4. ASSUME NEW i \in 1 .. m + n, NEW j \in 1 .. m + n, r[i] = r[j] PROVE i = j
  <2>1. CASE i <= m /\ j <= m
    BY <1>1, <1>2, <1>4, <2>1
  <2>2. CASE i > m /\ j > m
    <3>1. i - m \in 1 .. n /\ j - m \in 1 .. n
      BY <1>1, <2>2
    <3>2. q[i - m] = q[j - m]
      BY <1>1, <1>4, <2>2
    <3>3. i - m = j - m
      BY <1>2, <3>1, <3>2
    <3> QED
      BY <1>1, <3>3
  <2>3. CASE i <= m /\ j > m
    <3>1. j - m \in 1 .. n /\ i \in 1 .. m
      BY <1>1, <2>3
    <3> QED
      BY <1>1, <1>3, <1>4, <2>3, <3>1
  <2>4. CASE i > m /\ j <= m
    <3>1. i - m \in 1 .. n /\ j \in 1 .. m
      BY <1>1, <2>4
    <3> QED
      BY <1>1, <1>3, <1>4, <2>4, <3>1
  <2> QED
    BY <1>1, <2>1, <2>2, <2>3, <2>4
<1>5. IsInjective(r)
  BY <1>1, <1>4, InjectiveSeq
<1> QED
  BY <1>5 DEF r

\* RemoveFirst removes an element from an injective sequence.
LEMMA RemoveFirstSet ==
  ASSUME NEW S, NEW q \in Seq(S), IsInjective(q), NEW x
  PROVE  /\ RemoveFirst(q, x) \in Seq(S) /\ IsInjective(RemoveFirst(q, x))
         /\ ToSet(RemoveFirst(q, x)) = ToSet(q) \ {x}
<1> DEFINE n == Len(q)
           I == {i \in 1 .. n : q[i] = x}
<1>1. n \in Nat /\ \A i \in 1 .. n : q[i] \in S
  OBVIOUS
<1>2. CASE I = {}
  <2>1. RemoveFirst(q, x) = q
    BY <1>2 DEF RemoveFirst
  <2>2. x \notin ToSet(q)
    BY <1>2, ToSetMembers
  <2> QED
    BY <2>1, <2>2
<1>3. CASE I # {}
  <2> DEFINE k == Min(I)
             a == SubSeq(q, 1, k - 1)
             b == SubSeq(q, k + 1, n)
  <2>1. RemoveFirst(q, x) = a \o b
    BY <1>3, Zenon DEF RemoveFirst, RemoveAt, SelectInSeq
  <2>2. k \in I
    <3>1. I \in SUBSET Nat
      BY <1>1
    <3> HIDE DEF I
    <3> QED
      BY <1>3, <3>1, MinIsElement
  <2>3. k \in 1 .. n /\ q[k] = x
    BY <2>2
  <2> HIDE DEF k, n, I
  <2>4. /\ a \in Seq(S) /\ Len(a) = k - 1 /\ \A i \in 1 .. k - 1 : a[i] = q[i]
    <3>1. \A i \in 1 .. k - 1 : q[i] \in S
      BY <1>1, <2>3
    <3>2. /\ a \in Seq(S) /\ Len(a) = IF 1 <= k - 1 THEN (k - 1) - 1 + 1 ELSE 0
          /\ \A i \in 1 .. (k - 1) - 1 + 1 : a[i] = q[1 + i - 1]
      BY <2>3, <3>1, SubSeqProperties
    <3>3. \A i \in 1 .. k - 1 : i \in 1 .. (k - 1) - 1 + 1 /\ 1 + i - 1 = i
      BY <1>1, <2>3
    <3>4. Len(a) = k - 1
      BY <1>1, <2>3, <3>2
    <3> QED
      BY <3>2, <3>3, <3>4
  <2>5. /\ b \in Seq(S) /\ Len(b) = n - k /\ \A i \in 1 .. n - k : b[i] = q[k + i]
    <3>1. \A i \in k + 1 .. n : q[i] \in S
      BY <1>1, <2>3
    <3>2. /\ b \in Seq(S) /\ Len(b) = IF k + 1 <= n THEN n - (k + 1) + 1 ELSE 0
          /\ \A i \in 1 .. n - (k + 1) + 1 : b[i] = q[(k + 1) + i - 1]
      BY <1>1, <2>3, <3>1, SubSeqProperties
    <3>3. \A i \in 1 .. n - k : i \in 1 .. n - (k + 1) + 1 /\ (k + 1) + i - 1 = k + i
      BY <1>1, <2>3
    <3>4. Len(b) = n - k
      BY <1>1, <2>3, <3>2
    <3> QED
      BY <3>2, <3>3, <3>4
  <2>6. \A i, j \in 1 .. n : q[i] = q[j] => i = j
    BY InjectiveSeq DEF n
  <2> HIDE DEF a, b
  <2>7. IsInjective(a)
    <3>1. \A i, j \in 1 .. k - 1 : a[i] = a[j] => i = j
      BY <1>1, <2>3, <2>4, <2>6
    <3> QED
      BY <2>4, <3>1, InjectiveSeq
  <2>8. IsInjective(b)
    <3>1. ASSUME NEW i \in 1 .. n - k, NEW j \in 1 .. n - k, b[i] = b[j] PROVE i = j
      <4>1. k + i \in 1 .. n /\ k + j \in 1 .. n
        BY <1>1, <2>3
      <4>2. k + i = k + j
        BY <2>5, <2>6, <3>1, <4>1
      <4> QED
        BY <1>1, <2>3, <4>2
    <3> QED
      BY <2>5, <3>1, InjectiveSeq
  <2>9. ASSUME NEW y PROVE y \in ToSet(a) => y \notin ToSet(b) /\ y \in ToSet(q) \ {x}
    <3> SUFFICES ASSUME NEW i \in 1 .. k - 1, a[i] = y
                 PROVE  y \notin ToSet(b) /\ y \in ToSet(q) \ {x}
      BY <2>4, ToSetMembers
    <3>1. i \in 1 .. n /\ q[i] = y /\ i # k
      BY <1>1, <2>3, <2>4
    <3>2. y \in ToSet(q) /\ y # x
      BY <2>3, <2>6, <3>1, ToSetMembers DEF n
    <3>3. ASSUME NEW j \in 1 .. n - k, b[j] = y PROVE FALSE
      <4>1. k + j \in 1 .. n /\ k + j # i
        BY <1>1, <2>3
      <4> QED
        BY <2>5, <2>6, <3>1, <3>3, <4>1
    <3> QED
      BY <2>5, <3>2, <3>3, ToSetMembers
  <2>10. ASSUME NEW y PROVE y \in ToSet(b) => y \in ToSet(q) \ {x}
    <3> SUFFICES ASSUME NEW i \in 1 .. n - k, b[i] = y
                 PROVE  y \in ToSet(q) \ {x}
      BY <2>5, ToSetMembers
    <3>1. k + i \in 1 .. n /\ q[k + i] = y /\ k + i # k
      BY <1>1, <2>3, <2>5
    <3> QED
      BY <2>3, <2>6, <3>1, ToSetMembers DEF n
  <2>11. ASSUME NEW y PROVE y \in ToSet(q) \ {x} => y \in ToSet(a) \/ y \in ToSet(b)
    <3> SUFFICES ASSUME NEW i \in 1 .. n, q[i] = y, i # k
                 PROVE  y \in ToSet(a) \/ y \in ToSet(b)
      BY <2>3, ToSetMembers DEF n
    <3>1. CASE i < k
      <4>1. i \in 1 .. k - 1 /\ a[i] = y
        BY <1>1, <2>3, <2>4, <3>1
      <4> QED
        BY <2>4, <4>1, ToSetMembers
    <3>2. CASE i > k
      <4>1. i - k \in 1 .. n - k /\ k + (i - k) = i
        BY <1>1, <2>3, <3>2
      <4>2. b[i - k] = y
        BY <2>5, <4>1
      <4> QED
        BY <2>5, <4>1, <4>2, ToSetMembers
    <3> QED
      BY <1>1, <2>3, <3>1, <3>2
  <2>12. IsInjective(a \o b)
    BY <2>4, <2>5, <2>7, <2>8, <2>9, ConcatInjective
  <2>13. a \o b \in Seq(S) /\ ToSet(a \o b) = ToSet(a) \cup ToSet(b)
    BY <2>4, <2>5, ConcatSet
  <2>14. ToSet(a) \cup ToSet(b) = ToSet(q) \ {x}
    BY <2>9, <2>10, <2>11
  <2> QED
    BY <2>1, <2>12, <2>13, <2>14
<1> QED
  BY <1>2, <1>3

-----------------------------------------------------------------------------
\* Recursive functions

\* The functions on D whose value at an argument is one of T's.
ValuesIn(D, T) == {f \in [D -> UNION {T[x] : x \in D}] : \A x \in D : f[x] \in T[x]}

\* What step makes of such a function is one again, and at an argument it depends
\* on the function's values of smaller measure only.  The measure m is bounded.
Recurses(D, T, m, N, step) ==
  /\ N \in Nat
  /\ \A x \in D : T[x] # {} /\ m[x] \in 0 .. N
  /\ \A f \in ValuesIn(D, T) : \A x \in D : step[<<f, x>>] \in T[x]
  /\ \A f, g \in ValuesIn(D, T) : \A x \in D :
       (\A y \in D : m[y] < m[x] => f[y] = g[y]) => step[<<f, x>>] = step[<<g, x>>]

\* Then there is a recursive function.  T says what the value at an argument must
\* be like for the recursion to go on.
LEMMA RecursionExists ==
  ASSUME NEW D, NEW T, NEW m, NEW N, NEW step, Recurses(D, T, m, N, step)
  PROVE  \E f \in ValuesIn(D, T) : \A x \in D : f[x] = step[<<f, x>>]
<1> DEFINE F == ValuesIn(D, T)
<1>0. /\ N \in Nat
      /\ \A x \in D : T[x] # {} /\ m[x] \in 0 .. N
      /\ F = {f \in [D -> UNION {T[x] : x \in D}] : \A x \in D : f[x] \in T[x]}
      /\ \A f \in F : \A x \in D : step[<<f, x>>] \in T[x]
      /\ \A f, g \in F : \A x \in D :
           (\A y \in D : m[y] < m[x] => f[y] = g[y]) => step[<<f, x>>] = step[<<g, x>>]
  BY Zenon DEF ValuesIn, Recurses
<1> HIDE DEF F
<1> DEFINE Solves(f, n) == \A x \in D : m[x] < n => f[x] = step[<<f, x>>]
           G == {n \in Nat : \E f \in F : Solves(f, n)}
<1>1. 0 \in G
  <2> DEFINE f == [x \in D |-> CHOOSE r \in T[x] : TRUE]
  <2>1. \A x \in D : f[x] \in T[x]
    BY <1>0
  <2>2. f \in F
    BY <1>0, <2>1
  <2>3. Solves(f, 0)
    BY <1>0
  <2> HIDE DEF f
  <2> QED
    BY <2>2, <2>3
<1>2. \A n \in G : n + 1 \in G
  <2> SUFFICES ASSUME NEW n \in G
               PROVE  \E g \in F : Solves(g, n + 1)
    OBVIOUS
  <2> PICK f \in F : Solves(f, n)
    OBVIOUS
  <2> n \in Nat
    OBVIOUS
  <2> DEFINE g == [x \in D |-> IF m[x] < n THEN f[x] ELSE step[<<f, x>>]]
  <2>1. g \in F
    <3>1. \A x \in D : g[x] \in T[x]
      BY <1>0
    <3>2. g \in [D -> UNION {T[x] : x \in D}]
      BY <3>1
    <3> HIDE DEF g
    <3> QED
      BY <1>0, <3>1, <3>2
  <2>2. \A x \in D : m[x] < n => g[x] = f[x]
    OBVIOUS
  <2>3. \A x \in D : g[x] = step[<<f, x>>]
    OBVIOUS
  <2> HIDE DEF g
  <2>4. ASSUME NEW x \in D, m[x] < n + 1
        PROVE  step[<<f, x>>] = step[<<g, x>>]
    <3>1. \A y \in D : m[y] < m[x] => f[y] = g[y]
      <4> SUFFICES ASSUME NEW y \in D, m[y] < m[x] PROVE m[y] < n
        BY <2>2
      <4> QED
        BY <1>0, <2>4
    <3> QED
      BY <1>0, <2>1, <3>1
  <2>5. Solves(g, n + 1)
    BY <2>3, <2>4
  <2> QED
    BY <2>1, <2>5
<1>3. G = Nat
  <2> HIDE DEF G
  <2>1. G \in SUBSET Nat
    BY DEF G
  <2> QED
    BY <1>1, <1>2, <2>1, NatSetInduction
<1>4. PICK f \in F : Solves(f, N + 1)
  <2>1. N + 1 \in G
    BY <1>0, <1>3
  <2> HIDE DEF Solves
  <2> QED
    BY <2>1
<1>5. \A x \in D : m[x] < N + 1
  BY <1>0
<1> QED
  BY <1>4, <1>5 DEF F

-----------------------------------------------------------------------------
\* Graphs without loops

\* What can be reached from v in the graph g over V, v included.
ReachableIn(V, g, v) ==
  {w \in V : \A S \in SUBSET V : v \in S /\ (\A x \in S : g[x] \subseteq S) => w \in S}

\* No vertex can be reached from one that its edges lead to.
Loopless(V, g) == \A v \in V : \A t \in g[v] : v \notin ReachableIn(V, g, t)

\* Along an edge of a loopless graph less is reached.
LEMMA LessIsReached ==
  ASSUME NEW V, NEW g \in [V -> SUBSET V], Loopless(V, g), NEW v \in V, NEW t \in g[v]
  PROVE  /\ t \in V /\ v \in ReachableIn(V, g, v) /\ t \in ReachableIn(V, g, v)
         /\ ReachableIn(V, g, t) \subseteq ReachableIn(V, g, v) \ {v}
<1>1. t \in V /\ v \in ReachableIn(V, g, v) /\ t \in ReachableIn(V, g, v)
  BY DEF ReachableIn
<1>2. v \notin ReachableIn(V, g, t)
  BY DEF Loopless
<1>3. ASSUME NEW w \in ReachableIn(V, g, t), NEW S \in SUBSET V, v \in S,
             \A x \in S : g[x] \subseteq S
      PROVE  w \in S
  <2>1. t \in S
    BY <1>3
  <2> QED
    BY <1>3, <2>1 DEF ReachableIn
<1>4. ReachableIn(V, g, t) \subseteq ReachableIn(V, g, v)
  BY <1>3 DEF ReachableIn
<1> QED
  BY <1>1, <1>2, <1>4

\* What is reached beyond v itself is reached from one that v has an edge to.
LEMMA ReachedBeyond ==
  ASSUME NEW V, NEW g \in [V -> SUBSET V], NEW v \in V, NEW w \in ReachableIn(V, g, v), w # v
  PROVE  \E t \in g[v] : w \in ReachableIn(V, g, t)
<1> DEFINE S == {v} \cup {x \in V : \E t \in g[v] : x \in ReachableIn(V, g, t)}
<1>1. S \in SUBSET V /\ v \in S
  OBVIOUS
<1>2. ASSUME NEW x \in S, NEW y \in g[x] PROVE y \in S
  <2>1. x \in V /\ y \in V
    BY <1>1
  <2>2. CASE x = v
    <3>1. y \in ReachableIn(V, g, y)
      BY <2>1 DEF ReachableIn
    <3> QED
      BY <2>1, <2>2, <3>1
  <2>3. CASE x # v
    <3>1. PICK t \in g[v] : x \in ReachableIn(V, g, t)
      BY <2>3
    <3>2. y \in ReachableIn(V, g, t)
      BY <2>1, <3>1 DEF ReachableIn
    <3> QED
      BY <2>1, <3>2
  <2> QED
    BY <2>2, <2>3
<1>3. w \in S
  <2> HIDE DEF S
  <2> QED
    BY <1>1, <1>2 DEF ReachableIn
<1> QED
  BY <1>3

\* Induction along the edges of a finite loopless graph, for a set of vertices.
LEMMA LooplessInduction ==
  ASSUME NEW V, IsFiniteSet(V), NEW g \in [V -> SUBSET V], Loopless(V, g),
         NEW G \in SUBSET V, \A v \in V : g[v] \subseteq G => v \in G
  PROVE  G = V
<1> DEFINE H == {s \in SUBSET V : \A v \in V : ReachableIn(V, g, v) \subseteq s => v \in G}
<1>1. ASSUME NEW s \in SUBSET V, \A x \in s : s \ {x} \in H
      PROVE  s \in H
  <2> SUFFICES ASSUME NEW v \in V, ReachableIn(V, g, v) \subseteq s, NEW t \in g[v] PROVE t \in G
    OBVIOUS
  <2>1. /\ t \in V /\ v \in s /\ ReachableIn(V, g, t) \subseteq s \ {v}
    BY LessIsReached
  <2>2. s \ {v} \in H
    BY <1>1, <2>1
  <2> QED
    BY <2>1, <2>2
<1>2. H = SUBSET V
  <2> HIDE DEF H
  <2>1. H \in SUBSET SUBSET V
    BY DEF H
  <2> QED
    BY <1>1, <2>1, SubsetInduction, Zenon
<1>3. \A v \in V : ReachableIn(V, g, v) \subseteq V
  BY DEF ReachableIn
<1>4. V \in H
  BY <1>2
<1> QED
  BY <1>3, <1>4

\* Some member of a set of vertices reaches none of the others.
LEMMA LowestInSet ==
  ASSUME NEW V, IsFiniteSet(V), NEW g \in [V -> SUBSET V], Loopless(V, g),
         NEW S \in SUBSET V, S # {}
  PROVE  \E v \in S : ReachableIn(V, g, v) \cap S = {v}
<1> SUFFICES ASSUME \A v \in S : ReachableIn(V, g, v) \cap S # {v} PROVE FALSE
  OBVIOUS
\* none of S can be reached from v
<1> DEFINE G == {v \in V : ReachableIn(V, g, v) \cap S = {}}
<1>1. ASSUME NEW v \in V, g[v] \subseteq G PROVE v \in G
  <2>1. ASSUME NEW w \in ReachableIn(V, g, v), w \in S PROVE w = v
    BY <1>1, <2>1, ReachedBeyond
  <2>2. v \in ReachableIn(V, g, v)
    BY DEF ReachableIn
  <2>3. v \notin S
    BY <2>1, <2>2
  <2> QED
    BY <2>1, <2>3
<1>2. G = V
  <2> HIDE DEF G
  <2>1. G \in SUBSET V
    BY DEF G
  <2> QED
    BY <1>1, <2>1, LooplessInduction
<1>3. PICK v \in S : TRUE
  OBVIOUS
<1>4. v \in ReachableIn(V, g, v)
  BY DEF ReachableIn
<1> QED
  BY <1>2, <1>4

\* step gives a value of X that depends on the values at the targets only.
RecursesAlong(V, g, X, step) ==
  /\ IsFiniteSet(V) /\ g \in [V -> SUBSET V] /\ Loopless(V, g) /\ X # {}
  /\ \A f \in [V -> X] : \A v \in V : step[<<f, v>>] \in X
  /\ \A f, h \in [V -> X] : \A v \in V :
       (\A t \in g[v] : f[t] = h[t]) => step[<<f, v>>] = step[<<h, v>>]

\* A recursion along the edges of a finite loopless graph has a solution.
LEMMA LooplessRecursion ==
  ASSUME NEW V, NEW g, NEW X, NEW step, RecursesAlong(V, g, X, step)
  PROVE  \E f \in [V -> X] : \A v \in V : f[v] = step[<<f, v>>]
<1>0. /\ IsFiniteSet(V) /\ g \in [V -> SUBSET V] /\ Loopless(V, g) /\ X # {}
      /\ \A f \in [V -> X] : \A v \in V : step[<<f, v>>] \in X
      /\ \A f, h \in [V -> X] : \A v \in V :
           (\A t \in g[v] : f[t] = h[t]) => step[<<f, v>>] = step[<<h, v>>]
  BY Zenon DEF RecursesAlong
<1> DEFINE T == [v \in V |-> X]
           m == [v \in V |-> Cardinality(ReachableIn(V, g, v))]
           N == Cardinality(V)
<1>1. ValuesIn(V, T) \subseteq [V -> X]
  <2> SUFFICES ASSUME NEW f \in ValuesIn(V, T) PROVE f \in [V -> X]
    OBVIOUS
  <2>1. \A v \in V : f[v] \in X
    BY DEF ValuesIn
  <2>2. f = [v \in V |-> f[v]]
    BY DEF ValuesIn
  <2> QED
    BY <2>1, <2>2
<1>2. N \in Nat /\ \A v \in V : m[v] \in 0 .. N
  <2> SUFFICES ASSUME NEW v \in V PROVE N \in Nat /\ Cardinality(ReachableIn(V, g, v)) \in 0 .. N
    BY <1>0, FS_CardinalityType
  <2>1. ReachableIn(V, g, v) \in SUBSET V
    BY DEF ReachableIn
  <2>2. /\ Cardinality(ReachableIn(V, g, v)) <= N /\ N \in Nat
        /\ Cardinality(ReachableIn(V, g, v)) \in Nat
    BY <1>0, <2>1, FS_Subset, FS_CardinalityType
  <2> QED
    BY <2>2
<1>3. ASSUME NEW f \in ValuesIn(V, T), NEW h \in ValuesIn(V, T), NEW v \in V,
             \A y \in V : m[y] < m[v] => f[y] = h[y]
      PROVE  step[<<f, v>>] = step[<<h, v>>]
  <2>1. ASSUME NEW t \in g[v] PROVE f[t] = h[t]
    <3>1. t \in V /\ v \in ReachableIn(V, g, v) /\ ReachableIn(V, g, t) \subseteq ReachableIn(V, g, v) \ {v}
      BY <1>0, LessIsReached
    <3>2. IsFiniteSet(ReachableIn(V, g, v))
      BY <1>0, FS_Subset DEF ReachableIn
    <3>3. Cardinality(ReachableIn(V, g, t)) < Cardinality(ReachableIn(V, g, v))
      <4> DEFINE A == ReachableIn(V, g, t)
                 B == ReachableIn(V, g, v)
      <4>1. IsFiniteSet(B) /\ A \subseteq B /\ v \in B /\ v \notin A
        BY <3>1, <3>2
      <4> HIDE DEF A, B
      <4>2. Cardinality(A) < Cardinality(B)
        BY <4>1, SmallerCardinality
      <4> QED
        BY <4>2 DEF A, B
    <3>4. m[t] < m[v]
      BY <3>1, <3>3
    <3> HIDE DEF m
    <3> QED
      BY <1>3, <3>1, <3>4
  <2> QED
    BY <1>0, <1>1, <1>3, <2>1
<1>4. \A f \in ValuesIn(V, T) : \A v \in V : step[<<f, v>>] \in T[v]
  BY <1>0, <1>1
<1>5. Recurses(V, T, m, N, step)
  <2>1. \A v \in V : T[v] # {}
    BY <1>0
  <2> HIDE DEF T, m, N
  <2> QED
    BY <1>2, <1>3, <1>4, <2>1, Zenon DEF Recurses
<1>6. PICK f \in ValuesIn(V, T) : \A v \in V : f[v] = step[<<f, v>>]
  <2> HIDE DEF T, m, N
  <2> QED
    BY <1>5, RecursionExists
<1> QED
  BY <1>1, <1>6
===============================================================================
