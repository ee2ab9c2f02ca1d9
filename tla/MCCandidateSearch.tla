-------------------------- MODULE MCCandidateSearch --------------------------
(***************************************************************************)
(* Small problems for CandidateSearch: two views (or one view in each        *)
(* orientation) with up to three candidates, the anchor among the first or   *)
(* the last of them, a candidate that is not allowed, and every set of       *)
(* pairs of candidates that exclude each other.                              *)
(***************************************************************************)
EXTENDS CandidateSearch

Shape(l1, l2, al1, al2, an1, an2) ==
  [len |-> <<l1, l2>>, allowed |-> <<al1, al2>>, anchor |-> <<an1, an2>>]

Shapes ==
  {Shape(3, 3, {0, 1, 2}, {0, 1, 2}, 2, 0), Shape(3, 2, {0, 2}, {0, 1}, 2, 1),
   Shape(3, 1, {1, 2}, {0}, 1, 0)}

Pairs(s) ==
  {{<<1, r>>, <<2, q>>} : r \in s.allowed[1], q \in s.allowed[2]}

\* Positions that rule out one candidate, or all of them, by themselves.
Alone(s) == {{<<1, s.anchor[1]>>}, {<<2, 0>>}, {}}

Conflicts(s) ==
  SUBSET Pairs(s) \cup {a \cup b : a \in {x \in SUBSET Alone(s) : x # {}},
                                   b \in {x \in SUBSET Pairs(s) : Cardinality(x) <= 1}}

MCProblems ==
  UNION {{[len |-> s.len, allowed |-> s.allowed, anchor |-> s.anchor,
           conflicts |-> c] : c \in Conflicts(s)} : s \in Shapes}
=============================================================================
