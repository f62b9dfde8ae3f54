---------------------------- MODULE MCAdmission ----------------------------
(* Values for model-checking Admission. *)
EXTENDS Admission, TLC

CONSTANTS o1, o2, o3, c1, c2, s1, s2, w1, w2, w3

ThreeOperations == {o1, o2, o3}
TwoCallers == {c1, c2}
\* The last operation is of another session.
Sessions == [o \in Operations |-> IF o = o3 THEN s2 ELSE s1]
\* In each kind another budget is the first to be exhausted, by the second charge
\* that counts against it; uploads have no active limit.
Policies == [k \in Kinds |->
  [caller |-> IF k = "upload" THEN 1 ELSE 3, session |-> IF k = "analyst" THEN 1 ELSE 3,
   global |-> IF k = "runner" THEN 1 ELSE 3, active |-> IF k = "upload" THEN 3 ELSE 1]]
ThreeHolders == {w1, w2, w3}

Symmetry ==
  Permutations(Holders) \cup Permutations(Callers) \cup Permutations({o1, o2})
=============================================================================
