--------------------------- MODULE MCLearnerPage ---------------------------
(* Values for model-checking LearnerPage. *)
EXTENDS LearnerPage, TLC

CONSTANTS j1, j2, r1

TwoCompiles == {j1, j2}
ThreeJobs == {j1, j2, r1}

Symmetry == Permutations(Compiles)
=============================================================================
