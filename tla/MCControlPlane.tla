--------------------------- MODULE MCControlPlane ---------------------------
(* Values for model-checking ControlPlane. *)
EXTENDS ControlPlane, TLC

CONSTANTS r1, r2

TwoRequests == {r1, r2}
FromPrediction == {"prediction"}
FromAll == {"prediction", "result", "transfer"}

Symmetry == Permutations(Requests)
=============================================================================
