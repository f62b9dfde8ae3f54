----------------------------- MODULE MCSession -----------------------------
(* Values for model-checking Session. *)
EXTENDS Session

CONSTANTS c1, c2, k1, k2, p1, p2, i1, i2, r1, r2, m1, m2, e1, a1, f1

TwoClaims == {c1, c2}
TwoConcepts == {k1, k2}
TwoPredictions == {p1, p2}
TwoIRs == {i1, i2}
TwoRuns == {r1, r2}
TwoManifests == {m1, m2}
OneReport == {e1}
OnePacket == {a1}
OnePatch == {f1}
=============================================================================
