---------------------------- MODULE MCRunnerJob ----------------------------
(* Values for model-checking RunnerJob. *)
EXTENDS RunnerJob, TLC

CONSTANTS h1, h2, d1, d2, u1, u2

\* The runner's verdict after one event, and the failure it sends under another
\* key when the verdict was not accepted.
Verified == [key |-> "k1", body |-> "b1", status |-> "VERIFIED",
             error |-> "none", cursor |-> 1]
Failed == [key |-> "k2", body |-> "b2", status |-> "FAILED",
           error |-> "runner", cursor |-> 1]

\* Other evidence under the same key.
Reused == [Failed EXCEPT !.key = "k1"]

AllCallbacks == {Verified, Failed, Reused}
OnlyVerified == {Verified}

OneHandler == {h1}
TwoHandlers == {h1, h2}
OneDelivery == {d1}
TwoDeliveries == {d1, d2}
NoUploads == {}
OneUpload == {u1}
TwoUploads == {u1, u2}

Symmetry ==
  Permutations(Handlers) \cup Permutations(Deliveries) \cup Permutations(Uploads)
=============================================================================
