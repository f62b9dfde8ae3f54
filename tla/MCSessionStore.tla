--------------------------- MODULE MCSessionStore ---------------------------
(* Values for model-checking SessionStore. *)
EXTENDS SessionStore, TLC

CONSTANTS r1, r2, r3, created, k1

ThreeRequests == {r1, r2, r3}
OneReader == {k1}

\* A learner who may take one of two ways from "ingested" and then goes on.
Aggregates == {"ingested", "proposed", "edited", "confirmed"}
Operations == {<<"ingested", "proposed">>, <<"ingested", "edited">>,
               <<"edited", "proposed">>, <<"proposed", "confirmed">>}

Symmetry == Permutations(Requests)
=============================================================================
