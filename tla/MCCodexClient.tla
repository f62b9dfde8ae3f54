--------------------------- MODULE MCCodexClient ---------------------------
(* Values for model-checking CodexClient. *)
EXTENDS CodexClient, TLC
=============================================================================
