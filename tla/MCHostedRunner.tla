--------------------------- MODULE MCHostedRunner ---------------------------
(* Values for model-checking HostedRunner. *)
EXTENDS HostedRunner

AllKinds == {"run", "compile", "patch"}
=============================================================================
