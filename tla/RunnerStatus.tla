---------------------------- MODULE RunnerStatus ----------------------------
(***************************************************************************)
(* The life of a runner job as packages/contracts states it: the statuses, *)
(* which of them are terminal, and the transition table every write of a   *)
(* job's status goes through (assertRunnerJobTransition).                  *)
(***************************************************************************)

Terminal == {"VERIFIED", "REJECTED", "FAILED", "CANCELLED", "TIMED_OUT"}

Active == {"QUEUED", "STARTING", "RUNNING", "AWAITING_APPROVAL", "REPAIRING"}

Status == Active \cup Terminal

\* The statuses a job may move to from each status.
Transitions ==
  [s \in Status |->
     CASE s = "QUEUED" -> {"STARTING", "FAILED", "CANCELLED", "TIMED_OUT"}
       [] s = "STARTING" -> {"RUNNING", "FAILED", "CANCELLED", "TIMED_OUT"}
       [] s = "RUNNING" -> {"AWAITING_APPROVAL", "REPAIRING"} \cup Terminal
       [] s \in {"AWAITING_APPROVAL", "REPAIRING"} -> {"RUNNING"} \cup Terminal
       [] OTHER -> {}]
=============================================================================
