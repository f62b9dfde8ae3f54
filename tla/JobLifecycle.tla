---------------------------- MODULE JobLifecycle ----------------------------
(***************************************************************************)
(* What a runner job promises to everyone who reads it: its status follows *)
(* the transition table, its public events are only ever appended, it ends *)
(* once, and it ends with the evidence of why.  Nothing is said here of    *)
(* versions, claims, clocks or retries: those are how RunnerJob keeps the  *)
(* promise.                                                                *)
(***************************************************************************)
EXTENDS RunnerStatus, Naturals, Sequences

VARIABLES status, log, receipts

vars == <<status, log, receipts>>

Init == status = "QUEUED" /\ log = <<>> /\ receipts = {}

Open == status \notin Terminal

\* The job goes on.
Advance(to) ==
  /\ to \in Transitions[status] \cap Active
  /\ status' = to
  /\ UNCHANGED <<log, receipts>>

\* A public event becomes visible, with the next cursor.
Publish(source) ==
  /\ Open
  /\ log' = Append(log, source)
  /\ UNCHANGED <<status, receipts>>

\* The control plane gives the job up and says so in the log.
Fail ==
  /\ "FAILED" \in Transitions[status]
  /\ status' = "FAILED"
  /\ log' = Append(log, "failure")
  /\ UNCHANGED receipts

\* A callback that closes exactly the events published decides the outcome.
Settle(c) ==
  /\ c.status \in Transitions[status] \cap {"VERIFIED", "REJECTED", "FAILED"}
  /\ c.cursor = Len(log)
  /\ status' = c.status
  /\ receipts' = {c}
  /\ UNCHANGED log

\* Cancelled, or out of time.
Close(to) ==
  /\ to \in Transitions[status] \cap {"CANCELLED", "TIMED_OUT"}
  /\ status' = to
  /\ UNCHANGED <<log, receipts>>

Next ==
  \/ \E to \in Status : Advance(to) \/ Close(to)
  \/ \E source \in {"runner", "verifier"} : Publish(source)
  \/ Fail
  \/ \E c \in receipts' : Settle(c)

Spec == Init /\ [][Next]_vars
=============================================================================
