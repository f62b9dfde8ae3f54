---------------------------- MODULE SessionLedger ----------------------------
(***************************************************************************)
(* What storing a learner's session promises: the operations of all        *)
(* requests take effect one at a time, each on the content the one before  *)
(* it left, and the log names each that took effect once and in order.     *)
(***************************************************************************)
EXTENDS Naturals, Sequences

CONSTANTS
  Requests,  \* requests that perform one operation on the session
  Creator,   \* the request that created the session
  Contents,  \* what a session's aggregate may hold
  First,     \* what a new one holds
  Steps      \* the pairs <<before, after>> some operation allows

VARIABLES content, log

vars == <<content, log>>

Logged(r) == \E i \in 1..Len(log) : log[i] = r

Init == content = First /\ log = <<Creator>>

Perform(r) ==
  /\ ~Logged(r)
  /\ <<content, content'>> \in Steps
  /\ log' = Append(log, r)

Next == \E r \in Requests : Perform(r)

Spec == Init /\ [][Next]_vars
=============================================================================
