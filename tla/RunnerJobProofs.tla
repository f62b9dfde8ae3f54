-------------------------- MODULE RunnerJobProofs --------------------------
(***************************************************************************)
(* Proofs about RunnerJob, for any number of requests, any callbacks and   *)
(* any time bounds.  The argument is the compare-and-swap: a staged write  *)
(* either was built from the row as it stands, and then continues that row *)
(* correctly (Successor), or will not commit (StagedFollows).              *)
(***************************************************************************)
EXTENDS RunnerJob, TLAPS

\* A row the schema accepts, and whose attempts are counted from the dispatch.
RowOK(j) ==
  /\ ValidJob(j)
  /\ j.status = "QUEUED" => j.attempt = 0

\* The write (next, event, receipt) is a correct continuation of the row.
Successor(next, event, receipt) ==
  /\ Open
  /\ RowOK(next)
  /\ next.version = job.version + 1
  /\ next.status = job.status \/ next.status \in Transitions[job.status]
  /\ next.cursor = IF event = "none" THEN job.cursor ELSE job.cursor + 1
  /\ event = "failure" <=> next.status = "FAILED" /\ receipt = None
  /\ event \in {"runner", "verifier"} => next.status = job.status
  /\ receipt = None => next.status \notin {"VERIFIED", "REJECTED"}
  /\ receipt # None =>
       /\ event = "none"
       /\ next.status = receipt.status /\ receipt.cursor = job.cursor
       /\ next.completed < Settlement(next)
  /\ next.status = "TIMED_OUT" => next.completed >= Deadline(next)

StagedFollows ==
  \A w \in staged :
    /\ w.base <= job.version
    /\ RowOK(w.next)
    /\ Fresh(w) => Successor(w.next, w.event, w.receipt)

IInv == TypeOK /\ RowOK(job) /\ StagedFollows /\ OutcomeIsExplained /\ SettledInTime

-----------------------------------------------------------------------------
(* The transition table *)

\* The table leads to statuses only, out of no terminal one, never back to
\* QUEUED, and to STARTING only from there.
LEMMA TableFacts ==
  /\ \A s \in Status : Transitions[s] \subseteq Status \ {"QUEUED"}
  /\ \A s \in Terminal : Transitions[s] = {}
  /\ \A s \in Status : "STARTING" \in Transitions[s] => s = "QUEUED"
BY DEF Status, Active, Terminal, Transitions

(* Well-typed rows and writes *)

\* Changing one field of a row within its type gives a row.
LEMMA FieldUpdates ==
  \A j \in Job :
    /\ \A x \in Status : [j EXCEPT !.status = x] \in Job
    /\ \A x \in Nat : /\ [j EXCEPT !.version = x] \in Job
                      /\ [j EXCEPT !.attempt = x] \in Job
                      /\ [j EXCEPT !.cursor = x] \in Job
                      /\ [j EXCEPT !.started = x] \in Job
                      /\ [j EXCEPT !.completed = x] \in Job
    /\ [j EXCEPT !.acked = TRUE] \in Job
    /\ \A x \in Claim \cup {None} : [j EXCEPT !.claim = x] \in Job
    /\ \A x \in Callback \cup {None} : [j EXCEPT !.recovery = x] \in Job
    /\ \A x \in WriteClaim \cup {None} : [j EXCEPT !.write = x] \in Job
<1> SUFFICES ASSUME NEW j \in Job
             PROVE  /\ \A x \in Status : [j EXCEPT !.status = x] \in Job
                    /\ \A x \in Nat : /\ [j EXCEPT !.version = x] \in Job
                                      /\ [j EXCEPT !.attempt = x] \in Job
                                      /\ [j EXCEPT !.cursor = x] \in Job
                                      /\ [j EXCEPT !.started = x] \in Job
                                      /\ [j EXCEPT !.completed = x] \in Job
                    /\ [j EXCEPT !.acked = TRUE] \in Job
                    /\ \A x \in Claim \cup {None} : [j EXCEPT !.claim = x] \in Job
                    /\ \A x \in Callback \cup {None} : [j EXCEPT !.recovery = x] \in Job
                    /\ \A x \in WriteClaim \cup {None} : [j EXCEPT !.write = x] \in Job
  OBVIOUS
<1>1. \A x \in Status : [j EXCEPT !.status = x] \in Job
  BY DEF Job
<1>2. \A x \in Nat : [j EXCEPT !.version = x] \in Job
  BY DEF Job
<1>3. \A x \in Nat : [j EXCEPT !.attempt = x] \in Job
  BY DEF Job
<1>4. \A x \in Nat : [j EXCEPT !.cursor = x] \in Job
  BY DEF Job
<1>5. \A x \in Nat : [j EXCEPT !.started = x] \in Job
  BY DEF Job
<1>6. \A x \in Nat : [j EXCEPT !.completed = x] \in Job
  BY DEF Job
<1>7. [j EXCEPT !.acked = TRUE] \in Job
  BY DEF Job
<1>8. \A x \in Claim \cup {None} : [j EXCEPT !.claim = x] \in Job
  BY DEF Job
<1>9. \A x \in Callback \cup {None} : [j EXCEPT !.recovery = x] \in Job
  BY DEF Job
<1>10. \A x \in WriteClaim \cup {None} : [j EXCEPT !.write = x] \in Job
  BY DEF Job
<1> QED
  BY <1>1, <1>2, <1>3, <1>4, <1>5, <1>6, <1>7, <1>8, <1>9, <1>10

\* A status move of a row is a row.
LEMMA MovedType ==
  ASSUME TypeOK, NEW to \in Status
  PROVE  Moved(to) \in Job
<1> DEFINE attempt == IF to \in {"STARTING", "REPAIRING"} THEN job.attempt + 1
                      ELSE job.attempt
           started == IF to = "STARTING" THEN now ELSE job.started
           completed == IF to \in Terminal THEN now ELSE job.completed
           claim == IF ClaimLapsed(job, now) THEN None ELSE job.claim
           recovery == IF ClaimLapsed(job, now) THEN job.claim.callback
                       ELSE job.recovery
           write == IF WriteLapsed(job, now) THEN None ELSE job.write
<1>1. job \in Job /\ now \in Nat
  BY DEF TypeOK
<1>2. attempt \in Nat /\ started \in Nat /\ completed \in Nat /\ job.version + 1 \in Nat
  BY <1>1 DEF Job
<1>3. claim \in Claim \cup {None} /\ write \in WriteClaim \cup {None}
  BY <1>1 DEF Job
<1>4. recovery \in Callback \cup {None}
  <2>1. ClaimLapsed(job, now) => job.claim \in Claim
    BY <1>1 DEF Job, ClaimLapsed
  <2> QED
    BY <1>1, <2>1 DEF Job, Claim
<1>5. Moved(to) = [job EXCEPT !.status = to, !.version = job.version + 1,
                     !.attempt = attempt, !.started = started,
                     !.completed = completed, !.claim = claim,
                     !.recovery = recovery, !.write = write]
  BY Zenon DEF Moved
<1> HIDE DEF attempt, started, completed, claim, recovery, write
<1>6. [job EXCEPT !.status = to, !.version = job.version + 1, !.attempt = attempt]
        \in Job
  BY <1>1, <1>2, FieldUpdates
<1>7. [job EXCEPT !.status = to, !.version = job.version + 1, !.attempt = attempt,
                  !.started = started, !.completed = completed] \in Job
  BY <1>2, <1>6, FieldUpdates
<1>8. [job EXCEPT !.status = to, !.version = job.version + 1, !.attempt = attempt,
                  !.started = started, !.completed = completed, !.claim = claim,
                  !.recovery = recovery] \in Job
  BY <1>3, <1>4, <1>7, FieldUpdates
<1> QED
  BY <1>3, <1>5, <1>8, FieldUpdates

\* Staging a well-typed write keeps the type invariant.
LEMMA StageType ==
  ASSUME TypeOK, NEW p \in Processes, NEW next \in Job,
         NEW event \in Sources \cup {"none"}, NEW receipt \in Callback \cup {None},
         NEW then \in Phases, Stage(p, next, event, receipt, then)
  PROVE  TypeOK'
<1>1. [by |-> p, base |-> job.version, next |-> next, event |-> event,
       receipt |-> receipt, then |-> then] \in Write
  BY DEF TypeOK, Job, Write
<1> QED
  BY <1>1 DEF TypeOK, Stage, requests

-----------------------------------------------------------------------------
(* Three kinds of steps *)

\* A request stages a write that continues the row it read.
SoundStage ==
  \E p \in Processes, next \in Job, event \in Sources \cup {"none"},
     receipt \in Callback \cup {None}, then \in Phases :
       Successor(next, event, receipt) /\ Stage(p, next, event, receipt, then)

\* Nothing stored changes, and staged writes are at most dropped.
Quiet ==
  /\ TypeOK'
  /\ UNCHANGED <<job, log, receipts>>
  /\ staged' \subseteq staged

\* A request that moves on without touching the row is a quiet step.
LEMMA GotoIsQuiet ==
  ASSUME TypeOK, NEW p \in Processes, NEW phase \in Phases, Goto(p, phase)
  PROVE  Quiet
BY DEF TypeOK, Goto, Quiet

\* A status move the table allows, other than to a callback's outcome, is a
\* correct continuation of the row.
LEMMA MovedFollows ==
  ASSUME TypeOK, RowOK(job), NEW to \in Status \ Outcomes, MayMove(to),
         to = "TIMED_OUT" => now >= Deadline(job),
         to = "REPAIRING" => job.attempt < MaxAttempts
  PROVE  Successor(Moved(to), "none", None)
<1>1. job \in Job /\ to \in Transitions[job.status] /\ job.status \in Status
  BY DEF TypeOK, Job, MayMove
<1>2. Open
  BY <1>1, TableFacts DEF Open
<1>3. /\ Moved(to).status = to /\ Moved(to).version = job.version + 1
      /\ Moved(to).cursor = job.cursor
  BY <1>1 DEF Moved, Job
<1>4. to = "TIMED_OUT" => Moved(to).completed >= Deadline(Moved(to))
  <2> SUFFICES ASSUME to = "TIMED_OUT"
               PROVE  Moved(to).completed >= Deadline(Moved(to))
    OBVIOUS
  <2>1. Moved(to).completed = now
    BY <1>1 DEF Moved, Job, Terminal
  <2>2. Moved(to).started = job.started
    BY <1>1 DEF Moved, Job
  <2> QED
    BY <2>1, <2>2 DEF Deadline
<1>5. RowOK(Moved(to))
  <2>1. to # "QUEUED"
    BY <1>1, TableFacts
  <2>2. Moved(to).attempt <= MaxAttempts
    <3>1. Moved(to).attempt = IF to \in {"STARTING", "REPAIRING"}
                              THEN job.attempt + 1 ELSE job.attempt
      BY <1>1 DEF Moved, Job
    <3>2. to = "STARTING" => job.attempt = 0
      BY <1>1, TableFacts DEF RowOK
    <3> QED
      BY <1>1, <3>1, <3>2, ConstantsOK DEF RowOK, ValidJob, Job
  <2>3. /\ Moved(to).claim = IF ClaimLapsed(job, now) THEN None ELSE job.claim
        /\ Moved(to).write = IF WriteLapsed(job, now) THEN None ELSE job.write
    BY <1>1 DEF Moved, Job
  <2>4. to \in Terminal => to \in {"CANCELLED", "TIMED_OUT"}
    BY DEF Terminal, Outcomes
  <2> QED
    BY <1>3, <2>1, <2>2, <2>3, <2>4 DEF RowOK, ValidJob, MayMove
<1> QED
  BY <1>1, <1>2, <1>3, <1>4, <1>5 DEF Successor, Outcomes

\* A status move that is staged is a sound stage.
LEMMA MovedStage ==
  ASSUME TypeOK, RowOK(job), NEW p \in Processes, NEW to \in Status \ Outcomes,
         MayMove(to), to = "TIMED_OUT" => now >= Deadline(job),
         to = "REPAIRING" => job.attempt < MaxAttempts, NEW then \in Phases,
         Stage(p, Moved(to), "none", None, then)
  PROVE  SoundStage
<1>1. Moved(to) \in Job
  BY MovedType
<1> QED
  BY <1>1, MovedFollows DEF SoundStage

\* An event appended to an open job is a sound stage.
LEMMA AppendStage ==
  ASSUME TypeOK, RowOK(job), NEW p \in Processes, Open,
         NEW event \in {"runner", "verifier"}, NEW then \in Phases,
         Stage(p, Appended, event, None, then)
  PROVE  SoundStage
<1>1. job \in Job /\ job.cursor + 1 \in Nat /\ job.version + 1 \in Nat
  BY DEF TypeOK, Job
<1>2. Appended \in Job
  BY <1>1, FieldUpdates DEF Appended
<1>3. /\ Appended.status = job.status /\ Appended.cursor = job.cursor + 1
      /\ Appended.version = job.version + 1 /\ Appended.attempt = job.attempt
      /\ Appended.claim = job.claim /\ Appended.write = job.write
  BY <1>1 DEF Appended, Job
<1>4. RowOK(Appended)
  BY <1>3 DEF RowOK, ValidJob
<1>5. Successor(Appended, event, None)
  BY <1>3, <1>4 DEF Successor, Open, Terminal
<1> QED
  BY <1>2, <1>5 DEF SoundStage, Sources

\* A write to nothing but the claims or the acknowledgement of an open job is a
\* sound stage, if it leaves at most one claim.
LEMMA TouchStage ==
  ASSUME TypeOK, RowOK(job), NEW p \in Processes, Open, NEW next \in Job,
         next.status = job.status, next.version = job.version + 1,
         next.cursor = job.cursor, next.attempt = job.attempt,
         next.claim = None \/ next.write = None, NEW then \in Phases,
         Stage(p, next, "none", None, then)
  PROVE  SoundStage
<1>1. RowOK(next)
  BY DEF RowOK, ValidJob, Open
<1>2. Successor(next, "none", None)
  BY <1>1 DEF Successor, Open, Terminal
<1> QED
  BY <1>2 DEF SoundStage

(* Every request takes only such steps: dispatch *)

\* A step of the dispatch is quiet or stages a sound write.
LEMMA DispatchKinds ==
  ASSUME TypeOK, RowOK(job), NEW h \in Handlers, DispatchStep(h)
  PROVE  SoundStage \/ Quiet
<1> h \in Processes /\ job \in Job
  BY DEF Processes, TypeOK
<1>1. CASE StartDispatch(h)
  BY <1>1, MovedStage DEF StartDispatch, Status, Active, Outcomes, Phases
<1>2. CASE AdmitDispatch(h)
  BY <1>2 DEF AdmitDispatch, Quiet, TypeOK, Job, Phases
<1>3. CASE NotAdmitted(h)
  BY <1>3, GotoIsQuiet DEF NotAdmitted, Phases
<1>4. CASE Dispatch(h)
  BY <1>4 DEF Dispatch, Quiet, TypeOK, Phases
<1>5. CASE Acknowledge(h)
  <2> DEFINE next == [job EXCEPT !.acked = TRUE, !.version = job.version + 1]
  <2>1. CASE Goto(h, "idle")
    BY <2>1, GotoIsQuiet DEF Phases
  <2>2. CASE job.status = "STARTING" /\ Stage(h, next, "none", None, "idle")
    <3>1. job.version + 1 \in Nat /\ Open
      BY <2>2 DEF Job, Open, Terminal
    <3>2. next \in Job
      BY <3>1, FieldUpdates
    <3>3. /\ next.status = job.status /\ next.version = job.version + 1
          /\ next.cursor = job.cursor /\ next.attempt = job.attempt
          /\ next.claim = job.claim /\ next.write = job.write
      BY DEF Job
    <3> HIDE DEF next
    <3> QED
      BY <2>2, <3>1, <3>2, <3>3, TouchStage DEF Phases, RowOK, ValidJob
  <2> QED
    BY <1>5, <2>1, <2>2 DEF Acknowledge
<1>6. CASE DispatchFails(h)
  BY <1>6 DEF DispatchFails, Quiet, TypeOK, Phases
<1>7. CASE FailJob(h)
  <2> DEFINE next == [Appended EXCEPT !.status = "FAILED", !.completed = now]
  <2>1. CASE Goto(h, "idle")
    BY <2>1, GotoIsQuiet DEF Phases
  <2>2. CASE /\ MayAppend /\ "FAILED" \in Transitions[job.status]
             /\ Stage(h, next, "failure", None, "idle")
    <3>1. Appended \in Job
      <4>1. job.cursor + 1 \in Nat /\ job.version + 1 \in Nat
        BY DEF Job
      <4> QED
        BY <4>1, FieldUpdates DEF Appended
    <3>2. now \in Nat /\ "FAILED" \in Status
      BY DEF TypeOK, Status, Terminal
    <3>3. next \in Job
      BY <3>1, <3>2, FieldUpdates
    <3>4. /\ next.status = "FAILED" /\ next.version = job.version + 1
          /\ next.cursor = job.cursor + 1 /\ next.attempt = job.attempt
          /\ next.claim = job.claim /\ next.write = job.write
      BY DEF Job, Appended
    <3> HIDE DEF next
    <3>5. RowOK(next)
      BY <2>2, <3>4 DEF RowOK, ValidJob, MayAppend
    <3>6. Successor(next, "failure", None)
      BY <2>2, <3>4, <3>5 DEF Successor, MayAppend
    <3> QED
      BY <2>2, <3>3, <3>6 DEF SoundStage, Sources, Phases
  <2> QED
    BY <1>7, <2>1, <2>2 DEF FailJob
<1> QED
  BY <1>1, <1>2, <1>3, <1>4, <1>5, <1>6, <1>7 DEF DispatchStep

(* ... the runner's other requests, cancellation and polls *)

\* A step of any request that is no delivery or upload is quiet or stages a
\* sound write.
LEMMA HandlerKinds ==
  ASSUME TypeOK, RowOK(job), NEW h \in Handlers, HandlerStep(h)
  PROVE  SoundStage \/ Quiet
<1> h \in Processes /\ {"idle", "rejected"} \subseteq Phases
  BY DEF Processes, Phases
<1> {"RUNNING", "REPAIRING", "CANCELLED", "TIMED_OUT"} \subseteq Status \ Outcomes
  BY DEF Status, Active, Terminal, Outcomes
<1>1. CASE DispatchStep(h)
  BY <1>1, DispatchKinds
<1>2. CASE Start(h)
  BY <1>2, MovedStage DEF Start
<1>3. CASE RunnerEvent(h)
  BY <1>3, AppendStage DEF RunnerEvent, MayAppend
<1>4. CASE JudgeCandidate(h)
  BY <1>4, AppendStage DEF JudgeCandidate, MayAppend
<1>5. CASE RequestRepair(h)
  BY <1>5, MovedStage, GotoIsQuiet DEF RequestRepair
<1>6. CASE Resume(h)
  BY <1>6, MovedStage DEF Resume
<1>7. CASE Cancel(h)
  BY <1>7, MovedStage DEF Cancel
<1>8. CASE Expire(h)
  BY <1>8, MovedStage DEF Expire
<1> QED
  BY <1>1, <1>2, <1>3, <1>4, <1>5, <1>6, <1>7, <1>8 DEF HandlerStep

\* A request that dies drops its staged write.
LEMMA CrashIsQuiet ==
  ASSUME TypeOK, NEW p \in Processes, Crash(p)
  PROVE  Quiet
BY DEF TypeOK, Crash, Quiet, Phases

(* ... uploads *)

\* A step of an output upload is quiet or stages a sound write.
LEMMA UploadKinds ==
  ASSUME TypeOK, RowOK(job), NEW u \in Uploads, UploadStep(u)
  PROVE  SoundStage \/ Quiet
<1> u \in Processes /\ job \in Job /\ now \in Nat
  BY DEF Processes, TypeOK
<1> {"refused", "writing", "releasing", "released"} \subseteq Phases
  BY DEF Phases
<1>1. CASE ClaimWrite(u)
  <2> DEFINE claim == [owner |-> u, at |-> now]
             next == [job EXCEPT !.write = claim, !.version = job.version + 1]
  <2>1. CASE MayClaimWrite /\ Stage(u, next, "none", None, "writing")
    <3>1. claim \in WriteClaim /\ job.version + 1 \in Nat
      BY DEF WriteClaim, Job
    <3>2. next \in Job
      BY <3>1, FieldUpdates
    <3>3. /\ next.status = job.status /\ next.version = job.version + 1
          /\ next.cursor = job.cursor /\ next.attempt = job.attempt
          /\ next.claim = job.claim
      BY DEF Job
    <3> HIDE DEF next
    <3> QED
      BY <2>1, <3>2, <3>3, TouchStage DEF MayClaimWrite, Open, Terminal
  <2> QED
    BY <1>1, <2>1, GotoIsQuiet DEF ClaimWrite
<1>2. CASE FinishWrite(u)
  BY <1>2, GotoIsQuiet DEF FinishWrite
<1>3. CASE ReleaseWrite(u)
  <2> DEFINE next == [job EXCEPT !.write = None, !.version = job.version + 1]
  <2>1. CASE job.write # None /\ Stage(u, next, "none", None, "released")
    <3>1. Open
      BY <2>1 DEF RowOK, ValidJob, Open
    <3>2. next \in Job
      <4>1. job.version + 1 \in Nat
        BY DEF Job
      <4> QED
        BY <4>1, FieldUpdates
    <3>3. /\ next.status = job.status /\ next.version = job.version + 1
          /\ next.cursor = job.cursor /\ next.attempt = job.attempt
          /\ next.write = None
      BY DEF Job
    <3> HIDE DEF next
    <3> QED
      BY <2>1, <3>1, <3>2, <3>3, TouchStage
  <2> QED
    BY <1>3, <2>1, GotoIsQuiet DEF ReleaseWrite
<1>4. CASE Crash(u)
  BY <1>4, CrashIsQuiet
<1> QED
  BY <1>1, <1>2, <1>3, <1>4 DEF UploadStep

(* ... callback deliveries *)

\* The callback a delivery carries is a callback.
LEMMA RequestType ==
  ASSUME TypeOK, NEW d \in Deliveries
  PROVE  request[d] \in Callback
BY ConstantsOK DEF TypeOK

\* The outcome recorded for a callback is a callback.
LEMMA VerdictType ==
  ASSUME TypeOK, NEW d \in Deliveries, NEW t \in Verdicts(d)
  PROVE  t \in Callback
<1> DEFINE c == request[d]
           closed == [c EXCEPT !.cursor = @ + AuthorityEvents]
<1>1. c \in Callback
  BY RequestType
<1>2. closed \in Callback
  BY <1>1, ConstantsOK DEF Callback
<1>3. \A x \in Callback : Withheld(x) \in Callback
  <2> SUFFICES ASSUME NEW x \in Callback PROVE Withheld(x) \in Callback
    OBVIOUS
  <2>1. [x EXCEPT !.status = "REJECTED"] \in Callback
    BY DEF Callback, Outcomes
  <2>2. \A y \in Callback : [y EXCEPT !.error = "worker"] \in Callback
    BY DEF Callback
  <2> QED
    BY <2>1, <2>2 DEF Withheld
<1> HIDE DEF closed
<1> QED
  BY <1>1, <1>2, <1>3, Zenon DEF Verdicts, closed

\* A step of a callback delivery is quiet or stages a sound write.
LEMMA DeliveryKinds ==
  ASSUME TypeOK, RowOK(job), NEW d \in Deliveries, DeliveryStep(d)
  PROVE  SoundStage \/ Quiet
<1> d \in Processes /\ job \in Job /\ now \in Nat /\ job.version + 1 \in Nat
  BY DEF Processes, TypeOK, Job
<1> {"claimed", "verifying", "appending", "recorded", "overruled", "reverifying",
     "duplicate", "conflict", "refused", "releasing", "released"} \subseteq Phases
  BY DEF Phases
<1>1. CASE Duplicate(d)
  BY <1>1, GotoIsQuiet DEF Duplicate
<1>2. CASE ClaimCallback(d)
  <2> DEFINE claim == [callback |-> request[d], owner |-> d, at |-> now]
             next == [job EXCEPT !.claim = claim, !.recovery = None, !.write = None,
                                 !.version = job.version + 1]
  <2>1. CASE MayClaim(request[d]) /\ \E then \in {"claimed", "verifying"} :
                                       Stage(d, next, "none", None, then)
    <3>1. claim \in Claim
      BY RequestType DEF Claim
    <3>2. next \in Job
      BY <3>1, FieldUpdates
    <3>3. /\ next.status = job.status /\ next.version = job.version + 1
          /\ next.cursor = job.cursor /\ next.attempt = job.attempt
          /\ next.write = None
      BY DEF Job
    <3>4. Open
      BY <2>1, TableFacts DEF MayClaim, MayComplete, Open, Job
    <3> HIDE DEF next
    <3> QED
      BY <2>1, <3>2, <3>3, <3>4, TouchStage
  <2>2. CASE \E then \in {"conflict", "refused"} : Goto(d, then)
    BY <2>2, GotoIsQuiet
  <2> QED
    BY <1>2, <2>1, <2>2 DEF ClaimCallback
<1>3. CASE CloseBoundary(d)
  BY <1>3, MovedStage DEF CloseBoundary, Status, Active, Outcomes
<1>4. CASE AppendAuthority(d)
  BY <1>4, AppendStage DEF AppendAuthority
<1>9. CASE FindReceipt(d, "recorded", "overruled")
  BY <1>9, GotoIsQuiet DEF FindReceipt
<1>10. CASE VerifyAgain(d)
  BY <1>10, GotoIsQuiet DEF VerifyAgain, FindReceipt
<1>5. CASE RecordCallback(d) /\ ~FindReceipt(d, "recorded", "overruled")
  <2>1. PICK t \in Verdicts(d) :
          /\ t.cursor = job.cursor /\ t.status \in Transitions[job.status]
          /\ Stage(d, [job EXCEPT !.status = t.status, !.completed = now,
                                  !.claim = None, !.recovery = None,
                                  !.version = job.version + 1], "none", t, "recorded")
    BY <1>5 DEF RecordCallback
  <2> DEFINE next == [job EXCEPT !.status = t.status, !.completed = now,
                                 !.claim = None, !.recovery = None,
                                 !.version = job.version + 1]
  <2>2. t \in Callback /\ t.status \in Outcomes /\ t.status \in Status
    BY VerdictType DEF Callback, Outcomes, Status, Terminal
  <2>3. next \in Job
    <3>1. [job EXCEPT !.status = t.status, !.completed = now] \in Job
      BY <2>2, FieldUpdates
    <3>2. [job EXCEPT !.status = t.status, !.completed = now, !.claim = None] \in Job
      BY <3>1, FieldUpdates
    <3> QED
      BY <3>2, FieldUpdates
  <2>4. /\ next.status = t.status /\ next.version = job.version + 1
        /\ next.cursor = job.cursor /\ next.attempt = job.attempt
        /\ next.completed = now /\ next.started = job.started
        /\ next.claim = None /\ next.write = job.write
    BY DEF Job
  <2> HIDE DEF next
  <2>5. job.write = None
    BY <1>5 DEF RecordCallback, Owns, RowOK, ValidJob
  <2>6. Open
    BY <2>1, TableFacts DEF Open, Job
  <2>7. RowOK(next)
    BY <2>2, <2>4, <2>5 DEF RowOK, ValidJob, Outcomes
  <2>8. next.completed < Settlement(next)
    BY <1>5, <2>4 DEF RecordCallback, Settlement, Deadline
  <2>9. Successor(next, "none", t)
    BY <2>1, <2>2, <2>4, <2>6, <2>7, <2>8, ConstantsOK DEF Successor, Outcomes
  <2> QED
    BY <2>1, <2>2, <2>3, <2>9 DEF SoundStage, next
<1>6. CASE FailDelivery(d)
  BY <1>6, GotoIsQuiet DEF FailDelivery
<1>7. CASE ReleaseClaim(d)
  <2> DEFINE next == [job EXCEPT !.recovery = job.claim.callback, !.claim = None,
                                 !.version = job.version + 1]
  <2>1. CASE job.claim # None /\ Stage(d, next, "none", None, "released")
    <3>1. Open
      BY <2>1 DEF RowOK, ValidJob, Open
    <3>2. job.claim.callback \in Callback
      BY <2>1 DEF Job, Claim
    <3>3. next \in Job
      BY <3>2, FieldUpdates
    <3>4. /\ next.status = job.status /\ next.version = job.version + 1
          /\ next.cursor = job.cursor /\ next.attempt = job.attempt
          /\ next.claim = None
      BY DEF Job
    <3> HIDE DEF next
    <3> QED
      BY <2>1, <3>1, <3>3, <3>4, TouchStage
  <2> QED
    BY <1>7, <2>1, GotoIsQuiet DEF ReleaseClaim
<1>8. CASE Crash(d)
  BY <1>8, CrashIsQuiet
<1> QED
  BY <1>1, <1>2, <1>3, <1>4, <1>5, <1>6, <1>7, <1>8, <1>9, <1>10 DEF DeliveryStep

\* Every step stages a sound write, commits one, or is quiet.
LEMMA StepKinds ==
  ASSUME TypeOK, RowOK(job), [Next]_vars
  PROVE  SoundStage \/ Quiet \/ \E w \in staged : Commit(w)
<1>1. CASE UNCHANGED vars
  BY <1>1 DEF vars, Quiet, TypeOK
<1>2. CASE Tick
  BY <1>2 DEF Tick, Quiet, TypeOK, requests
<1>3. ASSUME NEW w \in staged, Conflict(w) PROVE Quiet
  <2>1. AfterConflict \in [Phases -> Phases]
    BY DEF AfterConflict, Phases
  <2>2. staged' \subseteq staged /\ UNCHANGED <<job, log, receipts>>
    BY <1>3 DEF Conflict
  <2>3. pc' \in [Processes -> Phases] /\ seen' \in [Processes -> Nat]
    BY <1>3, <2>1 DEF Conflict, TypeOK
  <2>4. TypeOK'
    BY <1>3, <2>2, <2>3 DEF Conflict, TypeOK
  <2> QED
    BY <2>2, <2>4 DEF Quiet
<1> QED
  BY <1>1, <1>2, <1>3, HandlerKinds, UploadKinds, DeliveryKinds DEF Next

-----------------------------------------------------------------------------
(* The invariant *)

\* A freshly created job satisfies the invariant.
LEMMA InitInv == Init => IInv
<1> SUFFICES ASSUME Init PROVE IInv
  OBVIOUS
<1>1. job \in Job /\ RowOK(job)
  BY ConstantsOK DEF Init, Job, Status, Active, RowOK, ValidJob, Terminal
<1>2. pc \in [Processes -> Phases] /\ seen \in [Processes -> Nat]
  BY DEF Init, Phases
<1>3. log \in Seq(Sources) /\ receipts \subseteq Callback /\ staged \subseteq Write
  BY DEF Init
<1>4. TypeOK
  BY <1>1, <1>2, <1>3 DEF Init, TypeOK
<1> QED
  BY <1>1, <1>4 DEF Init, IInv, StagedFollows, OutcomeIsExplained, SettledInTime

\* A commit writes a well-typed successor of the row it replaces.
LEMMA CommitFollows ==
  ASSUME IInv, NEW w \in staged, Commit(w)
  PROVE  /\ w \in Write /\ RowOK(w.next) /\ Successor(w.next, w.event, w.receipt)
         /\ TypeOK'
<1>1. w \in Write /\ RowOK(w.next) /\ Successor(w.next, w.event, w.receipt)
  BY DEF IInv, TypeOK, StagedFollows, Commit
<1>2. log' \in Seq(Sources) /\ receipts' \subseteq Callback
  BY <1>1 DEF Commit, IInv, TypeOK, Write
<1>3. pc' \in [Processes -> Phases] /\ seen' \in [Processes -> Nat]
  BY <1>1 DEF Commit, IInv, TypeOK, Write, Job
<1>4. job' \in Job /\ staged' \subseteq Write
  BY <1>1 DEF Commit, IInv, TypeOK, Write
<1> QED
  BY <1>1, <1>2, <1>3, <1>4 DEF Commit, IInv, TypeOK

\* An open job has no receipt.
LEMMA OpenHasNoReceipt ==
  ASSUME TypeOK, OutcomeIsExplained, Open
  PROVE  receipts = {}
BY DEF TypeOK, OutcomeIsExplained, Open, Callback, Outcomes, Terminal

\* Staging a sound write keeps the invariant.
LEMMA StagePreserves ==
  ASSUME IInv, SoundStage
  PROVE  IInv'
<1> PICK p \in Processes, next \in Job, event \in Sources \cup {"none"},
         receipt \in Callback \cup {None}, then \in Phases :
         Successor(next, event, receipt) /\ Stage(p, next, event, receipt, then)
  BY DEF SoundStage
<1>1. TypeOK'
  BY StageType DEF IInv
<1>2. UNCHANGED <<job, log, receipts>>
  BY DEF Stage
<1>3. StagedFollows'
  <2> SUFFICES ASSUME NEW w \in staged'
               PROVE  /\ w.base <= job.version
                      /\ RowOK(w.next)
                      /\ Fresh(w) => Successor(w.next, w.event, w.receipt)
    BY <1>2 DEF StagedFollows, Fresh, Successor, Open, Settlement, Deadline
  <2>1. CASE w \in staged
    BY <2>1 DEF IInv, StagedFollows
  <2>2. CASE w = [by |-> p, base |-> job.version, next |-> next, event |-> event,
                  receipt |-> receipt, then |-> then]
    BY <2>2 DEF Successor, IInv, TypeOK, Job
  <2> QED
    BY <2>1, <2>2 DEF Stage
<1> QED
  BY <1>1, <1>2, <1>3
     DEF IInv, RowOK, ValidJob, OutcomeIsExplained, SettledInTime, Settlement, Deadline

\* A step that touches neither row, events, receipt nor staged writes, other
\* than by dropping some, keeps the invariant.
LEMMA QuietPreserves ==
  ASSUME IInv, Quiet
  PROVE  IInv'
<1>1. StagedFollows'
  BY DEF IInv, StagedFollows, Quiet, Fresh, Successor, Open, Settlement, Deadline
<1> QED
  BY <1>1 DEF IInv, Quiet, RowOK, ValidJob, OutcomeIsExplained, SettledInTime,
              Settlement, Deadline

\* A committed write keeps the invariant: every other staged write was built
\* from an older version and can no longer commit.
LEMMA CommitPreserves ==
  ASSUME IInv, NEW w \in staged, Commit(w)
  PROVE  IInv'
<1>1. /\ w \in Write /\ RowOK(w.next) /\ Successor(w.next, w.event, w.receipt)
      /\ TypeOK'
  BY CommitFollows
<1>2. job' = w.next /\ RowOK(job)' /\ receipts = {} /\ job.cursor = Len(log)
  BY <1>1, OpenHasNoReceipt DEF Commit, IInv, Successor, OutcomeIsExplained
<1>3. StagedFollows'
  <2> SUFFICES ASSUME NEW x \in staged'
               PROVE  /\ x.base <= job'.version /\ x.base # job'.version
                      /\ RowOK(x.next)
    BY DEF StagedFollows, Fresh
  <2>1. x.base <= job.version /\ RowOK(x.next) /\ x \in Write
    BY DEF Commit, IInv, StagedFollows, TypeOK
  <2>2. job'.version = job.version + 1
    BY <1>1, <1>2 DEF Successor
  <2> QED
    BY <2>1, <2>2 DEF IInv, TypeOK, Job, Write
<1>4. OutcomeIsExplained'
  <2>1. log' = IF w.event = "none" THEN log ELSE Append(log, w.event)
    BY DEF Commit
  <2>2. job'.cursor = Len(log')
    BY <1>1, <1>2, <2>1 DEF Successor, IInv, TypeOK, Write
  <2>3. \A r \in receipts' : receipts' = {r} /\ job'.status = r.status
                             /\ r.cursor = Len(log')
    BY <1>1, <1>2, <2>1 DEF Commit, Successor
  <2>4. job'.status \in {"VERIFIED", "REJECTED"} => receipts' # {}
    BY <1>1, <1>2 DEF Commit, Successor
  <2>5. job'.status = "FAILED" /\ receipts' = {} =>
          log' # <<>> /\ log'[Len(log')] = "failure"
    <3> SUFFICES ASSUME job'.status = "FAILED", receipts' = {}
                 PROVE  log' # <<>> /\ log'[Len(log')] = "failure"
      OBVIOUS
    <3>1. w.receipt = None
      BY <1>1 DEF Commit
    <3>2. w.event = "failure"
      BY <1>1, <1>2, <3>1 DEF Successor
    <3>3. log \in Seq(Sources) /\ log' = Append(log, "failure")
      BY <2>1, <3>2 DEF IInv, TypeOK
    <3> QED
      BY <3>3 DEF Sources
  <2> QED
    BY <2>2, <2>3, <2>4, <2>5 DEF OutcomeIsExplained
<1>5. SettledInTime'
  <2>1. receipts' # {} => w.receipt # None
    BY <1>2 DEF Commit
  <2> QED
    BY <1>1, <1>2, <2>1 DEF SettledInTime, Successor, Settlement, Deadline
<1> QED
  BY <1>1, <1>2, <1>3, <1>4, <1>5 DEF IInv

\* Every step keeps the invariant.
LEMMA NextPreserves == IInv /\ [Next]_vars => IInv'
BY StepKinds, StagePreserves, QuietPreserves, CommitPreserves DEF IInv

\* The row, the staged writes, the events and the receipt of every reachable
\* state satisfy the inductive invariant the other theorems rest on.
THEOREM Invariance == Spec => []IInv
BY InitInv, NextPreserves, PTL DEF Spec

-----------------------------------------------------------------------------
(* The theorems *)

\* Every reachable state is well typed: rows, staged writes, receipts, phases.
THEOREM TypeCorrect == Spec => []TypeOK
BY Invariance, PTL DEF IInv

\* Operations never build a row the schema rejects, for any interleaving of any
\* number of requests.
THEOREM SchemaCorrect == Spec => []SchemaHolds
<1>1. IInv => SchemaHolds
  BY DEF IInv, StagedFollows, RowOK, SchemaHolds
<1> QED
  BY <1>1, Invariance, PTL

\* The row, the events and the receipt agree on how a job ended.
THEOREM OutcomeCorrect == Spec => []OutcomeIsExplained
BY Invariance, PTL DEF IInv

\* Callbacks decide before the settlement deadline, timeouts after the deadline.
THEOREM SettlementCorrect == Spec => []SettledInTime
BY Invariance, PTL DEF IInv

\* No step changes a terminal job, its events or its receipt.
THEOREM TerminalCorrect == Spec => TerminalIsFinal
<1>1. ASSUME IInv, [Next]_vars, ~Open
      PROVE  UNCHANGED <<job, log, receipts>>
  <2>1. CASE SoundStage
    BY <2>1, <1>1 DEF SoundStage, Successor
  <2>2. CASE Quiet
    BY <2>2 DEF Quiet
  <2>3. CASE \E w \in staged : Commit(w)
    BY <2>3, <1>1, CommitFollows DEF Successor
  <2> QED
    BY <1>1, <2>1, <2>2, <2>3, StepKinds DEF IInv
<1>2. IInv /\ [Next]_vars => [~Open => UNCHANGED <<job, log, receipts>>]_vars
  BY <1>1
<1> QED
  BY <1>2, Invariance, PTL DEF Spec, TerminalIsFinal

-----------------------------------------------------------------------------
(* The job keeps its promise *)

\* The promise and the code use the same table.
LEMMA SameTable ==
  /\ Lifecycle!Transitions = Transitions /\ Lifecycle!Active = Active
  /\ Lifecycle!Terminal = Terminal /\ Lifecycle!Status = Status
BY DEF Lifecycle!Transitions, Transitions, Lifecycle!Active, Active,
       Lifecycle!Terminal, Terminal, Lifecycle!Status, Status

\* A freshly created job starts as the promise says.
LEMMA InitPromise == Init => Lifecycle!Init
BY DEF Init, Lifecycle!Init

\* A commit is one step of the promise: it advances the status, publishes an
\* event, fails, settles or closes the job, or changes nothing a reader sees.
LEMMA CommitPromise ==
  ASSUME IInv, NEW w \in staged, Commit(w)
  PROVE  [Lifecycle!Next]_(Lifecycle!vars)
<1>1. /\ Successor(w.next, w.event, w.receipt) /\ w \in Write
      /\ job' = w.next /\ receipts = {} /\ job.cursor = Len(log)
  BY CommitFollows, OpenHasNoReceipt DEF Commit, IInv, Successor, OutcomeIsExplained
<1>2. /\ log' = IF w.event = "none" THEN log ELSE Append(log, w.event)
      /\ receipts' = {w.receipt} \ {None}
  BY <1>1 DEF Commit
<1>3. w.event \in {"none", "runner", "verifier", "failure"}
  BY <1>1 DEF Write, Sources
<1>4. job.status \in Status /\ job'.status \in Status
  BY <1>1 DEF IInv, TypeOK, Job, Write
<1>5. CASE w.receipt # None
  <2>1. w.receipt \in Callback /\ receipts' = {w.receipt} /\ log' = log
    BY <1>1, <1>2, <1>5 DEF Write, Successor
  <2>2. job'.status = w.receipt.status /\ w.receipt.status \in Transitions[job.status]
    BY <1>1, <1>5, <2>1 DEF Successor, Callback, Outcomes, Open, Terminal
  <2>3. Lifecycle!Settle(w.receipt)
    BY <1>1, <1>5, <2>1, <2>2, SameTable DEF Successor, Callback, Outcomes, Lifecycle!Settle
  <2> QED
    BY <2>1, <2>3 DEF Lifecycle!Next
<1>6. CASE w.receipt = None /\ w.event \in {"runner", "verifier"}
  <2>1. Lifecycle!Publish(w.event)
    BY <1>1, <1>2, <1>6, SameTable DEF Successor, Open, Lifecycle!Publish, Lifecycle!Open
  <2> QED
    BY <1>6, <2>1 DEF Lifecycle!Next
<1>7. CASE w.receipt = None /\ w.event = "failure"
  BY <1>1, <1>2, <1>7, SameTable DEF Successor, Open, Terminal, Lifecycle!Next, Lifecycle!Fail
<1>8. CASE w.receipt = None /\ w.event = "none"
  <2>1. UNCHANGED <<log, receipts>>
    BY <1>1, <1>2, <1>8
  <2>2. CASE job'.status = job.status
    BY <2>1, <2>2 DEF Lifecycle!vars
  <2>3. CASE job'.status \in Transitions[job.status] \cap Active
    BY <1>4, <2>1, <2>3, SameTable DEF Lifecycle!Next, Lifecycle!Advance
  <2>4. CASE job'.status \in Transitions[job.status] \cap Terminal
    <3>1. job'.status \in {"CANCELLED", "TIMED_OUT"}
      BY <1>1, <1>8, <2>4 DEF Successor, Terminal
    <3> QED
      BY <1>4, <2>1, <2>4, <3>1, SameTable DEF Lifecycle!Next, Lifecycle!Close
  <2> QED
    BY <1>1, <1>4, <2>2, <2>3, <2>4 DEF Successor, Status
<1> QED
  BY <1>3, <1>5, <1>6, <1>7, <1>8

\* Every behaviour of the control plane's code is one the promise allows.
THEOREM PromiseKept == Spec => KeepsPromise
<1>1. ASSUME IInv, [Next]_vars PROVE [Lifecycle!Next]_(Lifecycle!vars)
  <2>1. CASE SoundStage
    BY <2>1 DEF SoundStage, Stage, Lifecycle!vars
  <2>2. CASE Quiet
    BY <2>2 DEF Quiet, Lifecycle!vars
  <2> QED
    BY <1>1, <2>1, <2>2, CommitPromise, StepKinds DEF IInv
<1> QED
  BY <1>1, InitPromise, Invariance, PTL DEF Spec, KeepsPromise, Lifecycle!Spec

-----------------------------------------------------------------------------
(***************************************************************************)
(* The fences.  What each kind of write may do to claims, events and       *)
(* answers was decided when it was staged; that still holds when it        *)
(* commits (FencesHold), because a write commits only on the row it was    *)
(* built from, and a lapsed claim stays lapsed.                            *)
(***************************************************************************)

\* A verdict VERIFIED closes the events of some callback and, directly after
\* them, the Worker's own.
Witnessed(r) ==
  \E c \in Callbacks :
    /\ c.status = "VERIFIED" /\ r.cursor = c.cursor + AuthorityEvents
    /\ \A i \in (c.cursor + 1)..Len(log) : log[i] = "verifier"

\* A claim is for a callback whose events are all published.
ClaimKnown(j) ==
  j.claim # None =>
    j.claim.callback \in Callbacks /\ j.claim.callback.cursor <= j.cursor

\* A claim that was not completed, taken by now or before, could be taken again.
Retriable(j) ==
  \A c \in {IF j.claim # None THEN j.claim.callback ELSE j.recovery} \ {None} :
    j.status \notin Terminal =>
      c \in Callback /\ c.status \in Transitions[j.status] /\ c.cursor <= j.cursor

\* The row next leaves the callback that settles the job in its place.
KeepsSettling(next) ==
  LET then == IF next.claim # None THEN next.claim.callback ELSE next.recovery
  IN \/ Settling = None \/ then = Settling \/ next.status \in Terminal
     \/ job.claim = None /\ next.claim # None

\* Once a delivery has taken a claim it stays in these phases.
ClaimPhases == {"claimed", "verifying", "appending", "recorded", "overruled", "releasing",
                "released", "crashed"}

\* The request p may write (next, event, receipt) over the row as it stands, and
\* go on to the phase then.
Allowed(p, next, event, receipt, then) ==
  /\ event # "none" => job.write = None
  /\ event # "none" /\ job.claim # None =>
       event = "verifier" /\ then = "appending" /\ p = job.claim.owner
  /\ job.claim # None /\ (next.claim # job.claim \/ next.status \in Terminal) =>
       \/ ClaimLapsed(job, now)
       \/ p = job.claim.owner /\ pc[p] # then
  /\ next.claim \notin {None, job.claim} /\ next.claim.at >= Deadline(job) =>
       \/ job.recovery = next.claim.callback
       \/ job.claim # None /\ job.claim.callback = next.claim.callback
  /\ event = "failure" => job.status = "STARTING" /\ ~job.acked /\ job.claim = None
  /\ then = "starting" => next.status = "STARTING" /\ ~next.acked
  /\ next.status = "QUEUED" => ~next.acked
  /\ receipt # None => p \in Deliveries /\ SharesOrigin(receipt, request[p])
  /\ then = "recorded" => receipt # None
  /\ then = "rejected" => Repairs
  /\ ClaimKnown(next) /\ Retriable(next) /\ KeepsSettling(next)
  /\ event = "verifier" =>
       Repairs \/ (job.claim # None /\ job.claim.callback.status = "VERIFIED")
  /\ receipt # None /\ receipt.status = "VERIFIED" => Witnessed(receipt)
  /\ then \notin {"duplicate", "conflict", "overruled", "admitted", "dispatched", "failing"}
  /\ p \in Deliveries => then \in ClaimPhases
  /\ next.claim \notin {None, job.claim} =>
       p \in Deliveries /\ next.claim.owner = p /\ next.claim.callback = request[p]

FencesHold ==
  \A w \in staged :
    Fresh(w) => Allowed(w.by, w.next, w.event, w.receipt, w.then)

OneWriteEach == \A v, w \in staged : v.by = w.by => v = w

\* A dispatch whose version is the row's has a job nobody moved on.
SeenIsCurrent ==
  \A p \in Processes :
    /\ seen[p] <= job.version
    /\ pc[p] \in {"starting", "admitted", "dispatched", "failing"} /\ seen[p] = job.version =>
         job.status = "STARTING" /\ ~job.acked

ReceiptsHaveOrigin ==
  \A r \in receipts : \E d \in Deliveries : SharesOrigin(r, request[d])

ReceiptsAreWitnessed ==
  \A r \in receipts : r.status = "VERIFIED" => Witnessed(r)

\* A claim that stands in the row was taken by its owner, for its own callback.
ClaimIsOwners ==
  job.claim # None =>
    HasClaimed(job.claim.owner) /\ request[job.claim.owner] = job.claim.callback

\* A delivery with a write staged is in one of the phases that stage one.
Staging == {"sent", "claimed", "verifying", "appending", "releasing"}

WritersWait == \A w \in staged : w.by \in Deliveries => pc[w.by] \in Staging

OnlyRepairsReject == \A p \in Processes : pc[p] = "rejected" => Repairs

FInv ==
  /\ FencesHold /\ OneWriteEach /\ WritersWait /\ SeenIsCurrent /\ ReceiptsHaveOrigin /\ AnswersAreTrue
  /\ ReceiptsAreWitnessed /\ OnlyRepairsReject /\ ClaimKnown(job)
  /\ Retriable(job) /\ ClaimIsOwners
  /\ job.status = "QUEUED" => ~job.acked

-----------------------------------------------------------------------------
(* The steps *)

\* A request that has nothing staged stages a write it is allowed.
AllowedStage ==
  \E p \in Processes, next \in Job, event \in Sources \cup {"none"},
     receipt \in Callback \cup {None}, then \in Phases :
       /\ ~Busy(p) /\ (p \in Deliveries => pc[p] \in Staging)
       /\ Allowed(p, next, event, receipt, then)
       /\ Stage(p, next, event, receipt, then)

\* Nothing stored changes, and a delivery whose write is staged stays where it is.
Still ==
  /\ UNCHANGED <<job, log, receipts, request>>
  /\ now' \in Nat /\ now' >= now
  /\ staged' \subseteq staged
  /\ \A w \in staged' : w.by \in Deliveries => pc'[w.by] = pc[w.by]
  /\ SeenIsCurrent' /\ AnswersAreTrue' /\ OnlyRepairsReject' /\ ClaimIsOwners'

\* A lapsed claim stays lapsed.
LEMMA LapsedStays ==
  ASSUME TypeOK, now' \in Nat, now' >= now, ClaimLapsed(job, now)
  PROVE  ClaimLapsed(job, now')
<1>1. /\ job.claim.at \in Nat /\ Deadline(job) \in Nat /\ Settlement(job) \in Nat
      /\ now \in Nat /\ ClaimTTL \in Nat
  BY ConstantsOK DEF TypeOK, Job, Claim, ClaimLapsed, Deadline, Settlement
<1> QED BY <1>1 DEF ClaimLapsed

\* Staging a write that is allowed keeps the fences.
LEMMA StageKeepsFences ==
  ASSUME IInv, FInv, AllowedStage
  PROVE  FInv'
<1> PICK p \in Processes, next \in Job, event \in Sources \cup {"none"},
         receipt \in Callback \cup {None}, then \in Phases :
           /\ ~Busy(p) /\ (p \in Deliveries => pc[p] \in Staging)
           /\ Allowed(p, next, event, receipt, then)
           /\ Stage(p, next, event, receipt, then)
  BY DEF AllowedStage
<1> DEFINE new == [by |-> p, base |-> job.version, next |-> next, event |-> event,
                   receipt |-> receipt, then |-> then]
<1>1. /\ staged' = staged \cup {new}
      /\ UNCHANGED <<job, log, receipts, now, pc, seen, request>>
  BY DEF Stage, requests
<1>2. FencesHold'
  <2> SUFFICES ASSUME NEW w \in staged', Fresh(w)
               PROVE  Allowed(w.by, w.next, w.event, w.receipt, w.then)'
    BY <1>1 DEF FencesHold, Fresh
  <2>1. Allowed(w.by, w.next, w.event, w.receipt, w.then)
    BY <1>1 DEF FInv, FencesHold
  <2> QED
    BY <1>1, <2>1 DEF Allowed, Deadline, ClaimLapsed, Settlement, SharesOrigin, ClaimKnown,
                      Witnessed, Retriable, KeepsSettling, Settling
<1>3. OneWriteEach' /\ WritersWait'
  BY <1>1 DEF FInv, OneWriteEach, WritersWait, Busy
<1>4. AnswersAreTrue' /\ ClaimIsOwners'
  BY <1>1 DEF FInv, AnswersAreTrue, Contested, HasClaimed, ClaimIsOwners
<1> QED
  BY <1>1, <1>2, <1>3, <1>4 DEF FInv, SeenIsCurrent, ReceiptsHaveOrigin,
       ReceiptsAreWitnessed, Witnessed, OnlyRepairsReject, ClaimKnown, Retriable

\* So does a step that stores nothing.
LEMMA StillKeepsFences ==
  ASSUME IInv, FInv, Still
  PROVE  FInv'
<1>1. FencesHold'
  <2> SUFFICES ASSUME NEW w \in staged', Fresh(w)
               PROVE  Allowed(w.by, w.next, w.event, w.receipt, w.then)'
    BY DEF FencesHold, Fresh, Still
  <2>1. w \in staged /\ Allowed(w.by, w.next, w.event, w.receipt, w.then)
    BY DEF FInv, FencesHold, Still
  <2>2. ClaimLapsed(job, now) => ClaimLapsed(job, now)'
    BY LapsedStays DEF IInv, Still, ClaimLapsed, Deadline, Settlement
  <2>3. job.claim # None => job.claim.owner \in Deliveries
    BY DEF IInv, TypeOK, Job, Claim
  <2>4. job.claim # None /\ w.by = job.claim.owner => pc'[w.by] = pc[w.by]
    BY <2>3 DEF Still
  <2> QED
    BY <2>1, <2>2, <2>4 DEF Allowed, Still, Deadline, SharesOrigin, ClaimKnown, Witnessed,
                             Retriable, KeepsSettling, Settling
<1> QED
  BY <1>1 DEF FInv, Still, OneWriteEach, WritersWait, ReceiptsHaveOrigin, SharesOrigin,
              ReceiptsAreWitnessed, Witnessed, ClaimKnown, Retriable

\* And a commit, after which no other staged write is fresh.
LEMMA CommitKeepsFences ==
  ASSUME IInv, FInv, NEW w \in staged, Commit(w)
  PROVE  FInv'
<1>1. /\ w \in Write /\ Successor(w.next, w.event, w.receipt) /\ TypeOK'
      /\ Allowed(w.by, w.next, w.event, w.receipt, w.then)
  BY CommitFollows DEF FInv, FencesHold, Commit
<1>2. /\ job' = w.next /\ job'.version = job.version + 1 /\ UNCHANGED request
      /\ receipts' = receipts \cup ({w.receipt} \ {None}) /\ staged' = staged \ {w}
      /\ pc' = [pc EXCEPT ![w.by] = w.then]
      /\ seen' = [seen EXCEPT ![w.by] = IF w.then \in Fenced THEN w.next.version ELSE 0]
  BY <1>1 DEF Commit, Successor
<1>3. job.version \in Nat /\ pc \in [Processes -> Phases] /\ seen \in [Processes -> Nat]
      /\ w.by \in Processes
  BY <1>1 DEF IInv, TypeOK, Job, Write
<1>4. FencesHold'
  <2>1. \A x \in staged : x.base <= job.version /\ x.base \in Nat
    BY DEF IInv, StagedFollows, TypeOK, Write
  <2> QED BY <1>2, <1>3, <2>1 DEF FencesHold, Fresh
<1>5. SeenIsCurrent'
  <2> SUFFICES ASSUME NEW p \in Processes
               PROVE  /\ seen'[p] <= job'.version
                      /\ pc'[p] \in {"starting", "admitted", "dispatched", "failing"}
                           /\ seen'[p] = job'.version
                         => job'.status = "STARTING" /\ ~job'.acked
    BY DEF SeenIsCurrent
  <2>1. CASE p = w.by
    BY <1>1, <1>2, <1>3, <2>1 DEF Allowed
  <2>2. CASE p # w.by
    BY <1>2, <1>3, <2>2 DEF FInv, SeenIsCurrent
  <2> QED BY <2>1, <2>2
<1>6. ReceiptsHaveOrigin'
  BY <1>1, <1>2 DEF Allowed, FInv, ReceiptsHaveOrigin, SharesOrigin
<1>11. \A e \in Deliveries : HasClaimed(e) => HasClaimed(e)'
  <2> SUFFICES ASSUME NEW e \in Deliveries, HasClaimed(e) PROVE pc'[e] \in ClaimPhases
    BY DEF HasClaimed, ClaimPhases
  <2>1. CASE e = w.by
    BY <1>1, <1>2, <1>3, <2>1 DEF Allowed
  <2>2. CASE e # w.by
    BY <1>2, <1>3, <2>2 DEF HasClaimed, ClaimPhases
  <2> QED BY <2>1, <2>2
<1>7. AnswersAreTrue'
  <2> SUFFICES ASSUME NEW d \in Deliveries
               PROVE  /\ pc'[d] \in {"recorded", "duplicate"} =>
                           \E r \in receipts' : SharesOrigin(r, request[d])
                      /\ pc'[d] \in {"conflict", "overruled"} => Contested(d)'
    BY <1>2 DEF AnswersAreTrue, SharesOrigin
  <2>1. CASE d = w.by
    <3>1. pc'[d] = w.then
      BY <1>2, <1>3, <2>1
    <3> QED BY <1>1, <1>2, <2>1, <3>1 DEF Allowed
  <2>2. CASE d # w.by
    <3>1. Contested(d) => Contested(d)'
      BY <1>2, <1>11 DEF Contested
    <3> QED BY <1>2, <1>3, <2>2, <3>1 DEF FInv, AnswersAreTrue
  <2> QED BY <2>1, <2>2
<1>12. ClaimIsOwners'
  <2> SUFFICES ASSUME job'.claim # None
               PROVE  /\ pc'[job'.claim.owner] \in ClaimPhases
                      /\ request[job'.claim.owner] = job'.claim.callback
    BY <1>2 DEF ClaimIsOwners, HasClaimed, ClaimPhases
  <2>1. CASE job'.claim = job.claim
    <3>1. HasClaimed(job.claim.owner) /\ request[job.claim.owner] = job.claim.callback
      BY <2>1 DEF FInv, ClaimIsOwners
    <3>2. job.claim.owner \in Deliveries
      BY <2>1 DEF IInv, TypeOK, Job, Claim
    <3> QED BY <1>11, <2>1, <3>1, <3>2 DEF HasClaimed, ClaimPhases
  <2>2. CASE job'.claim # job.claim
    BY <1>1, <1>2, <1>3, <2>2 DEF Allowed
  <2> QED BY <2>1, <2>2
<1>13. WritersWait'
  BY <1>2, <1>3 DEF FInv, WritersWait, OneWriteEach
<1>8. ReceiptsAreWitnessed'
  <2>1. receipts = {}
    BY <1>1, OpenHasNoReceipt DEF IInv, Successor
  <2>2. w.receipt # None => log' = log
    BY <1>1 DEF Commit, Successor
  <2> QED BY <1>1, <1>2, <2>1, <2>2 DEF Allowed, ReceiptsAreWitnessed, Witnessed
<1>9. OnlyRepairsReject'
  BY <1>1, <1>2, <1>3 DEF Allowed, FInv, OnlyRepairsReject
<1>10. ClaimKnown(job)' /\ Retriable(job)'
  BY <1>1, <1>2 DEF Allowed, ClaimKnown, Retriable
<1> QED
  BY <1>1, <1>2, <1>4, <1>5, <1>6, <1>7, <1>8, <1>9, <1>10, <1>12, <1>13
     DEF FInv, OneWriteEach, Allowed

-----------------------------------------------------------------------------
(* The writes the requests stage are allowed *)

\* Phases no write of a request ends in, and those with a condition of their own.
PlainPhases == Phases \ {"starting", "recorded", "duplicate", "conflict", "overruled",
                         "admitted", "dispatched", "failing", "rejected"}

\* As long as a job is open, it may still come to every outcome it could come to.
LEMMA OutcomesStayOpen ==
  ASSUME NEW from \in Status, NEW to \in Transitions[from], to \notin Terminal
  PROVE  /\ from \notin Terminal
         /\ Outcomes \cap Transitions[from] \subseteq Transitions[to]
BY DEF Status, Active, Terminal, Transitions, Outcomes

\* A status move that may be made.
LEMMA MovedAllowed ==
  ASSUME IInv, FInv, NEW p \in Processes, NEW to \in Status \ Outcomes, MayMove(to),
         NEW then \in PlainPhases \cup {"starting"},
         then = "starting" => to = "STARTING",
         p \in Deliveries => then \in ClaimPhases
  PROVE  Allowed(p, Moved(to), "none", None, then)
<1>1. job \in Job /\ to \in Transitions[job.status] /\ job.status \in Status
  BY DEF IInv, TypeOK, Job, MayMove
<1>2. /\ Moved(to).status = to /\ Moved(to).acked = job.acked
      /\ Moved(to).claim = IF ClaimLapsed(job, now) THEN None ELSE job.claim
      /\ Moved(to).cursor = job.cursor
  BY <1>1 DEF Moved, Job
<1>3. to # "QUEUED" /\ (to = "STARTING" => ~job.acked)
  BY <1>1, TableFacts DEF FInv
<1>4. to \in Terminal => job.claim = None \/ ClaimLapsed(job, now)
  BY DEF MayMove, Terminal, Outcomes
<1>5. Moved(to).recovery = IF ClaimLapsed(job, now) THEN job.claim.callback ELSE job.recovery
  BY <1>1 DEF Moved, Job
<1>6. /\ Settling = IF Moved(to).claim # None THEN Moved(to).claim.callback
                    ELSE Moved(to).recovery
      /\ KeepsSettling(Moved(to))
  BY <1>2, <1>5 DEF Settling, KeepsSettling, ClaimLapsed
<1>7. Retriable(Moved(to))
  BY <1>1, <1>2, <1>6, OutcomesStayOpen DEF Retriable, Settling, FInv, Callback, Terminal
<1> QED BY <1>2, <1>3, <1>4, <1>6, <1>7 DEF Allowed, PlainPhases, FInv, ClaimKnown

\* An event, with no claim in the way or by the claim's owner.
LEMMA AppendedAllowed ==
  ASSUME IInv, FInv, NEW p \in Processes, NEW event \in {"runner", "verifier"},
         NEW then \in PlainPhases \cup {"rejected"}, Open, job.write = None,
         job.claim # None =>
           event = "verifier" /\ then = "appending" /\ p = job.claim.owner,
         event = "verifier" =>
           Repairs \/ (job.claim # None /\ job.claim.callback.status = "VERIFIED"),
         then = "rejected" => Repairs, p \in Deliveries => then \in ClaimPhases
  PROVE  Allowed(p, Appended, event, None, then)
<1>1. /\ Appended.status = job.status /\ Appended.acked = job.acked
      /\ Appended.claim = job.claim /\ Appended.cursor = job.cursor + 1
      /\ Appended.recovery = job.recovery
  BY DEF IInv, TypeOK, Job, Appended
<1>2. ClaimKnown(Appended)
  <2> SUFFICES ASSUME job.claim # None
               PROVE  /\ job.claim.callback \in Callbacks
                      /\ job.claim.callback.cursor <= job.cursor + 1
    BY <1>1 DEF ClaimKnown
  <2>1. job.claim.callback \in Callback /\ job.cursor \in Nat
    BY DEF IInv, TypeOK, Job, Claim
  <2> QED BY <2>1 DEF FInv, ClaimKnown, Callback
<1>3. Retriable(Appended)
  <2>1. job.cursor \in Nat
    BY DEF IInv, TypeOK, Job
  <2> QED BY <1>1, <2>1 DEF Retriable, FInv, Callback
<1> QED BY <1>1, <1>2, <1>3 DEF Allowed, PlainPhases, Open, FInv, KeepsSettling, Settling

\* A write that leaves status and claim alone.
LEMMA TouchAllowed ==
  ASSUME IInv, FInv, NEW p \in Processes, NEW next, NEW then \in PlainPhases, Open,
         next.status = job.status, next.claim = job.claim, next.cursor = job.cursor,
         next.recovery = job.recovery, job.status = "QUEUED" => ~next.acked,
         p \in Deliveries => then \in ClaimPhases
  PROVE  Allowed(p, next, "none", None, then)
BY DEF Allowed, PlainPhases, Open, FInv, ClaimKnown, Retriable, KeepsSettling, Settling

\* A request that goes on, or is cut off, without touching the row.
LEMMA MoveIsStill ==
  ASSUME IInv, FInv, NEW p \in Processes, NEW phase \in Phases, NEW n \in Nat,
         UNCHANGED <<job, log, receipts, now, request>>, staged' \subseteq staged,
         pc' = [pc EXCEPT ![p] = phase], seen' = [seen EXCEPT ![p] = n],
         p \in Deliveries => \A w \in staged' : w.by # p,
         n <= job.version,
         phase \in {"starting", "admitted", "dispatched", "failing"} /\ n = job.version =>
           job.status = "STARTING" /\ ~job.acked,
         phase \in {"recorded", "duplicate"} /\ p \in Deliveries =>
           \E r \in receipts : SharesOrigin(r, request[p]),
         phase \in {"conflict", "overruled"} /\ p \in Deliveries => Contested(p),
         p \in Deliveries /\ HasClaimed(p) => phase \in ClaimPhases,
         phase = "rejected" => Repairs
  PROVE  Still
<1>1. /\ pc \in [Processes -> Phases] /\ seen \in [Processes -> Nat] /\ now \in Nat
      /\ Deliveries \subseteq Processes
  BY DEF IInv, TypeOK, Processes
<1>2. SeenIsCurrent'
  BY <1>1 DEF FInv, SeenIsCurrent
<1>6. \A e \in Deliveries : HasClaimed(e) => HasClaimed(e)'
  <2> SUFFICES ASSUME NEW e \in Deliveries, HasClaimed(e) PROVE pc'[e] \in ClaimPhases
    BY DEF HasClaimed, ClaimPhases
  <2>1. CASE e = p
    BY <1>1, <2>1
  <2>2. CASE e # p
    BY <1>1, <2>2 DEF HasClaimed, ClaimPhases
  <2> QED BY <2>1, <2>2
<1>3. AnswersAreTrue'
  <2> SUFFICES ASSUME NEW d \in Deliveries
               PROVE  /\ pc'[d] \in {"recorded", "duplicate"} =>
                           \E r \in receipts : SharesOrigin(r, request[d])
                      /\ pc'[d] \in {"conflict", "overruled"} => Contested(d)'
    BY DEF AnswersAreTrue, SharesOrigin
  <2>0. Contested(d) => Contested(d)'
    BY <1>6 DEF Contested
  <2>1. CASE d = p
    BY <1>1, <2>0, <2>1
  <2>2. CASE d # p
    BY <1>1, <2>0, <2>2 DEF FInv, AnswersAreTrue
  <2> QED BY <2>1, <2>2
<1>7. ClaimIsOwners'
  <2>1. job.claim # None => job.claim.owner \in Deliveries
    BY DEF IInv, TypeOK, Job, Claim
  <2> QED BY <1>6, <2>1 DEF FInv, ClaimIsOwners
<1>4. \A w \in staged' : w.by \in Deliveries => pc'[w.by] = pc[w.by]
  BY <1>1
<1>5. OnlyRepairsReject'
  BY <1>1 DEF FInv, OnlyRepairsReject
<1> QED BY <1>1, <1>2, <1>3, <1>4, <1>5, <1>7 DEF Still

\* A request with nothing staged that goes on to a phase without conditions.
LEMMA GotoIsStill ==
  ASSUME IInv, FInv, NEW p \in Processes, NEW phase \in PlainPhases, Goto(p, phase),
         p \in Deliveries => ~Busy(p),
         p \in Deliveries /\ HasClaimed(p) => phase \in ClaimPhases
  PROVE  Still
<1>1. 0 \in Nat /\ 0 <= job.version
  BY DEF IInv, TypeOK, Job
<1>2. phase \in Phases /\ phase \notin {"starting", "recorded", "duplicate", "conflict",
        "overruled", "admitted", "dispatched", "failing", "rejected"}
  BY DEF PlainPhases
<1>3. /\ UNCHANGED <<job, log, receipts, now, request>> /\ staged' \subseteq staged
      /\ pc' = [pc EXCEPT ![p] = phase] /\ seen' = [seen EXCEPT ![p] = 0]
  BY DEF Goto
<1>4. p \in Deliveries => \A w \in staged' : w.by # p
  BY DEF Goto, Busy
<1> QED BY <1>1, <1>2, <1>3, <1>4, MoveIsStill

-----------------------------------------------------------------------------
(* Every step is of one of the three kinds *)

\* A step of the dispatch.
LEMMA DispatchFences ==
  ASSUME IInv, FInv, NEW h \in Handlers, DispatchStep(h)
  PROVE  AllowedStage \/ Still
<1> /\ h \in Processes /\ h \notin Deliveries /\ job \in Job /\ job.version \in Nat
    /\ seen[h] \in Nat /\ seen[h] <= job.version /\ now \in Nat
  BY ConstantsOK DEF Processes, IInv, TypeOK, Job, FInv, SeenIsCurrent
<1> {"starting", "admitted", "dispatched", "failing"} \subseteq Phases /\ "idle" \in PlainPhases
  BY DEF Phases, PlainPhases
<1>1. CASE StartDispatch(h)
  <2>1. /\ MayMove("STARTING") /\ Stage(h, Moved("STARTING"), "none", None, "starting")
        /\ ~Busy(h)
    BY <1>1 DEF StartDispatch, Idle
  <2>2. "STARTING" \in Status \ Outcomes
    BY DEF Status, Active, Outcomes
  <2>3. Moved("STARTING") \in Job
    BY <2>2, MovedType DEF IInv
  <2>4. Allowed(h, Moved("STARTING"), "none", None, "starting")
    BY <2>1, <2>2, MovedAllowed
  <2> QED BY <2>1, <2>3, <2>4 DEF AllowedStage
<1>2. CASE AdmitDispatch(h)
  <2>1. CASE pc[h] = "starting" /\ seen' = seen
    <3>1. seen' = [seen EXCEPT ![h] = seen[h]]
      BY <2>1 DEF IInv, TypeOK
    <3>2. seen[h] = job.version => job.status = "STARTING" /\ ~job.acked
      BY <2>1 DEF FInv, SeenIsCurrent
    <3> QED BY <1>2, <3>1, <3>2, MoveIsStill DEF AdmitDispatch
  <2>2. CASE /\ job.status = "STARTING" /\ ~job.acked
             /\ seen' = [seen EXCEPT ![h] = job.version]
    <3>1. /\ UNCHANGED <<job, log, receipts, now, request>> /\ staged' \subseteq staged
          /\ pc' = [pc EXCEPT ![h] = "admitted"] /\ job.version <= job.version
      BY <1>2 DEF AdmitDispatch
    <3> QED BY <2>2, <3>1, MoveIsStill
  <2> QED BY <1>2, <2>1, <2>2 DEF AdmitDispatch
<1>3. CASE NotAdmitted(h)
  BY <1>3, GotoIsStill DEF NotAdmitted
<1>4. CASE Dispatch(h)
  <2>1. seen' = [seen EXCEPT ![h] = seen[h]]
    BY <1>4 DEF Dispatch, IInv, TypeOK
  <2>2. seen[h] = job.version => job.status = "STARTING" /\ ~job.acked
    BY <1>4 DEF Dispatch, FInv, SeenIsCurrent
  <2> QED BY <1>4, <2>1, <2>2, MoveIsStill DEF Dispatch
<1>5. CASE Acknowledge(h)
  <2> DEFINE next == [job EXCEPT !.acked = TRUE, !.version = job.version + 1]
  <2>1. CASE Goto(h, "idle")
    BY <2>1, GotoIsStill
  <2>2. CASE job.status = "STARTING" /\ Stage(h, next, "none", None, "idle")
    <3>1. job.version + 1 \in Nat /\ Open
      BY <2>2 DEF Open, Terminal
    <3>2. next \in Job
      BY <3>1, FieldUpdates
    <3>3. /\ next.status = job.status /\ next.claim = job.claim
          /\ next.cursor = job.cursor /\ next.recovery = job.recovery
      BY DEF Job
    <3> HIDE DEF next
    <3>4. Allowed(h, next, "none", None, "idle")
      BY <2>2, <3>1, <3>3, TouchAllowed
    <3> QED BY <1>5, <2>2, <3>2, <3>4 DEF AllowedStage, Acknowledge, PlainPhases
  <2> QED BY <1>5, <2>1, <2>2 DEF Acknowledge
<1>6. CASE DispatchFails(h)
  <2>1. seen' = [seen EXCEPT ![h] = seen[h]]
    BY <1>6 DEF DispatchFails, IInv, TypeOK
  <2>2. seen[h] = job.version => job.status = "STARTING" /\ ~job.acked
    BY <1>6 DEF DispatchFails, FInv, SeenIsCurrent
  <2> QED BY <1>6, <2>1, <2>2, MoveIsStill DEF DispatchFails
<1>7. CASE FailJob(h)
  <2> DEFINE next == [Appended EXCEPT !.status = "FAILED", !.completed = now]
  <2>1. CASE Goto(h, "idle")
    BY <2>1, GotoIsStill
  <2>2. CASE /\ MayAppend /\ job.version = seen[h]
             /\ Stage(h, next, "failure", None, "idle")
    <3>1. job.status = "STARTING" /\ ~job.acked
      BY <1>7, <2>2 DEF FailJob, FInv, SeenIsCurrent
    <3>2. Appended \in Job
      <4>1. job.cursor + 1 \in Nat /\ job.version + 1 \in Nat
        BY DEF Job
      <4> QED BY <4>1, FieldUpdates DEF Appended
    <3>3. next \in Job
      BY <3>2, FieldUpdates DEF Status, Terminal
    <3>4. next.status = "FAILED" /\ next.claim = job.claim
      BY DEF Job, Appended
    <3> HIDE DEF next
    <3>5. Allowed(h, next, "failure", None, "idle")
      BY <2>2, <3>1, <3>4 DEF Allowed, MayAppend, ClaimKnown, Retriable, KeepsSettling,
                              Terminal
    <3> QED BY <1>7, <2>2, <3>3, <3>5 DEF AllowedStage, FailJob, Sources, PlainPhases
  <2> QED BY <1>7, <2>1, <2>2 DEF FailJob
<1> QED
  BY <1>1, <1>2, <1>3, <1>4, <1>5, <1>6, <1>7 DEF DispatchStep

\* A status move of a request that goes on without conditions.
LEMMA MovedFences ==
  ASSUME IInv, FInv, NEW p \in Processes, NEW to \in Status \ Outcomes, MayMove(to),
         NEW then \in PlainPhases, ~Busy(p), Stage(p, Moved(to), "none", None, then),
         p \in Deliveries => pc[p] \in Staging /\ then \in ClaimPhases
  PROVE  AllowedStage
<1>1. Moved(to) \in Job /\ then # "starting" /\ then \in Phases
  BY MovedType DEF IInv, PlainPhases
<1>2. Allowed(p, Moved(to), "none", None, then)
  BY <1>1, MovedAllowed
<1> QED BY <1>1, <1>2 DEF AllowedStage

\* An event of such a request.
LEMMA AppendedFences ==
  ASSUME IInv, FInv, NEW p \in Processes, NEW event \in {"runner", "verifier"},
         NEW then \in PlainPhases \cup {"rejected"}, Open, job.write = None,
         job.claim # None =>
           event = "verifier" /\ then = "appending" /\ p = job.claim.owner,
         event = "verifier" =>
           Repairs \/ (job.claim # None /\ job.claim.callback.status = "VERIFIED"),
         then = "rejected" => Repairs,
         ~Busy(p), Stage(p, Appended, event, None, then),
         p \in Deliveries => pc[p] \in Staging /\ then \in ClaimPhases
  PROVE  AllowedStage
<1>1. Appended \in Job
  <2>1. job \in Job /\ job.cursor + 1 \in Nat /\ job.version + 1 \in Nat
    BY DEF IInv, TypeOK, Job
  <2> QED BY <2>1, FieldUpdates DEF Appended
<1>2. Allowed(p, Appended, event, None, then)
  BY AppendedAllowed
<1>3. event \in Sources \cup {"none"} /\ then \in Phases
  BY DEF Sources, PlainPhases, Phases
<1> QED BY <1>1, <1>2, <1>3 DEF AllowedStage

\* The runner's other requests, cancellation and polls.
LEMMA HandlerFences ==
  ASSUME IInv, FInv, NEW h \in Handlers, HandlerStep(h)
  PROVE  AllowedStage \/ Still
<1> h \in Processes /\ "idle" \in PlainPhases /\ h \notin Deliveries
  BY ConstantsOK DEF Processes, PlainPhases, Phases
<1> {"RUNNING", "REPAIRING", "CANCELLED", "TIMED_OUT"} \subseteq Status \ Outcomes
  BY DEF Status, Active, Terminal, Outcomes
<1>1. CASE DispatchStep(h)
  BY <1>1, DispatchFences
<1>2. CASE Start(h)
  BY <1>2, MovedFences DEF Start, Idle
<1>3. CASE RunnerEvent(h)
  BY <1>3, AppendedFences DEF RunnerEvent, MayAppend, Idle
<1>4. CASE JudgeCandidate(h)
  <2>1. Repairs
    BY <1>4 DEF JudgeCandidate, FInv, OnlyRepairsReject
  <2> QED BY <1>4, <2>1, AppendedFences DEF JudgeCandidate, MayAppend
<1>5. CASE RequestRepair(h)
  BY <1>5, MovedFences, GotoIsStill DEF RequestRepair
<1>6. CASE Resume(h)
  BY <1>6, MovedFences DEF Resume, Idle
<1>7. CASE Cancel(h)
  BY <1>7, MovedFences DEF Cancel, Idle
<1>8. CASE Expire(h)
  BY <1>8, MovedFences DEF Expire, Idle
<1> QED
  BY <1>1, <1>2, <1>3, <1>4, <1>5, <1>6, <1>7, <1>8 DEF HandlerStep

\* A request that dies drops its staged write.
LEMMA CrashIsStill ==
  ASSUME IInv, FInv, NEW p \in Processes, Crash(p)
  PROVE  Still
<1>1. 0 \in Nat /\ 0 <= job.version /\ "crashed" \in Phases
  BY DEF IInv, TypeOK, Job, Phases
<1>2. /\ UNCHANGED <<job, log, receipts, now, request>> /\ staged' \subseteq staged
      /\ pc' = [pc EXCEPT ![p] = "crashed"] /\ seen' = [seen EXCEPT ![p] = 0]
      /\ \A w \in staged' : w.by # p
  BY DEF Crash
<1> QED BY <1>1, <1>2, MoveIsStill DEF ClaimPhases

\* A write whose row has moved on is dropped.
LEMMA ConflictIsStill ==
  ASSUME IInv, FInv, NEW w \in staged, Conflict(w)
  PROVE  Still
<1>1. w.by \in Processes /\ pc[w.by] \in Phases /\ 0 \in Nat /\ 0 <= job.version
  BY DEF IInv, TypeOK, Job, Write
<1>2. AfterConflict[pc[w.by]] \in {"refused", "releasing", "idle"}
  BY <1>1 DEF AfterConflict
<1>3. /\ UNCHANGED <<job, log, receipts, now, request>> /\ staged' \subseteq staged
      /\ pc' = [pc EXCEPT ![w.by] = AfterConflict[pc[w.by]]]
      /\ seen' = [seen EXCEPT ![w.by] = 0]
  BY DEF Conflict
<1>4. \A x \in staged' : x.by # w.by
  BY DEF Conflict, FInv, OneWriteEach
<1>5. w.by \in Deliveries => pc[w.by] \in Staging
  BY DEF FInv, WritersWait
<1>6. w.by \in Deliveries /\ HasClaimed(w.by) => AfterConflict[pc[w.by]] \in ClaimPhases
  BY <1>1, <1>5 DEF Staging, HasClaimed, ClaimPhases, AfterConflict
<1> QED BY <1>1, <1>2, <1>3, <1>4, <1>6, MoveIsStill DEF Phases

\* An output upload.
LEMMA UploadFences ==
  ASSUME IInv, FInv, NEW u \in Uploads, UploadStep(u)
  PROVE  AllowedStage \/ Still
<1> /\ u \in Processes /\ u \notin Deliveries /\ job \in Job /\ now \in Nat
    /\ job.version + 1 \in Nat
  BY ConstantsOK DEF Processes, IInv, TypeOK, Job
<1> {"refused", "writing", "releasing", "released"} \subseteq PlainPhases
  BY DEF Phases, PlainPhases
<1>1. CASE ClaimWrite(u)
  <2> DEFINE claim == [owner |-> u, at |-> now]
             next == [job EXCEPT !.write = claim, !.version = job.version + 1]
  <2>1. CASE MayClaimWrite /\ Stage(u, next, "none", None, "writing")
    <3>1. claim \in WriteClaim
      BY DEF WriteClaim
    <3>2. next \in Job
      BY <3>1, FieldUpdates
    <3>3. /\ next.status = job.status /\ next.claim = job.claim
          /\ next.cursor = job.cursor /\ next.recovery = job.recovery
      BY DEF Job
    <3> HIDE DEF next
    <3>4. Allowed(u, next, "none", None, "writing")
      BY <2>1, <3>3, TouchAllowed DEF MayClaimWrite, Open, Terminal
    <3> QED BY <1>1, <2>1, <3>2, <3>4 DEF AllowedStage, ClaimWrite, PlainPhases
  <2> QED BY <1>1, <2>1, GotoIsStill DEF ClaimWrite
<1>2. CASE FinishWrite(u)
  BY <1>2, GotoIsStill DEF FinishWrite
<1>3. CASE ReleaseWrite(u)
  <2> DEFINE next == [job EXCEPT !.write = None, !.version = job.version + 1]
  <2>1. CASE job.write # None /\ Stage(u, next, "none", None, "released")
    <3>1. Open
      BY <2>1 DEF IInv, RowOK, ValidJob, Open
    <3>2. next \in Job
      BY FieldUpdates
    <3>3. /\ next.status = job.status /\ next.claim = job.claim
          /\ next.acked = job.acked /\ next.cursor = job.cursor
          /\ next.recovery = job.recovery
      BY DEF Job
    <3> HIDE DEF next
    <3>4. Allowed(u, next, "none", None, "released")
      BY <3>1, <3>3, TouchAllowed DEF FInv
    <3> QED BY <1>3, <2>1, <3>2, <3>4 DEF AllowedStage, ReleaseWrite, PlainPhases
  <2> QED BY <1>3, <2>1, GotoIsStill DEF ReleaseWrite
<1>4. CASE Crash(u)
  BY <1>4, CrashIsStill
<1> QED BY <1>1, <1>2, <1>3, <1>4 DEF UploadStep

\* What is recorded for a callback is an outcome of it.
LEMMA VerdictOrigin ==
  ASSUME TypeOK, NEW d \in Deliveries, NEW t \in Verdicts(d)
  PROVE  SharesOrigin(t, request[d])
<1> DEFINE c == request[d]
           closed == [c EXCEPT !.cursor = @ + AuthorityEvents]
<1>1. c \in Callback
  BY RequestType
<1>2. /\ closed \in Callback /\ closed.cursor >= c.cursor /\ closed.key = c.key
      /\ closed.body = c.body /\ closed.status = c.status /\ closed.error = c.error
  BY <1>1, ConstantsOK DEF Callback
<1>3. \A x \in Callback : /\ Withheld(x).cursor = x.cursor /\ Withheld(x).key = x.key
                         /\ Withheld(x).body = x.body /\ Withheld(x).status = "REJECTED"
  BY DEF Withheld, Callback
<1>4. c.cursor >= c.cursor
  BY <1>1 DEF Callback
<1> HIDE DEF closed
<1>5. CASE c.status # "VERIFIED"
  BY <1>4, <1>5 DEF Verdicts, SharesOrigin
<1>6. CASE c.status = "VERIFIED"
  <2>1. t \in {Withheld(c), closed, Withheld(closed)}
    BY <1>6 DEF Verdicts, closed
  <2> QED BY <1>1, <1>2, <1>3, <1>4, <1>6, <2>1 DEF SharesOrigin
<1> QED BY <1>5, <1>6

\* VERIFIED is recorded only with the Worker's events in place.
LEMMA VerdictWitnessed ==
  ASSUME TypeOK, NEW d \in Deliveries, NEW t \in Verdicts(d), t.status = "VERIFIED"
  PROVE  Witnessed(t)
<1> DEFINE c == request[d]
           closed == [c EXCEPT !.cursor = @ + AuthorityEvents]
<1>1. c \in Callback /\ c \in Callbacks
  BY RequestType DEF TypeOK
<1>5. c.status = "VERIFIED"
  BY DEF Verdicts
<1>2. closed \in Callback /\ closed.cursor = c.cursor + AuthorityEvents
  BY <1>1, ConstantsOK DEF Callback
<1>3. \A x \in Callback : Withheld(x).status = "REJECTED"
  BY DEF Withheld, Callback
<1> HIDE DEF closed
<1>4. t = closed /\ AuthorityPrefix(d)
  BY <1>1, <1>2, <1>3 DEF Verdicts, closed
<1> QED BY <1>1, <1>2, <1>4, <1>5 DEF Witnessed, AuthorityPrefix

\* The receipt of a verdict of a callback is a receipt of that callback.
LEMMA OriginIsShared ==
  ASSUME TypeOK, NEW r \in receipts, NEW d \in Deliveries, NEW t \in Verdicts(d),
         SharesOrigin(r, t)
  PROVE  SharesOrigin(r, request[d])
<1>1. SharesOrigin(t, request[d])
  BY VerdictOrigin
<1>2. r \in Callback /\ t \in Callback /\ request[d] \in Callback
  BY VerdictType, RequestType DEF TypeOK
<1>3. r.cursor >= request[d].cursor
  BY <1>1, <1>2 DEF SharesOrigin, Callback
<1> QED BY <1>1, <1>3 DEF SharesOrigin

\* A delivery that is answered, or goes on without touching the row.
LEMMA AnswerIsStill ==
  ASSUME IInv, FInv, NEW d \in Deliveries, ~Busy(d),
         NEW phase \in {"recorded", "overruled", "reverifying", "duplicate", "conflict",
                        "refused"},
         Goto(d, phase),
         phase \in {"recorded", "duplicate"} => \E r \in receipts : SharesOrigin(r, request[d]),
         phase \in {"conflict", "overruled"} => Contested(d),
         HasClaimed(d) => phase \in ClaimPhases
  PROVE  Still
<1>1. d \in Processes /\ 0 \in Nat /\ 0 <= job.version /\ phase \in Phases
  BY DEF Processes, IInv, TypeOK, Job, Phases
<1>2. /\ UNCHANGED <<job, log, receipts, now, request>> /\ staged' \subseteq staged
      /\ pc' = [pc EXCEPT ![d] = phase] /\ seen' = [seen EXCEPT ![d] = 0]
      /\ \A w \in staged' : w.by # d
  BY DEF Goto, Busy
<1> QED BY <1>1, <1>2, MoveIsStill

\* A callback delivery.
LEMMA DeliveryFences ==
  ASSUME IInv, FInv, NEW d \in Deliveries, DeliveryStep(d)
  PROVE  AllowedStage \/ Still
<1> /\ d \in Processes /\ job \in Job /\ now \in Nat /\ job.version + 1 \in Nat
    /\ job.version \in Nat
  BY DEF Processes, IInv, TypeOK, Job
<1> {"claimed", "verifying", "appending", "refused", "releasing", "released"}
      \subseteq PlainPhases
  BY DEF Phases, PlainPhases
<1>1. CASE Duplicate(d)
  <2>1. PICK r \in receipts :
          /\ r.key = request[d].key
          /\ IF SharesOrigin(r, request[d])
             THEN \E then \in {"duplicate", "reverifying"} : Goto(d, then)
             ELSE Goto(d, "conflict")
    BY <1>1 DEF Duplicate
  <2> QED BY <1>1, <2>1, AnswerIsStill DEF Duplicate, HasClaimed, Contested
<1>2. CASE ClaimCallback(d)
  <2> DEFINE claim == [callback |-> request[d], owner |-> d, at |-> now]
             next == [job EXCEPT !.claim = claim, !.recovery = None, !.write = None,
                                 !.version = job.version + 1]
  <2>1. CASE MayClaim(request[d]) /\ \E then \in {"claimed", "verifying"} :
                                       Stage(d, next, "none", None, then)
    <3>1. claim \in Claim
      BY RequestType DEF Claim, IInv
    <3>2. next \in Job
      BY <3>1, FieldUpdates
    <3>3. /\ next.status = job.status /\ next.claim = claim
          /\ next.acked = job.acked /\ next.cursor = job.cursor
      BY DEF Job
    <3>4. Open
      BY <2>1, TableFacts DEF MayClaim, MayComplete, Open, Job
    <3>5. job.claim # None => ClaimLapsed(job, now) /\ job.claim.callback = request[d]
      BY <2>1 DEF MayClaim, MayComplete, Matching
    <3>6. now >= Deadline(job) =>
            \/ job.recovery = request[d]
            \/ job.claim # None /\ job.claim.callback = request[d]
      BY <2>1 DEF MayClaim, MayComplete, Matching
    <3>7. claim.at = now /\ claim.callback = request[d] /\ claim.owner = d
      OBVIOUS
    <3> HIDE DEF next, claim
    <3>9. ClaimKnown(next)
      <4>1. request[d] \in Callbacks /\ request[d] \in Callback
        BY RequestType DEF IInv, TypeOK
      <4>2. request[d].cursor <= job.cursor
        BY <2>1, <4>1 DEF MayClaim, MayComplete, Job, Callback
      <4> QED BY <3>3, <3>7, <4>1, <4>2 DEF ClaimKnown
    <3>10. Retriable(next) /\ KeepsSettling(next)
      <4>1. /\ request[d] \in Callback /\ request[d].cursor <= job.cursor
            /\ request[d].status \in Transitions[job.status]
        BY <2>1, <3>9, RequestType DEF MayClaim, MayComplete, IInv, Job, Callback
      <4>2. next.claim # None /\ next.claim.callback = request[d]
        BY <3>1, <3>3, <3>7, ConstantsOK
      <4> QED BY <3>3, <3>5, <4>1, <4>2 DEF Retriable, KeepsSettling, Settling
    <3>8. \A then \in {"claimed", "verifying"} : Allowed(d, next, "none", None, then)
      BY <3>3, <3>4, <3>5, <3>6, <3>7, <3>9, <3>10 DEF Allowed, Open, FInv, ClaimPhases
    <3> QED BY <1>2, <2>1, <3>2, <3>8 DEF AllowedStage, ClaimCallback, PlainPhases, Staging
  <2>2. CASE Goto(d, "refused")
    BY <1>2, <2>2, AnswerIsStill DEF ClaimCallback, HasClaimed
  <2>3. CASE ClaimedByAnother(request[d]) /\ Goto(d, "conflict")
    <3>1. job.claim # None /\ job.claim.callback # request[d]
      BY <2>3 DEF ClaimedByAnother, Matching
    <3>2. /\ job.claim.owner \in Deliveries /\ HasClaimed(job.claim.owner)
          /\ request[job.claim.owner] # request[d]
      BY <3>1 DEF FInv, ClaimIsOwners, IInv, TypeOK, Job, Claim
    <3> QED BY <1>2, <2>3, <3>2, AnswerIsStill DEF ClaimCallback, HasClaimed, Contested
  <2> QED BY <1>2, <2>1, <2>2, <2>3 DEF ClaimCallback
<1>3. CASE CloseBoundary(d)
  BY <1>3, MovedFences DEF CloseBoundary, Status, Active, Outcomes, Staging, ClaimPhases
<1>4. CASE AppendAuthority(d)
  BY <1>4, AppendedFences DEF AppendAuthority, Owns, Staging, ClaimPhases
<1>9. CASE FindReceipt(d, "recorded", "overruled") /\ RecordCallback(d)
  <2>1. PICK r \in receipts, t \in Verdicts(d) :
          /\ r.key = request[d].key
          /\ \/ SharesOrigin(r, t) /\ Goto(d, "recorded")
             \/ Goto(d, "overruled")
    BY <1>9 DEF FindReceipt
  <2>2. SharesOrigin(r, t) => SharesOrigin(r, request[d])
    BY VerdictOrigin, OriginIsShared DEF IInv, TypeOK
  <2> QED
    BY <1>9, <2>1, <2>2, AnswerIsStill DEF RecordCallback, ClaimPhases, Contested
<1>10. CASE VerifyAgain(d)
  <2>1. CASE Goto(d, "refused")
    BY <1>10, <2>1, AnswerIsStill DEF VerifyAgain, HasClaimed
  <2>2. CASE FindReceipt(d, "duplicate", "conflict")
    <3>1. PICK r \in receipts, t \in Verdicts(d) :
            /\ r.key = request[d].key
            /\ \/ SharesOrigin(r, t) /\ Goto(d, "duplicate")
               \/ Goto(d, "conflict")
      BY <2>2 DEF FindReceipt
    <3>2. SharesOrigin(r, t) => SharesOrigin(r, request[d])
      BY VerdictOrigin, OriginIsShared DEF IInv, TypeOK
    <3> QED
      BY <1>10, <3>1, <3>2, AnswerIsStill DEF VerifyAgain, HasClaimed, Contested
  <2> QED BY <1>10, <2>1, <2>2 DEF VerifyAgain
<1>5. CASE RecordCallback(d) /\ ~FindReceipt(d, "recorded", "overruled")
  <2> DEFINE Recorded(t) == [job EXCEPT !.status = t.status, !.completed = now,
                                        !.claim = None, !.recovery = None,
                                        !.version = job.version + 1]
  <2>1. PICK t \in Verdicts(d) : Stage(d, Recorded(t), "none", t, "recorded")
    BY <1>5 DEF RecordCallback
  <2>2. t \in Callback /\ t.status \in Outcomes /\ t.status \in Status
    BY VerdictType DEF Callback, Outcomes, Status, Terminal, IInv
  <2> DEFINE next == Recorded(t)
  <2>3. next \in Job
    <3>1. [job EXCEPT !.status = t.status, !.completed = now] \in Job
      BY <2>2, FieldUpdates
    <3>2. [job EXCEPT !.status = t.status, !.completed = now, !.claim = None] \in Job
      BY <3>1, FieldUpdates
    <3> QED BY <3>2, FieldUpdates
  <2>4. next.status = t.status /\ next.claim = None
    BY DEF Job
  <2>5. SharesOrigin(t, request[d])
    BY VerdictOrigin DEF IInv
  <2>6. job.claim # None /\ job.claim.owner = d /\ pc[d] # "recorded" /\ ~Busy(d)
    BY <1>5 DEF RecordCallback, Owns
  <2>7. t # None
    BY <2>2, ConstantsOK
  <2>8. Stage(d, next, "none", t, "recorded")
    BY <2>1
  <2> HIDE DEF next
  <2>9. Allowed(d, next, "none", t, "recorded")
    BY <2>2, <2>4, <2>5, <2>6, <2>7, VerdictWitnessed
       DEF Allowed, Outcomes, ClaimKnown, IInv, Retriable, KeepsSettling, Terminal, ClaimPhases
  <2> QED BY <1>5, <2>2, <2>3, <2>6, <2>8, <2>9 DEF AllowedStage, Phases, RecordCallback, Staging
<1>6. CASE FailDelivery(d)
  BY <1>6, GotoIsStill DEF FailDelivery, ClaimPhases
<1>7. CASE ReleaseClaim(d)
  <2> DEFINE next == [job EXCEPT !.recovery = job.claim.callback, !.claim = None,
                                 !.version = job.version + 1]
  <2>1. CASE /\ job.claim # None /\ job.claim.owner = d
             /\ Stage(d, next, "none", None, "released")
    <3>1. Open
      BY <2>1 DEF IInv, RowOK, ValidJob, Open
    <3>2. job.claim.callback \in Callback
      BY <2>1 DEF Job, Claim
    <3>3. next \in Job
      BY <3>2, FieldUpdates
    <3>4. /\ next.status = job.status /\ next.claim = None /\ next.acked = job.acked
          /\ next.recovery = job.claim.callback /\ next.cursor = job.cursor
      BY DEF Job
    <3> HIDE DEF next
    <3>5. pc[d] # "released" /\ ~Busy(d)
      BY <1>7 DEF ReleaseClaim
    <3>6. Allowed(d, next, "none", None, "released")
      BY <2>1, <3>1, <3>4, <3>5
         DEF Allowed, Open, FInv, ClaimKnown, Retriable, KeepsSettling, Settling, ClaimPhases
    <3> QED BY <1>7, <2>1, <3>3, <3>5, <3>6 DEF AllowedStage, PlainPhases, ReleaseClaim, Staging
  <2> QED BY <1>7, <2>1, GotoIsStill DEF ReleaseClaim, ClaimPhases
<1>8. CASE Crash(d)
  BY <1>8, CrashIsStill
<1> QED
  BY <1>1, <1>2, <1>3, <1>4, <1>5, <1>6, <1>7, <1>8, <1>9, <1>10
     DEF DeliveryStep, RecordCallback

\* Every step stages an allowed write, commits one, or stores nothing.
LEMMA StepFences ==
  ASSUME IInv, FInv, [Next]_vars
  PROVE  AllowedStage \/ Still \/ \E w \in staged : Commit(w)
<1>1. CASE UNCHANGED vars
  BY <1>1 DEF vars, Still, FInv, SeenIsCurrent, AnswersAreTrue, Contested, HasClaimed,
              ClaimIsOwners, SharesOrigin, IInv, TypeOK,
              OnlyRepairsReject
<1>2. CASE Tick
  BY <1>2 DEF Tick, Still, FInv, SeenIsCurrent, AnswersAreTrue, Contested, HasClaimed,
              ClaimIsOwners, SharesOrigin, IInv, TypeOK,
              OnlyRepairsReject, requests
<1> QED
  BY <1>1, <1>2, ConflictIsStill, HandlerFences, UploadFences, DeliveryFences DEF Next

-----------------------------------------------------------------------------
(* The theorems *)

\* The fences hold in every reachable state.
THEOREM FencesStand == Spec => []FInv
<1>1. Init => FInv
  <2> SUFFICES ASSUME Init PROVE FInv
    OBVIOUS
  <2>1. TypeOK
    BY InitInv DEF IInv
  <2>2. \A p \in Processes : pc[p] \in {"idle", "sent"} /\ seen[p] = 0
    BY DEF Init
  <2>3. /\ staged = {} /\ receipts = {} /\ job.version = 1 /\ ~job.acked
        /\ job.claim = None /\ job.recovery = None
    BY DEF Init
  <2>4. Deliveries \subseteq Processes
    BY DEF Processes
  <2> QED
    BY <2>2, <2>3, <2>4
       DEF FInv, FencesHold, OneWriteEach, SeenIsCurrent, ReceiptsHaveOrigin, AnswersAreTrue,
           ReceiptsAreWitnessed, OnlyRepairsReject, ClaimKnown, Retriable, ClaimIsOwners,
           WritersWait
<1>2. IInv /\ FInv /\ [Next]_vars => FInv'
  BY StepFences, StageKeepsFences, StillKeepsFences, CommitKeepsFences
<1> QED BY <1>1, <1>2, Invariance, PTL DEF Spec

\* What a delivery was answered stays true: recorded and duplicate name an
\* outcome of its own callback, a conflict another callback that has held the claim
\* or a receipt of its own key.
THEOREM AnswersCorrect == Spec => []AnswersAreTrue
BY FencesStand, PTL DEF FInv

\* Only a commit changes the row, the events or the receipt.
LEMMA OnlyCommits ==
  ASSUME IInv, FInv, [Next]_vars
  PROVE  \/ UNCHANGED <<job, log, receipts>>
         \/ \E w \in staged : /\ Commit(w) /\ w \in Write
                              /\ Allowed(w.by, w.next, w.event, w.receipt, w.then)
<1>1. ASSUME NEW w \in staged, Commit(w)
      PROVE  w \in Write /\ Allowed(w.by, w.next, w.event, w.receipt, w.then)
  BY <1>1 DEF IInv, TypeOK, FInv, FencesHold, Commit
<1> QED BY <1>1, StepFences DEF AllowedStage, Stage, Still

\* A live callback claim leaves the row only by its owner's hand, and the job
\* does not end under it by any other.
THEOREM ClaimFenceCorrect == Spec => ClaimFence
<1>1. ASSUME IInv, FInv, [Next]_vars, job.claim # None,
             job'.claim # job.claim \/ job'.status \in Terminal
      PROVE  ClaimLapsed(job, now) \/ pc[job.claim.owner] # pc'[job.claim.owner]
  <2>1. job' # job
    BY <1>1 DEF IInv, RowOK, ValidJob
  <2>2. PICK w \in staged : /\ Commit(w) /\ w \in Write
                            /\ Allowed(w.by, w.next, w.event, w.receipt, w.then)
    BY <1>1, <2>1, OnlyCommits
  <2>3. job' = w.next /\ pc'[w.by] = w.then
    BY <1>1, <2>2 DEF Commit, IInv, TypeOK, Write
  <2>4. \/ ClaimLapsed(job, now)
        \/ w.by = job.claim.owner /\ pc[w.by] # w.then
    BY <1>1, <2>2, <2>3 DEF Allowed
  <2> QED BY <2>3, <2>4
<1>2. IInv /\ FInv /\ [Next]_vars =>
        [job.claim # None /\ (job'.claim # job.claim \/ job'.status \in Terminal) =>
           \/ ClaimLapsed(job, now)
           \/ pc[job.claim.owner] # pc'[job.claim.owner]]_vars
  BY <1>1
<1> QED BY <1>2, Invariance, FencesStand, PTL DEF Spec, ClaimFence

\* While a claim is held the stream of events grows by its owner's only.
THEOREM EventFenceCorrect == Spec => EventFence
<1>1. ASSUME IInv, FInv, [Next]_vars, log' # log
      PROVE  /\ job.write = None
             /\ job.claim # None =>
                  /\ log' = Append(log, "verifier")
                  /\ pc'[job.claim.owner] = "appending"
  <2>1. PICK w \in staged : /\ Commit(w) /\ w \in Write
                            /\ Allowed(w.by, w.next, w.event, w.receipt, w.then)
    BY <1>1, OnlyCommits
  <2>2. w.event # "none" /\ log' = Append(log, w.event) /\ pc'[w.by] = w.then
    BY <1>1, <2>1 DEF Commit, IInv, TypeOK, Write
  <2> QED BY <2>1, <2>2 DEF Allowed
<1>2. IInv /\ FInv /\ [Next]_vars =>
        [log' # log =>
           /\ job.write = None
           /\ job.claim # None =>
                /\ log' = Append(log, "verifier")
                /\ pc'[job.claim.owner] = "appending"]_vars
  BY <1>1
<1> QED BY <1>2, Invariance, FencesStand, PTL DEF Spec, EventFence

\* After the deadline only a callback that already held the claim may claim.
THEOREM LateClaimCorrect == Spec => LateClaimIsRecovery
<1>1. ASSUME IInv, FInv, [Next]_vars, job'.claim \notin {None, job.claim},
             job'.claim.at >= Deadline(job)
      PROVE  \/ job.recovery = job'.claim.callback
             \/ job.claim # None /\ job.claim.callback = job'.claim.callback
  <2>1. PICK w \in staged : /\ Commit(w) /\ w \in Write
                            /\ Allowed(w.by, w.next, w.event, w.receipt, w.then)
    BY <1>1, OnlyCommits
  <2> QED BY <1>1, <2>1 DEF Allowed, Commit
<1>2. IInv /\ FInv /\ [Next]_vars =>
        [job'.claim \notin {None, job.claim} /\ job'.claim.at >= Deadline(job) =>
           \/ job.recovery = job'.claim.callback
           \/ job.claim # None /\ job.claim.callback = job'.claim.callback]_vars
  BY <1>1
<1> QED BY <1>2, Invariance, FencesStand, PTL DEF Spec, LateClaimIsRecovery

\* A Worker that dies holding a claim strands nobody: its callback is taken again
\* until the settlement deadline, and then a poll can end the job.
THEOREM RetryCorrect == Spec => []NeverStranded
<1>1. ASSUME IInv, FInv, Open PROVE NeverStranded
  <2>1. /\ job \in Job /\ job.status \in Status \ Terminal /\ now \in Nat
        /\ Deadline(job) \in Nat /\ Settlement(job) \in Nat /\ Settlement(job) >= Deadline(job)
    BY <1>1, ConstantsOK DEF IInv, TypeOK, Job, Open, Deadline, Settlement
  <2>2. ASSUME Settling # None, now < Settlement(job), job.claim = None \/ ClaimLapsed(job, now),
               job.write = None \/ WriteLapsed(job, now)
        PROVE  MayClaim(Settling)
    <3>1. /\ Settling \in Callback /\ Settling.status \in Transitions[job.status]
          /\ Settling.cursor <= job.cursor /\ Settling.cursor \in Nat /\ job.cursor \in Nat
      BY <1>1, <2>1, <2>2 DEF FInv, Retriable, Settling, Callback, Job
    <3> QED BY <2>1, <2>2, <3>1 DEF MayClaim, MayComplete, Matching, Settling
  <2>3. ASSUME now >= Settlement(job) PROVE MayMove("TIMED_OUT")
    <3>1. "TIMED_OUT" \in Transitions[job.status]
      BY <2>1 DEF Status, Active, Terminal, Transitions
    <3>2. now >= Deadline(job)
      BY <2>1, <2>3
    <3>3. job.claim # None => ClaimLapsed(job, now)
      BY <2>3, <3>2 DEF ClaimLapsed
    <3>4. job.write # None => WriteLapsed(job, now)
      BY <3>2 DEF WriteLapsed
    <3> QED BY <2>3, <3>1, <3>3, <3>4 DEF MayMove
  <2> QED BY <2>2, <2>3 DEF NeverStranded
<1>2. IInv /\ FInv => NeverStranded
  BY <1>1 DEF NeverStranded
<1> QED BY <1>2, Invariance, FencesStand, PTL

\* Nor is that callback forgotten while the job is open.
THEOREM SettlingCorrect == Spec => SettlingIsKept
<1>1. ASSUME IInv, FInv, [Next]_vars, Settling # None, Settling' # Settling, Open'
      PROVE  job.claim = None /\ job'.claim # None
  <2>1. job' # job
    BY <1>1 DEF Settling
  <2>2. PICK w \in staged : /\ Commit(w) /\ w \in Write
                            /\ Allowed(w.by, w.next, w.event, w.receipt, w.then)
    BY <1>1, <2>1, OnlyCommits
  <2>3. job' = w.next /\ KeepsSettling(job')
    BY <2>2 DEF Allowed, Commit
  <2> QED BY <1>1, <2>3 DEF KeepsSettling, Settling, Open
<1>2. IInv /\ FInv /\ [Next]_vars =>
        [Settling # None /\ Settling' # Settling /\ Open' =>
           job.claim = None /\ job'.claim # None]_vars
  BY <1>1
<1> QED BY <1>2, Invariance, FencesStand, PTL DEF Spec, SettlingIsKept

\* A failed dispatch ends only the job it was the one to dispatch.
THEOREM DispatchCorrect == Spec => DispatchFailureIsFenced
<1>1. ASSUME IInv, FInv, [Next]_vars, log' = Append(log, "failure")
      PROVE  job.status = "STARTING" /\ ~job.acked /\ job.claim = None
  <2>1. log' # log /\ Len(log') = Len(log) + 1 /\ log'[Len(log')] = "failure"
    <3>1. log \in Seq(Sources) /\ "failure" \in Sources
      BY <1>1 DEF IInv, TypeOK, Sources
    <3> QED BY <1>1, <3>1
  <2>2. PICK w \in staged : /\ Commit(w) /\ w \in Write
                            /\ Allowed(w.by, w.next, w.event, w.receipt, w.then)
    BY <1>1, <2>1, OnlyCommits
  <2>3. w.event \in Sources /\ log' = Append(log, w.event) /\ log \in Seq(Sources)
    BY <1>1, <2>1, <2>2 DEF Commit, IInv, TypeOK, Write
  <2>4. w.event = "failure"
    BY <2>1, <2>3 DEF Sources
  <2> QED BY <2>2, <2>4 DEF Allowed
<1>2. IInv /\ FInv /\ [Next]_vars =>
        [log' = Append(log, "failure") =>
           job.status = "STARTING" /\ ~job.acked /\ job.claim = None]_vars
  BY <1>1
<1> QED BY <1>2, Invariance, FencesStand, PTL DEF Spec, DispatchFailureIsFenced

\* A scientific run is VERIFIED only with all the Worker's events directly after
\* the runner's, and no other among them: proved for the kinds without candidate
\* events, when every callback that reports success closes the same events, as those
\* of the container do (HostedRunner, ScientificRunCloses).
THEOREM WitnessCorrect ==
  ASSUME ~Repairs,
         \A b, c \in Callbacks :
           b.status = "VERIFIED" /\ c.status = "VERIFIED" => b.cursor = c.cursor
  PROVE  Spec => []VerifiedRunIsWitnessed
<1> DEFINE VerifierLast ==
             \A c \in Callbacks : \A i \in 1..Len(log) :
               c.status = "VERIFIED" /\ log[i] = "verifier" => i > c.cursor
<1>1. Init => VerifierLast
  BY DEF Init
<1>2. IInv /\ FInv /\ VerifierLast /\ [Next]_vars => VerifierLast'
  <2> SUFFICES ASSUME IInv, FInv, VerifierLast, [Next]_vars, NEW c \in Callbacks,
                      NEW i \in 1..Len(log'), c.status = "VERIFIED",
                      log'[i] = "verifier"
               PROVE  i > c.cursor
    OBVIOUS
  <2>1. CASE log' = log
    BY <2>1
  <2>2. CASE log' # log
    <3>1. PICK w \in staged : /\ Commit(w) /\ w \in Write
                              /\ Allowed(w.by, w.next, w.event, w.receipt, w.then)
      BY <2>2, OnlyCommits
    <3>2. /\ w.event \in Sources /\ log' = Append(log, w.event)
          /\ log \in Seq(Sources) /\ job.cursor = Len(log)
      BY <2>2, <3>1 DEF Commit, IInv, TypeOK, Write, OutcomeIsExplained
    <3>3. CASE i \in 1..Len(log)
      BY <3>2, <3>3
    <3>4. CASE i = Len(log) + 1
      <4>1. job.claim # None /\ job.claim.callback.status = "VERIFIED"
        BY <3>1, <3>2, <3>4 DEF Allowed
      <4>2. job.claim.callback \in Callbacks /\ job.claim.callback.cursor <= job.cursor
        BY <4>1 DEF FInv, ClaimKnown
      <4>3. c \in Callback /\ c.cursor = job.claim.callback.cursor
        BY <4>1, <4>2, ConstantsOK
      <4> QED BY <3>2, <3>4, <4>2, <4>3 DEF Callback
    <3> QED BY <3>2, <3>3, <3>4
  <2> QED BY <2>1, <2>2
<1>3. IInv /\ FInv /\ VerifierLast => VerifiedRunIsWitnessed
  <2> SUFFICES ASSUME IInv, FInv, VerifierLast, NEW r \in receipts, r.status = "VERIFIED",
                      NEW i \in 1..Len(log)
               PROVE  log[i] = "verifier" <=> i > r.cursor - AuthorityEvents
    BY DEF VerifiedRunIsWitnessed
  <2>1. PICK c \in Callbacks : /\ c.status = "VERIFIED"
                               /\ r.cursor = c.cursor + AuthorityEvents
                               /\ \A j \in (c.cursor + 1)..Len(log) : log[j] = "verifier"
    BY DEF FInv, ReceiptsAreWitnessed, Witnessed
  <2>2. c.cursor \in Nat /\ AuthorityEvents \in Nat
    BY ConstantsOK DEF Callback
  <2>3. r.cursor - AuthorityEvents = c.cursor
    BY <2>1, <2>2
  <2> QED BY <2>1, <2>2, <2>3
<1> HIDE DEF VerifierLast
<1> QED BY <1>1, <1>2, <1>3, Invariance, FencesStand, PTL DEF Spec
=============================================================================
