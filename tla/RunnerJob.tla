----------------------------- MODULE RunnerJob -----------------------------
(***************************************************************************)
(* One runner job of the control plane: its row in runner_jobs, its public *)
(* events, its callback receipt, and every Worker request that reads and   *)
(* writes them (packages/session-core/src/runner-jobs.ts and the routes of *)
(* apps/web/worker/api.ts).                                                *)
(*                                                                         *)
(* A service method reads the row and the clock, decides, builds the next  *)
(* row, and saves it with a compare-and-swap on the version it read.  Each *)
(* method is therefore two steps here: an action that reads and STAGES the *)
(* write, and Commit or Conflict, any time later, when the database runs   *)
(* the statement.  Times are whole units of the Workers' common clock; the *)
(* job is created at time 0.                                               *)
(***************************************************************************)
EXTENDS RunnerStatus, Naturals, Sequences

CONSTANTS
  Handlers,        \* Workers serving dispatch, runner, poll and cancel requests
  Deliveries,      \* HTTP requests that each carry one runner callback
  Uploads,         \* HTTP requests that each PUT one output file
  Callbacks,       \* the callbacks the runner may send
  None,            \* an absent optional field of the row
  Repairs,         \* the kind has the candidate and repair loop (compile jobs)
  Closes,          \* the callback route first closes the stream (v5 run, v5 patch)
  AuthorityEvents, \* events the Worker itself appends before VERIFIED (v5 run)
  MaxAttempts, Timeout, ClaimTTL, Grace,
  MaxCursor,       \* bound: no runner or candidate event past this cursor
  LastDispatch,    \* bound: no first dispatch after this time
  MaxTime          \* bound: the clock stops here

Outcomes == {"VERIFIED", "REJECTED", "FAILED"}

\* What of a callback decides anything: its idempotency key, the fields that a
\* retry must repeat (body), status, typed error, and the event cursor it closes.
Callback == [key : STRING, body : STRING, status : Outcomes,
             error : {"none", "runner", "worker"}, cursor : Nat]

Processes == Handlers \cup Deliveries \cup Uploads

Claim == [callback : Callback, owner : Deliveries, at : Nat]
WriteClaim == [owner : Uploads, at : Nat]

ASSUME ConstantsOK ==
  /\ Handlers \cap Deliveries = {} /\ Handlers \cap Uploads = {}
  /\ Deliveries \cap Uploads = {}
  /\ Callbacks \subseteq Callback
  /\ None \notin Claim /\ None \notin WriteClaim /\ None \notin Callback
  /\ Repairs \in BOOLEAN /\ Closes \in BOOLEAN
  /\ AuthorityEvents \in Nat /\ (AuthorityEvents > 0 => Closes)
  /\ MaxAttempts \in Nat \ {0} /\ Timeout \in Nat \ {0}
  /\ ClaimTTL \in Nat \ {0} /\ Grace \in Nat \ {0}
  /\ MaxCursor \in Nat /\ LastDispatch \in Nat /\ MaxTime \in Nat

VARIABLES
  job,       \* the row of runner_jobs
  log,       \* the sources of its public events; an event's index is its cursor
  receipts,  \* runner_callback_receipts
  now,       \* the clock
  staged,    \* writes built by a request and not yet run by the database
  pc, seen,  \* per request: where it is, and the row version its next write
             \* must still find (0 when that write reads the row again)
  request,   \* the callback each delivery carries
  delivered  \* a container has received the job

vars == <<job, log, receipts, now, staged, pc, seen, request, delivered>>
requests == <<pc, seen>>

Job == [status : Status, version : Nat, attempt : Nat, cursor : Nat,
        started : Nat,      \* startedAt, or createdAt (0) before the dispatch
        completed : Nat,    \* completedAt once terminal, 0 before
        acked : BOOLEAN,    \* dispatchAcknowledgedAt is present
        claim : Claim \cup {None}, recovery : Callback \cup {None},
        write : WriteClaim \cup {None}]

Sources == {"runner", "verifier", "failure"}

Phases == {"idle", "starting", "admitted", "dispatched", "failing", "rejected",
           "sent", "claimed", "verifying", "appending", "recorded", "overruled",
           "reverifying", "duplicate", "conflict", "refused", "writing",
           "releasing", "released", "crashed"}

\* A staged statement (or D1 batch): the row it replaces is the one of version
\* base; then is where the request goes on once the write has committed.
Write == [by : Processes, base : Nat, next : Job, event : Sources \cup {"none"},
          receipt : Callback \cup {None}, then : Phases]

Init ==
  /\ job = [status |-> "QUEUED", version |-> 1, attempt |-> 0, cursor |-> 0,
            started |-> 0, completed |-> 0, acked |-> FALSE,
            claim |-> None, recovery |-> None, write |-> None]
  /\ log = <<>> /\ receipts = {} /\ now = 0 /\ staged = {}
  /\ pc = [p \in Processes |-> IF p \in Handlers THEN "idle" ELSE "sent"]
  /\ seen = [p \in Processes |-> 0]
  /\ request \in [Deliveries -> Callbacks]
  /\ delivered = FALSE

-----------------------------------------------------------------------------
(* Deadlines and claims *)

Deadline(j) == j.started + Timeout
Settlement(j) == Deadline(j) + Grace

\* Mutant of ClaimLapsed: the claim of a crashed Worker never ends.
NeverLapsed(j, t) == FALSE

\* A live claim ends ClaimTTL after it was taken, but never outlives the
\* deadline; one taken after the deadline lives to the settlement deadline.
ClaimLapsed(j, t) ==
  /\ j.claim # None
  /\ IF j.claim.at >= Deadline(j)
     THEN t >= Settlement(j)
     ELSE t >= j.claim.at + ClaimTTL \/ t >= Deadline(j)

WriteLapsed(j, t) ==
  /\ j.write # None
  /\ t >= j.write.at + ClaimTTL \/ t >= Deadline(j)

Open == job.status \notin Terminal

(* Staged writes *)

Busy(p) == \E w \in staged : w.by = p

\* Mutant of Fresh: the UPDATE without its version condition.
BlindWrite(w) == TRUE

\* The statement still finds the row version it was built from.
Fresh(w) == w.base = job.version

Stage(p, next, event, receipt, then) ==
  /\ staged' = staged \cup {[by |-> p, base |-> job.version, next |-> next,
                             event |-> event, receipt |-> receipt, then |-> then]}
  /\ UNCHANGED <<job, log, receipts, now, requests, request, delivered>>

\* The request goes on without touching the row.
Goto(p, phase) ==
  /\ pc' = [pc EXCEPT ![p] = phase]
  /\ seen' = [seen EXCEPT ![p] = 0]
  /\ UNCHANGED <<job, log, receipts, now, staged, request, delivered>>

\* The phases whose next write passes on the version of the row just saved.
Fenced == {"starting", "rejected", "claimed", "appending"}

\* The database runs the statement: row, event and receipt change together.
Commit(w) ==
  /\ Fresh(w)
  /\ job' = w.next
  /\ log' = IF w.event = "none" THEN log ELSE Append(log, w.event)
  /\ receipts' = receipts \cup ({w.receipt} \ {None})
  /\ staged' = staged \ {w}
  /\ pc' = [pc EXCEPT ![w.by] = w.then]
  /\ seen' = [seen EXCEPT ![w.by] = IF w.then \in Fenced THEN w.next.version ELSE 0]
  /\ UNCHANGED <<now, request, delivered>>

\* Where a request goes when its write meets a newer version: a failed claim is
\* an error reply, a failed step of the callback route runs onError, and the
\* releases read again.
AfterConflict ==
  [phase \in Phases |->
     CASE phase = "sent" -> "refused"
       [] phase \in {"claimed", "verifying", "appending", "releasing"} -> "releasing"
       [] OTHER -> "idle"]

Conflict(w) ==
  /\ ~Fresh(w)
  /\ staged' = staged \ {w}
  /\ pc' = [pc EXCEPT ![w.by] = AfterConflict[@]]
  /\ seen' = [seen EXCEPT ![w.by] = 0]
  /\ UNCHANGED <<job, log, receipts, now, request, delivered>>

(* The next row of each kind of write *)

\* A status move also retires lapsed claims, a callback claim into recovery.
Moved(to) ==
  [job EXCEPT
     !.status = to,
     !.version = @ + 1,
     !.attempt = IF to \in {"STARTING", "REPAIRING"} THEN @ + 1 ELSE @,
     !.started = IF to = "STARTING" THEN now ELSE @,
     !.completed = IF to \in Terminal THEN now ELSE @,
     !.claim = IF ClaimLapsed(job, now) THEN None ELSE @,
     !.recovery = IF ClaimLapsed(job, now) THEN job.claim.callback ELSE @,
     !.write = IF WriteLapsed(job, now) THEN None ELSE @]

InSettlement == job.claim # None \/ job.recovery # None

\* Mutant of MayMove: cancel and expire do not look at the claims.
MayMoveAnyway(to) ==
  /\ to \in Transitions[job.status]
  /\ to = "TIMED_OUT" /\ InSettlement => now >= Settlement(job)

MayMove(to) ==
  /\ to \in Transitions[job.status]
  /\ to = "TIMED_OUT" /\ InSettlement => now >= Settlement(job)
  /\ to \in {"CANCELLED", "TIMED_OUT"} =>
       /\ job.claim = None \/ ClaimLapsed(job, now)
       /\ job.write = None \/ WriteLapsed(job, now)

Appended == [job EXCEPT !.cursor = @ + 1, !.version = @ + 1]

\* Mutants of MayAppend: one kind of claim is forgotten.
AppendUnderWrite == Open /\ job.claim = None
AppendUnderClaim == Open /\ job.write = None

\* Without a claim token an event needs a job no claim stands on, lapsed or not.
MayAppend == Open /\ job.claim = None /\ job.write = None

-----------------------------------------------------------------------------
(* Dispatch: dispatchRecoverableRunnerJob, after lab/compile, run or patch *)

Idle(h) == pc[h] = "idle" /\ ~Busy(h)

StartDispatch(h) ==
  /\ Idle(h) /\ now <= LastDispatch
  /\ MayMove("STARTING")
  /\ Stage(h, Moved("STARTING"), "none", None, "starting")

\* A request that finds the job STARTING and unacknowledged, its own move or
\* another's, dispatches it if the admission controller grants a lease (the
\* controller is module Admission; here it may decide either way).
AdmitDispatch(h) ==
  /\ \/ pc[h] = "starting" /\ seen' = seen
     \/ /\ Idle(h) /\ job.status = "STARTING" /\ ~job.acked
        /\ seen' = [seen EXCEPT ![h] = job.version]
  /\ pc' = [pc EXCEPT ![h] = "admitted"]
  /\ UNCHANGED <<job, log, receipts, now, staged, request, delivered>>

\* Another request holds the lease, or a budget or the active limit denies one:
\* the request ends and the job stays STARTING.
NotAdmitted(h) == pc[h] = "starting" /\ Goto(h, "idle")

Dispatch(h) ==
  /\ pc[h] = "admitted"
  /\ delivered' = TRUE
  /\ pc' = [pc EXCEPT ![h] = "dispatched"]
  /\ UNCHANGED <<job, log, receipts, now, staged, seen, request>>

Acknowledge(h) ==
  /\ pc[h] = "dispatched" /\ ~Busy(h)
  /\ IF job.acked \/ job.version # seen[h] \/ job.status # "STARTING"
     THEN Goto(h, "idle")
     ELSE Stage(h, [job EXCEPT !.acked = TRUE, !.version = @ + 1],
                "none", None, "idle")

\* The container did not answer, whether or not it has the job.
DispatchFails(h) ==
  /\ pc[h] \in {"admitted", "dispatched"} /\ ~Busy(h)
  /\ pc' = [pc EXCEPT ![h] = "failing"]
  /\ UNCHANGED <<job, log, receipts, now, staged, seen, request, delivered>>

\* Mutant of FailJob: the failure is written to whatever row is there.
FailAnyVersion(h) ==
  /\ pc[h] = "failing" /\ ~Busy(h)
  /\ IF MayAppend /\ "FAILED" \in Transitions[job.status]
     THEN Stage(h, [Appended EXCEPT !.status = "FAILED", !.completed = now],
                "failure", None, "idle")
     ELSE Goto(h, "idle")

FailJob(h) ==
  /\ pc[h] = "failing" /\ ~Busy(h)
  /\ IF MayAppend /\ "FAILED" \in Transitions[job.status] /\ job.version = seen[h]
     THEN Stage(h, [Appended EXCEPT !.status = "FAILED", !.completed = now],
                "failure", None, "idle")
     ELSE Goto(h, "idle")

-----------------------------------------------------------------------------
(* The other requests of the runner and of the learner's page *)

Start(h) ==
  /\ Idle(h) /\ delivered
  /\ job.status = "STARTING" /\ MayMove("RUNNING")
  /\ Stage(h, Moved("RUNNING"), "none", None, "idle")

RunnerEvent(h) ==
  /\ Idle(h) /\ delivered /\ job.cursor < MaxCursor
  /\ job.status \in {"RUNNING", "REPAIRING"} /\ MayAppend
  /\ Stage(h, Appended, "runner", None, "idle")

\* The verdict on a candidate plan is an event, or, rejected, one for each
\* counterexample; a rejected one may go to repair.
JudgeCandidate(h) ==
  /\ job.cursor < MaxCursor /\ MayAppend /\ ~Busy(h)
  /\ \/ /\ pc[h] = "idle" /\ delivered /\ Repairs /\ job.status = "RUNNING"
        /\ \E then \in {"idle", "rejected"} : Stage(h, Appended, "verifier", None, then)
     \/ /\ pc[h] = "rejected" /\ job.version = seen[h]
        /\ Stage(h, Appended, "verifier", None, "rejected")

RequestRepair(h) ==
  /\ pc[h] = "rejected" /\ ~Busy(h)
  /\ IF job.version = seen[h] /\ MayMove("REPAIRING") /\ job.attempt < MaxAttempts
     THEN Stage(h, Moved("REPAIRING"), "none", None, "idle")
     ELSE Goto(h, "idle")

Resume(h) ==
  /\ Idle(h) /\ delivered
  /\ job.status = "REPAIRING" /\ MayMove("RUNNING")
  /\ Stage(h, Moved("RUNNING"), "none", None, "idle")

Cancel(h) ==
  /\ Idle(h) /\ MayMove("CANCELLED")
  /\ Stage(h, Moved("CANCELLED"), "none", None, "idle")

\* Mutant of Expire: the deadline is not compared with the clock.
ExpireEarly(h) ==
  /\ Idle(h) /\ MayMove("TIMED_OUT")
  /\ Stage(h, Moved("TIMED_OUT"), "none", None, "idle")

\* expireIfTimedOut, on every poll of the job's events.
Expire(h) ==
  /\ Idle(h) /\ now >= Deadline(job) /\ MayMove("TIMED_OUT")
  /\ Stage(h, Moved("TIMED_OUT"), "none", None, "idle")

-----------------------------------------------------------------------------
(* Output uploads *)

MayClaimWrite ==
  /\ job.status \in {"RUNNING", "REPAIRING"}
  /\ now < Deadline(job)
  /\ job.claim = None
  /\ job.write = None \/ WriteLapsed(job, now)

ClaimWrite(u) ==
  /\ pc[u] = "sent" /\ ~Busy(u) /\ delivered
  /\ IF MayClaimWrite
     THEN Stage(u, [job EXCEPT !.write = [owner |-> u, at |-> now],
                               !.version = @ + 1], "none", None, "writing")
     ELSE Goto(u, "refused")

\* The body is read and put in the object store, or that fails.
FinishWrite(u) == pc[u] = "writing" /\ Goto(u, "releasing")

ReleaseWrite(u) ==
  /\ pc[u] = "releasing" /\ ~Busy(u)
  /\ IF job.write # None /\ job.write.owner = u
     THEN Stage(u, [job EXCEPT !.write = None, !.version = @ + 1],
                "none", None, "released")
     ELSE Goto(u, "released")

-----------------------------------------------------------------------------
(* Callback deliveries *)

\* A callback answers for the one a receipt holds: the same evidence, or the
\* VERIFIED callback the Worker itself recorded as REJECTED.
SharesOrigin(stored, incoming) ==
  /\ stored.cursor >= incoming.cursor
  /\ stored.key = incoming.key /\ stored.body = incoming.body
  /\ \/ stored.status = incoming.status /\ stored.error = incoming.error
     \/ stored.status = "REJECTED" /\ incoming.status = "VERIFIED"

\* claimCallback finds a receipt of the key.  If it answers for this callback and
\* the session shows it already, that is the reply; otherwise the route verifies
\* once more, without a claim.
Duplicate(d) ==
  /\ pc[d] = "sent" /\ ~Busy(d)
  /\ \E r \in receipts :
       /\ r.key = request[d].key
       /\ IF SharesOrigin(r, request[d])
          THEN \E then \in {"duplicate", "reverifying"} : Goto(d, then)
          ELSE Goto(d, "conflict")

\* Mutant of MayClaim: a retry is refused once the stream has grown.
MayClaimExact(c) ==
  LET matching == job.claim # None /\ job.claim.callback = c
      retaken == matching /\ ClaimLapsed(job, now)
  IN /\ c.status \in Transitions[job.status]
     /\ now < Settlement(job)
     /\ now >= Deadline(job) => job.recovery = c \/ matching
     /\ job.cursor = c.cursor
     /\ job.claim = None \/ retaken
     /\ job.write = None \/ WriteLapsed(job, now)

Matching(c) == job.claim # None /\ job.claim.callback = c

\* What claimCallback asks of the row before it looks whose claim stands there.
MayComplete(c) ==
  LET retaken == Matching(c) /\ ClaimLapsed(job, now)
      recovering == job.recovery = c
  IN /\ c.status \in Transitions[job.status]
     /\ now < Settlement(job)
     /\ now >= Deadline(job) => recovering \/ Matching(c)
     /\ \/ job.cursor = c.cursor
        \/ job.cursor > c.cursor /\ (recovering \/ retaken)

MayClaim(c) ==
  /\ MayComplete(c)
  /\ job.claim = None \/ (Matching(c) /\ ClaimLapsed(job, now))
  /\ job.write = None \/ WriteLapsed(job, now)

\* Mutant of ClaimedByAnother: every claim in the way is called a conflict.
ClaimedByAnyone(c) == job.claim # None

\* Another callback's claim, lapsed or not, is a conflict; a live claim for this
\* one, or an output being written, is not.
ClaimedByAnother(c) == job.claim # None /\ ~Matching(c)

\* No receipt was found for the key; the row is read afterwards, so it may
\* already be terminal by one that has come since.
ClaimCallback(d) ==
  LET c == request[d] IN
  /\ pc[d] = "sent" /\ ~Busy(d) /\ delivered
  /\ IF MayClaim(c)
     THEN Stage(d, [job EXCEPT !.claim = [callback |-> c, owner |-> d, at |-> now],
                               !.recovery = None, !.write = None, !.version = @ + 1],
                "none", None,
                IF Closes /\ c.status = "VERIFIED" /\ job.status # "AWAITING_APPROVAL"
                THEN "claimed" ELSE "verifying")
     ELSE Goto(d, IF MayComplete(c) /\ ClaimedByAnother(c) THEN "conflict" ELSE "refused")

\* closeScientificRunnerBoundary, on the row the claim returned; it carries no
\* claim token.
CloseBoundary(d) ==
  /\ pc[d] = "claimed" /\ ~Busy(d)
  /\ job.version = seen[d] /\ job.cursor = request[d].cursor
  /\ MayMove("AWAITING_APPROVAL")
  /\ Stage(d, Moved("AWAITING_APPROVAL"), "none", None, "verifying")

\* d still holds the claim, for its own callback, and it is live.
Owns(d) ==
  /\ job.claim # None /\ job.claim.owner = d /\ job.claim.callback = request[d]
  /\ ~ClaimLapsed(job, now)

\* Every event past the runner's own cursor is one this Worker code appends.
AuthorityPrefix(d) ==
  \A i \in (request[d].cursor + 1)..Len(log) : log[i] = "verifier"

AppendAuthority(d) ==
  /\ pc[d] \in {"verifying", "appending"} /\ ~Busy(d)
  /\ request[d].status = "VERIFIED"
  /\ job.cursor < request[d].cursor + AuthorityEvents /\ AuthorityPrefix(d)
  /\ pc[d] = "appending" => job.version = seen[d]
  /\ Open /\ Owns(d) /\ job.write = None
  /\ Stage(d, Appended, "verifier", None, "appending")

Withheld(c) == [c EXCEPT !.status = "REJECTED", !.error = "worker"]

\* Mutant of Verdicts: VERIFIED is recorded at the runner's own cursor.
UnwitnessedVerdicts(d) == {request[d], Withheld(request[d])}

\* The terminal callbacks the route may record for the one it received.  With
\* the authority events appended the cursor is theirs; a verification that ends
\* in an error records the runner's cursor.
Verdicts(d) ==
  LET c == request[d]
      closed == [c EXCEPT !.cursor = @ + AuthorityEvents]
  IN IF c.status # "VERIFIED" THEN {c}
     ELSE {Withheld(c)} \cup (IF AuthorityPrefix(d) THEN {closed, Withheld(closed)} ELSE {})

\* recordCallback finds a receipt of the key it is to record: it answers with
\* that one if it stands for the verdict reached now, and with a conflict if not,
\* as when the two verifications came to different ends (two rejections may name
\* different errors).
FindReceipt(d, agreed, differs) ==
  \E r \in receipts, t \in Verdicts(d) :
    /\ r.key = request[d].key /\ t.cursor <= job.cursor
    /\ \/ SharesOrigin(r, t) /\ Goto(d, agreed)
       \/ ~SharesOrigin(r, t) /\ Goto(d, differs)
       \/ t.error = "worker" /\ Goto(d, differs)

\* A delivery whose claim was lost may find that the callback has been recorded
\* meanwhile.  Its conflict is an error reply; onError releases nothing, since a
\* job with a receipt keeps no claim.
RecordCallback(d) ==
  /\ pc[d] \in {"verifying", "appending"} /\ ~Busy(d)
  /\ \/ FindReceipt(d, "recorded", "overruled")
     \/ /\ Owns(d) /\ now < Settlement(job)
        /\ \E t \in Verdicts(d) :
             /\ t.cursor = job.cursor
             /\ t.status \in Transitions[job.status]
             /\ Stage(d, [job EXCEPT !.status = t.status, !.completed = now,
                                     !.claim = None, !.recovery = None,
                                     !.version = @ + 1], "none", t, "recorded")

\* The duplicate that was not yet shown: verified again, it calls recordCallback
\* again, or the verification ends in an error.
VerifyAgain(d) ==
  /\ pc[d] = "reverifying" /\ ~Busy(d)
  /\ FindReceipt(d, "duplicate", "conflict") \/ Goto(d, "refused")

\* Any error after the claim: onError releases it.
FailDelivery(d) ==
  /\ pc[d] \in {"claimed", "verifying", "appending"} /\ ~Busy(d)
  /\ Goto(d, "releasing")

ReleaseClaim(d) ==
  /\ pc[d] = "releasing" /\ ~Busy(d)
  /\ IF job.claim # None /\ job.claim.owner = d
     THEN Stage(d, [job EXCEPT !.recovery = job.claim.callback, !.claim = None,
                               !.version = @ + 1], "none", None, "released")
     ELSE Goto(d, "released")

\* The Worker serving the request is gone; a claim it took stays in the row.
Crash(p) ==
  /\ pc[p] \in {"claimed", "verifying", "appending", "writing", "releasing"}
  /\ pc' = [pc EXCEPT ![p] = "crashed"]
  /\ seen' = [seen EXCEPT ![p] = 0]
  /\ staged' = {w \in staged : w.by # p}
  /\ UNCHANGED <<job, log, receipts, now, request, delivered>>

-----------------------------------------------------------------------------

Tick ==
  /\ now < MaxTime
  /\ now' = now + 1
  /\ UNCHANGED <<job, log, receipts, staged, requests, request, delivered>>

DispatchStep(h) ==
  \/ StartDispatch(h) \/ AdmitDispatch(h) \/ NotAdmitted(h) \/ Dispatch(h)
  \/ Acknowledge(h) \/ DispatchFails(h) \/ FailJob(h)

HandlerStep(h) ==
  \/ DispatchStep(h) \/ Start(h) \/ RunnerEvent(h) \/ JudgeCandidate(h)
  \/ RequestRepair(h) \/ Resume(h) \/ Cancel(h) \/ Expire(h)

UploadStep(u) ==
  ClaimWrite(u) \/ FinishWrite(u) \/ ReleaseWrite(u) \/ Crash(u)

DeliveryStep(d) ==
  \/ Duplicate(d) \/ ClaimCallback(d) \/ CloseBoundary(d) \/ AppendAuthority(d)
  \/ RecordCallback(d) \/ VerifyAgain(d) \/ FailDelivery(d) \/ ReleaseClaim(d)
  \/ Crash(d)

Next ==
  \/ Tick
  \/ \E w \in staged : Commit(w) \/ Conflict(w)
  \/ \E h \in Handlers : HandlerStep(h)
  \/ \E u \in Uploads : UploadStep(u)
  \/ \E d \in Deliveries : DeliveryStep(d)

Spec == Init /\ [][Next]_vars

\* Requests the platform runs to an end do end, and the learner's page polls.
\* Deliveries and uploads may stop anywhere.
Finish(h) ==
  /\ pc[h] \in {"starting", "admitted", "dispatched", "failing", "rejected"}
  /\ DispatchStep(h) \/ RequestRepair(h)

Fairness ==
  /\ WF_vars(Tick)
  /\ WF_vars(\E w \in staged : w.by \in Handlers /\ (Commit(w) \/ Conflict(w)))
  /\ \A h \in Handlers : WF_vars(Finish(h)) /\ WF_vars(Expire(h))

FairSpec == Spec /\ Fairness

-----------------------------------------------------------------------------
TypeOK ==
  /\ job \in Job
  /\ log \in Seq(Sources)
  /\ receipts \subseteq Callback
  /\ now \in Nat
  /\ staged \subseteq Write
  /\ pc \in [Processes -> Phases]
  /\ seen \in [Processes -> Nat]
  /\ request \in [Deliveries -> Callbacks]
  /\ delivered \in BOOLEAN

\* What RunnerJobSchema demands of every row it parses.
ValidJob(j) ==
  /\ j.attempt <= MaxAttempts
  /\ j.claim = None \/ j.write = None
  /\ j.status \in Terminal => j.claim = None /\ j.write = None

\* No request ever builds a row that RunnerJobSchema.parse would reject in the
\* middle of an operation: the two kinds of claim exclude each other, a terminal
\* job keeps none, and repairs stay within maxAttempts, whatever was interleaved
\* before the row was read.
SchemaHolds ==
  \A j \in {job} \cup {w.next : w \in staged} : ValidJob(j)

\* A job that ended says why.  VERIFIED and REJECTED come from one recorded
\* callback, the only receipt, which closes exactly the events published; FAILED
\* from such a receipt or from the failure event of the dispatch; and a receipt
\* never stands beside any other outcome (runner_jobs, runner_public_events and
\* runner_callback_receipts agree after every interleaving).
OutcomeIsExplained ==
  /\ job.cursor = Len(log)
  /\ \A r \in receipts :
       receipts = {r} /\ job.status = r.status /\ r.cursor = Len(log)
  /\ job.status \in {"VERIFIED", "REJECTED"} => receipts # {}
  /\ job.status = "FAILED" /\ receipts = {} =>
       log # <<>> /\ log[Len(log)] = "failure"

\* A scientific run is VERIFIED only with all the Worker's authority events, in
\* place directly after the events the runner's callback closed, and with no
\* runner event among or after them (callback recovery resumes a partial series).
VerifiedRunIsWitnessed ==
  \A r \in receipts :
    r.status = "VERIFIED" =>
      \A i \in 1..Len(log) :
        log[i] = "verifier" <=> i > r.cursor - AuthorityEvents

\* A callback decides a job only before the settlement deadline, a timeout only
\* from the deadline on, even when the write reaches the database late.
SettledInTime ==
  /\ receipts # {} => job.completed < Settlement(job)
  /\ job.status = "TIMED_OUT" => job.completed >= Deadline(job)

\* The delivery has held the claim for its callback.
HasClaimed(d) ==
  pc[d] \in {"claimed", "verifying", "appending", "recorded", "overruled", "releasing",
            "released", "crashed"}

\* A receipt of the delivery's key stands, or another callback has held the claim.
Contested(d) ==
  \/ \E r \in receipts : r.key = request[d].key
  \/ \E e \in Deliveries : HasClaimed(e) /\ request[e] # request[d]

\* What a delivery was answered stays true: recorded or duplicate means that the
\* receipt is an outcome of the callback it carried.  A conflict means that a
\* receipt of its key stands, or that a different callback has held the claim: a
\* callback nobody competes with is told of a conflict at most once its own outcome
\* is recorded, by a verification that came out otherwise than the first.
AnswersAreTrue ==
  \A d \in Deliveries :
    /\ pc[d] \in {"recorded", "duplicate"} =>
         \E r \in receipts : SharesOrigin(r, request[d])
    /\ pc[d] \in {"conflict", "overruled"} => Contested(d)

\* A terminal job is final: no late write of any request changes its row, its
\* events or its receipt.
TerminalIsFinal ==
  [][~Open => UNCHANGED <<job, log, receipts>>]_vars

\* A live callback claim leaves the row only by its owner's hand, and the job
\* does not end under it by any other: the owner records the outcome, closes or
\* releases, and nobody cancels, expires or takes over before.
ClaimFence ==
  [][job.claim # None /\ (job'.claim # job.claim \/ job'.status \in Terminal) =>
       \/ ClaimLapsed(job, now)
       \/ pc[job.claim.owner] # pc'[job.claim.owner]]_vars

\* While a callback is being verified the stream it closes grows only by the
\* authority events of the claim's owner, and while an output is being written
\* it does not grow at all.
EventFence ==
  [][log' # log =>
       /\ job.write = None
       /\ job.claim # None =>
            /\ log' = Append(log, "verifier")
            /\ pc'[job.claim.owner] = "appending"]_vars

\* After the deadline only a callback that already held the claim may claim.
LateClaimIsRecovery ==
  [][job'.claim \notin {None, job.claim} /\ job'.claim.at >= Deadline(job) =>
       \/ job.recovery = job'.claim.callback
       \/ job.claim # None /\ job.claim.callback = job'.claim.callback]_vars

\* The callback that is to settle the job: it holds the claim, or held it last.
Settling == IF job.claim # None THEN job.claim.callback ELSE job.recovery

\* A Worker that dies while it verifies a callback strands nobody: as soon as its
\* claim has lapsed, and up to the settlement deadline, the same callback is taken
\* again, with whatever part of the authority events is there already and whatever
\* was moved or appended since; from then on a poll can end the job.
NeverStranded ==
  Open =>
    /\ /\ Settling # None /\ now < Settlement(job)
       /\ job.claim = None \/ ClaimLapsed(job, now)
       /\ job.write = None \/ WriteLapsed(job, now)
       => MayClaim(Settling)
    /\ now >= Settlement(job) => MayMove("TIMED_OUT")

\* And it is not forgotten while the job is open: only another callback displaces
\* it, and only by a claim taken when nobody held one.
SettlingIsKept ==
  [][Settling # None /\ Settling' # Settling /\ Open' =>
       job.claim = None /\ job'.claim # None]_vars

\* A dispatch that failed, or only seemed to, never ends a job that another
\* request has moved on: not one the runner started, nor one acknowledged to a
\* competing dispatcher, nor one whose callback is being processed.
DispatchFailureIsFenced ==
  [][log' = Append(log, "failure") =>
       job.status = "STARTING" /\ ~job.acked /\ job.claim = None]_vars

\* As long as somebody polls, every job ends, whatever crashed holding a claim.
EventuallyTerminal == <>(~Open)

\* docs/DECISIONS.md: "Expire abandoned non-terminal claims only after the
\* bounded job deadline": an output-write claim leaves the row by its owner's
\* release or at the deadline.
WriteClaimsLastToDeadline ==
  [][job.write # None /\ job'.write # job.write =>
       \/ now >= Deadline(job)
       \/ pc[job.write.owner] # pc'[job.write.owner]]_vars

\* The job keeps its promise.
Lifecycle == INSTANCE JobLifecycle WITH status <- job.status

KeepsPromise == Lifecycle!Spec
=============================================================================
