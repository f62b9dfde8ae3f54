---------------------------- MODULE ControlPlane ----------------------------
(***************************************************************************)
(* How the routes of apps/web/worker/api.ts carry a learner's live session *)
(* and its runner jobs forward together: learner requests that create or   *)
(* reuse a job, runner callbacks that decide it and project the outcome,   *)
(* and polls and cancels that project its end.  Session and job are rows   *)
(* of their own; every route reads one, writes the other and acts on what  *)
(* it read, so each await that matters is a step here.                     *)
(*                                                                         *)
(* A service operation on the session is one step (Session, SessionStore), *)
(* a job moves as RunnerStatus allows (RunnerJob), and the verification of *)
(* frozen bytes gives the same answer each time (RunAuthority).  The       *)
(* protocol is the v5 one; the v1 branches project alike.                  *)
(***************************************************************************)
EXTENDS RunnerStatus, Naturals, Sequences

CONSTANTS
  None,      \* an absent field
  Requests,  \* HTTP requests in flight
  Starts,    \* where the learner is: "prediction", "result" or "transfer"
  MaxNew     \* how many jobs are created from there on

ASSUME ConstantsOK ==
  /\ MaxNew \in Nat
  /\ None \notin Requests
  /\ None \notin {"VERIFIED", "FAILED", "SUPPORTS", "INCONCLUSIVE", "REJECTED", "BROKEN"}
  /\ Starts \subseteq {"prediction", "result", "transfer"}

VARIABLES
  session,   \* the learner's aggregate; jobs are named by their number
  jobs,      \* runner_jobs, in order of creation
  request,   \* what each request has read and is about to do
  budget     \* jobs that may still be created

vars == <<session, jobs, request, budget>>

Kinds == {"LAB_COMPILE", "LAB_RUN", "BOUNDARY", "PATCH_COMPILE"}

\* What the external verifier finds in the bytes of a job.
Findings(kind) ==
  CASE kind = "LAB_RUN" -> {"SUPPORTS", "INCONCLUSIVE", "REJECTED", "BROKEN"}
    [] OTHER -> {"VERIFIED", "BROKEN"}

Idle == [pc |-> "idle", kind |-> None, job |-> 0, message |-> None,
         duplicate |-> FALSE, snap |-> None, finding |-> None]

NewJob(kind, basis, found) ==
  [kind |-> kind, basis |-> basis, found |-> found, status |-> "QUEUED",
   claim |-> None, receipt |-> None, answered |-> FALSE]

Ended(kind, basis, found) ==
  [NewJob(kind, basis, found) EXCEPT !.status = "VERIFIED", !.receipt = "VERIFIED",
                                     !.answered = TRUE]

NewSession ==
  [state |-> "PREDICTION_COMMITTED", lab |-> 0, result |-> 0, verdict |-> None, report |-> 0,
   boundary |-> 0, transfer |-> FALSE, patch |-> 0, capsule |-> FALSE,
   withheld |-> {}, rejects |-> {}]

Released ==
  [NewSession EXCEPT !.state = "EXPERIMENT_COMPLETED", !.lab = 1, !.result = 2,
                     !.report = 2, !.verdict = "SUPPORTS"]

LabAndRun == <<Ended("LAB_COMPILE", <<0, 0>>, "VERIFIED"), Ended("LAB_RUN", <<1, 0>>, "SUPPORTS")>>

\* A fresh session, or one whose earlier jobs have gone well.
Init ==
  /\ \/ "prediction" \in Starts /\ session = NewSession /\ jobs = <<>>
     \/ "result" \in Starts /\ session = Released /\ jobs = LabAndRun
     \/ /\ "transfer" \in Starts
        /\ session = [Released EXCEPT !.state = "TRANSFER_PASSED", !.boundary = 3,
                                      !.transfer = TRUE]
        /\ jobs = Append(LabAndRun, Ended("BOUNDARY", <<1, 2>>, "VERIFIED"))
  /\ request = [r \in Requests |-> Idle]
  /\ budget = MaxNew

Finish(r) == request' = [request EXCEPT ![r] = Idle]

Goto(r, phase) == request' = [request EXCEPT ![r].pc = phase]

-----------------------------------------------------------------------------
(* The learner asks for a job *)

\* What each route demands of the session it reads, in front of everything else.
RunAsked(s) == s.lab # 0 /\ jobs[s.lab].status = "VERIFIED"

BoundaryAsked(s) == s.verdict \in {"SUPPORTS", "INCONCLUSIVE"}

PatchAsked(s) == s.verdict = "SUPPORTS" /\ s.transfer /\ s.patch = 0

Asked(s, kind) ==
  CASE kind = "LAB_COMPILE" -> TRUE
    [] kind = "LAB_RUN" -> RunAsked(s)
    [] kind = "BOUNDARY" -> BoundaryAsked(s)
    [] kind = "PATCH_COMPILE" -> PatchAsked(s)

\* What the request fingerprint hashes of the session.
Basis(s, kind) ==
  CASE kind = "LAB_COMPILE" -> <<0, 0>>
    [] kind = "LAB_RUN" -> <<s.lab, 0>>
    [] OTHER -> <<s.lab, s.result>>

Reusable(s, kind) ==
  {j \in DOMAIN jobs : /\ jobs[j].kind = kind /\ jobs[j].basis = Basis(s, kind)
                       /\ jobs[j].status \in Active \cup {"VERIFIED"}}

Ask(r, kind) ==
  /\ request[r].pc = "idle"
  /\ Asked(session, kind)
  /\ request' = [request EXCEPT ![r] = [Idle EXCEPT !.pc = "asked", !.kind = kind,
                                                     !.snap = session]]
  /\ UNCHANGED <<session, jobs, budget>>

\* findReusableRequest.
Look(r) ==
  LET q == request[r]
      found == Reusable(q.snap, q.kind)
  IN
  /\ q.pc = "asked"
  /\ \/ \E j \in found : request' = [request EXCEPT ![r].pc = "dispatch", ![r].job = j]
     \/ found = {} /\ Goto(r, "begin")
  /\ UNCHANGED <<session, jobs, budget>>

\* The stage a new job asks for; a compilation that the snapshot has not started
\* is started now, by the session as it is.
Compile(q, compiling, from) ==
  \/ q.snap.state = compiling /\ UNCHANGED session
  \/ /\ q.snap.state # compiling /\ session.state \in from
     /\ session' = [session EXCEPT !.state = compiling]

BeginLab(q) ==
  q.kind = "LAB_COMPILE" /\ Compile(q, "LAB_COMPILING", {"PREDICTION_COMMITTED", "LAB_REJECTED"})

BeginRun(q) == q.kind = "LAB_RUN" /\ UNCHANGED session

BeginBoundary(q) ==
  /\ q.kind = "BOUNDARY" /\ q.snap.state = "EXPERIMENT_COMPLETED" /\ q.snap.boundary = 0
  /\ UNCHANGED session

BeginPatch(q) ==
  q.kind = "PATCH_COMPILE" /\ Compile(q, "PATCH_COMPILING", {"TRANSFER_PASSED", "PATCH_REJECTED"})

Begin(r) ==
  LET q == request[r] IN
  /\ q.pc = "begin"
  /\ BeginLab(q) \/ BeginRun(q) \/ BeginBoundary(q) \/ BeginPatch(q)
  /\ Goto(r, "create")
  /\ UNCHANGED <<jobs, budget>>

\* Mutant of Create: the job is inserted without regard to the unique index.
CreateAnyway(r) ==
  LET q == request[r] IN
  /\ q.pc = "create" /\ budget > 0
  /\ \E f \in Findings(q.kind) :
       jobs' = Append(jobs, NewJob(q.kind, Basis(q.snap, q.kind), f))
  /\ request' = [request EXCEPT ![r].pc = "dispatch", ![r].job = Len(jobs')]
  /\ budget' = budget - 1
  /\ UNCHANGED session

\* createOrReuseJob: the unique index on the fingerprint decides.
Create(r) ==
  LET q == request[r]
      rival == Reusable(q.snap, q.kind)
  IN
  /\ q.pc = "create"
  /\ \/ /\ \E j \in rival : request' = [request EXCEPT ![r].pc = "dispatch", ![r].job = j]
        /\ UNCHANGED <<jobs, budget>>
     \/ /\ rival = {} /\ budget > 0
        /\ \E f \in Findings(q.kind) :
             jobs' = Append(jobs, NewJob(q.kind, Basis(q.snap, q.kind), f))
        /\ request' = [request EXCEPT ![r].pc = "dispatch", ![r].job = Len(jobs')]
        /\ budget' = budget - 1
  /\ UNCHANGED session

\* dispatchRecoverableRunnerJob: the container has the job, it has it already or
\* is past it, or the dispatch fails and fails a job nobody moved on.
Dispatch(r) ==
  LET j == request[r].job IN
  /\ request[r].pc = "dispatch"
  /\ \/ jobs[j].status = "QUEUED" /\ jobs' = [jobs EXCEPT ![j].status = "STARTING"]
     \/ jobs[j].status # "QUEUED" /\ UNCHANGED jobs
     \/ /\ jobs[j].status \in {"QUEUED", "STARTING"} /\ jobs[j].claim = None
        /\ jobs' = [jobs EXCEPT ![j].status = "FAILED"]
  /\ Finish(r)
  /\ UNCHANGED <<session, budget>>

\* The container starts the job it was given.
Start(j) ==
  /\ jobs[j].status = "STARTING" /\ jobs[j].claim = None
  /\ jobs' = [jobs EXCEPT ![j].status = "RUNNING"]
  /\ UNCHANGED <<session, request, budget>>

\* Revision and transfer, which no job takes part in.
Learn ==
  /\ session.state = "BOUNDARY_VERIFIED" /\ session.boundary # 0
  /\ session' = [session EXCEPT !.state = "TRANSFER_PASSED", !.transfer = TRUE]
  /\ UNCHANGED <<jobs, request, budget>>

-----------------------------------------------------------------------------
(* The runner calls back *)

\* A callback is known by what the runner sent (its key); the receipt keeps that.
\* claimCallback: the receipt of the same callback makes it a duplicate, a live
\* job without a claim is claimed; everything else is refused.
Claim(r, j, message) ==
  /\ request[r].pc = "idle"
  /\ \/ jobs[j].receipt = message /\ UNCHANGED jobs
     \/ /\ jobs[j].receipt = None /\ jobs[j].claim = None
        /\ message \in Transitions[jobs[j].status]
        /\ jobs[j].status # "QUEUED"
        /\ jobs' = [jobs EXCEPT ![j].claim = r]
  /\ request' = [request EXCEPT ![r] = [Idle EXCEPT !.pc = "claimed", !.job = j,
                                          !.message = message,
                                          !.duplicate = jobs[j].receipt # None]]
  /\ UNCHANGED <<session, budget>>

\* Mutant of AlreadyProjected: a result is taken for the result of any job.
AnyProjection(s, j) == s.lab = j \/ s.result # 0 \/ s.boundary = j \/ s.patch = j

\* callbackAlreadyProjected: some authority of the session names the job.
AlreadyProjected(s, j) == j \in {s.lab, s.result, s.boundary, s.patch}

Answer(r) ==
  /\ jobs' = [jobs EXCEPT ![request[r].job].answered = TRUE]
  /\ Finish(r)

-----------------------------------------------------------------------------
(* What the Worker makes of the bytes of a job, verified against a session *)

\* reconstructScientificCompileAuthority: belief and prediction are fixed before
\* the first compilation; what is left is the verdict on the candidate.
CompileAuthority(s, j) == jobs[j].found

\* loadFrozenScientificCompileAuthority: the session's lab and its verified job.
LabStands(s) == s.lab # 0 /\ jobs[s.lab].status = "VERIFIED"

\* reconstructScientificRunAuthority: a run of the session's own lab.
RunAuthority(s, j) ==
  IF LabStands(s) /\ jobs[j].basis = <<s.lab, 0>> THEN jobs[j].found ELSE "BROKEN"

\* reconstructBoundaryMapAuthority: of its lab and the result released from it.
BoundaryAuthority(s, j) ==
  IF /\ s.verdict \in {"SUPPORTS", "INCONCLUSIVE"} /\ LabStands(s)
     /\ jobs[j].basis = <<s.lab, s.result>>
  THEN jobs[j].found ELSE "BROKEN"

\* resolveRunnerPatchAuthorityV5: and of a result that supports, with the transfer
\* passed.
PatchAuthority(s, j) ==
  IF /\ s.verdict = "SUPPORTS" /\ s.transfer /\ LabStands(s)
     /\ jobs[j].basis = <<s.lab, s.result>>
  THEN jobs[j].found ELSE "BROKEN"

Verified(s, j) ==
  CASE jobs[j].kind = "LAB_COMPILE" -> CompileAuthority(s, j)
    [] jobs[j].kind = "LAB_RUN" -> RunAuthority(s, j)
    [] jobs[j].kind = "BOUNDARY" -> BoundaryAuthority(s, j)
    [] jobs[j].kind = "PATCH_COMPILE" -> PatchAuthority(s, j)

\* The session is read; a duplicate it already carries is answered, anything else
\* is verified against it.
Read(r) ==
  LET q == request[r] IN
  /\ q.pc = "claimed"
  /\ IF q.duplicate /\ AlreadyProjected(session, q.job)
     THEN Answer(r)
     ELSE /\ request' = [request EXCEPT
               ![r].pc = "verifying",
               ![r].finding = IF q.message = "VERIFIED" THEN Verified(session, q.job)
                              ELSE "FAILED"]
          /\ UNCHANGED jobs
  /\ UNCHANGED <<session, budget>>

\* The status of the terminal callback.
Terminated(r) ==
  LET finding == request[r].finding IN
  CASE finding \in {"VERIFIED", "SUPPORTS", "INCONCLUSIVE"} -> "VERIFIED"
    [] finding = "FAILED" -> "FAILED"
    [] OTHER -> "REJECTED"

\* Mutant of Record: a claim that was lost meanwhile is not noticed.
RecordAnyway(r) ==
  LET q == request[r] IN
  /\ q.pc = "verifying"
  /\ IF jobs[q.job].claim = r
     THEN jobs' = [jobs EXCEPT ![q.job].status = Terminated(r), ![q.job].claim = None,
                               ![q.job].receipt = q.message]
     ELSE UNCHANGED jobs
  /\ Goto(r, "recorded")
  /\ UNCHANGED <<session, budget>>

\* recordCallback: a receipt of the same callback, recorded by whoever took the
\* claim over, will do; otherwise the claim must still be this request's.
Record(r) ==
  LET q == request[r] IN
  /\ q.pc = "verifying"
  /\ \/ /\ jobs[q.job].receipt = q.message
        /\ request' = [request EXCEPT ![r].pc = "recorded", ![r].duplicate = TRUE]
        /\ UNCHANGED jobs
     \/ /\ jobs[q.job].receipt = None /\ jobs[q.job].claim = r
        /\ Terminated(r) \in Transitions[jobs[q.job].status]
        /\ jobs' = [jobs EXCEPT ![q.job].status = Terminated(r), ![q.job].claim = None,
                                ![q.job].receipt = q.message]
        /\ Goto(r, "recorded")
  /\ UNCHANGED <<session, budget>>

\* The session is read again, to be projected on.
Reread(r) ==
  /\ request[r].pc = "recorded"
  /\ request' = [request EXCEPT ![r].pc = "projecting", ![r].snap = session]
  /\ UNCHANGED <<session, jobs, budget>>

Project(r, kind) ==
  /\ request[r].pc = "projecting"
  /\ jobs[request[r].job].kind = kind
  /\ UNCHANGED budget

\* The lab is verified, or carries this very lineage already.
ProjectVerifiedLab(r) ==
  LET q == request[r] IN
  /\ Project(r, "LAB_COMPILE") /\ Terminated(r) = "VERIFIED"
  /\ \/ /\ q.snap.state = "LAB_COMPILING" /\ session.state = "LAB_COMPILING"
        /\ session' = [session EXCEPT !.state = "LAB_VERIFIED", !.lab = q.job]
     \/ /\ q.snap.state # "LAB_COMPILING" /\ q.snap.lab = q.job
        /\ UNCHANGED session
  /\ Answer(r)

\* Whatever compilation is under way is rejected.
ProjectRejectedLab(r) ==
  LET q == request[r] IN
  /\ Project(r, "LAB_COMPILE") /\ Terminated(r) # "VERIFIED"
  /\ \/ /\ q.snap.state = "LAB_COMPILING" /\ session.state = "LAB_COMPILING"
        /\ session' = [session EXCEPT !.state = "LAB_REJECTED",
                                      !.rejects = @ \cup {q.job}]
     \/ q.snap.state = "LAB_REJECTED" /\ UNCHANGED session
  /\ Answer(r)

MayRelease(s) == s.state = "LAB_VERIFIED" /\ s.result = 0

\* recordEpistemicResult, on the session as it is.
ProjectResult(r) ==
  LET q == request[r] IN
  /\ Project(r, "LAB_RUN") /\ Terminated(r) = "VERIFIED"
  /\ \/ q.snap.result = q.job /\ UNCHANGED session
     \/ /\ q.snap.result # q.job /\ MayRelease(q.snap) /\ MayRelease(session)
        /\ session' = [session EXCEPT !.state = "EXPERIMENT_COMPLETED",
                                      !.result = q.job, !.report = q.job,
                                      !.verdict = q.finding]
  /\ Answer(r)

\* recordEpistemicRejection: the no-release verdict of a run.  It names no job
\* in the session; the chain says whether it was projected.
ProjectRejection(r) ==
  LET q == request[r] IN
  /\ Project(r, "LAB_RUN")
  /\ q.finding = "REJECTED"
  /\ IF \/ MayRelease(q.snap) /\ q.snap.report = q.job
        \/ q.duplicate /\ q.job \in session.withheld
     THEN UNCHANGED session
     ELSE /\ MayRelease(q.snap) /\ MayRelease(session)
          /\ session' = [session EXCEPT !.verdict = "REJECTED", !.report = q.job,
                                        !.withheld = @ \cup {q.job}]
  /\ Answer(r)

\* A run whose bytes could not be verified, or that failed, projects nothing, and
\* neither does a Boundary Map that was withheld.
ProjectNothing(r) ==
  LET q == request[r] IN
  /\ \/ /\ Project(r, "LAB_RUN")
        /\ q.finding \in {"FAILED", "BROKEN"}
     \/ Project(r, "BOUNDARY") /\ Terminated(r) # "VERIFIED"
  /\ Answer(r)
  /\ UNCHANGED session

\* recordBoundaryMapAuthority.
ProjectBoundary(r) ==
  LET q == request[r]
      MayMap(s) == s.state = "EXPERIMENT_COMPLETED" /\ s.boundary = 0
  IN
  /\ Project(r, "BOUNDARY") /\ Terminated(r) = "VERIFIED"
  /\ \/ q.snap.boundary = q.job /\ UNCHANGED session
     \/ /\ q.snap.boundary # q.job /\ MayMap(q.snap) /\ MayMap(session)
        /\ session' = [session EXCEPT !.state = "BOUNDARY_VERIFIED", !.boundary = q.job]
  /\ Answer(r)

\* verifyPatch; the proof is issued afterwards.
ProjectVerifiedPatch(r) ==
  LET q == request[r] IN
  /\ Project(r, "PATCH_COMPILE") /\ Terminated(r) = "VERIFIED"
  /\ \/ /\ q.snap.state = "PATCH_COMPILING" /\ session.state = "PATCH_COMPILING"
        /\ session' = [session EXCEPT !.state = "PATCH_VERIFIED", !.patch = q.job]
     \/ /\ q.snap.state # "PATCH_COMPILING" /\ q.snap.patch = q.job
        /\ UNCHANGED session
  /\ request' = [request EXCEPT ![r].pc = "proving", ![r].snap = session']
  /\ UNCHANGED jobs

ProjectRejectedPatch(r) ==
  LET q == request[r] IN
  /\ Project(r, "PATCH_COMPILE") /\ Terminated(r) # "VERIFIED"
  /\ \/ /\ q.snap.state = "PATCH_COMPILING" /\ session.state = "PATCH_COMPILING"
        /\ session' = [session EXCEPT !.state = "PATCH_REJECTED"]
     \/ q.snap.state = "PATCH_REJECTED" /\ UNCHANGED session
  /\ Answer(r)

\* finalizeNativeProofV5, one service operation at a time, each guarded by the
\* session the one before returned.
Prove(r) ==
  LET q == request[r]
      Issue(from, s) == q.snap.state = from /\ session.state = from /\ session' = s
  IN
  /\ q.pc = "proving"
  /\ \/ /\ \/ Issue("PATCH_VERIFIED", [session EXCEPT !.state = "REASONING_DIFF_ISSUED"])
           \/ Issue("REASONING_DIFF_ISSUED",
                    [session EXCEPT !.state = "PROOF_CAPSULE_ISSUED", !.capsule = TRUE])
        /\ request' = [request EXCEPT ![r].snap = session']
        /\ UNCHANGED jobs
     \/ q.snap.state = "PROOF_CAPSULE_ISSUED" /\ Answer(r) /\ UNCHANGED session
  /\ UNCHANGED budget

\* The claim's own limit passes.
ClaimLapse(j) ==
  /\ jobs[j].claim # None
  /\ jobs' = [jobs EXCEPT ![j].claim = None]
  /\ UNCHANGED <<session, request, budget>>

\* A request ends early: refused, in error (onError releases its claim), or with
\* its Worker (the claim stays).
Break(r) ==
  LET j == request[r].job IN
  /\ request[r].pc # "idle"
  /\ Finish(r)
  /\ \/ UNCHANGED jobs
     \/ /\ request[r].message # None /\ jobs[j].claim = r
        /\ jobs' = [jobs EXCEPT ![j].claim = None]
  /\ UNCHANGED <<session, budget>>

-----------------------------------------------------------------------------
(* The learner's page polls or cancels a job *)

\* expireIfTimedOut or cancelJob; a job that has ended so before is taken up again.
Close(r, j, to) ==
  /\ request[r].pc = "idle"
  /\ \/ jobs[j].status \in Active /\ jobs[j].claim = None
     \/ jobs[j].status = to
  /\ jobs' = [jobs EXCEPT ![j].status = to]
  /\ request' = [request EXCEPT ![r] = [Idle EXCEPT !.pc = "closed", !.job = j]]
  /\ UNCHANGED <<session, budget>>

\* The session is read, and if it is compiling ...
ReadClosed(r) ==
  LET kind == jobs[request[r].job].kind IN
  /\ request[r].pc = "closed"
  /\ IF \/ kind = "LAB_COMPILE" /\ session.state = "LAB_COMPILING"
        \/ kind = "PATCH_COMPILE" /\ session.state = "PATCH_COMPILING"
     THEN Goto(r, "rejecting")
     ELSE Finish(r)
  /\ UNCHANGED <<session, jobs, budget>>

\* ... its compilation is rejected.
RejectClosed(r) ==
  LET j == request[r].job IN
  /\ request[r].pc = "rejecting"
  /\ \/ /\ jobs[j].kind = "LAB_COMPILE" /\ session.state = "LAB_COMPILING"
        /\ session' = [session EXCEPT !.state = "LAB_REJECTED", !.rejects = @ \cup {j}]
     \/ /\ jobs[j].kind = "PATCH_COMPILE" /\ session.state = "PATCH_COMPILING"
        /\ session' = [session EXCEPT !.state = "PATCH_REJECTED"]
  /\ Finish(r)
  /\ UNCHANGED <<jobs, budget>>

-----------------------------------------------------------------------------

LearnerStep(r) ==
  \/ \E kind \in Kinds : Ask(r, kind)
  \/ Look(r) \/ Begin(r) \/ Create(r) \/ Dispatch(r)
  \/ \E j \in DOMAIN jobs, to \in {"TIMED_OUT", "CANCELLED"} : Close(r, j, to)
  \/ ReadClosed(r) \/ RejectClosed(r)

CallbackStep(r) ==
  \/ \E j \in DOMAIN jobs, message \in {"VERIFIED", "FAILED"} : Claim(r, j, message)
  \/ Read(r) \/ Record(r) \/ Reread(r)
  \/ ProjectVerifiedLab(r) \/ ProjectRejectedLab(r)
  \/ ProjectResult(r) \/ ProjectRejection(r) \/ ProjectNothing(r) \/ ProjectBoundary(r)
  \/ ProjectVerifiedPatch(r) \/ ProjectRejectedPatch(r) \/ Prove(r)

Next ==
  \/ \E r \in Requests : LearnerStep(r) \/ CallbackStep(r) \/ Break(r)
  \/ \E j \in DOMAIN jobs : Start(j) \/ ClaimLapse(j)
  \/ Learn

Spec == Init /\ [][Next]_vars

-----------------------------------------------------------------------------
States ==
  {"PREDICTION_COMMITTED", "LAB_COMPILING", "LAB_REJECTED", "LAB_VERIFIED",
   "EXPERIMENT_COMPLETED", "BOUNDARY_VERIFIED", "TRANSFER_PASSED", "PATCH_COMPILING",
   "PATCH_REJECTED", "PATCH_VERIFIED", "REASONING_DIFF_ISSUED", "PROOF_CAPSULE_ISSUED"}

Learner ==
  [state : States, lab : Nat, result : Nat,
   verdict : {None, "SUPPORTS", "INCONCLUSIVE", "REJECTED"}, report : Nat, boundary : Nat,
   transfer : BOOLEAN, patch : Nat, capsule : BOOLEAN,
   withheld : SUBSET Nat, rejects : SUBSET Nat]

Job ==
  [kind : Kinds, basis : Nat \X Nat,
   found : {"VERIFIED", "SUPPORTS", "INCONCLUSIVE", "REJECTED", "BROKEN"},
   status : Status, claim : Requests \cup {None}, receipt : {None, "VERIFIED", "FAILED"},
   answered : BOOLEAN]

Call ==
  [pc : {"idle", "asked", "begin", "create", "dispatch", "claimed", "verifying", "recorded",
         "projecting", "proving", "closed", "rejecting"},
   kind : Kinds \cup {None}, job : Nat, message : {None, "VERIFIED", "FAILED"},
   duplicate : BOOLEAN, snap : Learner \cup {None},
   finding : {None, "VERIFIED", "SUPPORTS", "INCONCLUSIVE", "REJECTED", "BROKEN", "FAILED"}]

TypeOK ==
  /\ session \in Learner
  /\ jobs \in Seq(Job)
  /\ request \in [Requests -> Call]
  /\ budget \in 0..MaxNew

Backs(j, kind, basis) ==
  /\ j \in DOMAIN jobs
  /\ jobs[j].kind = kind /\ jobs[j].basis = basis
  /\ jobs[j].status = "VERIFIED" /\ jobs[j].receipt = "VERIFIED"

\* Every authority a session carries is the recorded outcome of the job it names:
\* VERIFIED by a receipt, of the right kind, and run on the session's own lab and
\* result, whatever requests were in flight when it was projected
\* (labVerification, resultAuthority, boundaryMapAuthority, patchAuthority).
AuthorityIsBacked ==
  /\ session.lab # 0 => Backs(session.lab, "LAB_COMPILE", <<0, 0>>)
  /\ session.result # 0 =>
       /\ Backs(session.result, "LAB_RUN", <<session.lab, 0>>)
       /\ session.verdict = jobs[session.result].found
  /\ session.boundary # 0 => Backs(session.boundary, "BOUNDARY", <<session.lab, session.result>>)
  /\ session.patch # 0 => Backs(session.patch, "PATCH_COMPILE", <<session.lab, session.result>>)

Projected(j) ==
  /\ jobs[j].status = "VERIFIED" =>
       \/ jobs[j].kind = "LAB_COMPILE" /\ session.lab = j
       \/ jobs[j].kind = "LAB_RUN" /\ session.result = j
       \/ jobs[j].kind = "BOUNDARY" /\ session.boundary = j
       \/ jobs[j].kind = "PATCH_COMPILE" /\ session.patch = j
  /\ jobs[j].kind = "LAB_RUN" /\ jobs[j].found = "REJECTED" /\ jobs[j].receipt = "VERIFIED" =>
       j \in session.withheld

\* A runner that is told its verdict was taken can rely on it: the session carries
\* the authority of the job, or the chain its no-release verdict, however often
\* the callback was repeated and whoever died in between.
AnsweredIsProjected == \A j \in DOMAIN jobs : jobs[j].answered => Projected(j)

\* Requests that ask for the same thing share one job that is live or VERIFIED.
OneJobPerRequest ==
  \A i, j \in DOMAIN jobs :
    /\ jobs[i].kind = jobs[j].kind /\ jobs[i].basis = jobs[j].basis
    /\ {jobs[i].status, jobs[j].status} \subseteq Active \cup {"VERIFIED"}
    => i = j

\* Nothing is repaired or sealed but what was predicted, run, released with a
\* supporting verdict, mapped and transferred.
CapsuleIsEarned ==
  session.capsule \/ session.patch # 0 =>
    /\ session.lab # 0 /\ session.result # 0 /\ session.boundary # 0 /\ session.patch # 0
    /\ session.verdict = "SUPPORTS" /\ session.transfer

\* A verdict without release is on the chain only for a run of the session's own lab
\* whose callback is recorded, and no such run is ever its result.
WithheldIsBacked ==
  \A j \in session.withheld :
    /\ j \in DOMAIN jobs /\ j # session.result
    /\ jobs[j].kind = "LAB_RUN" /\ jobs[j].basis = <<session.lab, 0>>
    /\ jobs[j].found = "REJECTED" /\ jobs[j].receipt = "VERIFIED"
    /\ jobs[j].status = "REJECTED"

\* A compilation is rejected only by a compile job that has ended, and never by the
\* one whose lab the session carries, though a poll acts on what it read before.
RejectsAreEnded ==
  \A j \in session.rejects :
    /\ j \in DOMAIN jobs /\ j # session.lab
    /\ jobs[j].kind = "LAB_COMPILE" /\ jobs[j].status \in Terminal \ {"VERIFIED"}

\* No authority is given up or exchanged, and no outcome that was recorded changes.
NothingIsTakenBack ==
  [][/\ session.lab # 0 => session'.lab = session.lab
     /\ session.result # 0 =>
          session'.result = session.result /\ session'.verdict = session.verdict
     /\ session.boundary # 0 => session'.boundary = session.boundary
     /\ session.patch # 0 => session'.patch = session.patch
     /\ session.transfer => session'.transfer
     /\ session.withheld \subseteq session'.withheld
     /\ \A j \in DOMAIN jobs :
          jobs[j].receipt # None =>
            jobs'[j].status = jobs[j].status /\ jobs'[j].receipt = jobs[j].receipt]_vars

\* A job as its readers know it: before it is created it waits in the queue, and a
\* failure without a receipt is in its log.
StatusOf(j) == IF j \in DOMAIN jobs THEN jobs[j].status ELSE "QUEUED"

ReceiptsOf(j) ==
  IF j \in DOMAIN jobs /\ jobs[j].receipt # None
  THEN {[status |-> jobs[j].status, cursor |-> 0]} ELSE {}

LogOf(j) == IF StatusOf(j) = "FAILED" /\ ReceiptsOf(j) = {} THEN <<"failure">> ELSE <<>>

Promise(j) ==
  INSTANCE JobLifecycle WITH status <- StatusOf(j), log <- LogOf(j), receipts <- ReceiptsOf(j)

\* Whatever requests overlap, each job moves as its lifecycle promises: it follows the
\* table, ends once, and ends with its receipt or with the failure in its log.
JobsKeepPromise ==
  [][\A j \in DOMAIN jobs' : Promise(j)!Next \/ UNCHANGED Promise(j)!vars]_vars

\* api.test.ts "projects a timed-out compile job into the session exactly once":
\* a timed-out job rejects a compilation only if it has not rejected one before.
TimeoutProjectedOnce ==
  [][\A r \in Requests :
       /\ request[r].pc = "rejecting" /\ jobs[request[r].job].status = "TIMED_OUT"
       /\ session.state = "LAB_COMPILING" /\ session'.state = "LAB_REJECTED"
       => request[r].job \notin session.rejects]_vars
=============================================================================
