---------------------------- MODULE HostedRunner ----------------------------
(***************************************************************************)
(* The container that carries out one runner job: its HTTP server          *)
(* (services/hosted-runner/src/server.ts), the job processor's run through *)
(* the Worker's routes (job-processor.ts), its client of those routes      *)
(* (control-plane-client.ts) and the dispatcher that starts the container  *)
(* and posts the job to it (apps/web/worker/runner-control-plane.ts).      *)
(*                                                                         *)
(* A run is a sequence of operations, TODO.  Most are one request to the   *)
(* Worker, which is asked, served and answered in steps of their own: the  *)
(* request may wait, be lost, be answered by an error, or be served long   *)
(* after the run has stopped waiting for it.  The rest (the compiler's     *)
(* turn, the fixed kernel or patch process) are local and may fail.  The   *)
(* Worker is here what module RunnerJob makes of it when no two requests   *)
(* overlap: each is accepted or refused as a whole.                        *)
(***************************************************************************)
EXTENDS RunnerStatus, Naturals, Sequences, FiniteSets

CONSTANTS
  Kinds,         \* of "run", "compile", "patch": v5 LAB_RUN, LAB_COMPILE, PATCH_COMPILE
  Dispatches,    \* tries of one dispatch to post the job to its container
  Files,         \* output files of a compiler's turn
  MaxAttempts,   \* compiler turns the Worker allows the job (maxAttempts)
  MaxRepairs,    \* repairs the processor itself would make
  CallbackTries, \* times one callback is sent
  MaxLate,       \* bound: requests still on their way that no run waits for
  MaxRejections, \* bound: events that report one rejection, a counterexample each
  MaxCursor      \* bound: the compiler yields no event once past this cursor

ASSUME ConstantsOK ==
  /\ Kinds \subseteq {"run", "compile", "patch"} /\ Kinds # {}
  /\ Dispatches \in Nat \ {0} /\ Files \in Nat \ {0}
  /\ MaxAttempts \in Nat \ {0} /\ MaxRepairs \in Nat /\ CallbackTries \in Nat \ {0}
  /\ MaxLate \in Nat /\ MaxRejections \in Nat \ {0} /\ MaxCursor \in Nat

\* A job has at most three attempts (RunnerJobSchema), and the processor repairs twice.
ASSUME RepairsSuffice == MaxAttempts <= MaxRepairs + 1

Try == 1..Dispatches

VARIABLES
  kind,   \* of the job
  job,    \* the Worker's row: status, event cursor, attempt, the last verdict on a
          \* candidate, and the run whose callback settled it (0 when none did)
  posts,  \* each try: unsent, arrived at the container, or over
  server, \* the container's process
  run,    \* the processor's run of each try that was accepted
  net     \* requests of the runs that the Worker may still serve

vars == <<kind, job, posts, server, run, net>>

Local == {"compile", "work"}
Operations == Local \cup {"input", "start", "event", "stream", "upload", "file",
                          "candidate", "resume", "source", "callback"}

Results == {"none", "ok", "repair", "rejected", "refused", "error", "lost"}

Job == [status : Status, cursor : Nat, attempt : Nat,
        judged : {"none", "verified", "rejected"}, by : 0..Dispatches]

Run == [state : {"none", "live", "done", "killed"},
        todo : Seq(Operations),
        cursor : Nat,        \* of the last event it knows appended
        told : Nat,          \* the cursor its failure callback would close with
        repairs : Nat, tries : Nat,
        verdict : {"VERIFIED", "REJECTED", "FAILED"},
        asked : BOOLEAN,     \* the request of the first operation is out
        result : Results, next : Nat,  \* the answer, and the cursor it carries
        aborted : BOOLEAN,
        stumbled : BOOLEAN,  \* a local operation failed
        stale : BOOLEAN,     \* it failed with a cursor its catch block cannot see
        doubt : BOOLEAN]     \* an answer was lost or was an error

Request == [by : Try, op : Operations \ Local, cursor : Nat, attempt : Nat,
            verdict : {"VERIFIED", "REJECTED", "FAILED"},
            awaited : BOOLEAN]

-----------------------------------------------------------------------------
(* What a run does, in order *)

\* A compiler turn yields its files, each uploaded and announced, and a candidate.
Turn ==
  <<"compile">> \o [i \in 1..(2 * Files) |-> IF i % 2 = 1 THEN "upload" ELSE "file"]
                \o <<"candidate">>

Work ==
  [k \in Kinds |->
     CASE k = "run" -> <<"work", "upload", "event">>
       [] k = "compile" -> Turn
       [] k = "patch" -> Turn \o <<"source", "work", "upload", "upload">>
                              \o <<"event", "event">>]

Steps == <<"input", "start", "event">> \o Work[kind] \o <<"callback">>

RepairSteps == <<"event", "resume">> \o Turn

NoRun == [state |-> "none", todo |-> <<>>, cursor |-> 0, told |-> 0,
          repairs |-> 0, tries |-> 0, verdict |-> "VERIFIED", asked |-> FALSE,
          result |-> "none", next |-> 0, aborted |-> FALSE,
          stumbled |-> FALSE, stale |-> FALSE, doubt |-> FALSE]

Init ==
  /\ kind \in Kinds
  /\ job = [status |-> "STARTING", cursor |-> 0, attempt |-> 1,
            judged |-> "none", by |-> 0]
  /\ posts = [d \in Try |-> "unsent"]
  /\ server = "down"
  /\ run = [d \in Try |-> NoRun]
  /\ net = {}

\* The runs ds wait no more for what they asked, and the Worker may still serve it.
Abandon(ds) ==
  LET late == {q \in net : ~q.awaited}
      waiting == {q \in net : q.awaited /\ q.by \in ds}
      new == {[q EXCEPT !.awaited = FALSE] : q \in waiting}
  IN net' = (net \ waiting)
              \cup IF Cardinality(late \cup new) <= MaxLate THEN new ELSE {}

Live == {d \in Try : run[d].state = "live"}

-----------------------------------------------------------------------------
(* The dispatcher and the container's server *)

\* One try: the container is started if it is not up, and the job is posted.  The
\* next follows when this one was not answered in time, whatever became of it.
Post(d) ==
  /\ posts[d] = "unsent" /\ \A e \in 1..(d - 1) : posts[e] # "unsent"
  /\ server \in {"up", "down"}
  /\ server' = "up"
  /\ posts' = [posts EXCEPT ![d] = "arrived"]
  /\ UNCHANGED <<kind, job, run, net>>

\* Mutant of Accept: a job that is already active is started again.
AcceptAnyway(d) ==
  /\ posts[d] = "arrived" /\ server # "down"
  /\ posts' = [posts EXCEPT ![d] = "over"]
  /\ run' = [run EXCEPT ![d] = [NoRun EXCEPT !.state = "live", !.todo = Steps]]
  /\ UNCHANGED <<kind, job, server, net>>

\* The body is read and the token verified first; only then, with nothing awaited in
\* between, does the server look for an active run of the job and start one.
Accept(d) ==
  /\ posts[d] = "arrived" /\ server # "down"
  /\ posts' = [posts EXCEPT ![d] = "over"]
  /\ run' = IF Live # {} THEN run
            ELSE [run EXCEPT ![d] = [NoRun EXCEPT !.state = "live", !.todo = Steps]]
  /\ UNCHANGED <<kind, job, server, net>>

\* DELETE /jobs/:jobId, which the cancel route sends once the job is cancelled.
Abort(d) ==
  /\ job.status = "CANCELLED"
  /\ d \in Live /\ ~run[d].aborted
  /\ run' = [run EXCEPT ![d].aborted = TRUE]
  /\ UNCHANGED <<kind, job, posts, server, net>>

\* What is left of a run that is over.
Ended(r, state) ==
  [NoRun EXCEPT !.state = state, !.verdict = r.verdict,
                !.stumbled = r.stumbled, !.stale = r.stale, !.doubt = r.doubt]

\* The run is over: no longer active, and the one-shot server stops listening.
End(d) ==
  /\ run' = [run EXCEPT ![d] = Ended(@, "done")]
  /\ server' = "closing"
  /\ Abandon({d})
  /\ UNCHANGED <<kind, job, posts>>

\* An aborted run says nothing more, whatever it was waiting for.
FallSilent(d) == d \in Live /\ run[d].aborted /\ End(d)

\* The process ends, and with it a run a late try may have started meanwhile; what
\* it had sent is still on its way.
Down ==
  /\ server' = "down"
  /\ run' = [d \in Try |-> IF d \in Live THEN Ended(run[d], "killed") ELSE run[d]]
  /\ posts' = [d \in Try |-> IF posts[d] = "arrived" THEN "over" ELSE posts[d]]
  /\ Abandon(Try)
  /\ UNCHANGED <<kind, job>>

\* The one-shot server exits once its last connection is answered.
Exit == server = "closing" /\ (\A d \in Try : posts[d] # "arrived") /\ Down

Crash == server # "down" /\ Down

-----------------------------------------------------------------------------
(* The processor asks *)

Doing(d, ops) == d \in Live /\ ~run[d].aborted /\ Head(run[d].todo) \in ops

Events == {"event", "stream", "file"}

\* A callback that reports success closes at the run's cursor, one sent from the
\* catch block at the cursor that block can see.
Ask(d) ==
  LET r == run[d]
      op == Head(r.todo)
  IN /\ Doing(d, Operations \ Local) /\ ~r.asked
     /\ run' = [run EXCEPT ![d].asked = TRUE]
     /\ net' = net \cup {[by |-> d, op |-> op, attempt |-> r.repairs + 1,
                          verdict |-> r.verdict, awaited |-> TRUE,
                          cursor |-> IF op \in Events THEN r.cursor + 1
                                     ELSE IF r.verdict = "VERIFIED" THEN r.cursor
                                     ELSE r.told]}
     /\ UNCHANGED <<kind, job, posts, server>>

-----------------------------------------------------------------------------
(* The Worker serves, or does not *)

Running == job.status \in {"RUNNING", "REPAIRING"}

\* The run's callback is on record already.
OnRecord(q) == job.by = q.by /\ job.status = q.verdict

Accepts(q) ==
  CASE q.op \in {"input", "source"} -> TRUE
    [] q.op = "start" -> job.status \in Active \ {"QUEUED"}
    [] q.op \in Events -> Running /\ q.cursor = job.cursor + 1
    [] q.op = "upload" -> Running
    [] q.op = "candidate" -> job.status = "RUNNING" /\ q.attempt = job.attempt
    [] q.op = "resume" -> job.status = "REPAIRING"
    [] q.op = "callback" -> OnRecord(q) \/ /\ q.verdict \in Transitions[job.status]
                                           /\ q.cursor = job.cursor

\* The request leaves the network; its answer reaches the run if it still waits.
Answer(q, result, next) ==
  /\ net' = net \ {q}
  /\ run' = IF q.awaited
            THEN [run EXCEPT ![q.by].result = result, ![q.by].next = next,
                             ![q.by].doubt = @ \/ result = "error"]
            ELSE run
  /\ UNCHANGED <<kind, posts, server>>

\* The input bundle, the notebook's source, or an output that is stored.
ServeObject(q) ==
  /\ q.op \in {"input", "source", "upload"} /\ Accepts(q)
  /\ Answer(q, "ok", 0) /\ UNCHANGED job

\* A second start of a job that runs is answered as the first was.
ServeStart(q) ==
  /\ q.op = "start" /\ Accepts(q)
  /\ job' = [job EXCEPT !.status = IF @ = "STARTING" THEN "RUNNING" ELSE @]
  /\ Answer(q, "ok", 0)

ServeEvent(q) ==
  /\ q.op \in Events /\ Accepts(q)
  /\ job' = [job EXCEPT !.cursor = @ + 1]
  /\ Answer(q, "ok", 0)

\* The verdict is one event, or one for each counterexample, and a rejected
\* candidate goes to repair while attempts are left; the answer tells the cursor.
ServeCandidate(q) ==
  /\ q.op = "candidate" /\ Accepts(q)
  /\ \/ /\ job' = [job EXCEPT !.cursor = @ + 1, !.judged = "verified"]
        /\ Answer(q, "ok", job'.cursor)
     \/ \E n \in 1..MaxRejections :
          LET again == job.attempt < MaxAttempts IN
          /\ job' = [job EXCEPT !.cursor = @ + n, !.judged = "rejected",
                                !.status = IF again THEN "REPAIRING" ELSE @,
                                !.attempt = IF again THEN @ + 1 ELSE @]
          /\ Answer(q, IF again THEN "repair" ELSE "rejected", job'.cursor)

ServeResume(q) ==
  /\ q.op = "resume" /\ Accepts(q)
  /\ job' = [job EXCEPT !.status = "RUNNING"]
  /\ Answer(q, "ok", 0)

\* The callback settles the job once, under the status it reports (what the
\* Worker's own verification makes of it is module ControlPlane).
ServeCallback(q) ==
  /\ q.op = "callback" /\ Accepts(q)
  /\ job' = [job EXCEPT !.status = q.verdict, !.by = q.by]
  /\ Answer(q, "ok", 0)

Refuse(q) == ~Accepts(q) /\ Answer(q, "refused", 0) /\ UNCHANGED job

\* The Worker fails before it has changed anything.
ServeError(q) == q.awaited /\ Answer(q, "error", 0) /\ UNCHANGED job

\* Thirty seconds have passed: the run waits no more; the request may still arrive.
TimeOut(d) ==
  /\ Doing(d, Operations) /\ run[d].asked /\ run[d].result = "none"
  /\ run' = [run EXCEPT ![d].result = "lost", ![d].doubt = TRUE]
  /\ Abandon({d})
  /\ UNCHANGED <<kind, job, posts, server>>

\* The Worker has served the request, but its answer is lost or becomes an error.
LoseAnswer(d) ==
  /\ Doing(d, Operations) /\ run[d].result \in {"ok", "repair", "rejected"}
  /\ \E result \in {"lost", "error"} :
       run' = [run EXCEPT ![d].result = result, ![d].next = 0, ![d].doubt = TRUE]
  /\ UNCHANGED <<kind, job, posts, server, net>>

\* Others close the job: the learner cancels it, a poll expires it, or a dispatch
\* that was not answered fails it.  CANCELLED stands for the three.
Close ==
  /\ job.status \in Active
  /\ job' = [job EXCEPT !.status = "CANCELLED"]
  /\ UNCHANGED <<kind, posts, server, run, net>>

-----------------------------------------------------------------------------
(* The processor goes on *)

Goes(d, r) ==
  /\ run' = [run EXCEPT ![d] =
                [r EXCEPT !.asked = FALSE, !.result = "none", !.next = 0]]
  /\ UNCHANGED <<kind, job, posts, server, net>>

\* The cursor that the catch block sees.  A LAB_RUN assigns it after every event and
\* a scientific compile shares its progress after every event; the patch compiler's
\* cursor, and that of its uploads, comes back when they return.
Shared == kind # "patch"

\* Mutant of Told: no compiler shares its progress.
ToldOnReturn(r, op, rest, cursor) ==
  IF op = "stream" \/ (op = "file" /\ Head(rest) = "upload") THEN r.told ELSE cursor

Told(r, op, rest, cursor) ==
  IF ~Shared /\ (op = "stream" \/ (op = "file" /\ Head(rest) = "upload"))
  THEN r.told ELSE cursor

Cursor(r, op) ==
  IF op \in Events THEN r.cursor + 1
  ELSE IF op = "candidate" THEN r.next ELSE r.cursor

Continue(d) ==
  LET r == run[d]
      op == Head(r.todo)
      rest == Tail(r.todo)
      cursor == Cursor(r, op)
  IN /\ Doing(d, Operations \ {"callback"}) /\ r.result = "ok"
     /\ Goes(d, [r EXCEPT !.todo = rest, !.cursor = cursor,
                          !.told = Told(r, op, rest, cursor)])

\* Into the catch block: the outcome is sent once more as a callback.
Failing(r, verdict) ==
  [r EXCEPT !.todo = <<"callback">>, !.verdict = verdict, !.tries = 0,
            !.stale = r.told # r.cursor]

\* Mutant of Judged: a candidate rejected for good goes on to the callback.
GoOnRejected(d) ==
  LET r == [run[d] EXCEPT !.cursor = run[d].next, !.told = run[d].next] IN
  /\ Doing(d, {"candidate"})
  /\ \/ /\ r.result = "repair" /\ r.repairs < MaxRepairs
        /\ Goes(d, [r EXCEPT !.todo = RepairSteps \o Tail(@), !.repairs = @ + 1])
     \/ /\ r.result = "rejected" \/ (r.result = "repair" /\ r.repairs >= MaxRepairs)
        /\ Goes(d, [r EXCEPT !.todo = Tail(@)])

\* A rejected candidate is repaired, resumed and offered again, or ends the run.
Judged(d) ==
  LET r == [run[d] EXCEPT !.cursor = run[d].next, !.told = run[d].next] IN
  /\ Doing(d, {"candidate"})
  /\ \/ /\ r.result = "repair" /\ r.repairs < MaxRepairs
        /\ Goes(d, [r EXCEPT !.todo = RepairSteps \o Tail(@), !.repairs = @ + 1])
     \/ /\ r.result = "rejected" \/ (r.result = "repair" /\ r.repairs >= MaxRepairs)
        /\ Goes(d, Failing(r, "REJECTED"))

\* A request that failed sends the run to the catch block; only a callback is sent
\* again, as it was, and not one that timed out.
Caught(d) ==
  LET r == run[d] IN
  /\ Doing(d, Operations \ {"input", "callback"})
  /\ r.result \in {"refused", "error", "lost"}
  /\ Goes(d, Failing(r, "FAILED"))

\* Mutant of MayResend: a callback is sent until it is accepted.
ResendAlways(r) == r.result \in {"refused", "error"}

MayResend(r) == r.result \in {"refused", "error"} /\ r.tries + 1 < CallbackTries

Resend(d) ==
  /\ Doing(d, {"callback"}) /\ MayResend(run[d])
  /\ Goes(d, [run[d] EXCEPT !.tries = IF @ + 1 < CallbackTries THEN @ + 1 ELSE @])

\* Success that could not be reported is reported as a failure.
GiveUpVerified(d) ==
  LET r == run[d] IN
  /\ Doing(d, {"callback"}) /\ r.verdict = "VERIFIED"
  /\ r.result \in {"refused", "error", "lost"} /\ ~MayResend(r)
  /\ Goes(d, Failing(r, "FAILED"))

\* The callback was accepted, or nothing more can be done.
Settle(d) ==
  LET r == run[d] IN
  /\ \/ Doing(d, {"callback"}) /\ r.result = "ok"
     \/ /\ Doing(d, {"callback"}) /\ r.verdict # "VERIFIED"
        /\ r.result \in {"refused", "error", "lost"} /\ ~MayResend(r)
     \/ Doing(d, {"input"}) /\ r.result \in {"refused", "error", "lost"}
  /\ End(d)

-----------------------------------------------------------------------------
(* Local operations *)

Yield(d) ==
  /\ Doing(d, {"compile"}) /\ run[d].cursor < MaxCursor
  /\ Goes(d, [run[d] EXCEPT !.todo = <<"stream">> \o @])

Finish(d) ==
  /\ Doing(d, Local)
  /\ Goes(d, [run[d] EXCEPT !.todo = Tail(@), !.told = run[d].cursor])

\* The compiler or the process fails, or its output is not what it may be.
Stumble(d) ==
  /\ Doing(d, Local \cup {"upload"}) /\ ~run[d].asked
  /\ Goes(d, Failing([run[d] EXCEPT !.stumbled = TRUE], "FAILED"))

-----------------------------------------------------------------------------

Serve(q) ==
  \/ ServeObject(q) \/ ServeStart(q) \/ ServeEvent(q) \/ ServeCandidate(q)
  \/ ServeResume(q) \/ ServeCallback(q) \/ Refuse(q) \/ ServeError(q)

Next ==
  \/ \E d \in Try :
       \/ Post(d) \/ Accept(d) \/ Abort(d) \/ FallSilent(d)
       \/ Ask(d) \/ TimeOut(d) \/ LoseAnswer(d)
       \/ Continue(d) \/ Judged(d) \/ Caught(d)
       \/ Resend(d) \/ GiveUpVerified(d) \/ Settle(d)
       \/ Yield(d) \/ Finish(d) \/ Stumble(d)
  \/ \E q \in net : Serve(q)
  \/ Exit \/ Crash \/ Close

Spec == Init /\ [][Next]_vars

\* The container's own scheduling, its thirty-second timer and the deadlines of the
\* compiler and the processes; the Worker and the network owe nothing.
Fairness ==
  /\ \A d \in Try :
       /\ WF_vars(Accept(d)) /\ WF_vars(FallSilent(d))
       /\ WF_vars(Ask(d)) /\ WF_vars(TimeOut(d))
       /\ WF_vars(Continue(d) \/ Judged(d) \/ Caught(d) \/ Resend(d)
                    \/ GiveUpVerified(d) \/ Settle(d))
       /\ WF_vars(Finish(d) \/ Stumble(d))
  /\ WF_vars(Exit)

FairSpec == Spec /\ Fairness

-----------------------------------------------------------------------------
(* Properties *)

\* Types of the state.
TypeOK ==
  /\ kind \in Kinds /\ job \in Job
  /\ posts \in [Try -> {"unsent", "arrived", "over"}]
  /\ server \in {"up", "closing", "down"}
  /\ run \in [Try -> Run] /\ net \subseteq Request

\* No other run of the job has come and gone.
FirstRun(d) == \A e \in Try \ {d} : run[e].state \in {"none", "live"}

\* A patch run that failed after its compiler's first event, or the first of its
\* uploads, and before they returned: it reports an old cursor, so the Worker refuses
\* its callback and the job waits for its deadline.
MayBeStale(d) == ~Shared /\ run[d].stale

\* Processor and Worker count the job's events in step, through the compiler's
\* events, the Worker's own verdicts and every repair, and whatever the dispatcher
\* tries twice: a request of a job's first run is refused only when others closed
\* the job, after an answer of this run went wrong, or when it reports the failure of
\* a patch compiler that had not yet returned the cursor of its events.
InStep ==
  \A d \in Try :
    run[d].result = "refused" =>
      \/ run[d].doubt \/ ~FirstRun(d)
      \/ job.status \in Terminal /\ job.by # d
      \/ MayBeStale(d)

\* A run that ends by itself leaves its job settled: when every request was
\* answered, no failure of the kernel, of a scientific compiler, of the fixed patch
\* process or of the candidate leaves the learner waiting for the deadline.  Only the
\* patch compiler's can, between its first event and its return.
AnsweredRunSettles ==
  \A d \in Try :
    run[d].state = "done" /\ ~run[d].doubt /\ FirstRun(d) /\ ~MayBeStale(d)
      => job.status \in Terminal

\* The callback that settles the job says what happened: success follows a verified
\* candidate, rejection the last candidate of the last attempt, and failure a local
\* failure, an answer that went wrong, or a container that was lost.
OutcomeIsEarned ==
  job.by # 0 =>
    /\ job.status = "VERIFIED" /\ kind # "run" => job.judged = "verified"
    /\ job.status = "REJECTED" =>
         job.judged = "rejected" /\ job.attempt = MaxAttempts
    /\ job.status = "FAILED" =>
         run[job.by].stumbled \/ run[job.by].doubt \/ ~FirstRun(job.by)

\* A scientific run's success closes with its two events, however often the dispatcher
\* tried, the callback was sent or a request was late: what the Worker appends after
\* them has one place (RunnerJob, VerifiedRunIsWitnessed).
ScientificRunCloses ==
  kind = "run" =>
    \A q \in net : q.op = "callback" /\ q.verdict = "VERIFIED" => q.cursor = 2

\* A container that has a run, or has finished one, goes down, whatever the Worker
\* does with its requests: no run is left to hold the instance and its lease.
ContainerEnds == (Live # {} \/ server = "closing") ~> server = "down"
=============================================================================
