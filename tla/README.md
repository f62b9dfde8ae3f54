# CounterLab in TLA+

CounterLab lets a learner state a belief about a notebook, has a model compile an
experiment that could refute it, runs the experiment in a container and issues
evidence that only a Worker-owned verifier may release.  This directory specifies the
machinery that makes the evidence trustworthy when requests race, Workers die, the
runner retries and clocks run out; TLC checks it on small instances and TLAPS proves
the central part for all of them.

## The system and its parts

| Part | State it keeps | Operations | Hard behaviour | Properties that matter |
|---|---|---|---|---|
| Runner job service and D1 repository (`packages/session-core/src/runner-jobs.ts`, `apps/web/worker/d1-runner-job-repository.ts`) | one row per job (status, version, attempt, cursor, two kinds of claim), its public events, one callback receipt per key | create or reuse, transition, start, acknowledge, append event, fail, claim and release output, claim, record and release callback, cancel, expire | each is a read, a decision and a compare-and-swap; claims lapse with time | a job ends once and explains why; claims fence; terminal rows are final |
| Worker routes (`apps/web/worker/api.ts`) | nothing of their own | dispatch, start, events, candidate, outputs, resume, callback, poll, cancel; learner routes | several writes per request, errors between them, onError releases the claim | a partial series resumes; a failed dispatch harms nobody |
| Admission controller (`apps/web/worker/admission-control.ts`) | ledger of charged operations with leases, one alarm: two writes of every request | admit, release, alarm | best-effort releases, late, repeated or for jobs never admitted; an object that dies between its writes; windows and leases run out independently | budgets per window, active limit, an alarm for every lease, leases end with their holder |
| Session service (`packages/session-core/src/service.ts`, `domain.ts`) | session aggregate | twenty-five commands, one per learning step, in two generations of protocol | long sequences over one state table; edits, rejections and re-runs | evidence stays bound to its belief; repair is earned; nothing is rewritten |
| Session storage and evidence route (`d1-session-repository.ts`, `api.ts`) | rows of the session and its evidence chain | read, link, save by version; read a snapshot | two reads before a conditional batch; lost replies; readers during writes | one history; atomic operations; snapshots of one version |
| Hosted runner (`services/hosted-runner/src`) | the run of a job in the container: its event cursor, output hashes, repairs | accept, compile, upload, announce, candidate, resume, call back, abort, exit | lost or late requests and answers, a second post, crashes, retried callbacks | its event numbers stay in step with the Worker's; the run settles its job as it deserves; the container goes down |
| Container control plane (`runner-control-plane.ts`) | none | dispatch (two tries), cancel | timeouts | an accepted job is acknowledged or failed |
| Codex client (`packages/codex-client/src`, `launch-boundary.ts`) | pending requests, queued events, one child process per attempt, staged credentials | start, ask, read events, materialize, restart, close, dispose | a process that exits, is silent or breaks the protocol; a consumer that is slow, leaves or aborts | no event is lost or doubled; one compilation; credentials outlive the process that reads them; it ends |
| Learner page: runner events (`apps/web/src/hooks`, `features/learner`, `features/proof`) | cursor and events in memory, a snapshot and a registry in the browser | wait for a job, give up, resume, retry, merge, cancel | reload, superseded waits, pages that arrive late, a session rejected by an older job | no event is missed or shown twice; a running job stays known |
| Replay, access control (`replay-repository.ts`, `access-control.ts`) | publications, owner capabilities | publish, revoke, restart, check | repeated requests, requests already authorised | a revoked replay stays unread |
| Verifiers, scorer, boundary map, parsers, proof capsule (`packages/*`) | none | pure functions | numeric edges | they agree with their definition |
| Kernel and sandbox (`services/kernel`, `services/runner`), web pages, scripts, evaluations | none that others rely on | | | out of scope |

The learner's page asks a route to compile, run or patch.  The route opens a job and
dispatches it, if admission grants a lease, to a container; the container starts the job,
uploads events, candidate plans and outputs, and calls back with a verdict; the callback
route verifies the outputs itself, appends its own authority events, records the outcome
and projects it to the session.  The page polls the job's events, and polling is also what
times jobs out.  All of it meets in the job's row.

## Modules

* `RunnerStatus` - the status table of `packages/contracts`.
* `JobLifecycle` - what a job promises: the status follows the table, events are only
  appended, it ends once and with its evidence.  No versions, claims or clocks.
* `RunnerJob` - the row, events and receipt of one job and every request that touches them.
  A service method is two steps: an action that reads the row and the clock and *stages*
  the write it builds (`Stage`), and `Commit` or `Conflict` when the database runs the
  statement `UPDATE ... WHERE version = ?`, any time later.  Processes are HTTP requests:
  `Handlers` (dispatch, runner, poll and cancel requests, one after another), `Deliveries`
  (one callback each; a retry is another delivery that may carry the same callback) and
  `Uploads` (one output file each).  `pc` is where a request is; `seen` is the row version
  its next write must still find when it passes one on instead of reading again.  A delivery
  may find a receipt twice, when it claims (`ClaimCallback`) and when it records
  (`FindReceipt`: "overruled" is the conflict there), may find another callback's claim
  (`ClaimedByAnother`), and verifies a duplicate whose projection is missing once more
  ("reverifying", `VerifyAgain`).
* `Admission` - the Durable Object's ledger and alarm, and the holders of its leases.
  A request to the object is a transaction on the ledger (`Save`), then `setAlarm` and the
  reply (`Answer`); the runtime lets no other request in between, but the object may die
  there (`Die`), and then nobody has been told of the lease on record (`offer`).  Operations
  are of the three kinds of the code: the release of an upload names the generation it was
  granted, those of analyst calls and runner jobs name none and are taken for the first.  A
  runner job ends whether it was admitted or not (`JobEnds`), and from then on every poll,
  cancel or callback may release the operation of its request again (`ReleaseEnded`).
* `SessionLedger` - what storing a session promises: operations one at a time, each on what
  the one before left, and a log that names each once.
* `SessionStore` - the two tables of D1 under any set of operations: an operation reads the
  row (`Read`), reads the last event and builds the next row and event (`Link`), and runs
  the batch (`Save`, or `Fail` before it runs); a reader of the evidence route reads session,
  chain and session again (`Begin`, `List`, `Check`).
* `Session` - what the operations do: the aggregate as a record, one action per method of
  `SessionService`, with `Evidence` for `resolveSessionEvidenceAuthority`.  `SessionStore`
  shows that each is atomic however it is interleaved, so here it is one step: `SessionStore`
  leaves the relation `Steps` open, and `Session!Next` is one.  That covers the operations
  which read the chain before the last event, since any write in between fails the batch.
* `ControlPlane` - the composition: one session and all the jobs it ever asks for, carried
  forward by the routes of `api.ts`.  A request keeps what it has read (`request[r]`), so
  every await that matters is a step: the learner's routes read the session (`Ask`), look
  for a job to reuse (`Look`), start a compilation on the session as it is by then (`Begin`
  and its four cases), create or reuse under the unique index (`Create`), and dispatch; the
  callback route claims, verifies against one reading of the session (`Read`), records
  (`Record`), reads again (`Reread`) and projects (`Project...`, `Prove`); a poll or a cancel
  ends a job and rejects the compilation (`Close`, `ReadClosed`, `RejectClosed`); `Break` is
  a refusal, an error or the death of a Worker anywhere.  Session and job are here what
  `Session` and `RunnerJob` make of them; what a verifier finds in a job's bytes is chosen
  when the job is created and found again every time, while the *authority* is resolved from
  the session that was read.
* `HostedRunner` - the other end: the container's one-shot server, the processor's run of
  one v5 job for each try that was posted, and the network between run and Worker.
  `todo` is what the run still has to do, in order; an operation is asked (`Ask`), served by
  the Worker in one step (`Serve...`), and answered, refused, lost, timed out (`TimeOut`; the
  request may still be served later) or answered by an error after all (`LoseAnswer`).
  `Continue` is what follows an answer, `Failing` the catch block (`stale` notes that the
  cursor it can see is not that of the events appended), `Resend` the client's repeated
  callback.  The compiler's stream is `Yield`, `Finish` and `Stumble`.
* `CodexClient` - one compilation: the generator `run` of `app-server.ts` as a program
  counter, `AppServerConnection` (the first error, whether it is closed, the event queue,
  the promise waited for), and for each attempt the process and its staged credentials.
  Lines of the process (`Receive`, `ReceiveAnswer`), its exit, the timers and the abort signal
  come at any step.
* `LearnerPage` - the waits of one tab for runner jobs (`monitorRunnerJob` and
  `useRunnerEvents`), each page of events in flight as steps of its own (`Look`, `List`,
  `Receive`, `Judge`), the snapshot in `localStorage`, the registry in `sessionStorage`
  (`Register` may fail and tell nobody), and a server: streams that grow, compilations and
  runs of which one of each kind is under way or verified, and the session, which any ended
  job may take on (`Project`, `Look`, `CancelJob`), so that a wait may end by another job's
  doing.  `Retry` is a page that registers the compilation it is answered with and does not
  wait for it.  `Panel` and `Admit` are the merge of the proof panel.
* `MC...` - values for TLC.  `...Proofs` - the proofs.

How they meet: `JobLifecycle` is what `RunnerJob` implements and what every job of `ControlPlane`
keeps; `SessionLedger` is what `SessionStore` implements and what lets `Session` and
`ControlPlane` take an operation for one step; `HostedRunner` is the source of `RunnerJob`'s
callbacks and events, `CodexClient` what its operation `compile` stands for, `LearnerPage` the
reader of the streams `RunnerJob` writes and the source of its polls.

### What is abstracted

A callback is its idempotency key, the rest of its evidence (`body`), status, kind of error
and final cursor.  An event is who appended it.  What an event or a candidate contains, and
which verdict a verifier reaches, is a free choice.  Times are units of one clock shared by
all Workers.  Reads of several tables in one request happen together unless the code can
be told apart by a write in between: a delivery that found no receipt may still find the job
terminal (`ClaimCallback`).  A request that gives up and is repeated by its caller is the
handler becoming idle and acting again; a release that meets a conflict reads again, without
the code's limit of three tries (giving up is `Crash`).  Whether a dispatch is admitted is
free in `RunnerJob`; `Admission` says when.  A v5 authority series has the same number of
events whether it verifies or rejects.  Other guards of the routes (tokens, mode, purpose,
hash comparisons) only refuse requests and are left out.  Metrics, HMAC keys and retry-after
hints of the admission controller are left out; an operation belongs to a fixed session, and
a behaviour of `Admission` looks at one kind, since the ledger counts each kind apart; a limit
the code leaves undefined is set out of reach.

In the session a hash is what it is the hash of, and a reference is its target.  Inputs are
whatever the schemas admit, so an experiment of another belief or a verdict of another
result is offered at every step; inputs that name another session, or a prediction for
another belief, are refused before anything is read from them and are left out.  Of the
evidence chain `Session` keeps the kinds that a native proof must cite and the last event;
`SessionStore` keeps all of it.  In `SessionStore` an event is the request that made it: an
event is hashed with its own random id, so two events never share a hash.

In `LearnerPage` FAILED stands for REJECTED and CANCELLED as well, which end a wait and a
compilation alike; the session the wait reads after each page is read where the wait decides
(`Judge`); storage that can be read is assumed to be read as it was written.

`ControlPlane` follows the v5 protocol, keeps of the session what a projection reads or
writes, and of the belief and the prediction nothing, since both are fixed before the first
compilation.  Interactive runs project nothing and are left out.  In `HostedRunner` everyone
else who ends the job (cancel, deadline, failed dispatch) is `Close`; the authority events the
Worker appends are after the callback and are `RunnerJob`'s.  `CodexClient` has the structured
compilation, the only one the hosted runner starts; an event of the App Server is the phase
it belongs to, and lines before the turn that are no answer are protocol errors.

## Runs

| Run | Question | Bounds |
|---|---|---|
| `job_uploads` | A compile job with repairs: do the two kinds of claim exclude each other, do they stop the stream, and does the job end, whoever crashed holding one? | 1 handler (it serves poll, cancel, runner and dispatch requests, interleaved with its own staged writes by the others), 1 delivery, 2 uploads, deadline 2, claim limit 1, grace 1, clock 3 |
| `job_run` | A v5 run, dispatched twice: how does it end, what are its deliveries answered, who may dispatch failures harm, and is the promise of `JobLifecycle` kept? | 2 handlers, 2 deliveries that carry verdict, failure or a reused key, 2 authority events, the same times; 2.3 million states |
| `write_claim_ttl` | *(violated)* Do output claims last to the deadline, as DECISIONS.md says? | as `job_uploads` with 1 upload |
| `admission` | Do budgets, the active limit and the alarm hold, wherever the object dies, and which leases does a release end, for every kind of operation? | 3 operations of 2 sessions, 2 callers, 3 holders, window 3, lease 2, clock 4; of each kind another budget is the first to be exhausted; 0.7 million states |
| `session_store` | Is there one history of the session, are answers true, snapshots sound, and operations atomic? | 3 operations, any of which may lose its reply, 1 reader of up to 2 snapshots, 4 contents |
| `session` | Does any sequence of operations bring apart what a session must keep together? | 2 each of claims, concepts, predictions, experiments, runs, manifests; 1 packet, 1 report, 1 patch; no bound on steps |
| `control_plane` | Do session and jobs end up agreeing, whatever overlaps or dies between two steps of a route? | 2 requests at a time, any number one after another, 2 new jobs, starting with a prediction, a released result or a passed transfer; 0.8 million states |
| `control_plane_timeout` | *(violated)* Is a timed-out compile job projected once? | as above, from the prediction |
| `codex` | Are events neither lost nor doubled, do credentials outlive their process, is there one compilation, and does it end? | 2 attempts (the code's own limit), 2 lines besides answers |
| `codex_denied` | *(violated)* Does a run whose approval was denied before its turn completed fail? | 3 lines |
| `learner_page` | Does the learner see every event of the job once and in order, and does the tab keep knowing jobs that run? | 2 compilations and a run, 2 waits, 2 events in all, 1 poll of grace; 4.6 million states |
| `hosted_runner` | Do event numbers stay in step, does a run settle its job as it deserves, does the container go down? | each kind of job, 2 posts (the code's own limit), 2 output files, 2 attempts, 3 tries of a callback (the code's own), 2 repairs, 1 request delayed past its timeout, 2 events for one rejection, 2 events of a turn's stream; 1 million states |

The bounds let the interesting cases happen: with a deadline of 2, a claim limit of 1 and a
grace of 1, claims lapse before the deadline, at it and inside the settlement window, and
the clock passes the last of them.  Two deliveries are a callback and its retry, or two
different callbacks.  `job_uploads` has no authority events, so it exercises the half of
`EventFence` that is about output claims; the other half, about events under a callback claim,
is proved (`EventFenceCorrect`).  A window of 3 with leases of 2 lets a lease be reacquired and
outlive the window of its charge; three holders are one at work, one left from before and one
refused.  In `control_plane` two requests are the two sides of every race
the routes have; two new jobs let an old compile job meet a newer one, and the three starts
put each kind of job at the end and the middle of the budget.  In `hosted_runner` a rejected
attempt with two counterexamples is where a run that counts one event per verdict falls out
of step, and the second post meets a run in progress, one just over, and a fresh container.
In `learner_page` two waits are one wait superseded by another for the same or another job;
two compilations let an older one reject the session under a newer, and the run is the job
that no rejection reaches; a wait given up, a reload or a cancel comes at every step.  In `codex` two lines
are the shortest that queue an event behind another; `codex_denied` needs a third.

Deadlock checking is off in every run: a terminal job, a ledger whose holders are done, a
finished session, a settled run, an ended compilation and requests that were answered really
do stop, and the clock is bounded.  Symmetry is used where no property with fairness is
checked.

### Properties

`RunnerJob`: `OutcomeIsExplained` relates the status, the events and the receipt;
`SchemaHolds` covers every row that is stored *or about to be*; `SettledInTime` is about
writes that reach the database late; `AnswersAreTrue` about what deliveries were told, after
any retry and wherever they were told it: recorded and duplicate mean the receipt is theirs, a
conflict that a receipt of their key stands or another callback has held the claim; `ClaimFence`, `EventFence` and `DispatchFailureIsFenced` are about what no step may
do; `NeverStranded` says that a Worker that died holding a claim leaves a job that its callback,
or else a poll, can end; `VerifiedRunIsWitnessed` about the place of the authority events;
`EventuallyTerminal` about crashes; `KeepsPromise` is the refinement of `JobLifecycle`.

`Admission`: `BudgetsHold` compares grants, not the ledger, with the budgets;
`LeasesWithinLimit` is about the ledger, and so is `LeaseHasAlarm`: a lease anyone was told of
has its alarm wherever the object died since, and every lease has one after the next request
that comes through.  `WorkIsBacked` says that what the ledger has on record is what its holders
believe, but for two cases it names (`Exposed`): a charge forgotten with its generations, and
the first lease of a runner request of which a job has ended.  `ReleaseEndsLease` says that a
release that names its lease works.

`SessionStore`: `ChainIsHistory` relates the row's version to the chain after any race;
`AnswersAreTrue` adds that a conflict means somebody else's operation took effect;
`SnapshotIsSound` is about a reader that overlaps writes; `ImplementsLedger` is atomicity.

`Session`: every property holds over the whole session and takes several operations to
break.  `EvidenceStaysBound` says belief, prediction, lineage, verdict and result still
resolve at every step after release; `RepairIsEarned` that the edge of the state table made
for protocol v1 does not let v2 evidence past its boundary map, nor inconclusive evidence
into repair; `RejectionReleasesNothing` is about verdicts replaced by a later run;
`DirectorFollowsBelief` about edits between the director's turns; `ProofCanBeCited` that
whoever earned a native proof has on the chain all it must cite; `CapsuleSealsTheSession` and
`NothingIsRewritten` that what was issued or committed stays as it was.

`ControlPlane`: `AuthorityIsBacked` says every authority the session carries is the recorded
outcome of a job run on the session's own lab and result; `AnsweredIsProjected` that a runner
told its verdict was taken can rely on it; `OneJobPerRequest` that two identical requests share
a job.  Five more are proved for all instances and take no run: `WithheldIsBacked`,
`RejectsAreEnded`, `CapsuleIsEarned`, `NothingIsTakenBack` and `JobsKeepPromise`.

`HostedRunner`: `InStep` says the number of the next event is the Worker's, in every run whose
answers were not lost; `AnsweredRunSettles` that a run the Worker answered leaves no open job,
whether it succeeded or which of its steps failed; both except, by `MayBeStale`, the one failure
that is reported with an old cursor: a patch run's, inside its compiler or its uploads;
`OutcomeIsEarned` that VERIFIED or REJECTED is what the run came to; `ContainerEnds` is liveness.

`CodexClient`: `NothingIsLost` compares what was received, queued, handed over and shown;
`LaunchOutlivesProcess` and `OneCompilation` are about every path out of the generator;
`EventuallyEnds` is liveness.  `LearnerPage`: `NothingIsMissed` compares what a learner sees with
the streams, through reloads and superseded waits; `RunningStaysKnown` says which running jobs
the registry can lose: compilations whose session an older job rejected (finding 2), no others
and no run.

`TypeOK` is stated in every component's module and proved for each; no run spends itself on it.

### Fairness

`job_uploads` (and `write_claim_ttl`, whose property is temporal): the clock advances; the
database runs statements that handlers sent; a dispatch or candidate request that has begun
goes on (the platform runs it to a reply); and `Expire` is weakly fair, because the learner's
page polls an open job and every poll calls `expireIfTimedOut`.  Nothing is assumed of
deliveries, uploads or the runner: they may stop anywhere, holding any claim.

`codex`: the client's own steps and its timers are weakly fair (an event loop that runs, and
`setTimeout`).  Nothing is asked of the processes, of the consumer or of the signal.

`hosted_runner`: the container's process schedules its own steps, a request is given up after
its thirty seconds, and compiler, kernel and patch processes have deadlines of their own, so
that local operations end.  Nothing is asked of the Worker or of the network.

### Findings

1. `write_claim_ttl`: an output-write claim ends after 60 seconds or at the deadline,
   whichever is first; `docs/DECISIONS.md:835` says only after the deadline.
2. `control_plane_timeout`: polling a compile job that timed out, or cancelling one that was
   cancelled, rejects whatever compilation the session is in (`api.ts:6926`, `:6992`), also the
   one of a newer job, whose verdict is then lost; the test at `api.test.ts:11323` says exactly
   once.
3. `codex_denied`: a completion that is queued behind a denied approval is still read, because
   `AsyncEventQueue.next` (`app-server.ts:640`) hands out what is queued before the failure; the
   test at `index.test.ts:1159` expects such a run to fail.

### Known limits of the code

Met while modelling, excluded from a property by a named condition or left out of the runs:

* `admission-control.ts:205` - the ledger forgets lease generations with the window of a
  charge, so an upload left from before can release a lease that is not its own, and a lease
  reacquired late in its window stops counting as active when the window ends.
* `admission-control.ts:536` - an object that dies between ledger and alarm leaves a lease
  without an alarm until the next request; nobody was told of that lease, and a retry of the
  same request is told that it is already active.
* `api.ts:1645`, `:1662` - releases of runner jobs never name a generation, so a reacquired
  lease is not released: a request whose dispatch failed twice stays undispatched until the
  lease runs out.
* `api.ts:6917`, `:7006` - every poll of a job that timed out, and every cancel of one that has
  ended, releases the operation of its request as of generation 1, also if that job was never
  admitted: it can end the first lease of a later job of the same request while that job is at
  work.  `Exposed` names it.
* `job-processor.ts:784` - the catch block of a PATCH_COMPILE (and of the legacy LAB_COMPILE)
  sees the cursor from before the compiler's events while the compiler, its turn or the uploads
  that follow are under way, so a failure there, after a first event and before the return, is
  reported with a cursor the Worker refuses and the job stays open to its deadline;
  `MayBeStale` names the condition.  A LAB_RUN assigns its cursor after every event, a
  scientific compile shares its progress with the catch block, and the fixed patch process runs
  after the compiler has returned: their failures are accepted.  A lost answer to an event
  has the same effect as an old cursor, for every kind.
* `control-plane-client.ts:183` - a callback that times out is not sent again (only HTTP errors
  are), and a verified run is then reported FAILED under another key.
* A container that crashes in the middle of a run leaves a job that a second post cannot
  resume: its start is repeated, its first event is refused.
* `app-server.ts:979` - a process that survives its forced shutdown makes `close` throw from
  the finally block: nothing is disposed, and a compilation that had returned its document is
  started again.  `app-server.ts:1344` - a `spawn` that throws leaves the launch staged, and an
  abort while it is being prepared is not heard.
* `useRunnerEvents.ts:216` - a page in flight when its wait is given up is merged into the events
  of whatever job the hook follows by then; `overlap` records that it happened.
* `useRunnerEvents.ts:242`, `:481` - a wait ends on the state of the session, whichever job
  brought it there, and the tab then forgets its job: by finding 2 an older job can reject the
  session of a compilation that still runs, which the page then no longer reconnects to.
  `activeRunnerRegistry.ts:122`, `:133` - a job that cannot be registered is not, silently.
* `api.ts:7515` - a retried callback whose verification now ends in an error carries the
  runner's cursor, which partial authority events have passed: the job can only time out.
* `access-control.ts` - revoking a session closes the jobs that exist; a request authorised
  before can still create one.

## Proofs

Each proof module states what it assumes of the constants by name (`ConstantsOK`, `StoreOK`,
`NothingIsNone`) and proves an inductive invariant `IInv`, one lemma per kind of step, and from
it the theorems listed here.  `Invariance` is that invariant itself.

`RunnerJobProofs` - for any number of requests, any set of callbacks, any time limits and either
kind of job: `TypeCorrect`, `SchemaCorrect`, `OutcomeCorrect`, `SettlementCorrect`,
`TerminalCorrect` (a terminal row is final; `KeepsPromise` implies it), and `PromiseKept`, that
`RunnerJob` implements `JobLifecycle`.  None of these is inductive alone: whether a commit is
harmless depends on what was staged, perhaps long ago.  The invariant adds `StagedFollows`: a
staged write was built from a version no newer than the row's, builds a row the schema
accepts, and, *if it still finds its version*, is a `Successor` of the row as it stands - a
status the table allows, the cursor advanced by exactly its event, an outcome only with its
receipt, in time.  It also says that a queued job has had no attempt, which bounds attempts
through dispatch.  The proof sorts the steps in three kinds (`StepKinds`): a `SoundStage` stages
a successor of the current row; a `Quiet` step changes nothing stored; a `Commit` writes a
successor, raises the version and so turns every other staged write stale.

Its second half is the rest of `RunnerJob`'s safety, for any number of requests and both kinds of
job: `ClaimFenceCorrect`, `EventFenceCorrect`, `LateClaimCorrect`, `DispatchCorrect`,
`RetryCorrect`, `SettlingCorrect`, `AnswersCorrect` and `WitnessCorrect`.  The fences are decided when a write is staged and matter
when it commits, so the invariant `FInv` carries the decision over: `FencesHold` says that what
a fresh staged write may do (`Allowed`: to the claim, the events, the receipt and its own
request) is still allowed, because the row has not moved and a lapsed claim stays lapsed
(`LapsedStays`).  `SeenIsCurrent` says what a dispatch knows of the row it last saw,
`ReceiptsHaveOrigin` and `ReceiptsAreWitnessed` what a receipt leaves behind; a delivery that was
told of a conflict has, since, a receipt of its key or a competitor that claimed (`Contested`).  `Retriable` says
that the callback which is settling the job, under its claim or after the claim was lost, could
be claimed again as far as row and table go (`KeepsSettling` is a write's part in it), and
`RetryCorrect` follows: nothing but time stands between a crash and the end of the job.  Again
the steps are of three kinds: `AllowedStage`, `Still` and `Commit`.  `WitnessCorrect` assumes a job
without repairs and callbacks that, if they report success, close the same number of events;
`HostedRunnerProofs` shows that those of the container do.  With repairs the Worker also appends
events of its own before the verdict, one per candidate.
`LateClaimCorrect` and `SettlingCorrect` are about steps and `TerminalCorrect` about terminal rows;
no run spends itself on these three.

`SessionStoreProofs` - every property of `session_store`, for any number of operations and
readers, any contents and any `Steps`: `TypeCorrect`, `OneHistory`, `TrueAnswers`,
`SoundSnapshots` and `StoreIsLedger`, the refinement of `SessionLedger`.  The invariant says of
an operation about to save that the row it read is still the row if the version is, and that
its event follows one of the chain and is later than that version.  The row and the last
event are read apart, so the event need not be the next one; but if the version still holds
and the number is free, it is.  Of a reader it says that what it listed is the chain up to
some version since its first read.

`SessionProofs` - every property of `session`, for any sets of claims, predictions, experiments,
results and the rest: `EvidenceCorrect`, `RepairCorrect`, `RejectionCorrect`, `DirectorCorrect`,
`CitationCorrect`, `CapsuleCorrect` and, of steps, `RecordsAreFinal`.  The properties speak of
late states, so the invariant adds what the way there leaves behind: `InOrder`, which fields a
session may have in which state, and that a diff binds the fields as they are; `Cited`, which
events are in the chain by then; `BoundaryIsBound`.  Together with `StoreIsLedger` this says:
whatever requests race on a stored session, it has the properties of `Session`.

`AdmissionProofs` - every property of `admission`, for any operations, callers, holders and
limits: `LimitCorrect`, `AlarmCorrect`, `WorkCorrect`, `ReleaseCorrect`, `BudgetsCorrect`.  The
invariant says which lease stands for a holder at work (`LeaseStands`), that a grant not yet
told is exactly the lease on record and newer than all that were told (`OfferStands`), that no two
grants of one operation are alike (`GrantsDiffer`), and that the ledger's charges are within the
budgets (`ChargesWithinBudgets`); the budgets of the grants follow by an injection of the grants of a
window into the charges the ledger still keeps.

`ControlPlaneProofs` - every property of `control_plane`, for any number of requests and jobs:
`TypeCorrect`, `AuthorityCorrect`, `AnswerCorrect`, `OneJobCorrect`; and, beyond the runs,
`WithheldCorrect`, `RejectsCorrect`, `CapsuleCorrect`, `RecordsAreFinal` and `PromiseKept`.  The heart of it: a session
only grows (`SessionGrows`), so what a job was asked for stays `Due`, and every verification of
the same callback, whenever it is made, finds the same; a receipt, a status and a finding
therefore agree with what the next request finds, and projecting twice is projecting once.
`Knows` says what a request may still rely on of what it read.  Every step lemma proves `Kept`,
the invariant together with the growth of session and jobs, and `RecordsAreFinal` is that growth.
What the session has on its chain without carrying it needs an invariant of its own (`LInv`):
the job a poll is about to reject a compilation for has ended (`ClosedAreOver`) and stays so,
and a capsule has its patch (`CapsuleHasPatch`).  `PromiseKept` takes `JobLifecycle` once for every
job (`Promise(j)`, a job not yet created being in the queue) and shows each step to move every
job as promised or not at all: what `RunnerJob` proves of one row, the routes keep of all of them.

`CodexClientProofs` - every safety property of `codex`, for any number of attempts and lines:
`TypeCorrect`, `FlowCorrect`, `LaunchCorrect`, `OneCompilationCorrect`.  The invariant says who
waits at which point (`Waits`), what the attempts so far have left (`Attempted`, `Launched`) and
when a document may have been written (`Written`); `NothingIsLost` rests on the algebra of the
queue.

`HostedRunnerProofs` - every safety property of `hosted_runner`, for every kind of job and any number
of tries, files, attempts, repairs and callbacks: `TypeCorrect`, `InStepCorrect`,
`AnsweredRunSettlesCorrect`, `OutcomeIsEarnedCorrect`; and `OneRunAtATime` and
`ScientificRunCorrect`.  It assumes `RepairsSuffice`: the
processor repairs as often as the Worker allows attempts (`job-processor.ts:515`, and at most
three attempts in the job's schema); otherwise a candidate could be rejected with attempts left.
What a run still has to do is a sequence of any length, and the invariant says of it only what
matters (`Shape`: start first, resume before the next turn, the callback last).  `Truthful` says
that what a run has been told is still so, or the job's cursor has passed it by and its
callback will be refused; that is what makes a callback harmless that arrives after its run is
gone (`Warranted`).  `Parallel` says where the job is while a run is, as long as nobody else
touched the job and no answer went wrong; there `InStep` and `AnsweredRunSettles` come from: a
failure reports the cursor the Worker counts to unless the run is `stale`, which only a patch run
can be.  A scientific run follows a script without
branches (`OnScript`: what is left to do says what has been done), and a late callback carries
what its script had come to, so every success it reports closes its two events
(`ScientificRunCloses`): the assumption under which `RunnerJob` has its witness.

`LearnerPageProofs` - every property of `learner_page`, for any finite set of jobs and any bounds:
`TypeCorrect`, `EventsCorrect`, `RegistryCorrect`.  `NothingIsMissed` is about the present; the
invariant says what the pages under way may still do to it.  No cursor
is ahead of its stream (`Behind`); the controller's monitor is the one not aborted (`FollowedLives`);
and until `overlap` only that monitor asks, for the hook's job and from the hook's cursor
(`OneFollows`), so its page continues what the hook has.  `Once`, that nothing is shown twice, holds with overlaps
too.  The registry rests on two more: a page has seen an end only if the job has ended
(`EndsAreReal`), and of each kind one job at most is under way or verified, with a verified one
behind every session past LAB_VERIFIED (`Earned`), so the session can end the wait for a running
job only by having been rejected.  The panel merges events of several jobs, so what it shows is shown by induction over
the merge (`MergedPrefix`, `AdmittedInOrder`, `FlattenWithoutGap`, `PanelInOrder`).  The library's
induction theorem takes an operator, which the provers cannot instantiate; `NatSetInduction`
takes a set instead, `Recursion` defines a function by recursion from it, and both follow from the
library's facts about finite sets.

Only model-checked: liveness (`EventuallyTerminal`, `EventuallyEnds`, `ContainerEnds`), which is
beyond the prover, and the properties that are violated.  That the two sides of a run fit is shown
property by property (`ScientificRunCorrect` and `WitnessCorrect`) and not as one refinement: the
job of `HostedRunner` and the row of `RunnerJob` are not composed in one module.

## Not modelled

* Owner capabilities, restart and revocation of sessions, and the publication of replays
  (`access-control.ts`, `replay-repository.ts`): single conditional statements with little to
  interleave, next in the plan.
* The scorer and the boundary map, the plan verifier, the experiment IR, the notebook parser and
  the concept registry: pure functions of documents; a verifier's verdict is a free choice here.
* The belief analyst and the language-model calls: no state; their results are inputs of
  `Session`.
* Proof capsule and proof bundle: canonical hashing and signatures over finished evidence;
  `Session` and `SessionStore` have the chain they seal.
* In modelled parts: the SQLite repository of the local server (one process, one
  transaction at a time); the analyst and upload routes except their leases; the
  routes of the approved sample; unstructured Codex runs and health probes; the readiness
  probe of the container; `monitorStandaloneRunnerJob`, which is the same loop without a
  session; the legacy v1 branches, which project alike.
* The numerical kernel and the sandbox, pages, scripts, evaluations and release tooling: no state
  that others rely on, or outside what a model checker reaches.

## Plan

1. `SessionAccess`: owner capabilities, restart and revocation, composed with `ControlPlane`, and
   the replay repository.
2. The scorer and the boundary map as functions, against reference definitions.
3. The job of `HostedRunner` shown to move as `JobLifecycle` promises, as those of `ControlPlane`
   are; what the snapshot of `LearnerPage` keeps over waits that overlap.
