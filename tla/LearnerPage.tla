---------------------------- MODULE LearnerPage ----------------------------
(***************************************************************************)
(* The learner's page following its runner jobs                            *)
(* (apps/web/src/hooks/useRunnerEvents.ts), with what it keeps across a    *)
(* reload: the snapshot of the public events of every job in localStorage  *)
(* and the registry of the tab's active jobs in sessionStorage             *)
(* (features/learner/activeRunnerRegistry.ts), and the proof panel that    *)
(* merges these events with the recorded ones                              *)
(* (features/proof/mergeProofEvents.ts).                                   *)
(*                                                                         *)
(* A monitor is one call of monitorRunnerJob.  A later call, clear() and   *)
(* cancel() abort its signal, but not the request it waits for, so several *)
(* monitors may be alive, and all write the same references of the hook.   *)
(* The jobs of the session and the session itself live on the server and   *)
(* are what RunnerJob, ControlPlane and Session make of them: events of a  *)
(* job are numbered from 1, none follows a final status, of a request one  *)
(* job at most is under way or verified, and a job that has ended may      *)
(* reject a session that another one is compiling.                         *)
(***************************************************************************)
EXTENDS Naturals, SequencesExt, FiniteSets

CONSTANTS
  None,
  Jobs,         \* jobs of the session this tab hears of
  Compiles,     \* those that compile the lab; the others run it
  MaxEvents,    \* bound: public events of a job
  MaxTotal,     \* bound: public events of all jobs
  MaxWaits,     \* bound: calls of waitForJob
  GracePolls    \* terminalProjectionGracePolls

ASSUME ConstantsOK ==
  /\ None \notin Jobs \cup Nat
  /\ IsFiniteSet(Jobs) /\ Compiles \subseteq Jobs
  /\ {MaxEvents, MaxTotal, MaxWaits, GracePolls} \subseteq Nat

VARIABLES
  stream, status,  \* of every job: events appended, and its status
  session,         \* the state of the session
  active, events, cursor, controller,  \* the references of the hook
  monitors,        \* the calls of monitorRunnerJob so far
  snapshot,        \* localStorage
  registry,        \* sessionStorage
  overlap          \* history: a monitor was aborted before its page was in

server == <<stream, status, session>>
hook == <<active, events, cursor>>
tab == <<registry, overlap>>
vars == <<server, hook, controller, monitors, snapshot, tab>>

\* FAILED stands for REJECTED and CANCELLED as well: they end a wait and a
\* compilation alike.
Ended == {"VERIFIED", "FAILED", "TIMED_OUT"}
Statuses == Ended \cup {"NONE", "RUNNING"}
States == {"PREDICTION_COMMITTED", "LAB_COMPILING", "LAB_VERIFIED", "LAB_REJECTED",
           "EXPERIMENT_COMPLETED"}
\* terminalStates: where the wait for a job ends.
Ends(j) == IF j \in Compiles THEN {"LAB_VERIFIED", "LAB_REJECTED"}
           ELSE {"EXPERIMENT_COMPLETED", "LAB_REJECTED"}

Pages == [next : 0..MaxEvents, status : Statuses]
NoPage == [next |-> 0, status |-> "RUNNING"]
Done == [pc |-> "done"]
Live == [job : Jobs, cursor : 0..MaxEvents, grace : 0..GracePolls, aborted : BOOLEAN,
         pc : {"asked", "looked", "answered", "session", "waiting"}, page : Pages]
Monitors == Live \cup {Done}
Events == Jobs \X (1..MaxEvents)

Slice(j, from, upto) == [k \in 1..(upto - from) |-> <<j, from + k>>]
Prefix(j, n) == Slice(j, 0, n)

Init ==
  /\ stream = [j \in Jobs |-> 0] /\ status = [j \in Jobs |-> "NONE"]
  /\ session = "PREDICTION_COMMITTED"
  /\ active = None /\ events = <<>> /\ cursor = 0 /\ controller = None
  /\ monitors = <<>>
  /\ snapshot = [j \in Jobs |-> None] /\ registry = {}
  /\ overlap = FALSE

-----------------------------------------------------------------------------
(* The server *)

browser == <<hook, controller, monitors, snapshot, tab>>

\* The compile route takes the session back to LAB_COMPILING.
StartCompilation ==
  /\ session \in {"PREDICTION_COMMITTED", "LAB_REJECTED"} /\ session' = "LAB_COMPILING"
  /\ UNCHANGED <<stream, status, browser>>

\* The compile or the run route creates a job: of each request at most one is
\* under way or verified.  An answer of an older job may have rejected the
\* session since the compilation was started.
Begin(j) ==
  /\ status[j] = "NONE"
  /\ \A k \in Jobs : (k \in Compiles <=> j \in Compiles) => status[k] \notin {"RUNNING", "VERIFIED"}
  /\ IF j \in Compiles THEN session # "PREDICTION_COMMITTED"
     ELSE session \in {"LAB_VERIFIED", "EXPERIMENT_COMPLETED"}
  /\ status' = [status EXCEPT ![j] = "RUNNING"]
  /\ UNCHANGED <<stream, session, browser>>

Produce(j) ==
  /\ status[j] = "RUNNING" /\ stream[j] < MaxEvents /\ FoldFunction(+, 0, stream) < MaxTotal
  /\ stream' = [stream EXCEPT ![j] = @ + 1]
  /\ UNCHANGED <<status, session, browser>>

Conclude(j, s) ==
  /\ status[j] = "RUNNING" /\ s \in Ended
  /\ status' = [status EXCEPT ![j] = s]
  /\ UNCHANGED <<stream, session, browser>>

\* Where a job that ended as s takes the session: a verified one a step on, and a
\* compilation that was not verified rejects whatever is being compiled.
Projected(j, s) ==
  IF session = "LAB_COMPILING" /\ j \in Compiles
  THEN IF s = "VERIFIED" THEN "LAB_VERIFIED" ELSE "LAB_REJECTED"
  ELSE IF session = "LAB_VERIFIED" /\ j \notin Compiles /\ s = "VERIFIED"
  THEN "EXPERIMENT_COMPLETED" ELSE session

\* The callback that ended the job, or a later poll or cancel request of any tab.
Project(j) ==
  /\ status[j] \in Ended /\ Projected(j, status[j]) # session
  /\ session' = Projected(j, status[j])
  /\ UNCHANGED <<stream, status, browser>>

\* A cancel request of the page (which calls Leave before): the server may stop
\* before it rejects the session, and unless the answer is lost or the registry
\* cannot be written the job is taken from it (forgetRunnerJob, confirmRestart).
CancelJob(j) ==
  /\ status[j] # "NONE"
  /\ status' = [status EXCEPT ![j] = IF @ = "RUNNING" THEN "FAILED" ELSE @]
  /\ \/ UNCHANGED <<session, registry>>
     \/ /\ session' = IF status[j] = "RUNNING" THEN Projected(j, "FAILED") ELSE session
        /\ registry' \in {registry, registry \ {j}}
  /\ UNCHANGED <<stream, hook, controller, monitors, snapshot, overlap>>

-----------------------------------------------------------------------------
(* What is kept in the browser *)

\* RunnerEventSnapshotSchema: of one job, increasing, and up to the cursor.
Valid(j, es, c) ==
  /\ \A i \in DOMAIN es : es[i][1] = j /\ es[i][2] <= c
  /\ \A i \in DOMAIN es : i > 1 => es[i - 1][2] < es[i][2]

\* writeRunnerEventSnapshot: what cannot be written is removed.
WriteSnapshot(j, es, c) ==
  \/ /\ Valid(j, es, c)
     /\ snapshot' = [snapshot EXCEPT ![j] = [events |-> es, cursor |-> c]]
  \/ snapshot' = [snapshot EXCEPT ![j] = None]  \* invalid, too large, or the storage is full

\* registerActiveRunnerJob: a registry that is full or cannot be written stays
\* as it is, and nobody is told.
Register(j) ==
  registry' \in {registry, registry \cup {j}}

\* advanceLiveLab retries a rejected compilation: when one is still under way the
\* route answers with it and with the rejected session, and the page registers it
\* (rememberRunnerJob) without waiting for it.
Retry(j) ==
  /\ j \in Compiles /\ status[j] = "RUNNING" /\ session = "LAB_REJECTED"
  /\ Register(j)
  /\ UNCHANGED <<server, hook, controller, monitors, snapshot, overlap>>

-----------------------------------------------------------------------------
(* The hook *)

Asking(m) == m.pc \in {"asked", "looked", "answered"}

\* cancel(): a monitor between two polls ends, the others go on to their next
\* look at the signal.
Aborted ==
  IF controller = None THEN monitors
  ELSE [monitors EXCEPT ![controller] =
          IF @.pc = "waiting" THEN Done ELSE [@ EXCEPT !.aborted = TRUE]]
Overlapped == overlap \/ (controller # None /\ Asking(monitors[controller]))

\* Mutant of Resumed: the hook's events are taken over whatever job they are of.
ResumedFromAny(j) ==
  IF snapshot[j] # None THEN snapshot[j] ELSE [events |-> events, cursor |-> cursor]

\* prepareReconnect.
Resumed(j) ==
  IF snapshot[j] # None THEN snapshot[j]
  ELSE IF active = j THEN [events |-> events, cursor |-> cursor]
  ELSE [events |-> <<>>, cursor |-> 0]

\* waitForJob.
Wait(j) ==
  /\ status[j] # "NONE" /\ Len(monitors) < MaxWaits
  /\ LET from == Resumed(j) IN
       /\ active' = j /\ events' = from.events /\ cursor' = from.cursor
       /\ monitors' = Append(Aborted,
            [job |-> j, cursor |-> from.cursor, grace |-> 0, aborted |-> FALSE, pc |-> "asked",
             page |-> NoPage])
  /\ controller' = Len(monitors) + 1
  /\ Register(j) /\ overlap' = Overlapped
  /\ UNCHANGED <<server, snapshot>>

\* cancel(): the page leaves the step, or is about to cancel the job.
Leave ==
  /\ controller # None
  /\ monitors' = Aborted /\ overlap' = Overlapped /\ controller' = None
  /\ UNCHANGED <<server, hook, snapshot, registry>>

\* clear().
Clear ==
  /\ active # None
  /\ monitors' = Aborted /\ overlap' = Overlapped /\ controller' = None
  /\ snapshot' = [snapshot EXCEPT ![active] = None]
  /\ active' = None /\ events' = <<>> /\ cursor' = 0
  /\ UNCHANGED <<server, registry>>

\* The page is loaded again: what is not in a storage is gone.
Reload ==
  /\ monitors # <<>> /\ (active # None \/ \E i \in DOMAIN monitors : monitors[i].pc # "done")
  /\ monitors' = [i \in DOMAIN monitors |-> Done]
  /\ controller' = None /\ active' = None /\ events' = <<>> /\ cursor' = 0
  /\ UNCHANGED <<server, snapshot, tab>>

-----------------------------------------------------------------------------
(* A monitor *)

Become(i, m) == monitors' = [monitors EXCEPT ![i] = m]
Released(i) == IF controller = i THEN None ELSE controller

\* The events route reads the job, projects one whose time is up, and then
\* reads its events.
Look(i) ==
  LET m == monitors[i] IN
  /\ m.pc = "asked"
  /\ Become(i, [m EXCEPT !.pc = "looked", !.page.status = status[m.job]])
  /\ session' = IF status[m.job] = "TIMED_OUT" THEN Projected(m.job, "TIMED_OUT") ELSE session
  /\ UNCHANGED <<stream, status, hook, controller, snapshot, tab>>

List(i) ==
  LET m == monitors[i] IN
  /\ m.pc = "looked"
  /\ Become(i, [m EXCEPT !.pc = "answered", !.page.next = stream[m.job]])
  /\ UNCHANGED <<server, hook, controller, snapshot, tab>>

\* A request of the monitor fails, or its polls are used up.
Lose(i) ==
  /\ monitors[i].pc \in {"answered", "session", "waiting"}
  /\ Become(i, Done) /\ controller' = Released(i)
  /\ UNCHANGED <<server, hook, snapshot, tab>>

\* rememberEvents merges a page by event id: what the hook has is left out.
Merged(es, page) ==
  LET merged[k \in 0..Len(page)] ==
        IF k = 0 THEN es
        ELSE IF page[k] \in Range(es) THEN merged[k - 1]
        ELSE Append(merged[k - 1], page[k])
  IN merged[Len(page)]

\* The page arrives: the signal was looked at before the request.
Receive(i) ==
  LET m == monitors[i]
      page == Slice(m.job, m.cursor, m.page.next)
  IN
  /\ m.pc = "answered"
  /\ Become(i, [m EXCEPT !.pc = "session", !.cursor = m.page.next])
  /\ IF m.page.next = m.cursor THEN UNCHANGED <<hook, snapshot>>
     ELSE /\ active' = m.job /\ events' = Merged(events, page) /\ cursor' = m.page.next
          /\ WriteSnapshot(m.job, Merged(events, page), m.page.next)
  /\ UNCHANGED <<server, controller, tab>>

\* Mutant of Seen: whatever ends the wait takes the job from the registry.
SeenEnded(m, returns) == TRUE

\* The page was final, or the session is where the wait was to end, whichever
\* job took it there.
Seen(m, returns) == m.page.status \in Ended \/ returns

\* The session arrives: the wait returns, throws, or goes on.  A registry that
\* cannot be written keeps the job.
Judge(i) ==
  LET m == monitors[i]
      failed == m.page.status \in {"FAILED", "TIMED_OUT"}
      returns == ~failed /\ session \in Ends(m.job)
      again == \/ m.page.status = "RUNNING"
               \/ m.page.status = "VERIFIED" /\ m.grace < GracePolls
      goesOn == ~failed /\ ~returns /\ again /\ ~m.aborted
  IN
  /\ m.pc = "session"
  /\ registry' \in {registry} \cup (IF Seen(m, returns) THEN {registry \ {m.job}} ELSE {})
  /\ Become(i, IF ~goesOn THEN Done
            ELSE [m EXCEPT !.pc = "waiting", !.page = NoPage,
                           !.grace = IF m.page.status = "VERIFIED" THEN @ + 1 ELSE @])
  /\ controller' = IF goesOn THEN controller ELSE Released(i)
  /\ UNCHANGED <<server, hook, snapshot, overlap>>

\* onSession of a superseded step throws before the page's status is used.
Supersede(i) ==
  /\ monitors[i].pc = "session" /\ monitors[i].aborted
  /\ Become(i, Done) /\ controller' = Released(i)
  /\ UNCHANGED <<server, hook, snapshot, tab>>

Poll(i) ==
  /\ monitors[i].pc = "waiting"
  /\ Become(i, [monitors[i] EXCEPT !.pc = "asked"])
  /\ UNCHANGED <<server, hook, controller, snapshot, tab>>

-----------------------------------------------------------------------------
(* The proof panel *)

\* appendCompilerEvents, for one candidate: what is there already, or behind
\* its job, is dropped.
Admit(merged, e) ==
  IF \E f \in Range(merged) : f[1] = e[1] /\ f[2] >= e[2] THEN merged ELSE Append(merged, e)

\* appendCompilerEvents: the candidates in their order.
Admitted(all) ==
  LET merged[k \in 0..Len(all)] == IF k = 0 THEN <<>> ELSE Admit(merged[k - 1], all[k])
  IN merged[Len(all)]

\* mergeProofEventSources: the events the server had recorded when the panel
\* was loaded, then the streamed ones.
Panel(recorded) ==
  LET order == SetToSeq(Jobs)
      stored == FlattenSeq([k \in DOMAIN order |-> Prefix(order[k], recorded[order[k]])])
  IN Admitted(stored \o events)

-----------------------------------------------------------------------------
Next ==
  \/ \E j \in Jobs :
       \/ Begin(j) \/ Produce(j) \/ Project(j) \/ CancelJob(j) \/ Retry(j) \/ Wait(j)
       \/ \E s \in Ended : Conclude(j, s)
  \/ \E i \in DOMAIN monitors :
       \/ Look(i) \/ List(i) \/ Lose(i) \/ Receive(i) \/ Judge(i) \/ Supersede(i) \/ Poll(i)
  \/ StartCompilation \/ Leave \/ Clear \/ Reload

Spec == Init /\ [][Next]_vars

-----------------------------------------------------------------------------
\* The types of the variables.
TypeOK ==
  /\ stream \in [Jobs -> 0..MaxEvents] /\ status \in [Jobs -> Statuses]
  /\ session \in States /\ active \in Jobs \cup {None}
  /\ events \in Seq(Events)
  /\ cursor \in 0..MaxEvents /\ controller \in {None} \cup DOMAIN monitors
  /\ monitors \in Seq(Monitors)
  /\ snapshot \in [Jobs -> {None} \cup [events : Seq(Events), cursor : 0..MaxEvents]]
  /\ \A j \in Jobs : snapshot[j] # None => Valid(j, snapshot[j].events, snapshot[j].cursor)
  /\ registry \subseteq Jobs
  /\ overlap \in BOOLEAN

\* The events of every job in their order, from the first and without a gap.
InOrder(es) ==
  \A i, k \in DOMAIN es : i < k /\ es[i][1] = es[k][1] => es[i][2] < es[k][2]
WithoutGap(es) ==
  \A k \in DOMAIN es : es[k][2] > 1 =>
    \E i \in 1..(k - 1) : es[i] = <<es[k][1], es[k][2] - 1>>

\* A wait resumes where the last one stopped, over reloads, lost requests,
\* refused writes and changes of job, and the learner sees every event of a
\* job once and in order: up to the cursor in the stream, up to the cursor in
\* what a reload will start from, and without a gap in the proof panel.  It
\* holds until a wait is given up while its page of events is under way; the
\* page is then merged into whatever the hook follows by that time, where the
\* one thing left is that no event is shown twice.
NothingIsMissed ==
  /\ IsInjective(events)
  /\ ~overlap =>
       /\ active # None => events = Prefix(active, cursor)
       /\ \A j \in Jobs : snapshot[j] # None =>
            snapshot[j].events = Prefix(j, snapshot[j].cursor)
       /\ \A recorded \in [Jobs -> 0..MaxEvents] :
            (\A j \in Jobs : recorded[j] <= stream[j]) =>
              InOrder(Panel(recorded)) /\ WithoutGap(Panel(recorded))

\* A job that this tab has registered and that still runs stays in the registry,
\* which is where the page finds the jobs to reconnect to or to cancel, however
\* waits overlap, with one exception that the code makes: the wait for a
\* compilation also ends when the answer to a poll, a cancel request or a late
\* callback of an older one has rejected the session under it.  A run of the
\* fixed kernel is never forgotten while it runs.
RunningStaysKnown ==
  [][\A j \in registry \ registry' :
       status'[j] = "RUNNING" => j \in Compiles /\ session = "LAB_REJECTED"]_vars
=============================================================================
