---------------------------- MODULE CodexClient ----------------------------
(***************************************************************************)
(* The Codex client of the hosted runner                                   *)
(* (packages/codex-client/src/app-server.ts): one compilation, run() with  *)
(* its restarts, over App Server processes that may answer, stream, break  *)
(* the protocol, fall silent or exit at any moment, for a consumer that    *)
(* may take its time, leave or abort.                                      *)
(*                                                                         *)
(* A step is what the event loop does without giving way: the arrival of a *)
(* line, a timer, an exit, an abort, or a stretch of the generator from    *)
(* one await or yield to the next.  A settled promise and the code waiting *)
(* for it are two steps (wait), for more lines may be in the same chunk.   *)
(* Yields with nothing between them are one.  A turn returns one document, *)
(* as all turns of the hosted runner do, and may use no tool.              *)
(***************************************************************************)
EXTENDS Naturals, Sequences, FiniteSets

CONSTANTS
  None,
  Attempts,    \* MAX_APP_SERVER_ATTEMPTS
  MaxLines     \* bound: lines the processes write beside their answers

Events == {"plan", "tool", "usage", "completed", "failed"}
Errors == {"DENIED", "PROTOCOL", "TIMEOUT", "EXITED", "SPAWN", "ISOLATION", "TURN_FAILED",
           "CANCELLED"}

ASSUME ConstantsOK ==
  /\ Attempts \in Nat \ {0} /\ MaxLines \in Nat
  /\ None \notin Events \cup Errors \cup {"pending", "answer", "LEFT"}

VARIABLES
  pc,        \* where the generator is
  stage,     \* the request it sends next, or waits for; what follows a yield
  attempt,
  wait,      \* None, "pending", or what the awaited promise was settled with
  conn,      \* the AppServerConnection of this attempt
  process,   \* the process of every attempt
  launch,    \* its staged credentials
  aborted,   \* the signal
  output,    \* emittedCompilerOutput
  error,     \* what the try block, and in the end the run, threw
  lines,     \* such lines so far
  received, denied, taken, shown, written, gaveUp  \* history, see Receive, Show, GiveUp

run == <<pc, stage, wait, error, output>>
history == <<received, denied, taken, shown, written, gaveUp>>
vars == <<pc, stage, attempt, wait, conn, process, launch, aborted, output, error, lines, history>>

NoConnection == [fatal |-> None, closed |-> TRUE, queue |-> <<>>, message |-> FALSE,
                 listening |-> FALSE]

Init ==
  /\ pc = "top" /\ stage = None /\ attempt = 0 /\ wait = None
  /\ conn = NoConnection
  /\ process = [a \in 1..Attempts |-> "none"]
  /\ launch = [a \in 1..Attempts |-> "none"]
  /\ aborted = FALSE /\ output = FALSE /\ error = None /\ lines = 0
  /\ received = <<>> /\ denied = FALSE /\ taken = <<>> /\ shown = {} /\ written = 0 /\ gaveUp = {}

-----------------------------------------------------------------------------
(* The connection *)

\* fail: the first error is kept and whoever waits is rejected with it ...
Fail(e) ==
  /\ conn' = [conn EXCEPT !.fatal = IF @ = None THEN e ELSE @, !.closed = TRUE]
  /\ wait' = IF wait = "pending" THEN e ELSE wait

\* ... and unless the connection was closed before, the process is terminated.
Terminate ==
  process' = IF conn.closed \/ process[attempt] # "running" THEN process
             ELSE [process EXCEPT ![attempt] = "killed"]

\* Mutant of Push: an event handed to a waiter is queued as well.
PushTwice(e) ==
  /\ wait' = IF pc = "reading" /\ wait = "pending" THEN e ELSE wait
  /\ conn' = [conn EXCEPT !.queue = Append(@, e)]

\* AsyncEventQueue.push.
Push(e) ==
  IF pc = "reading" /\ wait = "pending"
  THEN wait' = e /\ UNCHANGED conn
  ELSE conn' = [conn EXCEPT !.queue = Append(@, e)] /\ UNCHANGED wait

\* AsyncEventQueue.next: what is queued comes before the failure.
TakeNext ==
  IF conn.queue # <<>>
  THEN wait' = Head(conn.queue) /\ conn' = [conn EXCEPT !.queue = Tail(@)]
  ELSE /\ wait' = IF conn.fatal # None THEN conn.fatal ELSE "pending"
       /\ UNCHANGED conn

Send == wait' = IF conn.fatal # None THEN conn.fatal ELSE "pending"

Connected == pc \in {"held", "asking", "revoking", "reading", "materializing", "closing"}

\* receiveLine of an answer, or an error instead, to the request that is pending.
ReceiveAnswer ==
  /\ pc = "asking" /\ wait = "pending" /\ process[attempt] # "gone"
  /\ wait' \in {"answer", "PROTOCOL"}
  /\ UNCHANGED <<pc, stage, attempt, conn, process, launch, aborted, output, error, lines,
                 history>>

\* Of any other line, for as long as there is a process to read from.
Receive ==
  /\ Connected /\ process[attempt] # "gone"
  /\ lines < MaxLines /\ lines' = lines + 1
  /\ \/ \* to none that is pending, no JSON, no known notification, too long a line
        Fail("PROTOCOL") /\ Terminate /\ UNCHANGED <<received, denied>>
     \/ \* a request for an approval, perhaps before the turn is over
        /\ Fail("DENIED") /\ Terminate
        /\ denied' = (denied \/ \A i \in DOMAIN received : received[i] # "completed")
        /\ UNCHANGED received
     \/ \* the final message of the turn
        /\ conn' = [conn EXCEPT !.message = TRUE]
        /\ UNCHANGED <<wait, process, received, denied>>
     \/ \E e \in Events :
          /\ Push(e) /\ received' = Append(received, e)
          /\ UNCHANGED <<process, denied>>
  /\ UNCHANGED <<pc, stage, attempt, launch, aborted, output, error,
                 taken, shown, written, gaveUp>>

\* Mutant of Timer: a request is never given up.
EventTimer ==
  /\ pc = "reading" /\ wait = "pending"
  /\ wait' = "TIMEOUT"
  /\ UNCHANGED <<pc, stage, attempt, conn, process, launch, aborted, output, error, lines,
                 history>>

\* The timer of the pending request, or of the wait for the next event.
Timer ==
  /\ wait = "pending"
  /\ wait' = "TIMEOUT"
  /\ UNCHANGED <<pc, stage, attempt, conn, process, launch, aborted, output, error, lines,
                 history>>

\* The process exits, of itself or killed, or never was started ("error").
Exit(a) ==
  /\ process[a] \in {"running", "killed"}
  /\ IF a = attempt /\ ~conn.closed
     THEN \/ Fail("EXITED")
          \/ stage = "initialize" /\ Fail("SPAWN")
     ELSE UNCHANGED <<conn, wait>>
  /\ process' = [process EXCEPT ![a] = "exited"]
  /\ UNCHANGED <<pc, stage, attempt, launch, aborted, output, error, lines, history>>

\* "close": its pipes have been read to the end as well.
Gone(a) ==
  /\ process[a] = "exited"
  /\ process' = [process EXCEPT ![a] = "gone"]
  /\ UNCHANGED <<run, attempt, conn, launch, aborted, lines, history>>

Abort ==
  /\ ~aborted /\ pc # "done"
  /\ aborted' = TRUE
  /\ IF conn.listening THEN Fail("CANCELLED") /\ Terminate ELSE UNCHANGED <<conn, wait, process>>
  /\ UNCHANGED <<pc, stage, attempt, launch, output, error, lines, history>>

-----------------------------------------------------------------------------
(* How an attempt ends *)

\* Mutant of Caught: what has been shown does not keep it from starting again.
CaughtRestarts(e) ==
  LET code == IF aborted THEN "CANCELLED" ELSE e IN
  IF code = "EXITED" /\ attempt < Attempts
  THEN pc' = "restarting" /\ UNCHANGED error
  ELSE pc' = "done" /\ error' = code

\* The catch clause of run: only a process that exited before any compiler output
\* is started again, and not for ever.
Caught(e) ==
  LET code == IF aborted THEN "CANCELLED" ELSE e IN
  IF code = "EXITED" /\ attempt < Attempts /\ ~output
  THEN pc' = "restarting" /\ UNCHANGED error
  ELSE pc' = "done" /\ error' = code

\* The try block of runOnce is left, with an error, None or "LEFT": the listener is
\* removed and the connection closed.
Finally(e) ==
  /\ pc' = "closing" /\ wait' = None
  /\ error' = IF e \in Errors /\ aborted THEN "CANCELLED" ELSE e
  /\ conn' = [conn EXCEPT !.listening = FALSE, !.closed = TRUE]
  /\ Terminate
  /\ UNCHANGED <<stage, output, launch>>

\* Mutant of Closed: nobody waits for the process.
CloseAtOnce ==
  /\ pc = "closing"
  /\ pc' = "disposing"
  /\ UNCHANGED <<stage, wait, error, output, attempt, conn, process, launch, aborted, lines,
                 history>>

\* awaitTermination.
Closed ==
  /\ pc = "closing" /\ process[attempt] = "gone"
  /\ pc' = "disposing"
  /\ UNCHANGED <<stage, wait, error, output, attempt, conn, process, launch, aborted, lines,
                 history>>

\* The process outlives its forced shutdown: close throws, and nothing is disposed.
GiveUp ==
  /\ pc = "closing" /\ process[attempt] # "gone"
  /\ Caught("EXITED")
  /\ gaveUp' = gaveUp \cup {attempt}
  /\ UNCHANGED <<stage, wait, output, attempt, conn, process, launch, aborted, lines,
                 received, denied, taken, shown, written>>

\* The consumer who left wants no more.
Ended ==
  IF error \in {None, "LEFT"} THEN pc' = "done" /\ UNCHANGED error ELSE Caught(error)

Dispose ==
  /\ pc = "disposing"
  /\ \/ launch' = [launch EXCEPT ![attempt] = "disposed"] /\ Ended
     \/ launch' = [launch EXCEPT ![attempt] = "kept"] /\ Caught("SPAWN")
  /\ UNCHANGED <<stage, wait, output, attempt, conn, process, aborted, lines, history>>

-----------------------------------------------------------------------------
(* The generator *)

Enter ==
  /\ pc = "top"
  /\ IF aborted
     THEN pc' = "done" /\ error' = "CANCELLED" /\ UNCHANGED <<attempt, output>>
     ELSE /\ pc' = "preparing" /\ attempt' = attempt + 1 /\ output' = FALSE
          /\ UNCHANGED error
  /\ UNCHANGED <<stage, wait, conn, process, launch, aborted, lines, history>>

Restart ==
  /\ pc = "restarting"
  /\ pc' = "top"
  /\ UNCHANGED <<stage, wait, error, output, attempt, conn, process, launch, aborted, lines,
                 history>>

\* prepareLaunch and the connection.  An abort from before it is not heard of, and
\* a spawn that throws leaves the launch behind.
Connect ==
  /\ pc = "preparing"
  /\ \/ Caught("ISOLATION") /\ UNCHANGED <<stage, conn, process, launch, received, denied, taken>>
     \/ /\ Caught("SPAWN")
        /\ launch' = [launch EXCEPT ![attempt] = "staged"]
        /\ UNCHANGED <<stage, conn, process, received, denied, taken>>
     \/ /\ launch' = [launch EXCEPT ![attempt] = "staged"]
        /\ process' = [process EXCEPT ![attempt] = "running"]
        /\ conn' = [NoConnection EXCEPT !.closed = FALSE, !.listening = ~aborted]
        /\ pc' = "held" /\ stage' = "initialize"
        /\ received' = <<>> /\ denied' = FALSE /\ taken' = <<>>
        /\ UNCHANGED error
  /\ UNCHANGED <<wait, output, attempt, aborted, lines, shown, written, gaveUp>>

\* The consumer, done with what it was shown, asks for more.
Resume ==
  /\ pc = "held" /\ error # "LEFT"
  /\ \/ /\ stage \in {"initialize", "thread", "turn"}
        /\ pc' = "asking" /\ Send
        /\ UNCHANGED <<stage, error, output, conn, process, launch>>
     \/ /\ stage = "events"
        /\ pc' = "reading" /\ TakeNext
        /\ UNCHANGED <<stage, error, output, process, launch>>
     \/ /\ stage = "completed"
        /\ IF conn.message
           THEN pc' = "materializing"
                /\ UNCHANGED <<stage, wait, error, output, conn, process, launch>>
           ELSE Finally("PROTOCOL")
     \/ stage = "failed" /\ Finally("TURN_FAILED")
     \/ stage = "end" /\ Finally(None)
  /\ UNCHANGED <<attempt, aborted, lines, history>>

\* It breaks off, or throws.
Leave ==
  /\ pc = "held" /\ error # "LEFT"
  /\ Finally("LEFT")
  /\ UNCHANGED <<attempt, aborted, lines, history>>

Hold(next) ==
  /\ pc' = "held" /\ stage' = next /\ wait' = None
  /\ UNCHANGED <<error, conn, process, launch>>

Answered ==
  /\ pc = "asking" /\ wait = "answer"
  /\ \/ /\ stage = "initialize"
        /\ pc' = "asking" /\ stage' = "account" /\ Send
        /\ UNCHANGED <<error, output, conn, process, launch>>
     \/ /\ stage = "account"
        /\ \/ /\ pc' = "revoking" /\ wait' = None
              /\ UNCHANGED <<stage, error, output, conn, process, launch>>
           \/ Finally("ISOLATION")
     \/ stage = "thread" /\ Hold("turn") /\ UNCHANGED output
     \/ /\ stage = "turn"
        /\ pc' = "reading" /\ stage' = "events" /\ TakeNext
        /\ UNCHANGED <<error, output, process, launch>>
  /\ UNCHANGED <<attempt, aborted, lines, history>>

Revoke ==
  /\ pc = "revoking"
  /\ \/ /\ launch' = [launch EXCEPT ![attempt] = "revoked"]
        /\ pc' = "held" /\ stage' = "thread"
        /\ UNCHANGED <<wait, error, output, conn, process>>
     \/ Finally("ISOLATION")
  /\ UNCHANGED <<attempt, aborted, lines, history>>

\* An awaited promise was rejected.
Rejected ==
  /\ pc \in {"asking", "reading"} /\ wait \in Errors
  /\ Finally(wait)
  /\ UNCHANGED <<attempt, aborted, lines, history>>

\* An event of the turn is yielded; the last one decides how to go on.
Show ==
  /\ pc = "reading" /\ wait \in Events
  /\ taken' = Append(taken, wait)
  /\ IF wait = "tool"
     THEN Finally("PROTOCOL") /\ UNCHANGED shown
     ELSE /\ Hold(IF wait \in {"completed", "failed"} THEN wait ELSE "events")
          /\ output' = (output \/ wait = "plan")
          /\ shown' = IF wait = "plan" THEN shown \cup {attempt} ELSE shown
  /\ UNCHANGED <<attempt, aborted, lines, received, denied, written, gaveUp>>

\* structured.materialize.
Materialize ==
  /\ pc = "materializing"
  /\ \/ Hold("end") /\ written' = written + 1 /\ UNCHANGED output
     \/ Finally("PROTOCOL") /\ UNCHANGED written
  /\ UNCHANGED <<attempt, aborted, lines, received, denied, taken, shown, gaveUp>>

Client ==
  \/ Enter \/ Restart \/ Connect \/ Resume \/ Leave \/ Answered \/ Revoke \/ Rejected \/ Show
  \/ Materialize \/ Closed \/ GiveUp \/ Dispose

Next ==
  \/ Client \/ Timer \/ ReceiveAnswer \/ Receive \/ Abort
  \/ \E a \in 1..Attempts : Exit(a) \/ Gone(a)

Spec == Init /\ [][Next]_vars

\* The event loop runs what is due; file operations end, a consumer goes on or
\* leaves.  Nothing is asked of the processes.
FairSpec == Spec /\ WF_vars(Client) /\ WF_vars(Timer)

-----------------------------------------------------------------------------
Phases == {"top", "preparing", "held", "asking", "revoking", "reading", "materializing",
           "closing", "disposing", "restarting", "done"}
Stages == {"initialize", "account", "thread", "turn", "events", "completed", "failed", "end"}

Connection == [fatal : Errors \cup {None}, closed : BOOLEAN, queue : Seq(Events),
               message : BOOLEAN, listening : BOOLEAN]

TypeOK ==
  /\ pc \in Phases /\ stage \in Stages \cup {None} /\ attempt \in 0..Attempts
  /\ wait \in {None, "pending", "answer"} \cup Events \cup Errors
  /\ conn \in Connection /\ aborted \in BOOLEAN /\ output \in BOOLEAN
  /\ error \in Errors \cup {None, "LEFT"} /\ lines \in 0..MaxLines
  /\ process \in [1..Attempts -> {"none", "running", "killed", "exited", "gone"}]
  /\ launch \in [1..Attempts -> {"none", "staged", "revoked", "disposed", "kept"}]
  /\ received \in Seq(Events) /\ taken \in Seq(Events) /\ denied \in BOOLEAN
  /\ shown \subseteq 1..Attempts /\ gaveUp \subseteq 1..Attempts /\ written \in Nat

\* Between the process and the compilation no event is lost, doubled or overtaken,
\* however lines, timers, failures and a slow consumer interleave (AsyncEventQueue).
NothingIsLost ==
  received = taken \o (IF wait \in Events THEN <<wait>> ELSE <<>>) \o conn.queue

\* A launch is for its process: the credentials are gone before a thread is asked
\* for, nothing is disposed before the process is gone, and whatever happens all
\* is disposed in the end, unless the disposal failed or the process would not die.
LaunchOutlivesProcess ==
  /\ (pc \in {"held", "asking"} /\ stage \in {"thread", "turn"}) \/ pc = "reading" =>
       launch[attempt] = "revoked"
  /\ \A a \in 1..Attempts :
       /\ launch[a] = "disposed" => process[a] = "gone"
       /\ process[a] # "none" /\ (a < attempt \/ pc \in {"restarting", "done"}) =>
            launch[a] \in {"disposed", "kept"} \/ a \in gaveUp

\* A compilation is one compilation: its consumer sees the output of one process
\* only, and files are written once, through all restarts; a process that would
\* not die excepted.
OneCompilation ==
  /\ Cardinality(shown) <= 1
  /\ gaveUp = {} => written <= 1
  /\ pc = "done" /\ error = None => written >= 1

\* A compilation ends, whatever its processes do: unless one would not die, which
\* restarts it for a consumer that may have left.
EventuallyEnds == <>(pc = "done" \/ gaveUp # {})

\* index.test.ts, "denies interactive server requests instead of forwarding
\* approvals": a run whose process asked for one before its turn was over is
\* rejected.
DeniedRunFails == pc = "done" /\ error = None => ~denied
=============================================================================
