-------------------------- MODULE CodexClientProofs --------------------------
(***************************************************************************)
(* For every number of attempts and of lines: no event of a process is     *)
(* lost, doubled or overtaken on its way to the compilation, a launch      *)
(* outlives its process, and a compilation is one compilation.             *)
(*                                                                         *)
(* The argument: what a generator waits for goes with where it is (Waits), *)
(* and how far an attempt got with what became of its process and of its   *)
(* credentials (Attempted, Launched).                                      *)
(***************************************************************************)
EXTENDS CodexClient, FiniteSetTheorems, SequenceTheorems, TLAPS

\* What the generator waits for is what it asked for; it waits for an event only
\* when none is queued.
Waits ==
  /\ pc = "asking" => /\ wait \in {"pending", "answer"} \cup Errors
                      /\ stage \in {"initialize", "account", "thread", "turn"}
  /\ pc = "reading" => /\ wait \in {"pending"} \cup Events \cup Errors
                       /\ stage = "events"
                       /\ wait = "pending" => conn.queue = <<>>
  /\ pc \notin {"asking", "reading"} => wait = None
  /\ pc = "held" => stage \in Stages \ {"account"}
  /\ pc = "revoking" => stage = "account"
  /\ pc = "materializing" => stage = "completed"

\* Attempts are counted, and one is made again only before any output.
Attempted ==
  /\ pc \in {"top", "restarting"} => attempt < Attempts
  /\ pc \notin {"top", "restarting", "done"} => attempt >= 1
  /\ pc \in {"top", "restarting", "preparing"} => ~output
  /\ output => attempt >= 1 /\ shown = {attempt}
  /\ ~output => shown = {}

\* What became of the process and the credentials of every attempt.
Launched ==
  /\ \A a \in 1..Attempts :
       /\ a > attempt => process[a] = "none"
       /\ launch[a] = "disposed" => process[a] = "gone"
       /\ process[a] # "none" /\ (a < attempt \/ pc \in {"top", "restarting", "done"}) =>
            launch[a] \in {"disposed", "kept"} \/ a \in gaveUp
  /\ pc = "preparing" => process[attempt] = "none"
  /\ pc \in {"held", "asking"} /\ stage \notin {"initialize", "account"} =>
       launch[attempt] = "revoked"
  /\ pc \in {"reading", "materializing"} => launch[attempt] = "revoked"
  /\ pc = "disposing" => process[attempt] = "gone"

\* Files are written at the end of an attempt, which is then over.
Over ==
  \/ pc = "held" /\ stage = "end"
  \/ pc \in {"closing", "disposing"} /\ error \in {None, "LEFT"}
  \/ pc = "done"

Written ==
  /\ gaveUp = {} => \/ written = 0
                    \/ written = 1 /\ Over
  /\ pc = "held" /\ stage = "end" => written >= 1
  /\ pc \in {"closing", "disposing", "done"} /\ error = None => written >= 1

IInv == TypeOK /\ Waits /\ NothingIsLost /\ Attempted /\ Launched /\ Written

-----------------------------------------------------------------------------
(* Queues *)

\* What is appended last arrives last.
LEMMA FlowAppended ==
  \A t, w, q \in Seq(Events), e \in Events :
     Append((t \o w) \o q, e) = (t \o w) \o Append(q, e)
<1> TAKE t, w, q \in Seq(Events), e \in Events
<1>1. t \o w \in Seq(Events) /\ <<e>> \in Seq(Events) /\ (t \o w) \o q \in Seq(Events)
  BY ConcatProperties
<1>2. /\ Append((t \o w) \o q, e) = ((t \o w) \o q) \o <<e>>
      /\ Append(q, e) = q \o <<e>>
  BY <1>1, AppendIsConcat
<1> QED BY <1>1, <1>2, ConcatAssociative

\* It may be handed over when nothing else is on its way.
LEMMA FlowHanded ==
  ASSUME NEW S, NEW t \in Seq(S), NEW e \in S
  PROVE  Append((t \o <<>>) \o <<>>, e) = (t \o <<e>>) \o <<>>
<1>1. t \o <<e>> \in Seq(S) /\ <<e>> \in Seq(S)
  BY ConcatProperties
<1> QED BY <1>1, AppendIsConcat, ConcatEmptySeq

\* The first in the queue is the next.
LEMMA FlowHead ==
  ASSUME NEW S, NEW t \in Seq(S), NEW q \in Seq(S), q # <<>>
  PROVE  (t \o <<>>) \o q = (t \o <<Head(q)>>) \o Tail(q)
<1>1. Head(q) \in S /\ Tail(q) \in Seq(S) /\ <<Head(q)>> \in Seq(S)
  BY HeadTailProperties
<1>2. q = <<Head(q)>> \o Tail(q)
  BY <1>1, HeadTailProperties
<1>3. t \o q = (t \o <<Head(q)>>) \o Tail(q)
  BY <1>1, <1>2, ConcatAssociative
<1> QED BY <1>3, ConcatEmptySeq

\* What is taken was the next.
LEMMA FlowTaken ==
  ASSUME NEW S, NEW t \in Seq(S), NEW q \in Seq(S), NEW e \in S
  PROVE  (t \o <<e>>) \o q = (Append(t, e) \o <<>>) \o q
<1>1. Append(t, e) = t \o <<e>> /\ Append(t, e) \in Seq(S)
  BY AppendIsConcat, AppendProperties
<1> QED BY <1>1, ConcatEmptySeq

-----------------------------------------------------------------------------
(* The connection *)

InHand == IF wait \in Events THEN <<wait>> ELSE <<>>

\* A failure takes no event away and gives none.
LEMMA Failing ==
  ASSUME TypeOK, Waits, NEW e \in Errors, Fail(e)
  PROVE  /\ conn' \in Connection /\ conn'.queue = conn.queue
         /\ wait' \in {wait} \cup Errors /\ (wait # "pending" => wait' = wait)
         /\ InHand' = InHand
<1>1. conn \in Connection
  BY DEF TypeOK
<1>2. PICK f \in Errors : conn' = [conn EXCEPT !.fatal = f, !.closed = TRUE]
  BY <1>1 DEF Fail, Connection
<1>3. conn' \in Connection /\ conn'.queue = conn.queue
  BY <1>1, <1>2 DEF Connection
<1>4. wait' \in {wait} \cup Errors /\ (wait # "pending" => wait' = wait)
  BY DEF Fail
<1> QED BY <1>3, <1>4 DEF InHand, Events, Errors

\* To terminate a process neither starts nor ends it.
LEMMA Terminating ==
  ASSUME TypeOK, Terminate
  PROVE  /\ process' \in [1..Attempts -> {"none", "running", "killed", "exited", "gone"}]
         /\ \A a \in 1..Attempts : /\ process'[a] = "none" <=> process[a] = "none"
                                   /\ process'[a] = "gone" <=> process[a] = "gone"
BY DEF TypeOK, Terminate

\* A new event goes to the end.
LEMMA Pushing ==
  ASSUME TypeOK, Waits, NothingIsLost, NEW e \in Events, Push(e)
  PROVE  /\ conn' \in Connection /\ (pc = "reading" => wait' # "pending" \/ conn'.queue = <<>>)
         /\ wait' = wait \/ (pc = "reading" /\ wait' = e)
         /\ Append(received, e) = (taken \o InHand') \o conn'.queue
<1>1. /\ conn \in Connection /\ conn.queue \in Seq(Events) /\ taken \in Seq(Events)
      /\ received = (taken \o InHand) \o conn.queue
  BY DEF TypeOK, Connection, NothingIsLost, InHand
<1>2. CASE pc = "reading" /\ wait = "pending"
  <2>1. wait' = e /\ conn' = conn /\ conn.queue = <<>>
    BY <1>2 DEF Push, Waits
  <2>2. InHand = <<>> /\ InHand' = <<e>>
    BY <1>2, <2>1 DEF InHand, Events
  <2> QED BY <1>1, <1>2, <2>1, <2>2, FlowHanded DEF Events
<1>3. CASE ~(pc = "reading" /\ wait = "pending")
  <2>1. wait' = wait /\ conn' = [conn EXCEPT !.queue = Append(@, e)]
    BY <1>3 DEF Push
  <2>2. Append(conn.queue, e) \in Seq(Events)
    BY <1>1, AppendProperties
  <2>3. conn' \in Connection /\ conn'.queue = Append(conn.queue, e)
    BY <1>1, <2>1, <2>2 DEF Connection
  <2>4. InHand' = InHand /\ InHand \in Seq(Events)
    BY <2>1 DEF InHand
  <2>5. Append((taken \o InHand) \o conn.queue, e) = (taken \o InHand) \o Append(conn.queue, e)
    BY <1>1, <2>4, FlowAppended
  <2> QED BY <1>1, <1>3, <2>1, <2>3, <2>4, <2>5
<1> QED BY <1>2, <1>3

\* The next event is the first of the queue.
LEMMA Taking ==
  ASSUME TypeOK, NothingIsLost, wait \notin Events, TakeNext
  PROVE  /\ conn' \in Connection /\ wait' \in {"pending"} \cup Events \cup Errors
         /\ wait' = "pending" => conn'.queue = <<>>
         /\ received = (taken \o InHand') \o conn'.queue
<1>1. /\ conn \in Connection /\ conn.queue \in Seq(Events) /\ taken \in Seq(Events)
      /\ received = (taken \o <<>>) \o conn.queue
  BY DEF TypeOK, Connection, NothingIsLost
<1>2. CASE conn.queue # <<>>
  <2>1. /\ Head(conn.queue) \in Events /\ Tail(conn.queue) \in Seq(Events)
    BY <1>1, <1>2, HeadTailProperties
  <2>2. wait' = Head(conn.queue) /\ conn' = [conn EXCEPT !.queue = Tail(@)]
    BY <1>2 DEF TakeNext
  <2>3. conn' \in Connection /\ conn'.queue = Tail(conn.queue)
    BY <1>1, <2>1, <2>2 DEF Connection
  <2>4. InHand' = <<Head(conn.queue)>>
    BY <2>1, <2>2 DEF InHand
  <2> QED BY <1>1, <1>2, <2>1, <2>2, <2>3, <2>4, FlowHead DEF Events
<1>3. CASE conn.queue = <<>>
  <2>1. conn' = conn /\ wait' \in {"pending"} \cup Errors
    BY <1>1, <1>3 DEF TakeNext, Connection
  <2> QED BY <1>1, <1>3, <2>1 DEF InHand, Events, Errors
<1> QED BY <1>2, <1>3

-----------------------------------------------------------------------------
(* How an attempt ends *)

\* Nothing moves between process and compilation.
LEMMA Quiet ==
  ASSUME NothingIsLost, UNCHANGED <<received, taken>>, conn'.queue = conn.queue, InHand' = InHand
  PROVE  NothingIsLost'
BY DEF NothingIsLost, InHand

\* The try block is left with e.
LEMMA Leaving ==
  ASSUME IInv, attempt >= 1, NEW e \in Errors \cup {None, "LEFT"}, Finally(e)
  PROVE  /\ pc' = "closing" /\ wait' = None /\ UNCHANGED <<stage, output, launch>>
         /\ conn' \in Connection /\ conn'.queue = conn.queue
         /\ error' \in Errors \cup {None, "LEFT"}
         /\ error' = None <=> e = None
         /\ error' = "LEFT" <=> e = "LEFT"
         /\ process' \in [1..Attempts -> {"none", "running", "killed", "exited", "gone"}]
         /\ \A a \in 1..Attempts : /\ process'[a] = "none" <=> process[a] = "none"
                                   /\ process'[a] = "gone" <=> process[a] = "gone"
<1>1. TypeOK /\ conn \in Connection
  BY DEF IInv, TypeOK
<1>2. conn' \in Connection /\ conn'.queue = conn.queue
  BY <1>1 DEF Finally, Connection
<1>3. /\ error' \in Errors \cup {None, "LEFT"}
      /\ error' = None <=> e = None
      /\ error' = "LEFT" <=> e = "LEFT"
  BY ConstantsOK DEF Finally, Errors
<1>4. Terminate
  BY DEF Finally
<1>5. pc' = "closing" /\ wait' = None /\ UNCHANGED <<stage, output, launch>>
  BY DEF Finally
<1> QED BY <1>1, <1>2, <1>3, <1>4, <1>5, Terminating

\* What a step that leaves the try block must show.
LEMMA LeavingStep ==
  ASSUME IInv, pc \in {"held", "asking", "revoking", "reading", "materializing"},
         NEW e \in Errors \cup {None, "LEFT"}, Finally(e),
         UNCHANGED <<attempt, aborted, lines, received, denied, shown, written, gaveUp>>,
         taken' \in Seq(Events), NothingIsLost',
         e = None => written >= 1,
         pc = "held" /\ stage = "end" => e \in {None, "LEFT"}
  PROVE  IInv'
<1>1. attempt >= 1 /\ TypeOK
  BY DEF IInv, Attempted
<1>2. /\ pc' = "closing" /\ wait' = None /\ UNCHANGED <<stage, output, launch>>
      /\ conn' \in Connection
      /\ error' \in Errors \cup {None, "LEFT"}
      /\ error' = None <=> e = None
      /\ error' = "LEFT" <=> e = "LEFT"
      /\ process' \in [1..Attempts -> {"none", "running", "killed", "exited", "gone"}]
      /\ \A a \in 1..Attempts : /\ process'[a] = "none" <=> process[a] = "none"
                                /\ process'[a] = "gone" <=> process[a] = "gone"
  BY <1>1, Leaving
<1>3. TypeOK'
  BY <1>1, <1>2 DEF TypeOK, Phases
<1>4. Waits'
  BY <1>2 DEF Waits
<1>5. Attempted'
  BY <1>1, <1>2 DEF IInv, Attempted
<1>6. Launched'
  <2>1. \A a \in 1..Attempts :
          /\ a > attempt => process'[a] = "none"
          /\ launch[a] = "disposed" => process'[a] = "gone"
          /\ process'[a] # "none" /\ a < attempt => launch[a] \in {"disposed", "kept"} \/ a \in gaveUp
    BY <1>2 DEF IInv, Launched
  <2> QED BY <1>2, <2>1 DEF Launched
<1>7. Written'
  <2>1. gaveUp = {} => written = 0 \/ (written = 1 /\ e \in {None, "LEFT"})
    BY DEF IInv, Written, Over
  <2> QED BY <1>2, <2>1 DEF Written, Over
<1> QED BY <1>3, <1>4, <1>5, <1>6, <1>7 DEF IInv

\* The catch clause ends the run with an error, or starts it again.
LEMMA Catching ==
  ASSUME TypeOK, NEW e \in Errors, Caught(e)
  PROVE  \/ pc' = "restarting" /\ attempt < Attempts /\ ~output /\ error' = error
         \/ pc' = "done" /\ error' \in Errors
BY DEF Caught, Errors

\* What a step that ends an attempt must show.
LEMMA EndedStep ==
  ASSUME IInv, pc \in {"closing", "disposing", "preparing"},
         \/ pc' = "restarting" /\ attempt < Attempts /\ ~output
         \/ pc' = "done",
         error' \in Errors \cup {None, "LEFT"}, pc' = "done" /\ error' = None => written >= 1,
         pc = "preparing" => pc' = "done",
         UNCHANGED <<stage, wait, output, attempt, conn, process, aborted, lines,
                     received, denied, taken, shown, written>>,
         launch' \in [1..Attempts -> {"none", "staged", "revoked", "disposed", "kept"}],
         gaveUp \subseteq gaveUp', gaveUp' \subseteq 1..Attempts,
         \A a \in 1..Attempts : a # attempt => launch'[a] = launch[a],
         launch'[attempt] = "disposed" => process[attempt] = "gone",
         \/ process[attempt] = "none"
         \/ launch'[attempt] \in {"disposed", "kept"}
         \/ attempt \in gaveUp',
         gaveUp' = {} /\ written = 1 => pc' = "done"
  PROVE  IInv'
<1>1. TypeOK /\ attempt \in 1..Attempts /\ attempt >= 1
  BY DEF IInv, TypeOK, Attempted
<1>2. TypeOK'
  BY <1>1 DEF TypeOK, Phases
<1>3. Waits'
  BY DEF IInv, Waits
<1>4. NothingIsLost'
  BY Quiet DEF IInv, InHand
<1>5. Attempted'
  BY <1>1 DEF IInv, Attempted
<1>6. Launched'
  <2>1. ASSUME NEW a \in 1..Attempts
        PROVE  /\ a > attempt => process[a] = "none"
               /\ launch'[a] = "disposed" => process[a] = "gone"
               /\ process[a] # "none" => launch'[a] \in {"disposed", "kept"} \/ a \in gaveUp'
    <3>1. CASE a = attempt
      BY <3>1, <1>1
    <3>2. CASE a # attempt
      BY <3>2, <1>1 DEF IInv, Launched, TypeOK
    <3> QED BY <3>1, <3>2
  <2> QED BY <2>1 DEF Launched
<1>7. Written'
  BY DEF IInv, Written, Over
<1> QED BY <1>2, <1>3, <1>4, <1>5, <1>6, <1>7 DEF IInv

-----------------------------------------------------------------------------
(* From one attempt to the next *)

\* A new attempt has no process yet, and those before are settled.
LEMMA EnterStep == ASSUME IInv, Enter PROVE IInv'
<1>1. TypeOK /\ wait = None
  BY DEF IInv, Enter, Waits
<1>2. UNCHANGED <<stage, wait, conn, process, launch, aborted, lines,
                  received, denied, taken, shown, written, gaveUp>>
  BY DEF Enter, history
<1>3. NothingIsLost'
  BY <1>2, Quiet DEF IInv, InHand
<1>4. CASE aborted
  <2>1. pc = "top" /\ pc' = "done" /\ error' = "CANCELLED" /\ UNCHANGED <<attempt, output>>
    BY <1>4 DEF Enter
  <2>2. TypeOK'
    BY <1>1, <1>2, <2>1 DEF TypeOK, Phases, Errors
  <2>3. Waits'
    BY <1>1, <1>2, <2>1 DEF Waits
  <2>4. Attempted'
    BY <1>2, <2>1 DEF IInv, Attempted
  <2>5. Launched'
    BY <1>2, <2>1 DEF IInv, Launched
  <2>6. Written'
    BY <1>2, <2>1, ConstantsOK DEF IInv, Written, Over, Errors
  <2> QED BY <1>3, <2>2, <2>3, <2>4, <2>5, <2>6 DEF IInv
<1>5. CASE ~aborted
  <2>1. /\ pc = "top" /\ pc' = "preparing" /\ attempt' = attempt + 1 /\ output' = FALSE
        /\ error' = error
    BY <1>5 DEF Enter
  <2>2. attempt \in 0..Attempts /\ attempt < Attempts /\ Attempts \in Nat /\ ~output
    BY <1>1, <2>1, ConstantsOK DEF TypeOK, IInv, Attempted
  <2>3. TypeOK'
    <3>1. attempt' \in 0..Attempts
      BY <2>1, <2>2
    <3>2. output' \in BOOLEAN
      BY <2>1
    <3> QED BY <1>1, <1>2, <2>1, <3>1, <3>2 DEF TypeOK, Phases
  <2>4. Waits'
    BY <1>1, <1>2, <2>1 DEF Waits
  <2>5. Attempted'
    BY <1>2, <2>1, <2>2 DEF IInv, Attempted
  <2>6. Launched'
    <3>1. attempt + 1 \in 1..Attempts
      BY <2>2
    <3>2. ASSUME NEW a \in 1..Attempts
          PROVE  /\ a > attempt + 1 => process[a] = "none"
                 /\ launch[a] = "disposed" => process[a] = "gone"
                 /\ process[a] # "none" /\ a < attempt + 1 =>
                      launch[a] \in {"disposed", "kept"} \/ a \in gaveUp
      BY <2>1, <2>2 DEF IInv, Launched
    <3>3. process[attempt + 1] = "none"
      BY <2>2, <3>1 DEF IInv, Launched
    <3> QED BY <1>2, <2>1, <3>2, <3>3 DEF Launched
  <2>7. Written'
    BY <1>2, <2>1 DEF IInv, Written, Over
  <2> QED BY <1>3, <2>3, <2>4, <2>5, <2>6, <2>7 DEF IInv
<1> QED BY <1>4, <1>5

\* Between two attempts nothing happens.
LEMMA RestartStep == ASSUME IInv, Restart PROVE IInv'
<1>1. TypeOK /\ pc = "restarting" /\ pc' = "top"
  BY DEF IInv, Restart
<1>2. UNCHANGED <<stage, wait, error, output, attempt, conn, process, launch, aborted, lines,
                  received, denied, taken, shown, written, gaveUp>>
  BY DEF Restart, history
<1>3. TypeOK'
  BY <1>1, <1>2 DEF TypeOK, Phases
<1>4. NothingIsLost'
  BY <1>2, Quiet DEF IInv, InHand
<1>5. Waits' /\ Attempted' /\ Written'
  BY <1>1, <1>2 DEF IInv, Waits, Attempted, Written, Over
<1>6. Launched'
  BY <1>1, <1>2 DEF IInv, Launched
<1> QED BY <1>3, <1>4, <1>5, <1>6 DEF IInv

\* A launch that failed has no process and ends the run; one that did not has a
\* running one, and a connection with nothing in it.
LEMMA ConnectStep == ASSUME IInv, Connect PROVE IInv'
<1>1. /\ TypeOK /\ pc = "preparing" /\ wait = None /\ ~output
      /\ attempt \in 1..Attempts /\ attempt \in Nat /\ Attempts \in Nat
      /\ process[attempt] = "none"
  BY ConstantsOK DEF IInv, Connect, Waits, Attempted, Launched, TypeOK
<1>2. UNCHANGED <<wait, output, attempt, aborted, lines, shown, written, gaveUp>>
  BY DEF Connect
<1>3. ASSUME NEW e \in {"ISOLATION", "SPAWN"}, Caught(e)
      PROVE  pc' = "done" /\ error' \in Errors
  BY <1>3 DEF Caught, Errors
<1>4. ASSUME pc' = "done", error' \in Errors,
             UNCHANGED <<stage, conn, process, received, denied, taken>>,
             launch' \in {launch, [launch EXCEPT ![attempt] = "staged"]}
      PROVE  IInv'
  <2>1. launch' \in [1..Attempts -> {"none", "staged", "revoked", "disposed", "kept"}]
    BY <1>1, <1>4 DEF TypeOK
  <2>2. \A a \in 1..Attempts : a # attempt => launch'[a] = launch[a]
    BY <1>1, <1>4 DEF TypeOK
  <2>3. launch'[attempt] # "disposed"
    BY <1>1, <1>4 DEF TypeOK, IInv, Launched
  <2>4. error' # None
    BY <1>4, ConstantsOK
  <2>5. gaveUp \subseteq gaveUp' /\ gaveUp' \subseteq 1..Attempts
    BY <1>1, <1>2 DEF TypeOK
  <2> QED BY <1>1, <1>2, <1>4, <2>1, <2>2, <2>3, <2>4, <2>5, EndedStep
<1>5. CASE Caught("ISOLATION") /\ UNCHANGED <<stage, conn, process, launch, received, denied, taken>>
  BY <1>3, <1>4, <1>5
<1>6. CASE /\ Caught("SPAWN")
           /\ launch' = [launch EXCEPT ![attempt] = "staged"]
           /\ UNCHANGED <<stage, conn, process, received, denied, taken>>
  BY <1>3, <1>4, <1>6
<1>7. CASE /\ launch' = [launch EXCEPT ![attempt] = "staged"]
           /\ process' = [process EXCEPT ![attempt] = "running"]
           /\ conn' = [NoConnection EXCEPT !.closed = FALSE, !.listening = ~aborted]
           /\ pc' = "held" /\ stage' = "initialize"
           /\ received' = <<>> /\ denied' = FALSE /\ taken' = <<>>
           /\ UNCHANGED error
  <2>1. conn' \in Connection /\ conn'.queue = <<>>
    <3>1. PICK l \in BOOLEAN : conn' = [NoConnection EXCEPT !.closed = FALSE, !.listening = l]
      BY <1>7
    <3>2. <<>> \in Seq(Events)
      OBVIOUS
    <3> QED BY <3>1, <3>2 DEF Connection, NoConnection
  <2>2. TypeOK'
    <3>1. /\ process' \in [1..Attempts -> {"none", "running", "killed", "exited", "gone"}]
          /\ launch' \in [1..Attempts -> {"none", "staged", "revoked", "disposed", "kept"}]
      BY <1>1, <1>7 DEF TypeOK
    <3>2. denied' \in BOOLEAN /\ received' \in Seq(Events) /\ taken' \in Seq(Events)
      <4>1. denied' = FALSE /\ received' = <<>> /\ taken' = <<>>
        BY <1>7, Zenon
      <4>2. <<>> \in Seq(Events)
        OBVIOUS
      <4> QED BY <4>1, <4>2
    <3>3. pc' \in Phases /\ stage' \in Stages /\ error' = error
      BY <1>7 DEF Phases, Stages
    <3> QED BY <1>1, <1>2, <2>1, <3>1, <3>2, <3>3 DEF TypeOK
  <2>3. Waits'
    BY <1>1, <1>2, <1>7 DEF Waits, Stages
  <2>4. NothingIsLost'
    <3>1. wait' \notin Events
      BY <1>1, <1>2, ConstantsOK
    <3> QED BY <1>7, <2>1, <3>1 DEF NothingIsLost
  <2>5. Attempted'
    BY <1>1, <1>2, <1>7 DEF IInv, Attempted
  <2>6. Launched'
    <3>1. ASSUME NEW a \in 1..Attempts
          PROVE  /\ a > attempt => process'[a] = "none"
                 /\ launch'[a] = "disposed" => process'[a] = "gone"
                 /\ process'[a] # "none" /\ a < attempt =>
                      launch'[a] \in {"disposed", "kept"} \/ a \in gaveUp
      <4>1. CASE a = attempt
        BY <1>1, <1>7, <4>1 DEF TypeOK
      <4>2. CASE a # attempt
        <5>1. process'[a] = process[a] /\ launch'[a] = launch[a]
          BY <1>1, <1>7, <4>2 DEF TypeOK
        <5> QED BY <5>1 DEF IInv, Launched
      <4> QED BY <4>1, <4>2
    <3> QED BY <1>2, <1>7, <3>1 DEF Launched
  <2>7. Written'
    BY <1>1, <1>2, <1>7 DEF IInv, Written, Over
  <2> QED BY <2>2, <2>3, <2>4, <2>5, <2>6, <2>7 DEF IInv
<1> QED BY <1>5, <1>6, <1>7 DEF Connect

-----------------------------------------------------------------------------
(* The generator *)

Live == {"held", "asking", "revoking", "reading", "materializing"}

\* It leaves an attempt while it waits for no event it has been given.
LEMMA QuitStep ==
  ASSUME IInv, pc \in Live, wait \notin Events,
         NEW e \in Errors \cup {None, "LEFT"}, Finally(e),
         UNCHANGED <<attempt, aborted, lines, received, denied, taken, shown, written, gaveUp>>,
         e = None => written >= 1,
         pc = "held" /\ stage = "end" => e \in {None, "LEFT"}
  PROVE  IInv'
<1>1. TypeOK /\ attempt >= 1 /\ NothingIsLost
  BY DEF IInv, Attempted, Live
<1>2. wait' = None /\ conn'.queue = conn.queue
  BY <1>1, Leaving
<1>3. InHand' = InHand
  BY <1>2, ConstantsOK DEF InHand
<1>4. NothingIsLost'
  BY <1>1, <1>2, <1>3, Quiet
<1>5. taken' \in Seq(Events)
  BY <1>1 DEF TypeOK
<1> QED BY <1>1, <1>4, <1>5, LeavingStep DEF Live

\* It goes on with an attempt.
LEMMA GoingOn ==
  ASSUME IInv, pc \in Live, ~(pc = "held" /\ stage = "end"),
         pc' \in Live, stage' \in Stages, conn' \in Connection,
         wait' \in {None, "pending", "answer"} \cup Events \cup Errors,
         taken' \in Seq(Events), Waits', NothingIsLost',
         UNCHANGED <<error, process, attempt, aborted, lines, received, denied, gaveUp>>,
         output' \in BOOLEAN, output' => shown' = {attempt}, ~output' => shown' = {},
         launch' \in {launch, [launch EXCEPT ![attempt] = "revoked"]},
         pc' \in {"held", "asking"} /\ stage' \notin {"initialize", "account"} =>
           launch'[attempt] = "revoked",
         pc' \in {"reading", "materializing"} => launch'[attempt] = "revoked",
         written' = written \/ (written' = written + 1 /\ pc' = "held" /\ stage' = "end"),
         pc' = "held" /\ stage' = "end" => written' >= 1
  PROVE  IInv'
<1>1. /\ TypeOK /\ attempt >= 1 /\ attempt \in 1..Attempts /\ written \in Nat
      /\ written' \in Nat
  BY DEF IInv, Attempted, Live, TypeOK
<1>2. launch' \in [1..Attempts -> {"none", "staged", "revoked", "disposed", "kept"}]
  BY <1>1 DEF TypeOK
<1>3. shown' \subseteq 1..Attempts
  BY <1>1
<1>4. TypeOK'
  BY <1>1, <1>2, <1>3 DEF TypeOK, Phases, Live
<1>5. Attempted'
  BY <1>1 DEF Attempted, Live
<1>6. Launched'
  <2>1. ASSUME NEW a \in 1..Attempts
        PROVE  /\ a > attempt => process[a] = "none"
               /\ launch'[a] = "disposed" => process[a] = "gone"
               /\ process[a] # "none" /\ a < attempt =>
                    launch'[a] \in {"disposed", "kept"} \/ a \in gaveUp
    <3>1. CASE a = attempt
      BY <1>1, <3>1 DEF IInv, Launched, TypeOK
    <3>2. CASE a # attempt
      <4>1. launch'[a] = launch[a]
        BY <1>1, <3>2 DEF TypeOK
      <4> QED BY <4>1 DEF IInv, Launched
    <3> QED BY <3>1, <3>2
  <2>2. /\ pc' \notin {"top", "restarting", "done", "preparing", "disposing"}
        /\ attempt' = attempt /\ process' = process /\ gaveUp' = gaveUp
    BY DEF Live
  <2>3. \A a \in 1..Attempts :
          /\ a > attempt' => process'[a] = "none"
          /\ launch'[a] = "disposed" => process'[a] = "gone"
          /\ process'[a] # "none" /\ a < attempt' =>
               launch'[a] \in {"disposed", "kept"} \/ a \in gaveUp'
    BY <2>1, <2>2
  <2> QED BY <2>2, <2>3 DEF Launched
<1>7. Written'
  <2>1. gaveUp = {} => written = 0
    BY DEF IInv, Written, Over, Live
  <2> QED BY <1>1, <2>1 DEF Written, Over, Live
<1> QED BY <1>4, <1>5, <1>6, <1>7 DEF IInv

\* The consumer asks for more: a request, the next event, the end.
LEMMA ResumeStep == ASSUME IInv, Resume PROVE IInv'
<1>1. /\ TypeOK /\ pc = "held" /\ wait = None /\ wait \notin Events
      /\ conn \in Connection /\ NothingIsLost
      /\ UNCHANGED <<attempt, aborted, lines, received, denied, taken, shown, written, gaveUp>>
  BY ConstantsOK DEF IInv, Resume, Waits, TypeOK, history
<1>2. /\ stage \in Stages /\ (stage \notin {"initialize", "account"} => launch[attempt] = "revoked")
      /\ taken \in Seq(Events) /\ output \in BOOLEAN
      /\ output => shown = {attempt}
      /\ ~output => shown = {}
  BY <1>1 DEF IInv, Waits, Launched, Attempted, TypeOK
<1>3. CASE /\ stage \in {"initialize", "thread", "turn"}
           /\ pc' = "asking" /\ Send
           /\ UNCHANGED <<stage, error, output, conn, process, launch>>
  <2>1. wait' \in {"pending"} \cup Errors
    BY <1>1, <1>3 DEF Send, Connection
  <2>2. InHand' = InHand
    BY <1>1, <2>1 DEF InHand, Events, Errors
  <2>3. NothingIsLost'
    BY <1>1, <1>3, <2>2, Quiet
  <2>4. Waits'
    BY <1>3, <2>1 DEF Waits
  <2> QED BY <1>1, <1>2, <1>3, <2>1, <2>3, <2>4, GoingOn DEF Live
<1>4. CASE /\ stage = "events"
           /\ pc' = "reading" /\ TakeNext
           /\ UNCHANGED <<stage, error, output, process, launch>>
  <2>1. /\ conn' \in Connection /\ wait' \in {"pending"} \cup Events \cup Errors
        /\ wait' = "pending" => conn'.queue = <<>>
        /\ received = (taken \o InHand') \o conn'.queue
    BY <1>1, <1>4, Taking
  <2>2. NothingIsLost'
    BY <1>1, <2>1 DEF NothingIsLost, InHand
  <2>3. Waits'
    BY <1>4, <2>1 DEF Waits
  <2> QED BY <1>1, <1>2, <1>4, <2>1, <2>2, <2>3, GoingOn DEF Live
<1>5. CASE /\ stage = "completed" /\ conn.message
           /\ pc' = "materializing"
           /\ UNCHANGED <<stage, wait, error, output, conn, process, launch>>
  <2>1. NothingIsLost'
    BY <1>1, <1>5, Quiet DEF InHand
  <2>2. Waits'
    BY <1>1, <1>5 DEF Waits
  <2> QED BY <1>1, <1>2, <1>5, <2>1, <2>2, GoingOn DEF Live
<1>6. CASE stage = "completed" /\ Finally("PROTOCOL")
  BY <1>1, <1>6, QuitStep, ConstantsOK DEF Live, Errors
<1>7. CASE stage = "failed" /\ Finally("TURN_FAILED")
  BY <1>1, <1>7, QuitStep, ConstantsOK DEF Live, Errors
<1>8. CASE stage = "end" /\ Finally(None)
  <2>1. written >= 1
    BY <1>1, <1>8 DEF IInv, Written
  <2> QED BY <1>1, <1>8, <2>1, QuitStep DEF Live
<1> QED BY <1>3, <1>4, <1>5, <1>6, <1>7, <1>8 DEF Resume

\* It breaks off.
LEMMA LeaveStep == ASSUME IInv, Leave PROVE IInv'
<1>1. /\ pc = "held" /\ wait = None /\ wait \notin Events /\ Finally("LEFT")
      /\ UNCHANGED <<attempt, aborted, lines, received, denied, taken, shown, written, gaveUp>>
  BY ConstantsOK DEF IInv, Leave, Waits, history
<1> QED BY <1>1, QuitStep, ConstantsOK DEF Live

\* A request was answered.
LEMMA AnsweredStep == ASSUME IInv, Answered PROVE IInv'
<1>1. /\ TypeOK /\ pc = "asking" /\ wait = "answer" /\ wait \notin Events
      /\ conn \in Connection /\ NothingIsLost
      /\ UNCHANGED <<attempt, aborted, lines, received, denied, taken, shown, written, gaveUp>>
  BY DEF IInv, Answered, TypeOK, history, Events
<1>2. /\ (stage \notin {"initialize", "account"} => launch[attempt] = "revoked")
      /\ taken \in Seq(Events) /\ output \in BOOLEAN
      /\ output => shown = {attempt}
      /\ ~output => shown = {}
  BY <1>1 DEF IInv, Launched, Attempted, TypeOK
<1>3. CASE /\ stage = "initialize"
           /\ pc' = "asking" /\ stage' = "account" /\ Send
           /\ UNCHANGED <<error, output, conn, process, launch>>
  <2>1. wait' \in {"pending"} \cup Errors
    BY <1>1, <1>3 DEF Send, Connection
  <2>2. InHand' = InHand
    BY <1>1, <2>1 DEF InHand, Events, Errors
  <2>3. NothingIsLost'
    BY <1>1, <1>3, <2>2, Quiet
  <2>4. Waits'
    BY <1>3, <2>1 DEF Waits
  <2> QED BY <1>1, <1>2, <1>3, <2>1, <2>3, <2>4, GoingOn DEF Live, Stages
<1>4. CASE /\ stage = "account"
           /\ pc' = "revoking" /\ wait' = None
           /\ UNCHANGED <<stage, error, output, conn, process, launch>>
  <2>1. InHand' = InHand
    BY <1>1, <1>4, ConstantsOK DEF InHand
  <2>2. NothingIsLost'
    BY <1>1, <1>4, <2>1, Quiet
  <2>3. Waits'
    BY <1>4 DEF Waits
  <2> QED BY <1>1, <1>2, <1>4, <2>2, <2>3, GoingOn DEF Live, Stages
<1>5. CASE stage = "account" /\ Finally("ISOLATION")
  BY <1>1, <1>5, QuitStep, ConstantsOK DEF Live, Errors
<1>6. CASE stage = "thread" /\ Hold("turn") /\ UNCHANGED output
  <2>1. /\ pc' = "held" /\ stage' = "turn" /\ wait' = None
        /\ UNCHANGED <<error, conn, process, launch, output>>
    BY <1>6 DEF Hold
  <2>2. InHand' = InHand
    BY <1>1, <2>1, ConstantsOK DEF InHand
  <2>3. NothingIsLost'
    BY <1>1, <2>1, <2>2, Quiet
  <2>4. Waits'
    BY <2>1 DEF Waits, Stages
  <2> QED BY <1>1, <1>2, <1>6, <2>1, <2>3, <2>4, GoingOn DEF Live, Stages
<1>7. CASE /\ stage = "turn"
           /\ pc' = "reading" /\ stage' = "events" /\ TakeNext
           /\ UNCHANGED <<error, output, process, launch>>
  <2>1. /\ conn' \in Connection /\ wait' \in {"pending"} \cup Events \cup Errors
        /\ wait' = "pending" => conn'.queue = <<>>
        /\ received = (taken \o InHand') \o conn'.queue
    BY <1>1, Taking, <1>7
  <2>2. NothingIsLost'
    BY <1>1, <2>1 DEF NothingIsLost, InHand
  <2>3. Waits'
    BY <1>7, <2>1 DEF Waits
  <2> QED BY <1>1, <1>2, <1>7, <2>1, <2>2, <2>3, GoingOn DEF Live, Stages
<1> QED BY <1>3, <1>4, <1>5, <1>6, <1>7 DEF Answered

\* The credentials are gone, or the attempt is over.
LEMMA RevokeStep == ASSUME IInv, Revoke PROVE IInv'
<1>1. /\ TypeOK /\ pc = "revoking" /\ wait = None /\ wait \notin Events
      /\ conn \in Connection /\ NothingIsLost /\ attempt \in 1..Attempts
      /\ UNCHANGED <<attempt, aborted, lines, received, denied, taken, shown, written, gaveUp>>
  BY ConstantsOK DEF IInv, Revoke, Waits, TypeOK, history, Attempted
<1>2. /\ taken \in Seq(Events) /\ output \in BOOLEAN
      /\ output => shown = {attempt}
      /\ ~output => shown = {}
  BY <1>1 DEF IInv, Attempted, TypeOK
<1>3. CASE /\ launch' = [launch EXCEPT ![attempt] = "revoked"]
           /\ pc' = "held" /\ stage' = "thread"
           /\ UNCHANGED <<wait, error, output, conn, process>>
  <2>1. NothingIsLost'
    BY <1>1, <1>3, Quiet DEF InHand
  <2>2. Waits'
    BY <1>1, <1>3 DEF Waits, Stages
  <2>3. launch'[attempt] = "revoked"
    BY <1>1, <1>3 DEF TypeOK
  <2> QED BY <1>1, <1>2, <1>3, <2>1, <2>2, <2>3, GoingOn DEF Live, Stages
<1>4. CASE Finally("ISOLATION")
  BY <1>1, <1>4, QuitStep, ConstantsOK DEF Live, Errors
<1> QED BY <1>3, <1>4 DEF Revoke

\* What it waited for failed.
LEMMA RejectedStep == ASSUME IInv, Rejected PROVE IInv'
<1>1. /\ pc \in {"asking", "reading"} /\ wait \in Errors /\ wait # None /\ wait \notin Events
      /\ Finally(wait)
      /\ UNCHANGED <<attempt, aborted, lines, received, denied, taken, shown, written, gaveUp>>
  BY ConstantsOK DEF Rejected, history, Errors, Events
<1> QED BY <1>1, QuitStep DEF Live

\* An event is taken, and shown unless it breaks the rules.
LEMMA ShowStep == ASSUME IInv, Show PROVE IInv'
<1>1. /\ TypeOK /\ pc = "reading" /\ wait \in Events /\ conn \in Connection
      /\ launch[attempt] = "revoked" /\ attempt >= 1
      /\ taken' = Append(taken, wait) /\ taken \in Seq(Events) /\ conn.queue \in Seq(Events)
      /\ UNCHANGED <<attempt, aborted, lines, received, denied, written, gaveUp>>
  BY DEF IInv, Show, TypeOK, Launched, Attempted, Connection
<1>2. /\ output \in BOOLEAN
      /\ output => shown = {attempt}
      /\ ~output => shown = {}
  BY <1>1 DEF IInv, Attempted, TypeOK
<1>3. taken' \in Seq(Events)
  BY <1>1, AppendProperties
<1>4. received = (taken' \o <<>>) \o conn.queue
  <2>1. received = (taken \o <<wait>>) \o conn.queue
    BY <1>1 DEF IInv, NothingIsLost
  <2> QED BY <1>1, <2>1, FlowTaken
<1>5. ASSUME wait' = None, conn'.queue = conn.queue
      PROVE  NothingIsLost'
  <2>1. wait' \notin Events
    BY <1>5, ConstantsOK
  <2> QED BY <1>1, <1>4, <1>5, <2>1 DEF NothingIsLost
<1>6. CASE wait = "tool"
  <2>1. Finally("PROTOCOL") /\ UNCHANGED shown
    BY <1>6 DEF Show
  <2>2. wait' = None /\ conn'.queue = conn.queue
    BY <1>1, <2>1, Leaving DEF Errors
  <2>3. NothingIsLost'
    BY <1>5, <2>2
  <2> QED BY <1>1, <1>3, <2>1, <2>3, LeavingStep, ConstantsOK DEF Errors
<1>7. CASE wait # "tool"
  <2>1. /\ pc' = "held" /\ wait' = None /\ UNCHANGED <<error, conn, process, launch>>
        /\ stage' \in {"completed", "failed", "events"}
        /\ output' = (output \/ wait = "plan")
        /\ shown' = IF wait = "plan" THEN shown \cup {attempt} ELSE shown
    BY <1>7 DEF Show, Hold
  <2>2. NothingIsLost'
    BY <1>5, <2>1
  <2>3. Waits'
    BY <2>1 DEF Waits, Stages
  <2>4. output' \in BOOLEAN /\ (output' => shown' = {attempt}) /\ (~output' => shown' = {})
    BY <1>2, <2>1
  <2>5. UNCHANGED <<error, process, attempt, aborted, lines, received, denied, gaveUp>>
    BY <1>1, <2>1
  <2>6. pc' \in Live /\ stage' \in Stages /\ conn' \in Connection /\ launch' = launch /\ wait' = None
    BY <1>1, <2>1 DEF Live, Stages
  <2> QED BY <1>1, <1>3, <2>1, <2>2, <2>3, <2>4, <2>5, <2>6, GoingOn DEF Live
<1> QED BY <1>6, <1>7

\* Files are written once an attempt.
LEMMA MaterializeStep == ASSUME IInv, Materialize PROVE IInv'
<1>1. /\ TypeOK /\ pc = "materializing" /\ wait = None /\ wait \notin Events
      /\ conn \in Connection /\ NothingIsLost /\ launch[attempt] = "revoked" /\ written \in Nat
      /\ UNCHANGED <<attempt, aborted, lines, received, denied, taken, shown, gaveUp>>
  BY ConstantsOK DEF IInv, Materialize, Waits, TypeOK, Launched
<1>2. /\ taken \in Seq(Events) /\ output \in BOOLEAN
      /\ output => shown = {attempt}
      /\ ~output => shown = {}
  BY <1>1 DEF IInv, Attempted, TypeOK
<1>3. CASE Hold("end") /\ written' = written + 1 /\ UNCHANGED output
  <2>1. /\ pc' = "held" /\ stage' = "end" /\ wait' = None
        /\ UNCHANGED <<error, conn, process, launch, output>>
    BY <1>3 DEF Hold
  <2>2. NothingIsLost'
    BY <1>1, <2>1, Quiet DEF InHand
  <2>3. Waits'
    BY <2>1 DEF Waits, Stages
  <2>4. written' >= 1
    BY <1>1, <1>3
  <2> QED BY <1>1, <1>2, <1>3, <2>1, <2>2, <2>3, <2>4, GoingOn DEF Live, Stages
<1>4. CASE Finally("PROTOCOL") /\ UNCHANGED written
  BY <1>1, <1>4, QuitStep, ConstantsOK DEF Live, Errors
<1> QED BY <1>3, <1>4 DEF Materialize

-----------------------------------------------------------------------------
(* The end of an attempt *)

\* Its process is gone.
LEMMA ClosedStep == ASSUME IInv, Closed PROVE IInv'
<1>1. TypeOK /\ pc = "closing" /\ pc' = "disposing" /\ process[attempt] = "gone"
  BY DEF IInv, Closed
<1>2. UNCHANGED <<stage, wait, error, output, attempt, conn, process, launch, aborted, lines,
                  received, denied, taken, shown, written, gaveUp>>
  BY DEF Closed, history
<1>3. TypeOK'
  BY <1>1, <1>2 DEF TypeOK, Phases
<1>4. NothingIsLost'
  BY <1>2, Quiet DEF IInv, InHand
<1>5. Waits' /\ Attempted' /\ Written'
  BY <1>1, <1>2 DEF IInv, Waits, Attempted, Written, Over
<1>6. Launched'
  BY <1>1, <1>2 DEF IInv, Launched
<1> QED BY <1>3, <1>4, <1>5, <1>6 DEF IInv

\* Its process would not die.
LEMMA GiveUpStep == ASSUME IInv, GiveUp PROVE IInv'
<1>1. /\ TypeOK /\ pc = "closing" /\ Caught("EXITED") /\ gaveUp' = gaveUp \cup {attempt}
      /\ attempt \in 1..Attempts /\ process[attempt] # "gone"
      /\ UNCHANGED <<stage, wait, output, attempt, conn, process, launch, aborted, lines,
                     received, denied, taken, shown, written>>
  BY DEF IInv, GiveUp, Attempted, TypeOK
<1>2. \/ pc' = "restarting" /\ attempt < Attempts /\ ~output /\ error' = error
      \/ pc' = "done" /\ error' \in Errors
  BY <1>1, Catching DEF Errors
<1>3. error' \in Errors \cup {None, "LEFT"} /\ (pc' = "done" /\ error' = None => written >= 1)
  BY <1>1, <1>2, ConstantsOK DEF TypeOK
<1>4. /\ launch' \in [1..Attempts -> {"none", "staged", "revoked", "disposed", "kept"}]
      /\ \A a \in 1..Attempts : a # attempt => launch'[a] = launch[a]
      /\ launch'[attempt] = "disposed" => process[attempt] = "gone"
  BY <1>1 DEF TypeOK, IInv, Launched
<1>5. gaveUp \subseteq gaveUp' /\ gaveUp' \subseteq 1..Attempts /\ attempt \in gaveUp'
  BY <1>1 DEF TypeOK
<1> QED BY <1>1, <1>2, <1>3, <1>4, <1>5, EndedStep

\* What was staged for it is removed, or cannot be.
LEMMA DisposeStep == ASSUME IInv, Dispose PROVE IInv'
<1>1. /\ TypeOK /\ pc = "disposing" /\ attempt \in 1..Attempts /\ process[attempt] = "gone"
      /\ UNCHANGED <<stage, wait, output, attempt, conn, process, aborted, lines,
                     received, denied, taken, shown, written, gaveUp>>
  BY DEF IInv, Dispose, Attempted, Launched, TypeOK, history
<1>2. PICK l \in {"disposed", "kept"} : launch' = [launch EXCEPT ![attempt] = l]
  BY DEF Dispose
<1>3. /\ launch' \in [1..Attempts -> {"none", "staged", "revoked", "disposed", "kept"}]
      /\ \A a \in 1..Attempts : a # attempt => launch'[a] = launch[a]
      /\ launch'[attempt] \in {"disposed", "kept"}
      /\ gaveUp \subseteq gaveUp' /\ gaveUp' \subseteq 1..Attempts
  BY <1>1, <1>2 DEF TypeOK
<1>4. CASE Ended
  <2>1. CASE error \in {None, "LEFT"}
    <3>1. pc' = "done" /\ error' = error
      BY <1>4, <2>1 DEF Ended
    <3>2. error' = None => written >= 1
      BY <1>1, <3>1 DEF IInv, Written
    <3> QED BY <1>1, <1>3, <2>1, <3>1, <3>2, EndedStep
  <2>2. CASE error \notin {None, "LEFT"}
    <3>1. Caught(error) /\ error \in Errors
      BY <1>1, <1>4, <2>2 DEF Ended, TypeOK
    <3>2. \/ pc' = "restarting" /\ attempt < Attempts /\ ~output /\ error' = error
          \/ pc' = "done" /\ error' \in Errors
      BY <1>1, <3>1, Catching
    <3>3. error' # None /\ error' \in Errors
      BY <3>1, <3>2, ConstantsOK
    <3>4. gaveUp' = {} => written # 1
      BY <1>1, <2>2 DEF IInv, Written, Over
    <3> QED BY <1>1, <1>3, <3>2, <3>3, <3>4, EndedStep
  <2> QED BY <2>1, <2>2
<1>5. CASE Caught("SPAWN")
  <2>1. pc' = "done" /\ error' \in Errors
    BY <1>5 DEF Caught, Errors
  <2>2. error' # None
    BY <2>1, ConstantsOK
  <2> QED BY <1>1, <1>3, <2>1, <2>2, EndedStep
<1> QED BY <1>4, <1>5 DEF Dispose

-----------------------------------------------------------------------------
(* What the world does *)

\* It starts no process and brings none back, and leaves the generator where it is.
LEMMA Arriving ==
  ASSUME IInv, UNCHANGED <<pc, stage, attempt, launch, output, error, taken, shown, written, gaveUp>>,
         conn' \in Connection,
         wait' \in {None, "pending", "answer"} \cup Events \cup Errors,
         received' \in Seq(Events), denied' \in BOOLEAN, aborted' \in BOOLEAN,
         lines' \in 0..MaxLines,
         process' \in [1..Attempts -> {"none", "running", "killed", "exited", "gone"}],
         \A a \in 1..Attempts : /\ process'[a] = "none" <=> process[a] = "none"
                                /\ process[a] = "gone" => process'[a] = "gone",
         Waits', NothingIsLost'
  PROVE  IInv'
<1>1. TypeOK'
  BY DEF IInv, TypeOK
<1>2. Attempted' /\ Written'
  BY DEF IInv, Attempted, Written, Over
<1>3. Launched'
  <2>1. pc \notin {"top", "restarting", "done"} => attempt \in 1..Attempts
    BY DEF IInv, TypeOK, Attempted
  <2>2. ASSUME NEW a \in 1..Attempts
        PROVE  /\ a > attempt => process'[a] = "none"
               /\ launch[a] = "disposed" => process'[a] = "gone"
               /\ process'[a] # "none" /\ (a < attempt \/ pc \in {"top", "restarting", "done"}) =>
                    launch[a] \in {"disposed", "kept"} \/ a \in gaveUp
    BY DEF IInv, Launched
  <2>3. /\ pc = "preparing" => process'[attempt] = "none"
        /\ pc = "disposing" => process'[attempt] = "gone"
    BY <2>1 DEF IInv, Launched
  <2> QED BY <2>2, <2>3 DEF IInv, Launched
<1> QED BY <1>1, <1>2, <1>3 DEF IInv

\* A failure rejects whoever waits.
LEMMA FailingStep ==
  ASSUME IInv, NEW e \in Errors, Fail(e),
         UNCHANGED <<pc, stage, attempt, launch, output, error,
                     received, taken, shown, written, gaveUp>>,
         denied' \in BOOLEAN, aborted' \in BOOLEAN, lines' \in 0..MaxLines,
         process' \in [1..Attempts -> {"none", "running", "killed", "exited", "gone"}],
         \A a \in 1..Attempts : /\ process'[a] = "none" <=> process[a] = "none"
                                /\ process[a] = "gone" => process'[a] = "gone"
  PROVE  IInv'
<1>1. TypeOK /\ Waits /\ NothingIsLost
  BY DEF IInv
<1>2. /\ conn' \in Connection /\ conn'.queue = conn.queue
      /\ wait' \in {wait} \cup Errors /\ (wait # "pending" => wait' = wait)
      /\ InHand' = InHand
  BY <1>1, Failing
<1>3. NothingIsLost'
  BY <1>1, <1>2, Quiet
<1>4. Waits'
  BY <1>1, <1>2, ConstantsOK DEF Waits, Errors
<1>5. wait' \in {None, "pending", "answer"} \cup Events \cup Errors /\ received' \in Seq(Events)
  BY <1>1, <1>2 DEF TypeOK
<1> QED BY <1>2, <1>3, <1>4, <1>5, Arriving

\* It settles what the generator waits for with something that is no event.
LEMMA SettlingStep ==
  ASSUME IInv, wait = "pending", wait' \in {"answer"} \cup Errors, wait' = "answer" => pc = "asking",
         UNCHANGED <<pc, stage, attempt, conn, process, launch, aborted, output, error, lines,
                     received, denied, taken, shown, written, gaveUp>>
  PROVE  IInv'
<1>1. TypeOK /\ Waits /\ NothingIsLost
  BY DEF IInv
<1>2. InHand' = InHand
  BY DEF InHand, Events, Errors
<1>3. NothingIsLost'
  BY <1>1, <1>2, Quiet
<1>4. Waits'
  BY <1>1, ConstantsOK DEF Waits, Errors
<1>5. /\ conn' \in Connection /\ received' \in Seq(Events) /\ denied' \in BOOLEAN
      /\ aborted' \in BOOLEAN /\ lines' \in 0..MaxLines
      /\ process' \in [1..Attempts -> {"none", "running", "killed", "exited", "gone"}]
  BY <1>1 DEF TypeOK
<1> QED BY <1>3, <1>4, <1>5, Arriving

\* A timer runs out.
LEMMA TimerStep == ASSUME IInv, Timer PROVE IInv'
<1>1. /\ wait = "pending" /\ wait' = "TIMEOUT"
      /\ UNCHANGED <<pc, stage, attempt, conn, process, launch, aborted, output, error, lines,
                     received, denied, taken, shown, written, gaveUp>>
  BY DEF Timer, history
<1> QED BY <1>1, SettlingStep DEF Errors

\* An answer arrives.
LEMMA ReceiveAnswerStep == ASSUME IInv, ReceiveAnswer PROVE IInv'
<1>1. /\ wait = "pending" /\ wait' \in {"answer", "PROTOCOL"} /\ pc = "asking"
      /\ UNCHANGED <<pc, stage, attempt, conn, process, launch, aborted, output, error, lines,
                     received, denied, taken, shown, written, gaveUp>>
  BY DEF ReceiveAnswer, history
<1> QED BY <1>1, SettlingStep DEF Errors

\* Any other line arrives.
LEMMA ReceiveStep == ASSUME IInv, Receive PROVE IInv'
<1>1. /\ TypeOK /\ Waits /\ NothingIsLost /\ Connected
      /\ lines' \in 0..MaxLines /\ denied \in BOOLEAN /\ aborted' \in BOOLEAN
      /\ conn \in Connection /\ received \in Seq(Events)
      /\ wait \in {None, "pending", "answer"} \cup Events \cup Errors
      /\ process \in [1..Attempts -> {"none", "running", "killed", "exited", "gone"}]
      /\ UNCHANGED <<pc, stage, attempt, launch, aborted, output, error,
                     taken, shown, written, gaveUp>>
  <2>1. lines' = lines + 1 /\ lines < MaxLines
    BY DEF Receive
  <2> QED BY <2>1, ConstantsOK DEF IInv, Receive, TypeOK
<1>2. CASE Fail("PROTOCOL") /\ Terminate /\ UNCHANGED <<received, denied>>
  BY <1>1, <1>2, Terminating, FailingStep DEF Errors
<1>3. CASE /\ Fail("DENIED") /\ Terminate
           /\ denied' = (denied \/ \A i \in DOMAIN received : received[i] # "completed")
           /\ UNCHANGED received
  <2>1. denied' \in BOOLEAN
    BY <1>1, <1>3
  <2> QED BY <1>1, <1>3, <2>1, Terminating, FailingStep DEF Errors
<1>4. CASE /\ conn' = [conn EXCEPT !.message = TRUE]
           /\ UNCHANGED <<wait, process, received, denied>>
  <2>1. conn' \in Connection /\ conn'.queue = conn.queue
    BY <1>1, <1>4 DEF Connection
  <2>2. NothingIsLost'
    BY <1>1, <1>4, <2>1, Quiet DEF InHand
  <2>3. Waits'
    BY <1>1, <1>4, <2>1 DEF Waits
  <2> QED BY <1>1, <1>4, <2>1, <2>2, <2>3, Arriving
<1>5. ASSUME NEW e \in Events, Push(e), received' = Append(received, e),
             UNCHANGED <<process, denied>>
      PROVE  IInv'
  <2>1. /\ conn' \in Connection /\ (pc = "reading" => wait' # "pending" \/ conn'.queue = <<>>)
        /\ wait' = wait \/ (pc = "reading" /\ wait' = e)
        /\ Append(received, e) = (taken \o InHand') \o conn'.queue
    BY <1>1, <1>5, Pushing
  <2>2. NothingIsLost'
    BY <1>1, <1>5, <2>1 DEF NothingIsLost, InHand
  <2>3. Waits'
    BY <1>1, <2>1 DEF Waits
  <2>4. received' \in Seq(Events)
    BY <1>1, <1>5, AppendProperties
  <2>5. wait' \in {None, "pending", "answer"} \cup Events \cup Errors
    BY <1>1, <1>5, <2>1
  <2> QED BY <1>1, <1>5, <2>1, <2>2, <2>3, <2>4, <2>5, Arriving
<1> QED BY <1>2, <1>3, <1>4, <1>5 DEF Receive

\* Only what runs exits.
LEMMA ExitStep == ASSUME IInv, NEW a \in 1..Attempts, Exit(a) PROVE IInv'
<1>1. /\ TypeOK /\ Waits /\ NothingIsLost /\ process[a] \in {"running", "killed"}
      /\ process' = [process EXCEPT ![a] = "exited"]
      /\ UNCHANGED <<pc, stage, attempt, launch, aborted, output, error, lines,
                     received, denied, taken, shown, written, gaveUp>>
  BY DEF IInv, Exit, history
<1>2. /\ process' \in [1..Attempts -> {"none", "running", "killed", "exited", "gone"}]
      /\ \A b \in 1..Attempts : /\ process'[b] = "none" <=> process[b] = "none"
                                /\ process[b] = "gone" => process'[b] = "gone"
  BY <1>1 DEF TypeOK
<1>3. /\ received' \in Seq(Events) /\ denied' \in BOOLEAN /\ aborted' \in BOOLEAN
      /\ lines' \in 0..MaxLines
  BY <1>1 DEF TypeOK
<1>4. CASE Fail("EXITED") \/ Fail("SPAWN")
  BY <1>1, <1>2, <1>3, <1>4, FailingStep DEF Errors
<1>5. CASE UNCHANGED <<conn, wait>>
  <2>1. NothingIsLost' /\ Waits'
    BY <1>1, <1>5 DEF NothingIsLost, Waits
  <2>2. conn' \in Connection /\ wait' \in {None, "pending", "answer"} \cup Events \cup Errors
    BY <1>1, <1>5 DEF TypeOK
  <2> QED BY <1>1, <1>2, <1>3, <2>1, <2>2, Arriving
<1> QED BY <1>4, <1>5 DEF Exit

\* Only what has exited is gone.
LEMMA GoneStep == ASSUME IInv, NEW a \in 1..Attempts, Gone(a) PROVE IInv'
<1>1. /\ TypeOK /\ Waits /\ NothingIsLost /\ process[a] = "exited"
      /\ process' = [process EXCEPT ![a] = "gone"]
      /\ UNCHANGED <<pc, stage, wait, attempt, conn, launch, aborted, output, error, lines,
                     received, denied, taken, shown, written, gaveUp>>
  BY DEF IInv, Gone, history, run
<1>2. /\ process' \in [1..Attempts -> {"none", "running", "killed", "exited", "gone"}]
      /\ \A b \in 1..Attempts : /\ process'[b] = "none" <=> process[b] = "none"
                                /\ process[b] = "gone" => process'[b] = "gone"
  BY <1>1 DEF TypeOK
<1>3. NothingIsLost' /\ Waits'
  BY <1>1 DEF NothingIsLost, Waits
<1>4. /\ conn' \in Connection /\ wait' \in {None, "pending", "answer"} \cup Events \cup Errors
      /\ received' \in Seq(Events) /\ denied' \in BOOLEAN /\ aborted' \in BOOLEAN
      /\ lines' \in 0..MaxLines
  BY <1>1 DEF TypeOK
<1> QED BY <1>1, <1>2, <1>3, <1>4, Arriving

\* The run is aborted, which is heard or not.
LEMMA AbortStep == ASSUME IInv, Abort PROVE IInv'
<1>1. /\ TypeOK /\ Waits /\ NothingIsLost /\ aborted' = TRUE
      /\ UNCHANGED <<pc, stage, attempt, launch, output, error, lines,
                     received, denied, taken, shown, written, gaveUp>>
  BY DEF IInv, Abort, history
<1>2. /\ received' \in Seq(Events) /\ denied' \in BOOLEAN /\ aborted' \in BOOLEAN
      /\ lines' \in 0..MaxLines
  BY <1>1 DEF TypeOK
<1>3. CASE Fail("CANCELLED") /\ Terminate
  BY <1>1, <1>2, <1>3, Terminating, FailingStep DEF Errors
<1>4. CASE UNCHANGED <<conn, wait, process>>
  <2>1. NothingIsLost' /\ Waits'
    BY <1>1, <1>4 DEF NothingIsLost, Waits
  <2>2. /\ conn' \in Connection /\ wait' \in {None, "pending", "answer"} \cup Events \cup Errors
        /\ process' \in [1..Attempts -> {"none", "running", "killed", "exited", "gone"}]
    BY <1>1, <1>4 DEF TypeOK
  <2> QED BY <1>1, <1>2, <1>4, <2>1, <2>2, Arriving
<1> QED BY <1>3, <1>4 DEF Abort

-----------------------------------------------------------------------------
(* The specification *)

\* At first there is nothing.
LEMMA InitHolds == ASSUME Init PROVE IInv
<1>1. /\ 0 \in 0..Attempts /\ 0 \in 0..MaxLines /\ 0 < Attempts
  BY ConstantsOK
<1>2. NoConnection \in Connection
  <2>1. <<>> \in Seq(Events)
    OBVIOUS
  <2> QED BY <2>1 DEF NoConnection, Connection
<1>3. TypeOK
  <2>1. /\ received \in Seq(Events) /\ taken \in Seq(Events)
    <3>1. <<>> \in Seq(Events)
      OBVIOUS
    <3> QED BY <3>1 DEF Init
  <2>2. /\ pc \in Phases /\ stage \in Stages \cup {None} /\ attempt \in 0..Attempts
        /\ wait \in {None, "pending", "answer"} \cup Events \cup Errors
        /\ conn \in Connection /\ aborted \in BOOLEAN /\ output \in BOOLEAN
        /\ error \in Errors \cup {None, "LEFT"} /\ lines \in 0..MaxLines /\ denied \in BOOLEAN
    BY <1>1, <1>2 DEF Init, Phases
  <2>3. /\ process \in [1..Attempts -> {"none", "running", "killed", "exited", "gone"}]
        /\ launch \in [1..Attempts -> {"none", "staged", "revoked", "disposed", "kept"}]
        /\ shown \subseteq 1..Attempts /\ gaveUp \subseteq 1..Attempts /\ written \in Nat
    BY DEF Init
  <2> QED BY <2>1, <2>2, <2>3 DEF TypeOK
<1>4. Waits
  BY DEF Init, Waits
<1>5. NothingIsLost
  <2>1. wait \notin Events /\ received = <<>> /\ taken = <<>> /\ conn.queue = <<>>
    BY ConstantsOK DEF Init, NoConnection
  <2> QED BY <2>1 DEF NothingIsLost
<1>6. Attempted
  BY <1>1 DEF Init, Attempted
<1>7. Launched
  BY DEF Init, Launched
<1>8. Written
  BY DEF Init, Written
<1> QED BY <1>3, <1>4, <1>5, <1>6, <1>7, <1>8 DEF IInv

\* Every step keeps the invariant.
LEMMA NextStep == ASSUME IInv, [Next]_vars PROVE IInv'
<1>1. CASE Client
  BY <1>1, EnterStep, RestartStep, ConnectStep, ResumeStep, LeaveStep, AnsweredStep, RevokeStep,
     RejectedStep, ShowStep, MaterializeStep, ClosedStep, GiveUpStep, DisposeStep DEF Client
<1>2. CASE Timer
  BY <1>2, TimerStep
<1>3. CASE ReceiveAnswer
  BY <1>3, ReceiveAnswerStep
<1>4. CASE Receive
  BY <1>4, ReceiveStep
<1>5. CASE Abort
  BY <1>5, AbortStep
<1>6. CASE \E a \in 1..Attempts : Exit(a) \/ Gone(a)
  BY <1>6, ExitStep, GoneStep
<1>7. CASE UNCHANGED vars
  <2>1. UNCHANGED <<pc, stage, attempt, wait, conn, process, launch, aborted, output, error, lines,
                    received, denied, taken, shown, written, gaveUp>>
    BY <1>7 DEF vars, history
  <2>2. TypeOK'
    BY <2>1 DEF IInv, TypeOK
  <2>3. Waits' /\ NothingIsLost'
    BY <2>1 DEF IInv, Waits, NothingIsLost
  <2>4. Attempted' /\ Written'
    BY <2>1 DEF IInv, Attempted, Written, Over
  <2>5. Launched'
    BY <2>1 DEF IInv, Launched
  <2> QED BY <2>2, <2>3, <2>4, <2>5 DEF IInv
<1> QED BY <1>1, <1>2, <1>3, <1>4, <1>5, <1>6, <1>7 DEF Next

\* The inductive invariant holds in every state.
THEOREM Invariance == Spec => []IInv
<1>1. Init => IInv
  BY InitHolds
<1>2. IInv /\ [Next]_vars => IInv'
  BY NextStep
<1> QED BY <1>1, <1>2, PTL DEF Spec

\* Every variable stays in its type.
THEOREM TypeCorrect == Spec => []TypeOK
<1>1. IInv => TypeOK
  BY DEF IInv
<1> QED BY <1>1, Invariance, PTL

\* For every number of lines: what a process wrote is what the compilation took,
\* has in hand and finds in its queue, in this order (NothingIsLost).
THEOREM FlowCorrect == Spec => []NothingIsLost
<1>1. IInv => NothingIsLost
  BY DEF IInv
<1> QED BY <1>1, Invariance, PTL

\* For every number of attempts: a launch outlives its process and no attempt leaves
\* one behind (LaunchOutlivesProcess).
THEOREM LaunchCorrect == Spec => []LaunchOutlivesProcess
<1>1. ASSUME IInv PROVE LaunchOutlivesProcess
  BY <1>1 DEF IInv, Launched, LaunchOutlivesProcess
<1> QED BY <1>1, Invariance, PTL

\* For every number of attempts: one output, files written once (OneCompilation).
THEOREM OneCompilationCorrect == Spec => []OneCompilation
<1>1. ASSUME IInv PROVE OneCompilation
  <2>1. Cardinality(shown) <= 1
    <3>1. shown = {} \/ shown = {attempt}
      BY <1>1 DEF IInv, Attempted, TypeOK
    <3>2. Cardinality({}) = 0 /\ Cardinality({attempt}) = 1
      BY FS_EmptySet, FS_Singleton
    <3> QED BY <3>1, <3>2
  <2>2. gaveUp = {} => written <= 1
    BY <1>1 DEF IInv, Written
  <2>3. pc = "done" /\ error = None => written >= 1
    BY <1>1 DEF IInv, Written
  <2> QED BY <2>1, <2>2, <2>3 DEF OneCompilation
<1> QED BY <1>1, Invariance, PTL
=============================================================================
