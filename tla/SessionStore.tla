---------------------------- MODULE SessionStore ----------------------------
(***************************************************************************)
(* How a session and its evidence chain are stored and read: the pattern   *)
(* of every SessionService operation (packages/session-core/src/service.ts *)
(* and domain.ts) over two tables of D1, and the evidence route that reads *)
(* the chain while others write it.                                        *)
(*                                                                         *)
(* An operation reads the aggregate, decides, reads the last event, and    *)
(* saves the next aggregate and event in one batch conditional on the      *)
(* version it read.  What the operations decide is module Session; here it *)
(* is any relation Steps.                                                  *)
(***************************************************************************)
EXTENDS Naturals

CONSTANTS
  Requests, Creator, Contents, First, Steps,
  Readers,       \* requests for the session's evidence
  MaxAttempts    \* snapshots a reader tries (MAX_EVIDENCE_SNAPSHOT_ATTEMPTS)

ASSUME StoreOK ==
  /\ Creator \notin Requests
  /\ First \in Contents /\ Steps \subseteq Contents \X Contents
  /\ MaxAttempts \in Nat \ {0}

VARIABLES
  session,  \* the row of sessions: the aggregate and its version
  events,   \* the rows of evidence_events
  work,     \* per request: its phase, the row it read, what it will save
  snapshot  \* per reader: its phase, attempt, the version and events it read

vars == <<session, events, work, snapshot>>

Session == [content : Contents, version : Nat]

\* An event is hashed with its random id, so the request that made it stands for
\* both; the first has no previous one and names itself.
Event == [id : Requests \cup {Creator}, sequence : Nat, previous : Requests \cup {Creator}]

Created == [id |-> Creator, sequence |-> 1, previous |-> Creator]

Work == [phase : {"new", "read", "linked", "refused", "saved", "conflict", "unknown"},
         base : Session, next : Session, event : Event]

Snapshot == [phase : {"new", "listing", "checking", "verified", "invalid", "busy"},
             attempt : Nat, before : Nat, seen : SUBSET Event]

\* ORDER BY sequence DESC LIMIT 1
LastEvent == CHOOSE e \in events : \A f \in events : f.sequence <= e.sequence

\* verifyEvidenceChain: contiguous from 1, each naming the one before it.
Chained(E) ==
  \A e \in E :
    IF e.sequence = 1 THEN e.previous = e.id
    ELSE \E f \in E : f.sequence + 1 = e.sequence /\ e.previous = f.id

Init ==
  /\ session = [content |-> First, version |-> 1]
  /\ events = {Created}
  /\ work = [r \in Requests |->
               [phase |-> "new", base |-> session, next |-> session, event |-> Created]]
  /\ snapshot = [k \in Readers |->
                   [phase |-> "new", attempt |-> 0, before |-> 0, seen |-> {}]]

-----------------------------------------------------------------------------
(* An operation *)

\* requireSession
Read(r) ==
  /\ work[r].phase = "new"
  /\ work' = [work EXCEPT ![r].phase = "read", ![r].base = session]
  /\ UNCHANGED <<session, events, snapshot>>

\* The operation throws, or finds nothing to do (startTransfer, in progress).
Refuse(r) ==
  /\ work[r].phase = "read"
  /\ work' = [work EXCEPT ![r].phase = "refused"]
  /\ UNCHANGED <<session, events, snapshot>>

NextEvent(r) == [id |-> r, sequence |-> LastEvent.sequence + 1, previous |-> LastEvent.id]

\* evolveSession or reviseSession from the row read before, createEvidenceEvent
\* after the last event as it is now.
Link(r) ==
  /\ work[r].phase = "read"
  /\ \E c \in Contents :
       /\ <<work[r].base.content, c>> \in Steps
       /\ work' = [work EXCEPT
            ![r].phase = "linked",
            ![r].next = [content |-> c, version |-> work[r].base.version + 1],
            ![r].event = NextEvent(r)]
  /\ UNCHANGED <<session, events, snapshot>>

\* Mutant of Applies: the statements without their version condition.
AppliesAnyway(r) == \A e \in events : e.sequence # work[r].event.sequence

\* The batch changes both rows: the version is the one read, and the sequence
\* number is free (UNIQUE).
Applies(r) ==
  /\ session.version = work[r].base.version
  /\ \A e \in events : e.sequence # work[r].event.sequence

\* Mutant of Save: the answer of a batch that changed nothing is not looked at.
SaveUnchecked(r) ==
  /\ work[r].phase = "linked"
  /\ IF Applies(r)
     THEN session' = work[r].next /\ events' = events \cup {work[r].event}
     ELSE UNCHANGED <<session, events>>
  /\ work' = [work EXCEPT ![r].phase = "saved"]
  /\ UNCHANGED snapshot

\* D1SessionRepository.save; the reply to a batch that ran may be lost.
Save(r) ==
  /\ work[r].phase = "linked"
  /\ IF Applies(r)
     THEN /\ session' = work[r].next
          /\ events' = events \cup {work[r].event}
          /\ \E answer \in {"saved", "unknown"} :
               work' = [work EXCEPT ![r].phase = answer]
     ELSE /\ work' = [work EXCEPT ![r].phase = "conflict"]
          /\ UNCHANGED <<session, events>>
  /\ UNCHANGED snapshot

\* The database fails before it runs the batch.
Fail(r) ==
  /\ work[r].phase = "linked"
  /\ work' = [work EXCEPT ![r].phase = "unknown"]
  /\ UNCHANGED <<session, events, snapshot>>

-----------------------------------------------------------------------------
(* The evidence route *)

\* The session is read before the events ...
Begin(k) ==
  /\ snapshot[k].phase = "new"
  /\ snapshot' = [snapshot EXCEPT ![k].phase = "listing", ![k].before = session.version]
  /\ UNCHANGED <<session, events, work>>

List(k) ==
  /\ snapshot[k].phase = "listing"
  /\ snapshot' = [snapshot EXCEPT
       ![k].phase = IF Chained(events) THEN "checking" ELSE "invalid",
       ![k].seen = events]
  /\ UNCHANGED <<session, events, work>>

\* Mutant of Check: the session is not read again.
CheckOnce(k) ==
  /\ snapshot[k].phase = "checking"
  /\ snapshot' = [snapshot EXCEPT ![k].phase = "verified"]
  /\ UNCHANGED <<session, events, work>>

\* ... and again after them; it, or a runner job read with it, may have changed.
\* The chain is then as long as the session's version or the evidence is invalid.
Check(k) ==
  /\ snapshot[k].phase = "checking"
  /\ \/ snapshot' = [snapshot EXCEPT
          ![k].attempt = @ + 1, ![k].seen = {},
          ![k].phase = IF snapshot[k].attempt + 1 = MaxAttempts THEN "busy" ELSE "new"]
     \/ /\ snapshot[k].before = session.version
        /\ snapshot' = [snapshot EXCEPT
             ![k].phase = IF \E e \in snapshot[k].seen : e.sequence = session.version
                             /\ \A f \in snapshot[k].seen : f.sequence <= session.version
                          THEN "verified" ELSE "invalid"]
  /\ UNCHANGED <<session, events, work>>

-----------------------------------------------------------------------------

Next ==
  \/ \E r \in Requests : Read(r) \/ Refuse(r) \/ Link(r) \/ Save(r) \/ Fail(r)
  \/ \E k \in Readers : Begin(k) \/ List(k) \/ Check(k)

Spec == Init /\ [][Next]_vars

-----------------------------------------------------------------------------
TypeOK ==
  /\ session \in Session
  /\ events \subseteq Event
  /\ work \in [Requests -> Work]
  /\ snapshot \in [Readers -> Snapshot]

\* The stored chain is one history: exactly one event for each version of the
\* session, each naming the event before it, whatever requests raced.
ChainIsHistory ==
  /\ \A n \in 1..session.version : \E e \in events : e.sequence = n
  /\ \A e \in events :
       /\ e.sequence \in 1..session.version
       /\ \A f \in events : f.sequence = e.sequence => f = e
  /\ Chained(events)

\* What a request was told is true: saved means that its event is in the chain,
\* a conflict or a refusal that it is not, and a conflict that another operation
\* took effect since the row was read, so that whoever retries has a new one.
AnswersAreTrue ==
  \A r \in Requests :
    /\ work[r].phase = "saved" => \E e \in events : e.id = r
    /\ work[r].phase \in {"refused", "conflict"} => \A e \in events : e.id # r
    /\ work[r].phase = "conflict" => work[r].base.version < session.version

\* Evidence that the route presents as VERIFIED is the whole chain of the one
\* version of the session it names; reading it during writes never makes the
\* route call sound evidence invalid.
SnapshotIsSound ==
  \A k \in Readers :
    /\ snapshot[k].phase # "invalid"
    /\ snapshot[k].phase = "verified" =>
         snapshot[k].seen = {e \in events : e.sequence <= snapshot[k].before}

EventAt(n) == CHOOSE e \in events : e.sequence = n

\* The stored session refines the ledger: the operations are atomic, and the
\* chain is their log.
Ledger ==
  INSTANCE SessionLedger WITH
    content <- session.content,
    log <- [n \in 1..session.version |-> EventAt(n).id]

ImplementsLedger == Ledger!Spec
=============================================================================
