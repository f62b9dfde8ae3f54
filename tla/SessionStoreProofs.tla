------------------------- MODULE SessionStoreProofs -------------------------
(***************************************************************************)
(* For every set of requests and readers and whatever the operations do:   *)
(* the stored chain is one history, the answers are true, the snapshots    *)
(* are sound, and SessionStore implements SessionLedger.                   *)
(***************************************************************************)
EXTENDS SessionStore, SequenceTheorems, TLAPS

\* What a request holds between its steps: a row that is the current one if its
\* version still is, an event that follows one of the chain, and, until its save
\* takes effect, nothing of its own in the chain.
WorkHolds(r) ==
  /\ work[r].phase \in {"new", "read", "linked", "refused", "conflict"} =>
       \A e \in events : e.id # r
  /\ work[r].phase \in {"read", "linked"} =>
       /\ work[r].base.version <= session.version
       /\ work[r].base.version = session.version => work[r].base = session
  /\ work[r].phase = "linked" =>
       /\ work[r].next.version = work[r].base.version + 1
       /\ <<work[r].base.content, work[r].next.content>> \in Steps
       /\ work[r].event.id = r
       /\ work[r].base.version < work[r].event.sequence
       /\ \E e \in events : /\ work[r].event.sequence = e.sequence + 1
                            /\ work[r].event.previous = e.id
  /\ work[r].phase = "saved" => \E e \in events : e.id = r
  /\ work[r].phase = "conflict" => work[r].base.version < session.version

\* What a reader holds: all events up to the version it read, and no event that
\* came with a later version unless it also read all before that one.
SnapshotHolds(k) ==
  /\ snapshot[k].phase # "invalid"
  /\ snapshot[k].phase \in {"listing", "checking", "verified"} =>
       snapshot[k].before <= session.version
  /\ snapshot[k].phase = "checking" =>
       \E m \in Nat : /\ snapshot[k].before <= m /\ m <= session.version
                      /\ snapshot[k].seen = {e \in events : e.sequence <= m}
  /\ snapshot[k].phase = "verified" =>
       snapshot[k].seen = {e \in events : e.sequence <= snapshot[k].before}

IInv ==
  /\ TypeOK
  /\ session.version \in Nat \ {0}
  /\ ChainIsHistory
  /\ \A r \in Requests : WorkHolds(r)
  /\ \A k \in Readers : SnapshotHolds(k)

-----------------------------------------------------------------------------

\* The last event is the one of the session's version.
LEMMA LastIsCurrent ==
  ASSUME TypeOK, ChainIsHistory, session.version \in Nat \ {0}
  PROVE  LastEvent \in events /\ LastEvent.sequence = session.version
<1>1. PICK e \in events : e.sequence = session.version
  BY DEF ChainIsHistory, TypeOK, Session
<1>2. \A f \in events : f.sequence <= e.sequence
  BY <1>1 DEF ChainIsHistory, TypeOK, Session, Event
<1>3. LastEvent \in events /\ \A f \in events : f.sequence <= LastEvent.sequence
  BY <1>1, <1>2 DEF LastEvent
<1>4. LastEvent.sequence = session.version
  BY <1>1, <1>2, <1>3 DEF TypeOK, Session, Event
<1> QED BY <1>3, <1>4

\* A save that applies adds the event of the next version.
LEMMA SavedIsNext ==
  ASSUME IInv, NEW r \in Requests, work[r].phase = "linked", Applies(r)
  PROVE  /\ work[r].base = session
         /\ work[r].event.sequence = session.version + 1
         /\ work[r].event.id = r
         /\ work[r].event \in Event
         /\ \E e \in events : /\ e.sequence = session.version
                              /\ work[r].event.previous = e.id
<1>1. /\ work[r] \in Work /\ session \in Session /\ events \subseteq Event
  BY DEF IInv, TypeOK
<1>2. work[r].base = session
  BY <1>1 DEF IInv, WorkHolds, Applies, Work, Session
<1>3. PICK e \in events : /\ work[r].event.sequence = e.sequence + 1
                          /\ work[r].event.previous = e.id
  BY DEF IInv, WorkHolds
<1>4. e.sequence \in 1..session.version
  BY DEF IInv, ChainIsHistory
<1>5. work[r].event.sequence \notin 1..session.version
  BY DEF IInv, ChainIsHistory, Applies
<1>6. e.sequence = session.version
  BY <1>1, <1>3, <1>4, <1>5 DEF Session, Event
<1> QED BY <1>1, <1>2, <1>3, <1>6 DEF IInv, WorkHolds, Work

\* A session just created satisfies the invariant.
LEMMA InitHolds == Init => IInv
<1> SUFFICES ASSUME Init PROVE IInv OBVIOUS
<1> USE StoreOK
<1>1. TypeOK /\ session.version \in Nat \ {0}
  BY DEF Init, TypeOK, Session, Event, Created, Work, Snapshot
<1>2. ChainIsHistory
  BY DEF Init, ChainIsHistory, Chained, Created
<1>3. \A r \in Requests : WorkHolds(r)
  <2>1. TAKE r \in Requests
  <2>2. work[r].phase = "new" /\ \A e \in events : e.id # r
    BY DEF Init, Created
  <2> QED BY <2>2 DEF WorkHolds
<1>4. \A k \in Readers : SnapshotHolds(k)
  BY DEF Init, SnapshotHolds
<1> QED BY <1>1, <1>2, <1>3, <1>4 DEF IInv

-----------------------------------------------------------------------------

\* A step that leaves the tables alone keeps what everybody else holds.
LEMMA TablesKept ==
  ASSUME IInv, UNCHANGED <<session, events>>
  PROVE  /\ session'.version \in Nat \ {0} /\ ChainIsHistory'
         /\ \A r \in Requests : work'[r] = work[r] => WorkHolds(r)'
         /\ \A k \in Readers : snapshot'[k] = snapshot[k] => SnapshotHolds(k)'
BY DEF IInv, ChainIsHistory, Chained, WorkHolds, SnapshotHolds

\* The steps of an operation before its save, and a save that never reached the
\* tables, keep the invariant.
LEMMA WorkStep ==
  ASSUME IInv, NEW r \in Requests, Read(r) \/ Refuse(r) \/ Link(r) \/ Fail(r)
  PROVE  IInv'
<1> USE DEF IInv
<1>1. /\ work[r] \in Work /\ session \in Session /\ events \subseteq Event
      /\ work \in [Requests -> Work] /\ snapshot \in [Readers -> Snapshot]
  BY DEF TypeOK
<1>2. UNCHANGED <<session, events, snapshot>>
  BY DEF Read, Refuse, Link, Fail
<1>3. \A q \in Requests \ {r} : work'[q] = work[q]
  BY <1>1 DEF Read, Refuse, Link, Fail
<1>4. work' \in [Requests -> Work] /\ WorkHolds(r)'
  <2>1. CASE Read(r)
    <3>1. /\ work[r].phase = "new"
          /\ work' = [work EXCEPT ![r].phase = "read", ![r].base = session]
      BY <2>1 DEF Read
    <3>2. /\ work'[r] = [work[r] EXCEPT !.phase = "read", !.base = session]
          /\ \A e \in events : e.id # r
      BY <1>1, <3>1 DEF WorkHolds
    <3>3. /\ work'[r] \in Work /\ work'[r].phase = "read" /\ work'[r].base = session
          /\ session.version \in Nat
      BY <1>1, <3>2 DEF Work, Session
    <3>4. WorkHolds(r)'
      BY <1>2, <3>2, <3>3 DEF WorkHolds
    <3> QED BY <1>1, <3>1, <3>3, <3>4
  <2>2. CASE Refuse(r)
    BY <1>1, <2>2 DEF Refuse, Work, WorkHolds
  <2>3. CASE Fail(r)
    BY <1>1, <2>3 DEF Fail, Work, WorkHolds
  <2>4. CASE Link(r)
    <3> DEFINE last == LastEvent
               made == NextEvent(r)
    <3>1. last \in events /\ last.sequence = session.version
      BY LastIsCurrent
    <3> HIDE DEF last
    <3>2. /\ made.id = r /\ made.sequence = last.sequence + 1
          /\ made.previous = last.id /\ made \in Event
      BY <1>1, <3>1 DEF NextEvent, Event, last
    <3> HIDE DEF made
    <3>3. PICK c \in Contents :
            /\ <<work[r].base.content, c>> \in Steps
            /\ work' = [work EXCEPT
                 ![r].phase = "linked",
                 ![r].next = [content |-> c, version |-> work[r].base.version + 1],
                 ![r].event = made]
      BY <2>4 DEF Link, made
    <3> DEFINE grown == [content |-> c, version |-> work[r].base.version + 1]
    <3>4. work'[r] = [work[r] EXCEPT !.phase = "linked", !.next = grown, !.event = made]
      BY <1>1, <3>3
    <3>5. grown \in Session
      BY <1>1 DEF Work, Session
    <3>6. /\ work'[r] \in Work
          /\ work'[r].phase = "linked" /\ work'[r].base = work[r].base
          /\ work'[r].next = grown /\ work'[r].event = made
      BY <1>1, <3>2, <3>4, <3>5 DEF Work
    <3>7. /\ work[r].base.version <= session.version
          /\ work[r].base.version = session.version => work[r].base = session
          /\ \A e \in events : e.id # r
      BY <2>4 DEF Link, WorkHolds
    <3>8. work[r].base.version < made.sequence
      BY <1>1, <3>1, <3>2, <3>7 DEF Work, Session
    <3>9. /\ grown.version = work[r].base.version + 1
          /\ <<work[r].base.content, grown.content>> \in Steps
      BY <3>3
    <3> HIDE DEF grown
    <3>10. \E e \in events : made.sequence = e.sequence + 1 /\ made.previous = e.id
      BY <3>1, <3>2
    <3>11. WorkHolds(r)'
      BY <1>2, <3>2, <3>6, <3>7, <3>8, <3>9, <3>10 DEF WorkHolds
    <3> QED BY <1>1, <3>3, <3>6, <3>11
  <2> QED BY <2>1, <2>2, <2>3, <2>4
<1>5. TypeOK'
  BY <1>1, <1>2, <1>4 DEF TypeOK
<1> QED BY <1>2, <1>3, <1>4, <1>5, TablesKept

\* A save keeps the invariant, whether its batch applies or not.
LEMMA SaveStep ==
  ASSUME IInv, NEW r \in Requests, Save(r)
  PROVE  IInv'
<1>1. /\ work[r] \in Work /\ session \in Session /\ events \subseteq Event
      /\ work \in [Requests -> Work] /\ snapshot \in [Readers -> Snapshot]
      /\ session.version \in Nat \ {0}
  BY DEF IInv, TypeOK
<1>2. UNCHANGED snapshot /\ work[r].phase = "linked"
  BY DEF Save
<1>3. CASE ~Applies(r)
  <2>1. UNCHANGED <<session, events>> /\ work' = [work EXCEPT ![r].phase = "conflict"]
    BY <1>3 DEF Save
  <2>2. work[r].base.version < session.version
    <3>1. /\ work[r].base.version <= session.version
          /\ work[r].base.version < work[r].event.sequence
      BY <1>2 DEF IInv, WorkHolds
    <3>2. /\ work[r].base.version \in Nat /\ work[r].event.sequence \in Nat
          /\ \A e \in events : e.sequence \in Nat /\ e.sequence <= session.version
      BY <1>1 DEF IInv, ChainIsHistory, Work, Session, Event
    <3>3. work[r].base.version # session.version
      BY <1>1, <1>3, <3>1, <3>2 DEF Applies
    <3> QED BY <1>1, <3>1, <3>2, <3>3
  <2>3. work' \in [Requests -> Work] /\ WorkHolds(r)'
    BY <1>1, <1>2, <2>1, <2>2 DEF IInv, WorkHolds, Work
  <2>4. \A q \in Requests \ {r} : work'[q] = work[q]
    BY <1>1, <2>1
  <2>5. TypeOK'
    BY <1>1, <1>2, <2>1, <2>3 DEF TypeOK
  <2> QED BY <1>2, <2>1, <2>3, <2>4, <2>5, TablesKept DEF IInv
<1>4. CASE Applies(r)
  <2> DEFINE added == work[r].event
  <2>1. PICK last \in events : last.sequence = session.version /\ added.previous = last.id
    BY <1>2, <1>4, SavedIsNext
  <2>2. /\ work[r].base = session /\ added.sequence = session.version + 1
        /\ added.id = r /\ added \in Event
    BY <1>2, <1>4, SavedIsNext
  <2>3. /\ session' = work[r].next /\ events' = events \cup {added}
        /\ session'.version = session.version + 1
        /\ session' \in Session
    BY <1>1, <1>2, <1>4, <2>2 DEF Save, IInv, WorkHolds, Work
  <2>4. PICK answer \in {"saved", "unknown"} : work' = [work EXCEPT ![r].phase = answer]
    BY <1>4 DEF Save
  <2>5. ChainIsHistory'
    <3>1. \A n \in 1..session'.version : \E e \in events' : e.sequence = n
      BY <1>1, <2>2, <2>3 DEF IInv, ChainIsHistory
    <3>2. \A e \in events' : e.sequence \in 1..session'.version
      BY <1>1, <2>2, <2>3 DEF IInv, ChainIsHistory
    <3>3. \A e, f \in events' : f.sequence = e.sequence => f = e
      BY <1>1, <2>2, <2>3 DEF IInv, ChainIsHistory
    <3>4. Chained(events')
      BY <1>1, <2>1, <2>2, <2>3 DEF IInv, ChainIsHistory, Chained
    <3> QED BY <3>1, <3>2, <3>3, <3>4 DEF ChainIsHistory, Chained
  <2>6. work' \in [Requests -> Work] /\ WorkHolds(r)'
    <3>1. work'[r] = [work[r] EXCEPT !.phase = answer]
      BY <1>1, <2>4
    <3>2. \E e \in events' : e.id = r
      BY <2>2, <2>3
    <3>3. work'[r].phase = answer
      BY <1>1, <3>1 DEF Work
    <3>4. WorkHolds(r)'
      BY <3>2, <3>3 DEF WorkHolds
    <3> QED BY <1>1, <2>4, <3>4 DEF Work
  <2>7. ASSUME NEW q \in Requests \ {r} PROVE WorkHolds(q)'
    <3>1. work'[q] = work[q] /\ work[q] \in Work
      BY <1>1, <2>4
    <3>2. WorkHolds(q)
      BY DEF IInv
    <3>3. work[q].phase \in {"new", "read", "linked", "refused", "conflict"} =>
            \A e \in events' : e.id # q
      BY <2>2, <2>3, <3>2 DEF WorkHolds
    <3>4. work[q].phase \in {"read", "linked"} =>
            work[q].base.version < session'.version
      BY <1>1, <2>3, <3>1, <3>2 DEF WorkHolds, Work, Session
    <3>5. work[q].phase = "conflict" => work[q].base.version < session'.version
      BY <1>1, <2>3, <3>1, <3>2 DEF WorkHolds, Work, Session
    <3>6. work[q].base.version \in Nat /\ session'.version \in Nat
      BY <1>1, <2>3, <3>1 DEF Work, Session
    <3> QED BY <2>3, <3>1, <3>2, <3>3, <3>4, <3>5, <3>6 DEF WorkHolds
  <2>8. ASSUME NEW k \in Readers PROVE SnapshotHolds(k)'
    <3>1. snapshot'[k] = snapshot[k] /\ snapshot[k] \in Snapshot /\ SnapshotHolds(k)
      BY <1>1, <1>2 DEF IInv
    <3>2. \A m \in Nat : m <= session.version =>
            {e \in events' : e.sequence <= m} = {e \in events : e.sequence <= m}
      BY <1>1, <2>2, <2>3
    <3>3. snapshot[k].before \in Nat
      BY <3>1 DEF Snapshot
    <3>4. CASE snapshot[k].phase = "checking"
      <4>1. PICK m \in Nat : /\ snapshot[k].before <= m /\ m <= session.version
                             /\ snapshot[k].seen = {e \in events : e.sequence <= m}
        BY <3>1, <3>4 DEF SnapshotHolds
      <4>2. m <= session'.version /\ snapshot[k].before <= session'.version
        BY <1>1, <2>3, <3>3, <4>1
      <4>3. snapshot[k].seen = {e \in events' : e.sequence <= m}
        BY <3>2, <4>1
      <4> QED BY <3>1, <3>4, <4>1, <4>2, <4>3 DEF SnapshotHolds
    <3>5. CASE snapshot[k].phase = "verified"
      <4>1. snapshot[k].before <= session.version
        BY <3>1, <3>5 DEF SnapshotHolds
      <4>2. snapshot[k].seen = {e \in events' : e.sequence <= snapshot[k].before}
        BY <3>1, <3>2, <3>3, <3>5, <4>1 DEF SnapshotHolds
      <4>3. snapshot[k].before <= session'.version
        BY <1>1, <2>3, <3>3, <4>1
      <4> QED BY <3>1, <3>5, <4>2, <4>3 DEF SnapshotHolds
    <3>6. CASE snapshot[k].phase = "listing"
      <4>1. snapshot[k].before <= session'.version
        BY <1>1, <2>3, <3>1, <3>3, <3>6 DEF SnapshotHolds
      <4> QED BY <3>1, <3>6, <4>1 DEF SnapshotHolds
    <3>7. CASE snapshot[k].phase \notin {"checking", "verified", "listing"}
      BY <3>1, <3>7 DEF SnapshotHolds
    <3> QED BY <3>4, <3>5, <3>6, <3>7
  <2>9. TypeOK'
    BY <1>1, <1>2, <2>2, <2>3, <2>6 DEF TypeOK
  <2>10. session'.version \in Nat \ {0}
    BY <1>1, <2>3
  <2> QED BY <2>5, <2>6, <2>7, <2>8, <2>9, <2>10 DEF IInv
<1> QED BY <1>3, <1>4

\* The steps of the evidence route keep the invariant.
LEMMA ReaderStep ==
  ASSUME IInv, NEW k \in Readers, Begin(k) \/ List(k) \/ Check(k)
  PROVE  IInv'
<1>1. /\ snapshot[k] \in Snapshot /\ session \in Session /\ events \subseteq Event
      /\ work \in [Requests -> Work] /\ snapshot \in [Readers -> Snapshot]
      /\ session.version \in Nat \ {0} /\ SnapshotHolds(k)
  BY DEF IInv, TypeOK
<1>2. UNCHANGED <<session, events, work>>
  BY DEF Begin, List, Check
<1>3. \A j \in Readers \ {k} : snapshot'[j] = snapshot[j]
  BY <1>1 DEF Begin, List, Check
<1>4. snapshot' \in [Readers -> Snapshot] /\ SnapshotHolds(k)'
  <2>1. CASE Begin(k)
    <3>1. snapshot' = [snapshot EXCEPT ![k].phase = "listing", ![k].before = session.version]
      BY <2>1 DEF Begin
    <3>2. /\ snapshot'[k] \in Snapshot /\ snapshot'[k].phase = "listing"
          /\ snapshot'[k].before = session.version
      BY <1>1, <3>1 DEF Snapshot
    <3>3. SnapshotHolds(k)'
      BY <1>1, <1>2, <3>2 DEF SnapshotHolds
    <3> QED BY <1>1, <3>1, <3>2, <3>3
  <2>2. CASE List(k)
    <3>1. Chained(events)
      BY DEF IInv, ChainIsHistory
    <3>2. /\ snapshot[k].phase = "listing"
          /\ snapshot' = [snapshot EXCEPT ![k].phase = "checking", ![k].seen = events]
      BY <2>2, <3>1 DEF List
    <3>3. /\ snapshot'[k] \in Snapshot /\ snapshot'[k].phase = "checking"
          /\ snapshot'[k].seen = events /\ snapshot'[k].before = snapshot[k].before
      BY <1>1, <3>2 DEF Snapshot
    <3>4. events = {e \in events : e.sequence <= session.version}
      BY <1>1 DEF IInv, ChainIsHistory, Session, Event
    <3>5. snapshot[k].before <= session.version
      BY <1>1, <3>2 DEF SnapshotHolds
    <3>6. SnapshotHolds(k)'
      BY <1>1, <1>2, <3>3, <3>4, <3>5 DEF SnapshotHolds
    <3> QED BY <1>1, <3>2, <3>3, <3>6
  <2>3. CASE Check(k)
    <3>1. snapshot[k].phase = "checking"
      BY <2>3 DEF Check
    <3>2. PICK m \in Nat : /\ snapshot[k].before <= m /\ m <= session.version
                           /\ snapshot[k].seen = {e \in events : e.sequence <= m}
      BY <1>1, <3>1 DEF SnapshotHolds
    <3>3. CASE snapshot' = [snapshot EXCEPT
                 ![k].attempt = @ + 1, ![k].seen = {},
                 ![k].phase = IF snapshot[k].attempt + 1 = MaxAttempts
                              THEN "busy" ELSE "new"]
      <4>1. PICK p \in {"busy", "new"} :
              snapshot' = [snapshot EXCEPT ![k].attempt = @ + 1, ![k].seen = {}, ![k].phase = p]
        BY <3>3
      <4>2. snapshot'[k] = [snapshot[k] EXCEPT !.attempt = @ + 1, !.seen = {}, !.phase = p]
        BY <1>1, <4>1
      <4>3. snapshot[k].attempt + 1 \in Nat /\ {} \in SUBSET Event
        BY <1>1 DEF Snapshot
      <4>4. snapshot'[k] \in Snapshot /\ snapshot'[k].phase \in {"busy", "new"}
        BY <1>1, <4>2, <4>3 DEF Snapshot
      <4>5. SnapshotHolds(k)'
        BY <4>4 DEF SnapshotHolds
      <4> QED BY <1>1, <4>1, <4>4, <4>5
    <3>4. CASE ~(snapshot' = [snapshot EXCEPT
                 ![k].attempt = @ + 1, ![k].seen = {},
                 ![k].phase = IF snapshot[k].attempt + 1 = MaxAttempts
                              THEN "busy" ELSE "new"])
      <4>1. snapshot[k].before = session.version
        BY <2>3, <3>4 DEF Check
      <4>2. m = session.version
        BY <1>1, <3>2, <4>1 DEF Session
      <4>3. /\ \E e \in snapshot[k].seen : e.sequence = session.version
            /\ \A f \in snapshot[k].seen : f.sequence <= session.version
        <5>1. PICK e \in events : e.sequence = session.version
          BY <1>1 DEF IInv, ChainIsHistory
        <5> QED BY <1>1, <3>2, <4>2, <5>1
      <4>4. snapshot' = [snapshot EXCEPT ![k].phase = "verified"]
        BY <2>3, <3>4, <4>3 DEF Check
      <4>5. /\ snapshot'[k] \in Snapshot /\ snapshot'[k].phase = "verified"
            /\ snapshot'[k].seen = snapshot[k].seen
            /\ snapshot'[k].before = snapshot[k].before
        BY <1>1, <4>4 DEF Snapshot
      <4>6. SnapshotHolds(k)'
        BY <1>1, <1>2, <3>2, <4>1, <4>2, <4>5 DEF SnapshotHolds, Session
      <4> QED BY <1>1, <4>4, <4>5, <4>6
    <3> QED BY <3>3, <3>4
  <2> QED BY <2>1, <2>2, <2>3
<1>5. TypeOK'
  BY <1>1, <1>2, <1>4 DEF TypeOK
<1> QED BY <1>2, <1>3, <1>4, <1>5, TablesKept DEF IInv

\* Every step keeps the invariant.
LEMMA StepHolds == IInv /\ [Next]_vars => IInv'
<1> SUFFICES ASSUME IInv, [Next]_vars PROVE IInv' OBVIOUS
<1>1. CASE UNCHANGED vars
  <2>1. TypeOK'
    BY <1>1 DEF IInv, TypeOK, vars
  <2> QED BY <1>1, <2>1, TablesKept DEF IInv, vars
<1>2. ASSUME NEW r \in Requests, Read(r) \/ Refuse(r) \/ Link(r) \/ Save(r) \/ Fail(r)
      PROVE  IInv'
  BY <1>2, WorkStep, SaveStep
<1>3. ASSUME NEW k \in Readers, Begin(k) \/ List(k) \/ Check(k)
      PROVE  IInv'
  BY <1>3, ReaderStep
<1> QED BY <1>1, <1>2, <1>3 DEF Next

\* The invariant holds in every reachable state.
LEMMA Inductive == Spec => []IInv
<1> QED BY InitHolds, StepHolds, PTL DEF Spec

-----------------------------------------------------------------------------

\* The variables keep their types: versions are numbers, events belong to
\* requests, whatever is interleaved.
THEOREM TypeCorrect == Spec => []TypeOK
<1>1. IInv => TypeOK BY DEF IInv
<1> QED BY <1>1, Inductive, PTL

\* The stored chain is one history for any number of racing requests: the batch
\* of D1SessionRepository.save never forks or skips it.
THEOREM OneHistory == Spec => []ChainIsHistory
<1>1. IInv => ChainIsHistory BY DEF IInv
<1> QED BY <1>1, Inductive, PTL

\* What a request was told about its save is true.
THEOREM TrueAnswers == Spec => []AnswersAreTrue
<1>1. IInv => AnswersAreTrue BY DEF IInv, WorkHolds, AnswersAreTrue
<1> QED BY <1>1, Inductive, PTL

\* The evidence route never presents a torn chain, nor rejects a sound one.
THEOREM SoundSnapshots == Spec => []SnapshotIsSound
<1>1. IInv => SnapshotIsSound BY DEF IInv, SnapshotHolds, SnapshotIsSound
<1> QED BY <1>1, Inductive, PTL

-----------------------------------------------------------------------------
(* Refinement *)

Log == [n \in 1..session.version |-> EventAt(n).id]

\* The log is a sequence with the id of the event of each version.
LEMMA LogIsSeq ==
  ASSUME IInv
  PROVE  /\ Log \in Seq(Requests \cup {Creator}) /\ Len(Log) = session.version
         /\ \A n \in 1..session.version : \A e \in events : e.sequence = n => Log[n] = e.id
<1>1. /\ session.version \in Nat /\ events \subseteq Event
  BY DEF IInv, TypeOK, Session
<1>2. \A n \in 1..session.version : EventAt(n) \in events /\ EventAt(n).sequence = n
  BY DEF IInv, ChainIsHistory, EventAt
<1>3. \A n \in 1..session.version : EventAt(n).id \in Requests \cup {Creator}
  BY <1>1, <1>2 DEF Event
<1>4. Log \in [1..session.version -> Requests \cup {Creator}]
  BY <1>3 DEF Log
<1>5. Log \in Seq(Requests \cup {Creator})
  BY <1>1, <1>4, SeqDef
<1>6. Len(Log) = session.version
  BY <1>1, <1>4, <1>5, LenProperties
<1>7. \A n \in 1..session.version : \A e \in events : e.sequence = n => Log[n] = e.id
  BY <1>2 DEF Log, IInv, ChainIsHistory
<1> QED BY <1>5, <1>6, <1>7

\* The initial states are initial states of the ledger.
LEMMA InitMaps == Init => Ledger!Init
<1> SUFFICES ASSUME Init PROVE Ledger!Init OBVIOUS
<1>1. /\ Log \in Seq(Requests \cup {Creator}) /\ Len(Log) = session.version
      /\ \A n \in 1..session.version : \A e \in events : e.sequence = n => Log[n] = e.id
  BY InitHolds, LogIsSeq
<1>2. session.version = 1 /\ session.content = First /\ events = {Created}
  BY DEF Init
<1>3. Len(Log) = 1 /\ Log[1] = Creator
  BY <1>1, <1>2 DEF Created
<1>4. <<Creator>> \in Seq(Requests \cup {Creator}) /\ Len(<<Creator>>) = 1
      /\ <<Creator>>[1] = Creator
  OBVIOUS
<1>5. Log = <<Creator>>
  BY <1>1, <1>3, <1>4, SeqEqual
<1> QED BY <1>2, <1>5 DEF Ledger!Init, Log

\* A save that applies performs its request in the ledger.
LEMMA SavePerforms ==
  ASSUME IInv, IInv', NEW r \in Requests, Save(r), Applies(r)
  PROVE  Ledger!Perform(r)
<1> DEFINE Ids == Requests \cup {Creator}
<1>1. work[r].phase = "linked"
  BY DEF Save
<1>2. /\ work[r].base = session /\ work[r].event.sequence = session.version + 1
      /\ work[r].event.id = r
  BY <1>1, SavedIsNext
<1>3. /\ session' = work[r].next /\ events' = events \cup {work[r].event}
      /\ session'.version = session.version + 1
      /\ <<session.content, session'.content>> \in Steps
      /\ session.version \in Nat
      /\ \A e \in events : e.id # r
  BY <1>1, <1>2 DEF Save, IInv, WorkHolds
<1>4. /\ Log \in Seq(Ids) /\ Len(Log) = session.version
      /\ \A n \in 1..session.version : \A e \in events : e.sequence = n => Log[n] = e.id
  BY LogIsSeq
<1>5. /\ Log' \in Seq(Ids) /\ Len(Log') = session'.version
      /\ \A n \in 1..session'.version : \A e \in events' : e.sequence = n => Log'[n] = e.id
  <2>1. /\ session'.version \in Nat /\ events' \subseteq Event
    BY DEF IInv, TypeOK, Session
  <2>2. \A n \in 1..session'.version : EventAt(n)' \in events' /\ EventAt(n)'.sequence = n
    BY DEF IInv, ChainIsHistory, EventAt
  <2>3. Log' \in [1..session'.version -> Ids]
    BY <2>1, <2>2 DEF Log, Event
  <2>4. Log' \in Seq(Ids)
    BY <2>1, <2>3, SeqDef
  <2>5. Len(Log') = session'.version
    BY <2>1, <2>3, <2>4, LenProperties
  <2>6. \A n \in 1..session'.version : \A e \in events' : e.sequence = n => Log'[n] = e.id
    BY <2>2 DEF Log, IInv, ChainIsHistory
  <2> QED BY <2>4, <2>5, <2>6
<1>6. \A n \in 1..session.version : \E e \in events : e.sequence = n
  BY DEF IInv, ChainIsHistory
<1>7. Log' = Append(Log, r)
  <2>1. /\ Append(Log, r) \in Seq(Ids) /\ Len(Append(Log, r)) = Len(Log) + 1
        /\ \A n \in 1..Len(Log) : Append(Log, r)[n] = Log[n]
        /\ Append(Log, r)[Len(Log) + 1] = r
    BY <1>4, AppendProperties
  <2>2. Log'[session.version + 1] = r
    BY <1>2, <1>3, <1>5
  <2>3. \A n \in 1..session.version : Log'[n] = Log[n]
    BY <1>3, <1>4, <1>5, <1>6
  <2>4. \A n \in 1..Len(Log') : Log'[n] = Append(Log, r)[n]
    BY <1>3, <1>4, <1>5, <2>1, <2>2, <2>3
  <2> QED BY <1>3, <1>4, <1>5, <2>1, <2>4, SeqEqual
<1>8. \A n \in 1..Len(Log) : Log[n] # r
  BY <1>3, <1>4, <1>6
<1> QED BY <1>3, <1>7, <1>8 DEF Ledger!Perform, Ledger!Logged, Log

\* Every step performs one request in the ledger or changes nothing of it.
LEMMA StepMaps == IInv /\ IInv' /\ [Next]_vars => [Ledger!Next]_(Ledger!vars)
<1> SUFFICES ASSUME IInv, IInv', [Next]_vars PROVE [Ledger!Next]_(Ledger!vars)
  OBVIOUS
<1>1. CASE UNCHANGED <<session, events>>
  BY <1>1 DEF Ledger!vars, EventAt
<1>2. ASSUME NEW r \in Requests, Save(r), Applies(r) PROVE Ledger!Next
  BY <1>2, SavePerforms DEF Ledger!Next
<1>3. ASSUME NEW r \in Requests,
             Read(r) \/ Refuse(r) \/ Link(r) \/ Fail(r) \/ (Save(r) /\ ~Applies(r))
      PROVE  UNCHANGED <<session, events>>
  BY <1>3 DEF Read, Refuse, Link, Fail, Save
<1>4. ASSUME NEW k \in Readers, Begin(k) \/ List(k) \/ Check(k)
      PROVE  UNCHANGED <<session, events>>
  BY <1>4 DEF Begin, List, Check
<1> QED BY <1>1, <1>2, <1>3, <1>4 DEF Next, vars

\* Operations on a stored session are atomic: whatever requests interleave, the
\* session and its chain are what performing some of them one after the other
\* gives.
THEOREM StoreIsLedger == Spec => ImplementsLedger
<1> QED BY InitMaps, Inductive, StepMaps, PTL DEF Spec, ImplementsLedger, Ledger!Spec
=============================================================================
