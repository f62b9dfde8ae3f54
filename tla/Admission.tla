----------------------------- MODULE Admission -----------------------------
(***************************************************************************)
(* The admission controller: one Durable Object that budgets costly        *)
(* operations and leases them to the work they start                       *)
(* (apps/web/worker/admission-control.ts), with its clients in             *)
(* apps/web/worker/api.ts.                                                 *)
(*                                                                         *)
(* Each request to the object is two storage writes: a transaction on the  *)
(* ledger, then setAlarm, and only then the reply.  The runtime lets no    *)
(* other request in between, but the object may die there.  The ledger     *)
(* counts operations per kind and the operation key includes the kind: a   *)
(* behaviour is of one kind.                                               *)
(***************************************************************************)
EXTENDS Naturals, FiniteSets

CONSTANTS
  Operations,    \* operation keys: upload keys, analyst packets, runner requests
  Callers,       \* network addresses
  SessionOf,     \* the session an operation belongs to
  Holders,       \* what may be admitted: an upload, an analyst call, a runner job
  None,
  Window, LeaseTTL,
  Policy,        \* the limits of every kind that is looked at
  MaxTime        \* bound: the clock stops here

Kinds == {"upload", "analyst", "runner"}

\* A limit the code leaves undefined is one that is never reached.
Limits == [caller : Nat \ {0}, session : Nat \ {0}, global : Nat \ {0},
           active : Nat \ {0}]

\* What the ledger keeps of an operation since it was charged; until is 0 when
\* no lease is recorded.
Entry == [caller : Callers, at : Nat, until : Nat, generation : Nat \ {0}]

\* What an admitted holder was told, with the charge it stands on.
Grant == [op : Operations, caller : Callers, at : Nat, until : Nat,
          generation : Nat \ {0}]

ASSUME ConstantsOK ==
  /\ IsFiniteSet(Operations) /\ IsFiniteSet(Holders)
  /\ DOMAIN SessionOf = Operations
  /\ None \notin Entry /\ None \notin Grant
  /\ Window \in Nat \ {0} /\ LeaseTTL \in Nat \ {0}
  /\ DOMAIN Policy \subseteq Kinds /\ \A k \in DOMAIN Policy : Policy[k] \in Limits
  /\ MaxTime \in Nat

VARIABLES
  ledger,    \* the stored snapshot
  alarm,     \* when the object's alarm is due, 0 for none
  phase,     \* of the object: idle, between the two writes of a request or of the
             \* alarm, or idle again after it died there
  offer,     \* the grant the request in progress will be answered with
  now,
  kind,      \* the kind of the operations
  held,      \* the grant of every holder that was admitted
  released,  \* holders whose own release has reached the object
  ended      \* runner: the operations of which a job has ended, admitted or not

vars == <<ledger, alarm, phase, offer, now, kind, held, released, ended>>
holders == <<held, released, ended>>

Init ==
  /\ ledger = [o \in Operations |-> None]
  /\ alarm = 0 /\ now = 0
  /\ phase = "idle" /\ offer = None
  /\ kind \in DOMAIN Policy
  /\ held = [h \in Holders |-> None]
  /\ released = {} /\ ended = {}

-----------------------------------------------------------------------------
(* The ledger *)

\* withoutExpiredOperations, which every request applies first: an operation
\* leaves when the window of its charge has passed, whatever its lease.
Kept ==
  [o \in Operations |->
     IF ledger[o] = None \/ ledger[o].at + Window <= now THEN None
     ELSE IF ledger[o].until <= now THEN [ledger[o] EXCEPT !.until = 0]
     ELSE ledger[o]]

Charged(l) == {o \in Operations : l[o] # None}
Leased(l) == {o \in Charged(l) : l[o].until # 0}

\* Mutant of WithinBudgets: a full budget admits one more.
OverBudgets(o, c) ==
  /\ Cardinality({x \in Charged(Kept) : Kept[x].caller = c}) <= Policy[kind].caller
  /\ Cardinality({x \in Charged(Kept) : SessionOf[x] = SessionOf[o]}) <= Policy[kind].session
  /\ Cardinality(Charged(Kept)) <= Policy[kind].global

WithinBudgets(o, c) ==
  /\ Cardinality({x \in Charged(Kept) : Kept[x].caller = c}) < Policy[kind].caller
  /\ Cardinality({x \in Charged(Kept) : SessionOf[x] = SessionOf[o]}) < Policy[kind].session
  /\ Cardinality(Charged(Kept)) < Policy[kind].global

NotBusy == Cardinality(Leased(Kept)) < Policy[kind].active

\* Mutant of Scheduled: the alarm waits for the last lease to end.
ScheduledLast(l, pending) ==
  LET due == {l[o].until : o \in Leased(l)}
  IN IF due = {} THEN pending
     ELSE CHOOSE t \in due : \A other \in due : t >= other

\* nextAdmissionAlarmAt and setAlarm: without a lease the alarm is left alone.
Scheduled(l, pending) ==
  LET due == {l[o].until : o \in Leased(l)}
  IN IF due = {} THEN pending
     ELSE CHOOSE t \in due : \A other \in due : t <= other

\* The first write of a request: what evaluate... made of the pruned ledger.
Save(l) ==
  /\ phase \in {"idle", "lost"}
  /\ ledger' = l
  /\ phase' = "request"
  /\ UNCHANGED <<alarm, now, kind>>

\* The second write, of a request or of the alarm itself, and the reply.
Answer ==
  /\ phase \in {"request", "alarm"}
  /\ alarm' = Scheduled(ledger, IF phase = "alarm" THEN 0 ELSE alarm)
  /\ held' = IF offer = None THEN held ELSE [held EXCEPT ![offer.to] = offer.grant]
  /\ phase' = "idle" /\ offer' = None
  /\ UNCHANGED <<ledger, now, kind, released, ended>>

\* The object dies between the two, or setAlarm throws: nobody is answered.  An
\* alarm that was being handled stays due.
Die ==
  /\ phase \in {"request", "alarm"}
  /\ phase' = "lost" /\ offer' = None
  /\ UNCHANGED <<ledger, alarm, now, kind, holders>>

-----------------------------------------------------------------------------
(* Requests *)

Waiting(h) == held[h] = None

\* What h is to be told: the lease just put on record.
Offer(h, o) ==
  /\ offer' = [to |-> h,
               grant |-> [op |-> o, caller |-> ledger'[o].caller,
                          at |-> ledger'[o].at, until |-> ledger'[o].until,
                          generation |-> ledger'[o].generation]]
  /\ UNCHANGED holders

MayAcquire(o, c) == Kept[o] = None /\ WithinBudgets(o, c) /\ NotBusy

\* A new operation is charged and leased.
Acquire(h, o, c) ==
  /\ Waiting(h) /\ MayAcquire(o, c)
  /\ Save([Kept EXCEPT ![o] = [caller |-> c, at |-> now, until |-> now + LeaseTTL,
                               generation |-> 1]])
  /\ Offer(h, o)

\* Mutant of MayReacquire: a free lease is not held against the active limit.
ReacquireWhenBusy(o, c) ==
  Kept[o] # None /\ Kept[o].caller = c /\ Kept[o].until = 0

MayReacquire(o, c) ==
  /\ Kept[o] # None
  /\ Kept[o].caller = c /\ Kept[o].until = 0
  /\ NotBusy

Renewed(e) == [caller |-> e.caller, at |-> e.at, until |-> now + LeaseTTL,
               generation |-> e.generation + 1]

\* One already charged, with no live lease, is leased again free of charge.
Reacquire(h, o, c) ==
  /\ Waiting(h) /\ MayReacquire(o, c)
  /\ Save([Kept EXCEPT ![o] = Renewed(Kept[o])])
  /\ Offer(h, o)

\* Denied, or told that the operation is already active; only the pruned
\* snapshot is stored.
Refuse(h, o, c) ==
  /\ Waiting(h) /\ ~MayAcquire(o, c) /\ ~MayReacquire(o, c)
  /\ Save(Kept)
  /\ UNCHANGED <<offer, holders>>

\* Mutant of Token: a release names no generation.
FirstToken(h) == 1

\* The generation a holder's release names; analyst and runner releases name
\* none, which the object reads as the first.
Token(h) == IF kind = "upload" THEN held[h].generation ELSE 1

\* evaluateAdmissionRelease
Ended(o, generation) ==
  IF o \in Leased(Kept) /\ Kept[o].generation = generation
  THEN [Kept EXCEPT ![o] = [@ EXCEPT !.until = 0]]
  ELSE Kept

\* An upload or an analyst call releases when it is over, the dispatch of a
\* runner job when it fails, if they get that far.
Release(h) ==
  /\ held[h] # None /\ h \notin released
  /\ Save(Ended(held[h].op, Token(h)))
  /\ released' = released \cup {h}
  /\ UNCHANGED <<offer, held, ended>>

\* A runner job ends: by its callback, or cancelled or timed out, perhaps without
\* ever having been admitted.  Another job of the same request may follow.
JobEnds(o) ==
  /\ kind = "runner" /\ o \notin ended
  /\ ended' = ended \cup {o}
  /\ UNCHANGED <<ledger, alarm, phase, offer, now, kind, held, released>>

\* Mutant of ReleaseEnded: any release that comes for an ended job ends the lease.
ReleaseAnyEnded(o) ==
  /\ o \in ended
  /\ Save(IF o \in Leased(Kept) THEN Ended(o, Kept[o].generation) ELSE Kept)
  /\ UNCHANGED <<offer, holders>>

\* Whoever finds a runner job ended releases the operation of its request, again
\* and again: its callback, every poll after a timeout, every cancel.
ReleaseEnded(o) ==
  /\ o \in ended
  /\ Save(Ended(o, 1))
  /\ UNCHANGED <<offer, holders>>

\* The alarm is due and, perhaps later, runs.
Alarm ==
  /\ phase \in {"idle", "lost"}
  /\ alarm # 0 /\ alarm <= now
  /\ ledger' = Kept
  /\ phase' = "alarm"
  /\ UNCHANGED <<alarm, offer, now, kind, holders>>

Tick ==
  /\ now < MaxTime
  /\ now' = now + 1
  /\ UNCHANGED <<ledger, alarm, phase, offer, kind, holders>>

Next ==
  \/ Tick \/ Alarm \/ Answer \/ Die
  \/ \E h \in Holders : Release(h)
  \/ \E o \in Operations : JobEnds(o) \/ ReleaseEnded(o)
  \/ \E h \in Holders, o \in Operations, c \in Callers :
       Acquire(h, o, c) \/ Reacquire(h, o, c) \/ Refuse(h, o, c)

Spec == Init /\ [][Next]_vars

-----------------------------------------------------------------------------
\* The types of the variables.
TypeOK ==
  /\ ledger \in [Operations -> Entry \cup {None}]
  /\ alarm \in Nat /\ now \in Nat /\ kind \in DOMAIN Policy
  /\ phase \in {"idle", "request", "alarm", "lost"}
  /\ offer \in [to : Holders, grant : Grant] \cup {None}
  /\ held \in [Holders -> Grant \cup {None}]
  /\ released \subseteq {h \in Holders : held[h] # None}
  /\ ended \subseteq Operations

Granted == {h \in Holders : held[h] # None}

\* Holders at work under a lease that has not run out.
Working == {h \in Granted \ released : held[h].until > now}

\* Charges of the current window: first leases granted since it began.
Recent == {h \in Granted : held[h].generation = 1 /\ held[h].at + Window > now}

\* The lease h was granted is the one on record.
Backed(h) ==
  LET e == ledger[held[h].op]
  IN e # None /\ e.until # 0
     /\ e.at = held[h].at /\ e.generation = held[h].generation

\* In any window no caller, no session and no one altogether is charged beyond
\* its budget, and the free leases of a charged operation stay free: what was
\* granted is compared, not what the ledger remembers.
BudgetsHold ==
  /\ \A c \in Callers :
       Cardinality({h \in Recent : held[h].caller = c}) <= Policy[kind].caller
  /\ \A x \in Operations :
       Cardinality({h \in Recent : SessionOf[held[h].op] = SessionOf[x]})
         <= Policy[kind].session
  /\ Cardinality(Recent) <= Policy[kind].global

\* The ledger never has more live leases on record than the active limit, a
\* lease that was reacquired counting as much as a new one.
LeasesWithinLimit == Cardinality({o \in Leased(ledger) : ledger[o].until > now}) <= Policy[kind].active

\* A lease that anyone was told of has an alarm at or before its end, whatever
\* request dies between its two writes: it is cleared at that time even if nobody
\* ever comes.  Only a lease whose own request died there may be without, and the
\* next request, whichever it is, gives every lease on record its alarm.
LeaseHasAlarm ==
  /\ \A h \in Granted : Backed(h) => alarm # 0 /\ alarm <= held[h].until
  /\ phase = "idle" =>
       \A o \in Leased(ledger) : alarm # 0 /\ alarm <= ledger[o].until

\* The lease of a holder at work may have been ended by another's release: one of
\* a holder left from an earlier charge, which the ledger has forgotten with the
\* generations it gave; or, the first lease of a runner job's request, one for an
\* earlier job of that request, which names no generation.
Exposed(h) ==
  \/ \E g \in Granted : held[g].op = held[h].op /\ held[g].at # held[h].at
  \/ held[h].generation = 1 /\ held[h].op \in ended

\* While the window of its charge lasts, any other holder at work is on record, so
\* it counts as active and nobody else is admitted to its operation: expiry, the
\* alarm, deaths of the object and the late or repeated releases of other leases,
\* those of the ended runner jobs included, leave it alone.
WorkIsBacked ==
  \A h \in Working : held[h].at + Window > now /\ ~Exposed(h) => Backed(h)

\* A holder whose release named its generation holds no lease any more, however
\* late the release came and whoever has leased the operation since.
ReleaseEndsLease ==
  kind = "upload" => \A h \in released : Backed(h) => held[h].until <= now
=============================================================================
