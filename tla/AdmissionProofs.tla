-------------------------- MODULE AdmissionProofs --------------------------
(***************************************************************************)
(* For any operations, callers, holders, limits and times, for every kind, *)
(* and wherever the object dies: the budgets and the active limit hold, a  *)
(* lease anyone was told of has its alarm, a holder at work is on record   *)
(* unless exposed to the releases of others, and a release that names its  *)
(* generation ends the lease.                                              *)
(***************************************************************************)
EXTENDS Admission, FiniteSetTheorems, TLAPS

\* What the ledger knows of a grant: the charge for as long as its window lasts,
\* a generation at least as high, and the lease itself until it is over.
LeaseStands(h) ==
  LET e == ledger[held[h].op]
  IN /\ held[h].at + Window > now =>
          e # None /\ e.at = held[h].at /\ e.caller = held[h].caller
     /\ e # None /\ e.at = held[h].at =>
          /\ held[h].generation <= e.generation
          /\ held[h].generation = e.generation => e.until \in {0, held[h].until}

\* No lease of an operation is granted twice.
GrantsDiffer ==
  \A g, h \in Granted :
    /\ held[g].op = held[h].op /\ held[g].at = held[h].at
    /\ held[g].generation = held[h].generation
    => g = h

\* A grant that is to be told is exactly the lease on record, and newer than all
\* those that were told for its charge.
OfferStands ==
  offer # None =>
    LET g == offer.grant
        e == ledger[g.op]
    IN /\ phase = "request" /\ held[offer.to] = None
       /\ e # None /\ e.caller = g.caller /\ e.at = g.at
       /\ e.until = g.until /\ e.generation = g.generation
       /\ \A h \in Granted : held[h].op = g.op /\ held[h].at = g.at =>
            held[h].generation < g.generation

\* The charges of the window, of which the budgets are counted.
OfCaller(c) == {o \in Charged(Kept) : Kept[o].caller = c}
OfSession(x) == {o \in Charged(Kept) : SessionOf[o] = SessionOf[x]}

ChargesWithinBudgets ==
  /\ \A c \in Callers : Cardinality(OfCaller(c)) <= Policy[kind].caller
  /\ \A x \in Operations : Cardinality(OfSession(x)) <= Policy[kind].session
  /\ Cardinality(Charged(Kept)) <= Policy[kind].global

IInv ==
  /\ TypeOK
  /\ \A h \in Granted : LeaseStands(h)
  /\ GrantsDiffer
  /\ OfferStands
  /\ ChargesWithinBudgets
  /\ LeasesWithinLimit
  /\ LeaseHasAlarm
  /\ WorkIsBacked
  /\ ReleaseEndsLease

-----------------------------------------------------------------------------
(* The ledger *)

\* A set of numbers has a least one.
LEMMA Least ==
  ASSUME NEW S \in SUBSET Nat, S # {}
  PROVE  \E t \in S : \A u \in S : t <= u
<1>1. PICK t \in S : \A u \in S : ~(<<u, t>> \in OpToRel(<, Nat))
  BY NatLessThanWellFounded, WFMin
<1>2. \A u \in S : ~(u < t)
  BY <1>1 DEF OpToRel
<1> QED BY <1>2

\* The alarm that is set is due no later than any lease of the ledger.
LEMMA AlarmIsSet ==
  ASSUME NEW l \in [Operations -> Entry \cup {None}], NEW pending \in Nat
  PROVE  /\ Scheduled(l, pending) \in Nat
         /\ \A o \in Leased(l) :
              Scheduled(l, pending) # 0 /\ Scheduled(l, pending) <= l[o].until
<1> DEFINE due == {l[o].until : o \in Leased(l)}
<1>1. \A o \in Leased(l) : l[o].until \in Nat \ {0}
  BY DEF Leased, Charged, Entry
<1>2. due \subseteq Nat \ {0}
  BY <1>1
<1>3. CASE due = {}
  BY <1>3 DEF Scheduled
<1>4. CASE due # {}
  <2>1. \E t \in due : \A u \in due : t <= u
    BY <1>2, <1>4, Least
  <2>2. Scheduled(l, pending) \in due /\ \A u \in due : Scheduled(l, pending) <= u
    BY <1>4, <2>1 DEF Scheduled
  <2> QED BY <1>2, <2>2
<1> QED BY <1>3, <1>4

\* Kept, of any ledger at any time, so that it can be spoken of after a step.
KeptOf(l, t) ==
  [o \in Operations |->
     IF l[o] = None \/ l[o].at + Window <= t THEN None
     ELSE IF l[o].until <= t THEN [l[o] EXCEPT !.until = 0]
     ELSE l[o]]

\* What pruning keeps of an entry.
LEMMA Pruned ==
  ASSUME NEW l \in [Operations -> Entry \cup {None}], NEW t \in Nat
  PROVE  /\ KeptOf(l, t) \in [Operations -> Entry \cup {None}]
         /\ \A o \in Operations :
              LET e == KeptOf(l, t)[o] IN
              /\ e # None <=> l[o] # None /\ l[o].at + Window > t
              /\ e # None =>
                   /\ e.at = l[o].at /\ e.caller = l[o].caller
                   /\ e.generation = l[o].generation
                   /\ e.until = IF l[o].until > t THEN l[o].until ELSE 0
<1> USE ConstantsOK
<1>1. ASSUME NEW o \in Operations
      PROVE  LET e == KeptOf(l, t)[o] IN
             /\ e \in Entry \cup {None}
             /\ e # None <=> l[o] # None /\ l[o].at + Window > t
             /\ e # None =>
                  /\ e.at = l[o].at /\ e.caller = l[o].caller
                  /\ e.generation = l[o].generation
                  /\ e.until = IF l[o].until > t THEN l[o].until ELSE 0
  <2>1. CASE l[o] = None
    BY <2>1 DEF KeptOf
  <2>2. CASE l[o] # None
    <3>1. l[o] \in Entry
      BY <2>2
    <3>2. [l[o] EXCEPT !.until = 0] \in Entry
      BY <3>1 DEF Entry
    <3> QED BY <2>2, <3>1, <3>2 DEF KeptOf, Entry
  <2> QED BY <2>1, <2>2
<1> QED BY <1>1 DEF KeptOf

\* The same of the ledger as it is.
LEMMA KeptIsPruned ==
  ASSUME TypeOK
  PROVE  /\ Kept = KeptOf(ledger, now)
         /\ Kept \in [Operations -> Entry \cup {None}]
         /\ \A o \in Operations :
              /\ Kept[o] # None <=> ledger[o] # None /\ ledger[o].at + Window > now
              /\ Kept[o] # None =>
                   /\ Kept[o].at = ledger[o].at /\ Kept[o].caller = ledger[o].caller
                   /\ Kept[o].generation = ledger[o].generation
                   /\ Kept[o].until = IF ledger[o].until > now THEN ledger[o].until ELSE 0
<1>1. Kept = KeptOf(ledger, now)
  BY DEF Kept, KeptOf
<1> QED BY <1>1, Pruned DEF TypeOK

-----------------------------------------------------------------------------
(* Counting *)

\* The limits of the kind are numbers.
LEMMA LimitsOK ==
  ASSUME TypeOK
  PROVE  /\ Policy[kind].caller \in Nat /\ Policy[kind].session \in Nat
         /\ Policy[kind].global \in Nat /\ Policy[kind].active \in Nat
BY ConstantsOK DEF TypeOK, Limits

\* The sets that are counted are finite.
LEMMA Countable ==
  ASSUME NEW S \in SUBSET Operations
  PROVE  IsFiniteSet(S) /\ Cardinality(S) \in Nat
BY ConstantsOK, FS_Subset, FS_CardinalityType

\* A subset is within every limit the set is within ...
LEMMA Within ==
  ASSUME NEW S \in SUBSET Operations, NEW T \in SUBSET S, NEW n \in Nat,
         Cardinality(S) <= n
  PROVE  Cardinality(T) <= n
<1>1. Cardinality(T) <= Cardinality(S)
  BY Countable, FS_Subset
<1>2. Cardinality(T) \in Nat /\ Cardinality(S) \in Nat
  BY Countable
<1> QED BY <1>1, <1>2

\* ... and with one element more, if there was room.
LEMMA WithOneMore ==
  ASSUME NEW S \in SUBSET Operations, NEW o \in Operations, NEW T \in SUBSET (S \cup {o}),
         NEW n \in Nat, Cardinality(S) < n
  PROVE  Cardinality(T) <= n
<1>1. Cardinality(S) \in Nat /\ IsFiniteSet(S)
  BY Countable
<1>2. Cardinality(S \cup {o}) = IF o \in S THEN Cardinality(S) ELSE Cardinality(S) + 1
  BY <1>1, FS_AddElement
<1>3. Cardinality(S \cup {o}) <= n
  BY <1>1, <1>2
<1>4. S \cup {o} \in SUBSET Operations
  OBVIOUS
<1> QED BY <1>3, <1>4, Within

\* The budgets hold of fewer charges.
LEMMA BudgetsStay ==
  ASSUME TypeOK, ChargesWithinBudgets, kind' = kind,
         \A o \in Charged(Kept') : o \in Charged(Kept) /\ Kept'[o].caller = Kept[o].caller
  PROVE  ChargesWithinBudgets'
<1>1. /\ Charged(Kept) \in SUBSET Operations
      /\ \A c : OfCaller(c) \in SUBSET Operations
      /\ \A x : OfSession(x) \in SUBSET Operations
  BY DEF Charged, OfCaller, OfSession
<1>2. /\ Charged(Kept') \in SUBSET Charged(Kept)
      /\ \A c : OfCaller(c)' \in SUBSET OfCaller(c)
      /\ \A x : OfSession(x)' \in SUBSET OfSession(x)
  BY DEF OfCaller, OfSession
<1>3. Policy[kind].global \in Nat /\ Policy[kind].caller \in Nat /\ Policy[kind].session \in Nat
  BY LimitsOK
<1> QED BY <1>1, <1>2, <1>3, Within DEF ChargesWithinBudgets

\* The active limit holds of fewer leases.
LEMMA LeasesStay ==
  ASSUME TypeOK, LeasesWithinLimit, kind' = kind,
         \A o \in Leased(ledger') : ledger'[o].until > now' =>
           o \in Leased(ledger) /\ ledger[o].until > now
  PROVE  LeasesWithinLimit'
<1>1. {o \in Leased(ledger) : ledger[o].until > now} \in SUBSET Operations
  BY DEF Leased, Charged
<1>2. Policy[kind].active \in Nat
  BY LimitsOK
<1> QED BY <1>1, <1>2, Within DEF LeasesWithinLimit

-----------------------------------------------------------------------------
(* The steps *)

\* The ledger right after a step: pruned, perhaps without one lease more.
OnlyPruned ==
  \A o \in Operations :
    /\ ledger'[o] # None <=> Kept[o] # None
    /\ Kept[o] # None =>
         /\ ledger'[o].at = Kept[o].at /\ ledger'[o].caller = Kept[o].caller
         /\ ledger'[o].generation = Kept[o].generation
         /\ ledger'[o].until \in {0, Kept[o].until}

\* The types of what a step reads.
LEMMA Types ==
  ASSUME TypeOK
  PROVE  /\ now \in Nat /\ alarm \in Nat
         /\ \A h \in Granted : h \in Holders /\ held[h] \in Grant
         /\ \A h \in Granted : held[h].op \in Operations
         /\ \A o \in Operations : ledger[o] # None => ledger[o] \in Entry
         /\ released \subseteq Granted
BY DEF TypeOK, Granted, Grant

\* An empty ledger satisfies the invariant.
LEMMA InitHolds == Init => IInv
<1> SUFFICES ASSUME Init PROVE IInv
  OBVIOUS
<1> USE ConstantsOK DEF Init
<1>1. TypeOK
  BY DEF TypeOK
<1>2. Granted = {} /\ Leased(ledger) = {} /\ Charged(Kept) = {}
  BY DEF Granted, Leased, Charged, Kept
<1>3. Cardinality({}) = 0
  BY FS_EmptySet
<1>4. /\ {o \in Leased(ledger) : ledger[o].until > now} = {}
      /\ \A c : OfCaller(c) = {}
      /\ \A x : OfSession(x) = {}
  BY <1>2 DEF OfCaller, OfSession
<1>5. LeasesWithinLimit /\ ChargesWithinBudgets
  <2>1. /\ 0 <= Policy[kind].caller /\ 0 <= Policy[kind].session
        /\ 0 <= Policy[kind].global /\ 0 <= Policy[kind].active
    BY <1>1, LimitsOK
  <2>2. LeasesWithinLimit
    BY <2>1, <1>3, <1>4 DEF LeasesWithinLimit
  <2>3. ChargesWithinBudgets
    BY <2>1, <1>2, <1>3, <1>4 DEF ChargesWithinBudgets
  <2> QED BY <2>2, <2>3
<1>6. GrantsDiffer /\ LeaseHasAlarm /\ OfferStands /\ \A h \in Granted : LeaseStands(h)
  BY <1>2 DEF GrantsDiffer, LeaseHasAlarm, OfferStands
<1>7. WorkIsBacked /\ ReleaseEndsLease
  BY <1>2 DEF WorkIsBacked, ReleaseEndsLease, Working
<1> QED BY <1>1, <1>5, <1>6, <1>7 DEF IInv

\* Pruning, and ending a lease, leaves what the ledger knows of every grant.
LEMMA PrunedStands ==
  ASSUME IInv, TypeOK', UNCHANGED <<now, kind, held>>, OnlyPruned
  PROVE  /\ (\A h \in Granted : LeaseStands(h))'
         /\ GrantsDiffer' /\ ChargesWithinBudgets' /\ LeasesWithinLimit'
<1>1. Granted' = Granted
  BY DEF Granted
<1>2. ASSUME NEW h \in Granted PROVE LeaseStands(h)'
  <2>1. LeaseStands(h)
    BY DEF IInv
  <2> QED BY <2>1, KeptIsPruned, Types, ConstantsOK DEF OnlyPruned, LeaseStands, IInv, Entry, Grant
<1>3. GrantsDiffer'
  BY <1>1 DEF GrantsDiffer, IInv
<1>4. /\ Kept' = KeptOf(ledger', now')
      /\ ledger' \in [Operations -> Entry \cup {None}] /\ now' \in Nat
  BY DEF Kept, KeptOf, TypeOK
<1>5. ChargesWithinBudgets'
  <2>1. \A o \in Charged(Kept') : o \in Charged(Kept) /\ Kept'[o].caller = Kept[o].caller
    BY <1>4, Pruned, KeptIsPruned DEF Charged, OnlyPruned, IInv
  <2> QED BY <2>1, BudgetsStay DEF IInv
<1>6. LeasesWithinLimit'
  <2>1. \A o \in Leased(ledger') : ledger'[o].until > now' =>
           o \in Leased(ledger) /\ ledger[o].until > now
    BY KeptIsPruned, Types DEF Leased, Charged, OnlyPruned, IInv, Entry
  <2> QED BY <2>1, LeasesStay DEF IInv
<1> QED BY <1>1, <1>2, <1>3, <1>5, <1>6

\* Until a request has set the alarm the one that is there serves the leases that
\* were told.
LEMMA AlarmStays ==
  ASSUME LeaseHasAlarm, phase' # "idle", UNCHANGED <<alarm, held>>,
         \A h \in Granted : Backed(h)' => Backed(h)
  PROVE  LeaseHasAlarm'
<1>1. Granted' = Granted
  BY DEF Granted
<1> QED BY <1>1 DEF LeaseHasAlarm

\* Between requests nobody is about to be answered.
LEMMA NoOffer ==
  ASSUME IInv, phase # "request"
  PROVE  offer = None
BY DEF IInv, OfferStands

\* Time passes.
LEMMA TickStep == ASSUME IInv, Tick PROVE IInv'
<1> USE DEF Tick
<1>1. /\ TypeOK /\ now \in Nat /\ now' = now + 1
      /\ UNCHANGED <<ledger, alarm, phase, offer, kind, held, released, ended>>
  BY DEF IInv, TypeOK, holders
<1>2. TypeOK'
  BY <1>1 DEF TypeOK
<1>3. Granted' = Granted
  BY <1>1 DEF Granted
<1>4. ASSUME NEW h \in Granted PROVE LeaseStands(h)'
  <2>1. LeaseStands(h)
    BY DEF IInv
  <2> QED BY <1>1, <2>1, Types, ConstantsOK DEF LeaseStands, Grant
<1>5. GrantsDiffer' /\ OfferStands'
  BY <1>1, <1>3 DEF GrantsDiffer, OfferStands, IInv
<1>6. ChargesWithinBudgets'
  <2>1. /\ Kept' = KeptOf(ledger', now')
        /\ ledger' \in [Operations -> Entry \cup {None}] /\ now' \in Nat
    BY <1>2 DEF Kept, KeptOf, TypeOK
  <2>2. \A o \in Operations :
           ledger[o] # None /\ ledger[o].at + Window > now' => ledger[o].at + Window > now
    BY <1>1, Types, ConstantsOK DEF Entry
  <2>3. \A o \in Charged(Kept') : o \in Charged(Kept) /\ Kept'[o].caller = Kept[o].caller
    BY <1>1, <2>1, <2>2, Pruned, KeptIsPruned DEF Charged
  <2> QED BY <1>1, <2>3, BudgetsStay DEF IInv
<1>7. LeasesWithinLimit'
  <2>1. \A o \in Leased(ledger') : ledger'[o].until > now' =>
           o \in Leased(ledger) /\ ledger[o].until > now
    BY <1>1, Types DEF Leased, Charged, Entry
  <2> QED BY <1>1, <2>1, LeasesStay DEF IInv
<1>8. LeaseHasAlarm'
  BY <1>1, <1>3 DEF LeaseHasAlarm, Backed, IInv
<1>9. WorkIsBacked'
  <2>1. SUFFICES ASSUME NEW h \in Working', (held[h].at + Window > now)', ~Exposed(h)'
                 PROVE  Backed(h)'
    BY <1>1, <1>3 DEF WorkIsBacked
  <2>2. h \in Granted /\ h \notin released /\ held[h].until > now' /\ ~Exposed(h)
    BY <1>1, <1>3, <2>1 DEF Working, Exposed
  <2>3. h \in Working /\ held[h].at + Window > now
    BY <1>1, <2>1, <2>2, Types, ConstantsOK DEF Working, Grant
  <2>4. Backed(h)
    BY <2>2, <2>3 DEF IInv, WorkIsBacked
  <2> QED BY <1>1, <2>4 DEF Backed
<1>10. ReleaseEndsLease'
  BY <1>1, Types DEF ReleaseEndsLease, Backed, IInv, Grant
<1> QED BY <1>2, <1>3, <1>4, <1>5, <1>6, <1>7, <1>8, <1>9, <1>10 DEF IInv

\* A runner job that ends exposes leases and touches none.
LEMMA JobEndsStep == ASSUME IInv, NEW o \in Operations, JobEnds(o) PROVE IInv'
<1>1. /\ UNCHANGED <<ledger, alarm, phase, offer, now, kind, held, released>>
      /\ ended' = ended \cup {o}
  BY DEF JobEnds
<1>2. Granted' = Granted /\ Working' = Working /\ Kept' = Kept
  BY <1>1 DEF Granted, Working, Kept
<1>3. TypeOK' /\ LeasesWithinLimit' /\ LeaseHasAlarm' /\ ReleaseEndsLease' /\ GrantsDiffer'
  BY <1>1, <1>2 DEF IInv, TypeOK, LeasesWithinLimit, LeaseHasAlarm, ReleaseEndsLease, Backed,
                    GrantsDiffer
<1>4. ChargesWithinBudgets' /\ OfferStands' /\ (\A h \in Granted : LeaseStands(h))'
  BY <1>1, <1>2 DEF IInv, ChargesWithinBudgets, OfCaller, OfSession, OfferStands, LeaseStands
<1>5. WorkIsBacked'
  BY <1>1, <1>2 DEF IInv, WorkIsBacked, Backed, Exposed
<1> QED BY <1>3, <1>4, <1>5 DEF IInv

\* A step that only prunes leaves every holder what it had.
LEMMA PruneStep ==
  ASSUME IInv, ledger' = Kept, phase \in {"idle", "lost"}, phase' \in {"request", "alarm"},
         UNCHANGED <<alarm, offer, now, kind, held, released, ended>>
  PROVE  IInv'
<1>1. TypeOK'
  BY KeptIsPruned DEF IInv, TypeOK
<1>2. OnlyPruned
  BY DEF OnlyPruned
<1>3. Granted' = Granted /\ Working' = Working
  BY DEF Granted, Working
<1>4. WorkIsBacked'
  <2>1. SUFFICES ASSUME NEW h \in Working, held[h].at + Window > now, ~Exposed(h)
                 PROVE  Backed(h)'
    BY <1>3 DEF WorkIsBacked, Exposed
  <2>2. Backed(h) /\ LeaseStands(h) /\ h \in Granted /\ held[h].until > now
    BY <2>1 DEF IInv, WorkIsBacked, Working
  <2> QED BY <2>1, <2>2, KeptIsPruned, Types DEF Backed, LeaseStands, IInv, Grant, Entry
<1>5. \A h \in Granted : Backed(h)' => Backed(h)
  BY KeptIsPruned, Types DEF Backed, IInv, Entry
<1>6. ReleaseEndsLease' /\ LeaseHasAlarm'
  BY <1>5, AlarmStays, Types DEF IInv, ReleaseEndsLease
<1>7. OfferStands'
  BY NoOffer DEF OfferStands
<1> QED BY <1>1, <1>2, <1>4, <1>6, <1>7, PrunedStands DEF IInv

\* A request that is refused, and the alarm, only prune.
LEMMA RefuseStep ==
  ASSUME IInv, NEW h \in Holders, NEW o \in Operations, NEW c \in Callers, Refuse(h, o, c)
  PROVE  IInv'
BY PruneStep DEF Refuse, Save, holders

LEMMA AlarmStep == ASSUME IInv, Alarm PROVE IInv'
BY PruneStep DEF Alarm, holders

\* A release ends the lease of its generation.  It leaves the leases of holders
\* that are still at work, if none that is not exposed has that generation.
LEMMA EndStep ==
  ASSUME IInv, NEW o \in Operations, NEW n \in Nat, Save(Ended(o, n)),
         UNCHANGED <<offer, held, ended>>,
         released \subseteq released', released' \subseteq Granted,
         \A g \in Granted \ released' :
           Backed(g) /\ ~Exposed(g) /\ held[g].op = o => held[g].generation # n,
         \A g \in released' \ released :
           kind = "upload" => held[g].op = o /\ held[g].generation = n
  PROVE  IInv'
<1> DEFINE ends == o \in Leased(Kept) /\ Kept[o].generation = n
           l == IF ends THEN [Kept EXCEPT ![o] = [@ EXCEPT !.until = 0]] ELSE Kept
<1>1. /\ TypeOK /\ Kept \in [Operations -> Entry \cup {None}]
      /\ phase \in {"idle", "lost"} /\ phase' = "request"
      /\ UNCHANGED <<alarm, now, kind>>
  BY KeptIsPruned DEF IInv, Save
<1>2. ledger' = l
  BY DEF Save, Ended
<1>3. l \in [Operations -> Entry \cup {None}]
  <2>1. CASE ends
    <3>1. Kept[o] \in Entry
      BY <1>1, <2>1 DEF Leased, Charged
    <3>2. [Kept[o] EXCEPT !.until = 0] \in Entry
      BY <3>1 DEF Entry
    <3>3. l = [Kept EXCEPT ![o] = [Kept[o] EXCEPT !.until = 0]]
      BY <2>1
    <3> QED BY <1>1, <3>2, <3>3
  <2>2. CASE ~ends
    BY <1>1, <2>2
  <2> QED BY <2>1, <2>2
<1>4. TypeOK'
  BY <1>1, <1>2, <1>3 DEF TypeOK, Granted
<1>5. /\ \A x \in Operations : x # o \/ ~ends => ledger'[x] = Kept[x]
      /\ ends => /\ ledger'[o] # None /\ Kept[o] # None
                 /\ ledger'[o].until = 0
                 /\ ledger'[o].at = Kept[o].at /\ ledger'[o].caller = Kept[o].caller
                 /\ ledger'[o].generation = Kept[o].generation
  <2>1. CASE ends
    <3>1. Kept[o] \in Entry /\ Kept[o] # None
      BY <1>1, <2>1 DEF Leased, Charged
    <3>2. ledger' = [Kept EXCEPT ![o] = [Kept[o] EXCEPT !.until = 0]]
      BY <1>2, <2>1
    <3>3. ledger'[o] = [Kept[o] EXCEPT !.until = 0] /\ ledger'[o] \in Entry
      BY <1>1, <3>1, <3>2 DEF Entry
    <3>4. None \notin Entry
      BY ConstantsOK
    <3> QED BY <1>1, <2>1, <3>1, <3>2, <3>3, <3>4 DEF Entry
  <2>2. CASE ~ends
    BY <1>2, <2>2
  <2> QED BY <2>1, <2>2
<1>6. OnlyPruned
  BY <1>5 DEF OnlyPruned
<1>7. Granted' = Granted
  BY DEF Granted
<1>8. ends => Kept[o] # None /\ Kept[o].generation = n
  BY DEF Leased, Charged
<1> HIDE DEF l, ends
<1>9. \A g \in Granted :
         Backed(g)' => Backed(g) /\ ~(ends /\ held[g].op = o)
  BY <1>1, <1>5, KeptIsPruned, Types DEF Backed, Entry
<1>10. WorkIsBacked'
  <2>1. SUFFICES ASSUME NEW g \in Working', held[g].at + Window > now, ~Exposed(g)'
                 PROVE  Backed(g)'
    BY <1>1, <1>7 DEF WorkIsBacked
  <2>2. /\ g \in Working /\ g \in Granted \ released' /\ held[g].until > now
        /\ ~Exposed(g)
    BY <1>1, <1>7, <2>1 DEF Working, Exposed
  <2>3. Backed(g) /\ LeaseStands(g)
    BY <2>1, <2>2 DEF IInv, WorkIsBacked
  <2>4. ~(ends /\ held[g].op = o)
    BY <1>1, <1>8, <2>2, <2>3, KeptIsPruned DEF Backed
  <2>5. held[g].op \in Operations /\ ledger'[held[g].op] = Kept[held[g].op]
    BY <1>1, <1>5, <2>2, <2>4, Types
  <2> QED BY <1>1, <2>1, <2>2, <2>3, <2>5, KeptIsPruned, Types
          DEF Backed, LeaseStands, Grant, Entry
<1>11. ReleaseEndsLease'
  <2>1. SUFFICES ASSUME kind = "upload", NEW g \in released', Backed(g)'
                 PROVE  held[g].until <= now
    BY <1>1 DEF ReleaseEndsLease
  <2>2. g \in Granted /\ Backed(g) /\ ~(ends /\ held[g].op = o)
    BY <1>9, <2>1
  <2>3. g \in released
    <3>1. SUFFICES ASSUME g \notin released PROVE FALSE
      OBVIOUS
    <3>2. held[g].op = o /\ held[g].generation = n
      BY <2>1, <3>1
    <3>3. Kept[o] # None /\ Kept[o].until # 0 /\ Kept[o].generation = n
      BY <1>1, <1>5, <2>1, <2>2, <3>2 DEF Backed
    <3> QED BY <2>2, <3>2, <3>3 DEF ends, Leased, Charged
  <2> QED BY <2>1, <2>2, <2>3 DEF IInv, ReleaseEndsLease
<1>12. LeaseHasAlarm'
  BY <1>1, <1>9, AlarmStays DEF IInv
<1>13. OfferStands'
  BY <1>1, NoOffer DEF OfferStands
<1> QED BY <1>1, <1>4, <1>6, <1>10, <1>11, <1>12, <1>13, PrunedStands DEF IInv

\* No other holder at work has the generation a holder's own release names.
LEMMA ReleaseStep ==
  ASSUME IInv, NEW h \in Holders, Release(h)
  PROVE  IInv'
<1>1. /\ TypeOK /\ h \in Granted /\ held[h].op \in Operations /\ released \subseteq Granted
      /\ held[h].generation \in Nat \ {0} /\ LeaseStands(h)
  BY Types DEF IInv, Release, Granted, Grant
<1>2. /\ Save(Ended(held[h].op, Token(h))) /\ released' = released \cup {h}
      /\ UNCHANGED <<offer, held, ended>>
  BY DEF Release
<1>3. Token(h) \in Nat
  BY <1>1 DEF Token
<1>4. ASSUME NEW g \in Granted \ released', Backed(g), ~Exposed(g), held[g].op = held[h].op,
             held[g].generation = Token(h)
      PROVE  FALSE
  <2>1. g # h /\ held[g].at = held[h].at
    BY <1>1, <1>2, <1>4 DEF Exposed
  <2>2. held[g].generation # held[h].generation
    BY <1>1, <1>4, <2>1 DEF IInv, GrantsDiffer
  <2>3. held[g].generation = 1
    BY <1>4, <2>2 DEF Token
  <2>4. held[h].generation <= held[g].generation
    BY <1>1, <1>4, <2>1 DEF LeaseStands, Backed
  <2> QED BY <1>1, <2>2, <2>3, <2>4
<1>5. \A g \in released' \ released :
        kind = "upload" => held[g].op = held[h].op /\ held[g].generation = Token(h)
  BY <1>2 DEF Token
<1> QED BY <1>1, <1>2, <1>3, <1>4, <1>5, EndStep

\* The releases for ended jobs name the first generation, whose holders they expose.
LEMMA ReleaseEndedStep ==
  ASSUME IInv, NEW o \in Operations, ReleaseEnded(o)
  PROVE  IInv'
<1>1. /\ Save(Ended(o, 1)) /\ UNCHANGED <<offer, held, released, ended>> /\ o \in ended
      /\ released \subseteq Granted /\ 1 \in Nat
  BY Types DEF IInv, ReleaseEnded, holders
<1>2. \A g \in Granted \ released' :
        Backed(g) /\ ~Exposed(g) /\ held[g].op = o => held[g].generation # 1
  BY <1>1 DEF Exposed
<1> QED BY <1>1, <1>2, EndStep

\* The second write gives every lease on record its alarm, and whoever is told of
\* a lease is told of the one on record.
LEMMA AnswerStep == ASSUME IInv, Answer PROVE IInv'
<1>1. /\ UNCHANGED <<ledger, now, kind, released, ended>> /\ offer' = None
      /\ phase' = "idle" /\ TypeOK /\ None \notin Grant
  BY ConstantsOK DEF Answer, IInv
<1>2. Kept' = Kept
  BY <1>1 DEF Kept
<1>3. /\ alarm' \in Nat
      /\ \A o \in Leased(ledger) : alarm' # 0 /\ alarm' <= ledger[o].until
  <2>1. CASE phase = "alarm"
    <3>1. alarm' = Scheduled(ledger, 0) /\ 0 \in Nat
      BY <2>1 DEF Answer
    <3> QED BY <1>1, <3>1, AlarmIsSet DEF TypeOK
  <2>2. CASE phase # "alarm"
    <3>1. alarm' = Scheduled(ledger, alarm) /\ alarm \in Nat
      BY <1>1, <2>2 DEF Answer, TypeOK
    <3> QED BY <1>1, <3>1, AlarmIsSet DEF TypeOK
  <2> QED BY <2>1, <2>2
<1>4. ASSUME (\A h \in Granted : LeaseStands(h))', GrantsDiffer', TypeOK', WorkIsBacked',
             ReleaseEndsLease'
      PROVE  IInv'
  <2>1. LeaseHasAlarm'
    <3>1. ASSUME NEW h \in Granted', Backed(h)'
          PROVE  alarm' # 0 /\ alarm' <= held'[h].until
      <4>1. held'[h] \in Grant /\ held'[h].op \in Operations
        BY <1>4 DEF TypeOK, Granted, Grant
      <4>2. ledger[held'[h].op].until = held'[h].until /\ held'[h].op \in Leased(ledger)
        BY <1>1, <1>4, <3>1, <4>1 DEF Backed, LeaseStands, Leased, Charged, Grant
      <4> QED BY <1>3, <4>2
    <3> QED BY <1>1, <1>3, <3>1 DEF LeaseHasAlarm
  <2>2. ChargesWithinBudgets' /\ LeasesWithinLimit' /\ OfferStands'
    BY <1>1, <1>2 DEF IInv, ChargesWithinBudgets, OfCaller, OfSession, LeasesWithinLimit,
                      OfferStands
  <2> QED BY <1>4, <2>1, <2>2 DEF IInv
<1>5. CASE offer = None
  <2>1. UNCHANGED <<ledger, now, kind, held, released, ended>>
    BY <1>1, <1>5 DEF Answer
  <2>2. Granted' = Granted /\ Working' = Working
    BY <2>1 DEF Granted, Working
  <2>3. TypeOK'
    BY <1>1, <1>3, <2>1 DEF TypeOK
  <2>4. (\A h \in Granted : LeaseStands(h))' /\ GrantsDiffer' /\ WorkIsBacked' /\ ReleaseEndsLease'
    BY <2>1, <2>2 DEF IInv, LeaseStands, GrantsDiffer, WorkIsBacked, ReleaseEndsLease, Backed,
                      Exposed
  <2> QED BY <1>4, <2>3, <2>4
<1>6. CASE offer # None
  <2> DEFINE h == offer.to
             grant == offer.grant
  <2>1. /\ h \in Holders /\ grant \in Grant /\ grant # None /\ h \notin Granted
        /\ held' = [held EXCEPT ![h] = grant]
        /\ ledger[grant.op] # None
        /\ ledger[grant.op].caller = grant.caller /\ ledger[grant.op].at = grant.at
        /\ ledger[grant.op].until = grant.until
        /\ ledger[grant.op].generation = grant.generation
        /\ \A g \in Granted : held[g].op = grant.op /\ held[g].at = grant.at =>
             held[g].generation < grant.generation
    BY <1>1, <1>6 DEF Answer, IInv, OfferStands, TypeOK, Granted
  <2> HIDE DEF h, grant
  <2>2. /\ Granted' = Granted \cup {h} /\ held'[h] = grant
        /\ \A g \in Granted : g # h /\ held'[g] = held[g]
    BY <1>1, <2>1 DEF Granted, TypeOK
  <2>3. TypeOK'
    BY <1>1, <1>3, <2>1 DEF TypeOK
  <2>4. ASSUME NEW g \in Granted' PROVE LeaseStands(g)'
    <3>1. CASE g = h
      <4>1. grant.generation <= grant.generation
        BY <2>1 DEF Grant
      <4> QED BY <1>1, <2>1, <2>2, <3>1, <4>1 DEF LeaseStands
    <3>2. CASE g # h
      BY <1>1, <2>2, <3>2 DEF IInv, LeaseStands
    <3> QED BY <3>1, <3>2
  <2>5. GrantsDiffer'
    <3>1. SUFFICES ASSUME NEW g \in Granted', NEW k \in Granted', (held[g].op = held[k].op)',
                          (held[g].at = held[k].at)', (held[g].generation = held[k].generation)'
                   PROVE  g = k
      BY DEF GrantsDiffer
    <3>2. \A x \in Granted : held[x].op = grant.op /\ held[x].at = grant.at =>
            held[x].generation # grant.generation
      BY <1>1, <2>1, Types DEF Grant
    <3> QED BY <2>2, <3>1, <3>2 DEF IInv, GrantsDiffer
  <2>6. WorkIsBacked'
    <3>1. SUFFICES ASSUME NEW g \in Working', (held[g].at + Window > now)', ~Exposed(g)'
                   PROVE  Backed(g)'
      BY DEF WorkIsBacked
    <3>2. CASE g = h
      BY <1>1, <2>1, <2>2, <3>1, <3>2 DEF Backed, Working, Grant, TypeOK
    <3>3. CASE g # h
      <4>1. g \in Working /\ held'[g] = held[g] /\ ~Exposed(g)
        BY <1>1, <2>2, <3>1, <3>3 DEF Working, Exposed
      <4> QED BY <1>1, <3>1, <4>1 DEF IInv, WorkIsBacked, Backed
    <3> QED BY <3>2, <3>3
  <2>7. ReleaseEndsLease'
    BY <1>1, <2>2, Types DEF IInv, ReleaseEndsLease, Backed
  <2> QED BY <1>4, <2>3, <2>4, <2>5, <2>6, <2>7
<1> QED BY <1>5, <1>6

\* An object that dies has told nobody, and left the alarm as it was.
LEMMA DieStep == ASSUME IInv, Die PROVE IInv'
<1>1. /\ UNCHANGED <<ledger, alarm, now, kind, held, released, ended>>
      /\ phase' = "lost" /\ offer' = None
  BY DEF Die, holders
<1>2. Granted' = Granted /\ Working' = Working /\ Kept' = Kept
  BY <1>1 DEF Granted, Working, Kept
<1>3. TypeOK' /\ LeasesWithinLimit' /\ LeaseHasAlarm' /\ ReleaseEndsLease' /\ GrantsDiffer'
  BY <1>1, <1>2 DEF IInv, TypeOK, LeasesWithinLimit, LeaseHasAlarm, ReleaseEndsLease, Backed,
                    GrantsDiffer
<1>4. ChargesWithinBudgets' /\ OfferStands' /\ (\A h \in Granted : LeaseStands(h))'
  BY <1>1, <1>2 DEF IInv, ChargesWithinBudgets, OfCaller, OfSession, OfferStands, LeaseStands
<1>5. WorkIsBacked'
  BY <1>1, <1>2 DEF IInv, WorkIsBacked, Backed, Exposed
<1> QED BY <1>3, <1>4, <1>5 DEF IInv

\* A lease of an operation that has none: of a new charge, or of the charge that
\* all its holders of the window stand on, and of a generation they do not have.
LEMMA LeaseStep ==
  ASSUME IInv, NEW h \in Holders, NEW o \in Operations, NEW e \in Entry,
         Waiting(h), NotBusy, Save([Kept EXCEPT ![o] = e]), Offer(h, o),
         e.until = now + LeaseTTL,
         Kept[o] # None => Kept[o].until = 0,
         \A g \in Granted : held[g].op = o /\ held[g].at = e.at =>
           held[g].generation < e.generation,
         \A g \in Granted : held[g].op = o /\ held[g].at + Window > now =>
           e.at = held[g].at /\ e.caller = held[g].caller,
         ChargesWithinBudgets'
  PROVE  IInv'
<1> DEFINE grant == [op |-> o, caller |-> e.caller, at |-> e.at, until |-> e.until,
                     generation |-> e.generation]
<1>1. /\ TypeOK /\ held[h] = None /\ e # None /\ None \notin Grant
      /\ Kept \in [Operations -> Entry \cup {None}]
  BY KeptIsPruned, ConstantsOK DEF IInv, Waiting
<1>2. [Kept EXCEPT ![o] = e] \in [Operations -> Entry \cup {None}]
  BY <1>1
<1>3. /\ ledger' = [Kept EXCEPT ![o] = e] /\ UNCHANGED <<alarm, now, kind>>
      /\ phase' = "request" /\ UNCHANGED <<held, released, ended>>
  BY DEF Save, Offer, holders
<1>4. ledger'[o] = e /\ \A x \in Operations : x # o => ledger'[x] = Kept[x]
  BY <1>1, <1>3
<1>5. offer' = [to |-> h, grant |-> grant]
  BY <1>4 DEF Offer
<1>6. grant \in Grant
  BY DEF Grant, Entry
<1>7. /\ grant.op = o /\ grant.caller = e.caller /\ grant.at = e.at
      /\ grant.until = e.until /\ grant.generation = e.generation
  OBVIOUS
<1> HIDE DEF grant
<1>8. TypeOK'
  BY <1>1, <1>2, <1>3, <1>5, <1>6 DEF TypeOK
<1>9. Granted' = Granted
  BY <1>3 DEF Granted
<1>10. now \in Nat /\ LeaseTTL \in Nat \ {0} /\ Window \in Nat \ {0} /\ e.until \in Nat \ {0}
  BY <1>1, ConstantsOK DEF TypeOK
<1>11. OfferStands'
  BY <1>1, <1>3, <1>4, <1>5, <1>7, <1>9 DEF OfferStands
<1>12. ASSUME NEW g \in Granted PROVE LeaseStands(g)'
  <2>1. g \in Granted /\ LeaseStands(g) /\ held[g].op \in Operations
    BY <1>1, <1>12, Types DEF IInv
  <2>2. CASE held[g].op = o
    BY <1>1, <1>3, <1>4, <1>10, <2>1, <2>2, Types DEF LeaseStands, Grant, Entry
  <2>3. CASE held[g].op # o
    <3>1. ledger'[held[g].op] = Kept[held[g].op]
      BY <1>4, <2>1, <2>3
    <3> QED BY <1>1, <1>3, <1>10, <2>1, <3>1, KeptIsPruned, Types
            DEF LeaseStands, Grant, Entry
  <2> QED BY <2>2, <2>3
<1>13. GrantsDiffer'
  BY <1>3, <1>9 DEF IInv, GrantsDiffer
<1>14. LeasesWithinLimit'
  <2>1. {x \in Leased(ledger') : ledger'[x].until > now'} \in SUBSET (Leased(Kept) \cup {o})
    BY <1>4 DEF Leased, Charged
  <2>2. Leased(Kept) \in SUBSET Operations /\ Policy[kind].active \in Nat
    BY <1>1, LimitsOK DEF Leased, Charged
  <2> QED BY <1>3, <2>1, <2>2, WithOneMore DEF LeasesWithinLimit, NotBusy
<1>15. WorkIsBacked'
  <2>1. SUFFICES ASSUME NEW g \in Working, held[g].at + Window > now, ~Exposed(g)
                 PROVE  Backed(g)'
    BY <1>3, <1>9 DEF WorkIsBacked, Working, Exposed
  <2>2. g \in Granted /\ held[g].op \in Operations /\ held[g].until > now
    BY <1>1, <2>1, Types DEF Working
  <2>3. Backed(g) /\ LeaseStands(g)
    BY <2>1, <2>2 DEF IInv, WorkIsBacked
  <2>4. Kept[held[g].op] # None /\ Kept[held[g].op].until = held[g].until
    BY <1>1, <1>10, <2>1, <2>2, <2>3, KeptIsPruned, Types DEF Backed, LeaseStands, Grant, Entry
  <2>5. held[g].op # o
    BY <1>1, <1>10, <2>2, <2>4, Types DEF Grant
  <2>6. ledger'[held[g].op] = Kept[held[g].op]
    BY <1>4, <2>2, <2>5
  <2> QED BY <1>1, <1>3, <1>10, <2>2, <2>3, <2>4, <2>6, KeptIsPruned, Types DEF Backed, Grant
<1>16. \A g \in Granted : Backed(g)' => Backed(g)
  <2>1. SUFFICES ASSUME NEW g \in Granted, Backed(g)' PROVE Backed(g)
    OBVIOUS
  <2>2. held[g].op \in Operations /\ held[g].generation \in Nat /\ e.generation \in Nat
    BY <1>1, Types DEF Grant, Entry
  <2>3. held[g].op # o
    BY <1>3, <1>4, <2>1, <2>2 DEF Backed
  <2> QED BY <1>1, <1>3, <1>4, <2>1, <2>2, <2>3, KeptIsPruned, Types DEF Backed, Entry
<1>17. LeaseHasAlarm' /\ ReleaseEndsLease'
  BY <1>1, <1>3, <1>16, AlarmStays, Types DEF IInv, ReleaseEndsLease
<1> QED BY <1>8, <1>9, <1>11, <1>12, <1>13, <1>14, <1>15, <1>17 DEF IInv

\* A new charge is one more of its caller and of its session, for which there
\* was room.
LEMMA AcquireStep ==
  ASSUME IInv, NEW h \in Holders, NEW o \in Operations, NEW c \in Callers, Acquire(h, o, c)
  PROVE  IInv'
<1> DEFINE e == [caller |-> c, at |-> now, until |-> now + LeaseTTL, generation |-> 1]
           l == [Kept EXCEPT ![o] = e]
<1>1. /\ TypeOK /\ Kept \in [Operations -> Entry \cup {None}] /\ now \in Nat
      /\ LeaseTTL \in Nat \ {0} /\ Window \in Nat \ {0} /\ None \notin Entry
  BY KeptIsPruned, ConstantsOK DEF IInv, TypeOK
<1>2. /\ e \in Entry /\ e # None
      /\ e.caller = c /\ e.at = now /\ e.until = now + LeaseTTL /\ e.generation = 1
  BY <1>1 DEF Entry
<1>3. Waiting(h) /\ Kept[o] = None /\ WithinBudgets(o, c) /\ NotBusy /\ Save(l) /\ Offer(h, o)
  BY DEF Acquire, MayAcquire
<1> HIDE DEF e
<1>4. \A g \in Granted : held[g].op = o => ~(held[g].at + Window > now)
  BY <1>1, <1>3, KeptIsPruned DEF IInv, LeaseStands
<1>5. \A g \in Granted : held[g].op = o => held[g].at # now
  BY <1>1, <1>4
<1>6. ChargesWithinBudgets'
  <2>1. /\ l \in [Operations -> Entry \cup {None}] /\ ledger' = l /\ now' = now
        /\ Kept' = KeptOf(l, now)
    <3>1. l \in [Operations -> Entry \cup {None}]
      BY <1>1, <1>2
    <3>2. ledger' = l /\ now' = now
      BY <1>3 DEF Save
    <3>3. Kept' = KeptOf(ledger', now')
      BY DEF Kept, KeptOf
    <3> QED BY <3>1, <3>2, <3>3
  <2>2. /\ l[o] = e /\ \A x \in Operations : x # o => l[x] = Kept[x]
    BY <1>1
  <2> HIDE DEF l
  <2>3. Charged(Kept') \in SUBSET (Charged(Kept) \cup {o})
    <3>1. \A x \in Operations : KeptOf(l, now)[x] # None => l[x] # None
      BY <1>1, <2>1, Pruned
    <3> QED BY <2>1, <2>2, <3>1 DEF Charged
  <2>4. /\ \A x \in Charged(Kept') : x # o => Kept'[x].caller = Kept[x].caller
        /\ o \in Charged(Kept') => Kept'[o].caller = c
    <3>1. \A x \in Operations : KeptOf(l, now)[x] # None => KeptOf(l, now)[x].caller = l[x].caller
      BY <1>1, <2>1, Pruned
    <3> QED BY <1>2, <2>1, <2>2, <3>1 DEF Charged
  <2>5. Charged(Kept) \in SUBSET Operations
    BY DEF Charged
  <2>6. /\ Policy[kind].global \in Nat /\ Policy[kind].caller \in Nat
        /\ Policy[kind].session \in Nat /\ kind' = kind
    BY <1>1, <1>3, LimitsOK DEF Save
  <2>7. Cardinality(Charged(Kept')) <= Policy[kind].global
    BY <1>3, <2>3, <2>5, <2>6, WithOneMore DEF WithinBudgets
  <2>8. ASSUME NEW d \in Callers PROVE Cardinality(OfCaller(d)') <= Policy[kind].caller
    <3>1. OfCaller(d) \in SUBSET Operations
      BY <2>5 DEF OfCaller
    <3>2. CASE d = c
      <4>1. OfCaller(d)' \in SUBSET (OfCaller(d) \cup {o})
        BY <2>3, <2>4 DEF OfCaller
      <4>2. Cardinality(OfCaller(d)) < Policy[kind].caller
        BY <1>3, <3>2 DEF WithinBudgets, OfCaller
      <4> QED BY <2>6, <3>1, <4>1, <4>2, WithOneMore
    <3>3. CASE d # c
      <4>1. OfCaller(d)' \in SUBSET OfCaller(d)
        BY <2>3, <2>4, <3>3 DEF OfCaller
      <4>2. Cardinality(OfCaller(d)) <= Policy[kind].caller
        BY DEF IInv, ChargesWithinBudgets
      <4> QED BY <2>6, <3>1, <4>1, <4>2, Within
    <3> QED BY <3>2, <3>3
  <2>9. ASSUME NEW x \in Operations PROVE Cardinality(OfSession(x)') <= Policy[kind].session
    <3>1. OfSession(x) \in SUBSET Operations
      BY <2>5 DEF OfSession
    <3>2. CASE SessionOf[x] = SessionOf[o]
      <4>1. OfSession(x)' \in SUBSET (OfSession(x) \cup {o})
        BY <2>3 DEF OfSession
      <4>2. OfSession(x) = {y \in Charged(Kept) : SessionOf[y] = SessionOf[o]}
        BY <3>2 DEF OfSession
      <4>3. Cardinality(OfSession(x)) < Policy[kind].session
        BY <1>3, <4>2 DEF WithinBudgets
      <4> QED BY <2>6, <3>1, <4>1, <4>3, WithOneMore
    <3>3. CASE SessionOf[x] # SessionOf[o]
      <4>1. OfSession(x)' \in SUBSET OfSession(x)
        BY <2>3, <3>3 DEF OfSession
      <4>2. Cardinality(OfSession(x)) <= Policy[kind].session
        BY DEF IInv, ChargesWithinBudgets
      <4> QED BY <2>6, <3>1, <4>1, <4>2, Within
    <3> QED BY <3>2, <3>3
  <2> QED BY <2>6, <2>7, <2>8, <2>9 DEF ChargesWithinBudgets
<1> QED BY <1>2, <1>3, <1>4, <1>5, <1>6, LeaseStep

\* A lease that is had again is of the same charge and of the next generation.
LEMMA ReacquireStep ==
  ASSUME IInv, NEW h \in Holders, NEW o \in Operations, NEW c \in Callers, Reacquire(h, o, c)
  PROVE  IInv'
<1> DEFINE e == Renewed(Kept[o])
           l == [Kept EXCEPT ![o] = e]
<1>1. /\ TypeOK /\ Kept \in [Operations -> Entry \cup {None}] /\ now \in Nat
      /\ LeaseTTL \in Nat \ {0} /\ Window \in Nat \ {0} /\ None \notin Entry
  BY KeptIsPruned, ConstantsOK DEF IInv, TypeOK
<1>2. /\ Kept[o] # None /\ Kept[o].until = 0 /\ NotBusy /\ Waiting(h) /\ Offer(h, o)
  BY DEF Reacquire, MayReacquire
<1>3. Kept[o] \in Entry
  BY <1>1, <1>2
<1>4. /\ e \in Entry /\ e # None /\ e.caller = Kept[o].caller /\ e.at = Kept[o].at
      /\ e.until = now + LeaseTTL /\ e.generation = Kept[o].generation + 1
  <2>1. e = [caller |-> Kept[o].caller, at |-> Kept[o].at, until |-> now + LeaseTTL,
             generation |-> Kept[o].generation + 1]
    BY DEF Renewed
  <2> HIDE DEF e
  <2> QED BY <1>1, <1>3, <2>1 DEF Entry
<1>5. Save(l) /\ l = [Kept EXCEPT ![o] = e]
  BY DEF Reacquire
<1> HIDE DEF e, l
<1>6. ASSUME NEW g \in Granted, held[g].op = o, held[g].at = e.at
      PROVE  held[g].generation < e.generation
  <2>1. LeaseStands(g)
    BY DEF IInv
  <2> QED BY <1>1, <1>2, <1>3, <1>4, <1>6, <2>1, KeptIsPruned, Types DEF LeaseStands, Grant, Entry
<1>7. ASSUME NEW g \in Granted, held[g].op = o, held[g].at + Window > now
      PROVE  e.at = held[g].at /\ e.caller = held[g].caller
  <2>1. LeaseStands(g)
    BY DEF IInv
  <2> QED BY <1>1, <1>2, <1>4, <1>7, <2>1, KeptIsPruned DEF LeaseStands
<1>8. ChargesWithinBudgets'
  <2>1. /\ l \in [Operations -> Entry \cup {None}] /\ ledger' = l /\ now' = now
        /\ Kept' = KeptOf(l, now)
    <3>1. l \in [Operations -> Entry \cup {None}]
      BY <1>1, <1>4, <1>5
    <3>2. ledger' = l /\ now' = now
      BY <1>5 DEF Save
    <3>3. Kept' = KeptOf(ledger', now')
      BY DEF Kept, KeptOf
    <3> QED BY <3>1, <3>2, <3>3
  <2>2. /\ l[o] = e /\ \A x \in Operations : x # o => l[x] = Kept[x]
    BY <1>1, <1>5
  <2>3. \A x \in Charged(Kept') : x \in Charged(Kept) /\ Kept'[x].caller = Kept[x].caller
    <3>1. \A x \in Operations :
            KeptOf(l, now)[x] # None => l[x] # None /\ KeptOf(l, now)[x].caller = l[x].caller
      BY <1>1, <2>1, Pruned
    <3> QED BY <1>2, <1>4, <2>1, <2>2, <3>1 DEF Charged
  <2> QED BY <1>1, <1>5, <2>3, BudgetsStay DEF IInv, Save
<1> QED BY <1>2, <1>4, <1>5, <1>6, <1>7, <1>8, LeaseStep

\* Every step preserves the invariant.
LEMMA NextStep == IInv /\ [Next]_vars => IInv'
<1> SUFFICES ASSUME IInv, [Next]_vars PROVE IInv'
  OBVIOUS
<1>1. CASE Tick
  BY <1>1, TickStep
<1>2. CASE Alarm
  BY <1>2, AlarmStep
<1>3. ASSUME NEW h \in Holders, Release(h) PROVE IInv'
  BY <1>3, ReleaseStep
<1>6. ASSUME NEW o \in Operations, JobEnds(o) \/ ReleaseEnded(o) PROVE IInv'
  BY <1>6, JobEndsStep, ReleaseEndedStep
<1>7. CASE Answer
  BY <1>7, AnswerStep
<1>8. CASE Die
  BY <1>8, DieStep
<1>4. ASSUME NEW h \in Holders, NEW o \in Operations, NEW c \in Callers,
             Acquire(h, o, c) \/ Reacquire(h, o, c) \/ Refuse(h, o, c)
      PROVE  IInv'
  BY <1>4, AcquireStep, ReacquireStep, RefuseStep
<1>5. CASE UNCHANGED vars
  <2>1. /\ UNCHANGED <<ledger, alarm, phase, offer, now, kind, held, released, ended>>
        /\ Kept' = Kept
    BY <1>5 DEF vars, Kept
  <2>2. Granted' = Granted /\ Working' = Working
    BY <2>1 DEF Granted, Working
  <2>3. TypeOK' /\ LeasesWithinLimit' /\ LeaseHasAlarm' /\ ReleaseEndsLease' /\ GrantsDiffer'
    BY <2>1, <2>2 DEF IInv, TypeOK, LeasesWithinLimit, LeaseHasAlarm, ReleaseEndsLease, Backed,
                      GrantsDiffer
  <2>4. ChargesWithinBudgets' /\ OfferStands'
    BY <2>1, <2>2 DEF IInv, ChargesWithinBudgets, OfCaller, OfSession, OfferStands
  <2>5. (\A h \in Granted : LeaseStands(h))' /\ WorkIsBacked'
    BY <2>1, <2>2 DEF IInv, LeaseStands, WorkIsBacked, Backed, Exposed
  <2> QED BY <2>3, <2>4, <2>5 DEF IInv
<1> QED BY <1>1, <1>2, <1>3, <1>4, <1>5, <1>6, <1>7, <1>8 DEF Next

-----------------------------------------------------------------------------
(* What is promised *)

\* The inductive invariant holds in every reachable state.
THEOREM Invariance == Spec => []IInv
<1>1. Init => IInv
  BY InitHolds
<1>2. IInv /\ [Next]_vars => IInv'
  BY NextStep
<1> QED BY <1>1, <1>2, PTL DEF Spec

\* The variables have their types, for any operations, callers and holders.
THEOREM TypeCorrect == Spec => []TypeOK
<1>1. IInv => TypeOK
  BY DEF IInv
<1> QED BY <1>1, Invariance, PTL

\* The ledger never has more live leases on record than the active limit, however
\* they were acquired (admission-control.ts, evaluateAdmissionRequest).
THEOREM LimitCorrect == Spec => []LeasesWithinLimit
<1>1. IInv => LeasesWithinLimit
  BY DEF IInv
<1> QED BY <1>1, Invariance, PTL

\* A lease anyone was told of has an alarm no later than its end, wherever a
\* request dies between the transaction and setAlarm; and once a request has set
\* the alarm every lease on record has one.
THEOREM AlarmCorrect == Spec => []LeaseHasAlarm
<1>1. IInv => LeaseHasAlarm
  BY DEF IInv
<1> QED BY <1>1, Invariance, PTL

\* Stale releases, expiry, the alarm and deaths of the object leave a holder at
\* work on record, unless it is exposed to releases that name no generation.
THEOREM WorkCorrect == Spec => []WorkIsBacked
<1>1. IInv => WorkIsBacked
  BY DEF IInv
<1> QED BY <1>1, Invariance, PTL

\* A release that names its generation leaves its holder no lease.
THEOREM ReleaseCorrect == Spec => []ReleaseEndsLease
<1>1. IInv => ReleaseEndsLease
  BY DEF IInv
<1> QED BY <1>1, Invariance, PTL

\* The first leases of a window are as many as its charges at most: each is of an
\* operation of its own, which the ledger remembers with the same caller.
LEMMA RecentAreCharged ==
  ASSUME IInv, NEW H \in SUBSET Recent, NEW O \in SUBSET Charged(Kept),
         \A h \in H : held[h].op \in O
  PROVE  Cardinality(H) <= Cardinality(O)
<1> DEFINE f == [h \in H |-> held[h].op]
<1>1. \A h \in H : /\ h \in Granted /\ held[h].generation = 1 /\ held[h].at + Window > now
                   /\ LeaseStands(h)
  BY DEF Recent, IInv
<1>2. \A g, h \in H : f[g] = f[h] => g = h
  BY <1>1 DEF LeaseStands, IInv, GrantsDiffer
<1>3. f \in Injection(H, O)
  BY <1>2 DEF Injection, IsInjective
<1>4. IsFiniteSet(O)
  BY Countable DEF Charged
<1> QED BY <1>3, <1>4, FS_Injection

\* No budget is exceeded in any window (withinBudgets).
THEOREM BudgetsCorrect == Spec => []BudgetsHold
<1>1. IInv => BudgetsHold
  <2>1. SUFFICES ASSUME IInv PROVE BudgetsHold
    OBVIOUS
  <2>2. \A h \in Recent : /\ held[h].op \in Charged(Kept)
                          /\ Kept[held[h].op].caller = held[h].caller
    BY <2>1, KeptIsPruned, Types DEF IInv, Recent, LeaseStands, Charged
  <2>3. /\ Charged(Kept) \in SUBSET Charged(Kept)
        /\ \A c : OfCaller(c) \in SUBSET Charged(Kept)
        /\ \A x : OfSession(x) \in SUBSET Charged(Kept)
        /\ Charged(Kept) \in SUBSET Operations
    BY DEF OfCaller, OfSession, Charged
  <2>4. ASSUME NEW H \in SUBSET Recent, NEW O \in SUBSET Charged(Kept),
               \A h \in H : held[h].op \in O, NEW n \in Nat, Cardinality(O) <= n
        PROVE  Cardinality(H) <= n
    <3>1. Cardinality(H) <= Cardinality(O) /\ O \in SUBSET Operations
      BY <2>1, <2>3, <2>4, RecentAreCharged
    <3>2. H \in SUBSET Holders
      BY DEF Recent, Granted
    <3>3. Cardinality(H) \in Nat /\ Cardinality(O) \in Nat
      BY <3>1, <3>2, Countable, ConstantsOK, FS_Subset, FS_CardinalityType
    <3> QED BY <2>4, <3>1, <3>3
  <2>5. Policy[kind].global \in Nat /\ Policy[kind].caller \in Nat /\ Policy[kind].session \in Nat
    BY <2>1, LimitsOK DEF IInv
  <2>6. Cardinality(Recent) <= Policy[kind].global
    BY <2>1, <2>2, <2>3, <2>4, <2>5 DEF IInv, ChargesWithinBudgets
  <2>7. ASSUME NEW c \in Callers
        PROVE  Cardinality({h \in Recent : held[h].caller = c}) <= Policy[kind].caller
    <3>1. \A h \in {k \in Recent : held[k].caller = c} : held[h].op \in OfCaller(c)
      BY <2>2 DEF OfCaller
    <3>2. Cardinality(OfCaller(c)) <= Policy[kind].caller
      BY <2>1 DEF IInv, ChargesWithinBudgets
    <3> QED BY <2>3, <2>4, <2>5, <3>1, <3>2
  <2>8. ASSUME NEW x \in Operations
        PROVE  Cardinality({h \in Recent : SessionOf[held[h].op] = SessionOf[x]})
                 <= Policy[kind].session
    <3>1. \A h \in {k \in Recent : SessionOf[held[k].op] = SessionOf[x]} :
             held[h].op \in OfSession(x)
      BY <2>2 DEF OfSession
    <3>2. Cardinality(OfSession(x)) <= Policy[kind].session
      BY <2>1 DEF IInv, ChargesWithinBudgets
    <3> QED BY <2>3, <2>4, <2>5, <3>1, <3>2
  <2> QED BY <2>6, <2>7, <2>8 DEF BudgetsHold
<1> QED BY <1>1, Invariance, PTL
=============================================================================
