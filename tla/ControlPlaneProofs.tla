------------------------- MODULE ControlPlaneProofs -------------------------
(***************************************************************************)
(* For every number of requests and jobs: what a session carries is backed *)
(* by jobs, what a runner is told was projected, one job is made of a      *)
(* request, and every job moves as its lifecycle promises.                 *)
(*                                                                         *)
(* The argument: what a job was asked for stays true of the session (Due), *)
(* for a session only grows; so every request that verifies the bytes of a *)
(* job finds the same, whenever it read the session, and a receipt, the    *)
(* status and the finding of any request in flight agree.                  *)
(***************************************************************************)
EXTENDS ControlPlane, SequenceTheorems, TLAPS

Early == {"PREDICTION_COMMITTED", "LAB_COMPILING", "LAB_REJECTED"}
Repaired == {"PATCH_VERIFIED", "REASONING_DIFF_ISSUED", "PROOF_CAPSULE_ISSUED"}

\* How far a session got says which authorities it carries; a report without a
\* result was withheld.
InOrder(s) ==
  /\ s.state \in Early <=> s.lab = 0
  /\ s.state \in Early \cup {"LAB_VERIFIED"} <=> s.result = 0
  /\ s.result = 0 <=> s.verdict \in {None, "REJECTED"}
  /\ s.state \in Early \cup {"LAB_VERIFIED", "EXPERIMENT_COMPLETED"} <=> s.boundary = 0
  /\ s.state \in Repaired <=> s.patch # 0
  /\ s.report # 0 /\ s.result = 0 => s.report \in s.withheld

\* What a job of a kind is asked for, true of the session from then on.
Due(kind, basis) ==
  /\ kind = "LAB_COMPILE" => basis = <<0, 0>>
  /\ kind # "LAB_COMPILE" => session.lab # 0
  /\ kind = "LAB_RUN" => basis = <<session.lab, 0>>
  /\ kind \in {"BOUNDARY", "PATCH_COMPILE"} =>
       session.result # 0 /\ basis = <<session.lab, session.result>>
  /\ kind = "PATCH_COMPILE" => session.verdict = "SUPPORTS" /\ session.transfer

Good == {"VERIFIED", "SUPPORTS", "INCONCLUSIVE"}

\* The status of a job is that of its receipt and its bytes.
JobStands(j) ==
  /\ Due(jobs[j].kind, jobs[j].basis)
  /\ jobs[j].found \in Findings(jobs[j].kind)
  /\ jobs[j].status = "VERIFIED" => jobs[j].receipt = "VERIFIED"
  /\ jobs[j].receipt = "VERIFIED" =>
       jobs[j].status = IF jobs[j].found \in Good THEN "VERIFIED" ELSE "REJECTED"
  /\ jobs[j].receipt = "FAILED" => jobs[j].status = "FAILED"
  /\ jobs[j].answered => jobs[j].receipt # None

\* A session read earlier: what it carried is still carried.
Earlier(s) ==
  /\ InOrder(s)
  /\ s.lab # 0 => session.lab = s.lab
  /\ s.result # 0 => session.result = s.result
  /\ s.boundary # 0 => session.boundary = s.boundary
  /\ s.patch # 0 => session.patch = s.patch
  /\ s.withheld \subseteq session.withheld

\* What a request in flight takes to be so is so.
Knows(q) ==
  /\ q.pc \in {"asked", "begin", "create"} =>
       q.snap \in Learner /\ q.kind \in Kinds /\ Due(q.kind, Basis(q.snap, q.kind))
  /\ q.pc \notin {"idle", "asked", "begin", "create"} => q.job \in DOMAIN jobs
  /\ q.pc \in {"claimed", "verifying", "recorded", "projecting", "proving"} => q.message # None
  /\ q.pc \in {"verifying", "recorded", "projecting", "proving"} =>
       q.finding = IF q.message = "VERIFIED" THEN jobs[q.job].found ELSE "FAILED"
  /\ q.pc \in {"recorded", "projecting", "proving"} => jobs[q.job].receipt = q.message
  /\ q.pc \in {"projecting", "proving"} => q.snap \in Learner /\ Earlier(q.snap)
  /\ q.pc = "proving" => jobs[q.job].kind = "PATCH_COMPILE" /\ session.patch = q.job

KnowsOf(r) == Knows(request[r])

IInv ==
  /\ TypeOK /\ InOrder(session)
  /\ \A j \in DOMAIN jobs : JobStands(j)
  /\ \A r \in Requests : KnowsOf(r)
  /\ AuthorityIsBacked /\ AnsweredIsProjected /\ OneJobPerRequest

-----------------------------------------------------------------------------
(* What a step leaves alone *)

\* No authority a session carries is given up or exchanged.
SessionGrows ==
  /\ session.lab # 0 => session'.lab = session.lab
  /\ session.result # 0 =>
       session'.result = session.result /\ session'.verdict = session.verdict
  /\ session.boundary # 0 => session'.boundary = session.boundary
  /\ session.patch # 0 => session'.patch = session.patch
  /\ session.transfer => session'.transfer
  /\ session.withheld \subseteq session'.withheld

Live == Active \cup {"VERIFIED"}

\* A job stays what it was asked for, and with its receipt it is settled.
JobGrows(j) ==
  /\ jobs'[j].kind = jobs[j].kind /\ jobs'[j].basis = jobs[j].basis
  /\ jobs'[j].found = jobs[j].found
  /\ jobs[j].receipt # None =>
       jobs'[j].status = jobs[j].status /\ jobs'[j].receipt = jobs[j].receipt
  /\ jobs[j].answered => jobs'[j].answered
  /\ jobs'[j].status \in Live => jobs[j].status \in Live

JobsGrow ==
  /\ DOMAIN jobs \subseteq DOMAIN jobs'
  /\ \A j \in DOMAIN jobs : JobGrows(j)

\* What every step keeps.
Kept == IInv' /\ SessionGrows /\ JobsGrow

\* What was asked for stays due.
LEMMA DueStays ==
  ASSUME SessionGrows, InOrder(session), NEW kind, NEW basis, Due(kind, basis)
  PROVE  Due(kind, basis)'
<1>1. session.result # 0 => session'.result = session.result /\ session'.verdict = session.verdict
  BY DEF SessionGrows
<1>2. session.lab # 0 => session'.lab = session.lab
  BY DEF SessionGrows
<1>3. kind = "PATCH_COMPILE" => session'.verdict = "SUPPORTS" /\ session'.transfer
  BY <1>1 DEF Due, SessionGrows
<1> QED BY <1>1, <1>2, <1>3 DEF Due

\* A backing job keeps backing.
LEMMA BackingStays ==
  ASSUME JobsGrow, ConstantsOK, NEW j, NEW kind, NEW basis, Backs(j, kind, basis)
  PROVE  Backs(j, kind, basis)'
<1>1. j \in DOMAIN jobs /\ JobGrows(j) /\ jobs[j].receipt # None
  BY DEF JobsGrow, Backs, ConstantsOK
<1> QED BY <1>1 DEF Backs, JobGrows, JobsGrow

\* Nobody in flight is contradicted.
LEMMA KnowledgeStays ==
  ASSUME SessionGrows, JobsGrow, ConstantsOK, InOrder(session), TypeOK,
         NEW q \in Call, Knows(q), q.pc = "proving" => session.patch # 0
  PROVE  Knows(q)'
<1>1. q.pc \in {"asked", "begin", "create"} => Due(q.kind, Basis(q.snap, q.kind))'
  BY DueStays DEF Knows, Basis
<1>2. q.pc \notin {"idle", "asked", "begin", "create"} =>
        q.job \in DOMAIN jobs /\ q.job \in DOMAIN jobs' /\ JobGrows(q.job)
  BY DEF Knows, JobsGrow
<1>3. q.pc \in {"verifying", "recorded", "projecting", "proving"} =>
        q.finding = IF q.message = "VERIFIED" THEN jobs'[q.job].found ELSE "FAILED"
  BY <1>2 DEF Knows, JobGrows
<1>4. q.pc \in {"recorded", "projecting", "proving"} => jobs'[q.job].receipt = q.message
  BY <1>2 DEF Knows, JobGrows
<1>5. q.pc \in {"projecting", "proving"} => Earlier(q.snap)'
  <2>1. SUFFICES ASSUME q.pc \in {"projecting", "proving"} PROVE Earlier(q.snap)'
    OBVIOUS
  <2>2. Earlier(q.snap)
    BY <2>1 DEF Knows
  <2> QED BY <2>2 DEF Earlier, SessionGrows
<1>6. q.pc = "proving" => jobs'[q.job].kind = "PATCH_COMPILE" /\ session'.patch = q.job
  BY <1>2 DEF Knows, JobGrows, SessionGrows
<1> QED BY <1>1, <1>2, <1>3, <1>4, <1>5, <1>6 DEF Knows

\* A job with a receipt is settled, and projected it stays so.
LEMMA SettledStays ==
  ASSUME JobsGrow, NEW j \in DOMAIN jobs, jobs[j].receipt # None
  PROVE  /\ jobs'[j].kind = jobs[j].kind /\ jobs'[j].found = jobs[j].found
         /\ jobs'[j].status = jobs[j].status /\ jobs'[j].receipt = jobs[j].receipt
BY DEF JobsGrow, JobGrows

\* What was projected stays projected while the session and the jobs grow.
LEMMA ProjectionStays ==
  ASSUME SessionGrows, JobsGrow, TypeOK,
         NEW j \in DOMAIN jobs, jobs[j].receipt # None, Projected(j)
  PROVE  Projected(j)'
<1>1. j \in Nat /\ j # 0
  BY DEF TypeOK
<1> QED BY <1>1, SettledStays DEF Projected, SessionGrows

\* The session carries what it carried.
SameAuthority ==
  /\ session'.lab = session.lab /\ session'.result = session.result
  /\ session'.boundary = session.boundary /\ session'.patch = session.patch
  /\ session.result # 0 => session'.verdict = session.verdict

\* What backs an authority goes on backing it.
LEMMA AuthorityStays ==
  ASSUME AuthorityIsBacked, JobsGrow, ConstantsOK, SameAuthority
  PROVE  AuthorityIsBacked'
<1>1. \A j, kind, basis : Backs(j, kind, basis) => Backs(j, kind, basis)'
  BY BackingStays
<1>2. session.result # 0 => session.result \in DOMAIN jobs
  BY DEF AuthorityIsBacked, Backs
<1>3. session.result # 0 => jobs'[session.result].found = jobs[session.result].found
  BY <1>2 DEF JobsGrow, JobGrows
<1> QED BY <1>1, <1>3 DEF AuthorityIsBacked, SameAuthority

\* No two jobs become one request's.
LEMMA OneStays ==
  ASSUME OneJobPerRequest, JobsGrow, DOMAIN jobs' = DOMAIN jobs
  PROVE  OneJobPerRequest'
BY DEF OneJobPerRequest, JobsGrow, JobGrows, Live

\* What a step must show of what it did change.
LEMMA Carried ==
  ASSUME IInv, TypeOK', InOrder(session)', SessionGrows, JobsGrow,
         \A j \in DOMAIN jobs' :
           j \notin DOMAIN jobs \/ jobs'[j] # jobs[j] => JobStands(j)',
         \A j \in DOMAIN jobs' :
           (j \in DOMAIN jobs => ~jobs[j].answered) /\ jobs'[j].answered => Projected(j)',
         OneJobPerRequest',
         \A r \in Requests : request'[r] # request[r] => KnowsOf(r)',
         AuthorityIsBacked'
  PROVE  Kept
<1>1. \A j \in DOMAIN jobs' : JobStands(j)'
  <2>1. SUFFICES ASSUME NEW j \in DOMAIN jobs, jobs'[j] = jobs[j] PROVE JobStands(j)'
    OBVIOUS
  <2>2. JobStands(j) /\ jobs[j].kind = jobs'[j].kind /\ jobs[j].basis = jobs'[j].basis
    BY <2>1 DEF IInv
  <2>3. PICK kind, basis : kind = jobs[j].kind /\ basis = jobs[j].basis
    OBVIOUS
  <2>4. Due(kind, basis)'
    BY <2>2, <2>3, DueStays DEF IInv, JobStands
  <2> QED BY <2>1, <2>2, <2>3, <2>4 DEF JobStands, Due
<1>2. \A r \in Requests : KnowsOf(r)'
  <2>1. SUFFICES ASSUME NEW r \in Requests, request'[r] = request[r] PROVE KnowsOf(r)'
    OBVIOUS
  <2>2. PICK q \in Call : q = request[r]
    BY DEF IInv, TypeOK
  <2>3. Knows(q) /\ (q.pc = "proving" => session.patch # 0)
    BY <2>2 DEF Knows, KnowsOf, IInv, TypeOK
  <2>4. Knows(q)'
    BY <2>3, KnowledgeStays, ConstantsOK DEF IInv
  <2>5. request'[r] = q
    BY <2>1, <2>2
  <2> QED BY <2>4, <2>5 DEF KnowsOf, Knows
<1>3. AnsweredIsProjected'
  <2>1. SUFFICES ASSUME NEW j \in DOMAIN jobs, jobs'[j].answered, jobs[j].answered
                 PROVE  Projected(j)'
    BY DEF AnsweredIsProjected
  <2> QED BY <2>1, ProjectionStays DEF IInv, AnsweredIsProjected, JobStands
<1> QED BY <1>1, <1>2, <1>3 DEF IInv, Kept

-----------------------------------------------------------------------------
(* Steps by what they change *)

\* e may follow job i: it is the same job, no less settled.
Follows(e, i) ==
  /\ e.kind = i.kind /\ e.basis = i.basis /\ e.found = i.found
  /\ i.receipt # None => e.status = i.status /\ e.receipt = i.receipt
  /\ i.answered => e.answered
  /\ e.status \in Live => i.status \in Live

\* The receipt and the status of a job agree.
Settled(e) ==
  /\ e.status = "VERIFIED" => e.receipt = "VERIFIED"
  /\ e.receipt = "VERIFIED" => e.status = IF e.found \in Good THEN "VERIFIED" ELSE "REJECTED"
  /\ e.receipt = "FAILED" => e.status = "FAILED"
  /\ e.answered => e.receipt # None

\* One job is written.
LEMMA Touched ==
  ASSUME IInv, NEW j \in DOMAIN jobs, NEW e \in Job, jobs' = [jobs EXCEPT ![j] = e],
         Follows(e, jobs[j])
  PROVE  /\ jobs' \in Seq(Job) /\ DOMAIN jobs' = DOMAIN jobs /\ JobsGrow
         /\ jobs'[j] = e /\ \A i \in DOMAIN jobs : i # j => jobs'[i] = jobs[i]
<1>1. jobs \in Seq(Job)
  BY DEF IInv, TypeOK
<1>2. jobs' \in Seq(Job) /\ DOMAIN jobs' = DOMAIN jobs
  BY <1>1
<1>3. jobs'[j] = e /\ \A i \in DOMAIN jobs : i # j => jobs'[i] = jobs[i]
  BY <1>1
<1>4. ASSUME NEW i \in DOMAIN jobs PROVE JobGrows(i)
  <2>1. CASE i = j
    BY <1>3, <2>1 DEF JobGrows, Follows
  <2>2. CASE i # j
    BY <1>3, <2>2 DEF JobGrows
  <2> QED BY <2>1, <2>2
<1> QED BY <1>2, <1>3, <1>4 DEF JobsGrow

\* A step of requests alone.
LEMMA RequestStep ==
  ASSUME IInv, UNCHANGED <<session, jobs, budget>>,
         request' \in [Requests -> Call],
         \A r \in Requests : request'[r] # request[r] => KnowsOf(r)'
  PROVE  Kept
<1>1. SessionGrows /\ JobsGrow /\ SameAuthority
  BY DEF SessionGrows, JobsGrow, JobGrows, SameAuthority
<1>2. TypeOK' /\ InOrder(session)'
  BY DEF IInv, TypeOK, InOrder
<1>3. AuthorityIsBacked'
  BY <1>1, AuthorityStays, ConstantsOK DEF IInv
<1>4. OneJobPerRequest'
  BY <1>1, OneStays DEF IInv
<1> QED BY <1>1, <1>2, <1>3, <1>4, Carried

\* A step of requests and one job.
LEMMA JobStep ==
  ASSUME IInv, UNCHANGED <<session, budget>>,
         request' \in [Requests -> Call],
         \A r \in Requests : request'[r] # request[r] => KnowsOf(r)',
         NEW j \in DOMAIN jobs, NEW e \in Job, jobs' = [jobs EXCEPT ![j] = e],
         Follows(e, jobs[j]), Settled(e),
         ~jobs[j].answered /\ e.answered => Projected(j)'
  PROVE  Kept
<1>1. /\ jobs' \in Seq(Job) /\ DOMAIN jobs' = DOMAIN jobs /\ JobsGrow
      /\ jobs'[j] = e /\ \A i \in DOMAIN jobs : i # j => jobs'[i] = jobs[i]
  BY Touched
<1>2. SessionGrows /\ SameAuthority
  BY DEF SessionGrows, SameAuthority
<1>3. TypeOK' /\ InOrder(session)'
  BY <1>1 DEF IInv, TypeOK, InOrder
<1>4. AuthorityIsBacked'
  BY <1>1, <1>2, AuthorityStays, ConstantsOK DEF IInv
<1>5. JobStands(j)'
  <2>1. Due(jobs[j].kind, jobs[j].basis) /\ jobs[j].found \in Findings(jobs[j].kind)
    BY DEF IInv, JobStands
  <2>2. Due(e.kind, e.basis)'
    BY <2>1 DEF Due, Follows
  <2>3. e.found \in Findings(e.kind)
    BY <2>1 DEF Follows
  <2> QED BY <1>1, <2>2, <2>3 DEF JobStands, Settled, Due
<1>6. \A i \in DOMAIN jobs : jobs'[i] # jobs[i] => JobStands(i)'
  BY <1>1, <1>5
<1>7. \A i \in DOMAIN jobs : ~jobs[i].answered /\ jobs'[i].answered => Projected(i)'
  BY <1>1
<1>8. OneJobPerRequest'
  BY <1>1, OneStays DEF IInv
<1> QED BY <1>1, <1>2, <1>3, <1>4, <1>6, <1>7, <1>8, Carried

\* A step of requests and the session.
LEMMA SessionAlone ==
  ASSUME IInv, UNCHANGED <<jobs, budget>>,
         session' \in Learner, InOrder(session)', SessionGrows,
         request' \in [Requests -> Call],
         \A r \in Requests : request'[r] # request[r] => KnowsOf(r)',
         JobsGrow => AuthorityIsBacked'
  PROVE  Kept
<1>1. JobsGrow
  BY DEF JobsGrow, JobGrows
<1>2. TypeOK'
  BY DEF IInv, TypeOK
<1>3. OneJobPerRequest'
  BY <1>1, OneStays DEF IInv
<1> QED BY <1>1, <1>2, <1>3, Carried

\* A step of requests, the session and a job that is answered with it.
LEMMA SessionStep ==
  ASSUME IInv, budget' = budget, session' \in Learner, InOrder(session)', SessionGrows,
         request' \in [Requests -> Call],
         \A r \in Requests : request'[r] # request[r] => KnowsOf(r)',
         NEW j \in DOMAIN jobs, jobs[j].receipt # None,
         jobs' = [jobs EXCEPT ![j].answered = TRUE],
         JobsGrow => AuthorityIsBacked' /\ Projected(j)'
  PROVE  Kept
<1> DEFINE e == [jobs[j] EXCEPT !.answered = TRUE]
<1>1. jobs \in Seq(Job) /\ jobs[j] \in Job
  BY DEF IInv, TypeOK
<1>2. /\ e \in Job /\ e.kind = jobs[j].kind /\ e.basis = jobs[j].basis
      /\ e.found = jobs[j].found /\ e.status = jobs[j].status
      /\ e.receipt = jobs[j].receipt /\ e.answered
  BY <1>1 DEF Job
<1>3. jobs' = [jobs EXCEPT ![j] = e]
  OBVIOUS
<1> HIDE DEF e
<1>4. Follows(e, jobs[j])
  BY <1>2 DEF Follows
<1>5. /\ jobs' \in Seq(Job) /\ DOMAIN jobs' = DOMAIN jobs /\ JobsGrow
      /\ jobs'[j] = e /\ \A i \in DOMAIN jobs : i # j => jobs'[i] = jobs[i]
  BY <1>2, <1>3, <1>4, Touched
<1>6. TypeOK'
  BY <1>5 DEF IInv, TypeOK
<1>7. JobStands(j)'
  <2>1. JobStands(j)
    BY DEF IInv
  <2>2. PICK kind, basis : kind = jobs[j].kind /\ basis = jobs[j].basis
    OBVIOUS
  <2>3. Due(kind, basis)'
    BY <2>1, <2>2, DueStays DEF IInv, JobStands
  <2> QED BY <1>2, <1>5, <2>1, <2>2, <2>3 DEF JobStands, Due
<1>8. \A i \in DOMAIN jobs : jobs'[i] # jobs[i] => JobStands(i)'
  BY <1>5, <1>7
<1>9. \A i \in DOMAIN jobs : ~jobs[i].answered /\ jobs'[i].answered => Projected(i)'
  BY <1>5
<1>10. OneJobPerRequest'
  BY <1>5, OneStays DEF IInv
<1> QED BY <1>5, <1>6, <1>8, <1>9, <1>10, Carried

-----------------------------------------------------------------------------
(* The learner's steps *)

\* A request takes its next step knowing what it needs to.
LEMMA Turned ==
  ASSUME TypeOK, NEW r \in Requests, NEW q \in Call, request' = [request EXCEPT ![r] = q],
         Knows(q)'
  PROVE  /\ request' \in [Requests -> Call]
         /\ \A s \in Requests : request'[s] # request[s] => KnowsOf(s)'
<1>1. request' \in [Requests -> Call] /\ request'[r] = q
  BY DEF TypeOK
<1>2. KnowsOf(r)'
  BY <1>1 DEF KnowsOf, Knows
<1> QED BY <1>1, <1>2 DEF TypeOK

\* q goes on with what p was about.
SameCall(q, p) ==
  /\ q.kind = p.kind /\ q.job = p.job /\ q.message = p.message
  /\ q.duplicate = p.duplicate /\ q.snap = p.snap /\ q.finding = p.finding

\* A request that only moves on keeps what it knows.
LEMMA Went ==
  ASSUME TypeOK, NEW r \in Requests, NEW phase,
         [request[r] EXCEPT !.pc = phase] \in Call, Goto(r, phase)
  PROVE  \E q \in Call : /\ request' = [request EXCEPT ![r] = q]
                         /\ q.pc = phase /\ SameCall(q, request[r])
<1> DEFINE q == [request[r] EXCEPT !.pc = phase]
<1>1. request[r] \in Call
  BY DEF TypeOK
<1>2. q \in Call /\ q.pc = phase /\ SameCall(q, request[r])
  BY <1>1 DEF Call, SameCall
<1>3. request' = [request EXCEPT ![r] = q]
  BY DEF Goto
<1> QED BY <1>2, <1>3

\* A request that ends knows nothing.
LEMMA Finished ==
  ASSUME TypeOK, NEW r \in Requests, Finish(r)
  PROVE  /\ request' \in [Requests -> Call]
         /\ \A s \in Requests : request'[s] # request[s] => KnowsOf(s)'
<1>1. PICK q \in Call : q = Idle
  BY DEF Idle, Call
<1>2. Knows(q)'
  BY <1>1 DEF Knows, Idle
<1> QED BY <1>1, <1>2, Turned DEF Finish

\* A request reads the session.
LEMMA AskStep ==
  ASSUME IInv, NEW r \in Requests, NEW kind \in Kinds, Ask(r, kind) PROVE Kept
<1>1. PICK q \in Call : q = [Idle EXCEPT !.pc = "asked", !.kind = kind, !.snap = session]
  BY DEF Idle, Call, IInv, TypeOK
<1>2. q.pc = "asked" /\ q.kind = kind /\ q.snap = session
  BY <1>1 DEF Idle
<1>3. Due(kind, Basis(session, kind))
  BY ConstantsOK DEF Ask, Asked, RunAsked, BoundaryAsked, PatchAsked, Due, Basis, Kinds, IInv, InOrder
<1>4. Knows(q)'
  BY <1>2, <1>3 DEF Ask, Knows, Due, Basis, IInv, TypeOK
<1>5. request' = [request EXCEPT ![r] = q] /\ UNCHANGED <<session, jobs, budget>>
  BY <1>1 DEF Ask
<1> QED BY <1>4, <1>5, Turned, RequestStep DEF IInv

\* A request goes on to dispatch a job.
LEMMA Dispatching ==
  ASSUME TypeOK, NEW r \in Requests, NEW j \in Nat,
         request' = [request EXCEPT ![r].pc = "dispatch", ![r].job = j]
  PROVE  \E q \in Call : /\ request' = [request EXCEPT ![r] = q]
                         /\ q.pc = "dispatch" /\ q.job = j
<1> DEFINE q == [request[r] EXCEPT !.pc = "dispatch", !.job = j]
<1>1. request[r] \in Call
  BY DEF TypeOK
<1>2. q \in Call /\ q.pc = "dispatch" /\ q.job = j
  BY <1>1 DEF Call
<1>3. request' = [request EXCEPT ![r] = q]
  BY DEF TypeOK
<1> QED BY <1>2, <1>3

\* The stages a request may go to.
LEMMA Phases ==
  ASSUME TypeOK, NEW r \in Requests
  PROVE  \A phase \in {"begin", "create", "recorded", "rejecting"} :
           [request[r] EXCEPT !.pc = phase] \in Call
<1>1. request[r] \in Call
  BY DEF TypeOK
<1> QED BY <1>1 DEF Call

\* It finds a job to reuse, or none.
LEMMA LookStep == ASSUME IInv, NEW r \in Requests, Look(r) PROVE Kept
<1>1. TypeOK /\ KnowsOf(r) /\ request[r].pc = "asked" /\ UNCHANGED <<session, jobs, budget>>
  BY DEF IInv, Look
<1>2. CASE \E j \in Reusable(request[r].snap, request[r].kind) :
             request' = [request EXCEPT ![r].pc = "dispatch", ![r].job = j]
  <2>1. PICK j \in DOMAIN jobs : request' = [request EXCEPT ![r].pc = "dispatch", ![r].job = j]
    BY <1>2 DEF Reusable
  <2>2. j \in Nat
    BY <1>1 DEF TypeOK
  <2>3. PICK q \in Call : /\ request' = [request EXCEPT ![r] = q]
                          /\ q.pc = "dispatch" /\ q.job = j
    BY <1>1, <2>1, <2>2, Dispatching
  <2>4. Knows(q)'
    BY <1>1, <2>3 DEF Knows
  <2> QED BY <1>1, <2>3, <2>4, Turned, RequestStep
<1>3. CASE Goto(r, "begin")
  <2>1. PICK q \in Call : /\ request' = [request EXCEPT ![r] = q]
                          /\ q.pc = "begin" /\ SameCall(q, request[r])
    BY <1>1, <1>3, Went, Phases
  <2>2. Knows(q)'
    BY <1>1, <2>1 DEF KnowsOf, Knows, SameCall, Due, Basis
  <2> QED BY <1>1, <2>1, <2>2, Turned, RequestStep
<1> QED BY <1>2, <1>3 DEF Look

\* Two states of the same stretch of a session's life.
SameStretch(a, b) ==
  /\ a \in Early <=> b \in Early
  /\ a \in Early \cup {"LAB_VERIFIED"} <=> b \in Early \cup {"LAB_VERIFIED"}
  /\ a \in Early \cup {"LAB_VERIFIED", "EXPERIMENT_COMPLETED"} <=>
       b \in Early \cup {"LAB_VERIFIED", "EXPERIMENT_COMPLETED"}
  /\ a \in Repaired <=> b \in Repaired

\* A session moves on and carries what it carried.
LEMMA Strolled ==
  ASSUME IInv, session' \in Learner, SameAuthority, SameStretch(session.state, session'.state),
         session'.verdict = session.verdict, session'.report = session.report,
         session.transfer => session'.transfer, session'.withheld = session.withheld
  PROVE  InOrder(session)' /\ SessionGrows /\ (JobsGrow => AuthorityIsBacked')
<1>1. InOrder(session)'
  BY DEF IInv, InOrder, SameAuthority, SameStretch
<1>2. SessionGrows
  BY DEF SessionGrows, SameAuthority
<1> QED BY <1>1, <1>2, AuthorityStays, ConstantsOK DEF IInv

\* Only its state changes.
LEMMA Moved ==
  ASSUME IInv, NEW to \in States, session' = [session EXCEPT !.state = to],
         SameStretch(session.state, to)
  PROVE  /\ session' \in Learner /\ InOrder(session)' /\ SessionGrows
         /\ JobsGrow => AuthorityIsBacked'
         /\ session'.state = to /\ SameAuthority
<1>1. session \in Learner
  BY DEF IInv, TypeOK
<1>2. /\ session' \in Learner /\ session'.state = to /\ SameAuthority
      /\ session'.verdict = session.verdict /\ session'.report = session.report
      /\ session'.transfer = session.transfer /\ session'.withheld = session.withheld
  BY <1>1 DEF Learner, SameAuthority
<1> QED BY <1>2, Strolled

\* It starts a compilation.
LEMMA BeginStep == ASSUME IInv, NEW r \in Requests, Begin(r) PROVE Kept
<1>1. /\ TypeOK /\ KnowsOf(r) /\ request[r].pc = "begin" /\ UNCHANGED <<jobs, budget>>
      /\ Goto(r, "create")
  BY DEF IInv, Begin
<1>2. PICK q \in Call : /\ request' = [request EXCEPT ![r] = q]
                        /\ q.pc = "create" /\ SameCall(q, request[r])
  BY <1>1, Went, Phases
<1>3. ASSUME SessionGrows PROVE Knows(q)'
  <2>1. Due(q.kind, Basis(q.snap, q.kind))
    BY <1>1, <1>2 DEF KnowsOf, Knows, SameCall
  <2>2. PICK basis : basis = Basis(q.snap, q.kind)
    OBVIOUS
  <2>3. Due(q.kind, basis)'
    BY <1>3, <2>1, <2>2, DueStays DEF IInv
  <2> QED BY <1>1, <1>2, <2>2, <2>3 DEF KnowsOf, Knows, SameCall, Basis
<1>4. CASE session' = session
  <2>1. SessionGrows
    BY <1>4 DEF SessionGrows
  <2> QED BY <1>1, <1>2, <1>3, <1>4, <2>1, Turned, RequestStep
<1>5. CASE \/ /\ session.state \in {"PREDICTION_COMMITTED", "LAB_REJECTED"}
              /\ session' = [session EXCEPT !.state = "LAB_COMPILING"]
           \/ /\ session.state \in {"TRANSFER_PASSED", "PATCH_REJECTED"}
              /\ session' = [session EXCEPT !.state = "PATCH_COMPILING"]
  <2>1. PICK to \in {"LAB_COMPILING", "PATCH_COMPILING"} :
          /\ session' = [session EXCEPT !.state = to]
          /\ session.state \in IF to = "LAB_COMPILING" THEN {"PREDICTION_COMMITTED", "LAB_REJECTED"}
                               ELSE {"TRANSFER_PASSED", "PATCH_REJECTED"}
    BY <1>5
  <2>2. /\ session' \in Learner /\ InOrder(session)' /\ SessionGrows
        /\ JobsGrow => AuthorityIsBacked'
    BY <2>1, Moved DEF States, Early, Repaired, SameStretch
  <2> QED BY <1>1, <1>2, <1>3, <2>2, Turned, SessionAlone
<1> QED BY <1>4, <1>5 DEF Begin, BeginLab, BeginRun, BeginBoundary, BeginPatch, Compile

\* A new job is the only one of its request.
LEMMA CreateStep == ASSUME IInv, NEW r \in Requests, Create(r) PROVE Kept
<1> DEFINE kind == request[r].kind
           basis == Basis(request[r].snap, kind)
<1>1. /\ TypeOK /\ KnowsOf(r) /\ request[r].pc = "create" /\ session' = session
      /\ jobs \in Seq(Job) /\ kind \in Kinds /\ Due(kind, basis)
  BY DEF IInv, TypeOK, Create, KnowsOf, Knows
<1>2. CASE /\ UNCHANGED <<jobs, budget>>
           /\ \E j \in Reusable(request[r].snap, request[r].kind) :
                request' = [request EXCEPT ![r].pc = "dispatch", ![r].job = j]
  <2>1. PICK j \in DOMAIN jobs : request' = [request EXCEPT ![r].pc = "dispatch", ![r].job = j]
    BY <1>2 DEF Reusable
  <2>2. j \in Nat
    BY <1>1
  <2>3. PICK q \in Call : /\ request' = [request EXCEPT ![r] = q]
                          /\ q.pc = "dispatch" /\ q.job = j
    BY <1>1, <2>1, <2>2, Dispatching
  <2>4. Knows(q)'
    BY <1>2, <2>3 DEF Knows
  <2> QED BY <1>1, <1>2, <2>3, <2>4, Turned, RequestStep
<1>3. CASE /\ Reusable(request[r].snap, kind) = {} /\ budget > 0
           /\ \E f \in Findings(kind) : jobs' = Append(jobs, NewJob(kind, basis, f))
           /\ request' = [request EXCEPT ![r].pc = "dispatch", ![r].job = Len(jobs')]
           /\ budget' = budget - 1
  <2>1. PICK e \in Job : /\ jobs' = Append(jobs, e)
                         /\ e.kind = kind /\ e.basis = basis /\ e.receipt = None
                         /\ e.status = "QUEUED" /\ ~e.answered
                         /\ e.found \in Findings(kind)
    <3>1. PICK f \in Findings(kind) : jobs' = Append(jobs, NewJob(kind, basis, f))
      BY <1>3
    <3>2. basis \in Nat \X Nat
      <4>1. request[r].snap \in Learner
        BY <1>1 DEF KnowsOf, Knows
      <4> QED BY <4>1 DEF Basis, Learner
    <3>3. f \in {"VERIFIED", "SUPPORTS", "INCONCLUSIVE", "REJECTED", "BROKEN"}
      BY DEF Findings
    <3>4. NewJob(kind, basis, f) \in Job
      BY <1>1, <3>2, <3>3 DEF NewJob, Job, Status, Active
    <3> QED BY <3>1, <3>4 DEF NewJob
  <2>2. PICK n \in Nat :
          /\ n = Len(jobs') /\ n \notin DOMAIN jobs
          /\ jobs' \in Seq(Job) /\ DOMAIN jobs' = DOMAIN jobs \cup {n}
          /\ jobs'[n] = e /\ \A i \in DOMAIN jobs : jobs'[i] = jobs[i]
    BY <1>1, <2>1, AppendProperties
  <2>3. JobsGrow
    BY <2>2 DEF JobsGrow, JobGrows
  <2>4. SessionGrows /\ SameAuthority
    BY <1>1 DEF SessionGrows, SameAuthority
  <2>5. PICK q \in Call : /\ request' = [request EXCEPT ![r] = q]
                          /\ q.pc = "dispatch" /\ q.job = n
    BY <1>1, <1>3, <2>2, Dispatching
  <2>6. Knows(q)'
    BY <2>2, <2>5 DEF Knows
  <2>7. TypeOK' /\ InOrder(session)'
    <3>1. request' \in [Requests -> Call]
      BY <1>1, <2>5, <2>6, Turned
    <3>2. budget' \in 0..MaxNew
      BY <1>1, <1>3, ConstantsOK DEF TypeOK
    <3> QED BY <1>1, <2>2, <3>1, <3>2 DEF TypeOK, IInv, InOrder
  <2>8. JobStands(n)'
    <3>1. PICK k, b : k = kind /\ b = basis
      OBVIOUS
    <3>2. Due(k, b)'
      BY <1>1, <2>4, <3>1, DueStays DEF IInv
    <3> QED BY <2>1, <2>2, <3>1, <3>2, ConstantsOK DEF JobStands, Due
  <2>9. OneJobPerRequest'
    <3>1. \A i \in DOMAIN jobs :
            jobs[i].kind = kind /\ jobs[i].basis = basis => jobs[i].status \notin Live
      BY <1>3 DEF Reusable, Live
    <3> QED BY <2>1, <2>2, <3>1 DEF OneJobPerRequest, IInv, Live
  <2>10. AuthorityIsBacked'
    BY <2>3, <2>4, AuthorityStays, ConstantsOK DEF IInv
  <2>11. \A s \in Requests : request'[s] # request[s] => KnowsOf(s)'
    BY <1>1, <2>5, <2>6, Turned
  <2>12. \A j \in DOMAIN jobs' : j \notin DOMAIN jobs \/ jobs'[j] # jobs[j] => JobStands(j)'
    BY <2>2, <2>8
  <2>13. \A j \in DOMAIN jobs' :
           (j \in DOMAIN jobs => ~jobs[j].answered) /\ jobs'[j].answered => Projected(j)'
    BY <2>1, <2>2
  <2> QED BY <2>3, <2>4, <2>7, <2>9, <2>10, <2>11, <2>12, <2>13, Carried
<1> QED BY <1>2, <1>3 DEF Create

\* A job without a receipt moves on, short of VERIFIED.
LEMMA Restated ==
  ASSUME IInv, NEW j \in DOMAIN jobs, NEW to \in Status,
         jobs' = [jobs EXCEPT ![j].status = to],
         \/ to = jobs[j].status
         \/ to # "VERIFIED" /\ jobs[j].status \in Active
  PROVE  \E e \in Job : /\ jobs' = [jobs EXCEPT ![j] = e]
                        /\ Follows(e, jobs[j]) /\ Settled(e)
                        /\ e.answered = jobs[j].answered
<1> DEFINE e == [jobs[j] EXCEPT !.status = to]
<1>1. jobs[j] \in Job /\ JobStands(j) /\ jobs' = [jobs EXCEPT ![j] = e]
  BY DEF IInv, TypeOK
<1>2. /\ e \in Job /\ e.kind = jobs[j].kind /\ e.basis = jobs[j].basis
      /\ e.found = jobs[j].found /\ e.status = to
      /\ e.receipt = jobs[j].receipt /\ e.answered = jobs[j].answered
  BY <1>1 DEF Job
<1>3. to = jobs[j].status \/ jobs[j].receipt = None
  BY <1>1 DEF JobStands, Job, Active
<1> HIDE DEF e
<1>4. Follows(e, jobs[j])
  BY <1>2, <1>3 DEF Follows, Live
<1>5. Settled(e)
  BY <1>1, <1>2, <1>3, ConstantsOK DEF Settled, JobStands
<1> QED BY <1>1, <1>2, <1>4, <1>5

\* The claim on a job changes hands.
LEMMA Reclaimed ==
  ASSUME IInv, NEW j \in DOMAIN jobs, NEW c \in Requests \cup {None},
         jobs' = [jobs EXCEPT ![j].claim = c]
  PROVE  \E e \in Job : /\ jobs' = [jobs EXCEPT ![j] = e]
                        /\ Follows(e, jobs[j]) /\ Settled(e)
                        /\ e.answered = jobs[j].answered
<1> DEFINE e == [jobs[j] EXCEPT !.claim = c]
<1>1. jobs[j] \in Job /\ JobStands(j) /\ jobs' = [jobs EXCEPT ![j] = e]
  BY DEF IInv, TypeOK
<1>2. /\ e \in Job /\ e.kind = jobs[j].kind /\ e.basis = jobs[j].basis
      /\ e.found = jobs[j].found /\ e.status = jobs[j].status
      /\ e.receipt = jobs[j].receipt /\ e.answered = jobs[j].answered
  BY <1>1 DEF Job
<1> HIDE DEF e
<1>3. Follows(e, jobs[j]) /\ Settled(e)
  BY <1>1, <1>2 DEF Follows, Settled, JobStands
<1> QED BY <1>1, <1>2, <1>3

\* It hands its job to the container.
LEMMA DispatchStep == ASSUME IInv, NEW r \in Requests, Dispatch(r) PROVE Kept
<1> DEFINE j == request[r].job
<1>1. /\ TypeOK /\ j \in DOMAIN jobs /\ UNCHANGED <<session, budget>>
      /\ request' \in [Requests -> Call]
      /\ \A s \in Requests : request'[s] # request[s] => KnowsOf(s)'
  BY Finished DEF IInv, Dispatch, KnowsOf, Knows
<1>2. CASE jobs' = jobs
  BY <1>1, <1>2, RequestStep
<1>3. CASE jobs[j].status = "QUEUED" /\ jobs' = [jobs EXCEPT ![j].status = "STARTING"]
  <2>1. PICK e \in Job : /\ jobs' = [jobs EXCEPT ![j] = e] /\ Follows(e, jobs[j])
                         /\ Settled(e) /\ e.answered = jobs[j].answered
    BY <1>1, <1>3, Restated DEF Status, Active
  <2> QED BY <1>1, <2>1, JobStep
<1>4. CASE /\ jobs[j].status \in {"QUEUED", "STARTING"}
           /\ jobs' = [jobs EXCEPT ![j].status = "FAILED"]
  <2>1. PICK e \in Job : /\ jobs' = [jobs EXCEPT ![j] = e] /\ Follows(e, jobs[j])
                         /\ Settled(e) /\ e.answered = jobs[j].answered
    BY <1>1, <1>4, Restated DEF Status, Active, Terminal
  <2> QED BY <1>1, <2>1, JobStep
<1> QED BY <1>2, <1>3, <1>4 DEF Dispatch

\* A container starts a job.
LEMMA StartStep == ASSUME IInv, NEW j \in DOMAIN jobs, Start(j) PROVE Kept
<1>1. PICK e \in Job : /\ jobs' = [jobs EXCEPT ![j] = e] /\ Follows(e, jobs[j])
                       /\ Settled(e) /\ e.answered = jobs[j].answered
  BY Restated DEF Start, Status, Active
<1> QED BY <1>1, JobStep DEF Start, IInv, TypeOK

\* A claim lapses.
LEMMA LapseStep == ASSUME IInv, NEW j \in DOMAIN jobs, ClaimLapse(j) PROVE Kept
<1>1. PICK e \in Job : /\ jobs' = [jobs EXCEPT ![j] = e] /\ Follows(e, jobs[j])
                       /\ Settled(e) /\ e.answered = jobs[j].answered
  BY Reclaimed DEF ClaimLapse
<1> QED BY <1>1, JobStep DEF ClaimLapse, IInv, TypeOK

\* A request ends early, with its claim or without.
LEMMA BreakStep == ASSUME IInv, NEW r \in Requests, Break(r) PROVE Kept
<1>1. /\ TypeOK /\ KnowsOf(r) /\ UNCHANGED <<session, budget>>
      /\ request' \in [Requests -> Call]
      /\ \A s \in Requests : request'[s] # request[s] => KnowsOf(s)'
  BY Finished DEF IInv, Break
<1>2. CASE jobs' = jobs
  BY <1>1, <1>2, RequestStep
<1>3. CASE /\ jobs[request[r].job].claim = r
           /\ jobs' = [jobs EXCEPT ![request[r].job].claim = None]
  <2>1. CASE request[r].job \in DOMAIN jobs
    <3>1. PICK e \in Job : /\ jobs' = [jobs EXCEPT ![request[r].job] = e]
                           /\ Follows(e, jobs[request[r].job])
                           /\ Settled(e) /\ e.answered = jobs[request[r].job].answered
      BY <1>3, <2>1, Reclaimed
    <3> QED BY <1>1, <2>1, <3>1, JobStep
  <2>2. CASE request[r].job \notin DOMAIN jobs
    <3>1. jobs' = jobs
      BY <1>1, <1>3, <2>2 DEF TypeOK
    <3> QED BY <1>1, <3>1, RequestStep
  <2> QED BY <2>1, <2>2
<1> QED BY <1>2, <1>3 DEF Break

\* A job times out or is cancelled, unless it is claimed.
LEMMA CloseStep ==
  ASSUME IInv, NEW r \in Requests, NEW j \in DOMAIN jobs, NEW to \in {"TIMED_OUT", "CANCELLED"},
         Close(r, j, to)
  PROVE  Kept
<1>1. TypeOK /\ j \in Nat /\ UNCHANGED <<session, budget>>
  BY DEF IInv, TypeOK, Close
<1>2. PICK q \in Call : q = [Idle EXCEPT !.pc = "closed", !.job = j]
  BY <1>1 DEF Idle, Call
<1>3. PICK e \in Job : /\ jobs' = [jobs EXCEPT ![j] = e] /\ Follows(e, jobs[j])
                       /\ Settled(e) /\ e.answered = jobs[j].answered
  BY Restated DEF Close, Status, Terminal
<1>4. DOMAIN jobs' = DOMAIN jobs
  BY <1>3, Touched
<1>5. Knows(q)' /\ request' = [request EXCEPT ![r] = q]
  BY <1>2, <1>4 DEF Close, Knows, Idle
<1>6. /\ request' \in [Requests -> Call]
      /\ \A s \in Requests : request'[s] # request[s] => KnowsOf(s)'
  BY <1>1, <1>5, Turned
<1> QED BY <1>1, <1>3, <1>6, JobStep

\* The session of a closed job is read.
LEMMA ReadClosedStep == ASSUME IInv, NEW r \in Requests, ReadClosed(r) PROVE Kept
<1>1. TypeOK /\ KnowsOf(r) /\ request[r].pc = "closed" /\ UNCHANGED <<session, jobs, budget>>
  BY DEF IInv, ReadClosed
<1>2. CASE Goto(r, "rejecting")
  <2>1. PICK q \in Call : /\ request' = [request EXCEPT ![r] = q]
                          /\ q.pc = "rejecting" /\ SameCall(q, request[r])
    BY <1>1, <1>2, Went, Phases
  <2>2. Knows(q)'
    BY <1>1, <2>1 DEF KnowsOf, Knows, SameCall
  <2> QED BY <1>1, <2>1, <2>2, Turned, RequestStep
<1>3. CASE Finish(r)
  BY <1>1, <1>3, Finished, RequestStep
<1> QED BY <1>2, <1>3 DEF ReadClosed

\* Its compilation is rejected.
LEMMA RejectClosedStep == ASSUME IInv, NEW r \in Requests, RejectClosed(r) PROVE Kept
<1>1. /\ TypeOK /\ KnowsOf(r) /\ UNCHANGED <<jobs, budget>>
      /\ request[r].job \in DOMAIN jobs /\ request[r].job \in Nat
      /\ request' \in [Requests -> Call]
      /\ \A s \in Requests : request'[s] # request[s] => KnowsOf(s)'
  BY Finished DEF IInv, TypeOK, RejectClosed, KnowsOf, Knows
<1>2. CASE /\ session.state = "LAB_COMPILING"
           /\ session' = [session EXCEPT !.state = "LAB_REJECTED",
                                         !.rejects = @ \cup {request[r].job}]
  <2>1. /\ session' \in Learner /\ session'.state = "LAB_REJECTED" /\ SameAuthority
        /\ session'.verdict = session.verdict /\ session'.report = session.report
        /\ session'.transfer = session.transfer /\ session'.withheld = session.withheld
    BY <1>1, <1>2 DEF TypeOK, Learner, SameAuthority, States
  <2>2. SameStretch(session.state, session'.state)
    BY <1>2, <2>1 DEF SameStretch, Early, Repaired
  <2> QED BY <1>1, <2>1, <2>2, Strolled, SessionAlone
<1>3. CASE /\ session.state = "PATCH_COMPILING"
           /\ session' = [session EXCEPT !.state = "PATCH_REJECTED"]
  <2>1. SameStretch(session.state, "PATCH_REJECTED") /\ "PATCH_REJECTED" \in States
    BY <1>3 DEF SameStretch, Early, Repaired, States
  <2> QED BY <1>1, <1>3, <2>1, Moved, SessionAlone
<1> QED BY <1>2, <1>3 DEF RejectClosed

\* The learner goes on without a job.
LEMMA LearnStep == ASSUME IInv, Learn PROVE Kept
<1>1. /\ TypeOK /\ UNCHANGED <<jobs, request, budget>>
      /\ session.state = "BOUNDARY_VERIFIED"
      /\ session' = [session EXCEPT !.state = "TRANSFER_PASSED", !.transfer = TRUE]
  BY DEF IInv, Learn
<1>2. /\ session' \in Learner /\ session'.state = "TRANSFER_PASSED" /\ SameAuthority
      /\ session'.verdict = session.verdict /\ session'.report = session.report
      /\ session'.transfer /\ session'.withheld = session.withheld
  BY <1>1 DEF TypeOK, Learner, SameAuthority, States
<1>3. SameStretch(session.state, session'.state)
  BY <1>1, <1>2 DEF SameStretch, Early, Repaired
<1> QED BY <1>1, <1>2, <1>3, Strolled, SessionAlone DEF TypeOK

-----------------------------------------------------------------------------
(* The callback's steps *)

\* A callback claims a live job, or repeats one that was recorded.
LEMMA ClaimStep ==
  ASSUME IInv, NEW r \in Requests, NEW j \in DOMAIN jobs, NEW message \in {"VERIFIED", "FAILED"},
         Claim(r, j, message)
  PROVE  Kept
<1>1. TypeOK /\ j \in Nat /\ UNCHANGED <<session, budget>>
  BY DEF IInv, TypeOK, Claim
<1> DEFINE Known(d) == [Idle EXCEPT !.pc = "claimed", !.job = j, !.message = message,
                                    !.duplicate = d]
<1>2. \A d \in {TRUE, FALSE} : /\ Known(d) \in Call /\ Known(d).pc = "claimed"
                              /\ Known(d).job = j /\ Known(d).message = message
  <2>1. /\ Known(TRUE) \in Call /\ Known(TRUE).pc = "claimed"
        /\ Known(TRUE).job = j /\ Known(TRUE).message = message
    BY <1>1 DEF Idle, Call
  <2>2. /\ Known(FALSE) \in Call /\ Known(FALSE).pc = "claimed"
        /\ Known(FALSE).job = j /\ Known(FALSE).message = message
    BY <1>1 DEF Idle, Call
  <2> HIDE DEF Known
  <2> QED BY <2>1, <2>2, Zenon
<1>3. request' = [request EXCEPT ![r] = Known(jobs[j].receipt # None)]
  BY DEF Claim
<1> HIDE DEF Known
<1>4. PICK q \in Call : /\ q.pc = "claimed" /\ q.job = j /\ q.message = message
                       /\ request' = [request EXCEPT ![r] = q]
  <2>1. (jobs[j].receipt # None) \in {TRUE, FALSE}
    OBVIOUS
  <2> QED BY <1>2, <1>3, <2>1, Zenon
<1>5. CASE jobs' = jobs
  <2>1. Knows(q)'
    BY <1>4, <1>5, ConstantsOK DEF Knows
  <2> QED BY <1>1, <1>4, <1>5, <2>1, Turned, RequestStep
<1>6. CASE jobs' = [jobs EXCEPT ![j].claim = r]
  <2>1. PICK e \in Job : /\ jobs' = [jobs EXCEPT ![j] = e] /\ Follows(e, jobs[j])
                         /\ Settled(e) /\ e.answered = jobs[j].answered
    BY <1>6, Reclaimed
  <2>2. DOMAIN jobs' = DOMAIN jobs
    BY <2>1, Touched
  <2>3. Knows(q)'
    BY <1>4, <2>2, ConstantsOK DEF Knows
  <2> QED BY <1>1, <1>4, <2>1, <2>3, Turned, JobStep
<1> QED BY <1>5, <1>6 DEF Claim

\* Whenever the bytes of a job are verified, the answer is the job's.
LEMMA SameFinding ==
  ASSUME IInv, NEW j \in DOMAIN jobs
  PROVE  Verified(session, j) = jobs[j].found
<1>1. jobs[j] \in Job /\ Due(jobs[j].kind, jobs[j].basis)
  BY DEF IInv, TypeOK, JobStands
<1>2. session.lab # 0 => LabStands(session)
  BY DEF IInv, AuthorityIsBacked, Backs, LabStands
<1>3. session.result # 0 => session.verdict \in {"SUPPORTS", "INCONCLUSIVE"}
  BY DEF IInv, InOrder, TypeOK, Learner
<1> QED BY <1>1, <1>2, <1>3
        DEF Job, Kinds, Due, Verified, CompileAuthority, RunAuthority, BoundaryAuthority,
            PatchAuthority

\* A request is answered: the job has a receipt and was projected.
LEMMA AnswerStep ==
  ASSUME IInv, NEW r \in Requests, request[r].pc \notin {"idle", "asked", "begin", "create"},
         Answer(r), UNCHANGED budget,
         session' \in Learner, InOrder(session)', SessionGrows, JobsGrow => AuthorityIsBacked',
         jobs[request[r].job].receipt # None,
         \A j \in DOMAIN jobs : j = request[r].job /\ JobsGrow => Projected(j)'
  PROVE  Kept
<1>1. /\ TypeOK /\ Finish(r) /\ KnowsOf(r)
      /\ jobs' = [jobs EXCEPT ![request[r].job].answered = TRUE]
  BY DEF IInv, Answer
<1>2. PICK j \in DOMAIN jobs : j = request[r].job
  BY <1>1 DEF KnowsOf, Knows
<1> QED BY <1>1, <1>2, Finished, SessionStep

\* It is verified against the session, or answered if the session carries it.
LEMMA ReadStep == ASSUME IInv, NEW r \in Requests, Read(r) PROVE Kept
<1> DEFINE p == request[r]
<1>1. /\ TypeOK /\ p \in Call /\ KnowsOf(r) /\ p.pc = "claimed" /\ UNCHANGED <<session, budget>>
      /\ p.job \in DOMAIN jobs /\ p.message \in {"VERIFIED", "FAILED"}
  BY DEF IInv, TypeOK, Read, KnowsOf, Knows, Call
<1>2. CASE p.duplicate /\ AlreadyProjected(session, p.job) /\ Answer(r)
  <2>1. PICK j \in DOMAIN jobs : j = p.job
    BY <1>1
  <2>2. j \in Nat /\ j # 0 /\ j \in {session.lab, session.result, session.boundary, session.patch}
    BY <1>1, <1>2, <2>1 DEF TypeOK, AlreadyProjected
  <2>3. jobs[j].receipt # None /\ Projected(j)
    BY <2>2, ConstantsOK DEF IInv, AuthorityIsBacked, Backs, JobStands, Projected, Good
  <2>4. /\ session' \in Learner /\ InOrder(session)' /\ SessionGrows
        /\ JobsGrow => AuthorityIsBacked'
    BY <1>1, AuthorityStays, ConstantsOK
       DEF IInv, TypeOK, InOrder, SessionGrows, SameAuthority
  <2>5. JobsGrow => Projected(j)'
    BY <1>1, <2>3, <2>4, ProjectionStays
  <2> QED BY <1>1, <1>2, <2>1, <2>3, <2>4, <2>5, AnswerStep
<1>3. CASE /\ UNCHANGED jobs
           /\ request' = [request EXCEPT
                ![r].pc = "verifying",
                ![r].finding = IF p.message = "VERIFIED" THEN Verified(session, p.job)
                               ELSE "FAILED"]
  <2> DEFINE finding == IF p.message = "VERIFIED" THEN jobs[p.job].found ELSE "FAILED"
             to == [p EXCEPT !.pc = "verifying", !.finding = finding]
  <2>1. finding \in {None, "VERIFIED", "SUPPORTS", "INCONCLUSIVE", "REJECTED", "BROKEN", "FAILED"}
    <3>1. jobs[p.job] \in Job
      BY <1>1 DEF TypeOK
    <3> QED BY <3>1 DEF Job
  <2>2. request' = [request EXCEPT ![r] = to]
    BY <1>1, <1>3, SameFinding
  <2> HIDE DEF finding
  <2>3. /\ to \in Call /\ to.pc = "verifying" /\ to.finding = finding
        /\ to.job = p.job /\ to.message = p.message
    BY <1>1, <2>1 DEF Call
  <2> HIDE DEF to
  <2>4. PICK q \in Call : q = to
    BY <2>3
  <2>5. Knows(q)'
    BY <1>1, <1>3, <2>3, <2>4, ConstantsOK DEF Knows, finding
  <2> QED BY <1>1, <1>3, <2>2, <2>4, <2>5, Turned, RequestStep
<1> QED BY <1>2, <1>3 DEF Read

\* Its finding is recorded under its claim.
LEMMA RecordStep == ASSUME IInv, NEW r \in Requests, Record(r) PROVE Kept
<1> DEFINE p == request[r]
           j == p.job
<1>1. /\ TypeOK /\ p \in Call /\ Knows(p) /\ p.pc = "verifying" /\ UNCHANGED <<session, budget>>
      /\ j \in DOMAIN jobs /\ p.message \in {"VERIFIED", "FAILED"}
      /\ jobs[j] \in Job /\ JobStands(j)
  BY DEF IInv, TypeOK, Record, KnowsOf, Knows, Call
<1>2. CASE /\ jobs[j].receipt = p.message /\ UNCHANGED jobs
           /\ request' = [request EXCEPT ![r].pc = "recorded", ![r].duplicate = TRUE]
  <2> DEFINE to == [p EXCEPT !.pc = "recorded", !.duplicate = TRUE]
  <2>1. request' = [request EXCEPT ![r] = to]
    BY <1>1, <1>2
  <2>2. /\ to \in Call /\ to.pc = "recorded" /\ to.finding = p.finding
        /\ to.job = p.job /\ to.message = p.message
    BY <1>1 DEF Call
  <2> HIDE DEF to
  <2>3. PICK q \in Call : q = to
    BY <2>2
  <2>4. Knows(q)'
    BY <1>1, <1>2, <2>2, <2>3 DEF Knows
  <2> QED BY <1>1, <1>2, <2>1, <2>3, <2>4, Turned, RequestStep
<1>3. CASE /\ jobs[j].receipt = None /\ jobs[j].claim = r
           /\ Terminated(r) \in Transitions[jobs[j].status]
           /\ jobs' = [jobs EXCEPT ![j].status = Terminated(r), ![j].claim = None,
                                   ![j].receipt = p.message]
           /\ Goto(r, "recorded")
  <2> DEFINE e == [jobs[j] EXCEPT !.status = Terminated(r), !.claim = None,
                                  !.receipt = p.message]
  <2>1. /\ p.message = "VERIFIED" =>
             Terminated(r) = IF jobs[j].found \in Good THEN "VERIFIED" ELSE "REJECTED"
        /\ p.message = "FAILED" => Terminated(r) = "FAILED"
    BY <1>1 DEF Terminated, Knows, Good, Job
  <2>2. Terminated(r) \in Status /\ jobs[j].status \in Active
    <3>1. Terminated(r) \in Status
      BY <1>1, <2>1 DEF Status, Terminal
    <3>2. jobs[j].status \in Status
      BY <1>1 DEF Job
    <3> QED BY <1>3, <3>1, <3>2 DEF Transitions, Status, Active, Terminal
  <2>3. jobs' = [jobs EXCEPT ![j] = e]
    BY <1>1, <1>3
  <2>4. /\ e \in Job /\ e.kind = jobs[j].kind /\ e.basis = jobs[j].basis
        /\ e.found = jobs[j].found /\ e.status = Terminated(r)
        /\ e.receipt = p.message /\ e.answered = jobs[j].answered
    BY <1>1, <2>2 DEF Job
  <2> HIDE DEF e
  <2>5. Follows(e, jobs[j])
    BY <1>3, <2>2, <2>4 DEF Follows, Live
  <2>6. Settled(e)
    BY <1>1, <1>3, <2>1, <2>4, ConstantsOK DEF Settled, JobStands
  <2>7. DOMAIN jobs' = DOMAIN jobs /\ jobs'[j] = e
    BY <1>1, <2>3, <2>4, <2>5, Touched
  <2>8. PICK q \in Call : /\ request' = [request EXCEPT ![r] = q]
                          /\ q.pc = "recorded" /\ SameCall(q, request[r])
    BY <1>1, <1>3, Went, Phases
  <2>9. Knows(q)'
    BY <1>1, <2>4, <2>7, <2>8 DEF Knows, SameCall
  <2> QED BY <1>1, <2>3, <2>4, <2>5, <2>6, <2>8, <2>9, Turned, JobStep
<1> QED BY <1>2, <1>3 DEF Record

\* The session is read once more.
LEMMA RereadStep == ASSUME IInv, NEW r \in Requests, Reread(r) PROVE Kept
<1> DEFINE p == request[r]
           to == [p EXCEPT !.pc = "projecting", !.snap = session]
<1>1. /\ TypeOK /\ p \in Call /\ Knows(p) /\ p.pc = "recorded"
      /\ UNCHANGED <<session, jobs, budget>> /\ InOrder(session) /\ session \in Learner
  BY DEF IInv, TypeOK, Reread, KnowsOf
<1>2. request' = [request EXCEPT ![r] = to]
  BY <1>1 DEF Reread
<1>3. /\ to \in Call /\ to.pc = "projecting" /\ to.snap = session
      /\ to.finding = p.finding /\ to.job = p.job /\ to.message = p.message
  BY <1>1 DEF Call
<1> HIDE DEF to
<1>4. PICK q \in Call : q = to
  BY <1>3
<1>5. Knows(q)'
  <2>1. Earlier(session)
    BY <1>1 DEF Earlier
  <2> QED BY <1>1, <1>3, <1>4, <2>1 DEF Knows, Earlier
<1> QED BY <1>1, <1>2, <1>4, <1>5, Turned, RequestStep

-----------------------------------------------------------------------------
(* The projections *)

\* What a projecting request stands on.
LEMMA Projecting ==
  ASSUME IInv, NEW r \in Requests, NEW kind, Project(r, kind)
  PROVE  LET q == request[r] IN
         /\ q.pc = "projecting" /\ UNCHANGED budget
         /\ q.job \in DOMAIN jobs /\ q.job \in Nat \ {0} /\ jobs[q.job].kind = kind
         /\ q.message \in {"VERIFIED", "FAILED"} /\ jobs[q.job].receipt = q.message
         /\ jobs[q.job].receipt # None
         /\ q.finding = IF q.message = "VERIFIED" THEN jobs[q.job].found ELSE "FAILED"
         /\ Terminated(r) = jobs[q.job].status
         /\ q.snap \in Learner /\ Earlier(q.snap)
         /\ JobStands(q.job) /\ session \in Learner /\ InOrder(session) /\ TypeOK
<1> DEFINE q == request[r]
<1>1. /\ TypeOK /\ q \in Call /\ Knows(q) /\ q.pc = "projecting" /\ UNCHANGED budget
      /\ jobs[q.job].kind = kind
  BY DEF IInv, TypeOK, Project, KnowsOf
<1>2. /\ q.job \in DOMAIN jobs /\ q.job \in Nat \ {0} /\ jobs[q.job] \in Job
  BY <1>1 DEF Knows, TypeOK
<1>3. /\ q.message \in {"VERIFIED", "FAILED"} /\ jobs[q.job].receipt = q.message
      /\ q.finding = IF q.message = "VERIFIED" THEN jobs[q.job].found ELSE "FAILED"
      /\ q.snap \in Learner /\ Earlier(q.snap)
  BY <1>1 DEF Knows, Call
<1>4. JobStands(q.job) /\ session \in Learner /\ InOrder(session)
  BY <1>1, <1>2 DEF IInv, TypeOK
<1>5. Terminated(r) = jobs[q.job].status
  BY <1>2, <1>3, <1>4 DEF Terminated, JobStands, Good, Job
<1>6. jobs[q.job].receipt # None
  BY <1>3, ConstantsOK
<1> QED BY <1>1, <1>2, <1>3, <1>4, <1>5, <1>6

\* What is answered with the session as it is.
LEMMA AnsweredAsIs ==
  ASSUME IInv, NEW r \in Requests, NEW kind, Project(r, kind), Answer(r),
         session' = session, Projected(request[r].job)
  PROVE  Kept
<1>1. PICK j \in DOMAIN jobs : j = request[r].job /\ jobs[j].receipt # None
  BY Projecting
<1>2. /\ session' \in Learner /\ InOrder(session)' /\ SessionGrows /\ SameAuthority
  BY Projecting DEF InOrder, SessionGrows, SameAuthority
<1>3. JobsGrow => AuthorityIsBacked'
  BY <1>2, AuthorityStays, ConstantsOK DEF IInv
<1>4. JobsGrow => Projected(j)'
  BY <1>1, <1>2, ProjectionStays DEF IInv
<1> QED BY <1>1, <1>2, <1>3, <1>4, Projecting, AnswerStep

\* What is answered with the session moved on, carrying what it carried.
LEMMA AnsweredMoving ==
  ASSUME IInv, NEW r \in Requests, NEW kind, Project(r, kind), Answer(r),
         session' \in Learner, InOrder(session)', SessionGrows, JobsGrow => AuthorityIsBacked',
         Projected(request[r].job)
  PROVE  Kept
<1>1. PICK j \in DOMAIN jobs : j = request[r].job /\ jobs[j].receipt # None
  BY Projecting
<1>2. JobsGrow => Projected(j)'
  BY <1>1, ProjectionStays DEF IInv
<1> QED BY <1>1, <1>2, Projecting, AnswerStep

\* A verified lab is projected to the compilation that asked for it.
LEMMA VerifiedLabStep == ASSUME IInv, NEW r \in Requests, ProjectVerifiedLab(r) PROVE Kept
<1> DEFINE q == request[r]
<1>1. /\ Project(r, "LAB_COMPILE") /\ Answer(r) /\ Terminated(r) = "VERIFIED"
      /\ jobs[q.job].status = "VERIFIED" /\ jobs[q.job].kind = "LAB_COMPILE"
      /\ jobs[q.job].receipt = "VERIFIED" /\ jobs[q.job].basis = <<0, 0>>
      /\ q.job \in DOMAIN jobs /\ q.job \in Nat \ {0}
  BY Projecting DEF ProjectVerifiedLab, JobStands, Due
<1>2. CASE q.snap.state # "LAB_COMPILING" /\ q.snap.lab = q.job /\ session' = session
  <2>1. Projected(q.job)
    BY <1>1, <1>2, Projecting DEF Projected, Earlier
  <2> QED BY <1>1, <1>2, <2>1, AnsweredAsIs
<1>3. CASE /\ session.state = "LAB_COMPILING"
           /\ session' = [session EXCEPT !.state = "LAB_VERIFIED", !.lab = q.job]
  <2>1. /\ session' \in Learner /\ session'.state = "LAB_VERIFIED" /\ session'.lab = q.job
        /\ session'.result = session.result /\ session'.verdict = session.verdict
        /\ session'.report = session.report /\ session'.boundary = session.boundary
        /\ session'.patch = session.patch /\ session'.transfer = session.transfer
        /\ session'.withheld = session.withheld
    BY <1>1, <1>3, Projecting DEF Learner, States
  <2>2. session.lab = 0 /\ session.result = 0 /\ session.boundary = 0 /\ session.patch = 0
    BY <1>3 DEF IInv, InOrder, Early, Repaired
  <2>3. InOrder(session)'
    BY <1>1, <1>3, <2>1, Projecting DEF InOrder, Early, Repaired
  <2>4. SessionGrows
    BY <2>1, <2>2 DEF SessionGrows
  <2>5. PICK j \in DOMAIN jobs : j = q.job
    BY <1>1
  <2>6. ASSUME JobsGrow PROVE AuthorityIsBacked' /\ Projected(j)'
    <3>1. Backs(j, "LAB_COMPILE", <<0, 0>>)
      BY <1>1, <2>5 DEF Backs
    <3>2. Backs(j, "LAB_COMPILE", <<0, 0>>)'
      BY <2>6, <3>1, BackingStays, ConstantsOK
    <3>3. AuthorityIsBacked'
      BY <2>1, <2>2, <2>5, <3>2 DEF AuthorityIsBacked, Backs
    <3>4. Projected(j)'
      BY <1>1, <2>1, <2>5, <2>6, SettledStays, ConstantsOK DEF Projected
    <3> QED BY <3>3, <3>4
  <2> QED BY <1>1, <2>1, <2>3, <2>4, <2>5, <2>6, Projecting, AnswerStep
<1> QED BY <1>2, <1>3 DEF ProjectVerifiedLab

\* A rejected lab takes nothing from the session.
LEMMA RejectedLabStep == ASSUME IInv, NEW r \in Requests, ProjectRejectedLab(r) PROVE Kept
<1> DEFINE q == request[r]
<1>1. /\ Project(r, "LAB_COMPILE") /\ Answer(r)
      /\ jobs[q.job].status # "VERIFIED" /\ jobs[q.job].kind = "LAB_COMPILE"
      /\ Projected(q.job) /\ q.job \in Nat
  BY Projecting DEF ProjectRejectedLab, Projected
<1>2. CASE session' = session
  BY <1>1, <1>2, AnsweredAsIs
<1>3. CASE /\ session.state = "LAB_COMPILING"
           /\ session' = [session EXCEPT !.state = "LAB_REJECTED", !.rejects = @ \cup {q.job}]
  <2>1. /\ session' \in Learner /\ session'.state = "LAB_REJECTED" /\ SameAuthority
        /\ session'.verdict = session.verdict /\ session'.report = session.report
        /\ session'.transfer = session.transfer /\ session'.withheld = session.withheld
    BY <1>1, <1>3, Projecting DEF Learner, SameAuthority, States
  <2>2. SameStretch(session.state, session'.state)
    BY <1>3, <2>1 DEF SameStretch, Early, Repaired
  <2> QED BY <1>1, <2>1, <2>2, Strolled, AnsweredMoving
<1> QED BY <1>2, <1>3 DEF ProjectRejectedLab

\* A result is released from the session's own lab.
LEMMA ResultStep == ASSUME IInv, NEW r \in Requests, ProjectResult(r) PROVE Kept
<1> DEFINE q == request[r]
<1>1. /\ Project(r, "LAB_RUN") /\ Answer(r) /\ Terminated(r) = "VERIFIED"
      /\ jobs[q.job].status = "VERIFIED" /\ jobs[q.job].kind = "LAB_RUN"
      /\ jobs[q.job].receipt = "VERIFIED" /\ jobs[q.job].basis = <<session.lab, 0>>
      /\ session.lab # 0
      /\ q.job \in DOMAIN jobs /\ q.job \in Nat \ {0}
  BY Projecting DEF ProjectResult, JobStands, Due
<1>2. q.finding = jobs[q.job].found /\ q.finding \in {"SUPPORTS", "INCONCLUSIVE"}
  <2>1. q.message = "VERIFIED"
    BY <1>1, Projecting
  <2> QED BY <1>1, <2>1, Projecting DEF JobStands, Good, Findings
<1>3. CASE q.snap.result = q.job /\ session' = session
  <2>1. Projected(q.job)
    BY <1>1, <1>3, Projecting DEF Projected, Earlier, JobStands, Good
  <2> QED BY <1>1, <1>3, <2>1, AnsweredAsIs
<1>4. CASE /\ MayRelease(session)
           /\ session' = [session EXCEPT !.state = "EXPERIMENT_COMPLETED", !.result = q.job,
                                         !.report = q.job, !.verdict = q.finding]
  <2>1. /\ session' \in Learner /\ session'.state = "EXPERIMENT_COMPLETED"
        /\ session'.lab = session.lab
        /\ session'.result = q.job /\ session'.verdict = q.finding
        /\ session'.report = q.job /\ session'.boundary = session.boundary
        /\ session'.patch = session.patch /\ session'.transfer = session.transfer
        /\ session'.withheld = session.withheld
    BY <1>1, <1>2, <1>4, Projecting DEF Learner, States
  <2>2. session.result = 0 /\ session.boundary = 0 /\ session.patch = 0
    BY <1>4 DEF MayRelease, IInv, InOrder, Early, Repaired
  <2>3. InOrder(session)'
    BY <1>1, <1>2, <1>4, <2>1, Projecting, ConstantsOK DEF InOrder, Early, Repaired, MayRelease
  <2>4. SessionGrows
    BY <2>1, <2>2 DEF SessionGrows
  <2>5. PICK j \in DOMAIN jobs : j = q.job
    BY <1>1
  <2>6. ASSUME JobsGrow PROVE AuthorityIsBacked' /\ Projected(j)'
    <3>1. PICK lab \in Nat : lab = session.lab
      BY <1>1, Projecting DEF Learner
    <3>2. Backs(j, "LAB_RUN", <<lab, 0>>) /\ Backs(lab, "LAB_COMPILE", <<0, 0>>)
      BY <1>1, <2>5, <3>1 DEF Backs, IInv, AuthorityIsBacked
    <3>3. Backs(j, "LAB_RUN", <<lab, 0>>)' /\ Backs(lab, "LAB_COMPILE", <<0, 0>>)'
      BY <2>6, <3>2, BackingStays, ConstantsOK
    <3>4. /\ jobs'[j].kind = jobs[j].kind /\ jobs'[j].found = jobs[j].found
          /\ jobs'[j].status = jobs[j].status /\ jobs'[j].receipt = jobs[j].receipt
      BY <1>1, <2>5, <2>6, SettledStays, ConstantsOK
    <3>5. AuthorityIsBacked'
      BY <1>2, <2>1, <2>2, <2>5, <3>1, <3>3, <3>4 DEF AuthorityIsBacked, Backs
    <3>6. Projected(j)'
      BY <1>1, <1>2, <2>1, <2>5, <3>4 DEF Projected
    <3> QED BY <3>5, <3>6
  <2> QED BY <1>1, <2>1, <2>3, <2>4, <2>5, <2>6, Projecting, AnswerStep
<1> QED BY <1>3, <1>4 DEF ProjectResult

\* A verdict without release is withheld once.
LEMMA RejectionStep == ASSUME IInv, NEW r \in Requests, ProjectRejection(r) PROVE Kept
<1> DEFINE q == request[r]
<1>1. /\ Project(r, "LAB_RUN") /\ Answer(r) /\ q.finding = "REJECTED"
      /\ q.job \in DOMAIN jobs /\ q.job \in Nat \ {0}
  BY Projecting DEF ProjectRejection
<1>2. jobs[q.job].kind = "LAB_RUN" /\ jobs[q.job].status # "VERIFIED"
  BY <1>1, Projecting DEF JobStands, Good
<1>3. CASE /\ session' = session
           /\ \/ MayRelease(q.snap) /\ q.snap.report = q.job
              \/ q.duplicate /\ q.job \in session.withheld
  <2>1. q.job \in session.withheld
    BY <1>1, <1>3, Projecting DEF Earlier, InOrder, MayRelease
  <2>2. Projected(q.job)
    BY <1>2, <2>1 DEF Projected
  <2> QED BY <1>1, <1>3, <2>2, AnsweredAsIs
<1>4. CASE /\ MayRelease(session)
           /\ session' = [session EXCEPT !.verdict = "REJECTED", !.report = q.job,
                                         !.withheld = @ \cup {q.job}]
  <2>1. /\ session' \in Learner /\ session'.state = session.state /\ SameAuthority
        /\ session'.verdict = "REJECTED" /\ session'.report = q.job
        /\ session'.transfer = session.transfer
        /\ session'.withheld = session.withheld \cup {q.job}
    BY <1>1, <1>4, Projecting DEF Learner, SameAuthority, MayRelease
  <2>2. InOrder(session)'
    BY <1>4, <2>1 DEF IInv, InOrder, MayRelease, SameAuthority
  <2>3. SessionGrows
    BY <1>4, <2>1 DEF SessionGrows, SameAuthority, MayRelease
  <2>4. PICK j \in DOMAIN jobs : j = q.job
    BY <1>1
  <2>5. ASSUME JobsGrow PROVE AuthorityIsBacked' /\ Projected(j)'
    <3>1. AuthorityIsBacked'
      BY <2>1, <2>5, AuthorityStays, ConstantsOK DEF IInv
    <3>2. Projected(j)'
      BY <1>1, <1>2, <2>1, <2>4, <2>5, SettledStays, Projecting DEF Projected
    <3> QED BY <3>1, <3>2
  <2> QED BY <1>1, <2>1, <2>2, <2>3, <2>4, <2>5, Projecting, AnswerStep
<1> QED BY <1>3, <1>4, <1>1 DEF ProjectRejection

\* What projects nothing leaves nothing to carry.
LEMMA NothingStep == ASSUME IInv, NEW r \in Requests, ProjectNothing(r) PROVE Kept
<1> DEFINE q == request[r]
<1>1. Answer(r) /\ session' = session
  BY DEF ProjectNothing
<1>2. CASE Project(r, "LAB_RUN") /\ q.finding \in {"FAILED", "BROKEN"}
  <2>1. Projected(q.job)
    BY <1>2, Projecting DEF Projected, JobStands, Good
  <2> QED BY <1>1, <1>2, <2>1, AnsweredAsIs
<1>3. CASE Project(r, "BOUNDARY") /\ Terminated(r) # "VERIFIED"
  <2>1. Projected(q.job)
    BY <1>3, Projecting DEF Projected
  <2> QED BY <1>1, <1>3, <2>1, AnsweredAsIs
<1> QED BY <1>2, <1>3 DEF ProjectNothing

\* A Boundary Map is of the result released.
LEMMA BoundaryStep == ASSUME IInv, NEW r \in Requests, ProjectBoundary(r) PROVE Kept
<1> DEFINE q == request[r]
<1>1. /\ Project(r, "BOUNDARY") /\ Answer(r) /\ Terminated(r) = "VERIFIED"
      /\ jobs[q.job].status = "VERIFIED" /\ jobs[q.job].kind = "BOUNDARY"
      /\ jobs[q.job].receipt = "VERIFIED" /\ jobs[q.job].basis = <<session.lab, session.result>>
      /\ session.lab # 0 /\ session.result # 0
      /\ q.job \in DOMAIN jobs /\ q.job \in Nat \ {0}
  BY Projecting DEF ProjectBoundary, JobStands, Due
<1>2. CASE q.snap.boundary = q.job /\ session' = session
  <2>1. Projected(q.job)
    BY <1>1, <1>2, Projecting DEF Projected, Earlier
  <2> QED BY <1>1, <1>2, <2>1, AnsweredAsIs
<1>3. CASE /\ session.state = "EXPERIMENT_COMPLETED" /\ session.boundary = 0
           /\ session' = [session EXCEPT !.state = "BOUNDARY_VERIFIED", !.boundary = q.job]
  <2>1. /\ session' \in Learner /\ session'.state = "BOUNDARY_VERIFIED"
        /\ session'.lab = session.lab /\ session'.result = session.result
        /\ session'.verdict = session.verdict
        /\ session'.report = session.report /\ session'.boundary = q.job
        /\ session'.patch = session.patch /\ session'.transfer = session.transfer
        /\ session'.withheld = session.withheld
    BY <1>1, <1>3, Projecting DEF Learner, States
  <2>2. session.patch = 0
    BY <1>3 DEF IInv, InOrder, Repaired
  <2>3. InOrder(session)'
    BY <1>1, <1>3, <2>1, <2>2 DEF IInv, InOrder, Early, Repaired
  <2>4. SessionGrows
    BY <1>3, <2>1, <2>2 DEF SessionGrows
  <2>5. PICK j \in DOMAIN jobs : j = q.job
    BY <1>1
  <2>6. ASSUME JobsGrow PROVE AuthorityIsBacked' /\ Projected(j)'
    <3>1. PICK lab, result : lab = session.lab /\ result = session.result
      OBVIOUS
    <3>2. /\ Backs(j, "BOUNDARY", <<lab, result>>) /\ Backs(lab, "LAB_COMPILE", <<0, 0>>)
          /\ Backs(result, "LAB_RUN", <<lab, 0>>) /\ session.verdict = jobs[result].found
      BY <1>1, <2>5, <3>1 DEF Backs, IInv, AuthorityIsBacked
    <3>3. /\ Backs(j, "BOUNDARY", <<lab, result>>)' /\ Backs(lab, "LAB_COMPILE", <<0, 0>>)'
          /\ Backs(result, "LAB_RUN", <<lab, 0>>)'
      BY <2>6, <3>2, BackingStays, ConstantsOK
    <3>4. jobs'[result].found = jobs[result].found
      BY <2>6, <3>2 DEF Backs, JobsGrow, JobGrows
    <3>5. AuthorityIsBacked'
      BY <2>1, <2>2, <2>5, <3>1, <3>2, <3>3, <3>4 DEF AuthorityIsBacked
    <3>6. Projected(j)'
      BY <1>1, <2>1, <2>5, <2>6, SettledStays, ConstantsOK DEF Projected
    <3> QED BY <3>5, <3>6
  <2> QED BY <1>1, <2>1, <2>3, <2>4, <2>5, <2>6, Projecting, AnswerStep
<1> QED BY <1>2, <1>3 DEF ProjectBoundary

\* A request goes on with another session it has read.
LEMMA Rereading ==
  ASSUME TypeOK, NEW r \in Requests, NEW s \in Learner,
         \/ request' = [request EXCEPT ![r].pc = "proving", ![r].snap = s]
         \/ request' = [request EXCEPT ![r].snap = s] /\ request[r].pc = "proving"
  PROVE  \E q \in Call : /\ request' = [request EXCEPT ![r] = q]
                         /\ q.pc = "proving" /\ q.snap = s
                         /\ q.job = request[r].job /\ q.message = request[r].message
                         /\ q.finding = request[r].finding
<1> DEFINE q == [request[r] EXCEPT !.pc = "proving", !.snap = s]
<1>1. request[r] \in Call
  BY DEF TypeOK
<1>2. /\ q \in Call /\ q.pc = "proving" /\ q.snap = s
      /\ q.job = request[r].job /\ q.message = request[r].message
      /\ q.finding = request[r].finding
  BY <1>1 DEF Call
<1>3. request' = [request EXCEPT ![r] = q]
  <2>1. CASE request' = [request EXCEPT ![r].pc = "proving", ![r].snap = s]
    BY <2>1 DEF TypeOK
  <2>2. CASE request' = [request EXCEPT ![r].snap = s] /\ request[r].pc = "proving"
    <3>1. q = [request[r] EXCEPT !.snap = s]
      BY <1>1, <2>2 DEF Call
    <3> QED BY <2>2, <3>1 DEF TypeOK
  <2> QED BY <2>1, <2>2
<1> QED BY <1>2, <1>3

\* A proof goes on from the session its last step left.
LEMMA ProvingOn ==
  ASSUME IInv, NEW r \in Requests, session' \in Learner, InOrder(session)', SessionGrows,
         JobsGrow => AuthorityIsBacked', UNCHANGED <<jobs, budget>>,
         \/ request' = [request EXCEPT ![r].pc = "proving", ![r].snap = session']
         \/ request' = [request EXCEPT ![r].snap = session'] /\ request[r].pc = "proving",
         request[r].job \in DOMAIN jobs, request[r].message # None,
         jobs[request[r].job].kind = "PATCH_COMPILE", session'.patch = request[r].job,
         jobs[request[r].job].receipt = request[r].message,
         request[r].finding = IF request[r].message = "VERIFIED"
                              THEN jobs[request[r].job].found ELSE "FAILED"
  PROVE  Kept
<1>1. PICK s \in Learner : s = session'
  OBVIOUS
<1>2. PICK q \in Call : /\ request' = [request EXCEPT ![r] = q]
                        /\ q.pc = "proving" /\ q.snap = s
                        /\ q.job = request[r].job /\ q.message = request[r].message
                        /\ q.finding = request[r].finding
  BY <1>1, Rereading DEF IInv
<1>3. Earlier(s)'
  BY <1>1 DEF Earlier, InOrder
<1>4. Knows(q)'
  BY <1>1, <1>2, <1>3 DEF Knows
<1> QED BY <1>2, <1>4, Turned, SessionAlone DEF IInv

\* A verified patch is of the result released.
LEMMA VerifiedPatchStep == ASSUME IInv, NEW r \in Requests, ProjectVerifiedPatch(r) PROVE Kept
<1> DEFINE q == request[r]
<1>1. /\ Project(r, "PATCH_COMPILE") /\ UNCHANGED <<jobs, budget>>
      /\ jobs[q.job].status = "VERIFIED" /\ jobs[q.job].kind = "PATCH_COMPILE"
      /\ jobs[q.job].receipt = "VERIFIED" /\ jobs[q.job].basis = <<session.lab, session.result>>
      /\ session.lab # 0 /\ session.result # 0
      /\ q.job \in DOMAIN jobs /\ q.job \in Nat \ {0}
      /\ request' = [request EXCEPT ![r].pc = "proving", ![r].snap = session']
  BY Projecting DEF ProjectVerifiedPatch, JobStands, Due
<1>2. /\ q.message # None /\ jobs[q.job].receipt = q.message
      /\ q.finding = IF q.message = "VERIFIED" THEN jobs[q.job].found ELSE "FAILED"
  BY <1>1, Projecting
<1>3. CASE q.snap.patch = q.job /\ session' = session
  <2>1. session'.patch = q.job
    BY <1>1, <1>3, Projecting DEF Earlier
  <2>2. /\ session' \in Learner /\ InOrder(session)' /\ SessionGrows
        /\ JobsGrow => AuthorityIsBacked'
    BY <1>1, <1>3, AuthorityStays, ConstantsOK
       DEF IInv, TypeOK, InOrder, SessionGrows, SameAuthority
  <2> QED BY <1>1, <1>2, <2>1, <2>2, ProvingOn
<1>4. CASE /\ session.state = "PATCH_COMPILING"
           /\ session' = [session EXCEPT !.state = "PATCH_VERIFIED", !.patch = q.job]
  <2>1. /\ session' \in Learner /\ session'.state = "PATCH_VERIFIED"
        /\ session'.lab = session.lab /\ session'.result = session.result
        /\ session'.verdict = session.verdict
        /\ session'.report = session.report /\ session'.boundary = session.boundary
        /\ session'.patch = q.job /\ session'.transfer = session.transfer
        /\ session'.withheld = session.withheld
    BY <1>1, <1>4, Projecting DEF Learner, States
  <2>2. session.patch = 0
    BY <1>4 DEF IInv, InOrder, Repaired
  <2>3. InOrder(session)'
    BY <1>1, <1>4, <2>1 DEF IInv, InOrder, Early, Repaired
  <2>4. SessionGrows
    BY <2>1, <2>2 DEF SessionGrows
  <2>5. ASSUME JobsGrow PROVE AuthorityIsBacked'
    <3>1. PICK lab, result, boundary, patch :
            /\ lab = session.lab /\ result = session.result
            /\ boundary = session.boundary /\ patch = q.job
      OBVIOUS
    <3>2. /\ Backs(patch, "PATCH_COMPILE", <<lab, result>>)
          /\ Backs(lab, "LAB_COMPILE", <<0, 0>>)
          /\ Backs(result, "LAB_RUN", <<lab, 0>>) /\ session.verdict = jobs[result].found
          /\ boundary # 0 => Backs(boundary, "BOUNDARY", <<lab, result>>)
      BY <1>1, <3>1 DEF Backs, IInv, AuthorityIsBacked
    <3>3. /\ Backs(patch, "PATCH_COMPILE", <<lab, result>>)'
          /\ Backs(lab, "LAB_COMPILE", <<0, 0>>)'
          /\ Backs(result, "LAB_RUN", <<lab, 0>>)'
          /\ boundary # 0 => Backs(boundary, "BOUNDARY", <<lab, result>>)'
      BY <2>5, <3>2, BackingStays, ConstantsOK
    <3>4. jobs'[result].found = jobs[result].found
      BY <2>5, <3>2 DEF Backs, JobsGrow, JobGrows
    <3> QED BY <2>1, <3>1, <3>2, <3>3, <3>4 DEF AuthorityIsBacked
  <2> QED BY <1>1, <1>2, <2>1, <2>3, <2>4, <2>5, ProvingOn
<1> QED BY <1>3, <1>4 DEF ProjectVerifiedPatch

\* A rejected patch takes nothing from the session.
LEMMA RejectedPatchStep == ASSUME IInv, NEW r \in Requests, ProjectRejectedPatch(r) PROVE Kept
<1> DEFINE q == request[r]
<1>1. /\ Project(r, "PATCH_COMPILE") /\ Answer(r) /\ Projected(q.job)
  BY Projecting DEF ProjectRejectedPatch, Projected
<1>2. CASE session' = session
  BY <1>1, <1>2, AnsweredAsIs
<1>3. CASE /\ session.state = "PATCH_COMPILING"
           /\ session' = [session EXCEPT !.state = "PATCH_REJECTED"]
  <2>1. SameStretch(session.state, "PATCH_REJECTED") /\ "PATCH_REJECTED" \in States
    BY <1>3 DEF SameStretch, Early, Repaired, States
  <2>2. /\ session' \in Learner /\ InOrder(session)' /\ SessionGrows
        /\ JobsGrow => AuthorityIsBacked'
    BY <1>3, <2>1, Moved
  <2> QED BY <1>1, <2>2, AnsweredMoving
<1> QED BY <1>2, <1>3 DEF ProjectRejectedPatch

\* The proof is issued step by step on what is there.
LEMMA ProveStep == ASSUME IInv, NEW r \in Requests, Prove(r) PROVE Kept
<1> DEFINE q == request[r]
<1>1. /\ TypeOK /\ Knows(q) /\ q.pc = "proving" /\ UNCHANGED budget
      /\ q.job \in DOMAIN jobs /\ q.message # None /\ jobs[q.job].receipt = q.message
      /\ jobs[q.job].kind = "PATCH_COMPILE" /\ session.patch = q.job
      /\ q.finding = IF q.message = "VERIFIED" THEN jobs[q.job].found ELSE "FAILED"
      /\ session \in Learner /\ InOrder(session)
  BY DEF IInv, TypeOK, Prove, KnowsOf, Knows
<1>2. CASE Answer(r) /\ session' = session
  <2>1. PICK j \in DOMAIN jobs : j = q.job
    BY <1>1
  <2>2. Projected(j)
    BY <1>1, <2>1 DEF Projected
  <2>3. /\ InOrder(session)' /\ SessionGrows /\ SameAuthority
    BY <1>1, <1>2 DEF InOrder, SessionGrows, SameAuthority
  <2>4. JobsGrow => AuthorityIsBacked' /\ Projected(j)'
    <3>1. ASSUME JobsGrow PROVE AuthorityIsBacked'
      BY <2>3, <3>1, AuthorityStays, ConstantsOK DEF IInv
    <3>2. ASSUME JobsGrow PROVE Projected(j)'
      BY <1>1, <2>1, <2>2, <2>3, <3>2, ProjectionStays
    <3> QED BY <3>1, <3>2
  <2> QED BY <1>1, <1>2, <2>1, <2>3, <2>4, AnswerStep
<1>3. CASE /\ session.state = "PATCH_VERIFIED"
           /\ session' = [session EXCEPT !.state = "REASONING_DIFF_ISSUED"]
           /\ request' = [request EXCEPT ![r].snap = session'] /\ UNCHANGED jobs
  <2>1. SameStretch(session.state, "REASONING_DIFF_ISSUED") /\ "REASONING_DIFF_ISSUED" \in States
    BY <1>3 DEF SameStretch, Early, Repaired, States
  <2>2. /\ session' \in Learner /\ InOrder(session)' /\ SessionGrows /\ SameAuthority
        /\ JobsGrow => AuthorityIsBacked'
    BY <1>3, <2>1, Moved
  <2> QED BY <1>1, <1>3, <2>2, ProvingOn DEF SameAuthority
<1>4. CASE /\ session.state = "REASONING_DIFF_ISSUED"
           /\ session' = [session EXCEPT !.state = "PROOF_CAPSULE_ISSUED", !.capsule = TRUE]
           /\ request' = [request EXCEPT ![r].snap = session'] /\ UNCHANGED jobs
  <2>1. /\ session' \in Learner /\ session'.state = "PROOF_CAPSULE_ISSUED" /\ SameAuthority
        /\ session'.verdict = session.verdict /\ session'.report = session.report
        /\ session'.transfer = session.transfer /\ session'.withheld = session.withheld
    BY <1>1, <1>4 DEF Learner, SameAuthority, States
  <2>2. SameStretch(session.state, session'.state)
    BY <1>4, <2>1 DEF SameStretch, Early, Repaired
  <2>3. InOrder(session)' /\ SessionGrows /\ (JobsGrow => AuthorityIsBacked')
    BY <2>1, <2>2, Strolled
  <2> QED BY <1>1, <1>4, <2>1, <2>3, ProvingOn DEF SameAuthority
<1> QED BY <1>1, <1>2, <1>3, <1>4 DEF Prove

-----------------------------------------------------------------------------
(* What is promised *)

\* The earlier jobs of the initial sessions went well.
LEMMA InitHolds == Init => IInv
<1> SUFFICES ASSUME Init PROVE IInv
  OBVIOUS
<1>1. Idle \in Call
  BY DEF Idle, Call
<1>2. request \in [Requests -> Call] /\ \A r \in Requests : KnowsOf(r)
  <2>1. request \in [Requests -> Call] /\ \A r \in Requests : request[r].pc = "idle"
    BY <1>1 DEF Init, Idle
  <2> QED BY <2>1 DEF KnowsOf, Knows
<1>3. budget \in 0..MaxNew
  BY ConstantsOK DEF Init
<1> DEFINE first == Ended("LAB_COMPILE", <<0, 0>>, "VERIFIED")
           second == Ended("LAB_RUN", <<1, 0>>, "SUPPORTS")
           third == Ended("BOUNDARY", <<1, 2>>, "VERIFIED")
<1>4. /\ first \in Job /\ first.kind = "LAB_COMPILE" /\ first.basis = <<0, 0>>
      /\ first.found = "VERIFIED" /\ first.status = "VERIFIED" /\ first.receipt = "VERIFIED"
  BY DEF Ended, NewJob, Job, Kinds, Status, Terminal
<1>5. /\ second \in Job /\ second.kind = "LAB_RUN" /\ second.basis = <<1, 0>>
      /\ second.found = "SUPPORTS" /\ second.status = "VERIFIED" /\ second.receipt = "VERIFIED"
  BY DEF Ended, NewJob, Job, Kinds, Status, Terminal
<1>6. /\ third \in Job /\ third.kind = "BOUNDARY" /\ third.basis = <<1, 2>>
      /\ third.found = "VERIFIED" /\ third.status = "VERIFIED" /\ third.receipt = "VERIFIED"
  BY DEF Ended, NewJob, Job, Kinds, Status, Terminal
<1> DEFINE fresh == NewSession
           lately == [fresh EXCEPT !.state = "EXPERIMENT_COMPLETED", !.lab = 1, !.result = 2,
                                   !.report = 2, !.verdict = "SUPPORTS"]
           late == [lately EXCEPT !.state = "TRANSFER_PASSED", !.boundary = 3, !.transfer = TRUE]
<1>7. /\ fresh \in Learner /\ fresh.state = "PREDICTION_COMMITTED" /\ fresh.lab = 0
       /\ fresh.result = 0 /\ fresh.verdict = None /\ fresh.report = 0 /\ fresh.boundary = 0
       /\ fresh.patch = 0 /\ fresh.withheld = {}
  BY DEF NewSession, Learner, States
<1> HIDE DEF fresh
<1>8. /\ lately \in Learner /\ lately.state = "EXPERIMENT_COMPLETED" /\ lately.lab = 1
       /\ lately.result = 2 /\ lately.verdict = "SUPPORTS" /\ lately.report = 2
       /\ lately.boundary = 0 /\ lately.patch = 0
  BY <1>7 DEF Learner, States
<1>9. /\ Released = lately
      /\ [Released EXCEPT !.state = "TRANSFER_PASSED", !.boundary = 3, !.transfer = TRUE] = late
  BY DEF Released, fresh
<1> HIDE DEF lately
<1>10. /\ late \in Learner /\ late.state = "TRANSFER_PASSED" /\ late.lab = 1
       /\ late.result = 2 /\ late.verdict = "SUPPORTS" /\ late.report = 2
       /\ late.boundary = 3 /\ late.patch = 0 /\ late.transfer
  BY <1>8 DEF Learner, States
<1> HIDE DEF late
<1>11. CASE session = NewSession /\ jobs = <<>>
  <2>1. session \in Learner /\ InOrder(session)
    BY <1>11 DEF NewSession, Learner, InOrder, States, Early, Repaired
  <2>2. jobs \in Seq(Job) /\ DOMAIN jobs = {}
    BY <1>11
  <2>3. AuthorityIsBacked /\ AnsweredIsProjected /\ OneJobPerRequest
    BY <1>11, <2>2 DEF NewSession, AuthorityIsBacked, AnsweredIsProjected, OneJobPerRequest
  <2> QED BY <1>2, <1>3, <2>1, <2>2, <2>3 DEF IInv, TypeOK
<1>12. CASE session = Released /\ jobs = LabAndRun
  <2>1. /\ session \in Learner /\ InOrder(session) /\ session.lab = 1 /\ session.result = 2
        /\ session.verdict = "SUPPORTS" /\ session.boundary = 0 /\ session.patch = 0
    <3>1. InOrder(lately)
      BY <1>8, ConstantsOK DEF InOrder, Early, Repaired
    <3>2. session = lately
      BY <1>12, <1>9
    <3> QED BY <1>8, <3>1, <3>2
  <2>2. jobs = <<first, second>>
    BY <1>12 DEF LabAndRun
  <2> HIDE DEF first, second
  <2>3. jobs \in Seq(Job) /\ DOMAIN jobs = {1, 2} /\ jobs[1] = first /\ jobs[2] = second
    BY <1>4, <1>5, <2>2
  <2>4. \A j \in DOMAIN jobs : JobStands(j)
    BY <1>4, <1>5, <2>1, <2>3, ConstantsOK DEF JobStands, Due, Findings, Good
  <2>5. AuthorityIsBacked
    BY <1>4, <1>5, <2>1, <2>3 DEF AuthorityIsBacked, Backs
  <2>6. AnsweredIsProjected /\ OneJobPerRequest
    BY <1>4, <1>5, <2>1, <2>3 DEF AnsweredIsProjected, Projected, OneJobPerRequest
  <2> QED BY <1>2, <1>3, <2>1, <2>3, <2>4, <2>5, <2>6 DEF IInv, TypeOK
<1>13. CASE /\ session = [Released EXCEPT !.state = "TRANSFER_PASSED", !.boundary = 3,
                                         !.transfer = TRUE]
           /\ jobs = Append(LabAndRun, third)
  <2>1. /\ session \in Learner /\ InOrder(session) /\ session.lab = 1 /\ session.result = 2
        /\ session.verdict = "SUPPORTS" /\ session.boundary = 3 /\ session.patch = 0
    <3>1. InOrder(late)
      BY <1>10, ConstantsOK DEF InOrder, Early, Repaired
    <3>2. session = late
      BY <1>13, <1>9
    <3> QED BY <1>10, <3>1, <3>2
  <2>2. jobs = Append(<<first, second>>, third)
    BY <1>13 DEF LabAndRun
  <2> HIDE DEF first, second, third
  <2>3. /\ jobs \in Seq(Job) /\ DOMAIN jobs = {1, 2, 3}
        /\ jobs[1] = first /\ jobs[2] = second /\ jobs[3] = third
    BY <1>4, <1>5, <1>6, <2>2
  <2>4. \A j \in DOMAIN jobs : JobStands(j)
    BY <1>4, <1>5, <1>6, <2>1, <2>3, ConstantsOK DEF JobStands, Due, Findings, Good
  <2>5. AuthorityIsBacked
    BY <1>4, <1>5, <1>6, <2>1, <2>3 DEF AuthorityIsBacked, Backs
  <2>6. AnsweredIsProjected /\ OneJobPerRequest
    BY <1>4, <1>5, <1>6, <2>1, <2>3 DEF AnsweredIsProjected, Projected, OneJobPerRequest
  <2> QED BY <1>2, <1>3, <2>1, <2>3, <2>4, <2>5, <2>6 DEF IInv, TypeOK
<1> QED BY <1>11, <1>12, <1>13 DEF Init

\* Stuttering, and the steps of one request.
LEMMA StutterStep == ASSUME IInv, UNCHANGED vars PROVE Kept
BY RequestStep DEF vars, IInv, TypeOK

\* All a learner's request does.
LEMMA LearnerSteps == ASSUME IInv, NEW r \in Requests, LearnerStep(r) PROVE Kept
BY AskStep, LookStep, BeginStep, CreateStep, DispatchStep, CloseStep, ReadClosedStep,
   RejectClosedStep
   DEF LearnerStep

\* All a callback does.
LEMMA CallbackSteps == ASSUME IInv, NEW r \in Requests, CallbackStep(r) PROVE Kept
BY ClaimStep, ReadStep, RecordStep, RereadStep, VerifiedLabStep, RejectedLabStep, ResultStep,
   RejectionStep, NothingStep, BoundaryStep, VerifiedPatchStep, RejectedPatchStep, ProveStep
   DEF CallbackStep

\* Every step keeps the invariant.
LEMMA NextStep == IInv /\ [Next]_vars => Kept
<1> SUFFICES ASSUME IInv, [Next]_vars PROVE Kept
  OBVIOUS
<1>1. ASSUME NEW r \in Requests, LearnerStep(r) \/ CallbackStep(r) \/ Break(r) PROVE Kept
  BY <1>1, LearnerSteps, CallbackSteps, BreakStep
<1>2. ASSUME NEW j \in DOMAIN jobs, Start(j) \/ ClaimLapse(j) PROVE Kept
  BY <1>2, StartStep, LapseStep
<1>3. CASE Learn
  BY <1>3, LearnStep
<1>4. CASE UNCHANGED vars
  BY <1>4, StutterStep
<1> QED BY <1>1, <1>2, <1>3, <1>4 DEF Next

\* The inductive invariant holds in every reachable state.
THEOREM Invariance == Spec => []IInv
<1>1. Init => IInv
  BY InitHolds
<1>2. IInv /\ [Next]_vars => IInv'
  BY NextStep DEF Kept
<1> QED BY <1>1, <1>2, PTL DEF Spec

\* The variables have their types, for any requests and any number of jobs.
THEOREM TypeCorrect == Spec => []TypeOK
<1>1. IInv => TypeOK
  BY DEF IInv
<1> QED BY <1>1, Invariance, PTL

\* Every authority a session carries is the recorded outcome of the job it names
\* (labVerification, resultAuthority, boundaryMapAuthority, patchAuthority).
THEOREM AuthorityCorrect == Spec => []AuthorityIsBacked
<1>1. IInv => AuthorityIsBacked
  BY DEF IInv
<1> QED BY <1>1, Invariance, PTL

\* A runner that is told its verdict was taken can rely on it (recordCallback,
\* callbackAlreadyProjected).
THEOREM AnswerCorrect == Spec => []AnsweredIsProjected
<1>1. IInv => AnsweredIsProjected
  BY DEF IInv
<1> QED BY <1>1, Invariance, PTL

\* One live or VERIFIED job is made of a request (createOrReuseJob).
THEOREM OneJobCorrect == Spec => []OneJobPerRequest
<1>1. IInv => OneJobPerRequest
  BY DEF IInv
<1> QED BY <1>1, Invariance, PTL

-----------------------------------------------------------------------------
(* Rejections, verdicts without release, and the capsule *)

Over == Terminal \ {"VERIFIED"}

\* Who rejects a compilation after a poll or a cancel has seen its job end.
ClosedAreOver ==
  \A r \in Requests :
    request[r].pc \in {"closed", "rejecting"} =>
      request[r].job \in DOMAIN jobs /\ jobs[request[r].job].status \in Over

CapsuleHasPatch == session.capsule => session.patch # 0

LInv == WithheldIsBacked /\ RejectsAreEnded /\ ClosedAreOver /\ CapsuleHasPatch

\* What is over stays over.
LEMMA OverStays ==
  ASSUME IInv, JobsGrow, TypeOK', NEW j \in DOMAIN jobs, jobs[j].status \in Over
  PROVE  j \in DOMAIN jobs' /\ jobs'[j].status \in Over /\ jobs'[j].kind = jobs[j].kind
<1>1. j \in DOMAIN jobs' /\ JobGrows(j) BY DEF JobsGrow
<1>2. jobs'[j].status \in Status
  <2>1. jobs'[j] \in Job
    <3>1. jobs' \in Seq(Job) BY DEF TypeOK
    <3> QED BY <1>1, <3>1
  <2> QED BY <2>1 DEF Job
<1>3. jobs[j].status \notin Live BY DEF Over, Live, Terminal, Active
<1> QED BY <1>1, <1>2, <1>3 DEF JobGrows, Live, Over, Status

\* Who writes which part of a session.
WritesWithheld ==
  \/ session'.withheld = session.withheld
  \/ \E r \in Requests : /\ ProjectRejection(r)
                         /\ session'.withheld = session.withheld \cup {request[r].job}
WritesRejects ==
  \/ session'.rejects = session.rejects
  \/ \E r \in Requests :
       /\ session'.rejects = session.rejects \cup {request[r].job}
       /\ \/ ProjectRejectedLab(r)
          \/ RejectClosed(r) /\ jobs[request[r].job].kind = "LAB_COMPILE"
WritesCapsule == session'.capsule => session.capsule \/ session.state = "REASONING_DIFF_ISSUED"

Writes == WritesWithheld /\ WritesRejects /\ WritesCapsule

\* Who writes what no authority names.
LEMMA NextWrites ==
  ASSUME IInv, Next
  PROVE  Writes
<1>0. session \in Learner BY DEF IInv, TypeOK
<1>1. ASSUME session' = session PROVE Writes
  BY <1>1 DEF Writes, WritesWithheld, WritesRejects, WritesCapsule
<1>2. ASSUME session'.withheld = session.withheld, session'.rejects = session.rejects,
             session'.capsule = session.capsule
      PROVE  Writes
  BY <1>2 DEF Writes, WritesWithheld, WritesRejects, WritesCapsule
<1>3. ASSUME NEW r \in Requests,
             \/ \E kind \in Kinds : Ask(r, kind)
             \/ Look(r) \/ Create(r) \/ Dispatch(r) \/ ReadClosed(r)
             \/ \E j \in DOMAIN jobs, to \in {"TIMED_OUT", "CANCELLED"} : Close(r, j, to)
             \/ \E j \in DOMAIN jobs, message \in {"VERIFIED", "FAILED"} : Claim(r, j, message)
             \/ Read(r) \/ Record(r) \/ Reread(r) \/ ProjectNothing(r) \/ Break(r)
      PROVE  session' = session
  BY <1>3 DEF Ask, Look, Create, Dispatch, ReadClosed, Close, Claim, Read, Record, Reread,
              ProjectNothing, Break
<1>4. ASSUME NEW j \in DOMAIN jobs, Start(j) \/ ClaimLapse(j) PROVE session' = session
  BY <1>4 DEF Start, ClaimLapse
<1>5. ASSUME NEW r \in Requests,
             \/ Begin(r) \/ ProjectVerifiedLab(r) \/ ProjectResult(r) \/ ProjectBoundary(r)
             \/ ProjectVerifiedPatch(r) \/ ProjectRejectedPatch(r)
      PROVE  Writes
  <2>1. CASE Begin(r)
    <3>1. \/ session' = session
          \/ session' = [session EXCEPT !.state = "LAB_COMPILING"]
          \/ session' = [session EXCEPT !.state = "PATCH_COMPILING"]
      BY <2>1 DEF Begin, BeginLab, BeginRun, BeginBoundary, BeginPatch, Compile
    <3> QED BY <1>0, <1>2, <3>1 DEF Learner
  <2>2. CASE ProjectVerifiedLab(r)
    BY <1>0, <1>2, <2>2 DEF ProjectVerifiedLab, Learner
  <2>3. CASE ProjectResult(r)
    BY <1>0, <1>2, <2>3 DEF ProjectResult, Learner
  <2>4. CASE ProjectBoundary(r)
    BY <1>0, <1>2, <2>4 DEF ProjectBoundary, Learner
  <2>5. CASE ProjectVerifiedPatch(r)
    BY <1>0, <1>2, <2>5 DEF ProjectVerifiedPatch, Learner
  <2>6. CASE ProjectRejectedPatch(r)
    BY <1>0, <1>2, <2>6 DEF ProjectRejectedPatch, Learner
  <2> QED BY <1>5, <2>1, <2>2, <2>3, <2>4, <2>5, <2>6
<1>6. ASSUME NEW r \in Requests, ProjectRejectedLab(r) PROVE Writes
  <2>1. CASE session' = session BY <1>1, <2>1
  <2>2. CASE session' = [session EXCEPT !.state = "LAB_REJECTED",
                                        !.rejects = @ \cup {request[r].job}]
    <3>1. /\ session'.withheld = session.withheld /\ session'.capsule = session.capsule
          /\ session'.rejects = session.rejects \cup {request[r].job}
      BY <1>0, <2>2 DEF Learner
    <3> QED BY <1>6, <3>1 DEF Writes, WritesWithheld, WritesRejects, WritesCapsule
  <2> QED BY <1>6, <2>1, <2>2 DEF ProjectRejectedLab
<1>7. ASSUME NEW r \in Requests, ProjectRejection(r) PROVE Writes
  <2>1. CASE session' = session BY <1>1, <2>1
  <2>2. CASE session' = [session EXCEPT !.verdict = "REJECTED", !.report = request[r].job,
                                        !.withheld = @ \cup {request[r].job}]
    <3>1. /\ session'.rejects = session.rejects /\ session'.capsule = session.capsule
          /\ session'.withheld = session.withheld \cup {request[r].job}
      BY <1>0, <2>2 DEF Learner
    <3> QED BY <1>7, <3>1 DEF Writes, WritesWithheld, WritesRejects, WritesCapsule
  <2> QED BY <1>7, <2>1, <2>2 DEF ProjectRejection
<1>8. ASSUME NEW r \in Requests, RejectClosed(r) PROVE Writes
  <2>1. CASE session' = [session EXCEPT !.state = "PATCH_REJECTED"]
    BY <1>0, <1>2, <2>1 DEF Learner
  <2>2. CASE /\ jobs[request[r].job].kind = "LAB_COMPILE"
             /\ session' = [session EXCEPT !.state = "LAB_REJECTED",
                                           !.rejects = @ \cup {request[r].job}]
    <3>1. /\ session'.withheld = session.withheld /\ session'.capsule = session.capsule
          /\ session'.rejects = session.rejects \cup {request[r].job}
      BY <1>0, <2>2 DEF Learner
    <3> QED BY <1>8, <2>2, <3>1 DEF Writes, WritesWithheld, WritesRejects, WritesCapsule
  <2> QED BY <1>8, <2>1, <2>2 DEF RejectClosed
<1>9. ASSUME NEW r \in Requests, Prove(r) PROVE Writes
  <2>1. CASE session' = session BY <1>1, <2>1
  <2>2. CASE session' = [session EXCEPT !.state = "REASONING_DIFF_ISSUED"]
    BY <1>0, <1>2, <2>2 DEF Learner
  <2>3. CASE /\ session.state = "REASONING_DIFF_ISSUED"
             /\ session' = [session EXCEPT !.state = "PROOF_CAPSULE_ISSUED", !.capsule = TRUE]
    BY <1>0, <2>3 DEF Learner, Writes, WritesWithheld, WritesRejects, WritesCapsule
  <2> QED BY <1>9, <2>1, <2>2, <2>3 DEF Prove
<1>10. ASSUME Learn PROVE Writes
  BY <1>0, <1>2, <1>10 DEF Learn, Learner
<1> QED BY <1>1, <1>3, <1>4, <1>5, <1>6, <1>7, <1>8, <1>9, <1>10
        DEF Next, LearnerStep, CallbackStep

\* Who looks at a job that has ended.
LEMMA NextCloses ==
  ASSUME IInv, Next, NEW r \in Requests, request'[r].pc \in {"closed", "rejecting"}
  PROVE  \/ request'[r] = request[r]
         \/ \E j \in DOMAIN jobs, to \in {"TIMED_OUT", "CANCELLED"} :
              Close(r, j, to) /\ request'[r].job = j
         \/ request[r].pc = "closed" /\ request'[r].job = request[r].job
<1>0. request \in [Requests -> Call] BY DEF IInv, TypeOK
<1>1. ASSUME NEW s \in Requests, NEW q, request' = [request EXCEPT ![s] = q],
             q.pc \notin {"closed", "rejecting"}
      PROVE  request'[r] = request[r]
  BY <1>0, <1>1
<1>2. ASSUME NEW s \in Requests, Finish(s) PROVE request'[r] = request[r]
  <2>1. Idle.pc = "idle" BY DEF Idle
  <2> QED BY <1>1, <1>2, <2>1 DEF Finish
<1>3. ASSUME NEW s \in Requests, NEW phase, Goto(s, phase),
             phase \notin {"closed", "rejecting"}
      PROVE  request'[r] = request[r]
  <2> DEFINE q == [request[s] EXCEPT !.pc = phase]
  <2>1. q.pc = phase /\ request' = [request EXCEPT ![s] = q]
    BY <1>0, <1>3 DEF Goto, Call
  <2> HIDE DEF q
  <2> QED BY <1>1, <1>3, <2>1
<1>4. ASSUME NEW s \in Requests, \E kind \in Kinds : Ask(s, kind)
      PROVE  request'[r] = request[r]
  <2>1. PICK kind \in Kinds : Ask(s, kind) BY <1>4
  <2> DEFINE q == [Idle EXCEPT !.pc = "asked", !.kind = kind, !.snap = session]
  <2>2. q.pc = "asked" /\ request' = [request EXCEPT ![s] = q] BY <2>1 DEF Ask, Idle
  <2> HIDE DEF q
  <2> QED BY <1>1, <2>2
<1>5. ASSUME NEW s \in Requests, NEW j,
             request' = [request EXCEPT ![s].pc = "dispatch", ![s].job = j]
      PROVE  request'[r] = request[r]
  <2> DEFINE q == [request[s] EXCEPT !.pc = "dispatch", !.job = j]
  <2>1. q.pc = "dispatch" /\ request' = [request EXCEPT ![s] = q]
    BY <1>0, <1>5 DEF Call
  <2> HIDE DEF q
  <2> QED BY <1>1, <2>1
<1>6. ASSUME NEW s \in Requests, Look(s) \/ Create(s) PROVE request'[r] = request[r]
  BY <1>3, <1>5, <1>6 DEF Look, Create
<1>7. ASSUME NEW s \in Requests,
             \/ \E j \in DOMAIN jobs, message \in {"VERIFIED", "FAILED"} : Claim(s, j, message)
      PROVE  request'[r] = request[r]
  <2>1. PICK j \in DOMAIN jobs, message \in {"VERIFIED", "FAILED"} : Claim(s, j, message)
    BY <1>7
  <2> DEFINE q == [Idle EXCEPT !.pc = "claimed", !.job = j, !.message = message,
                               !.duplicate = jobs[j].receipt # None]
  <2>2. q.pc = "claimed" /\ request' = [request EXCEPT ![s] = q] BY <2>1 DEF Claim, Idle
  <2> HIDE DEF q
  <2> QED BY <1>1, <2>2
<1>8. ASSUME NEW s \in Requests, Answer(s) PROVE request'[r] = request[r]
  BY <1>2, <1>8 DEF Answer
<1>9. ASSUME NEW s \in Requests, NEW phase \in {"verifying", "recorded", "projecting", "proving"},
             NEW q, request' = [request EXCEPT ![s] = q], q.pc = phase
      PROVE  request'[r] = request[r]
  BY <1>1, <1>9
<1>10. ASSUME NEW s \in Requests, Read(s) PROVE request'[r] = request[r]
  <2>1. CASE Answer(s) BY <1>8, <2>1
  <2>2. ASSUME NEW f, request' = [request EXCEPT ![s].pc = "verifying", ![s].finding = f]
        PROVE  request'[r] = request[r]
    <3> DEFINE q == [request[s] EXCEPT !.pc = "verifying", !.finding = f]
    <3>1. q.pc = "verifying" /\ request' = [request EXCEPT ![s] = q]
      BY <1>0, <2>2 DEF Call
    <3> HIDE DEF q
    <3> QED BY <1>9, <3>1
  <2> QED BY <1>10, <2>1, <2>2 DEF Read
<1>11. ASSUME NEW s \in Requests, Record(s) PROVE request'[r] = request[r]
  <2>1. CASE Goto(s, "recorded") BY <1>3, <2>1
  <2>2. CASE request' = [request EXCEPT ![s].pc = "recorded", ![s].duplicate = TRUE]
    <3> DEFINE q == [request[s] EXCEPT !.pc = "recorded", !.duplicate = TRUE]
    <3>1. q.pc = "recorded" /\ request' = [request EXCEPT ![s] = q]
      BY <1>0, <2>2 DEF Call
    <3> HIDE DEF q
    <3> QED BY <1>9, <3>1
  <2> QED BY <1>11, <2>1, <2>2 DEF Record
<1>12. ASSUME NEW s \in Requests, NEW phase \in {"projecting", "proving"}, NEW l,
              request' = [request EXCEPT ![s].pc = phase, ![s].snap = l]
       PROVE  request'[r] = request[r]
  <2> DEFINE q == [request[s] EXCEPT !.pc = phase, !.snap = l]
  <2>1. q.pc = phase /\ request' = [request EXCEPT ![s] = q]
    BY <1>0, <1>12 DEF Call
  <2> HIDE DEF q
  <2> QED BY <1>9, <2>1
<1>13. ASSUME NEW s \in Requests, Reread(s) \/ ProjectVerifiedPatch(s)
       PROVE  request'[r] = request[r]
  BY <1>12, <1>13 DEF Reread, ProjectVerifiedPatch
<1>14. ASSUME NEW s \in Requests, Prove(s) PROVE request'[r] = request[r]
  <2>1. CASE Answer(s) BY <1>8, <2>1
  <2>2. CASE request' = [request EXCEPT ![s].snap = session'] /\ request[s].pc = "proving"
    <3> DEFINE q == [request[s] EXCEPT !.snap = session']
    <3>1. q.pc = "proving" /\ request' = [request EXCEPT ![s] = q]
      BY <1>0, <2>2 DEF Call
    <3> HIDE DEF q
    <3> QED BY <1>9, <3>1
  <2> QED BY <1>14, <2>1, <2>2 DEF Prove
<1>15. ASSUME NEW s \in Requests,
              \/ ProjectVerifiedLab(s) \/ ProjectRejectedLab(s) \/ ProjectResult(s)
              \/ ProjectRejection(s) \/ ProjectNothing(s) \/ ProjectBoundary(s)
              \/ ProjectRejectedPatch(s)
       PROVE  request'[r] = request[r]
  BY <1>8, <1>15 DEF ProjectVerifiedLab, ProjectRejectedLab, ProjectResult, ProjectRejection,
                     ProjectNothing, ProjectBoundary, ProjectRejectedPatch
<1>16. ASSUME NEW s \in Requests, Dispatch(s) \/ RejectClosed(s) \/ Break(s)
       PROVE  request'[r] = request[r]
  BY <1>2, <1>16 DEF Dispatch, RejectClosed, Break
<1>17. ASSUME NEW s \in Requests, Begin(s) PROVE request'[r] = request[r]
  BY <1>3, <1>17 DEF Begin
<1>18. ASSUME NEW j \in DOMAIN jobs, Start(j) \/ ClaimLapse(j) PROVE request'[r] = request[r]
  BY <1>18 DEF Start, ClaimLapse
<1>19. ASSUME Learn PROVE request'[r] = request[r] BY <1>19 DEF Learn
<1>20. ASSUME NEW s \in Requests, ReadClosed(s)
       PROVE  \/ request'[r] = request[r]
              \/ request[r].pc = "closed" /\ request'[r].job = request[r].job
  <2>1. CASE Finish(s) BY <1>2, <2>1
  <2>2. CASE Goto(s, "rejecting")
    <3>1. CASE s = r BY <1>0, <1>20, <2>2, <3>1 DEF Goto, ReadClosed, Call
    <3>2. CASE s # r BY <1>0, <2>2, <3>2 DEF Goto
    <3> QED BY <3>1, <3>2
  <2> QED BY <1>20, <2>1, <2>2 DEF ReadClosed
<1>21. ASSUME NEW s \in Requests, NEW j \in DOMAIN jobs, NEW to \in {"TIMED_OUT", "CANCELLED"},
              Close(s, j, to)
       PROVE  \/ request'[r] = request[r]
              \/ Close(r, j, to) /\ request'[r].job = j
  <2> DEFINE q == [Idle EXCEPT !.pc = "closed", !.job = j]
  <2>1. q.job = j /\ request' = [request EXCEPT ![s] = q] BY <1>21 DEF Close, Idle
  <2> HIDE DEF q
  <2> QED BY <1>0, <1>21, <2>1
<1> QED BY <1>4, <1>6, <1>7, <1>10, <1>11, <1>13, <1>14, <1>15, <1>16, <1>17, <1>18, <1>19,
           <1>20, <1>21 DEF Next, LearnerStep, CallbackStep

\* A step keeps what is withheld, rejected and sealed in order.
LEMMA LateKept ==
  ASSUME IInv, LInv, Next
  PROVE  LInv'
<1>1. IInv' /\ SessionGrows /\ JobsGrow /\ TypeOK' BY NextStep DEF Kept, IInv
<1>2. Writes BY NextWrites
<1>3. ASSUME NEW j \in session.withheld
      PROVE  /\ j \in DOMAIN jobs' /\ jobs'[j].kind = "LAB_RUN"
             /\ jobs'[j].basis = <<session'.lab, 0>> /\ jobs'[j].found = "REJECTED"
             /\ jobs'[j].receipt = "VERIFIED" /\ jobs'[j].status = "REJECTED"
  <2>1. /\ j \in DOMAIN jobs /\ jobs[j].kind = "LAB_RUN"
        /\ jobs[j].basis = <<session.lab, 0>> /\ jobs[j].found = "REJECTED"
        /\ jobs[j].receipt = "VERIFIED" /\ jobs[j].status = "REJECTED"
    BY <1>3 DEF LInv, WithheldIsBacked
  <2>2. session.lab # 0 BY <2>1 DEF IInv, JobStands, Due
  <2>3. session'.lab = session.lab BY <1>1, <2>2 DEF SessionGrows
  <2> QED BY <1>1, <2>1, <2>3, ConstantsOK DEF JobsGrow, JobGrows
<1>4. WithheldIsBacked'
  <2>1. ASSUME NEW r \in Requests, ProjectRejection(r)
        PROVE  LET j == request[r].job IN
               /\ j \in DOMAIN jobs' /\ jobs'[j].kind = "LAB_RUN"
               /\ jobs'[j].basis = <<session'.lab, 0>> /\ jobs'[j].found = "REJECTED"
               /\ jobs'[j].receipt = "VERIFIED" /\ jobs'[j].status = "REJECTED"
    <3>1. PICK j : j = request[r].job OBVIOUS
    <3>2. Project(r, "LAB_RUN") /\ request[r].finding = "REJECTED"
      BY <2>1 DEF ProjectRejection
    <3>3. /\ j \in DOMAIN jobs /\ jobs[j].kind = "LAB_RUN" /\ jobs[j].found = "REJECTED"
          /\ jobs[j].receipt = "VERIFIED" /\ JobStands(j)
      BY <3>1, <3>2, Projecting
    <3>4. jobs[j].basis = <<session.lab, 0>> /\ session.lab # 0 /\ jobs[j].status = "REJECTED"
      BY <3>3 DEF JobStands, Due, Good
    <3>5. session'.lab = session.lab BY <1>1, <3>4 DEF SessionGrows
    <3> QED BY <1>1, <3>1, <3>3, <3>4, <3>5, ConstantsOK DEF JobsGrow, JobGrows
  <2>2. ASSUME NEW j \in session'.withheld
        PROVE  /\ j \in DOMAIN jobs' /\ jobs'[j].kind = "LAB_RUN"
               /\ jobs'[j].basis = <<session'.lab, 0>> /\ jobs'[j].found = "REJECTED"
               /\ jobs'[j].receipt = "VERIFIED" /\ jobs'[j].status = "REJECTED"
    BY <1>2, <1>3, <2>1, <2>2 DEF Writes, WritesWithheld
  <2>3. ASSUME NEW j \in session'.withheld PROVE j # session'.result
    <3>1. j # 0 BY <1>1, <2>2 DEF TypeOK
    <3>2. session'.result # 0 => jobs'[session'.result].status = "VERIFIED"
      BY <1>1 DEF IInv, AuthorityIsBacked, Backs
    <3> QED BY <2>2, <3>1, <3>2
  <2> QED BY <2>2, <2>3 DEF WithheldIsBacked
<1>5. ASSUME NEW j \in DOMAIN jobs, jobs[j].kind = "LAB_COMPILE", jobs[j].status \in Over
      PROVE  j \in DOMAIN jobs' /\ jobs'[j].kind = "LAB_COMPILE" /\ jobs'[j].status \in Over
  BY <1>1, <1>5, OverStays
<1>6. RejectsAreEnded'
  <2>1. ASSUME NEW r \in Requests,
               \/ ProjectRejectedLab(r)
               \/ RejectClosed(r) /\ jobs[request[r].job].kind = "LAB_COMPILE"
        PROVE  /\ request[r].job \in DOMAIN jobs
               /\ jobs[request[r].job].kind = "LAB_COMPILE"
               /\ jobs[request[r].job].status \in Over
    <3>1. CASE ProjectRejectedLab(r)
      <4>1. Project(r, "LAB_COMPILE") /\ Terminated(r) # "VERIFIED"
        BY <3>1 DEF ProjectRejectedLab
      <4>2. Terminated(r) \in Over
        BY <4>1 DEF Terminated, Over, Terminal
      <4> QED BY <4>1, <4>2, Projecting
    <3>2. CASE RejectClosed(r) /\ jobs[request[r].job].kind = "LAB_COMPILE"
      BY <3>2 DEF RejectClosed, LInv, ClosedAreOver
    <3> QED BY <2>1, <3>1, <3>2
  <2>2. ASSUME NEW j \in session'.rejects
        PROVE  /\ j \in DOMAIN jobs /\ jobs[j].kind = "LAB_COMPILE" /\ jobs[j].status \in Over
    <3>1. CASE j \in session.rejects BY <3>1 DEF LInv, RejectsAreEnded, Over
    <3>2. CASE j \notin session.rejects
      BY <1>2, <2>1, <2>2, <3>2 DEF Writes, WritesRejects
    <3> QED BY <3>1, <3>2
  <2>3. ASSUME NEW j \in session'.rejects PROVE j # session'.lab
    <3>1. /\ j \in DOMAIN jobs' /\ jobs'[j].status # "VERIFIED"
      BY <1>5, <2>2, <2>3 DEF Over
    <3>2. j # 0 BY <1>1, <3>1 DEF TypeOK
    <3>3. session'.lab # 0 => jobs'[session'.lab].status = "VERIFIED"
      BY <1>1 DEF IInv, AuthorityIsBacked, Backs
    <3> QED BY <3>1, <3>2, <3>3
  <2> QED BY <1>5, <2>2, <2>3 DEF RejectsAreEnded, Over
<1>7. ClosedAreOver'
  <2> SUFFICES ASSUME NEW r \in Requests, request'[r].pc \in {"closed", "rejecting"}
               PROVE  /\ request'[r].job \in DOMAIN jobs'
                      /\ jobs'[request'[r].job].status \in Over
    BY DEF ClosedAreOver
  <2>1. CASE \/ request'[r] = request[r]
             \/ request[r].pc = "closed" /\ request'[r].job = request[r].job
    <3>1. /\ request'[r].job = request[r].job /\ request[r].job \in DOMAIN jobs
          /\ jobs[request[r].job].status \in Over
      BY <2>1 DEF LInv, ClosedAreOver
    <3> QED BY <1>1, <3>1, OverStays
  <2>2. ASSUME NEW j \in DOMAIN jobs, NEW to \in {"TIMED_OUT", "CANCELLED"},
               Close(r, j, to), request'[r].job = j
        PROVE  /\ request'[r].job \in DOMAIN jobs'
               /\ jobs'[request'[r].job].status \in Over
    <3>1. jobs' = [jobs EXCEPT ![j].status = to] BY <2>2 DEF Close
    <3>2. jobs \in Seq(Job) BY DEF IInv, TypeOK
    <3>3. jobs[j] \in Job BY <3>2
    <3>4. j \in DOMAIN jobs' /\ jobs'[j].status = to BY <3>1, <3>2, <3>3 DEF Job
    <3> QED BY <2>2, <3>4 DEF Over, Terminal
  <2> QED BY <2>1, <2>2, NextCloses
<1>8. CapsuleHasPatch'
  <2> SUFFICES ASSUME session'.capsule PROVE session'.patch # 0 BY DEF CapsuleHasPatch
  <2>1. session.patch # 0
    BY <1>2 DEF Writes, WritesCapsule, LInv, CapsuleHasPatch, IInv, InOrder, Repaired
  <2> QED BY <1>1, <2>1 DEF SessionGrows
<1> QED BY <1>4, <1>6, <1>7, <1>8 DEF LInv

\* So it is in every reachable state.
LEMMA LateInvariance == Spec => [](IInv /\ LInv)
<1>1. Init => IInv /\ LInv
  <2> SUFFICES ASSUME Init PROVE LInv BY InitHolds
  <2>1. /\ session.withheld = {} /\ session.rejects = {} /\ ~session.capsule
    <3> DEFINE fresh == NewSession
               lately == [fresh EXCEPT !.state = "EXPERIMENT_COMPLETED", !.lab = 1,
                                       !.result = 2, !.report = 2, !.verdict = "SUPPORTS"]
               late == [lately EXCEPT !.state = "TRANSFER_PASSED", !.boundary = 3,
                                      !.transfer = TRUE]
    <3>1. fresh \in Learner /\ fresh.withheld = {} /\ fresh.rejects = {} /\ ~fresh.capsule
      BY DEF NewSession, Learner, States
    <3>2. session = fresh \/ session = lately \/ session = late
      BY DEF Init, Released
    <3> HIDE DEF fresh
    <3>3. lately \in Learner /\ lately.withheld = {} /\ lately.rejects = {} /\ ~lately.capsule
      BY <3>1 DEF Learner, States
    <3> HIDE DEF lately
    <3>4. late.withheld = {} /\ late.rejects = {} /\ ~late.capsule
      BY <3>3 DEF Learner
    <3> QED BY <3>1, <3>2, <3>3, <3>4
  <2>2. \A r \in Requests : request[r].pc = "idle" BY DEF Init, Idle
  <2> QED BY <2>1, <2>2 DEF LInv, WithheldIsBacked, RejectsAreEnded, ClosedAreOver,
                            CapsuleHasPatch
<1>2. IInv /\ LInv /\ [Next]_vars => (IInv /\ LInv)'
  <2> SUFFICES ASSUME IInv, LInv, [Next]_vars PROVE IInv' /\ LInv' OBVIOUS
  <2>1. IInv' BY NextStep DEF Kept
  <2>2. CASE Next BY <2>1, <2>2, LateKept
  <2>3. CASE UNCHANGED vars
    BY <2>1, <2>3 DEF vars, LInv, WithheldIsBacked, RejectsAreEnded, ClosedAreOver, CapsuleHasPatch
  <2> QED BY <2>1, <2>2, <2>3
<1> QED BY <1>1, <1>2, PTL DEF Spec

\* A verdict without release is on the chain only for a run of the session's own lab
\* whose callback is recorded (recordEpistemicRejection).
THEOREM WithheldCorrect == Spec => []WithheldIsBacked
<1>1. LInv => WithheldIsBacked BY DEF LInv
<1> QED BY <1>1, LateInvariance, PTL

\* A compilation is rejected only by a compile job that has ended otherwise than
\* verified (rejectLabCompilation, after a callback, a poll or a cancel).
THEOREM RejectsCorrect == Spec => []RejectsAreEnded
<1>1. LInv => RejectsAreEnded BY DEF LInv
<1> QED BY <1>1, LateInvariance, PTL

\* Nothing is repaired or sealed but what was run, released as supporting, mapped and
\* transferred (verifyPatch, issueProofCapsule).
THEOREM CapsuleCorrect == Spec => []CapsuleIsEarned
<1>1. IInv /\ LInv => CapsuleIsEarned
  <2> SUFFICES ASSUME IInv, LInv, session.capsule \/ session.patch # 0
               PROVE  /\ session.lab # 0 /\ session.result # 0 /\ session.boundary # 0
                      /\ session.patch # 0
                      /\ session.verdict = "SUPPORTS" /\ session.transfer
    BY DEF CapsuleIsEarned
  <2>1. session.patch # 0 BY DEF LInv, CapsuleHasPatch
  <2>2. session.patch \in DOMAIN jobs /\ jobs[session.patch].kind = "PATCH_COMPILE"
    BY <2>1 DEF IInv, AuthorityIsBacked, Backs
  <2>3. Due("PATCH_COMPILE", jobs[session.patch].basis)
    BY <2>2 DEF IInv, JobStands
  <2>4. session.boundary # 0
    BY <2>1 DEF IInv, InOrder, Repaired, Early
  <2> QED BY <2>1, <2>3, <2>4 DEF Due
<1> QED BY <1>1, LateInvariance, PTL

\* No step takes an authority or a recorded outcome back.
THEOREM RecordsAreFinal == Spec => NothingIsTakenBack
<1>1. IInv /\ [Next]_vars =>
        [/\ session.lab # 0 => session'.lab = session.lab
         /\ session.result # 0 =>
              session'.result = session.result /\ session'.verdict = session.verdict
         /\ session.boundary # 0 => session'.boundary = session.boundary
         /\ session.patch # 0 => session'.patch = session.patch
         /\ session.transfer => session'.transfer
         /\ session.withheld \subseteq session'.withheld
         /\ \A j \in DOMAIN jobs :
              jobs[j].receipt # None =>
                jobs'[j].status = jobs[j].status /\ jobs'[j].receipt = jobs[j].receipt]_vars
  BY NextStep DEF Kept, SessionGrows, JobsGrow, JobGrows
<1> QED BY <1>1, Invariance, PTL DEF Spec, NothingIsTakenBack

-----------------------------------------------------------------------------
(* The promise of each job *)

\* A step of job j its promise allows.
Moves(j) == Promise(j)!Next \/ UNCHANGED Promise(j)!vars

\* The table of the promise is the table of the jobs.
LEMMA SameTable ==
  ASSUME NEW j
  PROVE  /\ Promise(j)!Active = Active /\ Promise(j)!Terminal = Terminal
         /\ Promise(j)!Status = Status /\ Promise(j)!Transitions = Transitions
<1>1. /\ Promise(j)!Active = Active /\ Promise(j)!Terminal = Terminal
      /\ Promise(j)!Status = Status
  BY DEF Promise!Active, Active, Promise!Terminal, Terminal, Promise!Status, Status
<1>2. Promise(j)!Transitions = Transitions
  BY <1>1 DEF Promise!Transitions, Transitions
<1> QED BY <1>1, <1>2

\* What a job's readers see does not change.
LEMMA Unseen ==
  ASSUME NEW j \in DOMAIN jobs',
         \/ /\ j \in DOMAIN jobs
            /\ jobs'[j].status = jobs[j].status /\ jobs'[j].receipt = jobs[j].receipt
         \/ j \notin DOMAIN jobs /\ jobs'[j].status = "QUEUED" /\ jobs'[j].receipt = None
  PROVE  Moves(j)
<1>1. StatusOf(j)' = StatusOf(j) /\ ReceiptsOf(j)' = ReceiptsOf(j)
  BY DEF StatusOf, ReceiptsOf
<1>2. LogOf(j)' = LogOf(j) BY <1>1 DEF LogOf
<1> QED BY <1>1, <1>2 DEF Moves, Promise!vars

\* It goes on, or ends without an outcome.
LEMMA Unsettled ==
  ASSUME NEW j \in DOMAIN jobs, j \in DOMAIN jobs', jobs[j].status \in Status,
         jobs[j].receipt = None, jobs'[j].receipt = None,
         jobs'[j].status \in Transitions[jobs[j].status],
         jobs'[j].status \in Active \cup {"CANCELLED", "TIMED_OUT", "FAILED"}
  PROVE  Moves(j)
<1>1. /\ StatusOf(j) = jobs[j].status /\ StatusOf(j)' = jobs'[j].status
      /\ ReceiptsOf(j) = {} /\ ReceiptsOf(j)' = {}
  BY DEF StatusOf, ReceiptsOf
<1>2. StatusOf(j) \notin Terminal
  BY <1>1 DEF Transitions, Status, Active, Terminal
<1>3. LogOf(j) = <<>> BY <1>1, <1>2 DEF LogOf, Terminal
<1>4. CASE StatusOf(j)' \in Active
  <2>1. LogOf(j)' = <<>> BY <1>1, <1>4 DEF LogOf, Active
  <2>2. Promise(j)!Advance(StatusOf(j)')
    BY <1>1, <1>3, <1>4, <2>1, SameTable DEF Promise!Advance
  <2> QED BY <1>4, <2>2, SameTable DEF Moves, Promise!Next, Status
<1>5. CASE StatusOf(j)' \in {"CANCELLED", "TIMED_OUT"}
  <2>1. LogOf(j)' = <<>> BY <1>1, <1>5 DEF LogOf
  <2>2. Promise(j)!Close(StatusOf(j)')
    BY <1>1, <1>3, <1>5, <2>1, SameTable DEF Promise!Close
  <2> QED BY <1>5, <2>2, SameTable DEF Moves, Promise!Next, Status, Terminal
<1>6. CASE StatusOf(j)' = "FAILED"
  <2>1. LogOf(j)' = <<"failure">> BY <1>1, <1>6 DEF LogOf
  <2>2. LogOf(j)' = Append(LogOf(j), "failure") BY <1>3, <2>1
  <2>3. Promise(j)!Fail
    BY <1>1, <1>6, <2>2, SameTable DEF Promise!Fail
  <2> QED BY <2>3 DEF Moves, Promise!Next
<1> QED BY <1>1, <1>4, <1>5, <1>6

\* A callback decides its outcome.
LEMMA SettledBy ==
  ASSUME NEW j \in DOMAIN jobs, j \in DOMAIN jobs', jobs[j].status \in Status,
         jobs[j].receipt = None, jobs'[j].receipt # None,
         jobs'[j].status \in Transitions[jobs[j].status],
         jobs'[j].status \in {"VERIFIED", "REJECTED", "FAILED"}
  PROVE  Moves(j)
<1> DEFINE c == [status |-> jobs'[j].status, cursor |-> 0]
<1>1. /\ StatusOf(j) = jobs[j].status /\ StatusOf(j)' = jobs'[j].status
      /\ ReceiptsOf(j) = {} /\ ReceiptsOf(j)' = {c}
  BY DEF StatusOf, ReceiptsOf
<1>2. StatusOf(j) \notin Terminal
  BY <1>1 DEF Transitions, Status, Active, Terminal
<1>3. LogOf(j) = <<>> BY <1>1, <1>2 DEF LogOf, Terminal
<1>4. LogOf(j)' = <<>> BY <1>1 DEF LogOf
<1>5. c.status = jobs'[j].status /\ c.cursor = 0 OBVIOUS
<1> HIDE DEF c
<1>6. Promise(j)!Settle(c)
  BY <1>1, <1>3, <1>4, <1>5, SameTable DEF Promise!Settle
<1> QED BY <1>1, <1>6 DEF Moves, Promise!Next

\* A job that may still move has no receipt.
LEMMA Unreceipted ==
  ASSUME IInv, NEW j \in DOMAIN jobs
  PROVE  /\ jobs[j] \in Job /\ jobs[j].status \in Status
         /\ jobs[j].receipt \in {None, "VERIFIED", "FAILED"}
         /\ jobs[j].receipt # None => jobs[j].status \in {"VERIFIED", "REJECTED", "FAILED"}
<1>1. jobs[j] \in Job BY DEF IInv, TypeOK
<1>2. JobStands(j) BY DEF IInv
<1> QED BY <1>1, <1>2 DEF Job, JobStands

\* One job is written, in its status alone.
LEMMA MovedOne ==
  ASSUME IInv, NEW k \in DOMAIN jobs, NEW to, jobs' = [jobs EXCEPT ![k].status = to],
         \/ to = jobs[k].status
         \/ /\ to \in Transitions[jobs[k].status]
            /\ to \in Active \cup {"CANCELLED", "TIMED_OUT", "FAILED"}
            /\ jobs[k].receipt = None,
         NEW j \in DOMAIN jobs'
  PROVE  Moves(j)
<1>1. jobs \in Seq(Job) BY DEF IInv, TypeOK
<1>2. j \in DOMAIN jobs BY <1>1
<1>3. jobs[j] \in Job BY <1>1, <1>2
<1>4. CASE j # k
  <2>1. jobs'[j] = jobs[j] BY <1>1, <1>2, <1>4
  <2> QED BY <1>2, <2>1, Unseen
<1>5. CASE j = k
  <2>1. jobs'[j].status = to /\ jobs'[j].receipt = jobs[j].receipt
    BY <1>1, <1>2, <1>3, <1>5 DEF Job
  <2>2. CASE to = jobs[k].status BY <1>2, <1>5, <2>1, <2>2, Unseen
  <2>3. CASE to # jobs[k].status
    BY <1>2, <1>5, <2>1, <2>3, Unsettled, Unreceipted
  <2> QED BY <2>2, <2>3
<1> QED BY <1>4, <1>5

\* What jobs say to their readers is as it was.
Quiet ==
  /\ DOMAIN jobs' = DOMAIN jobs
  /\ \A j \in DOMAIN jobs :
       jobs'[j].status = jobs[j].status /\ jobs'[j].receipt = jobs[j].receipt

\* Then every job stands still, to its readers.
LEMMA QuietMoves == ASSUME Quiet, NEW j \in DOMAIN jobs' PROVE Moves(j)
BY Unseen DEF Quiet

\* A claim or an answer is nothing to them.
LEMMA QuietWrite ==
  ASSUME IInv, NEW k, NEW v,
         jobs' = [jobs EXCEPT ![k].claim = v] \/ jobs' = [jobs EXCEPT ![k].answered = v]
  PROVE  Quiet
<1>1. jobs \in Seq(Job) BY DEF IInv, TypeOK
<1>2. DOMAIN jobs' = DOMAIN jobs BY <1>1
<1>3. ASSUME NEW j \in DOMAIN jobs
      PROVE  jobs'[j].status = jobs[j].status /\ jobs'[j].receipt = jobs[j].receipt
  <2>1. jobs[j] \in Job BY <1>1
  <2>2. CASE jobs' = [jobs EXCEPT ![k].claim = v]
    <3>1. jobs'[j] = jobs[j] \/ jobs'[j] = [jobs[j] EXCEPT !.claim = v] BY <1>1, <2>2
    <3> QED BY <2>1, <3>1 DEF Job
  <2>3. CASE jobs' = [jobs EXCEPT ![k].answered = v]
    <3>1. jobs'[j] = jobs[j] \/ jobs'[j] = [jobs[j] EXCEPT !.answered = v] BY <1>1, <2>3
    <3> QED BY <2>1, <3>1 DEF Job
  <2> QED BY <2>2, <2>3
<1> QED BY <1>2, <1>3 DEF Quiet

\* A new job waits in the queue.
LEMMA CreateMoves ==
  ASSUME IInv, NEW r \in Requests, Create(r), NEW j \in DOMAIN jobs'
  PROVE  Moves(j)
<1>1. jobs \in Seq(Job) BY DEF IInv, TypeOK
<1>2. CASE UNCHANGED jobs BY <1>2, QuietMoves DEF Quiet
<1>3. ASSUME NEW kind, NEW basis, NEW f, jobs' = Append(jobs, NewJob(kind, basis, f))
      PROVE  Moves(j)
  <2> DEFINE e == NewJob(kind, basis, f)
  <2>1. e.status = "QUEUED" /\ e.receipt = None BY DEF NewJob
  <2> HIDE DEF e
  <2>2. jobs' = Append(jobs, e) BY <1>3 DEF e
  <2>3. CASE j \in DOMAIN jobs
    <3>1. jobs'[j] = jobs[j] BY <1>1, <2>2, <2>3
    <3> QED BY <2>3, <3>1, Unseen
  <2>4. CASE j \notin DOMAIN jobs
    <3>1. jobs'[j] = e BY <1>1, <2>2, <2>4
    <3> QED BY <2>1, <2>4, <3>1, Unseen
  <2> QED BY <2>3, <2>4
<1> QED BY <1>2, <1>3 DEF Create

\* A dispatch starts or fails a job nobody moved on.
LEMMA DispatchMoves ==
  ASSUME IInv, NEW r \in Requests, Dispatch(r), NEW j \in DOMAIN jobs'
  PROVE  Moves(j)
<1> DEFINE k == request[r].job
<1>1. k \in DOMAIN jobs BY DEF Dispatch, IInv, KnowsOf, Knows
<1>2. CASE UNCHANGED jobs BY <1>2, QuietMoves DEF Quiet
<1>3. CASE jobs[k].status = "QUEUED" /\ jobs' = [jobs EXCEPT ![k].status = "STARTING"]
  <2>1. jobs[k].receipt = None BY <1>1, <1>3, Unreceipted
  <2>2. "STARTING" \in Transitions[jobs[k].status] BY <1>3 DEF Transitions, Status, Active
  <2> QED BY <1>1, <1>3, <2>1, <2>2, MovedOne DEF Active
<1>4. CASE /\ jobs[k].status \in {"QUEUED", "STARTING"}
           /\ jobs' = [jobs EXCEPT ![k].status = "FAILED"]
  <2>1. jobs[k].receipt = None BY <1>1, <1>4, Unreceipted
  <2>2. "FAILED" \in Transitions[jobs[k].status] BY <1>4 DEF Transitions, Status, Active
  <2> QED BY <1>1, <1>4, <2>1, <2>2, MovedOne
<1> HIDE DEF k
<1> QED BY <1>2, <1>3, <1>4 DEF Dispatch, k

\* A job that starts runs.
LEMMA StartMoves ==
  ASSUME IInv, NEW k \in DOMAIN jobs, Start(k), NEW j \in DOMAIN jobs'
  PROVE  Moves(j)
<1>1. jobs[k].receipt = None BY Unreceipted DEF Start
<1>2. "RUNNING" \in Transitions[jobs[k].status] BY DEF Start, Transitions, Status, Active
<1> QED BY <1>1, <1>2, MovedOne DEF Start, Active

\* A poll or a cancel ends a live job.
LEMMA CloseMoves ==
  ASSUME IInv, NEW r \in Requests, NEW k \in DOMAIN jobs,
         NEW to \in {"TIMED_OUT", "CANCELLED"}, Close(r, k, to), NEW j \in DOMAIN jobs'
  PROVE  Moves(j)
<1>1. jobs' = [jobs EXCEPT ![k].status = to] BY DEF Close
<1>2. CASE jobs[k].status = to BY <1>1, <1>2, MovedOne
<1>3. CASE jobs[k].status # to
  <2>1. jobs[k].status \in Active BY <1>3 DEF Close
  <2>2. jobs[k].receipt = None BY <2>1, Unreceipted DEF Active
  <2>3. to \in Transitions[jobs[k].status] BY <2>1 DEF Transitions, Status, Active, Terminal
  <2> QED BY <1>1, <2>2, <2>3, MovedOne
<1> QED BY <1>2, <1>3

\* A callback is recorded once.
LEMMA RecordMoves ==
  ASSUME IInv, NEW r \in Requests, Record(r), NEW j \in DOMAIN jobs'
  PROVE  Moves(j)
<1> DEFINE q == request[r]
           k == q.job
<1>1. jobs \in Seq(Job) BY DEF IInv, TypeOK
<1>2. k \in DOMAIN jobs /\ q.message # None BY DEF Record, IInv, KnowsOf, Knows
<1>3. CASE UNCHANGED jobs BY <1>3, QuietMoves DEF Quiet
<1>4. CASE /\ jobs[k].receipt = None /\ Terminated(r) \in Transitions[jobs[k].status]
           /\ jobs' = [jobs EXCEPT ![k].status = Terminated(r), ![k].claim = None,
                                   ![k].receipt = q.message]
  <2>1. j \in DOMAIN jobs BY <1>1, <1>4
  <2>2. CASE j # k
    <3>1. jobs'[j] = jobs[j] BY <1>1, <1>4, <2>1, <2>2
    <3> QED BY <2>1, <3>1, Unseen
  <2>3. CASE j = k
    <3>1. jobs[k] \in Job /\ jobs[k].status \in Status BY <1>2, Unreceipted
    <3>2. jobs'[k] = [[[jobs[k] EXCEPT !.status = Terminated(r)] EXCEPT !.claim = None]
                        EXCEPT !.receipt = q.message]
      BY <1>1, <1>2, <1>4
    <3>3. jobs'[k].status = Terminated(r) /\ jobs'[k].receipt = q.message
      BY <3>1, <3>2 DEF Job
    <3>4. Terminated(r) \in {"VERIFIED", "REJECTED", "FAILED"} BY DEF Terminated
    <3> QED BY <1>2, <1>4, <2>1, <2>3, <3>1, <3>3, <3>4, SettledBy
  <2> QED BY <2>2, <2>3
<1> QED BY <1>3, <1>4 DEF Record

\* A callback claims.
LEMMA ClaimMoves ==
  ASSUME IInv, NEW r \in Requests,
         NEW k \in DOMAIN jobs, NEW message \in {"VERIFIED", "FAILED"}, Claim(r, k, message)
  PROVE  Quiet
BY QuietWrite DEF Claim, Quiet

\* A request that ends early gives its claim back at most.
LEMMA BreakMoves == ASSUME IInv, NEW r \in Requests, Break(r) PROVE Quiet
BY QuietWrite DEF Break, Quiet

\* So does a limit that passes.
LEMMA LapseMoves == ASSUME IInv, NEW k \in DOMAIN jobs, ClaimLapse(k) PROVE Quiet
BY QuietWrite DEF ClaimLapse

\* An answer is noted.
LEMMA AnswerMoves == ASSUME IInv, NEW r \in Requests, Answer(r) PROVE Quiet
BY QuietWrite DEF Answer

\* All a learner's request does to jobs.
LEMMA LearnerMoves ==
  ASSUME IInv, NEW r \in Requests, LearnerStep(r), NEW j \in DOMAIN jobs'
  PROVE  Moves(j)
<1>1. ASSUME \/ \E kind \in Kinds : Ask(r, kind)
             \/ Look(r) \/ Begin(r) \/ ReadClosed(r) \/ RejectClosed(r)
      PROVE  Moves(j)
  <2>1. UNCHANGED jobs BY <1>1 DEF Ask, Look, Begin, ReadClosed, RejectClosed
  <2> QED BY <2>1, QuietMoves DEF Quiet
<1> QED BY <1>1, CreateMoves, DispatchMoves, CloseMoves DEF LearnerStep

\* All a callback does to them.
LEMMA CallbackMoves ==
  ASSUME IInv, NEW r \in Requests, CallbackStep(r), NEW j \in DOMAIN jobs'
  PROVE  Moves(j)
<1>1. ASSUME \/ ProjectVerifiedLab(r) \/ ProjectRejectedLab(r) \/ ProjectResult(r)
             \/ ProjectRejection(r) \/ ProjectNothing(r) \/ ProjectBoundary(r)
             \/ ProjectRejectedPatch(r)
      PROVE  Answer(r)
  BY <1>1 DEF ProjectVerifiedLab, ProjectRejectedLab, ProjectResult, ProjectRejection,
              ProjectNothing, ProjectBoundary, ProjectRejectedPatch
<1>2. ASSUME Read(r) \/ Reread(r) \/ ProjectVerifiedPatch(r) \/ Prove(r)
      PROVE  Answer(r) \/ UNCHANGED jobs
  BY <1>2 DEF Read, Reread, ProjectVerifiedPatch, Prove
<1>3. ASSUME Answer(r) \/ UNCHANGED jobs PROVE Moves(j)
  BY <1>3, AnswerMoves, QuietMoves DEF Quiet
<1> QED BY <1>1, <1>2, <1>3, ClaimMoves, RecordMoves, QuietMoves DEF CallbackStep

\* Every job moves as its lifecycle promises, whatever requests overlap
\* (assertRunnerJobTransition, recordCallback, failJob, expireIfTimedOut, cancelJob).
THEOREM PromiseKept == Spec => JobsKeepPromise
<1>1. IInv /\ [Next]_vars =>
        [\A j \in DOMAIN jobs' : Promise(j)!Next \/ UNCHANGED Promise(j)!vars]_vars
  <2> SUFFICES ASSUME IInv, Next, NEW j \in DOMAIN jobs'
               PROVE  Promise(j)!Next \/ UNCHANGED Promise(j)!vars
    OBVIOUS
  <2>1. Moves(j)
    BY LearnerMoves, CallbackMoves, BreakMoves, LapseMoves, StartMoves, QuietMoves
       DEF Next, Learn, Quiet
  <2> QED BY <2>1 DEF Moves
<1> QED BY <1>1, Invariance, PTL DEF Spec, JobsKeepPromise
=============================================================================
