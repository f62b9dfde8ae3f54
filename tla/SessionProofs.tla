--------------------------- MODULE SessionProofs ---------------------------
(***************************************************************************)
(* For every set of claims, predictions, experiments, results and the      *)
(* rest: the invariants of Session, and that no step rewrites what a       *)
(* learner committed to or was shown.                                      *)
(*                                                                         *)
(* A step builds its aggregate from the one before, field by field         *)
(* (Updated), moves it along the state table (ReachedFrom, Sources) and is *)
(* then either before any result is released (EarlyStep), the release      *)
(* itself or a rejection, or after it (LateStep).                          *)
(***************************************************************************)
EXTENDS Session, TLAPS

\* From where each state is entered.
LEMMA Sources ==
  ASSUME NEW from \in DOMAIN Transitions, NEW to \in Transitions[from]
  PROVE  /\ to \in DOMAIN Transitions
         /\ to = "BELIEF_TEST_PROPOSED" => from = "INGESTED"
         /\ to \in {"BELIEF_TEST_CONFIRMED", "INSUFFICIENT_EVIDENCE", "REJECTED_BY_LEARNER"} =>
              from = "BELIEF_TEST_PROPOSED"
         /\ to = "PREDICTION_COMMITTED" => from = "BELIEF_TEST_CONFIRMED"
         /\ to = "LAB_COMPILING" => from \in {"PREDICTION_COMMITTED", "LAB_REJECTED"}
         /\ to \in {"LAB_REJECTED", "LAB_VERIFIED"} => from = "LAB_COMPILING"
         /\ to = "EXPERIMENT_COMPLETED" => from = "LAB_VERIFIED"
         /\ to = "BOUNDARY_VERIFIED" => from = "EXPERIMENT_COMPLETED"
         /\ to = "REVISION_RECORDED" => from \in {"EXPERIMENT_COMPLETED", "BOUNDARY_VERIFIED"}
         /\ to = "TRANSFER_IN_PROGRESS" => from \in {"REVISION_RECORDED", "TRANSFER_FAILED"}
         /\ to \in {"TRANSFER_FAILED", "TRANSFER_PASSED"} => from = "TRANSFER_IN_PROGRESS"
         /\ to = "PATCH_COMPILING" => from \in {"TRANSFER_PASSED", "PATCH_REJECTED"}
         /\ to \in {"PATCH_REJECTED", "PATCH_VERIFIED"} => from = "PATCH_COMPILING"
         /\ to = "REASONING_DIFF_ISSUED" => from = "PATCH_VERIFIED"
         /\ to = "PROOF_CAPSULE_ISSUED" => from = "REASONING_DIFF_ISSUED"
BY DEF Transitions

\* Two aggregates hold the same claim and evidence ...
SameBelief(s, t) ==
  s.mode = t.mode /\ s.test = t.test /\ s.spec = t.spec /\ s.director = t.director

SameEvidence(s, t) ==
  /\ s.lab = t.lab /\ s.result = t.result /\ s.verdict = t.verdict
  /\ s.report = t.report /\ s.authority = t.authority

\* ... and the same of what follows from it.
SameLearning(s, t) ==
  /\ s.boundary = t.boundary /\ s.revision = t.revision /\ s.transfer = t.transfer
  /\ s.patch = t.patch

SameProof(s, t) == s.diff = t.diff /\ s.capsule = t.capsule

SameFields(s, t) ==
  /\ SameBelief(s, t) /\ s.prediction = t.prediction /\ SameEvidence(s, t)
  /\ SameLearning(s, t) /\ SameProof(s, t)

USE DEF Confirmed, Released, Learning, Repairing

\* Moving an aggregate keeps it one.
LEMMA Moved ==
  ASSUME NEW next \in Aggregate, NEW to \in DOMAIN Transitions,
         NEW moved, moved = [next EXCEPT !.state = to]
  PROVE  moved \in Aggregate /\ moved.state = to /\ SameFields(moved, next)
<1> DEFINE States == DOMAIN Transitions
<1> HIDE DEF States
<1>1. moved \in Aggregate /\ moved.state = to
  BY DEF Aggregate, States
<1>2. SameFields(moved, next)
  BY DEF SameFields, SameBelief, SameEvidence, SameLearning, SameProof, Aggregate
<1> QED BY <1>1, <1>2

\* The authority of v2 evidence depends on belief, prediction and evidence alone.
LEMMA SameAuthority ==
  ASSUME NEW s, NEW t, SameBelief(s, t), s.prediction = t.prediction, SameEvidence(s, t)
  PROVE  Bound(s) = Bound(t) /\ (s.spec # None => Evidence(s) = Evidence(t))
BY DEF SameBelief, SameEvidence, Evidence, LegacyEvidence, ScientificEvidence,
       ReleasedEvidence, Bound

-----------------------------------------------------------------------------

\* How far a session got decides which of its fields are there.
InOrder ==
  /\ session.state = "INGESTED" => session.director = None
  /\ session.verdict # None => session.state \in Released \cup {"LAB_VERIFIED"}
  /\ session.verdict # None => session.spec # None
  /\ session.state = "LAB_VERIFIED" /\ session.verdict # None => session.verdict.kind = "REJECTED"
  /\ session.result # None \/ session.authority # None => session.state \in Released
  /\ session.boundary # None => session.state \in Released \ {"EXPERIMENT_COMPLETED"}
  /\ session.state \in Learning => session.revision
  /\ session.state = "TRANSFER_PASSED" => session.transfer = "PASSED"
  /\ session.diff # None =>
       /\ session.spec # None
       /\ session.state \in {"REASONING_DIFF_ISSUED", "PROOF_CAPSULE_ISSUED"}
       /\ session.diff = Frozen(session)
       /\ session.state = "REASONING_DIFF_ISSUED" => head = "reasoning_diff_v2.issued"
  /\ session.capsule # None => session.state = "PROOF_CAPSULE_ISSUED"

\* Which required events are in the chain of a v2 session that got so far.
Cited ==
  session.spec # None =>
    /\ session.state \in Confirmed => "belief_spec.confirmed" \in kinds
    /\ session.state \in Confirmed \ {"BELIEF_TEST_CONFIRMED"} =>
         "prediction.committed" \in kinds
    /\ session.state \in Released \cup {"LAB_VERIFIED"} => "lab.verified" \in kinds
    /\ session.state \in Released => "experiment.evidence_verified" \in kinds
    /\ session.state \in Learning \cup {"BOUNDARY_VERIFIED"} =>
         "boundary_map.verified" \in kinds
    /\ session.state \in Learning => "revision.recorded" \in kinds
    /\ session.state \in Repairing \cup {"TRANSFER_PASSED"} => "transfer.passed" \in kinds
    /\ session.state = "PATCH_VERIFIED" => "patch.verified" \in kinds

\* A boundary map once verified is that of the evidence, until the end.
BoundaryIsBound ==
  session.state \in Learning \cup {"BOUNDARY_VERIFIED"} /\ session.spec # None =>
    session.boundary = Bound(session)

IInv ==
  /\ TypeOK
  /\ EvidenceStaysBound /\ RepairIsEarned /\ RejectionReleasesNothing
  /\ DirectorFollowsBelief /\ CapsuleSealsTheSession
  /\ InOrder /\ Cited /\ BoundaryIsBound

\* A new session has no belief, no evidence and no events that a proof must cite.
LEMMA InitHolds == Init => IInv
<1> SUFFICES ASSUME Init PROVE IInv OBVIOUS
<1>1. PICK mode \in {"live_notebook", "sample_lesson"} :
       session = [mode |-> mode, state |-> "INGESTED", test |-> None, spec |-> None,
                  director |-> None, prediction |-> None, lab |-> None, result |-> None,
                  verdict |-> None, report |-> None, authority |-> None,
                  boundary |-> None, revision |-> FALSE, transfer |-> None,
                  patch |-> None, patchAuthority |-> None, legacyDiff |-> FALSE,
                  diff |-> None, capsule |-> None]
  BY DEF Init
<1>2. /\ session.state = "INGESTED" /\ session.spec = None /\ session.verdict = None
      /\ session.director = None /\ session.result = None /\ session.authority = None
      /\ session.boundary = None /\ session.diff = None /\ session.capsule = None
  BY <1>1
<1>3. session \in Aggregate
  <2>1. "INGESTED" \in DOMAIN Transitions BY DEF Transitions
  <2> DEFINE States == DOMAIN Transitions
  <2> HIDE DEF States
  <2> QED BY <1>1, <2>1 DEF Aggregate, Maybe, States
<1>4. kinds \subseteq RequiredKinds
  BY DEF Init
<1>5. head \in EventKinds
  BY DEF Init, EventKinds
<1>6. TypeOK BY <1>3, <1>4, <1>5 DEF TypeOK
<1> QED BY <1>2, <1>6 DEF IInv, EvidenceStaysBound, RepairIsEarned, RejectionReleasesNothing,
  DirectorFollowsBelief, CapsuleSealsTheSession, InOrder, Cited, BoundaryIsBound

-----------------------------------------------------------------------------

\* What NothingIsRewritten says of a step
Kept ==
  /\ session.state \in Confirmed =>
       /\ session'.test = session.test /\ session'.spec = session.spec
       /\ session'.director = session.director
  /\ session.prediction # None => session'.prediction = session.prediction
  /\ session.state \in Released =>
       /\ session'.lab = session.lab /\ session'.result = session.result
       /\ session'.verdict = session.verdict /\ session'.report = session.report
       /\ session'.authority = session.authority
  /\ session.boundary # None => session'.boundary = session.boundary

\* A step before the lab is verified, that keeps director and chain in order.
LEMMA EarlyStep ==
  ASSUME IInv, TypeOK', session.state \notin Released \cup {"LAB_VERIFIED"},
         session'.state \notin Released \cup {"INGESTED"},
         session.state \in Confirmed => SameBelief(session', session),
         session.prediction # None => session'.prediction = session.prediction,
         session'.result = session.result, session'.verdict = session.verdict,
         session'.authority = session.authority,
         SameLearning(session', session), SameProof(session', session),
         DirectorFollowsBelief', Cited'
  PROVE  IInv' /\ Kept
<1>1. /\ session.verdict = None /\ session.result = None /\ session.authority = None
      /\ session.boundary = None /\ session.diff = None /\ session.capsule = None
  BY DEF IInv, InOrder
<1>2. /\ session'.verdict = None /\ session'.result = None /\ session'.authority = None
      /\ session'.boundary = None /\ session'.diff = None /\ session'.capsule = None
  BY <1>1 DEF SameLearning, SameProof
<1>3. IInv'
  BY <1>2 DEF IInv, EvidenceStaysBound, RepairIsEarned, RejectionReleasesNothing,
     CapsuleSealsTheSession, InOrder, BoundaryIsBound
<1>4. Kept
  BY <1>1 DEF Kept, SameBelief
<1> QED BY <1>3, <1>4

\* A step after the release of a result
LEMMA LateStep ==
  ASSUME IInv, TypeOK', session.state \in Released, session'.state \in Released,
         SameBelief(session', session), session'.prediction = session.prediction,
         SameEvidence(session', session)
  PROVE  /\ EvidenceStaysBound' /\ RejectionReleasesNothing' /\ DirectorFollowsBelief'
         /\ session'.boundary = session.boundary \/ session.boundary = None => Kept
         /\ Bound(session') = Bound(session)
         /\ session.spec # None => Evidence(session') = Evidence(session)
<1>1. /\ Bound(session') = Bound(session)
      /\ session'.spec # None => Evidence(session') = Evidence(session)
  BY SameAuthority
<1>2. EvidenceStaysBound'
  BY <1>1 DEF IInv, EvidenceStaysBound, SameBelief
<1>3. RejectionReleasesNothing'
  BY DEF IInv, RejectionReleasesNothing, SameEvidence
<1>4. DirectorFollowsBelief'
  BY DEF IInv, DirectorFollowsBelief, SameBelief
<1>5. session'.boundary = session.boundary \/ session.boundary = None => Kept
  BY DEF Kept, SameBelief, SameEvidence
<1> QED BY <1>1, <1>2, <1>3, <1>4, <1>5 DEF SameBelief

-----------------------------------------------------------------------------
(* Steps of the aggregate *)

\* An event becomes the head of the chain, and no kind is forgotten.
LEMMA Recorded ==
  ASSUME TypeOK, NEW kind \in EventKinds, Record(kind)
  PROVE  /\ kinds' \subseteq RequiredKinds /\ head' \in EventKinds /\ head' = kind
         /\ kinds \subseteq kinds'
         /\ kind \in RequiredKinds => kind \in kinds'
BY DEF TypeOK, Record

\* What a step does to the type of things, from whatever aggregate it is made ...
LEMMA ReachedFrom ==
  ASSUME IInv, NEW next \in Aggregate, NEW to, NEW kind \in EventKinds, Evolve(next, to, kind)
  PROVE  /\ TypeOK' /\ session'.state = to /\ SameFields(session', next)
         /\ session.state \in DOMAIN Transitions /\ to \in Transitions[session.state]
         /\ kinds \subseteq kinds' /\ head' = kind
         /\ kind \in RequiredKinds => kind \in kinds'
<1>1. session' = [next EXCEPT !.state = to] /\ to \in Transitions[session.state] /\ Record(kind)
  BY DEF Evolve
<1>2. TypeOK /\ session.state \in DOMAIN Transitions
  BY DEF IInv, TypeOK, Aggregate
<1>3. to \in DOMAIN Transitions
  BY <1>1, <1>2, Sources
<1>4. session' \in Aggregate /\ session'.state = to /\ SameFields(session', next)
  BY <1>1, <1>3, Moved
<1>5. /\ kinds' \subseteq RequiredKinds /\ head' \in EventKinds /\ kinds \subseteq kinds'
      /\ head' = kind /\ (kind \in RequiredKinds => kind \in kinds')
  BY <1>1, <1>2, Recorded
<1> QED BY <1>1, <1>2, <1>4, <1>5 DEF TypeOK

\* A revision stores the aggregate it is given.
LEMMA Revised ==
  ASSUME IInv, NEW next \in Aggregate, NEW kind \in EventKinds, Revise(next, kind)
  PROVE  /\ TypeOK' /\ session' = next /\ kinds \subseteq kinds' /\ head' = kind
<1>1. TypeOK
  BY DEF IInv
<1> QED BY <1>1, Recorded DEF Revise, TypeOK

\* ... and if it moves the session and nothing else.
LEMMA Reached ==
  ASSUME IInv, NEW to, NEW kind \in EventKinds, Evolve(session, to, kind)
  PROVE  /\ TypeOK' /\ session'.state = to /\ SameFields(session', session)
         /\ session.state \in DOMAIN Transitions /\ to \in Transitions[session.state]
         /\ kinds \subseteq kinds' /\ head' = kind
         /\ kind \in RequiredKinds => kind \in kinds'
<1>1. PICK next \in Aggregate : next = session
  BY DEF IInv, TypeOK
<1>2. Evolve(next, to, kind)
  BY <1>1 DEF Evolve
<1> QED BY <1>1, <1>2, ReachedFrom

\* A compilation starts with belief and director as they were confirmed.
LEMMA StartLabCompilationHolds == IInv /\ StartLabCompilation => IInv' /\ Kept
<1> SUFFICES ASSUME IInv, StartLabCompilation PROVE IInv' /\ Kept OBVIOUS
<1>1. /\ TypeOK' /\ session'.state = "LAB_COMPILING" /\ SameFields(session', session)
      /\ kinds \subseteq kinds' /\ session.state \in {"PREDICTION_COMMITTED", "LAB_REJECTED"}
  BY Reached, Sources DEF StartLabCompilation, EventKinds
<1>2. DirectorFollowsBelief'
  BY <1>1 DEF IInv, DirectorFollowsBelief, SameFields, SameBelief
<1>3. Cited'
  BY <1>1 DEF IInv, Cited, SameFields, SameBelief
<1> QED BY <1>1, <1>2, <1>3, EarlyStep DEF SameFields, SameEvidence

\* A rejected lab leaves belief and prediction alone.
LEMMA RejectLabHolds == IInv /\ RejectLab => IInv' /\ Kept
<1> SUFFICES ASSUME IInv, RejectLab PROVE IInv' /\ Kept OBVIOUS
<1>1. /\ TypeOK' /\ session'.state = "LAB_REJECTED" /\ SameFields(session', session)
      /\ kinds \subseteq kinds' /\ session.state = "LAB_COMPILING"
  BY Reached, Sources DEF RejectLab, EventKinds
<1>2. DirectorFollowsBelief'
  BY <1>1 DEF IInv, DirectorFollowsBelief, SameFields, SameBelief
<1>3. Cited'
  BY <1>1 DEF IInv, Cited, SameFields, SameBelief
<1> QED BY <1>1, <1>2, <1>3, EarlyStep DEF SameFields, SameEvidence

\* Any field of an aggregate may be replaced by another of its type.
LEMMA Updated ==
  ASSUME NEW s \in Aggregate
  PROVE  /\ \A x \in Maybe(Test) : [s EXCEPT !.test = x] \in Aggregate
         /\ \A x \in Maybe(Spec2) : [s EXCEPT !.spec = x] \in Aggregate
         /\ \A x \in Maybe(Director) : [s EXCEPT !.director = x] \in Aggregate
         /\ \A x \in Maybe(Predictions) : [s EXCEPT !.prediction = x] \in Aggregate
         /\ \A x \in Maybe(Lineage \cup {Plan}) : [s EXCEPT !.lab = x] \in Aggregate
         /\ \A x \in Maybe(Result) : [s EXCEPT !.result = x] \in Aggregate
         /\ \A x \in Maybe(Verdict) : [s EXCEPT !.verdict = x] \in Aggregate
         /\ \A x \in Maybe(Reports) : [s EXCEPT !.report = x] \in Aggregate
         /\ \A x \in Maybe(ResultRef) : [s EXCEPT !.authority = x] \in Aggregate
         /\ \A x \in Maybe(Boundary) : [s EXCEPT !.boundary = x] \in Aggregate
         /\ \A x \in BOOLEAN : [s EXCEPT !.revision = x] \in Aggregate
         /\ \A x \in Maybe({"PASSED", "FAILED"}) : [s EXCEPT !.transfer = x] \in Aggregate
         /\ \A x \in Maybe(Patches) : [s EXCEPT !.patch = x] \in Aggregate
         /\ \A x \in Maybe(Patches) : [s EXCEPT !.patchAuthority = x] \in Aggregate
         /\ \A x \in BOOLEAN : [s EXCEPT !.legacyDiff = x] \in Aggregate
         /\ \A x \in Maybe(Diff) : [s EXCEPT !.diff = x] \in Aggregate
         /\ \A x \in Maybe([diff : Diff, head : EventKinds]) :
              [s EXCEPT !.capsule = x] \in Aggregate
<1> DEFINE States == DOMAIN Transitions
<1> HIDE DEF States
<1>1. \A x \in Maybe(Test) : [s EXCEPT !.test = x] \in Aggregate
  BY DEF Aggregate, States
<1>2. \A x \in Maybe(Spec2) : [s EXCEPT !.spec = x] \in Aggregate
  BY DEF Aggregate, States
<1>3. \A x \in Maybe(Director) : [s EXCEPT !.director = x] \in Aggregate
  BY DEF Aggregate, States
<1>4. \A x \in Maybe(Predictions) : [s EXCEPT !.prediction = x] \in Aggregate
  BY DEF Aggregate, States
<1>5. \A x \in Maybe(Lineage \cup {Plan}) : [s EXCEPT !.lab = x] \in Aggregate
  BY DEF Aggregate, States
<1>6. \A x \in Maybe(Result) : [s EXCEPT !.result = x] \in Aggregate
  BY DEF Aggregate, States
<1>7. \A x \in Maybe(Verdict) : [s EXCEPT !.verdict = x] \in Aggregate
  BY DEF Aggregate, States
<1>8. \A x \in Maybe(Reports) : [s EXCEPT !.report = x] \in Aggregate
  BY DEF Aggregate, States
<1>9. \A x \in Maybe(ResultRef) : [s EXCEPT !.authority = x] \in Aggregate
  BY DEF Aggregate, States
<1>10. \A x \in Maybe(Boundary) : [s EXCEPT !.boundary = x] \in Aggregate
  BY DEF Aggregate, States
<1>11. \A x \in BOOLEAN : [s EXCEPT !.revision = x] \in Aggregate
  BY DEF Aggregate, States
<1>12. \A x \in Maybe({"PASSED", "FAILED"}) : [s EXCEPT !.transfer = x] \in Aggregate
  BY DEF Aggregate, States
<1>13. \A x \in Maybe(Patches) : [s EXCEPT !.patch = x] \in Aggregate
  BY DEF Aggregate, States
<1>14. \A x \in Maybe(Patches) : [s EXCEPT !.patchAuthority = x] \in Aggregate
  BY DEF Aggregate, States
<1>15. \A x \in BOOLEAN : [s EXCEPT !.legacyDiff = x] \in Aggregate
  BY DEF Aggregate, States
<1>16. \A x \in Maybe(Diff) : [s EXCEPT !.diff = x] \in Aggregate
  BY DEF Aggregate, States
<1>17. \A x \in Maybe([diff : Diff, head : EventKinds]) : [s EXCEPT !.capsule = x] \in Aggregate
  BY DEF Aggregate, States
<1> QED BY <1>1, <1>2, <1>3, <1>4, <1>5, <1>6, <1>7, <1>8, <1>9, <1>10,
  <1>11, <1>12, <1>13, <1>14, <1>15, <1>16, <1>17

\* A new session has no director, so the belief proposed cannot be at odds with one.
LEMMA ProposeBeliefTestHolds ==
  ASSUME IInv, NEW b \in Test, ProposeBeliefTest(b)
  PROVE  IInv' /\ Kept
<1>1. session \in Aggregate
  BY DEF IInv, TypeOK
<1>2. PICK next \in Aggregate : next = [session EXCEPT !.test = b]
  BY <1>1, Updated DEF Maybe
<1>3. /\ next.director = session.director /\ next.prediction = session.prediction
      /\ SameEvidence(next, session) /\ SameLearning(next, session) /\ SameProof(next, session)
  BY <1>1, <1>2 DEF Aggregate, SameEvidence, SameLearning, SameProof
<1>4. Evolve(next, "BELIEF_TEST_PROPOSED", "belief_test.proposed")
  BY <1>2 DEF ProposeBeliefTest, Evolve
<1>5. /\ TypeOK' /\ session'.state = "BELIEF_TEST_PROPOSED" /\ SameFields(session', next)
      /\ session.state = "INGESTED"
  BY <1>4, ReachedFrom, Sources DEF EventKinds
<1>6. DirectorFollowsBelief'
  BY <1>3, <1>5 DEF IInv, InOrder, DirectorFollowsBelief, SameFields, SameBelief
<1>7. Cited'
  BY <1>5 DEF Cited
<1> QED BY <1>3, <1>5, <1>6, <1>7, EarlyStep
  DEF SameFields, SameEvidence, SameLearning, SameProof

\* Likewise for Belief Specs.
LEMMA ProposeBeliefSpecV2Holds ==
  ASSUME IInv, NEW b \in Spec2, ProposeBeliefSpecV2(b)
  PROVE  IInv' /\ Kept
<1>1. session \in Aggregate
  BY DEF IInv, TypeOK
<1>2. PICK next \in Aggregate : next = [session EXCEPT !.spec = b]
  BY <1>1, Updated DEF Maybe
<1>3. /\ next.director = session.director /\ next.prediction = session.prediction
      /\ SameEvidence(next, session) /\ SameLearning(next, session) /\ SameProof(next, session)
  BY <1>1, <1>2 DEF Aggregate, SameEvidence, SameLearning, SameProof
<1>4. Evolve(next, "BELIEF_TEST_PROPOSED", "belief_spec.proposed")
  BY <1>2 DEF ProposeBeliefSpecV2, Evolve
<1>5. /\ TypeOK' /\ session'.state = "BELIEF_TEST_PROPOSED" /\ SameFields(session', next)
      /\ session.state = "INGESTED"
  BY <1>4, ReachedFrom, Sources DEF EventKinds
<1>6. DirectorFollowsBelief'
  BY <1>3, <1>5 DEF IInv, InOrder, DirectorFollowsBelief, SameFields, SameBelief
<1>7. Cited'
  BY <1>5 DEF Cited
<1> QED BY <1>3, <1>5, <1>6, <1>7, EarlyStep
  DEF SameFields, SameEvidence, SameLearning, SameProof

\* A director's plan is of the belief it is recorded with.
LEMMA RecordLearningDirectorHolds ==
  ASSUME IInv, NEW d \in Director, NEW answer, RecordLearningDirector(d, answer)
  PROVE  IInv' /\ Kept
<1>1. session \in Aggregate
  BY DEF IInv, TypeOK
<1>2. PICK next \in Aggregate : next = [session EXCEPT !.director = d]
  BY <1>1, Updated DEF Maybe
<1>3. /\ next.state = session.state /\ next.spec = session.spec /\ next.director = d
      /\ next.prediction = session.prediction
      /\ SameEvidence(next, session) /\ SameLearning(next, session) /\ SameProof(next, session)
  BY <1>1, <1>2 DEF Aggregate, SameEvidence, SameLearning, SameProof
<1>4. /\ session.state = "BELIEF_TEST_PROPOSED" /\ session.spec # None /\ d.spec = session.spec
      /\ session' = next
      /\ \/ Record("learning_director.ready")
         \/ Record("learning_director.clarification_requested")
  BY <1>2 DEF RecordLearningDirector, Revise
<1>5. TypeOK'
  BY <1>4, Recorded DEF IInv, TypeOK, EventKinds
<1>6. DirectorFollowsBelief'
  BY <1>3, <1>4 DEF DirectorFollowsBelief
<1>7. Cited'
  BY <1>3, <1>4 DEF Cited
<1> QED BY <1>3, <1>4, <1>5, <1>6, <1>7, EarlyStep DEF SameEvidence, SameLearning, SameProof

\* A Belief Test changes only before it is confirmed, and has no director.
LEMMA EditBeliefTestHolds ==
  ASSUME IInv, NEW b \in Test, EditBeliefTest(b)
  PROVE  IInv' /\ Kept
<1>1. session \in Aggregate
  BY DEF IInv, TypeOK
<1>2. PICK next \in Aggregate : next = [session EXCEPT !.test = b]
  BY <1>1, Updated DEF Maybe
<1>3. /\ next.state = session.state /\ next.spec = session.spec
      /\ next.director = session.director /\ next.prediction = session.prediction
      /\ SameEvidence(next, session) /\ SameLearning(next, session) /\ SameProof(next, session)
  BY <1>1, <1>2 DEF Aggregate, SameEvidence, SameLearning, SameProof
<1>4. session.state = "BELIEF_TEST_PROPOSED" /\ Revise(next, "belief_test.edited")
  BY <1>2 DEF EditBeliefTest, Revise
<1>5. TypeOK' /\ session' = next
  BY <1>4, Revised DEF EventKinds
<1>6. DirectorFollowsBelief'
  BY <1>3, <1>4, <1>5 DEF IInv, DirectorFollowsBelief
<1>7. Cited'
  BY <1>3, <1>4, <1>5 DEF Cited
<1> QED BY <1>3, <1>4, <1>5, <1>6, <1>7, EarlyStep DEF SameEvidence, SameLearning, SameProof

\* A belief that changes takes the director's plan with it.
LEMMA NewSpec ==
  ASSUME NEW s \in Aggregate, NEW b \in Spec2
  PROVE  \E next \in Aggregate :
           /\ next = [s EXCEPT !.spec = b, !.director = None]
           /\ next.state = s.state /\ next.spec = b /\ next.director = None
           /\ next.prediction = s.prediction
           /\ SameEvidence(next, s) /\ SameLearning(next, s) /\ SameProof(next, s)
<1>1. PICK t \in Aggregate : t = [s EXCEPT !.spec = b]
  BY Updated DEF Maybe
<1>2. PICK next \in Aggregate : next = [t EXCEPT !.director = None]
  BY Updated DEF Maybe
<1>3. next = [s EXCEPT !.spec = b, !.director = None]
  BY <1>1, <1>2 DEF Aggregate
<1>4. /\ t.state = s.state /\ t.spec = b /\ t.prediction = s.prediction
      /\ SameEvidence(t, s) /\ SameLearning(t, s) /\ SameProof(t, s)
  BY <1>1 DEF Aggregate, SameEvidence, SameLearning, SameProof
<1>5. /\ next.state = t.state /\ next.spec = t.spec /\ next.director = None
      /\ next.prediction = t.prediction
      /\ SameEvidence(next, t) /\ SameLearning(next, t) /\ SameProof(next, t)
  BY <1>2 DEF Aggregate, SameEvidence, SameLearning, SameProof
<1>6. /\ next.state = s.state /\ next.spec = b /\ next.prediction = s.prediction
      /\ SameEvidence(next, s) /\ SameLearning(next, s) /\ SameProof(next, s)
  BY <1>4, <1>5 DEF SameEvidence, SameLearning, SameProof
<1> QED BY <1>3, <1>5, <1>6

\* An edit changes a belief only before it is confirmed, and drops the plan.
LEMMA EditBeliefSpecV2Holds ==
  ASSUME IInv, NEW b \in Spec2, EditBeliefSpecV2(b)
  PROVE  IInv' /\ Kept
<1>1. session \in Aggregate
  BY DEF IInv, TypeOK
<1>2. PICK edited \in Spec2 : edited = [b EXCEPT !.decision = "EDITED"]
  BY DEF Spec2
<1>3. PICK next \in Aggregate :
        /\ next = [session EXCEPT !.spec = edited, !.director = None]
        /\ next.state = session.state /\ next.spec = edited /\ next.director = None
        /\ next.prediction = session.prediction
        /\ SameEvidence(next, session) /\ SameLearning(next, session) /\ SameProof(next, session)
  BY <1>1, NewSpec
<1>4. session.state = "BELIEF_TEST_PROPOSED" /\ Revise(next, "belief_spec.edited")
  BY <1>2, <1>3 DEF EditBeliefSpecV2, Revise
<1>5. TypeOK' /\ session' = next
  BY <1>4, Revised DEF EventKinds
<1>6. DirectorFollowsBelief'
  BY <1>3, <1>5 DEF DirectorFollowsBelief
<1>7. Cited'
  BY <1>3, <1>4, <1>5 DEF Cited
<1> QED BY <1>3, <1>4, <1>5, <1>6, <1>7, EarlyStep DEF SameEvidence, SameLearning, SameProof

\* So does the choice of an alternative.
LEMMA SelectBeliefAlternativeHolds ==
  ASSUME IInv, SelectBeliefAlternative
  PROVE  IInv' /\ Kept
<1>1. session \in Aggregate /\ session.spec \in Spec2
  BY DEF IInv, TypeOK, SelectBeliefAlternative, Aggregate, Maybe
<1>2. PICK selected \in Spec2 : selected = [session.spec EXCEPT !.decision = "ALTERNATIVE_SELECTED"]
  BY <1>1 DEF Spec2
<1>3. PICK next \in Aggregate :
        /\ next = [session EXCEPT !.spec = selected, !.director = None]
        /\ next.state = session.state /\ next.spec = selected /\ next.director = None
        /\ next.prediction = session.prediction
        /\ SameEvidence(next, session) /\ SameLearning(next, session) /\ SameProof(next, session)
  BY <1>1, NewSpec
<1>4. session.state = "BELIEF_TEST_PROPOSED" /\ Revise(next, "belief_spec.alternative_selected")
  BY <1>2, <1>3 DEF SelectBeliefAlternative, Revise
<1>5. TypeOK' /\ session' = next
  BY <1>4, Revised DEF EventKinds
<1>6. DirectorFollowsBelief'
  BY <1>3, <1>5 DEF DirectorFollowsBelief
<1>7. Cited'
  BY <1>3, <1>4, <1>5 DEF Cited
<1> QED BY <1>3, <1>4, <1>5, <1>6, <1>7, EarlyStep DEF SameEvidence, SameLearning, SameProof

\* A prediction is committed once, for the confirmed belief.
LEMMA CommitPredictionHolds ==
  ASSUME IInv, NEW p \in Predictions, CommitPrediction(p)
  PROVE  IInv' /\ Kept
<1>1. session \in Aggregate
  BY DEF IInv, TypeOK
<1>2. PICK next \in Aggregate : next = [session EXCEPT !.prediction = p]
  BY <1>1, Updated DEF Maybe
<1>3. /\ SameBelief(next, session) /\ SameEvidence(next, session)
      /\ SameLearning(next, session) /\ SameProof(next, session)
  BY <1>1, <1>2 DEF Aggregate, SameBelief, SameEvidence, SameLearning, SameProof
<1>4. /\ session.prediction = None
      /\ Evolve(next, "PREDICTION_COMMITTED", "prediction.committed")
  BY <1>2 DEF CommitPrediction, Evolve
<1>5. /\ TypeOK' /\ session'.state = "PREDICTION_COMMITTED" /\ SameFields(session', next)
      /\ session.state = "BELIEF_TEST_CONFIRMED"
      /\ kinds \subseteq kinds' /\ "prediction.committed" \in kinds'
  BY <1>4, ReachedFrom, Sources DEF EventKinds, RequiredKinds
<1>6. DirectorFollowsBelief'
  BY <1>3, <1>5 DEF IInv, DirectorFollowsBelief, SameFields, SameBelief
<1>7. Cited'
  BY <1>3, <1>5 DEF IInv, Cited, SameFields, SameBelief
<1> QED BY <1>3, <1>4, <1>5, <1>6, <1>7, EarlyStep
  DEF SameFields, SameBelief, SameEvidence, SameLearning, SameProof

\* A lab is verified before anything depends on it.
LEMMA VerifyLabHolds ==
  ASSUME IInv, NEW l \in Lineage \cup {Plan}, VerifyLab(l)
  PROVE  IInv' /\ Kept
<1>1. session \in Aggregate
  BY DEF IInv, TypeOK
<1>2. PICK next \in Aggregate : next = [session EXCEPT !.lab = l]
  BY <1>1, Updated DEF Maybe
<1>3. /\ SameBelief(next, session) /\ next.prediction = session.prediction
      /\ next.result = session.result /\ next.verdict = session.verdict
      /\ next.authority = session.authority
      /\ SameLearning(next, session) /\ SameProof(next, session)
  BY <1>1, <1>2 DEF Aggregate, SameBelief, SameLearning, SameProof
<1>4. Evolve(next, "LAB_VERIFIED", "lab.verified")
  BY <1>2 DEF VerifyLab, Evolve
<1>5. /\ TypeOK' /\ session'.state = "LAB_VERIFIED" /\ SameFields(session', next)
      /\ session.state = "LAB_COMPILING"
      /\ kinds \subseteq kinds' /\ "lab.verified" \in kinds'
  BY <1>4, ReachedFrom, Sources DEF EventKinds, RequiredKinds
<1>6. DirectorFollowsBelief'
  BY <1>3, <1>5 DEF IInv, DirectorFollowsBelief, SameFields, SameBelief
<1>7. Cited'
  BY <1>3, <1>5 DEF IInv, Cited, SameFields, SameBelief
<1> QED BY <1>3, <1>5, <1>6, <1>7, EarlyStep
  DEF SameFields, SameBelief, SameEvidence, SameLearning, SameProof

\* Confirmation records the decision, keeps the claim, and leaves no question pending.
LEMMA ConfirmBeliefTestHolds ==
  ASSUME IInv, ConfirmBeliefTest
  PROVE  IInv' /\ Kept
<1>1. CASE session.spec = None
  <2>1. Evolve(session, "BELIEF_TEST_CONFIRMED", "belief_test.confirmed")
    BY <1>1 DEF ConfirmBeliefTest
  <2>2. /\ TypeOK' /\ session'.state = "BELIEF_TEST_CONFIRMED" /\ SameFields(session', session)
        /\ session.state = "BELIEF_TEST_PROPOSED"
    BY <2>1, Reached, Sources DEF EventKinds
  <2>3. DirectorFollowsBelief' /\ Cited'
    BY <1>1, <2>2 DEF IInv, DirectorFollowsBelief, Cited, SameFields, SameBelief
  <2> QED BY <2>2, <2>3, EarlyStep DEF SameFields, SameEvidence
<1>2. CASE session.spec # None
  <2>1. session \in Aggregate /\ session.spec \in Spec2 /\ session.director \in Maybe(Director)
    BY <1>2 DEF IInv, TypeOK, Aggregate, Maybe
  <2>2. PICK decided \in Spec2 :
          decided = IF session.spec.decision = "ALTERNATIVE_SELECTED" THEN session.spec
                    ELSE [session.spec EXCEPT !.decision = "CONFIRMED"]
    BY <2>1 DEF Spec2
  <2>3. PICK d \in Maybe(Director) :
          d = IF session.director # None /\ session.director.status = "CLARIFICATION_REQUIRED"
              THEN None ELSE session.director
    BY <2>1 DEF Maybe
  <2>4. PICK next \in Aggregate :
          /\ next = [session EXCEPT !.spec = decided, !.director = d]
          /\ next.spec = decided /\ next.director = d /\ next.prediction = session.prediction
          /\ SameEvidence(next, session) /\ SameLearning(next, session)
          /\ SameProof(next, session)
    <3>1. PICK mid \in Aggregate : mid = [session EXCEPT !.spec = decided]
      BY <2>1, Updated DEF Maybe
    <3>2. PICK next \in Aggregate : next = [mid EXCEPT !.director = d]
      BY Updated
    <3>3. /\ mid.spec = decided /\ mid.prediction = session.prediction
          /\ SameEvidence(mid, session) /\ SameLearning(mid, session)
          /\ SameProof(mid, session)
      BY <2>1, <3>1 DEF Aggregate, SameEvidence, SameLearning, SameProof
    <3>4. /\ next.spec = mid.spec /\ next.director = d /\ next.prediction = mid.prediction
          /\ SameEvidence(next, mid) /\ SameLearning(next, mid) /\ SameProof(next, mid)
      BY <3>2 DEF Aggregate, SameEvidence, SameLearning, SameProof
    <3>5. next = [session EXCEPT !.spec = decided, !.director = d]
      BY <2>1, <3>1, <3>2 DEF Aggregate
    <3> QED BY <3>3, <3>4, <3>5 DEF SameEvidence, SameLearning, SameProof
  <2>5. Evolve(next, "BELIEF_TEST_CONFIRMED", "belief_spec.confirmed")
    BY <1>2, <2>2, <2>3, <2>4 DEF ConfirmBeliefTest, Evolve
  <2>6. /\ TypeOK' /\ session'.state = "BELIEF_TEST_CONFIRMED" /\ SameFields(session', next)
        /\ session.state = "BELIEF_TEST_PROPOSED" /\ "belief_spec.confirmed" \in kinds'
    BY <2>5, ReachedFrom, Sources DEF EventKinds, RequiredKinds
  <2>7. d # None => d.status = "READY" /\ d = session.director
    BY <2>1, <2>3 DEF Maybe, Director
  <2>8. session'.spec = decided /\ session'.director = d
    BY <2>4, <2>6 DEF SameFields, SameBelief
  <2>9. DirectorFollowsBelief'
    <3>1. decided # None
      BY <2>2, NothingIsNone
    <3>2. decided.claim = session.spec.claim /\ decided.concept = session.spec.concept
      BY <2>1, <2>2 DEF Spec2
    <3> QED BY <2>6, <2>7, <2>8, <3>1, <3>2 DEF IInv, DirectorFollowsBelief
  <2>10. Cited'
    BY <2>6 DEF Cited
  <2> QED BY <2>4, <2>6, <2>9, <2>10, EarlyStep
    DEF SameFields, SameEvidence, SameLearning, SameProof
<1> QED BY <1>1, <1>2

\* A rejection by the learner keeps the claim and ends the session.
LEMMA RejectBeliefTestHolds ==
  ASSUME IInv, RejectBeliefTest
  PROVE  IInv' /\ Kept
<1>1. CASE session.spec = None
  <2>1. Evolve(session, "REJECTED_BY_LEARNER", "belief_test.rejected")
    BY <1>1 DEF RejectBeliefTest
  <2>2. /\ TypeOK' /\ session'.state = "REJECTED_BY_LEARNER" /\ SameFields(session', session)
        /\ session.state = "BELIEF_TEST_PROPOSED"
    BY <2>1, Reached, Sources DEF EventKinds
  <2>3. DirectorFollowsBelief' /\ Cited'
    BY <1>1, <2>2 DEF IInv, DirectorFollowsBelief, Cited, SameFields, SameBelief
  <2> QED BY <2>2, <2>3, EarlyStep DEF SameFields, SameEvidence
<1>2. CASE session.spec # None
  <2>1. session \in Aggregate /\ session.spec \in Spec2
    BY <1>2 DEF IInv, TypeOK, Aggregate, Maybe
  <2>2. PICK rejected \in Spec2 : rejected = [session.spec EXCEPT !.decision = "REJECTED"]
    BY <2>1 DEF Spec2
  <2>3. PICK next \in Aggregate : next = [session EXCEPT !.spec = rejected]
    BY <2>1, Updated DEF Maybe
  <2>4. /\ next.spec = rejected /\ next.director = session.director
        /\ next.prediction = session.prediction
        /\ SameEvidence(next, session) /\ SameLearning(next, session)
        /\ SameProof(next, session)
    BY <2>1, <2>3 DEF Aggregate, SameEvidence, SameLearning, SameProof
  <2>5. Evolve(next, "REJECTED_BY_LEARNER", "belief_spec.rejected")
    BY <1>2, <2>2, <2>3 DEF RejectBeliefTest, Evolve
  <2>6. /\ TypeOK' /\ session'.state = "REJECTED_BY_LEARNER" /\ SameFields(session', next)
        /\ session.state = "BELIEF_TEST_PROPOSED"
    BY <2>5, ReachedFrom, Sources DEF EventKinds
  <2>7. /\ rejected # None
        /\ rejected.claim = session.spec.claim /\ rejected.concept = session.spec.concept
    BY <2>1, <2>2, NothingIsNone DEF Spec2
  <2>8. DirectorFollowsBelief'
    BY <2>2, <2>4, <2>6, <2>7 DEF IInv, DirectorFollowsBelief, SameFields, SameBelief
  <2>9. Cited'
    BY <2>6 DEF Cited
  <2> QED BY <2>4, <2>6, <2>8, <2>9, EarlyStep
    DEF SameFields, SameEvidence, SameLearning, SameProof
<1> QED BY <1>1, <1>2

\* So does the finding that the notebook cannot support the belief.
LEMMA MarkInsufficientEvidenceHolds ==
  ASSUME IInv, MarkInsufficientEvidence
  PROVE  IInv' /\ Kept
<1>1. CASE session.spec = None
  <2>1. Evolve(session, "INSUFFICIENT_EVIDENCE", "belief_test.insufficient_evidence")
    BY <1>1 DEF MarkInsufficientEvidence
  <2>2. /\ TypeOK' /\ session'.state = "INSUFFICIENT_EVIDENCE" /\ SameFields(session', session)
        /\ session.state = "BELIEF_TEST_PROPOSED"
    BY <2>1, Reached, Sources DEF EventKinds
  <2>3. DirectorFollowsBelief' /\ Cited'
    BY <1>1, <2>2 DEF IInv, DirectorFollowsBelief, Cited, SameFields, SameBelief
  <2> QED BY <2>2, <2>3, EarlyStep DEF SameFields, SameEvidence
<1>2. CASE session.spec # None
  <2>1. session \in Aggregate /\ session.spec \in Spec2
    BY <1>2 DEF IInv, TypeOK, Aggregate, Maybe
  <2>2. PICK unsupported \in Spec2 :
          unsupported = [session.spec EXCEPT !.support = "INSUFFICIENT_EVIDENCE"]
    BY <2>1 DEF Spec2
  <2>3. PICK next \in Aggregate : next = [session EXCEPT !.spec = unsupported]
    BY <2>1, Updated DEF Maybe
  <2>4. /\ next.spec = unsupported /\ next.director = session.director
        /\ next.prediction = session.prediction
        /\ SameEvidence(next, session) /\ SameLearning(next, session)
        /\ SameProof(next, session)
    BY <2>1, <2>3 DEF Aggregate, SameEvidence, SameLearning, SameProof
  <2>5. Evolve(next, "INSUFFICIENT_EVIDENCE", "belief_spec.insufficient_evidence")
    BY <1>2, <2>2, <2>3 DEF MarkInsufficientEvidence, Evolve
  <2>6. /\ TypeOK' /\ session'.state = "INSUFFICIENT_EVIDENCE" /\ SameFields(session', next)
        /\ session.state = "BELIEF_TEST_PROPOSED"
    BY <2>5, ReachedFrom, Sources DEF EventKinds
  <2>7. /\ unsupported # None
        /\ unsupported.claim = session.spec.claim /\ unsupported.concept = session.spec.concept
    BY <2>1, <2>2, NothingIsNone DEF Spec2
  <2>8. DirectorFollowsBelief'
    BY <2>2, <2>4, <2>6, <2>7 DEF IInv, DirectorFollowsBelief, SameFields, SameBelief
  <2>9. Cited'
    BY <2>6 DEF Cited
  <2> QED BY <2>4, <2>6, <2>8, <2>9, EarlyStep
    DEF SameFields, SameEvidence, SameLearning, SameProof
<1> QED BY <1>1, <1>2

\* With a verified lab nothing of its run is released.
LEMMA Unreleased ==
  ASSUME IInv, session.state = "LAB_VERIFIED"
  PROVE  /\ session.result = None /\ session.authority = None /\ session.boundary = None
         /\ session.diff = None /\ session.capsule = None
         /\ session.verdict # None => session.spec # None
BY DEF IInv, InOrder

\* A v1 result is released for a Belief Test only.
LEMMA RecordExperimentResultHolds ==
  ASSUME IInv, NEW r \in Result, RecordExperimentResult(r)
  PROVE  IInv' /\ Kept
<1>1. session \in Aggregate /\ session.spec = None
  BY DEF IInv, TypeOK, RecordExperimentResult
<1>2. PICK next \in Aggregate : next = [session EXCEPT !.result = r]
  BY <1>1, Updated DEF Maybe
<1>3. /\ SameBelief(next, session) /\ next.prediction = session.prediction
      /\ next.verdict = session.verdict /\ next.authority = session.authority
      /\ SameLearning(next, session) /\ SameProof(next, session)
  BY <1>1, <1>2 DEF Aggregate, SameBelief, SameLearning, SameProof
<1>4. Evolve(next, "EXPERIMENT_COMPLETED", "experiment.completed")
  BY <1>2 DEF RecordExperimentResult, Evolve
<1>5. /\ TypeOK' /\ session'.state = "EXPERIMENT_COMPLETED" /\ SameFields(session', next)
      /\ session.state = "LAB_VERIFIED"
  BY <1>4, ReachedFrom, Sources DEF EventKinds
<1>6. /\ SameBelief(session', session) /\ session'.prediction = session.prediction
      /\ session'.spec = None /\ session'.verdict = None /\ session'.boundary = None
      /\ session'.diff = None /\ session'.capsule = None /\ session.boundary = None
  BY <1>1, <1>3, <1>5, Unreleased
  DEF SameFields, SameBelief, SameEvidence, SameLearning, SameProof
<1>7. DirectorFollowsBelief'
  BY <1>1, <1>6 DEF IInv, DirectorFollowsBelief, SameBelief
<1>8. EvidenceStaysBound' /\ RepairIsEarned' /\ RejectionReleasesNothing'
  BY <1>5, <1>6 DEF EvidenceStaysBound, RepairIsEarned, RejectionReleasesNothing
<1>9. CapsuleSealsTheSession' /\ InOrder' /\ Cited' /\ BoundaryIsBound'
  BY <1>5, <1>6 DEF CapsuleSealsTheSession, InOrder, Cited, BoundaryIsBound
<1>10. Kept
  BY <1>5, <1>6 DEF Kept, SameBelief
<1> QED BY <1>5, <1>7, <1>8, <1>9, <1>10 DEF IInv

\* What evidence a release has is a matter of its authority reference too.
LEMMA ReleasedAuthority ==
  ASSUME NEW s, NEW t, SameBelief(s, t), s.prediction = t.prediction,
         s.lab = t.lab, s.result = t.result, s.verdict = t.verdict, s.report = t.report,
         t.authority = None, Evidence(t) \in {"SUPPORTS", "INCONCLUSIVE"},
         s.authority # None =>
           s.authority = [result |-> s.result, verdict |-> s.verdict, report |-> s.report]
  PROVE  t.spec # None /\ Evidence(s) \in {"SUPPORTS", "INCONCLUSIVE"}
<1>1. ScientificEvidence(t) /\ t.verdict.kind \in {"SUPPORTS", "INCONCLUSIVE"}
  BY DEF Evidence
<1>2. t.spec # None /\ ReleasedEvidence(t)
  BY <1>1 DEF ScientificEvidence
<1>3. s.spec # None /\ s.verdict.kind \in {"SUPPORTS", "INCONCLUSIVE"}
  BY <1>1, <1>2 DEF SameBelief
<1>4. ReleasedEvidence(s)
  BY <1>2 DEF ReleasedEvidence, SameBelief
<1>5. ScientificEvidence(s)
  BY <1>1, <1>3, <1>4 DEF ScientificEvidence, SameBelief
<1>6. ~LegacyEvidence(s)
  BY <1>3 DEF LegacyEvidence
<1> QED BY <1>2, <1>3, <1>5, <1>6 DEF Evidence

\* A v2 result is released if the evidence it makes is whole, with its reference or without.
LEMMA RecordEpistemicResultHolds ==
  ASSUME IInv, NEW v \in Verdict, NEW report \in Reports, NEW referenced \in BOOLEAN,
         RecordEpistemicResult(v, report, referenced)
  PROVE  IInv' /\ Kept
<1>1. session \in Aggregate
  BY DEF IInv, TypeOK
<1>2. v.kind # "REJECTED" /\ v.result \in Result
  BY DEF RecordEpistemicResult, Verdict
<1>3. PICK released \in Aggregate :
        /\ released = [session EXCEPT !.result = v.result, !.verdict = v, !.report = report]
        /\ SameBelief(released, session) /\ released.prediction = session.prediction
        /\ released.lab = session.lab /\ released.authority = session.authority
        /\ released.result = v.result /\ released.verdict = v /\ released.report = report
        /\ SameLearning(released, session) /\ SameProof(released, session)
  <2>1. PICK a \in Aggregate : a = [session EXCEPT !.result = v.result]
    BY <1>1, <1>2, Updated DEF Maybe
  <2>2. PICK b \in Aggregate : b = [a EXCEPT !.verdict = v]
    BY Updated DEF Maybe
  <2>3. PICK c \in Aggregate : c = [b EXCEPT !.report = report]
    BY Updated DEF Maybe
  <2>4. /\ SameBelief(a, session) /\ a.prediction = session.prediction
        /\ a.lab = session.lab /\ a.authority = session.authority /\ a.result = v.result
        /\ SameLearning(a, session) /\ SameProof(a, session)
    BY <1>1, <2>1 DEF Aggregate, SameBelief, SameLearning, SameProof
  <2>5. /\ SameBelief(b, a) /\ b.prediction = a.prediction
        /\ b.lab = a.lab /\ b.authority = a.authority /\ b.result = a.result /\ b.verdict = v
        /\ SameLearning(b, a) /\ SameProof(b, a)
    BY <2>2 DEF Aggregate, SameBelief, SameLearning, SameProof
  <2>6. /\ SameBelief(c, b) /\ c.prediction = b.prediction
        /\ c.lab = b.lab /\ c.authority = b.authority /\ c.result = b.result
        /\ c.verdict = b.verdict /\ c.report = report
        /\ SameLearning(c, b) /\ SameProof(c, b)
    BY <2>3 DEF Aggregate, SameBelief, SameLearning, SameProof
  <2>7. c = [session EXCEPT !.result = v.result, !.verdict = v, !.report = report]
    BY <1>1, <2>1, <2>2, <2>3 DEF Aggregate
  <2>8. /\ SameBelief(c, session) /\ c.prediction = session.prediction
        /\ c.lab = session.lab /\ c.authority = session.authority /\ c.result = v.result
        /\ c.verdict = v /\ c.report = report
        /\ SameLearning(c, session) /\ SameProof(c, session)
    BY <2>4, <2>5, <2>6 DEF SameBelief, SameLearning, SameProof
  <2> QED BY <2>7, <2>8
<1>4. PICK ref \in Maybe(ResultRef) :
        ref = IF referenced THEN [result |-> v.result, verdict |-> v, report |-> report]
              ELSE released.authority
  BY <1>2 DEF Aggregate, Maybe, ResultRef
<1>5. PICK next \in Aggregate : next = [released EXCEPT !.authority = ref]
  BY Updated
<1>6. /\ SameBelief(next, released) /\ next.prediction = released.prediction
      /\ next.lab = released.lab /\ next.authority = ref /\ next.result = released.result
      /\ next.verdict = released.verdict /\ next.report = released.report
      /\ SameLearning(next, released) /\ SameProof(next, released)
  BY <1>5 DEF Aggregate, SameBelief, SameLearning, SameProof
<1>7. /\ Evidence(released) \in {"SUPPORTS", "INCONCLUSIVE"}
      /\ Evolve(next, "EXPERIMENT_COMPLETED", "experiment.evidence_verified")
  BY <1>3, <1>4, <1>5 DEF RecordEpistemicResult, Evolve
<1>8. /\ TypeOK' /\ session'.state = "EXPERIMENT_COMPLETED" /\ SameFields(session', next)
      /\ session.state = "LAB_VERIFIED"
      /\ kinds \subseteq kinds' /\ "experiment.evidence_verified" \in kinds'
  BY <1>7, ReachedFrom, Sources DEF EventKinds, RequiredKinds
<1>9. /\ SameBelief(session', released) /\ session'.prediction = released.prediction
      /\ session'.lab = released.lab /\ session'.result = v.result /\ session'.verdict = v
      /\ session'.report = report /\ session'.authority = ref
      /\ SameLearning(session', released) /\ SameProof(session', released)
  BY <1>3, <1>6, <1>8 DEF SameFields, SameBelief, SameEvidence, SameLearning, SameProof
<1>10. session.spec # None /\ Evidence(session') \in {"SUPPORTS", "INCONCLUSIVE"}
  <2>1. released.authority = None
    BY <1>3, <1>8, Unreleased
  <2>2. session'.authority # None =>
          session'.authority = [result |-> session'.result, verdict |-> session'.verdict,
                                report |-> session'.report]
    BY <1>4, <1>9, <2>1
  <2> QED BY <1>3, <1>7, <1>9, <2>1, <2>2, ReleasedAuthority DEF SameBelief
<1>11. /\ SameBelief(session', session) /\ session'.prediction = session.prediction
       /\ session'.boundary = None /\ session'.diff = None /\ session'.capsule = None
       /\ session.boundary = None
  BY <1>3, <1>8, <1>9, Unreleased DEF SameBelief, SameLearning, SameProof
<1>12. EvidenceStaysBound' /\ RepairIsEarned' /\ RejectionReleasesNothing'
  BY <1>2, <1>8, <1>9, <1>10
  DEF EvidenceStaysBound, RepairIsEarned, RejectionReleasesNothing
<1>13. DirectorFollowsBelief'
  BY <1>8, <1>11 DEF IInv, DirectorFollowsBelief, SameBelief
<1>14. CapsuleSealsTheSession' /\ InOrder' /\ BoundaryIsBound'
  BY <1>8, <1>10, <1>11 DEF CapsuleSealsTheSession, InOrder, BoundaryIsBound, SameBelief
<1>15. Cited'
  BY <1>8, <1>11 DEF IInv, Cited, SameBelief
<1>16. Kept
  BY <1>8, <1>11 DEF Kept, SameBelief
<1> QED BY <1>8, <1>12, <1>13, <1>14, <1>15, <1>16 DEF IInv

\* A rejection is recorded while nothing is released.
LEMMA RecordEpistemicRejectionHolds ==
  ASSUME IInv, NEW v \in Verdict, NEW report \in Reports, RecordEpistemicRejection(v, report)
  PROVE  IInv' /\ Kept
<1>1. session \in Aggregate
  BY DEF IInv, TypeOK
<1>2. PICK next \in Aggregate :
        /\ next = [session EXCEPT !.verdict = v, !.report = report]
        /\ SameBelief(next, session) /\ next.prediction = session.prediction
        /\ next.state = session.state /\ next.lab = session.lab /\ next.result = session.result
        /\ next.authority = session.authority /\ next.verdict = v /\ next.report = report
        /\ SameLearning(next, session) /\ SameProof(next, session)
  <2>1. PICK a \in Aggregate : a = [session EXCEPT !.verdict = v]
    BY <1>1, Updated DEF Maybe
  <2>2. PICK b \in Aggregate : b = [a EXCEPT !.report = report]
    BY Updated DEF Maybe
  <2>3. /\ SameBelief(a, session) /\ a.prediction = session.prediction
        /\ a.state = session.state /\ a.lab = session.lab /\ a.result = session.result
        /\ a.authority = session.authority /\ a.verdict = v
        /\ SameLearning(a, session) /\ SameProof(a, session)
    BY <1>1, <2>1 DEF Aggregate, SameBelief, SameLearning, SameProof
  <2>4. /\ SameBelief(b, a) /\ b.prediction = a.prediction
        /\ b.state = a.state /\ b.lab = a.lab /\ b.result = a.result
        /\ b.authority = a.authority /\ b.verdict = a.verdict /\ b.report = report
        /\ SameLearning(b, a) /\ SameProof(b, a)
    BY <2>2 DEF Aggregate, SameBelief, SameLearning, SameProof
  <2>5. b = [session EXCEPT !.verdict = v, !.report = report]
    BY <1>1, <2>1, <2>2 DEF Aggregate
  <2>6. /\ SameBelief(b, session) /\ b.prediction = session.prediction
        /\ b.state = session.state /\ b.lab = session.lab /\ b.result = session.result
        /\ b.authority = session.authority /\ b.verdict = v /\ b.report = report
        /\ SameLearning(b, session) /\ SameProof(b, session)
    BY <2>3, <2>4 DEF SameBelief, SameLearning, SameProof
  <2> QED BY <2>5, <2>6
<1>3. /\ v.kind = "REJECTED" /\ session.state = "LAB_VERIFIED" /\ session.result = None
      /\ Evidence(next) = "REJECTED" /\ Revise(next, "experiment.evidence_rejected")
  BY <1>2 DEF RecordEpistemicRejection, Revise
<1>4. TypeOK' /\ session' = next /\ kinds \subseteq kinds'
  BY <1>3, Revised DEF EventKinds
<1>5. session.spec # None
  BY <1>2, <1>3 DEF Evidence, ScientificEvidence, SameBelief
<1>6. /\ SameBelief(session', session) /\ session'.prediction = session.prediction
      /\ session'.state = "LAB_VERIFIED" /\ session'.verdict = v /\ session'.result = None
      /\ session'.authority = None /\ session'.boundary = None /\ session'.diff = None
      /\ session'.capsule = None /\ session.boundary = None
  BY <1>2, <1>3, <1>4, Unreleased DEF SameLearning, SameProof
<1>7. EvidenceStaysBound' /\ RepairIsEarned' /\ RejectionReleasesNothing'
  BY <1>6 DEF EvidenceStaysBound, RepairIsEarned, RejectionReleasesNothing
<1>8. DirectorFollowsBelief'
  BY <1>3, <1>6 DEF IInv, DirectorFollowsBelief, SameBelief
<1>9. CapsuleSealsTheSession' /\ InOrder' /\ BoundaryIsBound'
  BY <1>3, <1>5, <1>6 DEF CapsuleSealsTheSession, InOrder, BoundaryIsBound, SameBelief
<1>10. Cited'
  BY <1>3, <1>4, <1>6 DEF IInv, Cited, SameBelief
<1>11. Kept
  BY <1>3, <1>6 DEF Kept, SameBelief
<1> QED BY <1>4, <1>7, <1>8, <1>9, <1>10, <1>11 DEF IInv

-----------------------------------------------------------------------------

\* What a diff binds is in the fields that no later step changes.
LEMMA SameFrozen ==
  ASSUME NEW s, NEW t, SameBelief(s, t), s.prediction = t.prediction, SameEvidence(s, t),
         SameLearning(s, t)
  PROVE  Frozen(s) = Frozen(t)
BY DEF SameBelief, SameEvidence, SameLearning, Frozen

\* Evidence that drives a session has all its parts.
LEMMA EvidenceIsWhole ==
  ASSUME TypeOK, session.spec # None, Evidence(session) \in {"SUPPORTS", "INCONCLUSIVE"}
  PROVE  /\ session.spec \in Spec2 /\ session.prediction \in Predictions
         /\ session.lab.ir \in IRs /\ session.result \in Result
         /\ session.verdict \in Verdict /\ session.report \in Reports
         /\ Bound(session) \in Boundary
<1>1. ScientificEvidence(session) /\ session.verdict.kind # "REJECTED"
  BY DEF Evidence, LegacyEvidence
<1>2. session.result # None
  BY <1>1 DEF ScientificEvidence, ReleasedEvidence
<1>3. /\ session.spec \in Spec2 /\ session.prediction \in Predictions
      /\ session.result \in Result /\ session.verdict \in Verdict /\ session.report \in Reports
  BY <1>1, <1>2 DEF TypeOK, Aggregate, Maybe, ScientificEvidence
<1>4. session.lab.ir \in IRs
  BY <1>1 DEF ScientificEvidence, Lineage
<1> QED BY <1>3, <1>4 DEF Bound, Boundary

\* Before its proof is issued a session has no diff.
LEMMA Unissued ==
  ASSUME IInv, session.state \notin {"REASONING_DIFF_ISSUED", "PROOF_CAPSULE_ISSUED"}
  PROVE  session.diff = None /\ session.capsule = None
BY DEF IInv, InOrder

\* The boundary map is bound to the evidence as it was released.
LEMMA RecordBoundaryMapAuthorityHolds ==
  ASSUME IInv, RecordBoundaryMapAuthority
  PROVE  IInv' /\ Kept
<1>1. session \in Aggregate /\ TypeOK
  BY DEF IInv, TypeOK
<1>2. session.spec # None /\ Evidence(session) \in {"SUPPORTS", "INCONCLUSIVE"}
  BY DEF RecordBoundaryMapAuthority, Evidence, ScientificEvidence
<1>3. PICK bound \in Boundary : bound = Bound(session)
  BY <1>1, <1>2, EvidenceIsWhole
<1>4. PICK next \in Aggregate : next = [session EXCEPT !.boundary = bound]
  BY <1>1, Updated DEF Maybe
<1>5. /\ SameBelief(next, session) /\ next.prediction = session.prediction
      /\ SameEvidence(next, session) /\ next.boundary = bound /\ SameProof(next, session)
  BY <1>1, <1>4 DEF Aggregate, SameBelief, SameEvidence, SameProof
<1>6. Evolve(next, "BOUNDARY_VERIFIED", "boundary_map.verified")
  BY <1>3, <1>4 DEF RecordBoundaryMapAuthority, Evolve
<1>7. /\ TypeOK' /\ session'.state = "BOUNDARY_VERIFIED" /\ SameFields(session', next)
      /\ session.state = "EXPERIMENT_COMPLETED"
      /\ kinds \subseteq kinds' /\ "boundary_map.verified" \in kinds'
  BY <1>6, ReachedFrom, Sources DEF EventKinds, RequiredKinds
<1>8. /\ SameBelief(session', session) /\ session'.prediction = session.prediction
      /\ SameEvidence(session', session) /\ session'.boundary = Bound(session)
      /\ session'.diff = None /\ session'.capsule = None /\ session.boundary = None
  <2>1. session.boundary = None
    BY <1>7 DEF IInv, InOrder
  <2> QED BY <1>3, <1>5, <1>7, <2>1, Unissued DEF SameFields, SameBelief, SameEvidence,
    SameLearning, SameProof
<1>9. /\ EvidenceStaysBound' /\ RejectionReleasesNothing' /\ DirectorFollowsBelief' /\ Kept
      /\ Bound(session') = Bound(session)
  BY <1>7, <1>8, LateStep
<1>10. RepairIsEarned' /\ BoundaryIsBound'
  BY <1>7, <1>8, <1>9 DEF RepairIsEarned, BoundaryIsBound
<1>11. CapsuleSealsTheSession' /\ InOrder'
  BY <1>7, <1>8 DEF IInv, CapsuleSealsTheSession, InOrder, SameBelief, SameEvidence
<1>12. Cited'
  BY <1>7, <1>8 DEF IInv, Cited, SameBelief
<1> QED BY <1>7, <1>9, <1>10, <1>11, <1>12 DEF IInv

\* v2 evidence is revised only from the state its boundary map leads to.
LEMMA RecordRevisionHolds ==
  ASSUME IInv, RecordRevision
  PROVE  IInv' /\ Kept
<1>1. session \in Aggregate
  BY DEF IInv, TypeOK
<1>2. PICK next \in Aggregate : next = [session EXCEPT !.revision = TRUE]
  BY <1>1, Updated
<1>3. /\ SameBelief(next, session) /\ next.prediction = session.prediction
      /\ SameEvidence(next, session) /\ next.boundary = session.boundary
      /\ next.revision = TRUE /\ SameProof(next, session)
  BY <1>1, <1>2 DEF Aggregate, SameBelief, SameEvidence, SameProof
<1>4. Evolve(next, "REVISION_RECORDED", "revision.recorded")
  BY <1>2 DEF RecordRevision, Evolve
<1>5. /\ TypeOK' /\ session'.state = "REVISION_RECORDED" /\ SameFields(session', next)
      /\ session.state \in {"EXPERIMENT_COMPLETED", "BOUNDARY_VERIFIED"}
      /\ kinds \subseteq kinds' /\ "revision.recorded" \in kinds'
  BY <1>4, ReachedFrom, Sources DEF EventKinds, RequiredKinds
<1>6. /\ SameBelief(session', session) /\ session'.prediction = session.prediction
      /\ SameEvidence(session', session) /\ session'.boundary = session.boundary
      /\ session'.revision = TRUE /\ session'.diff = None /\ session'.capsule = None
  BY <1>3, <1>5, Unissued DEF SameFields, SameBelief, SameEvidence, SameLearning, SameProof
<1>7. session.spec # None =>
        session.state = "BOUNDARY_VERIFIED" /\ session.boundary = Bound(session)
  BY <1>5 DEF IInv, EvidenceStaysBound, RecordRevision
<1>8. /\ EvidenceStaysBound' /\ RejectionReleasesNothing' /\ DirectorFollowsBelief' /\ Kept
      /\ Bound(session') = Bound(session)
  BY <1>5, <1>6, LateStep
<1>9. RepairIsEarned' /\ BoundaryIsBound'
  BY <1>5, <1>6, <1>7, <1>8 DEF RepairIsEarned, BoundaryIsBound, SameBelief
<1>10. CapsuleSealsTheSession' /\ InOrder'
  BY <1>5, <1>6 DEF IInv, CapsuleSealsTheSession, InOrder, SameBelief, SameEvidence
<1>11. Cited'
  BY <1>5, <1>6, <1>7 DEF IInv, Cited, SameBelief
<1> QED BY <1>5, <1>8, <1>9, <1>10, <1>11 DEF IInv

\* A transfer may be repeated, on the same evidence.
LEMMA StartTransferHolds ==
  ASSUME IInv, StartTransfer
  PROVE  IInv' /\ Kept
<1>1. /\ TypeOK' /\ session'.state = "TRANSFER_IN_PROGRESS" /\ SameFields(session', session)
      /\ session.state \in {"REVISION_RECORDED", "TRANSFER_FAILED"} /\ kinds \subseteq kinds'
  BY Reached, Sources DEF StartTransfer, EventKinds
<1>2. session.diff = None /\ session.capsule = None
  BY <1>1, Unissued
<1>3. /\ EvidenceStaysBound' /\ RejectionReleasesNothing' /\ DirectorFollowsBelief' /\ Kept
      /\ Bound(session') = Bound(session)
  BY <1>1, LateStep DEF SameFields, SameLearning
<1>4. RepairIsEarned' /\ BoundaryIsBound'
  BY <1>1, <1>3 DEF IInv, RepairIsEarned, BoundaryIsBound, SameFields, SameBelief, SameLearning
<1>5. CapsuleSealsTheSession' /\ InOrder'
  BY <1>1, <1>2 DEF IInv, CapsuleSealsTheSession, InOrder, SameFields, SameBelief,
     SameEvidence, SameLearning, SameProof
<1>6. Cited'
  BY <1>1 DEF IInv, Cited, SameFields, SameBelief
<1> QED BY <1>1, <1>3, <1>4, <1>5, <1>6 DEF IInv

\* Only a passed transfer leads on, and its event is in the chain.
LEMMA RecordTransferResultHolds ==
  ASSUME IInv, NEW passed \in BOOLEAN, RecordTransferResult(passed)
  PROVE  IInv' /\ Kept
<1>1. session \in Aggregate
  BY DEF IInv, TypeOK
<1>2. PICK next \in Aggregate :
        next = [session EXCEPT !.transfer = IF passed THEN "PASSED" ELSE "FAILED"]
  BY <1>1, Updated DEF Maybe
<1>3. /\ SameBelief(next, session) /\ next.prediction = session.prediction
      /\ SameEvidence(next, session) /\ next.boundary = session.boundary
      /\ next.revision = session.revision
      /\ next.transfer = (IF passed THEN "PASSED" ELSE "FAILED") /\ SameProof(next, session)
  BY <1>1, <1>2 DEF Aggregate, SameBelief, SameEvidence, SameProof
<1>4. IF passed THEN Evolve(next, "TRANSFER_PASSED", "transfer.passed")
                ELSE Evolve(next, "TRANSFER_FAILED", "transfer.failed")
  BY <1>2 DEF RecordTransferResult, Evolve
<1>5. /\ TypeOK' /\ session'.state = (IF passed THEN "TRANSFER_PASSED" ELSE "TRANSFER_FAILED")
      /\ SameFields(session', next) /\ session.state = "TRANSFER_IN_PROGRESS"
      /\ kinds \subseteq kinds' /\ (passed => "transfer.passed" \in kinds')
  BY <1>4, ReachedFrom, Sources DEF EventKinds, RequiredKinds
<1>6. /\ SameBelief(session', session) /\ session'.prediction = session.prediction
      /\ SameEvidence(session', session) /\ session'.boundary = session.boundary
      /\ session'.revision = session.revision
      /\ session'.transfer = (IF passed THEN "PASSED" ELSE "FAILED")
      /\ session'.diff = None /\ session'.capsule = None
  BY <1>3, <1>5, Unissued DEF SameFields, SameBelief, SameEvidence, SameLearning, SameProof
<1>7. /\ EvidenceStaysBound' /\ RejectionReleasesNothing' /\ DirectorFollowsBelief' /\ Kept
      /\ Bound(session') = Bound(session)
  BY <1>5, <1>6, LateStep
<1>8. RepairIsEarned' /\ BoundaryIsBound'
  BY <1>5, <1>6, <1>7 DEF IInv, RepairIsEarned, BoundaryIsBound, SameBelief
<1>9. CapsuleSealsTheSession' /\ InOrder'
  BY <1>5, <1>6 DEF IInv, CapsuleSealsTheSession, InOrder, SameBelief, SameEvidence
<1>10. Cited'
  BY <1>5, <1>6 DEF IInv, Cited, SameBelief
<1> QED BY <1>5, <1>7, <1>8, <1>9, <1>10 DEF IInv

\* Repair starts after a passed transfer, and on supporting evidence.
LEMMA StartPatchCompilationHolds ==
  ASSUME IInv, StartPatchCompilation
  PROVE  IInv' /\ Kept
<1>1. /\ TypeOK' /\ session'.state = "PATCH_COMPILING" /\ SameFields(session', session)
      /\ session.state \in {"TRANSFER_PASSED", "PATCH_REJECTED"} /\ kinds \subseteq kinds'
  BY Reached, Sources DEF StartPatchCompilation, EventKinds
<1>2. session.diff = None /\ session.capsule = None
  BY <1>1, Unissued
<1>3. session.spec # None => Evidence(session) = "SUPPORTS"
  BY <1>1 DEF IInv, EvidenceStaysBound, StartPatchCompilation
<1>4. session.revision /\ session.transfer = "PASSED"
  BY <1>1 DEF IInv, InOrder, RepairIsEarned
<1>5. /\ EvidenceStaysBound' /\ RejectionReleasesNothing' /\ DirectorFollowsBelief' /\ Kept
      /\ Bound(session') = Bound(session)
      /\ session.spec # None => Evidence(session') = Evidence(session)
  BY <1>1, LateStep DEF SameFields, SameLearning
<1>6. RepairIsEarned' /\ BoundaryIsBound'
  BY <1>1, <1>3, <1>4, <1>5
  DEF IInv, RepairIsEarned, BoundaryIsBound, SameFields, SameBelief, SameLearning
<1>7. CapsuleSealsTheSession' /\ InOrder'
  BY <1>1, <1>2, <1>4 DEF IInv, CapsuleSealsTheSession, InOrder, SameFields, SameBelief,
     SameEvidence, SameLearning, SameProof
<1>8. Cited'
  BY <1>1 DEF IInv, Cited, SameFields, SameBelief
<1> QED BY <1>1, <1>5, <1>6, <1>7, <1>8 DEF IInv

\* A rejected patch leaves what repair was earned with.
LEMMA RejectPatchHolds ==
  ASSUME IInv, RejectPatch
  PROVE  IInv' /\ Kept
<1>1. /\ TypeOK' /\ session'.state = "PATCH_REJECTED" /\ SameFields(session', session)
      /\ session.state = "PATCH_COMPILING" /\ kinds \subseteq kinds'
  BY Reached, Sources DEF RejectPatch, EventKinds
<1>2. session.diff = None /\ session.capsule = None
  BY <1>1, Unissued
<1>3. /\ EvidenceStaysBound' /\ RejectionReleasesNothing' /\ DirectorFollowsBelief' /\ Kept
      /\ Bound(session') = Bound(session)
      /\ session.spec # None => Evidence(session') = Evidence(session)
  BY <1>1, LateStep DEF SameFields, SameLearning
<1>4. RepairIsEarned' /\ BoundaryIsBound'
  BY <1>1, <1>3 DEF IInv, RepairIsEarned, BoundaryIsBound, SameFields, SameBelief, SameLearning
<1>5. CapsuleSealsTheSession' /\ InOrder'
  BY <1>1, <1>2 DEF IInv, CapsuleSealsTheSession, InOrder, SameFields, SameBelief,
     SameEvidence, SameLearning, SameProof
<1>6. Cited'
  BY <1>1 DEF IInv, Cited, SameFields, SameBelief
<1> QED BY <1>1, <1>3, <1>4, <1>5, <1>6 DEF IInv

\* A verified patch adds its event and its reference.
LEMMA VerifyPatchHolds ==
  ASSUME IInv, NEW p \in Patches, NEW referenced \in BOOLEAN, VerifyPatch(p, referenced)
  PROVE  IInv' /\ Kept
<1>1. session \in Aggregate /\ session.patchAuthority \in Maybe(Patches)
  BY DEF IInv, TypeOK, Aggregate
<1>2. PICK authority \in Maybe(Patches) :
        authority = IF referenced THEN p ELSE session.patchAuthority
  BY <1>1 DEF Maybe
<1>3. PICK next \in Aggregate :
        /\ next = [session EXCEPT !.patch = p, !.patchAuthority = authority]
        /\ SameBelief(next, session) /\ next.prediction = session.prediction
        /\ SameEvidence(next, session) /\ next.boundary = session.boundary
        /\ next.revision = session.revision /\ next.transfer = session.transfer
        /\ SameProof(next, session)
  <2>1. PICK a \in Aggregate : a = [session EXCEPT !.patch = p]
    BY <1>1, Updated DEF Maybe
  <2>2. PICK b \in Aggregate : b = [a EXCEPT !.patchAuthority = authority]
    BY Updated
  <2>3. /\ SameBelief(a, session) /\ a.prediction = session.prediction
        /\ SameEvidence(a, session) /\ a.boundary = session.boundary
        /\ a.revision = session.revision /\ a.transfer = session.transfer
        /\ SameProof(a, session)
    BY <1>1, <2>1 DEF Aggregate, SameBelief, SameEvidence, SameProof
  <2>4. SameFields(b, a)
    BY <2>2 DEF Aggregate, SameFields, SameBelief, SameEvidence, SameLearning, SameProof
  <2>5. b = [session EXCEPT !.patch = p, !.patchAuthority = authority]
    BY <1>1, <2>1, <2>2 DEF Aggregate
  <2>6. /\ SameBelief(b, session) /\ b.prediction = session.prediction
        /\ SameEvidence(b, session) /\ b.boundary = session.boundary
        /\ b.revision = session.revision /\ b.transfer = session.transfer
        /\ SameProof(b, session)
    BY <2>3, <2>4 DEF SameFields, SameBelief, SameEvidence, SameLearning, SameProof
  <2> QED BY <2>5, <2>6
<1>4. Evolve(next, "PATCH_VERIFIED", "patch.verified")
  BY <1>2, <1>3 DEF VerifyPatch, Evolve
<1>5. /\ TypeOK' /\ session'.state = "PATCH_VERIFIED" /\ SameFields(session', next)
      /\ session.state = "PATCH_COMPILING"
      /\ kinds \subseteq kinds' /\ "patch.verified" \in kinds'
  BY <1>4, ReachedFrom, Sources DEF EventKinds, RequiredKinds
<1>6. /\ SameBelief(session', session) /\ session'.prediction = session.prediction
      /\ SameEvidence(session', session) /\ session'.boundary = session.boundary
      /\ session'.revision = session.revision /\ session'.transfer = session.transfer
      /\ session'.diff = None /\ session'.capsule = None
  BY <1>3, <1>5, Unissued DEF SameFields, SameBelief, SameEvidence, SameLearning, SameProof
<1>7. /\ EvidenceStaysBound' /\ RejectionReleasesNothing' /\ DirectorFollowsBelief' /\ Kept
      /\ Bound(session') = Bound(session)
      /\ session.spec # None => Evidence(session') = Evidence(session)
  BY <1>5, <1>6, LateStep
<1>8. RepairIsEarned' /\ BoundaryIsBound'
  BY <1>5, <1>6, <1>7 DEF IInv, RepairIsEarned, BoundaryIsBound, SameBelief
<1>9. CapsuleSealsTheSession' /\ InOrder'
  BY <1>5, <1>6 DEF IInv, CapsuleSealsTheSession, InOrder, SameBelief, SameEvidence
<1>10. Cited'
  BY <1>5, <1>6 DEF IInv, Cited, SameBelief
<1> QED BY <1>5, <1>7, <1>8, <1>9, <1>10 DEF IInv

-----------------------------------------------------------------------------

\* A v1 diff leaves the native proof unissued.
LEMMA IssueReasoningDiffHolds ==
  ASSUME IInv, IssueReasoningDiff
  PROVE  IInv' /\ Kept
<1>1. session \in Aggregate
  BY DEF IInv, TypeOK
<1>2. PICK next \in Aggregate : next = [session EXCEPT !.legacyDiff = TRUE]
  BY <1>1, Updated
<1>3. SameFields(next, session)
  BY <1>1, <1>2 DEF Aggregate, SameFields, SameBelief, SameEvidence, SameLearning, SameProof
<1>4. Evolve(next, "REASONING_DIFF_ISSUED", "reasoning_diff.issued")
  BY <1>2 DEF IssueReasoningDiff, Evolve
<1>5. /\ TypeOK' /\ session'.state = "REASONING_DIFF_ISSUED" /\ SameFields(session', next)
      /\ session.state = "PATCH_VERIFIED" /\ kinds \subseteq kinds'
  BY <1>4, ReachedFrom, Sources DEF EventKinds
<1>6. SameFields(session', session)
  BY <1>3, <1>5 DEF SameFields, SameBelief, SameEvidence, SameLearning, SameProof
<1>7. session'.diff = None /\ session'.capsule = None
  BY <1>5, <1>6, Unissued DEF SameFields, SameProof
<1>8. /\ EvidenceStaysBound' /\ RejectionReleasesNothing' /\ DirectorFollowsBelief' /\ Kept
      /\ Bound(session') = Bound(session)
      /\ session.spec # None => Evidence(session') = Evidence(session)
  BY <1>5, <1>6, LateStep DEF SameFields, SameLearning
<1>9. RepairIsEarned' /\ BoundaryIsBound'
  BY <1>5, <1>6, <1>8
  DEF IInv, RepairIsEarned, BoundaryIsBound, SameFields, SameBelief, SameLearning
<1>10. CapsuleSealsTheSession' /\ InOrder'
  BY <1>5, <1>6, <1>7 DEF IInv, CapsuleSealsTheSession, InOrder, SameFields, SameBelief,
     SameEvidence, SameLearning
<1>11. Cited'
  BY <1>5, <1>6 DEF IInv, Cited, SameFields, SameBelief
<1> QED BY <1>5, <1>8, <1>9, <1>10, <1>11 DEF IInv

\* A native diff binds the session as it is then, and is the head of the chain.
LEMMA IssueReasoningDiffV2Holds ==
  ASSUME IInv, IssueReasoningDiffV2
  PROVE  IInv' /\ Kept
<1>1. session \in Aggregate /\ TypeOK
  BY DEF IInv, TypeOK
<1>2. PICK diff \in Diff : diff = Frozen(session)
  <2>1. /\ session.spec # None /\ Evidence(session) = "SUPPORTS" /\ session.boundary # None
        /\ session.transfer = "PASSED" /\ session.patch # None
    BY DEF IssueReasoningDiffV2
  <2>2. session.boundary \in Boundary /\ session.patch \in Patches
    BY <1>1, <2>1 DEF Aggregate, Maybe
  <2> QED BY <1>1, <2>1, <2>2, EvidenceIsWhole DEF Frozen, Diff
<1>3. PICK next \in Aggregate : next = [session EXCEPT !.diff = diff]
  BY <1>1, Updated DEF Maybe
<1>4. /\ SameBelief(next, session) /\ next.prediction = session.prediction
      /\ SameEvidence(next, session) /\ SameLearning(next, session)
      /\ next.diff = diff /\ next.capsule = session.capsule
  BY <1>1, <1>3 DEF Aggregate, SameBelief, SameEvidence, SameLearning
<1>5. Evolve(next, "REASONING_DIFF_ISSUED", "reasoning_diff_v2.issued")
  BY <1>2, <1>3 DEF IssueReasoningDiffV2, Evolve
<1>6. /\ TypeOK' /\ session'.state = "REASONING_DIFF_ISSUED" /\ SameFields(session', next)
      /\ session.state = "PATCH_VERIFIED" /\ kinds \subseteq kinds'
      /\ head' = "reasoning_diff_v2.issued"
  BY <1>5, ReachedFrom, Sources DEF EventKinds
<1>7. /\ SameBelief(session', session) /\ session'.prediction = session.prediction
      /\ SameEvidence(session', session) /\ SameLearning(session', session)
      /\ session'.diff = Frozen(session') /\ session'.capsule = None /\ session'.spec # None
  <2>1. /\ SameBelief(session', session) /\ session'.prediction = session.prediction
        /\ SameEvidence(session', session) /\ SameLearning(session', session)
        /\ session'.diff = diff /\ session'.capsule = session.capsule
    BY <1>4, <1>6 DEF SameFields, SameBelief, SameEvidence, SameLearning, SameProof
  <2>2. Frozen(session') = Frozen(session)
    BY <2>1, SameFrozen
  <2>3. session.capsule = None /\ session.spec # None
    BY <1>6, Unissued DEF IssueReasoningDiffV2
  <2> QED BY <1>2, <2>1, <2>2, <2>3 DEF SameBelief
<1>8. /\ EvidenceStaysBound' /\ RejectionReleasesNothing' /\ DirectorFollowsBelief' /\ Kept
      /\ Bound(session') = Bound(session)
      /\ session.spec # None => Evidence(session') = Evidence(session)
  BY <1>6, <1>7, LateStep DEF SameLearning
<1>9. RepairIsEarned' /\ BoundaryIsBound'
  BY <1>6, <1>7, <1>8 DEF IInv, RepairIsEarned, BoundaryIsBound, SameBelief, SameLearning
<1>10. CapsuleSealsTheSession' /\ InOrder'
  BY <1>6, <1>7 DEF IInv, CapsuleSealsTheSession, InOrder, SameBelief, SameEvidence,
     SameLearning
<1>11. Cited'
  BY <1>6, <1>7 DEF IInv, Cited, SameBelief
<1> QED BY <1>6, <1>8, <1>9, <1>10, <1>11 DEF IInv

\* The capsule follows its diff at once.
LEMMA IssueProofCapsuleV2Holds ==
  ASSUME IInv, IssueProofCapsuleV2
  PROVE  IInv' /\ Kept
<1>1. session \in Aggregate /\ session.diff \in Diff /\ head \in EventKinds
  BY DEF IInv, TypeOK, IssueProofCapsuleV2, Aggregate, Maybe
<1>2. PICK capsule \in [diff : Diff, head : EventKinds] :
        capsule = [diff |-> session.diff, head |-> head]
  BY <1>1
<1>3. PICK next \in Aggregate : next = [session EXCEPT !.capsule = capsule]
  BY <1>1, Updated DEF Maybe
<1>4. /\ SameBelief(next, session) /\ next.prediction = session.prediction
      /\ SameEvidence(next, session) /\ SameLearning(next, session)
      /\ next.diff = session.diff /\ next.capsule = capsule
  BY <1>1, <1>3 DEF Aggregate, SameBelief, SameEvidence, SameLearning
<1>5. Evolve(next, "PROOF_CAPSULE_ISSUED", "proof_capsule.issued")
  BY <1>2, <1>3 DEF IssueProofCapsuleV2, Evolve
<1>6. /\ TypeOK' /\ session'.state = "PROOF_CAPSULE_ISSUED" /\ SameFields(session', next)
      /\ session.state = "REASONING_DIFF_ISSUED" /\ kinds \subseteq kinds'
  BY <1>5, ReachedFrom, Sources DEF EventKinds
<1>7. /\ SameBelief(session', session) /\ session'.prediction = session.prediction
      /\ SameEvidence(session', session) /\ SameLearning(session', session)
      /\ session'.diff = session.diff /\ session'.capsule = capsule
  BY <1>4, <1>6 DEF SameFields, SameBelief, SameEvidence, SameLearning, SameProof
<1>8. /\ session.diff = Frozen(session') /\ session.spec # None
      /\ head = "reasoning_diff_v2.issued"
  BY <1>6, <1>7, SameFrozen DEF IInv, InOrder, IssueProofCapsuleV2
<1>9. /\ EvidenceStaysBound' /\ RejectionReleasesNothing' /\ DirectorFollowsBelief' /\ Kept
      /\ Bound(session') = Bound(session)
      /\ session.spec # None => Evidence(session') = Evidence(session)
  BY <1>6, <1>7, LateStep DEF SameLearning
<1>10. RepairIsEarned' /\ BoundaryIsBound'
  BY <1>6, <1>7, <1>9 DEF IInv, RepairIsEarned, BoundaryIsBound, SameBelief, SameLearning
<1>11. CapsuleSealsTheSession' /\ InOrder'
  BY <1>2, <1>6, <1>7, <1>8 DEF IInv, CapsuleSealsTheSession, InOrder, SameBelief,
     SameEvidence, SameLearning
<1>12. Cited'
  BY <1>6, <1>7 DEF IInv, Cited, SameBelief
<1> QED BY <1>6, <1>9, <1>10, <1>11, <1>12 DEF IInv

-----------------------------------------------------------------------------

\* A step of nobody changes nothing.
LEMMA StutterHolds ==
  ASSUME IInv, UNCHANGED vars
  PROVE  IInv' /\ Kept
<1>1. session' = session /\ kinds' = kinds /\ head' = head
  BY DEF vars
<1>2. TypeOK' /\ InOrder' /\ Cited' /\ BoundaryIsBound'
  BY <1>1 DEF IInv, TypeOK, InOrder, Cited, BoundaryIsBound
<1>3. EvidenceStaysBound' /\ RepairIsEarned' /\ RejectionReleasesNothing'
  BY <1>1 DEF IInv, EvidenceStaysBound, RepairIsEarned, RejectionReleasesNothing
<1>4. DirectorFollowsBelief' /\ CapsuleSealsTheSession'
  BY <1>1 DEF IInv, DirectorFollowsBelief, CapsuleSealsTheSession
<1>5. Kept
  BY <1>1 DEF Kept
<1> QED BY <1>2, <1>3, <1>4, <1>5 DEF IInv

\* Every step preserves the invariant and rewrites nothing.
LEMMA StepHolds == IInv /\ [Next]_vars => IInv' /\ Kept
<1> SUFFICES ASSUME IInv, [Next]_vars PROVE IInv' /\ Kept
  OBVIOUS
<1>1. ASSUME NEW b \in Test, ProposeBeliefTest(b) \/ EditBeliefTest(b)
      PROVE  IInv' /\ Kept
  BY <1>1, ProposeBeliefTestHolds, EditBeliefTestHolds
<1>2. ASSUME NEW b \in Spec2, ProposeBeliefSpecV2(b) \/ EditBeliefSpecV2(b)
      PROVE  IInv' /\ Kept
  BY <1>2, ProposeBeliefSpecV2Holds, EditBeliefSpecV2Holds
<1>3. ASSUME NEW d \in Director, NEW answer \in {"none", "offered", "other"},
             RecordLearningDirector(d, answer)
      PROVE  IInv' /\ Kept
  BY <1>3, RecordLearningDirectorHolds
<1>4. ASSUME SelectBeliefAlternative \/ ConfirmBeliefTest \/ RejectBeliefTest
             \/ MarkInsufficientEvidence
      PROVE  IInv' /\ Kept
  BY <1>4, SelectBeliefAlternativeHolds, ConfirmBeliefTestHolds, RejectBeliefTestHolds,
     MarkInsufficientEvidenceHolds
<1>5. ASSUME NEW p \in Predictions, CommitPrediction(p)
      PROVE  IInv' /\ Kept
  BY <1>5, CommitPredictionHolds
<1>6. ASSUME StartLabCompilation \/ RejectLab
      PROVE  IInv' /\ Kept
  BY <1>6, StartLabCompilationHolds, RejectLabHolds
<1>7. ASSUME NEW l \in Lineage \cup {Plan}, VerifyLab(l)
      PROVE  IInv' /\ Kept
  BY <1>7, VerifyLabHolds
<1>8. ASSUME NEW r \in Result, RecordExperimentResult(r)
      PROVE  IInv' /\ Kept
  BY <1>8, RecordExperimentResultHolds
<1>9. ASSUME NEW v \in Verdict, NEW report \in Reports, NEW referenced \in BOOLEAN,
             RecordEpistemicResult(v, report, referenced)
      PROVE  IInv' /\ Kept
  BY <1>9, RecordEpistemicResultHolds
<1>10. ASSUME RecordBoundaryMapAuthority \/ RecordRevision \/ StartTransfer
       PROVE  IInv' /\ Kept
  BY <1>10, RecordBoundaryMapAuthorityHolds, RecordRevisionHolds, StartTransferHolds
<1>11. ASSUME NEW passed \in BOOLEAN, RecordTransferResult(passed)
       PROVE  IInv' /\ Kept
  BY <1>11, RecordTransferResultHolds
<1>12. ASSUME StartPatchCompilation \/ RejectPatch
       PROVE  IInv' /\ Kept
  BY <1>12, StartPatchCompilationHolds, RejectPatchHolds
<1>13. ASSUME NEW p \in Patches, NEW referenced \in BOOLEAN, VerifyPatch(p, referenced)
       PROVE  IInv' /\ Kept
  BY <1>13, VerifyPatchHolds
<1>14. ASSUME IssueReasoningDiff \/ IssueReasoningDiffV2 \/ IssueProofCapsuleV2
       PROVE  IInv' /\ Kept
  BY <1>14, IssueReasoningDiffHolds, IssueReasoningDiffV2Holds, IssueProofCapsuleV2Holds
<1>15. ASSUME NEW v \in Verdict, NEW report \in Reports, RecordEpistemicRejection(v, report)
       PROVE  IInv' /\ Kept
  BY <1>15, RecordEpistemicRejectionHolds
<1> QED BY <1>1, <1>2, <1>3, <1>4, <1>5, <1>6, <1>7, <1>8, <1>9, <1>10, <1>11, <1>12,
  <1>13, <1>14, <1>15, StutterHolds DEF Next

\* The invariant all others follow from.
THEOREM Invariance == Spec => []IInv
<1>1. IInv /\ [Next]_vars => IInv'
  BY StepHolds
<1> QED BY InitHolds, <1>1, PTL DEF Spec

\* The aggregate that SessionService makes always has its type.
THEOREM TypeCorrect == Spec => []TypeOK
<1>1. IInv => TypeOK
  BY DEF IInv
<1> QED BY Invariance, <1>1, PTL

\* Released v2 evidence resolves at every later step (resolveSessionEvidenceAuthority).
THEOREM EvidenceCorrect == Spec => []EvidenceStaysBound
<1>1. IInv => EvidenceStaysBound
  BY DEF IInv
<1> QED BY Invariance, <1>1, PTL

\* No sequence of operations reaches revision of v2 evidence without its boundary map,
\* or repair without a revision, a passed transfer and supporting evidence.
THEOREM RepairCorrect == Spec => []RepairIsEarned
<1>1. IInv => RepairIsEarned
  BY DEF IInv
<1> QED BY Invariance, <1>1, PTL

\* A rejected verdict never comes with a result.
THEOREM RejectionCorrect == Spec => []RejectionReleasesNothing
<1>1. IInv => RejectionReleasesNothing
  BY DEF IInv
<1> QED BY Invariance, <1>1, PTL

\* The Learning Director's plan is of the belief as it stands.
THEOREM DirectorCorrect == Spec => []DirectorFollowsBelief
<1>1. IInv => DirectorFollowsBelief
  BY DEF IInv
<1> QED BY Invariance, <1>1, PTL

\* The events a native proof has to cite are in the chain when it can be issued.
THEOREM CitationCorrect == Spec => []ProofCanBeCited
<1>1. IInv => ProofCanBeCited
  BY DEF IInv, Cited, ProofCanBeCited, RequiredKinds
<1> QED BY Invariance, <1>1, PTL

\* What the capsule binds is what the session holds, for good.
THEOREM CapsuleCorrect == Spec => []CapsuleSealsTheSession
<1>1. IInv => CapsuleSealsTheSession
  BY DEF IInv
<1> QED BY Invariance, <1>1, PTL

\* No operation rewrites what a learner committed to or was shown.
THEOREM RecordsAreFinal == Spec => NothingIsRewritten
<1>1. IInv /\ [Next]_vars => [Kept]_vars
  BY StepHolds
<1>2. Spec => [][Kept]_vars
  BY Invariance, <1>1, PTL DEF Spec
<1> QED BY <1>2, PTL DEF NothingIsRewritten, Kept
=============================================================================
