------------------------------ MODULE Session ------------------------------
(***************************************************************************)
(* A learner's session: what SessionService lets happen to its aggregate   *)
(* (packages/session-core/src/service.ts and domain.ts), one action per    *)
(* operation.  SessionStore models how one operation is stored; it is      *)
(* atomic there, so it is one step here.                                   *)
(*                                                                         *)
(* The inputs are whatever the schemas admit: the service does not trust   *)
(* its callers.  Inputs that name another session, prediction contracts of *)
(* another belief and edits of another belief's id are refused at once and *)
(* are left out.  A hash is modelled by what it is the hash of.            *)
(***************************************************************************)
EXTENDS Naturals

CONSTANTS
  None,        \* an absent field
  Claims,      \* what a learner may believe
  Concepts,    \* what it may be about
  Predictions, \* prediction contracts
  IRs,         \* compiled experiments
  Runs,        \* what an experiment may give
  Manifests,   \* artifact manifests
  Plan,        \* the lab verification of a v1 plan
  Reports,     \* epistemic reports
  Packets,     \* packets (and subject packs) approved for the Learning Director
  Patches      \* repaired artifacts

VARIABLES
  session,  \* the aggregate
  kinds,    \* which kinds of event a native proof has to cite are in the chain
  head      \* the kind of the last event of the chain

vars == <<session, kinds, head>>

Transitions == [
  INGESTED |-> {"BELIEF_TEST_PROPOSED"},
  BELIEF_TEST_PROPOSED |->
    {"BELIEF_TEST_CONFIRMED", "INSUFFICIENT_EVIDENCE", "REJECTED_BY_LEARNER"},
  BELIEF_TEST_CONFIRMED |-> {"PREDICTION_COMMITTED"},
  INSUFFICIENT_EVIDENCE |-> {},
  REJECTED_BY_LEARNER |-> {},
  PREDICTION_COMMITTED |-> {"LAB_COMPILING"},
  LAB_COMPILING |-> {"LAB_REJECTED", "LAB_VERIFIED"},
  LAB_REJECTED |-> {"LAB_COMPILING"},
  LAB_VERIFIED |-> {"EXPERIMENT_COMPLETED"},
  EXPERIMENT_COMPLETED |-> {"BOUNDARY_VERIFIED", "REVISION_RECORDED"},
  BOUNDARY_VERIFIED |-> {"REVISION_RECORDED"},
  REVISION_RECORDED |-> {"TRANSFER_IN_PROGRESS"},
  TRANSFER_IN_PROGRESS |-> {"TRANSFER_FAILED", "TRANSFER_PASSED"},
  TRANSFER_FAILED |-> {"TRANSFER_IN_PROGRESS"},
  TRANSFER_PASSED |-> {"PATCH_COMPILING"},
  PATCH_COMPILING |-> {"PATCH_REJECTED", "PATCH_VERIFIED"},
  PATCH_REJECTED |-> {"PATCH_COMPILING"},
  PATCH_VERIFIED |-> {"REASONING_DIFF_ISSUED"},
  REASONING_DIFF_ISSUED |-> {"PROOF_CAPSULE_ISSUED"},
  PROOF_CAPSULE_ISSUED |-> {}]

\* Belief Tests (v1) and Belief Specs (v2)
Test == [claim : Claims, concept : Concepts]
Spec2 == [claim : Claims, concept : Concepts,
          support : {"SUPPORTED", "INSUFFICIENT_EVIDENCE"},
          decision : {"UNDECIDED", "CONFIRMED", "EDITED", "ALTERNATIVE_SELECTED", "REJECTED"}]

\* A clarification the director asked for has used up its one question.
Director == {d \in [status : {"CLARIFICATION_REQUIRED", "READY"}, spec : Spec2,
                    packet : Packets, concept : Concepts, used : BOOLEAN] :
               d.status = "CLARIFICATION_REQUIRED" => d.used}

\* HostedExperimentLineageV5; other lab verifications are a plan's.
Lineage == [spec : Spec2, prediction : Predictions, ir : IRs, manifest : Manifests]
Result == [run : Runs, concept : Concepts, manifest : Manifests]
Verdict == [kind : {"SUPPORTS", "INCONCLUSIVE"}, ir : IRs, result : Result]
             \cup [kind : {"REJECTED"}, ir : IRs, result : {None}]
ResultRef == [result : Result, verdict : Verdict, report : Reports]
Boundary == [ir : IRs, result : Result, verdict : Verdict]

\* None and Plan are neither of them.
ASSUME NothingIsNone ==
  /\ None \notin Test \cup Spec2 \cup Director \cup Predictions \cup Lineage \cup Result
  /\ None \notin Verdict \cup Reports \cup ResultRef \cup Boundary \cup Patches
  /\ Plan \notin Lineage

\* What a Reasoning Diff V2 binds ...
Frozen(s) == [spec |-> s.spec, prediction |-> s.prediction, ir |-> s.lab.ir,
              result |-> s.result, verdict |-> s.verdict, report |-> s.report,
              boundary |-> s.boundary, transfer |-> s.transfer, patch |-> s.patch]

\* ... and the kinds of event it has to cite.
RequiredKinds ==
  {"belief_spec.confirmed", "prediction.committed", "lab.verified",
   "experiment.evidence_verified", "boundary_map.verified", "revision.recorded",
   "transfer.passed", "patch.verified"}

EventKinds == RequiredKinds \cup
  {"session.created", "belief_test.proposed", "belief_spec.proposed",
   "learning_director.ready", "learning_director.clarification_requested",
   "belief_test.edited", "belief_spec.edited", "belief_spec.alternative_selected",
   "belief_test.confirmed", "belief_test.rejected", "belief_spec.rejected",
   "belief_test.insufficient_evidence", "belief_spec.insufficient_evidence",
   "lab.compilation_started", "lab.rejected", "experiment.completed",
   "experiment.evidence_rejected", "transfer.started", "transfer.failed",
   "patch.compilation_started", "patch.rejected", "reasoning_diff.issued",
   "reasoning_diff_v2.issued", "proof_capsule.issued"}

Init ==
  /\ \E mode \in {"live_notebook", "sample_lesson"} :
       session = [mode |-> mode, state |-> "INGESTED", test |-> None, spec |-> None,
                  director |-> None, prediction |-> None, lab |-> None, result |-> None,
                  verdict |-> None, report |-> None, authority |-> None,
                  boundary |-> None, revision |-> FALSE, transfer |-> None,
                  patch |-> None, patchAuthority |-> None, legacyDiff |-> FALSE,
                  diff |-> None, capsule |-> None]
  /\ kinds = {}
  /\ head = "session.created"

-----------------------------------------------------------------------------
(* Evidence *)

LegacyEvidence(s) ==
  /\ s.spec = None
  /\ s.verdict = None /\ s.report = None /\ s.authority = None
  /\ s.patchAuthority = None /\ s.diff = None /\ s.capsule = None
  /\ s.lab \notin Lineage
  /\ s.test # None /\ s.result # None /\ s.result.concept = s.test.concept

ReleasedEvidence(s) ==
  /\ s.result # None
  /\ s.result.concept = s.spec.concept /\ s.result.manifest = s.lab.manifest
  /\ s.verdict.result = s.result
  /\ s.authority # None =>
       s.authority = [result |-> s.result, verdict |-> s.verdict, report |-> s.report]

ScientificEvidence(s) ==
  /\ s.spec # None /\ s.test = None
  /\ s.spec.decision \in {"CONFIRMED", "ALTERNATIVE_SELECTED"}
  /\ s.prediction # None
  /\ s.lab \in Lineage /\ s.lab.spec = s.spec /\ s.lab.prediction = s.prediction
  /\ s.verdict # None /\ s.report # None /\ s.verdict.ir = s.lab.ir
  /\ IF s.verdict.kind = "REJECTED"
     THEN s.result = None /\ s.authority = None
     ELSE ReleasedEvidence(s)

\* resolveSessionEvidenceAuthority: which evidence may drive the session, if any.
Evidence(s) ==
  IF LegacyEvidence(s) THEN "LEGACY_VERIFIED"
  ELSE IF ScientificEvidence(s) THEN s.verdict.kind
  ELSE "NONE"

\* What the receipt of a boundary map is bound to.
Bound(s) == [ir |-> s.lab.ir, result |-> s.result, verdict |-> s.verdict]

-----------------------------------------------------------------------------
(* Steps of the aggregate, each with its event *)

Record(kind) ==
  /\ kinds' = IF kind \in RequiredKinds THEN kinds \cup {kind} ELSE kinds
  /\ head' = kind

\* evolveSession
Evolve(next, to, kind) ==
  /\ to \in Transitions[session.state]
  /\ session' = [next EXCEPT !.state = to]
  /\ Record(kind)

\* reviseSession
Revise(next, kind) ==
  /\ session' = next
  /\ Record(kind)

-----------------------------------------------------------------------------
(* Belief *)

ProposeBeliefTest(b) ==
  Evolve([session EXCEPT !.test = b], "BELIEF_TEST_PROPOSED", "belief_test.proposed")

ProposeBeliefSpecV2(b) ==
  Evolve([session EXCEPT !.spec = b], "BELIEF_TEST_PROPOSED", "belief_spec.proposed")

\* An answer is given or not, and is one of the choices offered or not.
RecordLearningDirector(d, answer) ==
  /\ session.mode = "live_notebook" /\ session.state = "BELIEF_TEST_PROPOSED"
  /\ session.spec # None /\ session.test = None
  /\ d.status = "READY" => d.concept = session.spec.concept
  /\ d.spec = session.spec
  /\ \/ /\ session.director = None
        /\ d.status = "READY" => ~d.used
        /\ answer = "none"
     \/ /\ session.director # None
        /\ session.director.status = "CLARIFICATION_REQUIRED"
        /\ d.status = "READY" /\ d.used /\ d.packet = session.director.packet
        /\ answer = "offered"
  /\ Revise([session EXCEPT !.director = d],
            IF d.status = "READY" THEN "learning_director.ready"
            ELSE "learning_director.clarification_requested")

EditBeliefTest(b) ==
  /\ session.state = "BELIEF_TEST_PROPOSED"
  /\ session.test # None /\ session.spec = None
  /\ Revise([session EXCEPT !.test = b], "belief_test.edited")

\* Mutant of EditBeliefSpecV2: the state is not looked at.
EditAnyTime(b) ==
  /\ session.spec # None /\ session.test = None
  /\ b.concept = session.spec.concept
  /\ Revise([session EXCEPT !.spec = [b EXCEPT !.decision = "EDITED"], !.director = None],
            "belief_spec.edited")

\* Mutant of EditBeliefSpecV2: the director's plan for the old claim is kept.
EditKeepsPlan(b) ==
  /\ session.state = "BELIEF_TEST_PROPOSED"
  /\ session.spec # None /\ session.test = None
  /\ b.concept = session.spec.concept
  /\ Revise([session EXCEPT !.spec = [b EXCEPT !.decision = "EDITED"]], "belief_spec.edited")

EditBeliefSpecV2(b) ==
  /\ session.state = "BELIEF_TEST_PROPOSED"
  /\ session.spec # None /\ session.test = None
  /\ b.concept = session.spec.concept
  /\ Revise([session EXCEPT !.spec = [b EXCEPT !.decision = "EDITED"], !.director = None],
            "belief_spec.edited")

\* An alternative the spec offers; which of them is left out.
SelectBeliefAlternative ==
  /\ session.state = "BELIEF_TEST_PROPOSED"
  /\ session.spec # None /\ session.test = None
  /\ Revise([session EXCEPT !.spec.decision = "ALTERNATIVE_SELECTED", !.director = None],
            "belief_spec.alternative_selected")

\* A test is confirmed as it is.  A spec records the decision unless an alternative
\* was selected, and a clarification still pending is skipped.
ConfirmBeliefTest ==
  \/ /\ session.test # None /\ session.spec = None
     /\ Evolve(session, "BELIEF_TEST_CONFIRMED", "belief_test.confirmed")
  \/ /\ session.spec # None /\ session.test = None
     /\ LET decided == IF session.spec.decision = "ALTERNATIVE_SELECTED" THEN session.spec
                       ELSE [session.spec EXCEPT !.decision = "CONFIRMED"]
            pending == session.director # None
                       /\ session.director.status = "CLARIFICATION_REQUIRED"
        IN Evolve([session EXCEPT !.spec = decided,
                                  !.director = IF pending THEN None ELSE @],
                  "BELIEF_TEST_CONFIRMED", "belief_spec.confirmed")

RejectBeliefTest ==
  IF session.spec = None
  THEN Evolve(session, "REJECTED_BY_LEARNER", "belief_test.rejected")
  ELSE Evolve([session EXCEPT !.spec.decision = "REJECTED"],
              "REJECTED_BY_LEARNER", "belief_spec.rejected")

MarkInsufficientEvidence ==
  IF session.spec = None
  THEN Evolve(session, "INSUFFICIENT_EVIDENCE", "belief_test.insufficient_evidence")
  ELSE Evolve([session EXCEPT !.spec.support = "INSUFFICIENT_EVIDENCE"],
              "INSUFFICIENT_EVIDENCE", "belief_spec.insufficient_evidence")

CommitPrediction(p) ==
  /\ session.prediction = None
  /\ Evolve([session EXCEPT !.prediction = p], "PREDICTION_COMMITTED", "prediction.committed")

-----------------------------------------------------------------------------
(* Experiment *)

StartLabCompilation == Evolve(session, "LAB_COMPILING", "lab.compilation_started")

RejectLab == Evolve(session, "LAB_REJECTED", "lab.rejected")

VerifyLab(l) == Evolve([session EXCEPT !.lab = l], "LAB_VERIFIED", "lab.verified")

RecordExperimentResult(r) ==
  /\ session.spec = None
  /\ Evolve([session EXCEPT !.result = r], "EXPERIMENT_COMPLETED", "experiment.completed")

\* The aggregate it would make has to carry evidence.  A reference to the stored
\* result comes with it or not, and is refused unless it is of this result.
RecordEpistemicResult(v, report, referenced) ==
  LET released == [session EXCEPT !.result = v.result, !.verdict = v, !.report = report]
      ref == [result |-> v.result, verdict |-> v, report |-> report]
  IN /\ v.kind # "REJECTED"
     /\ Evidence(released) \in {"SUPPORTS", "INCONCLUSIVE"}
     /\ Evolve([released EXCEPT !.authority = IF referenced THEN ref ELSE @],
               "EXPERIMENT_COMPLETED", "experiment.evidence_verified")

\* Mutant of RecordEpistemicRejection: neither the state nor a result is looked at.
RejectReleased(v, report) ==
  LET rejected == [session EXCEPT !.verdict = v, !.report = report]
  IN /\ v.kind = "REJECTED" /\ session.lab \in Lineage /\ v.ir = session.lab.ir
     /\ Revise(rejected, "experiment.evidence_rejected")

\* It does not move the session: another run may follow.
RecordEpistemicRejection(v, report) ==
  LET rejected == [session EXCEPT !.verdict = v, !.report = report]
  IN /\ v.kind = "REJECTED"
     /\ session.state = "LAB_VERIFIED" /\ session.result = None
     /\ Evidence(rejected) = "REJECTED"
     /\ Revise(rejected, "experiment.evidence_rejected")

\* A receipt of anything else is refused.
RecordBoundaryMapAuthority ==
  /\ Evidence(session) \in {"SUPPORTS", "INCONCLUSIVE"}
  /\ Evolve([session EXCEPT !.boundary = Bound(session)],
            "BOUNDARY_VERIFIED", "boundary_map.verified")

-----------------------------------------------------------------------------
(* Learning *)

\* Mutant of RecordRevision: the boundary map of v2 evidence is not asked for.
ReviseAtOnce ==
  /\ Evidence(session) \in {"SUPPORTS", "INCONCLUSIVE", "LEGACY_VERIFIED"}
  /\ Evolve([session EXCEPT !.revision = TRUE], "REVISION_RECORDED", "revision.recorded")

RecordRevision ==
  /\ Evidence(session) \in {"SUPPORTS", "INCONCLUSIVE", "LEGACY_VERIFIED"}
  /\ Evidence(session) # "LEGACY_VERIFIED" =>
       session.state = "BOUNDARY_VERIFIED" /\ session.boundary = Bound(session)
  /\ Evolve([session EXCEPT !.revision = TRUE], "REVISION_RECORDED", "revision.recorded")

\* A transfer in progress is returned as it is.
StartTransfer ==
  /\ Evidence(session) \in {"SUPPORTS", "INCONCLUSIVE", "LEGACY_VERIFIED"}
  /\ Evolve(session, "TRANSFER_IN_PROGRESS", "transfer.started")

RecordTransferResult(passed) ==
  IF passed
  THEN Evolve([session EXCEPT !.transfer = "PASSED"], "TRANSFER_PASSED", "transfer.passed")
  ELSE Evolve([session EXCEPT !.transfer = "FAILED"], "TRANSFER_FAILED", "transfer.failed")

\* Mutant of StartPatchCompilation: inconclusive evidence unlocks repair.
PatchInconclusive ==
  /\ Evidence(session) \in {"SUPPORTS", "INCONCLUSIVE", "LEGACY_VERIFIED"}
  /\ Evolve(session, "PATCH_COMPILING", "patch.compilation_started")

StartPatchCompilation ==
  /\ Evidence(session) \in {"SUPPORTS", "LEGACY_VERIFIED"}
  /\ Evolve(session, "PATCH_COMPILING", "patch.compilation_started")

RejectPatch == Evolve(session, "PATCH_REJECTED", "patch.rejected")

\* A reference to the stored patch comes with it or not, and is of this patch.
VerifyPatch(p, referenced) ==
  Evolve([session EXCEPT !.patch = p,
                         !.patchAuthority = IF referenced THEN p ELSE @],
         "PATCH_VERIFIED", "patch.verified")

-----------------------------------------------------------------------------
(* Proof *)

\* Reasoning Diff and Proof Bundle of protocol v1
IssueReasoningDiff ==
  Evolve([session EXCEPT !.legacyDiff = TRUE], "REASONING_DIFF_ISSUED", "reasoning_diff.issued")

\* A diff that binds anything else is refused, as is one that does not name the
\* required events, in the order of the chain.
IssueReasoningDiffV2 ==
  /\ session.mode = "live_notebook"
  /\ session.spec # None /\ Evidence(session) = "SUPPORTS"
  /\ session.boundary # None /\ session.transfer = "PASSED" /\ session.patch # None
  /\ session.authority # None /\ session.patchAuthority # None
  /\ RequiredKinds \subseteq kinds
  /\ Evolve([session EXCEPT !.diff = Frozen(session)],
            "REASONING_DIFF_ISSUED", "reasoning_diff_v2.issued")

\* The capsule names the diff and the head of the chain it contains.
IssueProofCapsuleV2 ==
  /\ session.mode = "live_notebook" /\ session.diff # None
  /\ Evolve([session EXCEPT !.capsule = [diff |-> session.diff, head |-> head]],
            "PROOF_CAPSULE_ISSUED", "proof_capsule.issued")

-----------------------------------------------------------------------------

Next ==
  \/ \E b \in Test : ProposeBeliefTest(b) \/ EditBeliefTest(b)
  \/ \E b \in Spec2 : ProposeBeliefSpecV2(b) \/ EditBeliefSpecV2(b)
  \/ \E d \in Director, answer \in {"none", "offered", "other"} :
       RecordLearningDirector(d, answer)
  \/ SelectBeliefAlternative \/ ConfirmBeliefTest
  \/ RejectBeliefTest \/ MarkInsufficientEvidence
  \/ \E p \in Predictions : CommitPrediction(p)
  \/ StartLabCompilation \/ RejectLab
  \/ \E l \in Lineage \cup {Plan} : VerifyLab(l)
  \/ \E r \in Result : RecordExperimentResult(r)
  \/ \E v \in Verdict, report \in Reports :
       \/ RecordEpistemicRejection(v, report)
       \/ \E referenced \in BOOLEAN : RecordEpistemicResult(v, report, referenced)
  \/ RecordBoundaryMapAuthority
  \/ RecordRevision
  \/ StartTransfer
  \/ \E passed \in BOOLEAN : RecordTransferResult(passed)
  \/ StartPatchCompilation \/ RejectPatch
  \/ \E p \in Patches, referenced \in BOOLEAN : VerifyPatch(p, referenced)
  \/ IssueReasoningDiff \/ IssueReasoningDiffV2 \/ IssueProofCapsuleV2

Spec == Init /\ [][Next]_vars

-----------------------------------------------------------------------------
Maybe(S) == S \cup {None}

Diff == [spec : Spec2, prediction : Predictions, ir : IRs, result : Result,
         verdict : Verdict, report : Reports, boundary : Boundary,
         transfer : {"PASSED"}, patch : Patches]

Aggregate == [
  mode : {"live_notebook", "sample_lesson"}, state : DOMAIN Transitions,
  test : Maybe(Test), spec : Maybe(Spec2), director : Maybe(Director),
  prediction : Maybe(Predictions), lab : Maybe(Lineage \cup {Plan}),
  result : Maybe(Result), verdict : Maybe(Verdict), report : Maybe(Reports),
  authority : Maybe(ResultRef), boundary : Maybe(Boundary), revision : BOOLEAN,
  transfer : Maybe({"PASSED", "FAILED"}), patch : Maybe(Patches),
  patchAuthority : Maybe(Patches), legacyDiff : BOOLEAN, diff : Maybe(Diff),
  capsule : Maybe([diff : Diff, head : EventKinds])]

TypeOK ==
  /\ session \in Aggregate
  /\ kinds \subseteq RequiredKinds
  /\ head \in EventKinds

Repairing == {"PATCH_COMPILING", "PATCH_REJECTED", "PATCH_VERIFIED",
              "REASONING_DIFF_ISSUED", "PROOF_CAPSULE_ISSUED"}
Learning == {"REVISION_RECORDED", "TRANSFER_IN_PROGRESS", "TRANSFER_FAILED",
             "TRANSFER_PASSED"} \cup Repairing
Released == {"EXPERIMENT_COMPLETED", "BOUNDARY_VERIFIED"} \cup Learning
Confirmed == {"BELIEF_TEST_CONFIRMED", "PREDICTION_COMMITTED", "LAB_COMPILING",
              "LAB_REJECTED", "LAB_VERIFIED"} \cup Released

\* Once a v2 result is released, the evidence never comes apart: belief, prediction,
\* lineage, verdict, result and reference resolve at every later step.
EvidenceStaysBound ==
  session.state \in Released /\ session.spec # None =>
    Evidence(session) \in {"SUPPORTS", "INCONCLUSIVE"}

\* The learner revises v2 evidence only with its own boundary map, and repairs only
\* after a passed transfer on evidence that supports.
RepairIsEarned ==
  /\ session.state \in Learning /\ session.spec # None =>
       session.revision /\ session.boundary = Bound(session)
  /\ session.state \in Repairing =>
       /\ session.revision /\ session.transfer = "PASSED"
       /\ session.spec # None => Evidence(session) = "SUPPORTS"

\* A rejected verdict holds the session at its lab with no result released, and a
\* run that follows may replace it.
RejectionReleasesNothing ==
  session.verdict # None /\ session.verdict.kind = "REJECTED" =>
    session.state = "LAB_VERIFIED" /\ session.result = None /\ session.authority = None

\* The director's plan is of the belief as it stands, and a session that goes on
\* from its belief has no question pending.
DirectorFollowsBelief ==
  session.director # None =>
    /\ session.spec # None
    /\ session.director.spec.claim = session.spec.claim
    /\ session.director.spec.concept = session.spec.concept
    /\ session.state = "BELIEF_TEST_PROPOSED" => session.director.spec = session.spec
    /\ session.state \in Confirmed => session.director.status = "READY"

\* What a learner committed to or was shown is never rewritten.
NothingIsRewritten ==
  [][ /\ session.state \in Confirmed =>
           /\ session'.test = session.test /\ session'.spec = session.spec
           /\ session'.director = session.director
      /\ session.prediction # None => session'.prediction = session.prediction
      /\ session.state \in Released =>
           /\ session'.lab = session.lab /\ session'.result = session.result
           /\ session'.verdict = session.verdict /\ session'.report = session.report
           /\ session'.authority = session.authority
      /\ session.boundary # None => session'.boundary = session.boundary
    ]_vars

\* A session of supporting v2 evidence that reached a verified patch with its
\* references has on its chain an event of every kind a native proof must cite.
ProofCanBeCited ==
  /\ session.state = "PATCH_VERIFIED" /\ session.spec # None
  /\ session.authority # None /\ session.patchAuthority # None
  => RequiredKinds \subseteq kinds

\* The capsule seals the session: its diff binds what the session still holds, and
\* its head is the event that issued the diff.
CapsuleSealsTheSession ==
  session.capsule # None =>
    /\ session.capsule.diff = Frozen(session)
    /\ session.capsule.head = "reasoning_diff_v2.issued"
=============================================================================
