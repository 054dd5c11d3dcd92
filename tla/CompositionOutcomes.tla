------------------------- MODULE CompositionOutcomes -------------------------
(***************************************************************************)
(* What compose() makes of its arguments, as a whole: each row as the      *)
(* stages compute it, and the four outcomes the rows can have at the end.  *)
(* The proofs compare the outcome at hand with that of the committed       *)
(* vector, an instance of this module.                                     *)
(***************************************************************************)
EXTENDS CompositionSafety

NativeFault == native.fault
ProofFault == verify_psea_proof(vector.artifact, fixture, vector.current_time)
ReplayFault == check_replay_claims(vector.artifact.token.claims)
AaeSide == resolve(mandate.principal_did, vector.aae)
SecondarySide == resolve(vector.artifact.enrollment_binding, vector.secondary)

LinkageRow ==
  IF Equivalence = NoFault THEN Row("EQUIVALENT", NoFault) ELSE Row("NOT_EQUIVALENT", Equivalence)
PrincipalRow ==
  IF {} \in {AaeSide, SecondarySide} THEN Row("UNRESOLVED", "unresolved_binding")
  ELSE IF AaeSide = SecondarySide THEN Row("SAME", NoFault)
  ELSE Row("DIVERGENT", "principal_divergence")
EvidenceRow ==
  IF {} \in {AaeSide, SecondarySide} THEN Row("NOT_EVALUATED", "unresolved_binding")
  ELSE IF AaeSide # SecondarySide THEN Row("UNSATISFIED", "principal_divergence")
  ELSE IF Equivalence = NoFault THEN Row("SATISFIED", NoFault)
  ELSE IF Equivalence = "payload_digest_mismatch" THEN Row("UNSATISFIED", Equivalence)
  ELSE Row("UNSATISFIED", "evidence_covers_a_different_action")
FreshnessRow ==
  Row(IF ReplayFault = NoFault THEN "WELL_FORMED" ELSE "CLAIMS_MALFORMED", ReplayFault)

AllAgree ==
  /\ Equivalence = NoFault
  /\ {} \notin {AaeSide, SecondarySide} /\ AaeSide = SecondarySide
  /\ ReplayFault = NoFault
Reason ==
  Then(PrincipalRow.reason, Then(LinkageRow.reason, FreshnessRow.reason))
DecisionRow == IF AllAgree THEN Row("AUTHORIZED", NoFault) ELSE Row("REFUSED", Reason)

RowsAre(aae_native, action_linkage, principal_linkage, evidence_satisfaction, freshness,
        decision) ==
  /\ rows["admission"] = Row("NONE", NoFault) /\ rows["outcome"] = Row("NONE", NoFault)
  /\ rows["aae_native"] = aae_native
  /\ rows["action_linkage"] = action_linkage
  /\ rows["principal_linkage"] = principal_linkage
  /\ rows["evidence_satisfaction"] = evidence_satisfaction
  /\ rows["freshness"] = freshness
  /\ rows["decision"] = decision

Accepted == AaeRow("ACCEPT")
Rejected == AaeRow("REJECT")

OutcomeNative ==
  /\ NativeFault \notin {NoFault, Uncaught}
  /\ RowsAre(Rejected, Row("INDETERMINATE", "aae_not_admitted"),
             Row("UNRESOLVED", "aae_not_admitted"), Row("NOT_EVALUATED", "aae_not_admitted"),
             Row("NOT_EVALUATED", "aae_not_admitted"), Row("REFUSED", "aae_native_reject"))
OutcomeProof ==
  /\ NativeFault = NoFault /\ ProofFault \notin {NoFault, Uncaught}
  /\ RowsAre(Accepted, Row("INDETERMINATE", "secondary_unauthenticated"),
             Row("UNRESOLVED", "secondary_unauthenticated"), Row("UNSATISFIED", ProofFault),
             Row("NOT_EVALUATED", "secondary_unauthenticated"),
             Row("REFUSED", "secondary_native_reject"))
OutcomeLinkage ==
  /\ NativeFault = NoFault /\ ProofFault = NoFault /\ LinkageFault # NoFault
  /\ RowsAre(Accepted, Row("INDETERMINATE", LinkageFault),
             Row("UNRESOLVED", "action_linkage_unestablished"),
             Row("NOT_EVALUATED", "action_linkage_unestablished"),
             Row("NOT_EVALUATED", "action_linkage_unestablished"),
             Row("REFUSED", "action_linkage_unestablished"))
OutcomeDecision ==
  /\ NativeFault = NoFault /\ ProofFault = NoFault /\ LinkageFault = NoFault
  /\ RowsAre(Accepted, LinkageRow, PrincipalRow, EvidenceRow, FreshnessRow, DecisionRow)
Outcome == OutcomeNative \/ OutcomeProof \/ OutcomeLinkage \/ OutcomeDecision
=============================================================================
