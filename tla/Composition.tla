---------------------------- MODULE Composition ----------------------------
(***************************************************************************)
(* examples/composition-verify.py composes the committed vectors row by    *)
(* row; tools/run_negative_controls.py composes them again with one input  *)
(* changed.  compose() is one action per stage: each fills the rows it     *)
(* establishes, or returns with every later row not established.           *)
(***************************************************************************)
EXTENDS CrossRun

CONSTANTS
  Fixture,   \* the enrolled keys of the committed fixture
  Vectors,   \* the committed vectors: what is composed and which rows are expected
  Controls   \* the controls: a mutation, and the rows expected of each base vector it is for

ASSUME CommittedAssumption ==
  /\ Fixture \in EnrolledKeys
  /\ \A b \in DOMAIN Vectors : Vectors[b].vector \in Vector
  /\ \A c \in DOMAIN Controls : Controls[c].mutation \in Mutation
  /\ NoFault \notin DOMAIN Controls
  /\ DOMAIN Vectors # {}

Rows == {"aae_native", "action_linkage", "principal_linkage", "evidence_satisfaction",
         "freshness", "decision", "admission", "outcome"}

Row(value, reason) == [value |-> value, reason |-> reason, verification_step |-> {}]
Unset == Row("UNSET", NoFault)
NoRows == [s \in Rows |-> Unset]

VARIABLES
  base,     \* the committed vector at hand
  control,  \* the control at hand; NoFault while the vector is composed as committed
  vector, fixture,  \* the arguments of compose()
  pc,       \* the stage compose() is at, or what its caller does with the rows
  rows,     \* the rows filled so far
  before,   \* the rows of the base vector as committed, when a control is at hand
  diffs     \* compare_stages(): the rows that are not as expected

input == <<base, control, vector, fixture>>
vars == <<base, control, vector, fixture, pc, rows, before, diffs>>

mandate == Mandate[vector.secured_aae]
native == Native[vector.secured_aae][vector.current_time]
linkage_reason == rows["action_linkage"].reason

----------------------------------------------------------------------------
\* compose()

\* Mutant: the row of the native verifier does not say at which step it ended.
AaeRow_Unnumbered(value) == Row(value, native.fault)

\* What the native verifier answers, and the only row that has a step.
AaeRow(value) ==
  [value |-> value, reason |-> native.fault, verification_step |-> native.verification_step]

\* This checker decides, it never admits or executes.
Tail(filled) ==
  [filled EXCEPT !["admission"] = Row("NONE", NoFault), !["outcome"] = Row("NONE", NoFault)]

\* Every row but the first, when the vector goes no further.
Fill(action_linkage, principal_linkage, evidence_satisfaction, freshness, decision) ==
  [rows EXCEPT !["action_linkage"] = action_linkage,
               !["principal_linkage"] = principal_linkage,
               !["evidence_satisfaction"] = evidence_satisfaction,
               !["freshness"] = freshness,
               !["decision"] = decision]

Return(filled) ==
  /\ rows' = Tail(filled)
  /\ pc' = "composed"
  /\ UNCHANGED <<input, before, diffs>>

Establish(filled, next) ==
  /\ rows' = filled
  /\ pc' = next
  /\ UNCHANGED <<input, before, diffs>>

Raise ==
  /\ pc' = "raised"
  /\ UNCHANGED <<input, rows, before, diffs>>

NotAdmitted ==
  [Fill(Row("INDETERMINATE", "aae_not_admitted"), Row("UNRESOLVED", "aae_not_admitted"),
        Row("NOT_EVALUATED", "aae_not_admitted"), Row("NOT_EVALUATED", "aae_not_admitted"),
        Row("REFUSED", "aae_native_reject"))
     EXCEPT !["aae_native"] = AaeRow("REJECT")]

AaeNative ==
  /\ pc = "aae_native"
  /\ \/ native.fault = Uncaught /\ Raise
     \/ native.fault \notin {NoFault, Uncaught} /\ Return(NotAdmitted)
     \/ /\ native.fault = NoFault
        /\ Establish([rows EXCEPT !["aae_native"] = AaeRow("ACCEPT")], "secondary_native")

Unauthenticated(fault) ==
  Fill(Row("INDETERMINATE", "secondary_unauthenticated"),
       Row("UNRESOLVED", "secondary_unauthenticated"),
       Row("UNSATISFIED", fault),
       Row("NOT_EVALUATED", "secondary_unauthenticated"),
       Row("REFUSED", "secondary_native_reject"))

SecondaryNative ==
  /\ pc = "secondary_native"
  /\ LET fault == verify_psea_proof(vector.artifact, fixture, vector.current_time) IN
       \/ fault = Uncaught /\ Raise
       \/ fault \notin {NoFault, Uncaught} /\ Return(Unauthenticated(fault))
       \/ fault = NoFault /\ Establish(rows, "what_join")

\* Mutant: the principals and the freshness are reported off a linkage nobody made.
Unestablished_Partial(fault) ==
  Fill(Row("INDETERMINATE", fault),
       rows["principal_linkage"],
       Row("NOT_EVALUATED", "action_linkage_unestablished"),
       IF check_replay_claims(vector.artifact.token.claims) = NoFault
         THEN Row("WELL_FORMED", NoFault)
         ELSE Row("CLAIMS_MALFORMED", check_replay_claims(vector.artifact.token.claims)),
       Row("REFUSED", "action_linkage_unestablished"))

Unestablished(fault) ==
  Fill(Row("INDETERMINATE", fault),
       Row("UNRESOLVED", "action_linkage_unestablished"),
       Row("NOT_EVALUATED", "action_linkage_unestablished"),
       Row("NOT_EVALUATED", "action_linkage_unestablished"),
       Row("REFUSED", "action_linkage_unestablished"))

\* Mutant: nothing is established about the principals when the actions differ.
LinkageFault_StopAtMismatch ==
  Then(When(Undecodable \in {vector.aae_digest, vector.secondary_digest}, "digest_undecodable"),
  Then(When(mandate.action_binding = {}, "aae_binding_absent"),
  Then(When(~Bound(mandate.action_binding, vector.aae_digest), "aae_binding_mismatch"),
  Then(When(~check_i_json(vector.payload), "payload_not_i_json"),
       When(vector.aae_digest # vector.secondary_digest, "join_mismatch")))))

\* Both declared digests are decoded, the AAE side is bound to the signed envelope, and
\* only then is the payload looked at.
LinkageFault ==
  Then(When(Undecodable \in {vector.aae_digest, vector.secondary_digest}, "digest_undecodable"),
  Then(When(mandate.action_binding = {}, "aae_binding_absent"),
  Then(When(~Bound(mandate.action_binding, vector.aae_digest), "aae_binding_mismatch"),
       When(~check_i_json(vector.payload), "payload_not_i_json"))))

\* Mutant: the declared digests are compared, and the payload is not hashed.
Equivalence_Declared ==
  When(vector.aae_digest # vector.secondary_digest, "join_mismatch")

Equivalence ==
  Then(When(vector.payload.digest # vector.aae_digest, "payload_digest_mismatch"),
       When(vector.aae_digest # vector.secondary_digest, "join_mismatch"))

WhatJoin ==
  /\ pc = "what_join"
  /\ \/ LinkageFault # NoFault /\ Return(Unestablished(LinkageFault))
     \/ /\ LinkageFault = NoFault
        /\ Establish([rows EXCEPT !["action_linkage"] =
                        IF Equivalence = NoFault THEN Row("EQUIVALENT", NoFault)
                        ELSE Row("NOT_EQUIVALENT", Equivalence)],
                     "who_join")

\* Mutant: the evidence is satisfied by the right human, whatever was approved.
Evidence_AnyAction == Row("SATISFIED", NoFault)

\* What the evidence is worth when both sides name the same principal.
Evidence ==
  CASE linkage_reason = NoFault -> Row("SATISFIED", NoFault)
    [] linkage_reason = "payload_digest_mismatch" -> Row("UNSATISFIED", linkage_reason)
    [] linkage_reason = "join_mismatch" ->
         Row("UNSATISFIED", "evidence_covers_a_different_action")

\* Whatever the WHAT-join found: a reader is owed both facts.
WhoJoin ==
  /\ pc = "who_join"
  /\ LET aae == resolve(mandate.principal_did, vector.aae)
         secondary == resolve(vector.artifact.enrollment_binding, vector.secondary)
         Joined(principal_linkage, evidence_satisfaction) ==
           Establish([rows EXCEPT !["principal_linkage"] = principal_linkage,
                                  !["evidence_satisfaction"] = evidence_satisfaction],
                     "freshness")
     IN \/ /\ {} \in {aae, secondary}
           /\ Joined(Row("UNRESOLVED", "unresolved_binding"),
                     Row("NOT_EVALUATED", "unresolved_binding"))
        \/ /\ {} \notin {aae, secondary} /\ aae = secondary
           /\ Joined(Row("SAME", NoFault), Evidence)
        \/ /\ {} \notin {aae, secondary} /\ aae # secondary
           /\ Joined(Row("DIVERGENT", "principal_divergence"),
                     Row("UNSATISFIED", "principal_divergence"))

Freshness ==
  /\ pc = "freshness"
  /\ LET fault == check_replay_claims(vector.artifact.token.claims) IN
       Establish([rows EXCEPT !["freshness"] =
                    Row(IF fault = NoFault THEN "WELL_FORMED" ELSE "CLAIMS_MALFORMED", fault)],
                 "decision")

\* The principals before the action, and the action before the freshness.
decision_reason ==
  Then(rows["principal_linkage"].reason, Then(linkage_reason, rows["freshness"].reason))

Authorized ==
  /\ rows["action_linkage"].value = "EQUIVALENT"
  /\ rows["principal_linkage"].value = "SAME"
  /\ rows["evidence_satisfaction"].value = "SATISFIED"
  /\ rows["freshness"].value = "WELL_FORMED"

Decision ==
  /\ pc = "decision"
  /\ Return([rows EXCEPT !["decision"] =
               IF Authorized THEN Row("AUTHORIZED", NoFault) ELSE Row("REFUSED", decision_reason)])

----------------------------------------------------------------------------
\* The callers.

Compose(v, f) ==
  /\ vector' = v
  /\ fixture' = f
  /\ pc' = "aae_native"
  /\ rows' = NoRows
  /\ diffs' = {}

\* Between two calls there are no arguments: those of some vector stand in.
NoCall == CHOOSE b \in DOMAIN Vectors : TRUE

\* composition-verify.py takes up the next vector, as committed.
LoadVector ==
  /\ pc = "idle"
  /\ \E b \in DOMAIN Vectors :
       /\ base' = b
       /\ Compose(Vectors[b].vector, Fixture)
  /\ control' = NoFault
  /\ before' = NoRows

\* run_negative_controls.py takes up a control of the vector just composed.
LoadControl ==
  /\ pc = "compared" /\ control = NoFault
  /\ \E c \in DOMAIN Controls :
       /\ base \in DOMAIN Controls[c].expected
       /\ Applicable(Vectors[base].vector, Controls[c].mutation)
       /\ control' = c
       /\ Compose(MutatedVector(Vectors[base].vector, Controls[c].mutation),
                  MutatedFixture(Fixture, Controls[c].mutation))
  /\ before' = rows
  /\ UNCHANGED base

\* A row is compared by its reason and its step where one is expected.
expected == IF control = NoFault THEN Vectors[base].expected ELSE Controls[control].expected[base]

Differs(want, got) ==
  \/ want.value # got.value
  \/ \E r \in want.reason : r # got.reason
  \/ want.verification_step \notin {{}, got.verification_step}

compare_stages ==
  /\ pc = "composed"
  /\ diffs' = {s \in Rows : s \notin DOMAIN expected \/ Differs(expected[s], rows[s])}
  /\ pc' = "compared"
  /\ UNCHANGED <<input, rows, before>>

\* The next vector, or the program again after an exception ended it.
Proceed ==
  /\ pc \in {"compared", "raised"}
  /\ base' = NoCall /\ control' = NoFault
  /\ vector' = Vectors[NoCall].vector /\ fixture' = Fixture
  /\ pc' = "idle"
  /\ rows' = NoRows /\ before' = NoRows
  /\ diffs' = {}

Init ==
  /\ base = NoCall /\ control = NoFault
  /\ vector = Vectors[NoCall].vector /\ fixture = Fixture
  /\ pc = "idle"
  /\ rows = NoRows /\ before = NoRows
  /\ diffs = {}

Next ==
  \/ AaeNative \/ SecondaryNative \/ WhatJoin \/ WhoJoin \/ Freshness \/ Decision
  \/ LoadVector \/ LoadControl \/ compare_stages \/ Proceed

Spec == Init /\ [][Next]_vars
=============================================================================
