--------------------------- MODULE InteropVectors ---------------------------
(***************************************************************************)
(* The committed composition vectors and negative controls: what           *)
(* tools/build_interop_psea.py assembles from the counterpart's fixture    *)
(* and the resolution table, and interop/psea/negative-controls.json.      *)
(* Instants are counted in half minutes from NB.                           *)
(***************************************************************************)
EXTENDS CrossRun

NB == 0
NOW == 60
NA == 120

JoinKey == "join_key"          \* SHA-256 of the fixture's action payload
OtherKey == "other_key"        \* SHA-256 of the same payload with another amount
AttackerKey == "psea-attacker-key"

----------------------------------------------------------------------------
\* build_envelope(): the envelopes differ in the principal and in the binding.

build_envelope(principal_did, include_action_binding) ==
  [principal_did |-> principal_did,
   action_binding |->
     IF include_action_binding THEN {[sha256 |-> TRUE, payload_digest |-> JoinKey]} ELSE {}]

Envelopes ==
  [j \in {"E1", "E2", "E3", "E4"} |->
     CASE j = "E1" -> build_envelope("did:principal-A", TRUE)
       [] j = "E2" -> build_envelope("did:principal-unresolved", TRUE)
       [] j = "E3" -> build_envelope("did:principal-A-alias", TRUE)
       [] j = "E4" -> build_envelope("did:principal-A", FALSE)]

\* The only check of section 5 that a vector or a control makes fail.
NativeOf(t) ==
  LET fault == Then(When(t < NB, "not_yet_valid_not_before"), When(t > NA, "expired_not_after"))
  IN  [fault |-> fault, verification_step |-> IF fault = NoFault THEN {7} ELSE {3}]

----------------------------------------------------------------------------
\* The counterpart's fixture.

FixtureKey == [kid \in {"psea-key-A", "psea-key-B"} |-> kid]
EnrollmentBinding ==
  [kid \in {"psea-key-A", "psea-key-B"} |->
     IF kid = "psea-key-A" THEN "principal-A" ELSE "principal-B"]

PseaToken(kid) ==
  [three_parts |-> TRUE, header_is |-> "object", claims_is |-> "object", alg_es256 |-> TRUE, typ_psea_proof |-> TRUE, kid |-> kid,
   claims |-> [iat |-> {NB}, exp |-> {NA}, not_numbers |-> {},
               psea_payload_hash |-> {JoinKey}, psea_counter |-> {1}, jti |-> {kid}],
   signature |-> FixtureKey[kid]]

secondary_artifact(kid) ==
  [token |-> PseaToken(kid), signer_kid |-> kid, enrollment_binding |-> EnrollmentBinding[kid],
   payload_digest |-> JoinKey]

\* load_fixture() pins the file; the keys it enrolls are under the names of the fixture.
PseaFixture ==
  [kid \in Kid |-> IF kid \in DOMAIN FixtureKey
                   THEN {[curve |-> "p256", key |-> FixtureKey[kid]]} ELSE {}]

----------------------------------------------------------------------------
\* join_who_for(): the resolution table in a named enrollment state.

aae_table ==
  [i \in Identifier |->
     CASE i \in {"did:principal-A", "did:principal-A-alias"} -> {"A"}
       [] i = "did:principal-B" -> {"B"}
       [] OTHER -> {}]

secondary_omits(state) == IF state = "pending_enrollment" THEN {"principal-A"} ELSE {}

secondary_table(state) ==
  [i \in Identifier |->
     CASE i \in secondary_omits(state) -> {}
       [] i = "principal-A" -> {"A"}
       [] i = "principal-B" -> {"B"}
       [] OTHER -> {}]

join_who_for(state) == [aae |-> aae_table, secondary |-> secondary_table(state)]

----------------------------------------------------------------------------
\* main(): the six vectors, and the rows each is expected to have.

CompositionVector(envelope, kid, state) ==
  [secured_aae |-> envelope, current_time |-> NOW, artifact |-> secondary_artifact(kid),
   payload |-> [digest |-> JoinKey, leaves |-> {"string", "safe_integer"}],
   aae_digest |-> JoinKey, secondary_digest |-> JoinKey,
   aae |-> join_who_for(state).aae, secondary |-> join_who_for(state).secondary]

\* An expected row: its value, and its reason and its step where one is expected.
Want(value) == [value |-> value, reason |-> {}, verification_step |-> {}]
For(value, reason) == [Want(value) EXCEPT !.reason = {reason}]
At(step, row) == [row EXCEPT !.verification_step = {step}]

ExpectedRows(aae_native, action, principal, evidence, freshness, decision) ==
  [aae_native |-> aae_native, action_linkage |-> action, principal_linkage |-> principal,
   evidence_satisfaction |-> evidence, freshness |-> freshness, decision |-> decision,
   admission |-> Want("NONE"), outcome |-> Want("NONE")]
Accept == At(7, Want("ACCEPT"))

Upstream(principal, evidence, decision) ==
  ExpectedRows(Accept, Want("EQUIVALENT"), principal, evidence,
               Want("WELL_FORMED"), decision)
Aligned == Upstream(Want("SAME"), Want("SATISFIED"), Want("AUTHORIZED"))
Unresolved ==
  Upstream(For("UNRESOLVED", "unresolved_binding"), Want("NOT_EVALUATED"), Want("REFUSED"))
Divergent ==
  Upstream(For("DIVERGENT", "principal_divergence"), Want("UNSATISFIED"), Want("REFUSED"))

CompositionVectors ==
  [b \in {"xp-1", "xp-2", "xp-3", "xp-5a", "xp-5b", "xp-6"} |->
     CASE b \in {"xp-1", "xp-5b"} ->
            [vector |-> CompositionVector("E1", "psea-key-A", "enrolled"), expected |-> Aligned]
       [] b = "xp-2" ->
            [vector |-> CompositionVector("E1", "psea-key-B", "enrolled"), expected |-> Divergent]
       [] b = "xp-3" ->
            [vector |-> CompositionVector("E2", "psea-key-A", "enrolled"), expected |-> Unresolved]
       [] b = "xp-5a" ->
            [vector |-> CompositionVector("E1", "psea-key-A", "pending_enrollment"),
             expected |-> Unresolved]
       [] b = "xp-6" ->
            [vector |-> CompositionVector("E3", "psea-key-A", "enrolled"), expected |-> Aligned]]

----------------------------------------------------------------------------
\* negative-controls.json.

NoLinkage(reason) ==
  ExpectedRows(Accept, For("INDETERMINATE", reason),
               For("UNRESOLVED", "action_linkage_unestablished"),
               For("NOT_EVALUATED", "action_linkage_unestablished"),
               For("NOT_EVALUATED", "action_linkage_unestablished"),
               For("REFUSED", "action_linkage_unestablished"))

NoProof(reason) ==
  ExpectedRows(Accept, For("INDETERMINATE", "secondary_unauthenticated"),
               For("UNRESOLVED", "secondary_unauthenticated"), For("UNSATISFIED", reason),
               For("NOT_EVALUATED", "secondary_unauthenticated"),
               For("REFUSED", "secondary_native_reject"))

NoGrant(reason) ==
  ExpectedRows(At(3, For("REJECT", reason)), For("INDETERMINATE", "aae_not_admitted"),
               For("UNRESOLVED", "aae_not_admitted"), For("NOT_EVALUATED", "aae_not_admitted"),
               For("NOT_EVALUATED", "aae_not_admitted"), For("REFUSED", "aae_native_reject"))

OtherAction(reason, evidence) ==
  ExpectedRows(Accept, For("NOT_EQUIVALENT", reason), Want("SAME"),
               For("UNSATISFIED", evidence), Want("WELL_FORMED"), For("REFUSED", reason))

Flip(target) == [op |-> "flip_digest_octet", target |-> target]
AtTime(t) == [op |-> "set_current_time", value |-> t]
Member(payload) == [op |-> "set_payload_member", payload |-> payload]
Resign(enroll_as, null_claims) ==
  [op |-> "resign_token_with_key", key |-> AttackerKey, enroll_as |-> enroll_as,
   null_claims |-> null_claims]

On(b, mutation, rows) == [base_vector |-> b, mutation |-> mutation, expected |-> rows]

NegativeControls ==
  [c \in {"C1", "C2", "C3", "C4", "C5", "C6", "C7", "C8", "C9", "C10", "C11"} |->
     CASE c = "C1" -> On("xp-1", Flip("secondary_digest"),
                         OtherAction("join_mismatch", "evidence_covers_a_different_action"))
       [] c = "C2" -> On("xp-3", [op |-> "add_resolution_entry", side |-> "aae",
                                  key |-> "did:principal-unresolved", value |-> "B"],
                         Upstream(For("DIVERGENT", "principal_divergence"),
                                  For("UNSATISFIED", "principal_divergence"),
                                  For("REFUSED", "principal_divergence")))
       [] c = "C3" -> On("xp-1", [op |-> "tamper_token_signature"], NoProof("invalid_signature"))
       [] c = "C4" -> On("xp-1", AtTime(180), NoGrant("expired_not_after"))
       [] c = "C5" -> On("xp-1", AtTime(1), Aligned)
       [] c = "C6" -> On("xp-1", Flip("aae_digest"), NoLinkage("aae_binding_mismatch"))
       [] c = "C7" -> On("xp-1", [op |-> "use_envelope", file |-> "E4"],
                         NoLinkage("aae_binding_absent"))
       [] c = "C8" -> On("xp-1", Member([digest |-> OtherKey, leaves |-> {"string", "safe_integer"}]),
                         OtherAction("payload_digest_mismatch", "payload_digest_mismatch"))
       [] c = "C9" -> On("xp-1", Member([digest |-> OtherKey, leaves |-> {"string", "safe_integer", "float"}]),
                         NoLinkage("payload_not_i_json"))
       [] c = "C10" -> On("xp-1", Resign({}, {}), NoProof("invalid_signature"))
       [] c = "C11" -> On("xp-1", Resign({"psea-key-C11"}, {"psea_counter"}),
                          ExpectedRows(Accept, Want("EQUIVALENT"), Want("SAME"),
                                       Want("SATISFIED"),
                                       For("CLAIMS_MALFORMED", "counter_malformed"),
                                       For("REFUSED", "counter_malformed")))]
=============================================================================
