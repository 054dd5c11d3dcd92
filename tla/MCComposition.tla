--------------------------- MODULE MCComposition ---------------------------
(***************************************************************************)
(* The committed vectors and controls, and every vector that departs from  *)
(* the first of them in one or two inputs, each under every control.       *)
(***************************************************************************)
EXTENDS CompositionSafety, InteropVectors

\* E1 to E4, and envelopes with a binding of another kind or another native answer.
MCSecuredAAE ==
  DOMAIN Envelopes \cup {"other_alg", "other_length", "other_digest", "undecodable_binding",
                         "no_principal", "refused", "raising"}

WithBinding(sha256, digest) ==
  [principal_did |-> "did:principal-A",
   action_binding |-> {[sha256 |-> sha256, payload_digest |-> digest]}]

MCMandate ==
  [j \in MCSecuredAAE |->
     CASE j \in DOMAIN Envelopes -> Envelopes[j]
       [] j = "other_alg" -> WithBinding(FALSE, JoinKey)
       [] j = "other_length" -> WithBinding(TRUE, "other_length")
       [] j = "other_digest" -> WithBinding(TRUE, OtherKey)
       [] j = "undecodable_binding" -> WithBinding(TRUE, Undecodable)
       [] j = "no_principal" -> build_envelope("absent", TRUE)
       [] OTHER -> WithBinding(TRUE, JoinKey)]

MCTime == {-1, 0, 1, 60, 120, 121, 180}

MCNative ==
  [j \in MCSecuredAAE |-> [t \in MCTime |->
     CASE j = "refused" -> [fault |-> "action_not_in_mandate", verification_step |-> {6}]
       [] j = "raising" -> [fault |-> Uncaught, verification_step |-> {}]
       [] OTHER -> NativeOf(t)]]

MCOctet32 == {JoinKey, OtherKey, "flipped"}
MCOctets == MCOctet32 \cup {"other_length"}
MCFlipOctet == [o \in MCOctets |-> IF o = "other_length" THEN o ELSE "flipped"]

MCKid == {"psea-key-A", "psea-key-B", "psea-key-C11", "rsa", "off_curve"}
MCKey == {"psea-key-A", "psea-key-B", AttackerKey}
MCIdentifier ==
  {"did:principal-A", "did:principal-B", "did:principal-A-alias", "did:principal-unresolved",
   "principal-A", "principal-B"}
MCPrincipal == {"A", "B"}

MCFixture ==
  [PseaFixture EXCEPT !["rsa"] = {[curve |-> "other", key |-> "psea-key-A"]},
                      !["off_curve"] = {[curve |-> "off_curve", key |-> "psea-key-A"]}]

\* v with departure k: 0 is none.
SetClaims(v, claims) == [v EXCEPT !.artifact.token.claims = claims]
Signed(v, kid) == [v EXCEPT !.artifact.token.kid = kid, !.artifact.signer_kid = kid]
ClaimsOf(v) == v.artifact.token.claims
Departed(v, k) ==
  CASE k = 0 -> v
    [] k = 1 -> [v EXCEPT !.secured_aae = "other_alg"]
    [] k = 2 -> [v EXCEPT !.secured_aae = "other_length"]
    [] k = 3 -> [v EXCEPT !.secured_aae = "other_digest"]
    [] k = 4 -> [v EXCEPT !.secured_aae = "undecodable_binding"]
    [] k = 5 -> [v EXCEPT !.secured_aae = "no_principal"]
    [] k = 6 -> [v EXCEPT !.secured_aae = "refused"]
    [] k = 7 -> [v EXCEPT !.secured_aae = "raising"]
    [] k = 8 -> [v EXCEPT !.artifact.token.three_parts = FALSE]
    [] k = 9 -> [v EXCEPT !.artifact.token.header_is = "no_object"]
    [] k = 10 -> [v EXCEPT !.artifact.token.claims_is = "no_object"]
    [] k = 11 -> [v EXCEPT !.artifact.token.alg_es256 = FALSE]
    [] k = 12 -> [v EXCEPT !.artifact.token.typ_psea_proof = FALSE]
    [] k = 13 -> [v EXCEPT !.artifact.signer_kid = "psea-key-B"]
    [] k = 14 -> Signed(v, "unknown")
    [] k = 15 -> Signed(v, "rsa")
    [] k = 16 -> Signed(v, "off_curve")
    [] k = 17 -> [v EXCEPT !.artifact.token.signature = "undecodable"]
    [] k = 18 -> [v EXCEPT !.artifact.token.signature = "not_64_octets"]
    [] k = 19 -> SetClaims(v, [ClaimsOf(v) EXCEPT !.iat = {61}])
    [] k = 20 -> SetClaims(v, [ClaimsOf(v) EXCEPT !.exp = {59}])
    [] k = 21 -> SetClaims(v, [ClaimsOf(v) EXCEPT !.iat = {60}, !.exp = {60}])
    [] k = 22 -> SetClaims(v, [ClaimsOf(v) EXCEPT !.psea_payload_hash = {OtherKey}])
    [] k = 23 -> SetClaims(v, [ClaimsOf(v) EXCEPT !.psea_payload_hash = {Undecodable}])
    [] k = 24 -> SetClaims(v, [ClaimsOf(v) EXCEPT !.psea_payload_hash = {}])
    [] k = 25 -> SetClaims(v, [ClaimsOf(v) EXCEPT !.psea_counter = {-1}])
    [] k = 26 -> SetClaims(v, [ClaimsOf(v) EXCEPT !.psea_counter = {0}, !.jti = {Blank}])
    [] k = 27 -> [v EXCEPT !.artifact.payload_digest = OtherKey]
    [] k = 28 -> [v EXCEPT !.artifact.payload_digest = Undecodable]
    [] k = 29 -> [v EXCEPT !.artifact.enrollment_binding = "principal-B"]
    [] k = 30 -> [v EXCEPT !.aae_digest = OtherKey]
    [] k = 31 -> [v EXCEPT !.aae_digest = Undecodable]
    [] k = 32 -> [v EXCEPT !.secondary_digest = OtherKey]
    [] k = 33 -> [v EXCEPT !.secondary_digest = Undecodable]
    [] k = 34 -> [v EXCEPT !.payload = [digest |-> OtherKey, leaves |-> {"null", "boolean"}]]
    [] k = 35 -> [v EXCEPT !.payload = [digest |-> OtherKey, leaves |-> {"unsafe_integer"}]]
    [] k = 36 -> [v EXCEPT !.current_time = NA]
    [] k = 37 -> [v EXCEPT !.aae["did:principal-A"] = {}]
    [] k = 38 -> [v EXCEPT !.artifact.token.header_is = "no_json"]
    [] k = 39 -> [v EXCEPT !.artifact.token.claims_is = "no_json"]
    [] k = 40 -> SetClaims(v, [ClaimsOf(v) EXCEPT !.iat = {}, !.not_numbers = @ \cup {"iat"}])
    [] k = 41 -> SetClaims(v, [ClaimsOf(v) EXCEPT !.exp = {}, !.not_numbers = @ \cup {"exp"}])
LastDeparture == 41

AsCommitted == <<0, 0>>
Names == (DOMAIN CompositionVectors) \X {AsCommitted}
Departures == {<<"xp-1", <<k, l>>>> : k \in 0..LastDeparture, l \in 1..LastDeparture}

\* With no row expected, every row differs.
NoExpectation == [s \in {} |-> Want("UNSET")]

MCVectors ==
  [b \in Names \cup {d \in Departures : d[2][1] < d[2][2]} |->
     IF b \in Names THEN CompositionVectors[b[1]]
     ELSE [vector |-> Departed(Departed(CompositionVectors["xp-1"].vector, b[2][1]), b[2][2]),
           expected |-> NoExpectation]]

\* Every control on every vector; rows are expected where it is committed.
MCControls ==
  [c \in DOMAIN NegativeControls |->
     [mutation |-> NegativeControls[c].mutation,
      expected |-> [b \in DOMAIN MCVectors |->
                      IF b = <<NegativeControls[c].base_vector, AsCommitted>>
                      THEN NegativeControls[c].expected ELSE NoExpectation]]]
=============================================================================
