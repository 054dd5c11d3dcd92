------------------------------ MODULE CrossRun ------------------------------
(***************************************************************************)
(* The data of the composition: a vector that pairs a secured AAE with a   *)
(* PSEA proof, the fixture with the keys the relying party has enrolled,   *)
(* and the checks composition-verify.py makes on one of them at a time.    *)
(*                                                                         *)
(* A digest is the octet string it decodes to, SHA-256 does not collide    *)
(* (a payload is known by its digest), and a signature is the key that     *)
(* made it over the header and claims it is attached to.                   *)
(***************************************************************************)
EXTENDS Integers, Faults

CONSTANTS
  SecuredAAE,  \* the secured AAEs in circulation
  Mandate,     \* what compose() reads in the mandate of each
  Time,        \* the instants at which vectors are judged
  Native,      \* Native[j][t]: the fault verify() finds in secured AAE j at time t, and its step
  Octets,      \* the octet strings digests decode to
  Octet32,     \* those with 32 octets
  FlipOctet,   \* each of them with one octet changed
  Key, Kid,    \* ES256 keys, and the names the fixture enrolls them under
  Identifier,  \* the identifiers a resolution table may hold
  Principal    \* canonical principals

\* An optional JSON member is a set of at most one value.
Optional(S) == {s \in SUBSET S : \A x, y \in s : x = y}

\* A declared digest whose encoding, padding or length is not the declared one.
Undecodable == "undecodable"
Declared == Octets \cup {Undecodable}

\* What stands in a payload, at any depth; names of members are strings.
I_JSON == {"null", "boolean", "string", "safe_integer"}
Leaf == I_JSON \cup {"lone_surrogate", "unsafe_integer", "float"}
Payload == [digest : Octet32, leaves : SUBSET Leaf]

Binding == [sha256 : BOOLEAN, payload_digest : Declared]

\* A psea_counter that is no integer, and a jti that is no string, count as absent; an iat or
\* an exp that is there and no number is one of not_numbers.
Blank == ""
Claims ==
  [iat : Optional(Int), exp : Optional(Int), not_numbers : SUBSET {"iat", "exp"},
   psea_payload_hash : Optional(Declared), psea_counter : Optional(Int), jti : Optional(STRING)]

\* What the first or the second part of a token decodes to.
Segment == {"object", "no_object", "no_json"}

Token ==
  [three_parts : BOOLEAN, header_is : Segment, claims_is : Segment,
   alg_es256 : BOOLEAN, typ_psea_proof : BOOLEAN, kid : STRING, claims : Claims,
   signature : Key \cup {"tampered", "undecodable", "not_64_octets"}]

Artifact ==
  [token : Token, signer_kid : STRING, enrollment_binding : STRING, payload_digest : Declared]

Table == [Identifier -> Optional(Principal)]

Vector ==
  [secured_aae : SecuredAAE, current_time : Time, artifact : Artifact, payload : Payload,
   aae_digest : Declared, secondary_digest : Declared, aae : Table, secondary : Table]

EnrolledKey == [curve : {"p256", "other", "off_curve"}, key : Key]
EnrolledKeys == [Kid -> Optional(EnrolledKey)]

ASSUME DataAssumption ==
  /\ Mandate \in [SecuredAAE -> [principal_did : STRING, action_binding : Optional(Binding)]]
  /\ Time \subseteq Int
  /\ Native \in [SecuredAAE -> [Time -> [fault : STRING, verification_step : Optional(Nat)]]]
  /\ Octet32 \subseteq Octets /\ Undecodable \notin Octets
  /\ FlipOctet \in [Octets -> Octets]
  /\ Kid \subseteq STRING /\ Identifier \subseteq STRING
  /\ {"tampered", "undecodable", "not_64_octets"} \cap Key = {}

----------------------------------------------------------------------------
\* verify_psea_proof()

Enrolled(fixture, kid) == IF kid \in Kid THEN fixture[kid] ELSE {}

HeaderFault(token, signer_kid) ==
  Then(When(~token.three_parts \/ "no_json" \in {token.header_is, token.claims_is},
            "malformed_token"),
  Then(When(token.header_is = "no_object", Uncaught),
  Then(When(~token.alg_es256, "unexpected_alg"),
  Then(When(~token.typ_psea_proof, "unexpected_typ"),
       When(token.kid # signer_kid, "kid_differs_from_signer_kid")))))

KeyFault(keys) ==
  Then(When(keys = {}, "kid_not_enrolled"),
  Then(When(\E k \in keys : k.curve = "other", "enrolled_key_not_p256"),
       When(\E k \in keys : k.curve = "off_curve", Uncaught)))

\* Mutant: the key that made the signature is not looked at.
SignatureFault_AnyKey(token, keys) ==
  Then(When(token.signature = "undecodable", Uncaught),
  Then(When(token.signature = "not_64_octets", "signature_not_64_octets"),
       When(token.signature = "tampered", "invalid_signature")))

SignatureFault(token, keys) ==
  Then(When(token.signature = "undecodable", Uncaught),
  Then(When(token.signature = "not_64_octets", "signature_not_64_octets"),
       When(\E k \in keys : k.key # token.signature, "invalid_signature")))

\* The artifact must be in its window and commit to the digest recorded for it; claims that
\* are no object, or an instant that is no number, raise where they are read.
ClaimsFault(token, payload_digest, now) ==
  LET claims == token.claims  committed == claims.psea_payload_hash IN
  Then(When(token.claims_is = "no_object" \/ "iat" \in claims.not_numbers, Uncaught),
  Then(When(\E t \in claims.iat : now < t, "not_yet_valid_iat"),
  Then(When("exp" \in claims.not_numbers, Uncaught),
  Then(When(\E t \in claims.exp : now > t, "expired_exp"),
  Then(When(committed = {}, "no_psea_payload_hash"),
  Then(When(Undecodable \in committed \cup {payload_digest}, "payload_hash_not_decodable"),
       When(committed # {payload_digest}, "payload_hash_differs")))))))

verify_psea_proof(artifact, fixture, now) ==
  LET token == artifact.token  keys == Enrolled(fixture, token.kid) IN
  Then(HeaderFault(token, artifact.signer_kid),
  Then(KeyFault(keys),
  Then(SignatureFault(token, keys),
       ClaimsFault(token, artifact.payload_digest, now))))

----------------------------------------------------------------------------
\* The other checks of compose() on one input.

resolve(identifier, table) == IF identifier \in Identifier THEN table[identifier] ELSE {}

check_i_json(payload) == payload.leaves \subseteq I_JSON

\* The counter first: the order in which two implementations name the same failure.
check_replay_claims(claims) ==
  Then(When(~\E n \in claims.psea_counter : n >= 0, "counter_malformed"),
       When(~\E s \in claims.jti : s # Blank, "jti_malformed"))

\* Mutant: a binding under another algorithm, or of another length, is compared too.
Bound_AnyAlgorithm(binding, declared) == \E b \in binding : b.payload_digest = declared

\* A binding that cannot be decoded is the empty octet string, which has no 32 octets.
Bound(binding, declared) ==
  \E b \in binding :
    b.sha256 /\ b.payload_digest \in Octet32 /\ b.payload_digest = declared

----------------------------------------------------------------------------
\* apply_mutation() of run_negative_controls.py: one input of a vector, or of the
\* copy of the fixture, is changed.

Mutation ==
  [op : {"set_current_time"}, value : Time]
    \cup [op : {"flip_digest_octet"}, target : {"aae_digest", "secondary_digest"}]
    \cup [op : {"add_resolution_entry"}, side : {"aae", "secondary"}, key : Identifier,
          value : Principal]
    \cup [op : {"set_payload_member"}, payload : Payload]
    \cup [op : {"use_envelope"}, file : SecuredAAE]
    \cup [op : {"resign_token_with_key"}, key : Key, enroll_as : Optional(Kid),
          null_claims : SUBSET STRING]
    \cup [op : {"tamper_token_signature"}]

\* What cannot be changed raises, and with it the control, before anything is composed.
Applicable(vector, m) ==
  /\ m.op = "flip_digest_octet" => vector[m.target] # Undecodable
  /\ m.op \in {"resign_token_with_key", "tamper_token_signature"} =>
       vector.artifact.token.three_parts
  /\ m.op = "resign_token_with_key" =>
       /\ vector.artifact.token.claims_is = "object"
       /\ m.enroll_as # {} => vector.artifact.token.header_is = "object"

\* set_claims with null: the members are taken out.
Without(claims, gone) ==
  [claims EXCEPT
     !.iat = IF "iat" \in gone THEN {} ELSE @,
     !.exp = IF "exp" \in gone THEN {} ELSE @,
     !.not_numbers = @ \ gone,
     !.psea_payload_hash = IF "psea_payload_hash" \in gone THEN {} ELSE @,
     !.psea_counter = IF "psea_counter" \in gone THEN {} ELSE @,
     !.jti = IF "jti" \in gone THEN {} ELSE @]

\* The token is signed anew; a key it is to be verified with is named in its header.
Resigned(artifact, m) ==
  LET token == artifact.token
      named(kid) == IF m.enroll_as = {} THEN kid ELSE CHOOSE k \in m.enroll_as : TRUE
  IN [artifact EXCEPT
        !.token = [token EXCEPT !.kid = named(@), !.claims = Without(@, m.null_claims),
                                !.signature = m.key],
        !.signer_kid = named(@)]

Tampered(artifact) ==
  LET signature == artifact.token.signature IN
  [artifact EXCEPT !.token.signature = IF signature \in Key THEN "tampered" ELSE signature]

MutatedVector(vector, m) ==
  CASE m.op = "set_current_time" -> [vector EXCEPT !.current_time = m.value]
    [] m.op = "flip_digest_octet" /\ m.target = "aae_digest" ->
         [vector EXCEPT !.aae_digest = FlipOctet[@]]
    [] m.op = "flip_digest_octet" /\ m.target = "secondary_digest" ->
         [vector EXCEPT !.secondary_digest = FlipOctet[@]]
    [] m.op = "add_resolution_entry" /\ m.side = "aae" ->
         [vector EXCEPT !.aae = [@ EXCEPT ![m.key] = {m.value}]]
    [] m.op = "add_resolution_entry" /\ m.side = "secondary" ->
         [vector EXCEPT !.secondary = [@ EXCEPT ![m.key] = {m.value}]]
    [] m.op = "set_payload_member" -> [vector EXCEPT !.payload = m.payload]
    [] m.op = "use_envelope" -> [vector EXCEPT !.secured_aae = m.file]
    [] m.op = "resign_token_with_key" -> [vector EXCEPT !.artifact = Resigned(@, m)]
    [] m.op = "tamper_token_signature" -> [vector EXCEPT !.artifact = Tampered(@)]

MutatedFixture(fixture, m) ==
  IF m.op # "resign_token_with_key" THEN fixture
  ELSE [kid \in Kid |-> IF kid \in m.enroll_as THEN {[curve |-> "p256", key |-> m.key]}
                                               ELSE fixture[kid]]
=============================================================================
