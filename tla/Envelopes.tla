----------------------------- MODULE Envelopes -----------------------------
(***************************************************************************)
(* The data of the native family: what a secured AAE decodes to, what a    *)
(* presentation of it carries, and the facts its context supplies.         *)
(*                                                                         *)
(* A secured AAE is a key of JWS; Payload[j] is what its bytes decode to.  *)
(* Distinct keys are distinct byte strings, so the parent hash of section  *)
(* 3 is the key itself.  An optional JSON member is a set of at most one   *)
(* value: the empty set is the absent member, and a comparison the code    *)
(* makes only "when both are present" is an existential.                   *)
(***************************************************************************)
EXTENDS Integers, Sequences, Faults

CONSTANTS
  JWS,      \* the secured AAEs in circulation
  Payload,  \* what each of them decodes to
  Calls,    \* what verify() may be called with: a presentation and a context
  Domains,  \* domain names, as written
  Lower     \* the lower-case form of each of them

RECOGNIZED_CONSTRAINTS == {"max_transaction_value", "allowed_domains", "rate_limit"}
NUMERIC_UPPER_BOUND == {"max_transaction_value"}
CURRENCY_VALUED == {"max_transaction_value"}
ALLOWLIST_CONSTRAINTS == {"allowed_domains"}

ConstraintTypes == RECOGNIZED_CONSTRAINTS \cup {"unrecognized"}

\* One member of the constraints object; is_object is FALSE for a member such as
\* "resource": "repo:acme/*".
Constraint ==
  [stated : BOOLEAN, is_object : BOOLEAN, required : BOOLEAN, value : SUBSET Int,
   currency : STRING, domains : SUBSET Domains]

\* The members check_schema() looks for, one fault of the document at a time.
Shapes == {"ok", "payload_not_object", "no_id", "no_issuer", "no_subject",
           "no_subject_id", "no_aae", "no_mandate", "no_constraints", "no_validity"}

\* What verify_signature() makes of a JWS: it returns, raises Reject with a reason, or
\* raises something nobody catches (a header that is no object, undecodable base64url).
SignatureOutcomes ==
  {"valid", "malformed_jws", "malformed_header", "alg_not_eddsa", "kid_not_did_url",
   "signing_did_unresolvable", "vm_not_authorized_assertionMethod",
   "verification_method_absent", "key_not_ed25519", "invalid_signature",
   "payload_not_json", Uncaught}

\* signer is the DID of the kid; policy_max_depth the max_depth of delegation_policy.
Envelope ==
  [signature : SignatureOutcomes, signer : STRING, cty : BOOLEAN, shape : Shapes,
   id : STRING, issuer : STRING, subject : STRING,
   notBefore : SUBSET Int, notAfter : SUBSET Int, validFrom : SUBSET Int,
   single_use : BOOLEAN, revocation_check : BOOLEAN,
   actions : SUBSET STRING,
   constraints : [ConstraintTypes -> Constraint],
   delegated : BOOLEAN, delegator_did : STRING, delegator_aae_id : STRING,
   delegator_aae_hash : SUBSET JWS, depth : SUBSET Int, max_depth : SUBSET Int,
   policy_max_depth : SUBSET Int]

\* revoked is the "revoked" member: true, false, or not there.
Response ==
  [id : STRING, http_status : Int, unparseable : BOOLEAN,
   revoked : {"true", "false", "absent"}]

Context ==
  [current_time : Int, challenge_response_valid : BOOLEAN,
   consumed_ids : SUBSET STRING, requested_action : STRING,
   amount : SUBSET Int, currency : STRING, domain : SUBSET Domains,
   rate_count : SUBSET Int, revocation_responses : SUBSET Response]

\* The AAE and delegation_chain of a call.
Presentation == [aae : JWS, chain : Seq(JWS)]

IsOptional(s) == \A x, y \in s : x = y

ASSUME PayloadAssumption ==
  /\ Payload \in [JWS -> Envelope]
  /\ \A j \in JWS : LET e == Payload[j] IN
       /\ IsOptional(e.depth) /\ IsOptional(e.max_depth)
       /\ IsOptional(e.policy_max_depth) /\ IsOptional(e.delegator_aae_hash)
       /\ \A t \in ConstraintTypes : IsOptional(e.constraints[t].value)
ASSUME CallsAssumption ==
  \A call \in Calls : /\ call.presented \in Presentation
                      /\ call.ctx \in Context
                      /\ IsOptional(call.ctx.amount)
ASSUME LowerAssumption == Lower \in [Domains -> Domains]

\* The verification path of presentation p: chain[0] first, the presented AAE last.
Last(p) == Len(p.chain) + 1
JwsAt(p, i) == IF i = Last(p) THEN p.aae ELSE p.chain[i]
EnvelopeAt(p, i) == Payload[JwsAt(p, i)]

effective_depth(e) == IF e.delegated THEN e.depth ELSE {0}

effective_max_depth(e) == IF e.delegated THEN e.max_depth ELSE e.policy_max_depth

\* The members of the constraints object.
Stated(e) == {t \in ConstraintTypes : e.constraints[t].stated}

\* get("value", 0)
ValueOrZero(k) == IF k.value = {} THEN {0} ELSE k.value

LowerAll(S) == {Lower[d] : d \in S}
=============================================================================
