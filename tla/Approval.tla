------------------------------ MODULE Approval ------------------------------
(***************************************************************************)
(* The question the composition asks, with no algorithm: did the same      *)
(* human both mandate this action and approve it?  Every clause speaks of  *)
(* a whole vector; compose() establishes it stage by stage.                *)
(***************************************************************************)
EXTENDS CrossRun

VARIABLES vector, fixture, decision

avars == <<vector, fixture, decision>>

token == vector.artifact.token
now == vector.current_time

Mandated == Native[vector.secured_aae][now].fault = NoFault

\* The token is signed with the key enrolled under the name it gives.
Authentic ==
  /\ token.three_parts /\ token.header_is = "object" /\ token.claims_is = "object"
  /\ token.claims.not_numbers = {}
  /\ token.alg_es256 /\ token.typ_psea_proof
  /\ token.kid = vector.artifact.signer_kid
  /\ token.kid \in Kid
  /\ fixture[token.kid] = {[curve |-> "p256", key |-> token.signature]}
  /\ \A t \in token.claims.iat : t <= now
  /\ \A t \in token.claims.exp : now <= t

\* The payload's action is the one that the envelope is bound to, the one that the token
\* approves, and the one declared on either side and beside the token.
SameAction ==
  /\ vector.payload.leaves \subseteq I_JSON
  /\ vector.aae_digest = vector.payload.digest
  /\ vector.secondary_digest = vector.payload.digest
  /\ Mandate[vector.secured_aae].action_binding =
       {[sha256 |-> TRUE, payload_digest |-> vector.payload.digest]}
  /\ token.claims.psea_payload_hash = {vector.payload.digest}
  /\ vector.artifact.payload_digest = vector.payload.digest

SamePrincipal ==
  \E p \in Principal :
    /\ resolve(Mandate[vector.secured_aae].principal_did, vector.aae) = {p}
    /\ resolve(vector.artifact.enrollment_binding, vector.secondary) = {p}

ReplayClaims ==
  /\ \E n \in token.claims.psea_counter : n >= 0
  /\ \E s \in token.claims.jti : s # Blank

Approved == Mandated /\ Authentic /\ SameAction /\ SamePrincipal /\ ReplayClaims

Init == decision = "PENDING"

Present == decision' = "PENDING"

Decide ==
  /\ decision = "PENDING"
  /\ \/ decision' = "AUTHORIZED" /\ Approved
     \/ decision' \in {"REFUSED", "EXCEPTION"} /\ ~Approved
  /\ UNCHANGED <<vector, fixture>>

Next == Present \/ Decide

Spec == Init /\ [][Next]_avars
=============================================================================
