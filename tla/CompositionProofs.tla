-------------------------- MODULE CompositionProofs --------------------------
(***************************************************************************)
(* compose() and one comparison more implement Approval, for every         *)
(* fixture, every set of vectors and controls, and whatever the native     *)
(* verifier answers.                                                       *)
(*                                                                         *)
(* The rows that are filled at a stage are those the code has computed of  *)
(* the vector so far (Filled); at the end they are one of four outcomes    *)
(* (Outcome).  What the rows then say is a question about the vector       *)
(* alone, and the lemmas about the checks answer it.                       *)
(***************************************************************************)
EXTENDS CompositionOutcomes, TLAPS

-----------------------------------------------------------------------------
\* The inductive invariant.

Input ==
  /\ vector \in Vector
  /\ fixture \in EnrolledKeys
  /\ base \in DOMAIN Vectors
  /\ control \in DOMAIN Controls \cup {NoFault}

Filled ==
  /\ pc \in Stages \cup {"composed", "compared", "raised", "idle"}
  /\ DOMAIN rows = Rows /\ DOMAIN before = Rows
  /\ \A s \in Rows : rows[s] = Unset \/ rows[s].value \in Values[s]
  /\ pc \in Stages \ {"aae_native"} => NativeFault = NoFault /\ rows["aae_native"] = Accepted
  /\ pc \in Stages \ {"aae_native", "secondary_native"} => ProofFault = NoFault
  /\ pc \in {"who_join", "freshness", "decision"} =>
       LinkageFault = NoFault /\ rows["action_linkage"] = LinkageRow
  /\ pc \in {"freshness", "decision"} =>
       rows["principal_linkage"] = PrincipalRow /\ rows["evidence_satisfaction"] = EvidenceRow
  /\ pc = "decision" => rows["freshness"] = FreshnessRow
  /\ pc \in {"composed", "compared"} => Outcome

\* The committed vector at hand, and the rows it had.
Committed ==
  INSTANCE CompositionOutcomes
    WITH vector <- Vectors[base].vector, fixture <- Fixture, control <- NoFault,
         pc <- "compared", rows <- before, before <- NoRows, diffs <- {}

\* What is composed is the committed vector, or the mutation of it by the control at hand.
Unmutated == vector = Vectors[base].vector /\ fixture = Fixture
Mutated ==
  LET m == Controls[control].mutation IN
  /\ Applicable(Vectors[base].vector, m)
  /\ vector = MutatedVector(Vectors[base].vector, m)
  /\ fixture = MutatedFixture(Fixture, m)
  /\ Committed!Outcome
Origin == IF control = NoFault THEN Unmutated ELSE Mutated

Ind == Input /\ Filled

-----------------------------------------------------------------------------
\* The checks.

\* The proof is accepted exactly if it is authentic and commits to the digest recorded.
LEMMA ProofAccepted ==
  ASSUME Input
  PROVE  (ProofFault = NoFault) <=>
           /\ A!Authentic
           /\ vector.artifact.token.claims.psea_payload_hash = {vector.artifact.payload_digest}
           /\ vector.artifact.payload_digest # Undecodable
  <1> DEFINE token == vector.artifact.token
             keys == Enrolled(fixture, token.kid)
             committed == token.claims.psea_payload_hash
             digest == vector.artifact.payload_digest
             now == vector.current_time
  <1>1. /\ token \in Token /\ vector.artifact.signer_kid \in STRING
        /\ digest \in Declared /\ committed \in Optional(Declared)
    BY DEF Input, Vector, Artifact, Token, Claims
  <1>2. keys \in Optional(EnrolledKey)
    <2>1. {} \in Optional(EnrolledKey)
      BY DEF Optional
    <2>. QED BY <2>1 DEF Enrolled, Input, EnrolledKeys
  <1>3. (HeaderFault(token, vector.artifact.signer_kid) = NoFault) <=>
          /\ token.three_parts /\ token.header_is = "object" /\ token.claims_is # "no_json"
          /\ token.alg_es256 /\ token.typ_psea_proof
          /\ token.kid = vector.artifact.signer_kid
    BY <1>1 DEF HeaderFault, Then, When, NoFault, Uncaught, Token, Segment
  <1>4. (KeyFault(keys) = NoFault) <=> keys # {} /\ \A k \in keys : k.curve = "p256"
    BY <1>2 DEF KeyFault, Then, When, NoFault, Uncaught, Optional, EnrolledKey
  <1>5. (SignatureFault(token, keys) = NoFault) <=>
          /\ token.signature \notin {"undecodable", "not_64_octets"}
          /\ \A k \in keys : k.key = token.signature
    BY DEF SignatureFault, Then, When, NoFault, Uncaught
  <1>6. (ClaimsFault(token, digest, now) = NoFault) <=>
          /\ token.claims_is # "no_object"
          /\ "iat" \notin token.claims.not_numbers /\ "exp" \notin token.claims.not_numbers
          /\ \A t \in token.claims.iat : ~(now < t)
          /\ \A t \in token.claims.exp : ~(now > t)
          /\ committed = {digest} /\ digest # Undecodable
    BY DEF ClaimsFault, Then, When, NoFault, Uncaught
  <1>7. (ProofFault = NoFault) <=>
          /\ HeaderFault(token, vector.artifact.signer_kid) = NoFault
          /\ KeyFault(keys) = NoFault
          /\ SignatureFault(token, keys) = NoFault
          /\ ClaimsFault(token, digest, now) = NoFault
    BY DEF ProofFault, verify_psea_proof, Then
  <1>8. (KeyFault(keys) = NoFault /\ SignatureFault(token, keys) = NoFault) <=>
          token.kid \in Kid /\ fixture[token.kid] = {[curve |-> "p256", key |-> token.signature]}
    <2>1. ASSUME KeyFault(keys) = NoFault, SignatureFault(token, keys) = NoFault
          PROVE  /\ token.kid \in Kid
                 /\ fixture[token.kid] = {[curve |-> "p256", key |-> token.signature]}
      <3>1. token.kid \in Kid /\ keys = fixture[token.kid]
        BY <1>4, <2>1 DEF Enrolled
      <3>2. PICK k \in keys : keys = {k}
        BY <1>2, <1>4, <2>1 DEF Optional
      <3>3. k \in EnrolledKey
        BY <1>2, <3>2 DEF Optional
      <3>4. k = [curve |-> "p256", key |-> token.signature]
        BY <1>4, <1>5, <2>1, <3>2, <3>3 DEF EnrolledKey
      <3>. QED BY <3>1, <3>2, <3>4
    <2>2. ASSUME token.kid \in Kid,
                 fixture[token.kid] = {[curve |-> "p256", key |-> token.signature]}
          PROVE  KeyFault(keys) = NoFault /\ SignatureFault(token, keys) = NoFault
      <3>1. keys = {[curve |-> "p256", key |-> token.signature]}
        BY <2>2 DEF Enrolled
      <3>2. [curve |-> "p256", key |-> token.signature] \in EnrolledKey
        BY <1>2, <3>1 DEF Optional
      <3>3. token.signature \in Key
        BY <3>2 DEF EnrolledKey
      <3>4. token.signature \notin {"undecodable", "not_64_octets"}
        BY <3>3, DataAssumption
      <3>. QED BY <1>4, <1>5, <3>1, <3>4
    <2>. QED BY <2>1, <2>2
  <1>9. \A t \in Int : (~(now < t) <=> t <= now) /\ (~(now > t) <=> now <= t)
    <2>1. now \in Int
      BY DataAssumption DEF Input, Vector
    <2> HIDE DEF now
    <2> QED BY <2>1
  <1>10. token.claims.not_numbers = {} <=>
           "iat" \notin token.claims.not_numbers /\ "exp" \notin token.claims.not_numbers
    BY <1>1 DEF Token, Claims
  <1>11. token.claims_is = "object" <=> token.claims_is \notin {"no_object", "no_json"}
    BY <1>1 DEF Token, Segment
  <1>. QED
    BY <1>1, <1>3, <1>6, <1>7, <1>8, <1>9, <1>10, <1>11
       DEF A!Authentic, A!token, A!now, Token, Claims, Optional

LEMMA ReplayWellFormed ==
  ASSUME Input
  PROVE  (ReplayFault = NoFault) <=> A!ReplayClaims
  BY DEF ReplayFault, check_replay_claims, Then, When, NoFault, Blank,
         A!ReplayClaims, A!token, A!Blank

\* The action is linked exactly if the copies of the digest on both sides are the payload's.
LEMMA LinkageEstablished ==
  ASSUME Input
  PROVE  (LinkageFault = NoFault /\ Equivalence = NoFault) <=>
           /\ vector.payload.leaves \subseteq I_JSON
           /\ vector.aae_digest = vector.payload.digest
           /\ vector.secondary_digest = vector.payload.digest
           /\ mandate.action_binding =
                {[sha256 |-> TRUE, payload_digest |-> vector.payload.digest]}
  <1> DEFINE binding == mandate.action_binding
             digest == vector.payload.digest
  <1>1. binding \in Optional(Binding) /\ digest \in Octet32
    BY DataAssumption DEF Input, Vector, Payload, mandate
  <1>2. (Equivalence = NoFault) <=>
          vector.aae_digest = digest /\ vector.aae_digest = vector.secondary_digest
    BY DEF Equivalence, Then, When, NoFault
  <1>3. (LinkageFault = NoFault) <=>
          /\ Undecodable \notin {vector.aae_digest, vector.secondary_digest}
          /\ binding # {} /\ Bound(binding, vector.aae_digest)
          /\ vector.payload.leaves \subseteq I_JSON
    BY DEF LinkageFault, Then, When, NoFault, check_i_json
  <1>4. Bound(binding, digest) <=> binding = {[sha256 |-> TRUE, payload_digest |-> digest]}
    <2>1. ASSUME Bound(binding, digest)
          PROVE  binding = {[sha256 |-> TRUE, payload_digest |-> digest]}
      <3>1. PICK b \in binding : b.sha256 /\ b.payload_digest = digest
        BY <2>1 DEF Bound
      <3>2. binding = {b} /\ b \in Binding
        BY <1>1, <3>1 DEF Optional
      <3>3. b = [sha256 |-> TRUE, payload_digest |-> digest]
        BY <3>1, <3>2 DEF Binding
      <3> QED BY <3>2, <3>3
    <2>2. ASSUME binding = {[sha256 |-> TRUE, payload_digest |-> digest]}
          PROVE  Bound(binding, digest)
      BY <1>1, <2>2 DEF Bound
    <2> QED BY <2>1, <2>2
  <1>5. Undecodable # digest
    BY <1>1, DataAssumption
  <1> HIDE DEF binding, digest
  <1>6. (LinkageFault = NoFault /\ Equivalence = NoFault) <=>
          /\ vector.payload.leaves \subseteq I_JSON
          /\ vector.aae_digest = digest /\ vector.secondary_digest = digest
          /\ binding # {} /\ Bound(binding, digest)
    BY <1>2, <1>3, <1>5
  <1> QED BY <1>4, <1>6 DEF binding, digest

LEMMA BindingNames ==
  ASSUME LinkageFault = NoFault
  PROVE  \E b \in mandate.action_binding : b.payload_digest = vector.aae_digest
  BY DEF LinkageFault, Then, When, NoFault, Bound

\* Both identifiers resolve, and to one principal, exactly if the two sides agree.
LEMMA PrincipalsAgree ==
  ASSUME Input
  PROVE  A!SamePrincipal <=> ({} \notin {AaeSide, SecondarySide} /\ AaeSide = SecondarySide)
  <1>1. AaeSide \in Optional(Principal) /\ SecondarySide \in Optional(Principal)
    <2>1. {} \in Optional(Principal)
      BY DEF Optional
    <2>2. vector.aae \in Table /\ vector.secondary \in Table
      BY DEF Input, Vector
    <2> QED BY <2>1, <2>2 DEF AaeSide, SecondarySide, resolve, Table
  <1>2. A!SamePrincipal <=> \E p \in Principal : AaeSide = {p} /\ SecondarySide = {p}
    BY DEF A!SamePrincipal, AaeSide, SecondarySide, mandate, resolve, A!resolve
  <1>3. ASSUME AaeSide # {}
        PROVE  \E p \in Principal : AaeSide = {p}
    BY <1>1, <1>3 DEF Optional
  <1> QED BY <1>2, <1>3

\* What Approval asks of a vector is what the four groups of checks find, and that the token
\* is linked.
LEMMA ApprovedIs ==
  ASSUME Input
  PROVE  A!Approved <=>
           /\ NativeFault = NoFault /\ ProofFault = NoFault /\ LinkageFault = NoFault
           /\ AllAgree /\ TokenLinked
  <1>1. A!Mandated <=> NativeFault = NoFault
    BY DEF A!Mandated, A!now, NativeFault, native, A!NoFault, NoFault
  <1>2. vector.payload.digest # Undecodable
    BY DataAssumption DEF Input, Vector, Payload
  <1>3. A!SameAction <=>
          /\ LinkageFault = NoFault /\ Equivalence = NoFault /\ TokenLinked
          /\ vector.artifact.token.claims.psea_payload_hash = {vector.artifact.payload_digest}
          /\ vector.artifact.payload_digest # Undecodable
    BY <1>2, LinkageEstablished
       DEF A!SameAction, A!token, A!I_JSON, I_JSON, TokenLinked, mandate
  <1> QED
    BY <1>1, <1>3, ProofAccepted, PrincipalsAgree, ReplayWellFormed DEF A!Approved, AllAgree

-----------------------------------------------------------------------------
\* The steps of compose().

LEMMA InitInd == Init => Ind
  <1> SUFFICES ASSUME Init PROVE Ind
    OBVIOUS
  <1>1. NoCall \in DOMAIN Vectors
    BY CommittedAssumption DEF NoCall
  <1>2. Input
    BY <1>1, CommittedAssumption DEF Init, Input
  <1>3. Filled
    BY DEF Init, Filled, NoRows, Stages
  <1> QED BY <1>2, <1>3 DEF Ind

\* What is computed of the arguments of compose() does not change while it runs.
LEMMA Frame ==
  ASSUME UNCHANGED input
  PROVE  /\ Input' = Input
         /\ NativeFault' = NativeFault /\ ProofFault' = ProofFault
         /\ LinkageFault' = LinkageFault /\ Equivalence' = Equivalence
         /\ LinkageRow' = LinkageRow /\ PrincipalRow' = PrincipalRow
         /\ EvidenceRow' = EvidenceRow /\ FreshnessRow' = FreshnessRow
         /\ DecisionRow' = DecisionRow /\ Accepted' = Accepted /\ Rejected' = Rejected
         /\ TokenLinked' = TokenLinked
  <1>0. native' = native /\ TokenLinked' = TokenLinked
    BY DEF input, native, TokenLinked
  <1>1. /\ Input' = Input
        /\ NativeFault' = NativeFault /\ ProofFault' = ProofFault /\ ReplayFault' = ReplayFault
        /\ AaeSide' = AaeSide /\ SecondarySide' = SecondarySide
        /\ Accepted' = Accepted /\ Rejected' = Rejected
    BY <1>0 DEF input, Input, NativeFault, Accepted, Rejected, AaeRow, ProofFault, ReplayFault, AaeSide, SecondarySide, mandate
  <1>2. LinkageFault' = LinkageFault /\ Equivalence' = Equivalence
    BY DEF input, LinkageFault, Equivalence, mandate
  <1>3. AllAgree' = AllAgree
    BY <1>1, <1>2 DEF AllAgree
  <1>4. /\ LinkageRow' = LinkageRow /\ PrincipalRow' = PrincipalRow
        /\ EvidenceRow' = EvidenceRow /\ FreshnessRow' = FreshnessRow
    BY <1>1, <1>2 DEF LinkageRow, PrincipalRow, EvidenceRow, FreshnessRow
  <1>5. DecisionRow' = DecisionRow
    BY <1>3, <1>4 DEF DecisionRow, Reason
  <1> QED BY <1>0, <1>1, <1>2, <1>4, <1>5

\* A row that is filled has a value, and the rows typed before stay typed.
Typed(r) ==
  /\ DOMAIN r = Rows
  /\ \A s \in Rows : r[s] = Unset \/ r[s].value \in Values[s]

LEMMA RowTyped ==
  /\ Accepted.value \in Values["aae_native"]
  /\ LinkageRow.value \in Values["action_linkage"]
  /\ PrincipalRow.value \in Values["principal_linkage"]
  /\ EvidenceRow.value \in Values["evidence_satisfaction"]
  /\ FreshnessRow.value \in Values["freshness"]
  /\ DecisionRow.value \in Values["decision"]
  BY DEF Row, Accepted, AaeRow, LinkageRow, PrincipalRow, EvidenceRow, FreshnessRow,
         DecisionRow, Values

\* The last two rows are the same whatever is returned.
LEMMA TailRows ==
  ASSUME NEW filled, Typed(filled)
  PROVE  /\ Typed(Tail(filled))
         /\ Tail(filled)["admission"] = Row("NONE", NoFault)
         /\ Tail(filled)["outcome"] = Row("NONE", NoFault)
         /\ \A s \in Rows \ {"admission", "outcome"} : Tail(filled)[s] = filled[s]
  <1> DEFINE none == Row("NONE", NoFault)
  <1>1. none.value \in Values["admission"] /\ none.value \in Values["outcome"]
    BY DEF Row, Values
  <1>2. DOMAIN filled = Rows /\ {"admission", "outcome"} \subseteq Rows
    BY DEF Typed, Rows
  <1> HIDE DEF none
  <1>3. Tail(filled) = [filled EXCEPT !["admission"] = none, !["outcome"] = none]
    BY DEF Tail, none
  <1>4. /\ DOMAIN Tail(filled) = Rows
        /\ Tail(filled)["admission"] = none /\ Tail(filled)["outcome"] = none
        /\ \A s \in Rows \ {"admission", "outcome"} : Tail(filled)[s] = filled[s]
    BY <1>2, <1>3
  <1>5. Typed(Tail(filled))
    BY <1>1, <1>4 DEF Typed
  <1> QED BY <1>4, <1>5 DEF none

LEMMA RaiseInd ==
  ASSUME Ind, pc \in Stages, Raise
  PROVE  Ind'
  <1>1. UNCHANGED input /\ rows' = rows /\ before' = before /\ pc' = "raised"
    BY DEF Raise
  <1>2. Input'
    BY <1>1, Frame DEF Ind
  <1>3. Filled'
    BY <1>1 DEF Ind, Filled, Stages
  <1> QED BY <1>2, <1>3 DEF Ind

\* compose() returns: the rows are typed and one of the outcomes.
LEMMA ReturnInd ==
  ASSUME Ind, NEW filled, Return(filled), Typed(filled), Outcome'
  PROVE  Ind'
  <1>1. /\ UNCHANGED input /\ rows' = Tail(filled) /\ before' = before /\ pc' = "composed"
    BY DEF Return
  <1>2. Input'
    BY <1>1, Frame DEF Ind
  <1>3. Filled'
    BY <1>1, TailRows DEF Ind, Filled, Stages, Typed
  <1> QED BY <1>2, <1>3 DEF Ind

LEMMA AaeNativeInd ==
  ASSUME Ind, AaeNative
  PROVE  Ind'
  <1>1. CASE NativeFault = Uncaught /\ Raise
    BY <1>1, RaiseInd DEF AaeNative, Stages
  <1>2. CASE NativeFault \notin {NoFault, Uncaught} /\ Return(NotAdmitted)
    <2>1. UNCHANGED input /\ rows' = Tail(NotAdmitted)
      BY <1>2 DEF Return
    <2>2. Typed(rows)
      BY DEF Ind, Filled, Typed
    <2>3. Typed(NotAdmitted)
      BY <2>2 DEF Typed, NotAdmitted, Fill, Rows, Row, AaeRow, Values
    <2>4. OutcomeNative'
      BY <1>2, <2>1, <2>2, <2>3, Frame, TailRows
         DEF Typed, OutcomeNative, RowsAre, NotAdmitted, Fill, Rows, Row, Rejected
    <2> QED BY <1>2, <2>3, <2>4, ReturnInd DEF Outcome
  <1>3. CASE NativeFault = NoFault
             /\ Establish([rows EXCEPT !["aae_native"] = Accepted], "secondary_native")
    <2>1. /\ UNCHANGED input /\ rows' = [rows EXCEPT !["aae_native"] = Accepted]
          /\ before' = before /\ pc' = "secondary_native"
      BY <1>3 DEF Establish
    <2>2. Input' /\ NativeFault' = NoFault
      BY <1>3, <2>1, Frame DEF Ind
    <2>3. Typed(rows') /\ rows'["aae_native"] = Accepted
      BY <2>1, RowTyped DEF Ind, Filled, Typed, Rows
    <2>4. Filled'
      BY <2>1, <2>2, <2>3, Frame DEF Ind, Filled, Stages, Typed
    <2> QED BY <2>2, <2>4 DEF Ind
  <1> QED BY <1>1, <1>2, <1>3 DEF AaeNative, NativeFault, Accepted

LEMMA SecondaryNativeInd ==
  ASSUME Ind, SecondaryNative
  PROVE  Ind'
  <1>0. /\ pc = "secondary_native" /\ NativeFault = NoFault
        /\ rows["aae_native"] = Accepted /\ DOMAIN rows = Rows
    BY DEF Ind, Filled, SecondaryNative, Stages
  <1>1. CASE ProofFault = Uncaught /\ Raise
    BY <1>0, <1>1, RaiseInd DEF Stages
  <1>2. CASE ProofFault \notin {NoFault, Uncaught} /\ Return(Unauthenticated(ProofFault))
    <2>1. UNCHANGED input /\ rows' = Tail(Unauthenticated(ProofFault))
      BY <1>2 DEF Return
    <2>3. Typed(Unauthenticated(ProofFault))
      BY <1>0 DEF Ind, Filled, Typed, Unauthenticated, Fill, Rows, Row, Values
    <2>2. OutcomeProof'
      <3>1. /\ Unauthenticated(ProofFault)["aae_native"] = Accepted
            /\ Unauthenticated(ProofFault)["action_linkage"] =
                 Row("INDETERMINATE", "secondary_unauthenticated")
            /\ Unauthenticated(ProofFault)["principal_linkage"] =
                 Row("UNRESOLVED", "secondary_unauthenticated")
            /\ Unauthenticated(ProofFault)["evidence_satisfaction"] =
                 Row("UNSATISFIED", ProofFault)
            /\ Unauthenticated(ProofFault)["freshness"] =
                 Row("NOT_EVALUATED", "secondary_unauthenticated")
            /\ Unauthenticated(ProofFault)["decision"] = Row("REFUSED", "secondary_native_reject")
        BY <1>0 DEF Unauthenticated, Fill, Rows
      <3> QED BY <1>0, <1>2, <2>1, <2>3, <3>1, Frame, TailRows DEF OutcomeProof, RowsAre, Rows
    <2> QED BY <1>2, <2>2, <2>3, ReturnInd DEF Outcome
  <1>3. CASE ProofFault = NoFault /\ Establish(rows, "what_join")
    <2>1. UNCHANGED input /\ rows' = rows /\ before' = before /\ pc' = "what_join"
      BY <1>3 DEF Establish
    <2>2. Input' /\ NativeFault' = NoFault /\ ProofFault' = NoFault
      BY <1>0, <1>3, <2>1, Frame DEF Ind
    <2>3. Filled'
      BY <1>0, <2>1, <2>2, Frame DEF Ind, Filled, Stages
    <2> QED BY <2>2, <2>3 DEF Ind
  <1> QED BY <1>1, <1>2, <1>3 DEF SecondaryNative, ProofFault

LEMMA WhatJoinInd ==
  ASSUME Ind, WhatJoin
  PROVE  Ind'
  <1>0. /\ pc = "what_join" /\ NativeFault = NoFault /\ ProofFault = NoFault
        /\ rows["aae_native"] = Accepted /\ Typed(rows)
    BY DEF Ind, Filled, WhatJoin, Stages, Typed
  <1>1. CASE LinkageFault # NoFault /\ Return(Unestablished(LinkageFault))
    <2>1. UNCHANGED input /\ rows' = Tail(Unestablished(LinkageFault))
      BY <1>1 DEF Return
    <2>3. Typed(Unestablished(LinkageFault))
      BY <1>0 DEF Typed, Unestablished, Fill, Rows, Row, Values
    <2>2. OutcomeLinkage'
      <3> DEFINE none == Row("NOT_EVALUATED", "action_linkage_unestablished")
      <3>1. /\ Unestablished(LinkageFault)["aae_native"] = Accepted
            /\ Unestablished(LinkageFault)["action_linkage"] = Row("INDETERMINATE", LinkageFault)
            /\ Unestablished(LinkageFault)["principal_linkage"] =
                 Row("UNRESOLVED", "action_linkage_unestablished")
            /\ Unestablished(LinkageFault)["evidence_satisfaction"] = none
            /\ Unestablished(LinkageFault)["freshness"] = none
            /\ Unestablished(LinkageFault)["decision"] =
                 Row("REFUSED", "action_linkage_unestablished")
        BY <1>0 DEF Unestablished, Fill, Typed, Rows
      <3> QED BY <1>0, <1>1, <2>1, <2>3, <3>1, Frame, TailRows DEF OutcomeLinkage, RowsAre, Rows
    <2> QED BY <1>1, <2>2, <2>3, ReturnInd DEF Outcome
  <1>2. CASE /\ LinkageFault = NoFault
             /\ Establish([rows EXCEPT !["action_linkage"] = LinkageRow], "who_join")
    <2>1. /\ UNCHANGED input /\ rows' = [rows EXCEPT !["action_linkage"] = LinkageRow]
          /\ before' = before /\ pc' = "who_join"
      BY <1>2 DEF Establish
    <2>2. /\ Input' /\ NativeFault' = NoFault /\ ProofFault' = NoFault
          /\ LinkageFault' = NoFault /\ LinkageRow' = LinkageRow
      BY <1>0, <1>2, <2>1, Frame DEF Ind
    <2>3. /\ Typed(rows') /\ rows'["aae_native"] = Accepted
          /\ rows'["action_linkage"] = LinkageRow
      BY <1>0, <2>1, RowTyped DEF Typed, Rows
    <2>4. Filled'
      BY <2>1, <2>2, <2>3, Frame DEF Ind, Filled, Stages, Typed
    <2> QED BY <2>2, <2>4 DEF Ind
  <1> QED BY <1>1, <1>2 DEF WhatJoin, LinkageRow

\* Whatever the WHAT-join found, the WHO-join fills its two rows.
LEMMA WhoJoinRows ==
  ASSUME Ind, WhoJoin
  PROVE  Establish([rows EXCEPT !["principal_linkage"] = PrincipalRow,
                                !["evidence_satisfaction"] = EvidenceRow], "freshness")
  <1>1. linkage_reason = Equivalence
    BY DEF Ind, Filled, WhoJoin, Stages, linkage_reason, LinkageRow, Row
  <1>2. Equivalence \in {NoFault, "payload_digest_mismatch", "join_mismatch"}
    BY DEF Equivalence, Then, When
  <1>3. ASSUME {} \notin {AaeSide, SecondarySide}, AaeSide = SecondarySide
        PROVE  Evidence = EvidenceRow
    BY <1>1, <1>2, <1>3 DEF Evidence, EvidenceRow, NoFault
  <1>4. CASE {} \in {AaeSide, SecondarySide}
    <2>1. /\ PrincipalRow = Row("UNRESOLVED", "unresolved_binding")
          /\ EvidenceRow = Row("NOT_EVALUATED", "unresolved_binding")
      BY <1>4 DEF PrincipalRow, EvidenceRow
    <2> QED BY <1>4, <2>1 DEF WhoJoin, AaeSide, SecondarySide
  <1>5. CASE {} \notin {AaeSide, SecondarySide} /\ AaeSide = SecondarySide
    <2>1. PrincipalRow = Row("SAME", NoFault)
      BY <1>5 DEF PrincipalRow
    <2> QED BY <1>3, <1>5, <2>1 DEF WhoJoin, AaeSide, SecondarySide
  <1>6. CASE {} \notin {AaeSide, SecondarySide} /\ AaeSide # SecondarySide
    <2>1. /\ PrincipalRow = Row("DIVERGENT", "principal_divergence")
          /\ EvidenceRow = Row("UNSATISFIED", "principal_divergence")
      BY <1>6 DEF PrincipalRow, EvidenceRow
    <2> QED BY <1>6, <2>1 DEF WhoJoin, AaeSide, SecondarySide
  <1> QED BY <1>4, <1>5, <1>6

LEMMA WhoJoinInd ==
  ASSUME Ind, WhoJoin
  PROVE  Ind'
  <1>0. /\ NativeFault = NoFault /\ ProofFault = NoFault /\ LinkageFault = NoFault
        /\ rows["aae_native"] = Accepted /\ rows["action_linkage"] = LinkageRow /\ Typed(rows)
    BY DEF Ind, Filled, WhoJoin, Stages, Typed
  <1>1. /\ UNCHANGED input /\ before' = before /\ pc' = "freshness"
        /\ rows' = [rows EXCEPT !["principal_linkage"] = PrincipalRow,
                                !["evidence_satisfaction"] = EvidenceRow]
    BY WhoJoinRows DEF Establish
  <1>2. /\ Input' /\ NativeFault' = NoFault /\ ProofFault' = NoFault /\ LinkageFault' = NoFault
        /\ LinkageRow' = LinkageRow /\ PrincipalRow' = PrincipalRow
        /\ EvidenceRow' = EvidenceRow
    BY <1>0, <1>1, Frame DEF Ind
  <1>3. /\ Typed(rows') /\ rows'["aae_native"] = Accepted /\ rows'["action_linkage"] = LinkageRow
        /\ rows'["principal_linkage"] = PrincipalRow
        /\ rows'["evidence_satisfaction"] = EvidenceRow
    BY <1>0, <1>1, RowTyped DEF Typed, Rows
  <1>4. Filled'
    BY <1>1, <1>2, <1>3, Frame DEF Ind, Filled, Stages, Typed
  <1> QED BY <1>2, <1>4 DEF Ind

LEMMA FreshnessInd ==
  ASSUME Ind, Freshness
  PROVE  Ind'
  <1>0. /\ NativeFault = NoFault /\ ProofFault = NoFault /\ LinkageFault = NoFault
        /\ rows["aae_native"] = Accepted /\ rows["action_linkage"] = LinkageRow
        /\ rows["principal_linkage"] = PrincipalRow
        /\ rows["evidence_satisfaction"] = EvidenceRow /\ Typed(rows)
    BY DEF Ind, Filled, Freshness, Stages, Typed
  <1>1. /\ UNCHANGED input /\ before' = before /\ pc' = "decision"
        /\ rows' = [rows EXCEPT !["freshness"] = FreshnessRow]
    BY DEF Freshness, Establish, FreshnessRow, ReplayFault
  <1>2. /\ Input' /\ NativeFault' = NoFault /\ ProofFault' = NoFault /\ LinkageFault' = NoFault
        /\ LinkageRow' = LinkageRow /\ PrincipalRow' = PrincipalRow
        /\ EvidenceRow' = EvidenceRow /\ FreshnessRow' = FreshnessRow
    BY <1>0, <1>1, Frame DEF Ind
  <1>3. /\ Typed(rows') /\ rows'["aae_native"] = Accepted /\ rows'["action_linkage"] = LinkageRow
        /\ rows'["principal_linkage"] = PrincipalRow
        /\ rows'["evidence_satisfaction"] = EvidenceRow /\ rows'["freshness"] = FreshnessRow
    BY <1>0, <1>1, RowTyped DEF Typed, Rows
  <1>4. Filled'
    BY <1>1, <1>2, <1>3, Frame DEF Ind, Filled, Stages, Typed
  <1> QED BY <1>2, <1>4 DEF Ind

\* The rows authorize exactly if every check behind them agrees.
LEMMA DecisionInd ==
  ASSUME Ind, Decision
  PROVE  Ind'
  <1>0. /\ NativeFault = NoFault /\ ProofFault = NoFault /\ LinkageFault = NoFault
        /\ rows["aae_native"] = Accepted /\ rows["action_linkage"] = LinkageRow
        /\ rows["principal_linkage"] = PrincipalRow
        /\ rows["evidence_satisfaction"] = EvidenceRow
        /\ rows["freshness"] = FreshnessRow /\ Typed(rows)
    BY DEF Ind, Filled, Decision, Stages, Typed
  <1>1. Authorized <=> AllAgree
    <2>1. (LinkageRow.value = "EQUIVALENT") <=> Equivalence = NoFault
      BY DEF LinkageRow, Row
    <2>2. (PrincipalRow.value = "SAME") <=>
            ({} \notin {AaeSide, SecondarySide} /\ AaeSide = SecondarySide)
      BY DEF PrincipalRow, Row
    <2>3. (EvidenceRow.value = "SATISFIED") <=>
            (/\ {} \notin {AaeSide, SecondarySide} /\ AaeSide = SecondarySide
             /\ Equivalence = NoFault)
      BY DEF EvidenceRow, Row
    <2>4. (FreshnessRow.value = "WELL_FORMED") <=> ReplayFault = NoFault
      BY DEF FreshnessRow, Row
    <2> QED BY <1>0, <2>1, <2>2, <2>3, <2>4 DEF Authorized, AllAgree
  <1>2. decision_reason = Reason
    BY <1>0 DEF decision_reason, Reason, linkage_reason
  <1>3. Return([rows EXCEPT !["decision"] = DecisionRow])
    BY <1>1, <1>2 DEF Decision, DecisionRow
  <1>4. Typed([rows EXCEPT !["decision"] = DecisionRow])
    BY <1>0, RowTyped DEF Typed, Rows
  <1>5. UNCHANGED input /\ rows' = Tail([rows EXCEPT !["decision"] = DecisionRow])
    BY <1>3 DEF Return
  <1>6. OutcomeDecision'
    BY <1>0, <1>4, <1>5, Frame, TailRows DEF OutcomeDecision, RowsAre, Typed, Rows
  <1> QED BY <1>3, <1>4, <1>6, ReturnInd DEF Outcome

-----------------------------------------------------------------------------
\* The steps of the callers.

LEMMA ResignedTyped ==
  ASSUME NEW artifact \in Artifact, NEW key \in Key, NEW enroll_as \in Optional(Kid),
         NEW m, m.key = key, m.enroll_as = enroll_as
  PROVE  Resigned(artifact, m) \in Artifact
  <1> DEFINE token == artifact.token
             named(kid) == IF m.enroll_as = {} THEN kid ELSE CHOOSE k \in m.enroll_as : TRUE
  <1>1. token \in Token /\ artifact.signer_kid \in STRING /\ token.claims \in Claims
    BY DEF Artifact, Token
  <1>2. ASSUME NEW kid \in STRING
        PROVE  named(kid) \in STRING
    <2>1. enroll_as \subseteq STRING
      BY DataAssumption DEF Optional
    <2> QED BY <2>1
  <1>3. Without(token.claims, m.null_claims) \in Claims
    <2>1. {} \in Optional(Int) /\ {} \in Optional(Declared) /\ {} \in Optional(STRING)
      BY DEF Optional
    <2>2. token.claims.not_numbers \ m.null_claims \subseteq {"iat", "exp"}
      BY <1>1 DEF Claims
    <2> QED BY <1>1, <2>1, <2>2 DEF Without, Claims
  <1> DEFINE resigned == [token EXCEPT !.kid = named(@), !.claims = Without(@, m.null_claims),
                                       !.signature = m.key]
  <1>4. resigned \in Token
    BY <1>1, <1>2, <1>3 DEF Token
  <1>5. named(artifact.signer_kid) \in STRING
    BY <1>1, <1>2
  <1>6. Resigned(artifact, m) = [artifact EXCEPT !.token = resigned,
                                                 !.signer_kid = named(@)]
    BY DEF Resigned
  <1> HIDE DEF resigned, named
  <1> QED BY <1>4, <1>5, <1>6 DEF Artifact

LEMMA TamperedTyped ==
  ASSUME NEW artifact \in Artifact
  PROVE  Tampered(artifact) \in Artifact
  BY DEF Tampered, Artifact, Token

\* A control composes a vector with a fixture, as a committed vector does.
LEMMA MutatedTyped ==
  ASSUME NEW v \in Vector, NEW m \in Mutation, Applicable(v, m)
  PROVE  MutatedVector(v, m) \in Vector
  <1>1. CASE m \in [op : {"set_current_time"}, value : Time]
    BY <1>1 DEF MutatedVector, Vector
  <1>2. CASE m \in [op : {"flip_digest_octet"}, target : {"aae_digest", "secondary_digest"}]
    <2>1. v[m.target] \in Octets /\ FlipOctet[v[m.target]] \in Declared
      BY <1>2, DataAssumption DEF Applicable, Vector, Declared
    <2>2. CASE m.target = "aae_digest"
      BY <1>2, <2>1, <2>2 DEF MutatedVector, Vector
    <2>3. CASE m.target = "secondary_digest"
      BY <1>2, <2>1, <2>3 DEF MutatedVector, Vector
    <2> QED BY <1>2, <2>2, <2>3
  <1>3. CASE m \in [op : {"add_resolution_entry"}, side : {"aae", "secondary"},
                    key : Identifier, value : Principal]
    <2>1. {m.value} \in Optional(Principal)
      BY <1>3 DEF Optional
    <2>2. /\ [v.aae EXCEPT ![m.key] = {m.value}] \in Table
          /\ [v.secondary EXCEPT ![m.key] = {m.value}] \in Table
      BY <1>3, <2>1 DEF Vector, Table
    <2>3. CASE m.side = "aae"
      <3>1. MutatedVector(v, m) = [v EXCEPT !.aae = [v.aae EXCEPT ![m.key] = {m.value}]]
        BY <1>3, <2>3 DEF MutatedVector, Vector
      <3> QED BY <2>2, <3>1 DEF Vector
    <2>4. CASE m.side = "secondary"
      <3>1. MutatedVector(v, m) =
              [v EXCEPT !.secondary = [v.secondary EXCEPT ![m.key] = {m.value}]]
        BY <1>3, <2>4 DEF MutatedVector, Vector
      <3> QED BY <2>2, <3>1 DEF Vector
    <2> QED BY <1>3, <2>3, <2>4
  <1>4. CASE m \in [op : {"set_payload_member"}, payload : Payload]
    BY <1>4 DEF MutatedVector, Vector
  <1>5. CASE m \in [op : {"use_envelope"}, file : SecuredAAE]
    BY <1>5 DEF MutatedVector, Vector
  <1>6. CASE m \in [op : {"resign_token_with_key"}, key : Key, enroll_as : Optional(Kid),
                    null_claims : SUBSET STRING]
    <2>1. Resigned(v.artifact, m) \in Artifact
      BY <1>6, ResignedTyped DEF Vector
    <2>2. MutatedVector(v, m) = [v EXCEPT !.artifact = Resigned(v.artifact, m)]
      BY <1>6 DEF MutatedVector, Vector
    <2> QED BY <2>1, <2>2 DEF Vector
  <1>7. CASE m \in [op : {"tamper_token_signature"}]
    <2>1. Tampered(v.artifact) \in Artifact
      BY TamperedTyped DEF Vector
    <2>2. MutatedVector(v, m) = [v EXCEPT !.artifact = Tampered(v.artifact)]
      BY <1>7 DEF MutatedVector, Vector
    <2> QED BY <2>1, <2>2 DEF Vector
  <1> QED BY <1>1, <1>2, <1>3, <1>4, <1>5, <1>6, <1>7 DEF Mutation

LEMMA MutatedFixtureTyped ==
  ASSUME NEW f \in EnrolledKeys, NEW m \in Mutation
  PROVE  MutatedFixture(f, m) \in EnrolledKeys
  <1>1. ASSUME m.op = "resign_token_with_key"
        PROVE  {[curve |-> "p256", key |-> m.key]} \in Optional(EnrolledKey)
    <2>1. m.key \in Key
      BY <1>1 DEF Mutation
    <2> QED BY <2>1 DEF Optional, EnrolledKey
  <1> QED BY <1>1 DEF MutatedFixture, EnrolledKeys

LEMMA LoadVectorInd ==
  ASSUME Ind, LoadVector
  PROVE  Ind'
  <1>1. PICK b \in DOMAIN Vectors : base' = b /\ Compose(Vectors[b].vector, Fixture)
    BY DEF LoadVector
  <1>2. /\ vector' = Vectors[b].vector /\ fixture' = Fixture /\ control' = NoFault
        /\ pc' = "aae_native" /\ rows' = NoRows /\ before' = NoRows
    BY <1>1 DEF LoadVector, Compose
  <1>3. Input'
    BY <1>1, <1>2, CommittedAssumption DEF Input
  <1>4. Filled'
    BY <1>2 DEF Filled, NoRows, Stages
  <1> QED BY <1>3, <1>4 DEF Ind

LEMMA LoadControlInd ==
  ASSUME Ind, LoadControl
  PROVE  Ind'
  <1>1. PICK c \in DOMAIN Controls :
          /\ Applicable(Vectors[base].vector, Controls[c].mutation)
          /\ control' = c
          /\ Compose(MutatedVector(Vectors[base].vector, Controls[c].mutation),
                     MutatedFixture(Fixture, Controls[c].mutation))
    BY DEF LoadControl
  <1>2. /\ vector' = MutatedVector(Vectors[base].vector, Controls[c].mutation)
        /\ fixture' = MutatedFixture(Fixture, Controls[c].mutation)
        /\ base' = base /\ pc' = "aae_native" /\ rows' = NoRows /\ before' = rows
    BY <1>1 DEF LoadControl, Compose
  <1>3. Input'
    <2>1. base \in DOMAIN Vectors /\ Vectors[base].vector \in Vector
          /\ Controls[c].mutation \in Mutation /\ Fixture \in EnrolledKeys
      BY CommittedAssumption DEF Ind, Input
    <2>2. vector' \in Vector
      BY <1>1, <1>2, <2>1, MutatedTyped
    <2>3. fixture' \in EnrolledKeys
      BY <1>2, <2>1, MutatedFixtureTyped
    <2> QED BY <1>1, <1>2, <2>1, <2>2, <2>3 DEF Input
  <1>4. Filled'
    BY <1>2 DEF Ind, Filled, NoRows, Stages
  <1> QED BY <1>3, <1>4 DEF Ind

LEMMA compare_stagesInd ==
  ASSUME Ind, compare_stages
  PROVE  Ind'
  <1>1. /\ UNCHANGED input /\ rows' = rows /\ before' = before /\ pc' = "compared"
        /\ pc = "composed"
    BY DEF compare_stages
  <1>2. Input'
    BY <1>1, Frame DEF Ind
  <1>3. Outcome'
    BY <1>1, Frame
       DEF Ind, Filled, Outcome, OutcomeNative, OutcomeProof, OutcomeLinkage, OutcomeDecision,
           RowsAre
  <1>4. Filled'
    BY <1>1, <1>3 DEF Ind, Filled, Stages
  <1> QED BY <1>2, <1>4 DEF Ind

LEMMA ProceedInd ==
  ASSUME Ind, Proceed
  PROVE  Ind'
  <1>1. NoCall \in DOMAIN Vectors
    BY CommittedAssumption DEF NoCall
  <1>2. Input'
    BY <1>1, CommittedAssumption DEF Proceed, Input
  <1>3. Filled'
    BY DEF Proceed, Filled, NoRows, Stages
  <1> QED BY <1>2, <1>3 DEF Ind

LEMMA StutterInd ==
  ASSUME Ind, UNCHANGED vars
  PROVE  Ind'
  <1>1. /\ UNCHANGED input /\ rows' = rows /\ before' = before /\ pc' = pc
    BY DEF vars, input
  <1>2. Input'
    BY <1>1, Frame DEF Ind
  <1>3. Outcome' = Outcome
    BY <1>1, Frame
       DEF Outcome, OutcomeNative, OutcomeProof, OutcomeLinkage, OutcomeDecision, RowsAre
  <1>4. Filled'
    BY <1>1, <1>3, Frame DEF Ind, Filled
  <1> QED BY <1>2, <1>4 DEF Ind

LEMMA NextInd ==
  ASSUME Ind, [Next]_vars
  PROVE  Ind'
  BY AaeNativeInd, SecondaryNativeInd, WhatJoinInd, WhoJoinInd, FreshnessInd, DecisionInd,
     LoadVectorInd, LoadControlInd, compare_stagesInd, ProceedInd, StutterInd DEF Next

LEMMA Inductive == Spec => []Ind
  BY InitInd, NextInd, PTL DEF Spec

-----------------------------------------------------------------------------
\* One change.

committed == Vectors[base].vector

\* A row, or a fault, is that of the committed vector where the inputs it is computed of are.
LEMMA SameOperators ==
  /\ Committed!NoFault = NoFault /\ Committed!Uncaught = Uncaught
  /\ \A value, reason : Committed!Row(value, reason) = Row(value, reason)
  /\ \A f, g : Committed!Then(f, g) = Then(f, g)
  /\ \A c, f : Committed!When(c, f) = When(c, f)
  BY DEF Committed!NoFault, NoFault, Committed!Uncaught, Uncaught, Committed!Row, Row,
         Committed!Then, Then, Committed!When, When

LEMMA NativeAlike ==
  ASSUME vector.secured_aae = committed.secured_aae, vector.current_time = committed.current_time
  PROVE  /\ Committed!NativeFault = NativeFault
         /\ Committed!Accepted = Accepted /\ Committed!Rejected = Rejected
  <1>1. Committed!native = native
    BY DEF Committed!native, native, committed
  <1> QED BY <1>1 DEF Committed!NativeFault, NativeFault, Committed!Accepted, Accepted,
                      Committed!Rejected, Rejected, Committed!AaeRow, AaeRow

LEMMA ProofAlike ==
  ASSUME vector.artifact = committed.artifact, vector.current_time = committed.current_time,
         fixture = Fixture
  PROVE  Committed!ProofFault = ProofFault
  BY DEF Committed!ProofFault, ProofFault, committed,
         Committed!verify_psea_proof, verify_psea_proof, Committed!Enrolled, Enrolled,
         Committed!HeaderFault, HeaderFault, Committed!KeyFault, KeyFault,
         Committed!SignatureFault, SignatureFault, Committed!ClaimsFault, ClaimsFault,
         Committed!Undecodable, Undecodable,
         Committed!Then, Then, Committed!When, When, Committed!NoFault, NoFault,
         Committed!Uncaught, Uncaught

LEMMA ReplayAlike ==
  ASSUME vector.artifact = committed.artifact
  PROVE  Committed!ReplayFault = ReplayFault /\ Committed!FreshnessRow = FreshnessRow
  <1>1. Committed!ReplayFault = ReplayFault
    BY DEF Committed!ReplayFault, ReplayFault, committed, Committed!check_replay_claims,
           check_replay_claims, Committed!Then, Then, Committed!When, When,
           Committed!NoFault, NoFault, Committed!Blank, Blank
  <1> QED BY <1>1, SameOperators DEF Committed!FreshnessRow, FreshnessRow

LEMMA LinkageAlike ==
  ASSUME vector.secured_aae = committed.secured_aae, vector.payload = committed.payload,
         vector.aae_digest = committed.aae_digest,
         (vector.secondary_digest = Undecodable) <=> (committed.secondary_digest = Undecodable)
  PROVE  Committed!LinkageFault = LinkageFault
  <1>1. Committed!mandate = mandate
    BY DEF Committed!mandate, mandate, committed
  <1>2. \A b, d : Committed!Bound(b, d) <=> Bound(b, d)
    BY DEF Committed!Bound, Bound
  <1>3. \A q : Committed!check_i_json(q) <=> check_i_json(q)
    BY DEF Committed!check_i_json, check_i_json, Committed!I_JSON, I_JSON
  <1> QED
    BY <1>1, <1>2, <1>3
       DEF Committed!LinkageFault, LinkageFault, committed, Committed!Undecodable, Undecodable,
           Committed!Then, Then, Committed!When, When, Committed!NoFault, NoFault

LEMMA EquivalenceAlike ==
  ASSUME vector.payload = committed.payload, vector.aae_digest = committed.aae_digest,
         vector.secondary_digest = committed.secondary_digest
  PROVE  Committed!Equivalence = Equivalence /\ Committed!LinkageRow = LinkageRow
  <1>1. Committed!Equivalence = Equivalence
    BY DEF Committed!Equivalence, Equivalence, committed, Committed!Then, Then,
           Committed!When, When, Committed!NoFault, NoFault
  <1> QED BY <1>1, SameOperators DEF Committed!LinkageRow, LinkageRow

LEMMA PrincipalAlike ==
  ASSUME vector.secured_aae = committed.secured_aae, vector.artifact = committed.artifact,
         vector.aae = committed.aae, vector.secondary = committed.secondary
  PROVE  /\ Committed!AaeSide = AaeSide /\ Committed!SecondarySide = SecondarySide
         /\ Committed!PrincipalRow = PrincipalRow
  <1>1. Committed!AaeSide = AaeSide /\ Committed!SecondarySide = SecondarySide
    BY DEF Committed!AaeSide, AaeSide, Committed!SecondarySide, SecondarySide, committed,
           Committed!mandate, mandate, Committed!resolve, resolve
  <1> QED BY <1>1, SameOperators DEF Committed!PrincipalRow, PrincipalRow

LEMMA UnmutatedAlike ==
  ASSUME Unmutated
  PROVE  /\ Committed!NativeFault = NativeFault /\ Committed!ProofFault = ProofFault
         /\ Committed!LinkageFault = LinkageFault
         /\ Committed!LinkageRow = LinkageRow /\ Committed!PrincipalRow = PrincipalRow
         /\ Committed!EvidenceRow = EvidenceRow /\ Committed!FreshnessRow = FreshnessRow
         /\ Committed!DecisionRow = DecisionRow
         /\ Committed!Accepted = Accepted /\ Committed!Rejected = Rejected
  <1>1. vector = committed /\ fixture = Fixture
    BY DEF Unmutated, committed
  <1>2. /\ Committed!NativeFault = NativeFault /\ Committed!ProofFault = ProofFault
        /\ Committed!LinkageFault = LinkageFault
        /\ Committed!Accepted = Accepted /\ Committed!Rejected = Rejected
    BY <1>1, NativeAlike, ProofAlike, LinkageAlike
  <1>3. /\ Committed!LinkageRow = LinkageRow /\ Committed!Equivalence = Equivalence
        /\ Committed!ReplayFault = ReplayFault /\ Committed!FreshnessRow = FreshnessRow
    BY <1>1, ReplayAlike, EquivalenceAlike
  <1>4. /\ Committed!AaeSide = AaeSide /\ Committed!SecondarySide = SecondarySide
        /\ Committed!PrincipalRow = PrincipalRow
    BY <1>1, PrincipalAlike
  <1>5. Committed!EvidenceRow = EvidenceRow
    BY <1>3, <1>4, SameOperators DEF Committed!EvidenceRow, EvidenceRow
  <1>6. Committed!AllAgree = AllAgree
    BY <1>3, <1>4, SameOperators DEF Committed!AllAgree, AllAgree
  <1>7. Committed!DecisionRow = DecisionRow
    BY <1>3, <1>4, <1>6, SameOperators DEF Committed!DecisionRow, DecisionRow, Committed!Reason, Reason
  <1> QED BY <1>2, <1>3, <1>4, <1>5, <1>7

\* What is computed of the committed vector is computed of it still.
LEMMA CommittedFrame ==
  ASSUME base' = base
  PROVE  /\ Committed!NativeFault' = Committed!NativeFault
         /\ Committed!ProofFault' = Committed!ProofFault
         /\ Committed!LinkageFault' = Committed!LinkageFault
         /\ Committed!LinkageRow' = Committed!LinkageRow
         /\ Committed!PrincipalRow' = Committed!PrincipalRow
         /\ Committed!EvidenceRow' = Committed!EvidenceRow
         /\ Committed!FreshnessRow' = Committed!FreshnessRow
         /\ Committed!DecisionRow' = Committed!DecisionRow
         /\ Committed!Accepted' = Committed!Accepted
         /\ Committed!Rejected' = Committed!Rejected
  <1>0. Committed!native' = Committed!native
    BY DEF Committed!native
  <1>1. /\ Committed!NativeFault' = Committed!NativeFault
        /\ Committed!ProofFault' = Committed!ProofFault
        /\ Committed!ReplayFault' = Committed!ReplayFault
        /\ Committed!AaeSide' = Committed!AaeSide
        /\ Committed!SecondarySide' = Committed!SecondarySide
        /\ Committed!Accepted' = Committed!Accepted
        /\ Committed!Rejected' = Committed!Rejected
    BY <1>0
       DEF Committed!NativeFault, Committed!Accepted, Committed!Rejected, Committed!AaeRow, Committed!ProofFault, Committed!ReplayFault,
           Committed!AaeSide, Committed!SecondarySide, Committed!mandate
  <1>2. /\ Committed!LinkageFault' = Committed!LinkageFault
        /\ Committed!Equivalence' = Committed!Equivalence
    BY DEF Committed!LinkageFault, Committed!Equivalence, Committed!mandate
  <1>3. Committed!AllAgree' = Committed!AllAgree
    BY <1>1, <1>2 DEF Committed!AllAgree
  <1>4. /\ Committed!LinkageRow' = Committed!LinkageRow
        /\ Committed!PrincipalRow' = Committed!PrincipalRow
        /\ Committed!EvidenceRow' = Committed!EvidenceRow
        /\ Committed!FreshnessRow' = Committed!FreshnessRow
    BY <1>1, <1>2 DEF Committed!LinkageRow, Committed!PrincipalRow, Committed!EvidenceRow,
                      Committed!FreshnessRow
  <1>5. Committed!DecisionRow' = Committed!DecisionRow
    BY <1>3, <1>4 DEF Committed!DecisionRow, Committed!Reason
  <1> QED BY <1>1, <1>2, <1>4, <1>5

\* The rows of a vector composed as committed are those the control is compared with.
LEMMA OutcomeKept ==
  ASSUME Unmutated, Outcome, base' = base, before' = rows
  PROVE  Committed!Outcome'
  <1>1. /\ Committed!NativeFault' = NativeFault /\ Committed!ProofFault' = ProofFault
        /\ Committed!LinkageFault' = LinkageFault
        /\ Committed!LinkageRow' = LinkageRow /\ Committed!PrincipalRow' = PrincipalRow
        /\ Committed!EvidenceRow' = EvidenceRow /\ Committed!FreshnessRow' = FreshnessRow
        /\ Committed!DecisionRow' = DecisionRow
        /\ Committed!Accepted' = Accepted /\ Committed!Rejected' = Rejected
    BY UnmutatedAlike, CommittedFrame
  <1>2. CASE OutcomeNative
    BY <1>1, <1>2
       DEF Committed!Outcome, Committed!OutcomeNative, OutcomeNative, Committed!RowsAre, RowsAre,
           Committed!Row, Row, Committed!NoFault, NoFault, Committed!Uncaught, Uncaught
  <1>3. CASE OutcomeProof
    BY <1>1, <1>3
       DEF Committed!Outcome, Committed!OutcomeProof, OutcomeProof, Committed!RowsAre, RowsAre,
           Committed!Row, Row, Committed!NoFault, NoFault, Committed!Uncaught, Uncaught
  <1>4. CASE OutcomeLinkage
    BY <1>1, <1>4
       DEF Committed!Outcome, Committed!OutcomeLinkage, OutcomeLinkage, Committed!RowsAre,
           RowsAre, Committed!Row, Row, Committed!NoFault, NoFault
  <1>5. CASE OutcomeDecision
    BY <1>1, <1>5
       DEF Committed!Outcome, Committed!OutcomeDecision, OutcomeDecision, Committed!RowsAre,
           RowsAre, Committed!Row, Row, Committed!NoFault, NoFault
  <1> QED BY <1>2, <1>3, <1>4, <1>5 DEF Outcome

LEMMA OriginFrame ==
  ASSUME Origin, UNCHANGED <<input, before>>
  PROVE  Origin'
  <1>1. base' = base /\ control' = control /\ vector' = vector /\ fixture' = fixture
        /\ before' = before
    BY DEF input
  <1>2. Unmutated => Unmutated'
    BY <1>1 DEF Unmutated
  <1>3. Committed!Outcome => Committed!Outcome'
    BY <1>1, CommittedFrame
       DEF Committed!Outcome, Committed!OutcomeNative, Committed!OutcomeProof,
           Committed!OutcomeLinkage, Committed!OutcomeDecision, Committed!RowsAre
  <1>4. Mutated => Mutated'
    BY <1>1, <1>3 DEF Mutated
  <1> QED BY <1>1, <1>2, <1>4 DEF Origin

LEMMA OriginInit == Init => Origin
  BY DEF Init, Origin, Unmutated

LEMMA OriginInd ==
  ASSUME Ind, Origin, [Next]_vars
  PROVE  Origin'
  <1>1. CASE AaeNative \/ SecondaryNative \/ WhatJoin \/ WhoJoin \/ Freshness \/ Decision
    <2>1. UNCHANGED <<input, before>>
      BY <1>1 DEF AaeNative, SecondaryNative, WhatJoin, WhoJoin, Freshness, Decision, Return,
                  Establish, Raise
    <2> QED BY <2>1, OriginFrame
  <1>2. CASE compare_stages \/ UNCHANGED vars
    <2>1. UNCHANGED <<input, before>>
      BY <1>2 DEF compare_stages, vars, input
    <2> QED BY <2>1, OriginFrame
  <1>3. CASE LoadVector \/ Proceed
    BY <1>3 DEF LoadVector, Proceed, Compose, Origin, Unmutated
  <1>4. CASE LoadControl
    <2>1. PICK c \in DOMAIN Controls :
            /\ Applicable(Vectors[base].vector, Controls[c].mutation)
            /\ control' = c
            /\ Compose(MutatedVector(Vectors[base].vector, Controls[c].mutation),
                       MutatedFixture(Fixture, Controls[c].mutation))
      BY <1>4 DEF LoadControl
    <2>2. /\ base' = base /\ before' = rows /\ pc = "compared" /\ control = NoFault
          /\ vector' = MutatedVector(Vectors[base].vector, Controls[c].mutation)
          /\ fixture' = MutatedFixture(Fixture, Controls[c].mutation)
      BY <1>4, <2>1 DEF LoadControl, Compose
    <2>3. Unmutated /\ Outcome
      BY <2>2 DEF Origin, Ind, Filled
    <2>4. Committed!Outcome'
      BY <2>2, <2>3, OutcomeKept
    <2>5. control' # NoFault
      BY <2>1, CommittedAssumption
    <2> QED BY <2>1, <2>2, <2>4, <2>5 DEF Origin, Mutated
  <1> QED BY <1>1, <1>2, <1>3, <1>4 DEF Next

LEMMA OriginInductive == Spec => [](Ind /\ Origin)
  <1>1. Init => Ind /\ Origin
    BY InitInd, OriginInit
  <1>2. Ind /\ Origin /\ [Next]_vars => Ind' /\ Origin'
    BY NextInd, OriginInd
  <1> QED BY <1>1, <1>2, PTL DEF Spec

\* The native row says what verify() found.
LEMMA NativeStated ==
  /\ Outcome => /\ NativeFault # Uncaught
                /\ rows["aae_native"] = IF NativeFault = NoFault THEN Accepted
                                        ELSE Rejected
  /\ Committed!Outcome =>
       /\ Committed!NativeFault # Uncaught
       /\ before["aae_native"] = IF Committed!NativeFault = NoFault THEN Committed!Accepted
                                 ELSE Committed!Rejected
  <1>1. Outcome => /\ NativeFault # Uncaught
                   /\ rows["aae_native"] = IF NativeFault = NoFault THEN Accepted
                                           ELSE Rejected
    BY DEF Outcome, OutcomeNative, OutcomeProof, OutcomeLinkage, OutcomeDecision, RowsAre,
           NoFault, Uncaught
  <1>2. Committed!Outcome =>
          /\ Committed!NativeFault # Uncaught
          /\ before["aae_native"] = IF Committed!NativeFault = NoFault THEN Committed!Accepted
                                    ELSE Committed!Rejected
    BY SameOperators
       DEF Committed!Outcome, Committed!OutcomeNative, Committed!OutcomeProof,
           Committed!OutcomeLinkage, Committed!OutcomeDecision, Committed!RowsAre,
           NoFault, Uncaught
  <1> QED BY <1>1, <1>2

\* Where the faults of the first three groups of checks are the same, so is the outcome.
LEMMA OutcomeAlike ==
  ASSUME Outcome, Committed!Outcome, Committed!NativeFault = NativeFault,
         Committed!ProofFault = ProofFault, Committed!LinkageFault = LinkageFault
  PROVE  /\ Committed!LinkageRow = LinkageRow =>
              before["action_linkage"] = rows["action_linkage"]
         /\ Committed!PrincipalRow = PrincipalRow =>
              before["principal_linkage"] = rows["principal_linkage"]
         /\ Committed!FreshnessRow = FreshnessRow => before["freshness"] = rows["freshness"]
  <1>1. CASE OutcomeNative
    <2>1. Committed!OutcomeNative
      BY <1>1, SameOperators
         DEF OutcomeNative, Committed!Outcome, Committed!OutcomeProof, Committed!OutcomeLinkage,
             Committed!OutcomeDecision
    <2> QED BY <1>1, <2>1, SameOperators
            DEF OutcomeNative, Committed!OutcomeNative, RowsAre, Committed!RowsAre
  <1>2. CASE OutcomeProof
    <2>1. Committed!OutcomeProof
      BY <1>2, SameOperators
         DEF OutcomeProof, Committed!Outcome, Committed!OutcomeNative, Committed!OutcomeLinkage,
             Committed!OutcomeDecision
    <2> QED BY <1>2, <2>1, SameOperators
            DEF OutcomeProof, Committed!OutcomeProof, RowsAre, Committed!RowsAre
  <1>3. CASE OutcomeLinkage
    <2>1. Committed!OutcomeLinkage
      BY <1>3, SameOperators
         DEF OutcomeLinkage, Committed!Outcome, Committed!OutcomeNative, Committed!OutcomeProof,
             Committed!OutcomeDecision
    <2> QED BY <1>3, <2>1, SameOperators
            DEF OutcomeLinkage, Committed!OutcomeLinkage, RowsAre, Committed!RowsAre
  <1>4. CASE OutcomeDecision
    <2>1. Committed!OutcomeDecision
      BY <1>4, SameOperators
         DEF OutcomeDecision, Committed!Outcome, Committed!OutcomeNative, Committed!OutcomeProof,
             Committed!OutcomeLinkage
    <2> QED BY <1>4, <2>1, SameOperators
            DEF OutcomeDecision, Committed!OutcomeDecision, RowsAre, Committed!RowsAre
  <1> QED BY <1>1, <1>2, <1>3, <1>4 DEF Outcome

LEMMA OneChangeHolds ==
  ASSUME Ind, Origin
  PROVE  OneChange
  <1> DEFINE m == Controls[control].mutation
  <1> SUFFICES ASSUME Finished, control # NoFault
               PROVE  /\ m.op \notin {"set_current_time", "use_envelope"} => Same({"aae_native"})
                      /\ m.op = "add_resolution_entry" => Same({"action_linkage", "freshness"})
                      /\ (m.op = "flip_digest_octet" /\ m.target = "secondary_digest") =>
                           Same({"principal_linkage", "freshness"})
    BY DEF OneChange
  <1>1. /\ Applicable(committed, m) /\ vector = MutatedVector(committed, m)
        /\ fixture = MutatedFixture(Fixture, m) /\ Committed!Outcome
    BY DEF Origin, Mutated, committed
  <1>2. Outcome
    BY DEF Ind, Filled, Finished
  <1>3. m \in Mutation /\ committed \in Vector
    BY CommittedAssumption DEF Ind, Input, committed
  <1> HIDE DEF m
  <1>4. ASSUME m.op \notin {"set_current_time", "use_envelope"}
        PROVE  /\ Committed!NativeFault = NativeFault
               /\ Committed!Accepted = Accepted /\ Committed!Rejected = Rejected
    <2>1. vector.secured_aae = committed.secured_aae /\ vector.current_time = committed.current_time
      BY <1>1, <1>3, <1>4 DEF MutatedVector, Mutation, Vector
    <2> QED BY <2>1, NativeAlike
  <1>5. ASSUME m.op \notin {"set_current_time", "use_envelope"}
        PROVE  Same({"aae_native"})
    BY <1>1, <1>2, <1>4, <1>5, NativeStated DEF Same
  <1>6. ASSUME m.op = "add_resolution_entry"
        PROVE  Same({"action_linkage", "freshness"})
    <2>1. /\ vector.secured_aae = committed.secured_aae
          /\ vector.current_time = committed.current_time
          /\ vector.artifact = committed.artifact /\ vector.payload = committed.payload
          /\ vector.aae_digest = committed.aae_digest
          /\ vector.secondary_digest = committed.secondary_digest
          /\ fixture = Fixture
      BY <1>1, <1>3, <1>6 DEF MutatedVector, MutatedFixture, Mutation, Vector
    <2>2. /\ Committed!NativeFault = NativeFault /\ Committed!ProofFault = ProofFault
          /\ Committed!LinkageFault = LinkageFault
          /\ Committed!LinkageRow = LinkageRow /\ Committed!FreshnessRow = FreshnessRow
      BY <2>1, NativeAlike, ProofAlike, LinkageAlike, EquivalenceAlike, ReplayAlike
    <2> QED BY <1>1, <1>2, <2>2, OutcomeAlike DEF Same
  <1>7. ASSUME m.op = "flip_digest_octet", m.target = "secondary_digest"
        PROVE  Same({"principal_linkage", "freshness"})
    <2>1. /\ vector = [committed EXCEPT !.secondary_digest = FlipOctet[committed.secondary_digest]]
          /\ fixture = Fixture /\ committed.secondary_digest # Undecodable
      BY <1>1, <1>3, <1>7 DEF MutatedVector, MutatedFixture, Applicable, Mutation, Vector
    <2>2. vector.secondary_digest # Undecodable
      <3>1. committed.secondary_digest \in Octets
        BY <1>3, <2>1 DEF Vector, Declared
      <3>2. FlipOctet[committed.secondary_digest] \in Octets
        BY <3>1, DataAssumption
      <3>3. vector.secondary_digest = FlipOctet[committed.secondary_digest]
        BY <1>3, <2>1 DEF Vector
      <3> QED BY <3>2, <3>3, DataAssumption
    <2>3. /\ vector.secured_aae = committed.secured_aae
          /\ vector.current_time = committed.current_time
          /\ vector.artifact = committed.artifact /\ vector.payload = committed.payload
          /\ vector.aae_digest = committed.aae_digest
          /\ vector.aae = committed.aae /\ vector.secondary = committed.secondary
      BY <1>3, <2>1 DEF Vector
    <2>4. /\ Committed!NativeFault = NativeFault /\ Committed!ProofFault = ProofFault
          /\ Committed!LinkageFault = LinkageFault
          /\ Committed!PrincipalRow = PrincipalRow /\ Committed!FreshnessRow = FreshnessRow
      BY <2>1, <2>2, <2>3, NativeAlike, ProofAlike, LinkageAlike, PrincipalAlike, ReplayAlike
    <2> QED BY <1>1, <1>2, <2>4, OutcomeAlike DEF Same
  <1> QED BY <1>5, <1>6, <1>7

-----------------------------------------------------------------------------
\* What the rows say.

LEMMA Mandated == (NativeFault = NoFault) <=> A!Mandated
  BY DEF A!Mandated, A!now, NativeFault, native, A!NoFault, NoFault

LEMMA RowSet ==
  ASSUME NEW value, NEW reason, value # "UNSET"
  PROVE  Row(value, reason) # Unset /\ AaeRow(value) # Unset
  BY DEF Row, AaeRow, Unset

LEMMA IndTypeOK == Ind => TypeOK
  <1> SUFFICES ASSUME Ind PROVE TypeOK
    OBVIOUS
  <1>1. ASSUME Outcome, NEW s \in Rows
        PROVE  rows[s] # Unset
    <2>1. CASE OutcomeNative
      BY <2>1, RowSet DEF OutcomeNative, RowsAre, Rows, Rejected
    <2>2. CASE OutcomeProof
      BY <2>2, RowSet DEF OutcomeProof, RowsAre, Rows, Accepted
    <2>3. CASE OutcomeLinkage
      BY <2>3, RowSet DEF OutcomeLinkage, RowsAre, Rows, Accepted
    <2>4. CASE OutcomeDecision
      BY <2>4, RowSet
         DEF OutcomeDecision, RowsAre, Rows, Accepted, LinkageRow, PrincipalRow, EvidenceRow,
             FreshnessRow, DecisionRow
    <2> QED BY <1>1, <2>1, <2>2, <2>3, <2>4 DEF Outcome
  <1> QED BY <1>1 DEF Ind, Input, Filled, TypeOK, Value, Finished

\* The decision, and whether the token is linked, answer Approval's question.
Decided ==
  /\ Value("decision") \in {"AUTHORIZED", "REFUSED"}
  /\ (Value("decision") = "AUTHORIZED" /\ TokenLinked) <=> A!Approved

LEMMA Answered == Ind /\ Outcome => Decided
  <1> SUFFICES ASSUME Ind, Outcome
               PROVE  /\ Value("decision") \in {"AUTHORIZED", "REFUSED"}
                      /\ (Value("decision") = "AUTHORIZED" /\ TokenLinked) <=> A!Approved
    BY DEF Decided
  <1>1. A!Approved <=>
          /\ NativeFault = NoFault /\ ProofFault = NoFault /\ LinkageFault = NoFault
          /\ AllAgree /\ TokenLinked
    BY ApprovedIs DEF Ind
  <1>2. CASE OutcomeNative
    BY <1>1, <1>2 DEF OutcomeNative, RowsAre, Value, Row
  <1>3. CASE OutcomeProof
    BY <1>1, <1>3 DEF OutcomeProof, RowsAre, Value, Row
  <1>4. CASE OutcomeLinkage
    BY <1>1, <1>4 DEF OutcomeLinkage, RowsAre, Value, Row
  <1>5. CASE OutcomeDecision
    BY <1>1, <1>5 DEF OutcomeDecision, RowsAre, Value, Row, DecisionRow
  <1> QED BY <1>2, <1>3, <1>4, <1>5 DEF Outcome

LEMMA PrincipalsJoined ==
  ASSUME Ind, pc \in {"freshness", "decision"}
  PROVE  /\ Value("principal_linkage") \in Values["principal_linkage"]
         /\ (Value("principal_linkage") = "SAME") <=> A!SamePrincipal
         /\ (rows["principal_linkage"].reason = NoFault) <=> A!SamePrincipal
         /\ (Value("evidence_satisfaction") = "SATISFIED") <=>
              (A!SamePrincipal /\ Value("action_linkage") = "EQUIVALENT")
  <1>1. /\ rows["action_linkage"] = LinkageRow /\ rows["principal_linkage"] = PrincipalRow
        /\ rows["evidence_satisfaction"] = EvidenceRow
    BY DEF Ind, Filled
  <1>2. A!SamePrincipal <=> ({} \notin {AaeSide, SecondarySide} /\ AaeSide = SecondarySide)
    BY PrincipalsAgree DEF Ind
  <1>3. (LinkageRow.value = "EQUIVALENT") <=> Equivalence = NoFault
    BY DEF LinkageRow, Row
  <1>4. /\ (PrincipalRow.value = "SAME") <=> A!SamePrincipal
        /\ (PrincipalRow.reason = NoFault) <=> A!SamePrincipal
    BY <1>2 DEF PrincipalRow, Row, NoFault
  <1>5. (EvidenceRow.value = "SATISFIED") <=> (A!SamePrincipal /\ Equivalence = NoFault)
    BY <1>2 DEF EvidenceRow, Row
  <1> QED BY <1>1, <1>3, <1>4, <1>5, RowTyped DEF Value

LEMMA IndIInv == Ind => IInv
  <1> SUFFICES ASSUME Ind PROVE IInv
    OBVIOUS
  <1>1. /\ pc \in Stages \ {"aae_native"} => A!Mandated
        /\ pc \in Stages \ {"aae_native", "secondary_native"} => ProofFault = NoFault
        /\ pc \in {"who_join", "freshness", "decision"} =>
             LinkageFault = NoFault /\ rows["action_linkage"] = LinkageRow
    BY Mandated DEF Ind, Filled
  <1>2. pc = "decision" => ((Value("freshness") = "WELL_FORMED") <=> A!ReplayClaims)
    <2>1. (FreshnessRow.value = "WELL_FORMED") <=> ReplayFault = NoFault
      BY DEF FreshnessRow, Row
    <2> QED BY <2>1, ReplayWellFormed DEF Ind, Filled, Value
  <1>3. Finished => ((Value("decision") = "AUTHORIZED" /\ TokenLinked) <=> A!Approved)
    BY Answered DEF Ind, Filled, Finished, Decided
  <1> QED BY <1>1, <1>2, <1>3, PrincipalsJoined DEF IInv, Reached, ProofFault, LinkageRow

LEMMA IndFacts == Ind => FactsAreEstablished
  <1> SUFFICES ASSUME Ind, Outcome, Stated
               PROVE  /\ A!Mandated /\ A!Authentic
                      /\ vector.artifact.token.claims.psea_payload_hash
                           = {vector.artifact.payload_digest}
                      /\ \E b \in mandate.action_binding : b.payload_digest = vector.aae_digest
    BY DEF FactsAreEstablished, Finished, Ind, Filled
  <1>1. ~OutcomeNative /\ ~OutcomeProof /\ ~OutcomeLinkage
    BY DEF Stated, OutcomeNative, OutcomeProof, OutcomeLinkage, RowsAre, Value, Row
  <1>2. NativeFault = NoFault /\ ProofFault = NoFault /\ LinkageFault = NoFault
    BY <1>1 DEF Outcome, OutcomeDecision
  <1> QED BY <1>2, Mandated, ProofAccepted, BindingNames DEF Ind

LEMMA IndRowsAgree == Ind => RowsAgree
  <1> SUFFICES ASSUME Ind, Outcome, Finished PROVE RowsAgree
    BY DEF RowsAgree, Finished, Ind, Filled
  <1>0. /\ Accepted.value = "ACCEPT" /\ Accepted.reason = NativeFault
        /\ Rejected.value = "REJECT" /\ Rejected.reason = NativeFault
        /\ \A value, reason : Row(value, reason).value = value /\ Row(value, reason).reason = reason
    BY DEF Accepted, Rejected, AaeRow, NativeFault, Row
  <1>1. CASE OutcomeNative
    BY <1>0, <1>1 DEF OutcomeNative, RowsAgree, RowsAre, Value, Rows, Positive, NoFault
  <1>2. CASE OutcomeProof
    BY <1>0, <1>2 DEF OutcomeProof, RowsAgree, RowsAre, Value, Rows, Positive, NoFault
  <1>3. CASE OutcomeLinkage
    BY <1>0, <1>3 DEF OutcomeLinkage, RowsAgree, RowsAre, Value, Rows, Positive, NoFault
  <1>4. CASE OutcomeDecision
    <2> DEFINE same == {} \notin {AaeSide, SecondarySide} /\ AaeSide = SecondarySide
    <2>1. /\ (LinkageRow.reason = NoFault) <=> Equivalence = NoFault
          /\ (LinkageRow.value \in Positive) <=> Equivalence = NoFault
          /\ (LinkageRow.value = "EQUIVALENT") <=> Equivalence = NoFault
      BY DEF LinkageRow, Row, Positive
    <2>2. /\ (PrincipalRow.reason = NoFault) <=> same
          /\ (PrincipalRow.value \in Positive) <=> same
          /\ (PrincipalRow.value = "SAME") <=> same
          /\ PrincipalRow.value = "DIVERGENT" => EvidenceRow.value = "UNSATISFIED"
      BY DEF PrincipalRow, EvidenceRow, Row, Positive, NoFault
    <2>3. /\ (EvidenceRow.reason = NoFault) <=> (same /\ Equivalence = NoFault)
          /\ (EvidenceRow.value \in Positive) <=> (same /\ Equivalence = NoFault)
          /\ (EvidenceRow.value = "SATISFIED") <=> (same /\ Equivalence = NoFault)
      BY DEF EvidenceRow, Row, Positive, NoFault
    <2>4. /\ (FreshnessRow.reason = NoFault) <=> ReplayFault = NoFault
          /\ (FreshnessRow.value \in Positive) <=> ReplayFault = NoFault
      BY DEF FreshnessRow, Row, Positive
    <2>5. /\ (DecisionRow.reason = NoFault) <=> AllAgree
          /\ (DecisionRow.value \in Positive) <=> AllAgree
          /\ (DecisionRow.value = "AUTHORIZED") <=> AllAgree
      <3>1. (Reason = NoFault) <=> AllAgree
        BY <2>1, <2>2, <2>4 DEF Reason, Then, AllAgree
      <3> QED BY <3>1 DEF DecisionRow, Row, Positive
    <2>6. AllAgree <=> (same /\ Equivalence = NoFault /\ ReplayFault = NoFault)
      BY DEF AllAgree
    <2>7. /\ Accepted.reason = NoFault /\ Accepted.value \in Positive /\ Accepted.value = "ACCEPT"
          /\ Row("NONE", NoFault).reason = NoFault /\ Row("NONE", NoFault).value \in Positive
      BY <1>0, <1>4 DEF OutcomeDecision, Positive
    <2> HIDE DEF same
    <2>8. \A s \in Rows : (rows[s].reason = NoFault) <=> (Value(s) \in Positive)
      BY <1>4, <2>1, <2>2, <2>3, <2>4, <2>5, <2>7 DEF OutcomeDecision, RowsAre, Value, Rows
    <2>9. (Value("decision") = "AUTHORIZED") <=>
            (\A s \in Rows \ {"decision"} : Value(s) \in Positive)
      BY <1>4, <2>1, <2>2, <2>3, <2>4, <2>5, <2>6, <2>7
         DEF OutcomeDecision, RowsAre, Value, Rows
    <2>10. /\ (Value("evidence_satisfaction") = "SATISFIED") <=>
                (Value("action_linkage") = "EQUIVALENT" /\ Value("principal_linkage") = "SAME")
           /\ Value("principal_linkage") = "DIVERGENT" =>
                Value("evidence_satisfaction") = "UNSATISFIED"
           /\ Value("aae_native") # "REJECT"
      BY <1>4, <2>1, <2>2, <2>3, <2>7 DEF OutcomeDecision, RowsAre, Value
    <2> QED BY <2>8, <2>9, <2>10 DEF RowsAgree
  <1> QED BY <1>1, <1>2, <1>3, <1>4 DEF Outcome

-----------------------------------------------------------------------------
\* compose() and Approval.

\* A call that is taken up, or goes on, leaves the question open.
LEMMA Pending ==
  ASSUME pc' \in Stages \cup {"idle"}
  PROVE  A!Present
  BY DEF A!Present, LinkedAnswer, Finished, Stages

LEMMA AnsweredNext == Ind' /\ Outcome' => Decided'
  BY Answered, PTL

LEMMA ReturnDecides ==
  ASSUME Ind, Ind', pc \in Stages, NEW filled, Return(filled)
  PROVE  A!Decide
  <1>1. UNCHANGED input /\ pc' = "composed" /\ UNCHANGED <<vector, fixture>>
    BY DEF Return, input
  <1>2. LinkedAnswer = "PENDING"
    BY DEF LinkedAnswer, Finished, Stages
  <1>3. LinkedAnswer' = IF TokenLinked' THEN Value("decision")' ELSE "REFUSED"
    BY <1>1 DEF LinkedAnswer, Finished
  <1>4. Outcome'
    BY <1>1 DEF Ind, Filled
  <1>5. /\ Value("decision")' \in {"AUTHORIZED", "REFUSED"}
        /\ (Value("decision")' = "AUTHORIZED" /\ TokenLinked') <=> A!Approved'
    BY <1>4, AnsweredNext DEF Decided
  <1>6. A!Approved' = A!Approved
    BY <1>1
       DEF A!Approved, A!Mandated, A!Authentic, A!SameAction, A!SamePrincipal, A!ReplayClaims,
           A!token, A!now
  <1> QED BY <1>1, <1>2, <1>3, <1>5, <1>6 DEF A!Decide

\* An exception ends the call where no approval could have been found.
LEMMA RaiseDecides ==
  ASSUME Ind, pc \in Stages, Raise, NativeFault = Uncaught \/ ProofFault = Uncaught
  PROVE  A!Decide
  <1>1. /\ LinkedAnswer = "PENDING" /\ LinkedAnswer' = "EXCEPTION"
        /\ UNCHANGED <<vector, fixture>>
    BY DEF Raise, input, LinkedAnswer, Finished, Stages
  <1>2. ~A!Approved
    BY ApprovedIs DEF Ind, NoFault, Uncaught
  <1> QED BY <1>1, <1>2 DEF A!Decide

LEMMA StepImplements ==
  ASSUME Ind, Ind', [Next]_vars
  PROVE  [A!Next]_(A!avars)
  <1>1. CASE AaeNative
    BY <1>1, RaiseDecides, ReturnDecides, Pending
       DEF AaeNative, NativeFault, Establish, Stages, A!Next
  <1>2. CASE SecondaryNative
    BY <1>2, RaiseDecides, ReturnDecides, Pending
       DEF SecondaryNative, ProofFault, Establish, Stages, A!Next
  <1>3. CASE WhatJoin
    BY <1>3, ReturnDecides, Pending DEF WhatJoin, Establish, Stages, A!Next
  <1>4. CASE WhoJoin
    BY <1>4, WhoJoinRows, Pending DEF Establish, Stages, A!Next
  <1>5. CASE Freshness
    BY <1>5, Pending DEF Freshness, Establish, Stages, A!Next
  <1>6. CASE Decision
    BY <1>6, ReturnDecides DEF Decision, Stages, A!Next
  <1>7. CASE LoadVector
    BY <1>7, Pending DEF LoadVector, Compose, Stages, A!Next
  <1>8. CASE LoadControl
    BY <1>8, Pending DEF LoadControl, Compose, Stages, A!Next
  <1>9. CASE compare_stages
    BY <1>9 DEF compare_stages, input, LinkedAnswer, TokenLinked, Value, Finished, A!avars
  <1>10. CASE Proceed
    BY <1>10, Pending DEF Proceed, A!Next
  <1>11. CASE UNCHANGED vars
    BY <1>11 DEF vars, LinkedAnswer, TokenLinked, Value, Finished, A!avars
  <1> QED
    BY <1>1, <1>2, <1>3, <1>4, <1>5, <1>6, <1>7, <1>8, <1>9, <1>10, <1>11 DEF Next

-----------------------------------------------------------------------------
\* The theorems.

\* Every row reported has a value of its own enum, and none is left out of what compose()
\* returns, however early it returns.
THEOREM TypeCorrect == Spec => []TypeOK
  BY Inductive, IndTypeOK, PTL

\* A stage of compose() runs only on what the stages before it established, and the rows
\* they filled say so.
THEOREM StagesEstablish == Spec => []IInv
  BY Inductive, IndIInv, PTL

\* No row states a fact of an envelope that was not admitted, of a token that is not
\* authentic or of an action the signed envelope does not name.
THEOREM FactsHold == Spec => []FactsAreEstablished
  BY Inductive, IndFacts, PTL

\* The rows compose() returns agree with each other as the interop schema demands.
THEOREM RowsConsistent == Spec => []RowsAgree
  BY Inductive, IndRowsAgree, PTL

\* A control moves only the rows that depend on the input it changes, whatever the committed
\* vector and the change: the rows of the two compositions are compared, stage for stage.
THEOREM ControlsMoveOneInput == Spec => []OneChange
  BY OriginInductive, OneChangeHolds, PTL

\* With the one comparison it leaves out compose() implements Approval: whatever the vectors,
\* the fixture and the native verifier's answers, AUTHORIZED on a token that commits to the
\* digest declared for it says that one principal mandated and approved one action, and
\* nothing else does.
THEOREM ImplementsWhenLinked == Spec => LinkedImplementsApproval
  <1>1. Init => A!Init
    BY DEF Init, A!Init, LinkedAnswer, Finished
  <1> QED
    BY <1>1, Inductive, StepImplements, PTL DEF Spec, LinkedImplementsApproval, A!Spec
=============================================================================
