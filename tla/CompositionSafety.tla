-------------------------- MODULE CompositionSafety --------------------------
(***************************************************************************)
(* What the eight rows of a composition may say.                           *)
(***************************************************************************)
EXTENDS Composition

Stages == {"aae_native", "secondary_native", "what_join", "who_join", "freshness", "decision"}
Finished == pc \in {"composed", "compared"}

Value(s) == rows[s].value
Values ==
  [aae_native |-> {"ACCEPT", "REJECT"},
   action_linkage |-> {"EQUIVALENT", "NOT_EQUIVALENT", "INDETERMINATE"},
   principal_linkage |-> {"SAME", "DIVERGENT", "UNRESOLVED"},
   evidence_satisfaction |-> {"SATISFIED", "UNSATISFIED", "NOT_EVALUATED"},
   freshness |-> {"WELL_FORMED", "CLAIMS_MALFORMED", "NOT_EVALUATED"},
   decision |-> {"AUTHORIZED", "REFUSED"},
   admission |-> {"NONE"}, outcome |-> {"NONE"}]
Positive ==
  {"ACCEPT", "EQUIVALENT", "SAME", "SATISFIED", "WELL_FORMED", "AUTHORIZED", "NONE"}

\* The comparison that compose() does not make: what the token commits to is the digest
\* declared for its side of the join.
TokenLinked == vector.artifact.payload_digest = vector.secondary_digest

\* What Approval would call the answer of a compose() that made it.
LinkedAnswer ==
  IF Finished THEN IF TokenLinked THEN Value("decision") ELSE "REFUSED"
  ELSE IF pc = "raised" THEN "EXCEPTION" ELSE "PENDING"

A == INSTANCE Approval WITH vector <- vector, fixture <- fixture, decision <- LinkedAnswer

\* Every row that is reported has a value of its own closed enum; "every row is always
\* present" (compose()), however early it returns.
TypeOK ==
  /\ vector \in Vector
  /\ fixture \in EnrolledKeys
  /\ base \in DOMAIN Vectors
  /\ control \in DOMAIN Controls \cup {NoFault}
  /\ pc \in Stages \cup {"composed", "compared", "raised", "idle"}
  /\ DOMAIN rows = Rows /\ DOMAIN before = Rows
  /\ \A s \in Rows : rows[s] = Unset \/ Value(s) \in Values[s]
  /\ Finished => \A s \in Rows : rows[s] # Unset

\* The vector goes on only with what the stages behind it have established.
Reached(stages) == pc \in stages
IInv ==
  /\ Reached(Stages \ {"aae_native"}) => A!Mandated
  /\ Reached(Stages \ {"aae_native", "secondary_native"}) =>
       verify_psea_proof(vector.artifact, fixture, vector.current_time) = NoFault
  /\ Reached({"who_join", "freshness", "decision"}) =>
       /\ LinkageFault = NoFault
       /\ rows["action_linkage"] =
            IF Equivalence = NoFault THEN Row("EQUIVALENT", NoFault)
                                     ELSE Row("NOT_EQUIVALENT", Equivalence)
  /\ Reached({"freshness", "decision"}) =>
       /\ Value("principal_linkage") \in Values["principal_linkage"]
       /\ (Value("principal_linkage") = "SAME") <=> A!SamePrincipal
       /\ (rows["principal_linkage"].reason = NoFault) <=> A!SamePrincipal
       /\ (Value("evidence_satisfaction") = "SATISFIED") <=>
            (A!SamePrincipal /\ Value("action_linkage") = "EQUIVALENT")
  /\ Reached({"decision"}) =>
       ((Value("freshness") = "WELL_FORMED") <=> A!ReplayClaims)
  /\ Finished => ((Value("decision") = "AUTHORIZED" /\ TokenLinked) <=> A!Approved)

\* A row states a fact, for or against, only of a grant that was admitted, a token that is
\* authentic and an action that the signed envelope names; every early return of
\* compose() leaves the rows below it not established.
Stated ==
  \/ Value("action_linkage") \in {"EQUIVALENT", "NOT_EQUIVALENT"}
  \/ Value("principal_linkage") \in {"SAME", "DIVERGENT"}
  \/ Value("evidence_satisfaction") = "SATISFIED"
  \/ Value("freshness") \in {"WELL_FORMED", "CLAIMS_MALFORMED"}
FactsAreEstablished ==
  Finished /\ Stated =>
    /\ A!Mandated
    /\ A!Authentic
    /\ vector.artifact.token.claims.psea_payload_hash = {vector.artifact.payload_digest}
    /\ \E b \in mandate.action_binding : b.payload_digest = vector.aae_digest

\* The rows agree with each other as the interop schema demands of every expected result
\* and as the docstring explains: a refusal is located by a reason on the row that produced
\* it, a conflict and a missing input stay apart, and evidence is satisfied only for the
\* same action by the same principal.
RowsAgree ==
  Finished =>
    /\ \A s \in Rows : (rows[s].reason = NoFault) <=> (Value(s) \in Positive)
    /\ (Value("decision") = "AUTHORIZED") <=>
         (\A s \in Rows \ {"decision"} : Value(s) \in Positive)
    /\ (Value("evidence_satisfaction") = "SATISFIED") <=>
         (Value("action_linkage") = "EQUIVALENT" /\ Value("principal_linkage") = "SAME")
    /\ Value("principal_linkage") = "DIVERGENT" => Value("evidence_satisfaction") = "UNSATISFIED"
    /\ Value("aae_native") = "REJECT" =>
         /\ Value("action_linkage") = "INDETERMINATE"
         /\ Value("principal_linkage") = "UNRESOLVED"
         /\ Value("evidence_satisfaction") = "NOT_EVALUATED"
         /\ Value("freshness") = "NOT_EVALUATED"

\* A control that changes one input moves only rows that depend on it: an entry of the
\* resolution table leaves the action and the freshness, another digest on the other side
\* leaves the principals and the freshness, and nothing in the token, the tables or the
\* declared digests reaches the native row.
Same(S) == \A s \in S : rows[s] = before[s]
OneChange ==
  Finished /\ control # NoFault /\ before["decision"] # Unset =>
    LET m == Controls[control].mutation IN
    /\ m.op \notin {"set_current_time", "use_envelope"} => Same({"aae_native"})
    /\ m.op = "add_resolution_entry" => Same({"action_linkage", "freshness"})
    /\ (m.op = "flip_digest_octet" /\ m.target = "secondary_digest") =>
         Same({"principal_linkage", "freshness"})

\* composition-verify.py reproduces the rows of every committed vector, and
\* run_negative_controls.py those of every committed control.
BaselineAgrees ==
  DOMAIN expected = Rows =>
    /\ pc # "raised"
    /\ pc = "compared" => diffs = {}

\* With the one comparison it leaves out, compose() would answer exactly what Approval asks:
\* AUTHORIZED if and only if the same principal mandated and approved the payload's action.
\* It ties the digest that is signed and recorded with the token to the three that are
\* compared with the payload's; nothing else is left untied.
LinkedImplementsApproval == A!Spec

----------------------------------------------------------------------------
\* Said of the join, and not so; see the findings.

\* interop/psea/CONFORMANCE.md: "join_what.secondary_digest has to match psea_payload_hash
\* inside the ES256-verified token".  No token that approves another action authorizes one.
ApprovedThisAction ==
  Finished /\ Value("decision") = "AUTHORIZED" => A!SameAction
=============================================================================
