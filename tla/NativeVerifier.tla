--------------------------- MODULE NativeVerifier ---------------------------
(***************************************************************************)
(* The Section 5 algorithm of examples/python-verify.py: verify(), every   *)
(* check it calls, and the step-9 walk over the delegation chain.  The     *)
(* order of the members of the constraints object is not modelled: where   *)
(* the code stops at the first failing member, any of them may be first.   *)
(***************************************************************************)
EXTENDS Envelopes

VARIABLES
  presented,      \* the AAE and delegation_chain of this call
  ctx,            \* the context of this call
  pc,             \* the check verify() makes next
  node,           \* the ancestor the step-9 loops are at (chain index, 1 = chain[0])
  last_step,      \* last_step of verify()
  verdict         \* what verify() returned or raised

input == <<presented, ctx>>
vars == <<presented, ctx, pc, node, last_step, verdict>>

----------------------------------------------------------------------------
\* A check yields NoFault, the rejection_reason it raises, or Uncaught.

\* The faults a loop over an object's members may stop at.
OneOf(faults) == IF faults \subseteq {NoFault} THEN {NoFault} ELSE faults \ {NoFault}

----------------------------------------------------------------------------
\* The checks on one envelope.

SignatureFault(e) == When(e.signature # "valid", e.signature)

ShapeReason ==
  [s \in Shapes |->
     CASE s = "ok" -> NoFault
       [] s = "payload_not_object" -> "payload_not_object"
       [] s \in {"no_id", "no_issuer"} -> "missing_id_or_issuer"
       [] s \in {"no_subject", "no_subject_id"} -> "missing_credentialSubject"
       [] s \in {"no_aae", "no_mandate", "no_constraints", "no_validity"} ->
            "missing_aae_blocks"]

\* Mutant: the schema check stops at the header.
SchemaFault_CtyOnly(e) == When(~e.cty, "cty_not_aae_json")

SchemaFault(e) == Then(When(~e.cty, "cty_not_aae_json"), ShapeReason[e.shape])

\* vc["credentialSubject"]["aae"]["mandate"] and vc["issuer"] are read unchecked.
AuthorityReads == {"ok", "no_id", "no_subject_id", "no_constraints", "no_validity"}

AuthorityFault(e) ==
  Then(When(e.shape \notin AuthorityReads, Uncaught),
       When(e.signer # e.issuer \/ (e.delegated /\ e.signer # e.delegator_did),
            "signing_authority_mismatch"))

TemporalFault(e) ==
  Then(When(\E t \in e.notBefore \cup e.validFrom : ctx.current_time < t,
            "not_yet_valid_not_before"),
       When(\E t \in e.notAfter : ctx.current_time > t, "expired_not_after"))

ResponsesFor(e) == {r \in ctx.revocation_responses : r.id = e.id}

Indeterminate(e) ==
  \/ ResponsesFor(e) = {}
  \/ \E r \in ResponsesFor(e) : r.http_status >= 500 \/ r.unparseable

RevocationFault(e, revoked_reason) ==
  When(e.revocation_check,
       Then(When(Indeterminate(e), "revocation_status_indeterminate"),
            When(\E r \in ResponsesFor(e) : r.revoked = "true", revoked_reason)))

ShapeFaultOf(t, c) ==
  When(~c.is_object,
       IF t \in RECOGNIZED_CONSTRAINTS THEN "constraint_unevaluable"
                                       ELSE "unrecognized_required_constraint")

ValueShapeFaults(e) ==
  OneOf({ShapeFaultOf(t, e.constraints[t]) : t \in Stated(e)})

----------------------------------------------------------------------------
\* Step 7: the constraints of the presented envelope against the action.

\* A constraint whose attribute the context does not carry is skipped unless required.
Unevaluable(c, attribute) ==
  When(attribute = {} /\ c.required, "constraint_unevaluable")

\* c["value"] is read unchecked.
Unreadable(c, attribute) == When(attribute # {} /\ c.value = {}, Uncaught)

CapFault(c) ==
  Then(Unevaluable(c, ctx.amount),
  Then(When(ctx.amount # {} /\ ctx.currency # c.currency, "currency_mismatch"),
  Then(Unreadable(c, ctx.amount),
       When(\E a \in ctx.amount, v \in c.value : a > v, "max_transaction_value_exceeded"))))

DomainFault(c) ==
  Then(Unevaluable(c, ctx.domain),
       When(~(LowerAll(ctx.domain) \subseteq LowerAll(c.domains)), "domain_not_in_allowlist"))

RateFault(c) ==
  Then(Unevaluable(c, ctx.rate_count),
  Then(Unreadable(c, ctx.rate_count),
       When(\E n \in ctx.rate_count, v \in c.value : n >= v, "rate_limit_exceeded")))

ConstraintFault(t, c) ==
  CASE t \notin RECOGNIZED_CONSTRAINTS -> When(c.required, "unrecognized_required_constraint")
    [] t = "max_transaction_value" -> CapFault(c)
    [] t = "allowed_domains" -> DomainFault(c)
    [] t = "rate_limit" -> RateFault(c)

ConstraintFaults(e) ==
  IF ValueShapeFaults(e) # {NoFault}
  THEN ValueShapeFaults(e)
  ELSE OneOf({ConstraintFault(t, e.constraints[t]) : t \in Stated(e)})

----------------------------------------------------------------------------
\* Step 9: one link, from a child c to its parent p (check_link).

HashFault(c, j) ==
  When(\E h \in c.delegator_aae_hash : h # j, "delegator_aae_hash_mismatch")

\* Mutant: the parent is matched by its id alone.
NameFault_IdOnly(c, p) == When(p.id # c.delegator_aae_id, "delegator_aae_id_mismatch")

NameFault(c, p) ==
  Then(When(p.id # c.delegator_aae_id, "delegator_aae_id_mismatch"),
       When(p.subject # c.delegator_did, "delegator_did_mismatch"))

PolicyFault(p) ==
  When(~p.delegated /\ ~(\E m \in p.policy_max_depth : m >= 0), "delegation_policy_missing")

ActionsFault(c, p) == When(~(c.actions \subseteq p.actions), "delegated_actions_not_subset")

DepthExceeded(e) == \E d \in e.depth, m \in e.max_depth : d > m

\* Mutant: the child's depth is limited, and not compared with the parent's.
DepthFault_LimitOnly(c, p) ==
  Then(When(effective_depth(p) = {}, Uncaught),
  Then(When(\/ c.max_depth = {}
            \/ \E m \in c.max_depth, pm \in effective_max_depth(p) : m > pm,
            "delegation_max_depth_exceeds_parent"),
       When(DepthExceeded(c), "delegation_depth_exceeded")))

\* deleg["depth"] of a delegated parent is read unchecked; of the child, with get().
DepthFault(c, p) ==
  Then(When(effective_depth(p) = {}, Uncaught),
  Then(When(c.depth # {d + 1 : d \in effective_depth(p)}, "delegation_depth_inconsistent"),
  Then(When(\/ c.max_depth = {}
            \/ \E m \in c.max_depth, pm \in effective_max_depth(p) : m > pm,
            "delegation_max_depth_exceeds_parent"),
       When(DepthExceeded(c), "delegation_depth_exceeded"))))

DroppedFault(c, p) ==
  When(\E t \in Stated(p) :
         p.constraints[t].required /\ t \notin Stated(c),
       "required_parent_constraint_dropped")

\* Mutant: a numeric bound is compared in the wrong direction.
NarrowingFault_Reversed(t, ck, pk) ==
  Then(When(t \in CURRENCY_VALUED /\ ck.currency # pk.currency, "delegation_currency_mismatch"),
  Then(When(/\ t \in NUMERIC_UPPER_BOUND
            /\ \E v \in ValueOrZero(ck), w \in ValueOrZero(pk) : v < w,
            "delegated_constraint_relaxed"),
       When(t \in ALLOWLIST_CONSTRAINTS /\ ~(ck.domains \subseteq pk.domains),
            "delegated_allowlist_not_subset")))

\* Mutant: amounts are compared whatever their currency.
NarrowingFault_NoCurrency(t, ck, pk) ==
  Then(When(/\ t \in NUMERIC_UPPER_BOUND
            /\ \E v \in ValueOrZero(ck), w \in ValueOrZero(pk) : v > w,
            "delegated_constraint_relaxed"),
       When(t \in ALLOWLIST_CONSTRAINTS /\ ~(ck.domains \subseteq pk.domains),
            "delegated_allowlist_not_subset"))

NarrowingFault(t, ck, pk) ==
  Then(When(t \in CURRENCY_VALUED /\ ck.currency # pk.currency, "delegation_currency_mismatch"),
  Then(When(/\ t \in NUMERIC_UPPER_BOUND
            /\ \E v \in ValueOrZero(ck), w \in ValueOrZero(pk) : v > w,
            "delegated_constraint_relaxed"),
       When(t \in ALLOWLIST_CONSTRAINTS /\ ~(ck.domains \subseteq pk.domains),
            "delegated_allowlist_not_subset")))

NarrowingFaults(c, p) ==
  OneOf({NarrowingFault(t, c.constraints[t], p.constraints[t]) :
           t \in Stated(c) \cap Stated(p)})

WindowFault(c, p) ==
  When(\/ \E x \in c.notBefore, y \in p.notBefore : x < y
       \/ \E x \in c.notAfter, y \in p.notAfter : x > y,
       "delegated_validity_widened")

\* The checks of one turn of the link loop; j is the parent's JWS and f the fault
\* of the constraints both envelopes state.  mandate["delegation"] of the child is
\* read unchecked.
LinkFault(c, p, j, f) ==
  Then(When(~c.delegated, Uncaught), Then(HashFault(c, j), Then(NameFault(c, p),
  Then(PolicyFault(p), Then(ActionsFault(c, p), Then(DepthFault(c, p),
  Then(DroppedFault(c, p), Then(f, WindowFault(c, p)))))))))

----------------------------------------------------------------------------
\* verify() as a process: one action per step of section 5, per ancestor, per link.

chain == presented.chain
vc == Payload[presented.aae]
OnPath(i) == EnvelopeAt(presented, i)

Pending == [result |-> "PENDING", step |-> 0, reason |-> NoFault]

Raise(fault, step) ==
  /\ pc' = "done"
  /\ verdict' = IF fault = Uncaught
                THEN [result |-> "EXCEPTION", step |-> 0, reason |-> Uncaught]
                ELSE [result |-> "REJECT", step |-> step, reason |-> fault]
  /\ UNCHANGED <<input, node, last_step>>

\* A check that touches neither the loop index nor last_step.
Check(here, fault, step, next) ==
  /\ pc = here
  /\ \/ /\ fault # NoFault
        /\ Raise(fault, step)
     \/ /\ fault = NoFault
        /\ pc' = next
        /\ UNCHANGED <<input, node, last_step, verdict>>

Signature == Check("signature", Then(SignatureFault(vc), AuthorityFault(vc)), 1, "schema")

Schema == Check("schema", SchemaFault(vc), 2, "temporal")

Temporal == Check("temporal", TemporalFault(vc), 3, "binding")

SubjectBinding ==
  Check("binding", When(~ctx.challenge_response_valid, "subject_binding_failed"), 4, "single_use")

SingleUse ==
  Check("single_use",
        When(vc.single_use /\ vc.id \in ctx.consumed_ids, "single_use_already_consumed"),
        5, "action")

Action ==
  Check("action", When(ctx.requested_action \notin vc.actions, "action_not_in_mandate"),
        6, "constraints")

Constraints ==
  /\ pc = "constraints"
  /\ \E fault \in ConstraintFaults(vc) :
       \/ fault # NoFault /\ Raise(fault, 7)
       \/ /\ fault = NoFault
          /\ pc' = "revocation"
          /\ last_step' = 7
          /\ UNCHANGED <<input, node, verdict>>

\* Mutant: step 8 is left to step 9 when there is a chain.
Revocation_UndelegatedOnly ==
  /\ pc = "revocation"
  /\ LET fault == When(~vc.delegated, RevocationFault(vc, "revoked")) IN
       \/ fault # NoFault /\ Raise(fault, 8)
       \/ /\ fault = NoFault
          /\ pc' = "delegation"
          /\ last_step' = IF vc.revocation_check THEN 8 ELSE last_step
          /\ UNCHANGED <<input, node, verdict>>

Revocation ==
  /\ pc = "revocation"
  /\ LET fault == RevocationFault(vc, "revoked") IN
       \/ fault # NoFault /\ Raise(fault, 8)
       \/ /\ fault = NoFault
          /\ pc' = "delegation"
          /\ last_step' = IF vc.revocation_check THEN 8 ELSE last_step
          /\ UNCHANGED <<input, node, verdict>>

\* Mutant: the walk starts one past the immediate parent.
Delegation_OffByOne ==
  /\ pc = "delegation"
  /\ pc' = IF ~vc.delegated THEN "accept"
           ELSE IF Len(chain) = 0 THEN "cycle" ELSE "ancestor"
  /\ node' = Len(chain) + 1
  /\ UNCHANGED <<input, last_step, verdict>>

\* Enters verify_delegation() at the immediate parent, or leaves the algorithm.
Delegation ==
  /\ pc = "delegation"
  /\ pc' = IF ~vc.delegated THEN "accept"
           ELSE IF Len(chain) = 0 THEN "cycle" ELSE "ancestor"
  /\ node' = Len(chain)
  /\ UNCHANGED <<input, last_step, verdict>>

\* Mutant: the walk checks the ancestors without asking for their revocation status.
AncestorFault_NoRevocation(e, f) ==
  Then(SignatureFault(e), Then(SchemaFault(e), Then(f, Then(AuthorityFault(e),
       TemporalFault(e)))))

\* Mutant: the walk makes steps 1 and 2 of an ancestor in the order of verify().
AncestorFault_AuthorityFirst(e, f) ==
  Then(SignatureFault(e), Then(AuthorityFault(e), Then(SchemaFault(e), Then(f,
  Then(TemporalFault(e), RevocationFault(e, "ancestor_revoked"))))))

\* The checks of one ancestor; f is the fault of its constraint value shapes.
AncestorFault(e, f) ==
  Then(SignatureFault(e), Then(SchemaFault(e), Then(f, Then(AuthorityFault(e),
  Then(TemporalFault(e), RevocationFault(e, "ancestor_revoked"))))))

\* One turn of the first loop: the ancestor's own signature, schema, shapes,
\* signing authority, window and revocation status.
VerifyAncestor ==
  /\ pc = "ancestor"
  /\ \E f \in ValueShapeFaults(OnPath(node)) :
       LET fault == AncestorFault(OnPath(node), f) IN
       \/ fault # NoFault /\ Raise(fault, 9)
       \/ /\ fault = NoFault
          /\ node' = node - 1
          /\ pc' = IF node = 1 THEN "cycle" ELSE "ancestor"
          /\ UNCHANGED <<input, last_step, verdict>>

\* Mutant: the presented envelope is left out of the path.
Cycle_AncestorsOnly ==
  Check("cycle",
        When(\E i, k \in 1..Len(chain) : i # k /\ OnPath(i).id = OnPath(k).id,
             "delegation_cycle_detected"), 9, "limit")

Cycle ==
  Check("cycle",
        When(\E i, k \in 1..Last(presented) : i # k /\ OnPath(i).id = OnPath(k).id,
             "delegation_cycle_detected"), 9, "limit")

\* The presented envelope's own limit; deleg["depth"], deleg["max_depth"] unchecked.
LimitFault(e) ==
  Then(When(e.depth = {} \/ e.max_depth = {}, Uncaught),
       When(DepthExceeded(e), "delegation_depth_exceeded"))

Limit ==
  /\ pc = "limit"
  /\ LET fault == LimitFault(vc) IN
       \/ fault # NoFault /\ Raise(fault, 9)
       \/ /\ fault = NoFault
          /\ node' = Len(chain)
          /\ pc' = IF Len(chain) = 0 THEN "delegation_done" ELSE "link"
          /\ UNCHANGED <<input, last_step, verdict>>

\* One turn of the second loop: the link from node + 1 up to node.
VerifyLink ==
  /\ pc = "link"
  /\ \E f \in NarrowingFaults(OnPath(node + 1), OnPath(node)) :
       LET fault == LinkFault(OnPath(node + 1), OnPath(node), chain[node], f) IN
       \/ fault # NoFault /\ Raise(fault, 9)
       \/ /\ fault = NoFault
          /\ node' = node - 1
          /\ pc' = IF node = 1 THEN "delegation_done" ELSE "link"
          /\ UNCHANGED <<input, last_step, verdict>>

DelegationDone ==
  /\ pc = "delegation_done"
  /\ pc' = "accept"
  /\ last_step' = 9
  /\ UNCHANGED <<input, node, verdict>>

Accept ==
  /\ pc = "accept"
  /\ pc' = "done"
  /\ verdict' = [result |-> "ACCEPT", step |-> last_step, reason |-> NoFault]
  /\ UNCHANGED <<input, node, last_step>>

Init ==
  /\ \E call \in Calls : presented = call.presented /\ ctx = call.ctx
  /\ pc = "signature"
  /\ node = 0
  /\ last_step = 0
  /\ verdict = Pending

Next ==
  \/ Signature \/ Schema \/ Temporal \/ SubjectBinding \/ SingleUse \/ Action
  \/ Constraints \/ Revocation \/ Delegation \/ VerifyAncestor \/ Cycle \/ Limit
  \/ VerifyLink \/ DelegationDone \/ Accept

Spec == Init /\ [][Next]_vars
=============================================================================
