------------------------ MODULE NativeVerifierSafety ------------------------
(***************************************************************************)
(* What verify() is checked and proved to guarantee, the inductive         *)
(* invariant behind it, and what the repository says of verify() that does *)
(* not hold.                                                               *)
(***************************************************************************)
EXTENDS NativeVerifier

----------------------------------------------------------------------------
\* Correctness.

\* The control state, the loop index and the verdict stay in range, and the verdict is
\* given exactly when verify() has ended.
TypeOK ==
  /\ presented \in Presentation
  /\ ctx \in Context
  /\ pc \in {"signature", "schema", "temporal", "binding", "single_use", "action",
             "constraints", "revocation", "delegation", "ancestor", "cycle", "limit",
             "link", "delegation_done", "accept", "done"}
  /\ node \in 0..Len(chain)
  /\ pc \in {"ancestor", "link"} => node # 0
  /\ last_step \in {0, 7, 8, 9}
  /\ verdict.result \in {"PENDING", "ACCEPT", "REJECT", "EXCEPTION"}
  /\ pc = "done" <=> verdict.result # "PENDING"

A == INSTANCE Authorization

Accepted == verdict.result = "ACCEPT"

\* No ancestor of an accepted presentation is forged, out of its window, revoked,
\* of unknown status, or without the requested action: verify() compares actions
\* link by link only, and looks at the window and the status of each ancestor once.
AcceptedByEveryAncestor == Accepted /\ vc.delegated => A!AncestorsConcur

\* An accepted path is a chain of custody: each envelope names its parent, is signed
\* by its parent's subject, and occurs once.  It takes check_signing_authority() on
\* the child, check_link() on the pair and the cycle check together.
AcceptedCustody == Accepted /\ vc.delegated => A!Custody

\* The depth of an accepted delegation is the number of links above it, and no
\* ancestor's max_depth is exceeded, although each link is compared with its own
\* parent only.
AcceptedDepth == Accepted /\ vc.delegated => A!DepthCounted

\* The amount and the domain stay within the cap and the allowlist of an ancestor
\* however far up, unless an envelope in between leaves the constraint out.
AcceptedLimits == Accepted /\ vc.delegated => A!LimitsHold

\* The faults section 5 step s may raise on this call.
StepFaults(s) ==
  CASE s = 1 -> {Then(SignatureFault(vc), AuthorityFault(vc))}
    [] s = 2 -> {SchemaFault(vc)}
    [] s = 3 -> {TemporalFault(vc)}
    [] s = 4 -> {When(~ctx.challenge_response_valid, "subject_binding_failed")}
    [] s = 5 -> {When(vc.single_use /\ vc.id \in ctx.consumed_ids, "single_use_already_consumed")}
    [] s = 6 -> {When(ctx.requested_action \notin vc.actions, "action_not_in_mandate")}
    [] s = 7 -> ConstraintFaults(vc)
    [] s = 8 -> {RevocationFault(vc, "revoked")}

Passes(s) == StepFaults(s) = {NoFault}

PassesBefore(n) == \A s \in 1..8 : s < n => Passes(s)

\* verification_step is the first step that fails, and an acceptance skips none: (result,
\* step) is what vectors are compared by, so a check made early or late misclassifies them.
StepIsFirstFailure ==
  /\ verdict.result \in {"ACCEPT", "REJECT"} => PassesBefore(IF Accepted THEN 9 ELSE verdict.step)
  /\ verdict.result = "REJECT" =>
       /\ verdict.step \in 1..9
       /\ \A s \in 1..8 : s = verdict.step => verdict.reason \in StepFaults(s)

\* An uncaught exception has one of four causes: a signature that cannot be decoded, a member
\* the presented envelope lacks and step 1 reads before step 2 looks for it, a bound without
\* a value, or a path whose depths cannot be read.  Step 9 takes the two checks in the other
\* order: a malformed ancestor is rejected, however far up it is, and never raises.
OnlyGapsRaise ==
  verdict.result = "EXCEPTION" =>
    \/ \E i \in 1..Last(presented) : OnPath(i).signature = Uncaught
    \/ vc.shape # "ok"
    \/ \E t \in Stated(vc) \cap {"max_transaction_value", "rate_limit"} :
         vc.constraints[t].value = {}
    \/ /\ vc.delegated
       /\ \/ vc.max_depth = {}
          \/ \E i \in 1..Last(presented) : effective_depth(OnPath(i)) = {}
          \/ \E i \in 2..Last(presented) : ~OnPath(i).delegated

\* verify() implements Authorization: one decision, and ACCEPT only where the whole
\* path authorizes the action.
ImplementsAuthorization == A!Spec

----------------------------------------------------------------------------
\* The inductive invariant: what each check that was passed leaves known.

Steps1to8 == {"signature", "schema", "temporal", "binding", "single_use", "action",
              "constraints", "revocation"}
Walk == {"ancestor", "cycle", "limit", "link", "delegation_done"}

\* verify() has passed every check up to those in S, and raised nothing.
Past(S) == IF pc = "done" THEN Accepted ELSE pc \notin S

\* The envelope is signed by its issuer, and for a delegation by the delegator.
Signed(e) == A!Genuine(e) /\ (e.delegated => e.signer = e.delegator_did)

\* The action of the context is within the limits e states.
WithinCap(e) ==
  LET k == e.constraints["max_transaction_value"] IN
  \A a \in ctx.amount, v \in ValueOrZero(k) : a <= v /\ ctx.currency = k.currency
WithinList(e) ==
  LowerAll(ctx.domain) \subseteq LowerAll(e.constraints["allowed_domains"].domains)

LeafSigned ==
  /\ vc.signature = "valid" /\ vc.signer = vc.issuer
  /\ vc.delegated => vc.signer = vc.delegator_did
LeafWellFormed == vc.cty /\ vc.shape = "ok"
LeafInWindow == A!InWindow(vc)
LeafGrants == ctx.requested_action \in vc.actions
LeafWithin ==
  /\ vc.constraints["max_transaction_value"].stated => WithinCap(vc)
  /\ vc.constraints["allowed_domains"].stated => WithinList(vc)
LeafNotRevoked == A!NotRevoked(vc)

LeafKnown ==
  /\ Past({"signature"}) => LeafSigned
  /\ Past({"signature", "schema"}) => LeafWellFormed
  /\ Past({"signature", "schema", "temporal"}) => LeafInWindow
  /\ Past(Steps1to8 \ {"constraints", "revocation"}) => LeafGrants
  /\ Past(Steps1to8 \ {"revocation"}) => LeafWithin
  /\ Past(Steps1to8) => LeafNotRevoked

\* Ancestors above position n have passed the first loop, or the second.
Verified(n) ==
  \A i \in (n + 1)..Len(chain) :
    Signed(OnPath(i)) /\ A!InWindow(OnPath(i)) /\ A!NotRevoked(OnPath(i))

Joined(i) ==
  /\ vc.actions \subseteq OnPath(i).actions
  /\ OnPath(i + 1).signer = OnPath(i).subject
  /\ OnPath(i + 1).delegator_aae_id = OnPath(i).id
  /\ vc.depth = {d + (Last(presented) - i) : d \in effective_depth(OnPath(i))}
  /\ \A d \in vc.depth, m \in effective_max_depth(OnPath(i)) : d <= m
  /\ A!Held("max_transaction_value", i) => WithinCap(OnPath(i))
  /\ A!Held("allowed_domains", i) => WithinList(OnPath(i))

Linked(n) == \A i \in (n + 1)..Len(chain) : Joined(i)

PathDistinct == \A i, k \in 1..Last(presented) : i # k => OnPath(i).id # OnPath(k).id

LeafLimited == vc.max_depth # {} /\ \A d \in vc.depth, m \in vc.max_depth : d <= m

WalkKnown ==
  /\ pc \in Walk => vc.delegated
  /\ pc = "ancestor" => Verified(node)
  /\ vc.delegated /\ Past(Steps1to8 \cup {"delegation", "ancestor"}) => Verified(0)
  /\ vc.delegated /\ Past(Steps1to8 \cup {"delegation", "ancestor", "cycle"}) => PathDistinct
  /\ pc = "link" => Linked(node) /\ LeafLimited
  /\ vc.delegated /\ Past(Steps1to8 \cup {"delegation", "ancestor", "cycle", "limit", "link"}) =>
       Linked(0)

\* The steps before the one verify() is at have passed.
StepAt ==
  [signature |-> 1, schema |-> 2, temporal |-> 3, binding |-> 4, single_use |-> 5, action |-> 6,
   constraints |-> 7, revocation |-> 8]

StepsKnown == pc # "done" => PassesBefore(IF pc \in Steps1to8 THEN StepAt[pc] ELSE 9)

IInv == TypeOK /\ LeafKnown /\ WalkKnown /\ StepsKnown

----------------------------------------------------------------------------
\* What the repository says of verify() and verify() does not do; see the findings.

\* docs/CONFORMANCE.md: "Nodes are indexed from the root (node 0 = root AAE, the
\* presented AAE = the highest index)".
NodeZeroIsRoot == Accepted /\ vc.delegated => chain # <<>> /\ ~OnPath(1).delegated

\* README.md, of the delegation checks: they "compare the presented AAE and its chain
\* (actions subset, numeric/currency/allowlist monotonicity, depth, cycle)".  A cap its
\* ancestor requires still binds the presented envelope.
RequiredCapBinds ==
  Accepted /\ vc.delegated =>
    \A i \in 1..Len(chain) :
      LET k == OnPath(i).constraints["max_transaction_value"] IN
      k.stated /\ k.required => \A a \in ctx.amount, v \in k.value : a <= v
=============================================================================
