------------------------- MODULE NativeVerifierProofs -------------------------
(***************************************************************************)
(* What NativeVerifier guarantees for every set of envelopes, chain and    *)
(* context: its type invariant, that an acceptance is an authorization in  *)
(* the sense of module Authorization, and that a rejection names the first *)
(* step that fails.                                                        *)
(***************************************************************************)
EXTENDS NativeVerifierSafety, TLAPS

LEMMA InitType == Init => TypeOK
  BY CallsAssumption DEF Init, TypeOK, Pending, chain, Presentation

LEMMA RaiseType ==
  ASSUME TypeOK, pc # "done", NEW fault, NEW step, Raise(fault, step)
  PROVE  TypeOK'
  BY DEF TypeOK, Raise, input, chain, Uncaught

LEMMA StepType == TypeOK /\ [Next]_vars => TypeOK'
<1> SUFFICES ASSUME TypeOK, [Next]_vars PROVE TypeOK'
  OBVIOUS
<1> USE DEF TypeOK, chain, input
<1>1. ASSUME NEW here, NEW fault, NEW step, NEW next, Check(here, fault, step, next),
             here # "done",
             next \in {"schema", "temporal", "binding", "single_use", "action",
                       "constraints", "limit"}
      PROVE  TypeOK'
  BY <1>1, RaiseType DEF Check
<1>2. CASE Signature  BY <1>1, <1>2 DEF Signature
<1>3. CASE Schema  BY <1>1, <1>3 DEF Schema
<1>4. CASE Temporal  BY <1>1, <1>4 DEF Temporal
<1>5. CASE SubjectBinding  BY <1>1, <1>5 DEF SubjectBinding
<1>6. CASE SingleUse  BY <1>1, <1>6 DEF SingleUse
<1>7. CASE Action  BY <1>1, <1>7 DEF Action
<1>8. CASE Cycle  BY <1>1, <1>8 DEF Cycle
<1>9. CASE Constraints  BY <1>9, RaiseType DEF Constraints
<1>10. CASE Revocation  BY <1>10, RaiseType DEF Revocation
<1>11. CASE Delegation  BY <1>11 DEF Delegation, Presentation
<1>12. CASE VerifyAncestor  BY <1>12, RaiseType DEF VerifyAncestor, Presentation
<1>13. CASE Limit  BY <1>13, RaiseType DEF Limit, Presentation
<1>14. CASE VerifyLink  BY <1>14, RaiseType DEF VerifyLink, Presentation
<1>15. CASE DelegationDone  BY <1>15 DEF DelegationDone
<1>16. CASE Accept  BY <1>16 DEF Accept
<1>17. CASE UNCHANGED vars  BY <1>17 DEF vars
<1> QED
  BY <1>2, <1>3, <1>4, <1>5, <1>6, <1>7, <1>8, <1>9, <1>10, <1>11, <1>12, <1>13, <1>14,
     <1>15, <1>16, <1>17 DEF Next

\* The control state of verify() stays in range and it answers exactly at its end.
THEOREM TypeCorrect == Spec => []TypeOK
<1>1. Init => TypeOK  BY InitType
<1>2. TypeOK /\ [Next]_vars => TypeOK'  BY StepType
<1> QED  BY <1>1, <1>2, PTL DEF Spec

----------------------------------------------------------------------------
\* What a check that passed says of the envelope.

LEMMA SignaturePassed ==
  ASSUME NEW e \in Envelope, Then(SignatureFault(e), AuthorityFault(e)) = NoFault
  PROVE  /\ e.signature = "valid" /\ e.signer = e.issuer
         /\ e.delegated => e.signer = e.delegator_did
  BY DEF Then, When, SignatureFault, AuthorityFault, NoFault, Uncaught, Envelope,
         SignatureOutcomes

LEMMA SchemaPassed ==
  ASSUME NEW e \in Envelope, SchemaFault(e) = NoFault
  PROVE  e.cty /\ e.shape = "ok"
  BY DEF Then, When, SchemaFault, ShapeReason, NoFault, Envelope, Shapes

LEMMA TemporalPassed ==
  ASSUME NEW e \in Envelope, ctx \in Context, TemporalFault(e) = NoFault
  PROVE  A!InWindow(e)
  BY DEF Then, When, TemporalFault, NoFault, Envelope, Context, A!InWindow

LEMMA RevocationPassed ==
  ASSUME NEW e \in Envelope, ctx \in Context, NEW reason, reason # NoFault,
         RevocationFault(e, reason) = NoFault
  PROVE  A!NotRevoked(e)
  BY DEF Then, When, RevocationFault, Indeterminate, ResponsesFor, NoFault, Envelope, Context,
         Response, A!NotRevoked

LEMMA OneOfPassed ==
  ASSUME NEW S, NoFault \in OneOf(S)
  PROVE  \A f \in S : f = NoFault
  BY DEF OneOf, NoFault

LEMMA CapPassed ==
  ASSUME NEW c \in Constraint, ctx \in Context, CapFault(c) = NoFault
  PROVE  \A a \in ctx.amount, v \in ValueOrZero(c) : a <= v /\ ctx.currency = c.currency
<1> SUFFICES ASSUME NEW a \in ctx.amount, NEW v \in ValueOrZero(c)
             PROVE  a <= v /\ ctx.currency = c.currency
  OBVIOUS
<1>1. ctx.currency = c.currency /\ c.value # {} /\ ~(\E x \in ctx.amount, y \in c.value : x > y)
  BY DEF CapFault, Then, When, Unevaluable, Unreadable, NoFault, Uncaught
<1>2. v \in c.value /\ v \in Int /\ a \in Int
  BY <1>1 DEF ValueOrZero, Constraint, Context
<1> QED
  BY <1>1, <1>2

LEMMA DomainPassed ==
  ASSUME NEW c, DomainFault(c) = NoFault
  PROVE  LowerAll(ctx.domain) \subseteq LowerAll(c.domains)
  BY DEF DomainFault, Then, When, Unevaluable, NoFault

LEMMA ConstraintsPassed ==
  ASSUME NEW e \in Envelope, ctx \in Context, NoFault \in ConstraintFaults(e)
  PROVE  /\ e.constraints["max_transaction_value"].stated => WithinCap(e)
         /\ e.constraints["allowed_domains"].stated => WithinList(e)
<1>1. \A t \in Stated(e) : ConstraintFault(t, e.constraints[t]) = NoFault
  <2>1. ValueShapeFaults(e) = {NoFault}
    BY DEF ConstraintFaults, ValueShapeFaults, OneOf
  <2>2. NoFault \in OneOf({ConstraintFault(t, e.constraints[t]) : t \in Stated(e)})
    BY <2>1 DEF ConstraintFaults
  <2>3. \A f \in {ConstraintFault(t, e.constraints[t]) : t \in Stated(e)} : f = NoFault
    BY <2>2, OneOfPassed
  <2> QED
    BY <2>3
<1>2. ASSUME e.constraints["max_transaction_value"].stated PROVE WithinCap(e)
  <2>1. /\ "max_transaction_value" \in Stated(e)
        /\ e.constraints["max_transaction_value"] \in Constraint
    BY <1>2 DEF Stated, ConstraintTypes, RECOGNIZED_CONSTRAINTS, Envelope
  <2>2. CapFault(e.constraints["max_transaction_value"]) = NoFault
    BY <1>1, <2>1 DEF ConstraintFault, RECOGNIZED_CONSTRAINTS
  <2> QED
    BY <2>1, <2>2, CapPassed DEF WithinCap
<1>3. ASSUME e.constraints["allowed_domains"].stated PROVE WithinList(e)
  <2>1. "allowed_domains" \in Stated(e)
    BY <1>3 DEF Stated, ConstraintTypes, RECOGNIZED_CONSTRAINTS
  <2>2. DomainFault(e.constraints["allowed_domains"]) = NoFault
    BY <1>1, <2>1 DEF ConstraintFault, RECOGNIZED_CONSTRAINTS
  <2> QED
    BY <2>2, DomainPassed DEF WithinList
<1> QED
  BY <1>2, <1>3

LEMMA AncestorPassed ==
  ASSUME NEW e \in Envelope, ctx \in Context, NEW f, AncestorFault(e, f) = NoFault
  PROVE  Signed(e) /\ A!InWindow(e) /\ A!NotRevoked(e)
<1>1. /\ Then(SignatureFault(e), AuthorityFault(e)) = NoFault
      /\ SchemaFault(e) = NoFault /\ TemporalFault(e) = NoFault
      /\ RevocationFault(e, "ancestor_revoked") = NoFault
  BY DEF AncestorFault, Then
<1>2. "ancestor_revoked" # NoFault
  BY DEF NoFault
<1> QED
  BY <1>1, <1>2, SignaturePassed, SchemaPassed, TemporalPassed, RevocationPassed
     DEF Signed, A!Genuine

LEMMA LinkPassed ==
  ASSUME NEW c \in Envelope, NEW p \in Envelope, NEW j,
         NEW f \in NarrowingFaults(c, p), LinkFault(c, p, j, f) = NoFault
  PROVE  /\ c.delegated
         /\ p.id = c.delegator_aae_id /\ p.subject = c.delegator_did
         /\ c.actions \subseteq p.actions
         /\ c.depth = {d + 1 : d \in effective_depth(p)}
         /\ c.max_depth # {}
         /\ \A m \in c.max_depth, pm \in effective_max_depth(p) : m <= pm
         /\ \A t \in Stated(c) \cap Stated(p) :
              NarrowingFault(t, c.constraints[t], p.constraints[t]) = NoFault
<1>1. /\ c.delegated /\ NameFault(c, p) = NoFault /\ ActionsFault(c, p) = NoFault
      /\ DepthFault(c, p) = NoFault /\ f = NoFault
  BY DEF LinkFault, Then, When, NoFault, Uncaught
<1>2. p.id = c.delegator_aae_id /\ p.subject = c.delegator_did
  BY <1>1 DEF NameFault, Then, When, NoFault
<1>3. c.actions \subseteq p.actions
  BY <1>1 DEF ActionsFault, When, NoFault
<1>4. /\ c.depth = {d + 1 : d \in effective_depth(p)} /\ c.max_depth # {}
      /\ ~(\E m \in c.max_depth, pm \in effective_max_depth(p) : m > pm)
  BY <1>1 DEF DepthFault, Then, When, NoFault, Uncaught
<1>5. c.max_depth \subseteq Int /\ effective_max_depth(p) \subseteq Int
  BY DEF effective_max_depth, Envelope
<1>6. \A m \in c.max_depth, pm \in effective_max_depth(p) : m <= pm
  BY <1>4, <1>5
<1>7. \A t \in Stated(c) \cap Stated(p) :
        NarrowingFault(t, c.constraints[t], p.constraints[t]) = NoFault
  <2> DEFINE faults == {NarrowingFault(t, c.constraints[t], p.constraints[t]) :
                          t \in Stated(c) \cap Stated(p)}
  <2>1. NoFault \in OneOf(faults)
    BY <1>1 DEF NarrowingFaults
  <2>2. \A g \in faults : g = NoFault
    BY <2>1, OneOfPassed
  <2> QED
    BY <2>2
<1> QED
  BY <1>1, <1>2, <1>3, <1>4, <1>6, <1>7

\* A cap, or an allowlist, that holds of the child holds of the parent that states it too.
LEMMA CapNarrowed ==
  ASSUME NEW c \in Envelope, NEW p \in Envelope, ctx \in Context, WithinCap(c),
         NarrowingFault("max_transaction_value", c.constraints["max_transaction_value"],
                        p.constraints["max_transaction_value"]) = NoFault
  PROVE  WithinCap(p)
<1> DEFINE ck == c.constraints["max_transaction_value"]
           pk == p.constraints["max_transaction_value"]
<1>1. ck \in Constraint /\ pk \in Constraint
  BY DEF Envelope, ConstraintTypes, RECOGNIZED_CONSTRAINTS
<1>2. /\ ck.currency = pk.currency
      /\ ~(\E v \in ValueOrZero(ck), w \in ValueOrZero(pk) : v > w)
  BY DEF NarrowingFault, Then, When, NoFault, CURRENCY_VALUED, NUMERIC_UPPER_BOUND
<1>3. /\ ValueOrZero(ck) \subseteq Int /\ ValueOrZero(pk) \subseteq Int /\ ValueOrZero(ck) # {}
      /\ ctx.amount \subseteq Int
  BY <1>1 DEF ValueOrZero, Constraint, Context
<1>4. \A a \in ctx.amount, v \in ValueOrZero(ck) : a <= v /\ ctx.currency = ck.currency
  BY DEF WithinCap
<1>5. \A a \in ctx.amount, w \in ValueOrZero(pk) : a <= w /\ ctx.currency = pk.currency
  <2> HIDE DEF ck, pk
  <2> QED  BY <1>2, <1>3, <1>4
<1> QED
  BY <1>5 DEF WithinCap

LEMMA ListNarrowed ==
  ASSUME NEW c, NEW p, WithinList(c),
         NarrowingFault("allowed_domains", c.constraints["allowed_domains"],
                        p.constraints["allowed_domains"]) = NoFault
  PROVE  WithinList(p)
<1>1. c.constraints["allowed_domains"].domains \subseteq p.constraints["allowed_domains"].domains
  BY DEF NarrowingFault, Then, When, NoFault, CURRENCY_VALUED, NUMERIC_UPPER_BOUND,
         ALLOWLIST_CONSTRAINTS
<1> QED
  BY <1>1 DEF WithinList, LowerAll

----------------------------------------------------------------------------
\* The walk.

LEMMA PathTypes ==
  ASSUME TypeOK
  PROVE  /\ Len(chain) \in Nat /\ Last(presented) = Len(chain) + 1
         /\ vc \in Envelope /\ OnPath(Len(chain) + 1) = vc
         /\ \A i \in 1..(Len(chain) + 1) : OnPath(i) \in Envelope
<1>1. presented \in Presentation
  BY DEF TypeOK
<1>2. presented.chain \in Seq(JWS) /\ presented.aae \in JWS
  BY <1>1 DEF Presentation
<1>3. \A i \in 1..(Len(presented.chain) + 1) : JwsAt(presented, i) \in JWS
  BY <1>2 DEF JwsAt, Last
<1> QED
  BY <1>2, <1>3, PayloadAssumption DEF chain, vc, OnPath, EnvelopeAt, JwsAt, Last

\* Authorization reads the same envelopes.
LEMMA HeldMeans ==
  \A t, i : A!Held(t, i) <=> \A k \in i..Last(presented) : t \in Stated(OnPath(k))
  BY DEF A!Held, A!At, A!EnvelopeAt, A!JwsAt, A!Last, A!Stated, A!ConstraintTypes,
         A!RECOGNIZED_CONSTRAINTS, OnPath, EnvelopeAt, JwsAt, Last, Stated, ConstraintTypes,
         RECOGNIZED_CONSTRAINTS

\* One more link: what is known of the child, with the checks of the link, is known of
\* the parent.
LEMMA LinkJoins ==
  ASSUME IInv, pc = "link",
         NEW f \in NarrowingFaults(OnPath(node + 1), OnPath(node)),
         LinkFault(OnPath(node + 1), OnPath(node), chain[node], f) = NoFault
  PROVE  Joined(node)
<1> DEFINE c == OnPath(node + 1)
           p == OnPath(node)
           n == Last(presented)
<1>1. /\ node \in 1..Len(chain) /\ n = Len(chain) + 1 /\ Len(chain) \in Nat
      /\ c \in Envelope /\ p \in Envelope /\ vc \in Envelope /\ ctx \in Context
  BY PathTypes DEF IInv, TypeOK
<1>2. vc.delegated /\ LeafLimited /\ Linked(node) /\ Verified(0) /\ LeafSigned /\ LeafWithin
  BY DEF IInv, WalkKnown, LeafKnown, Past, Walk, Steps1to8
<1>3. /\ c.delegated
      /\ p.id = c.delegator_aae_id /\ p.subject = c.delegator_did
      /\ c.actions \subseteq p.actions
      /\ c.depth = {d + 1 : d \in effective_depth(p)}
      /\ c.max_depth # {}
      /\ \A m \in c.max_depth, pm \in effective_max_depth(p) : m <= pm
      /\ \A t \in Stated(c) \cap Stated(p) :
           NarrowingFault(t, c.constraints[t], p.constraints[t]) = NoFault
  BY <1>1, LinkPassed
<1>4. /\ vc.actions \subseteq c.actions
      /\ c.signer = c.delegator_did
      /\ vc.depth = {d + (n - (node + 1)) : d \in c.depth}
      /\ \A d \in vc.depth, m \in c.max_depth : d <= m
      /\ A!Held("max_transaction_value", node + 1) => WithinCap(c)
      /\ A!Held("allowed_domains", node + 1) => WithinList(c)
  <2>1. CASE node = Len(chain)
    <3>1. c = vc /\ n = node + 1
      BY <2>1, <1>1, PathTypes DEF IInv
    <3>2. vc.depth \subseteq Int
      BY <1>1 DEF Envelope
    <3>3. vc.depth = {d + (n - (node + 1)) : d \in vc.depth}
      BY <3>1, <3>2, <1>1
    <3>4. \A t : A!Held(t, node + 1) => vc.constraints[t].stated
      BY <3>1, <1>1, HeldMeans DEF Stated
    <3> QED
      BY <3>1, <3>3, <3>4, <1>2 DEF LeafLimited, LeafWithin, LeafSigned
  <2>2. CASE node # Len(chain)
    <3>1. node + 1 \in (node + 1)..Len(chain) /\ node + 1 \in (0 + 1)..Len(chain)
      BY <2>2, <1>1
    <3>2. Joined(node + 1) /\ Signed(c)
      BY <3>1, <1>2 DEF Linked, Verified
    <3>3. effective_depth(c) = c.depth /\ effective_max_depth(c) = c.max_depth
      BY <1>3 DEF effective_depth, effective_max_depth
    <3> QED
      BY <3>2, <3>3, <1>3 DEF Joined, Signed
  <2> QED
    BY <2>1, <2>2
<1>5. vc.depth = {d + (n - node) : d \in effective_depth(p)}
  <2>1. effective_depth(p) \subseteq Int
    BY <1>1 DEF effective_depth, Envelope
  <2> HIDE DEF c, p, n
  <2>2. \A d \in effective_depth(p) : (d + 1) + (n - (node + 1)) = d + (n - node)
    BY <2>1, <1>1
  <2> QED
    BY <2>2, <1>3, <1>4
<1>6. \A d \in vc.depth, m \in effective_max_depth(p) : d <= m
  <2>1. vc.depth \subseteq Int /\ c.max_depth \subseteq Int /\ effective_max_depth(p) \subseteq Int
    BY <1>1 DEF effective_max_depth, Envelope
  <2> HIDE DEF c, p, n
  <2> QED
    BY <2>1, <1>3, <1>4
<1>7. ASSUME NEW t, A!Held(t, node)
      PROVE  A!Held(t, node + 1) /\ t \in Stated(c) \cap Stated(p)
  BY <1>1, <1>7, HeldMeans
<1>8. A!Held("max_transaction_value", node) => WithinCap(p)
  BY <1>1, <1>3, <1>4, <1>7, CapNarrowed
<1>9. A!Held("allowed_domains", node) => WithinList(p)
  BY <1>3, <1>4, <1>7, ListNarrowed
<1> QED
  BY <1>3, <1>4, <1>5, <1>6, <1>8, <1>9 DEF Joined

----------------------------------------------------------------------------
\* The inductive invariant.

LEMMA InvInit == Init => IInv /\ StepIsFirstFailure
<1> SUFFICES ASSUME Init PROVE LeafKnown /\ WalkKnown /\ StepsKnown /\ StepIsFirstFailure
  BY InitType DEF IInv
<1>1. pc = "signature" /\ verdict.result = "PENDING"
  BY DEF Init, Pending
<1>2. LeafKnown /\ WalkKnown
  BY <1>1 DEF LeafKnown, WalkKnown, Past, Walk, Steps1to8
<1>3. StepsKnown
  <2>1. StepAt[pc] = 1 /\ pc \in Steps1to8
    BY <1>1 DEF StepAt, Steps1to8
  <2> QED  BY <2>1 DEF StepsKnown, PassesBefore
<1>4. StepIsFirstFailure
  BY <1>1 DEF StepIsFirstFailure
<1> QED
  BY <1>2, <1>3, <1>4

\* verify() never changes what it was given, so what it learnt stays true.
LEMMA InputFixed == [Next]_vars => UNCHANGED input
  BY DEF Next, vars, input, Check, Raise, Signature, Schema, Temporal, SubjectBinding,
         SingleUse, Action, Constraints, Revocation, Delegation, VerifyAncestor, Cycle, Limit,
         VerifyLink, DelegationDone, Accept

LEMMA Static ==
  ASSUME UNCHANGED input
  PROVE  /\ vc' = vc /\ chain' = chain /\ \A i : OnPath(i)' = OnPath(i)
         /\ LeafSigned' = LeafSigned /\ LeafWellFormed' = LeafWellFormed
         /\ LeafInWindow' = LeafInWindow /\ LeafGrants' = LeafGrants
         /\ LeafWithin' = LeafWithin /\ LeafNotRevoked' = LeafNotRevoked
         /\ PathDistinct' = PathDistinct /\ LeafLimited' = LeafLimited
         /\ Verified(0)' = Verified(0) /\ Linked(0)' = Linked(0)
         /\ \A n : node' = n => Verified(node)' = Verified(n) /\ Linked(node)' = Linked(n)
<1>1. presented' = presented /\ ctx' = ctx
  BY DEF input
<1> USE <1>1 DEF vc, chain, OnPath, EnvelopeAt, JwsAt, Last
<1>2. vc' = vc /\ chain' = chain /\ \A i : OnPath(i)' = OnPath(i)
  OBVIOUS
<1>3. LeafSigned' = LeafSigned /\ LeafWellFormed' = LeafWellFormed /\ LeafGrants' = LeafGrants
  BY DEF LeafSigned, LeafWellFormed, LeafGrants
<1>4. LeafInWindow' = LeafInWindow /\ LeafNotRevoked' = LeafNotRevoked
  BY DEF LeafInWindow, LeafNotRevoked, A!InWindow, A!NotRevoked
<1>5. LeafWithin' = LeafWithin
  BY DEF LeafWithin, WithinCap, WithinList
<1>6. PathDistinct' = PathDistinct /\ LeafLimited' = LeafLimited
  BY DEF PathDistinct, LeafLimited
<1>7. Verified(0)' = Verified(0)
  BY DEF Verified, Signed, A!Genuine, A!InWindow, A!NotRevoked
<1>8. Linked(0)' = Linked(0)
  BY DEF Linked, Joined, WithinCap, WithinList, A!Held, A!At, A!EnvelopeAt, A!JwsAt, A!Last
<1>9. \A n : node' = n => Verified(node)' = Verified(n)
  BY DEF Verified, Signed, A!Genuine, A!InWindow, A!NotRevoked
<1>10. \A n : node' = n => Linked(node)' = Linked(n)
  BY DEF Linked, Joined, WithinCap, WithinList, A!Held, A!At, A!EnvelopeAt, A!JwsAt, A!Last
<1> QED
  BY <1>2, <1>3, <1>4, <1>5, <1>6, <1>7, <1>8, <1>9, <1>10

\* A rejection and an exception claim nothing.
LEMMA RaiseKnown ==
  ASSUME NEW fault, NEW step, Raise(fault, step)
  PROVE  LeafKnown' /\ WalkKnown'
  BY DEF Raise, LeafKnown, WalkKnown, Past, Accepted, Walk

LEMMA KnownInv == IInv /\ [Next]_vars => LeafKnown' /\ WalkKnown'
<1> SUFFICES ASSUME IInv, [Next]_vars PROVE LeafKnown' /\ WalkKnown'
  OBVIOUS
<1>1. TypeOK /\ LeafKnown /\ WalkKnown /\ UNCHANGED input
  BY InputFixed DEF IInv
<1>2. /\ vc \in Envelope /\ ctx \in Context /\ Len(chain) \in Nat
      /\ Last(presented) = Len(chain) + 1
  BY <1>1, PathTypes DEF TypeOK
<1> USE <1>1, Static, RaiseKnown DEF LeafKnown, WalkKnown, Past, Accepted, Walk, Steps1to8
<1>3. CASE Signature
  BY <1>2, <1>3, SignaturePassed DEF Signature, Check, LeafSigned, TypeOK
<1>4. CASE Schema
  BY <1>2, <1>4, SchemaPassed DEF Schema, Check, LeafWellFormed, TypeOK
<1>5. CASE Temporal
  BY <1>2, <1>5, TemporalPassed DEF Temporal, Check, LeafInWindow, TypeOK
<1>6. CASE SubjectBinding
  BY <1>6 DEF SubjectBinding, Check, TypeOK
<1>7. CASE SingleUse
  BY <1>7 DEF SingleUse, Check, TypeOK
<1>8. CASE Action
  BY <1>8 DEF Action, Check, When, NoFault, LeafGrants, TypeOK
<1>9. CASE Constraints
  BY <1>2, <1>9, ConstraintsPassed DEF Constraints, LeafWithin, TypeOK
<1>10. CASE Revocation
  <2>1. "revoked" # NoFault
    BY DEF NoFault
  <2> QED
    BY <1>2, <1>10, <2>1, RevocationPassed DEF Revocation, LeafNotRevoked, TypeOK
<1>11. CASE Delegation
  <2>1. Verified(Len(chain)) /\ Linked(Len(chain))
    BY <1>2 DEF Verified, Linked
  <2>2. /\ pc' # "done" /\ pc' \notin Steps1to8 \cup {"delegation"}
        /\ pc' \in Walk => vc.delegated
        /\ node' = Len(chain)
        /\ pc' = "cycle" => Len(chain) = 0
        /\ vc.delegated => pc' \in {"ancestor", "cycle"}
    BY <1>11 DEF Delegation
  <2> QED
    BY <1>11, <2>1, <2>2 DEF Delegation, TypeOK
<1>12. CASE VerifyAncestor
  <2>1. PICK f \in ValueShapeFaults(OnPath(node)) :
          LET fault == AncestorFault(OnPath(node), f) IN
          \/ fault # NoFault /\ Raise(fault, 9)
          \/ /\ fault = NoFault
             /\ node' = node - 1
             /\ pc' = IF node = 1 THEN "cycle" ELSE "ancestor"
             /\ UNCHANGED <<input, last_step, verdict>>
    BY <1>12 DEF VerifyAncestor
  <2>2. CASE AncestorFault(OnPath(node), f) # NoFault
    BY <2>1, <2>2
  <2>3. CASE AncestorFault(OnPath(node), f) = NoFault
    <3>1. node \in 1..Len(chain) /\ Verified(node) /\ vc.delegated
      BY <1>12 DEF VerifyAncestor, TypeOK
    <3>2. OnPath(node) \in Envelope
      BY <1>2, <3>1, PathTypes
    <3>3. Verified(node - 1)
      BY <1>2, <2>3, <3>1, <3>2, AncestorPassed DEF Verified
    <3>4. /\ node' = node - 1 /\ pc' \in {"ancestor", "cycle"} /\ verdict' = verdict
          /\ pc' = "cycle" => node - 1 = 0
      BY <2>1, <2>3, <3>1
    <3> QED
      BY <1>12, <3>1, <3>3, <3>4 DEF VerifyAncestor
  <2> QED
    BY <2>2, <2>3
<1>13. CASE Cycle
  BY <1>13 DEF Cycle, Check, When, NoFault, PathDistinct, TypeOK
<1>14. CASE Limit
  <2>1. CASE LimitFault(vc) # NoFault
    BY <1>14, <2>1 DEF Limit
  <2>2. CASE LimitFault(vc) = NoFault
    <3>1. vc.max_depth # {} /\ ~DepthExceeded(vc)
      BY <2>2 DEF LimitFault, Then, When, NoFault, Uncaught
    <3>2. vc.depth \subseteq Int /\ vc.max_depth \subseteq Int
      BY <1>2 DEF Envelope
    <3>3. LeafLimited /\ Linked(Len(chain))
      BY <1>2, <3>1, <3>2 DEF LeafLimited, DepthExceeded, Linked
    <3>4. /\ node' = Len(chain) /\ pc' \in {"link", "delegation_done"} /\ verdict' = verdict
          /\ pc' = "delegation_done" => Len(chain) = 0
          /\ pc = "limit"
      BY <1>14, <2>2 DEF Limit
    <3> QED
      BY <3>3, <3>4
  <2> QED
    BY <2>1, <2>2
<1>15. CASE VerifyLink
  <2>1. PICK f \in NarrowingFaults(OnPath(node + 1), OnPath(node)) :
          LET fault == LinkFault(OnPath(node + 1), OnPath(node), chain[node], f) IN
          \/ fault # NoFault /\ Raise(fault, 9)
          \/ /\ fault = NoFault
             /\ node' = node - 1
             /\ pc' = IF node = 1 THEN "delegation_done" ELSE "link"
             /\ UNCHANGED <<input, last_step, verdict>>
    BY <1>15 DEF VerifyLink
  <2>2. CASE LinkFault(OnPath(node + 1), OnPath(node), chain[node], f) # NoFault
    BY <2>1, <2>2
  <2>3. CASE LinkFault(OnPath(node + 1), OnPath(node), chain[node], f) = NoFault
    <3>1. pc = "link" /\ node \in 1..Len(chain) /\ Linked(node) /\ LeafLimited
      BY <1>15 DEF VerifyLink, TypeOK
    <3>2. Joined(node)
      BY <2>3, <3>1, LinkJoins
    <3>3. Linked(node - 1)
      BY <1>2, <3>1, <3>2 DEF Linked
    <3>4. /\ node' = node - 1 /\ pc' \in {"link", "delegation_done"} /\ verdict' = verdict
          /\ pc' = "delegation_done" => node - 1 = 0
      BY <2>1, <2>3, <3>1
    <3> QED
      BY <3>1, <3>3, <3>4
  <2> QED
    BY <2>2, <2>3
<1>16. CASE DelegationDone
  BY <1>16 DEF DelegationDone, TypeOK
<1>17. CASE Accept
  BY <1>17 DEF Accept, TypeOK
<1>18. CASE UNCHANGED vars
  <2>1. pc' = pc /\ node' = node /\ verdict' = verdict
    BY <1>18 DEF vars
  <2> QED
    BY <2>1
<1> QED
  BY <1>3, <1>4, <1>5, <1>6, <1>7, <1>8, <1>9, <1>10, <1>11, <1>12, <1>13, <1>14, <1>15,
     <1>16, <1>17, <1>18 DEF Next

----------------------------------------------------------------------------
\* The steps of section 5: those before the one verify() is at, and the one it ended at.

Known == StepsKnown /\ StepIsFirstFailure

LEMMA FaultsStatic ==
  ASSUME UNCHANGED input, NEW s
  PROVE  StepFaults(s)' = StepFaults(s) /\ (Passes(s)' <=> Passes(s))
<1>1. vc' = vc /\ ctx' = ctx
  BY Static DEF input
<1>2. StepFaults(s)' = StepFaults(s)
  BY <1>1 DEF StepFaults, SignatureFault, AuthorityFault, SchemaFault, TemporalFault,
              ConstraintFaults, ValueShapeFaults, ConstraintFault, CapFault, DomainFault,
              RateFault, Unevaluable, Unreadable, RevocationFault, Indeterminate, ResponsesFor
<1> QED
  BY <1>2 DEF Passes

\* A step that fails is the first to.
LEMMA FailsFirst ==
  ASSUME Known, pc \in Steps1to8, NEW fault \in StepFaults(StepAt[pc]),
         Raise(fault, StepAt[pc])
  PROVE  Known'
<1> DEFINE k == StepAt[pc]
<1>1. k \in 1..8
  BY DEF Steps1to8, StepAt
<1>2. /\ pc' = "done" /\ UNCHANGED input
      /\ verdict'.result = "REJECT" => verdict'.step = k /\ verdict'.reason = fault
      /\ verdict'.result \in {"EXCEPTION", "REJECT"}
  BY DEF Raise
<1>3. \A s \in 1..8 : s < k => Passes(s)
  BY DEF Known, StepsKnown, PassesBefore, Steps1to8
<1> HIDE DEF k
<1>4. StepIsFirstFailure'
  <2>1. \A s \in 1..8 : (StepFaults(s)' = StepFaults(s)) /\ (Passes(s)' <=> Passes(s))
    BY <1>2, FaultsStatic
  <2>2. fault \in StepFaults(k)
    BY DEF k
  <2> QED
    BY <1>1, <1>2, <1>3, <2>1, <2>2 DEF StepIsFirstFailure, Accepted, PassesBefore
<1> QED
  BY <1>2, <1>4 DEF Known, StepsKnown, PassesBefore, Steps1to8

\* Step 9 fails after all the others have passed.
LEMMA WalkFails ==
  ASSUME Known, pc \notin Steps1to8 \cup {"done"}, NEW fault, Raise(fault, 9)
  PROVE  Known'
<1>1. /\ pc' = "done" /\ UNCHANGED input
      /\ verdict'.result = "REJECT" => verdict'.step = 9
      /\ verdict'.result \in {"EXCEPTION", "REJECT"}
  BY DEF Raise
<1>2. \A s \in 1..8 : Passes(s)'
  BY <1>1, FaultsStatic DEF Known, StepsKnown, PassesBefore
<1>3. StepIsFirstFailure'
  BY <1>1, <1>2 DEF StepIsFirstFailure, Accepted, PassesBefore
<1> QED
  BY <1>1, <1>3 DEF Known, StepsKnown, PassesBefore, Steps1to8

\* A step that passes hands over to the next, the last of them to step 9.
LEMMA PassesOn ==
  ASSUME Known, TypeOK, pc \in Steps1to8, Passes(StepAt[pc]), UNCHANGED <<input, verdict>>,
         IF pc = "revocation" THEN pc' = "delegation"
                              ELSE pc' \in Steps1to8 /\ StepAt[pc'] = StepAt[pc] + 1
  PROVE  Known'
<1>1. StepAt[pc] \in 1..8 /\ (pc = "revocation" <=> StepAt[pc] = 8)
  BY DEF Steps1to8, StepAt
<1>2. \A s \in 1..8 : s < StepAt[pc] + 1 => Passes(s)
  <2>1. \A s \in 1..8 : s < StepAt[pc] => Passes(s)
    BY DEF Known, StepsKnown, PassesBefore, Steps1to8
  <2> QED  BY <1>1, <2>1
<1>3. \A s \in 1..8 : s < StepAt[pc] + 1 => Passes(s)'
  BY <1>2, FaultsStatic
<1>4. verdict'.result = "PENDING"
  BY DEF TypeOK, Steps1to8
<1>5. StepIsFirstFailure'
  BY <1>4 DEF StepIsFirstFailure, Accepted, PassesBefore
<1>6. CASE pc = "revocation"
  BY <1>1, <1>3, <1>5, <1>6 DEF Known, StepsKnown, PassesBefore, Steps1to8
<1>7. CASE pc # "revocation"
  <2>1. pc' \in Steps1to8 /\ StepAt[pc'] = StepAt[pc] + 1
    BY <1>7
  <2>2. pc' \in Steps1to8 => \A s \in 1..8 : s < StepAt[pc'] => Passes(s)'
    BY <1>3, <2>1
  <2>3. (StepAt[pc])' = StepAt[pc']
    BY DEF StepAt
  <2> QED
    BY <1>5, <2>1, <2>2, <2>3 DEF Known, StepsKnown, PassesBefore
<1> QED
  BY <1>6, <1>7

\* A step whose faults are one.
LEMMA CheckSteps ==
  ASSUME IInv, Known, NEW here \in Steps1to8 \ {"constraints", "revocation"}, NEW fault, NEW next,
         StepFaults(StepAt[here]) = {fault}, next \in Steps1to8, StepAt[next] = StepAt[here] + 1,
         Check(here, fault, StepAt[here], next)
  PROVE  Known'
<1>1. pc = here /\ Known /\ TypeOK
  BY DEF Check, IInv
<1>2. CASE fault # NoFault /\ Raise(fault, StepAt[here])
  BY <1>1, <1>2, FailsFirst
<1>3. CASE fault = NoFault /\ pc' = next /\ UNCHANGED <<input, node, last_step, verdict>>
  <2>1. Passes(StepAt[pc])
    BY <1>1, <1>3 DEF Passes
  <2> QED  BY <1>1, <1>3, <2>1, PassesOn
<1> QED
  BY <1>2, <1>3 DEF Check

LEMMA StepsInv == IInv /\ StepIsFirstFailure /\ [Next]_vars => Known'
<1> SUFFICES ASSUME IInv, StepIsFirstFailure, [Next]_vars PROVE Known'
  OBVIOUS
<1>1. TypeOK /\ Known /\ UNCHANGED input
  BY InputFixed DEF IInv, Known
<1>2. ASSUME pc \notin Steps1to8 \cup {"done"}, pc' \notin Steps1to8 \cup {"done"},
             verdict' = verdict
      PROVE  Known'
  <2>1. \A s \in 1..8 : Passes(s)'
    BY <1>1, <1>2, FaultsStatic DEF Known, StepsKnown, PassesBefore
  <2>2. verdict'.result = "PENDING"
    BY <1>1, <1>2 DEF TypeOK
  <2>3. StepIsFirstFailure'
    BY <2>2 DEF StepIsFirstFailure, Accepted, PassesBefore
  <2> QED  BY <1>2, <2>1, <2>3 DEF Known, StepsKnown, PassesBefore
<1>3. CASE Signature
  BY <1>1, <1>3, CheckSteps DEF Signature, StepFaults, StepAt, Steps1to8
<1>4. CASE Schema
  BY <1>1, <1>4, CheckSteps DEF Schema, StepFaults, StepAt, Steps1to8
<1>5. CASE Temporal
  BY <1>1, <1>5, CheckSteps DEF Temporal, StepFaults, StepAt, Steps1to8
<1>6. CASE SubjectBinding
  <2> DEFINE fault == When(~ctx.challenge_response_valid, "subject_binding_failed")
  <2>1. /\ StepFaults(4) = {fault}
        /\ StepAt["binding"] = 4 /\ StepAt["single_use"] = StepAt["binding"] + 1
        /\ "binding" \in Steps1to8 \ {"constraints", "revocation"} /\ "single_use" \in Steps1to8
    BY DEF StepFaults, StepAt, Steps1to8
  <2>2. Check("binding", fault, StepAt["binding"], "single_use")
    BY <1>6, <2>1 DEF SubjectBinding
  <2> HIDE DEF fault
  <2> QED  BY <1>1, <2>1, <2>2, CheckSteps
<1>7. CASE SingleUse
  BY <1>1, <1>7, CheckSteps DEF SingleUse, StepFaults, StepAt, Steps1to8
<1>8. CASE Action
  BY <1>1, <1>8, CheckSteps DEF Action, StepFaults, StepAt, Steps1to8
<1>9. CASE Constraints
  <2>1. PICK fault \in ConstraintFaults(vc) :
          \/ fault # NoFault /\ Raise(fault, 7)
          \/ /\ fault = NoFault /\ pc' = "revocation" /\ UNCHANGED <<input, verdict>>
    BY <1>9 DEF Constraints
  <2>2. /\ pc = "constraints" /\ StepAt[pc] = 7 /\ StepAt["revocation"] = 8
        /\ {"constraints", "revocation"} \subseteq Steps1to8
        /\ StepFaults(7) = ConstraintFaults(vc)
    BY <1>9 DEF Constraints, StepAt, Steps1to8, StepFaults
  <2>3. ASSUME fault = NoFault
        PROVE  Passes(7)
    BY <2>2, <2>3 DEF Passes, ConstraintFaults, ValueShapeFaults, OneOf
  <2> QED
    BY <1>1, <2>1, <2>2, <2>3, FailsFirst, PassesOn
<1>10. CASE Revocation
  <2>1. \/ RevocationFault(vc, "revoked") # NoFault /\ Raise(RevocationFault(vc, "revoked"), 8)
        \/ /\ RevocationFault(vc, "revoked") = NoFault
           /\ pc' = "delegation" /\ UNCHANGED <<input, verdict>>
    BY <1>10 DEF Revocation
  <2>2. /\ pc = "revocation" /\ StepAt[pc] = 8 /\ pc \in Steps1to8
        /\ StepFaults(8) = {RevocationFault(vc, "revoked")}
    BY <1>10 DEF Revocation, StepAt, Steps1to8, StepFaults
  <2> QED
    BY <1>1, <2>1, <2>2, FailsFirst, PassesOn DEF Passes
<1>11. CASE Delegation
  BY <1>2, <1>11 DEF Delegation, Steps1to8
<1>12. CASE VerifyAncestor
  BY <1>1, <1>2, <1>12, WalkFails DEF VerifyAncestor, Steps1to8
<1>13. CASE Cycle
  BY <1>1, <1>2, <1>13, WalkFails DEF Cycle, Check, Steps1to8
<1>14. CASE Limit
  BY <1>1, <1>2, <1>14, WalkFails DEF Limit, Steps1to8
<1>15. CASE VerifyLink
  BY <1>1, <1>2, <1>15, WalkFails DEF VerifyLink, Steps1to8
<1>16. CASE DelegationDone
  BY <1>2, <1>16 DEF DelegationDone, Steps1to8
<1>17. CASE Accept
  <2>1. /\ pc = "accept" /\ pc' = "done" /\ verdict'.result = "ACCEPT"
    BY <1>17 DEF Accept
  <2>2. \A s \in 1..8 : Passes(s)'
    BY <1>1, <2>1, FaultsStatic DEF Known, StepsKnown, PassesBefore, Steps1to8
  <2> QED
    BY <2>1, <2>2 DEF Known, StepsKnown, PassesBefore, StepIsFirstFailure, Steps1to8
<1>18. CASE UNCHANGED vars
  <2>1. pc' = pc /\ verdict' = verdict
    BY <1>18 DEF vars
  <2>2. \A s \in 1..8 : (StepFaults(s)' = StepFaults(s)) /\ (Passes(s)' <=> Passes(s))
    BY <1>1, FaultsStatic
  <2>3. StepIsFirstFailure'
    BY <1>1, <2>1, <2>2 DEF Known, StepsKnown, PassesBefore, StepIsFirstFailure, Accepted
  <2> QED
    BY <1>1, <2>1, <2>2, <2>3 DEF Known, StepsKnown, PassesBefore, StepAt
<1> QED
  BY <1>3, <1>4, <1>5, <1>6, <1>7, <1>8, <1>9, <1>10, <1>11, <1>12, <1>13, <1>14, <1>15,
     <1>16, <1>17, <1>18 DEF Next

LEMMA StepInv == IInv /\ StepIsFirstFailure /\ [Next]_vars => (IInv /\ StepIsFirstFailure)'
  BY StepType, KnownInv, StepsInv DEF IInv, Known

LEMMA Induction == Spec => []IInv /\ []StepIsFirstFailure
<1>1. Init => IInv /\ StepIsFirstFailure  BY InvInit
<1>2. IInv /\ StepIsFirstFailure /\ [Next]_vars => (IInv /\ StepIsFirstFailure)'  BY StepInv
<1> QED  BY <1>1, <1>2, PTL DEF Spec

----------------------------------------------------------------------------
\* What an acceptance promises.

LEMMA SameEnvelopes ==
  /\ \A i : A!At(i) = OnPath(i)
  /\ A!Leaf = vc /\ A!Path = 1..Last(presented) /\ A!Ancestors = 1..Len(chain)
  /\ \A e : A!effective_depth(e) = effective_depth(e)
  /\ \A e : A!effective_max_depth(e) = effective_max_depth(e)
  /\ \A k : A!ValueOrZero(k) = ValueOrZero(k)
  /\ \A S : A!LowerAll(S) = LowerAll(S)
  BY DEF A!At, A!EnvelopeAt, A!JwsAt, A!Last, A!Leaf, A!Path, A!Ancestors, A!effective_depth,
         A!effective_max_depth, A!ValueOrZero, A!LowerAll, OnPath, EnvelopeAt, JwsAt, Last, vc,
         chain, effective_depth, effective_max_depth, ValueOrZero, LowerAll

LEMMA AcceptAuthorizes ==
  ASSUME IInv, pc = "accept" \/ Accepted
  PROVE  A!Authorized
<1>1. Past(Steps1to8) /\ Past(Steps1to8 \cup {"delegation", "ancestor", "cycle", "limit", "link"})
  BY DEF IInv, TypeOK, Past, Accepted, Steps1to8
<1>2. /\ LeafSigned /\ LeafWellFormed /\ LeafInWindow /\ LeafGrants /\ LeafWithin
      /\ LeafNotRevoked
  BY <1>1 DEF IInv, LeafKnown, Past, Steps1to8
<1>3. ASSUME vc.delegated PROVE Verified(0) /\ PathDistinct /\ Linked(0)
  BY <1>1, <1>3 DEF IInv, WalkKnown, Past, Steps1to8
<1>4. /\ Len(chain) \in Nat /\ Last(presented) = Len(chain) + 1
      /\ vc \in Envelope /\ OnPath(Len(chain) + 1) = vc
  BY PathTypes DEF IInv
<1> USE SameEnvelopes
<1>5. A!Stands(vc) /\ ctx.requested_action \in vc.actions
  BY <1>2 DEF A!Stands, A!Genuine, LeafSigned, LeafWellFormed, LeafInWindow, LeafNotRevoked,
              LeafGrants
<1>6. ASSUME vc.delegated PROVE A!AncestorsConcur
  BY <1>2, <1>3, <1>4, <1>6 DEF A!AncestorsConcur, A!Stands, Signed, Verified, Linked, Joined,
              LeafGrants
<1>7. ASSUME vc.delegated PROVE A!Custody
  BY <1>3, <1>4, <1>7 DEF A!Custody, PathDistinct, Linked, Joined
<1>8. ASSUME vc.delegated PROVE A!DepthCounted
  <2> SUFFICES ASSUME 1..Len(chain) # {} PROVE A!DepthCounted
    BY DEF A!DepthCounted
  <2>1. Joined(1) /\ Last(presented) - 1 = Len(chain)
    BY <1>3, <1>4, <1>8 DEF Linked
  <2>2. vc.depth = {d + Len(chain) : d \in effective_depth(OnPath(1))}
    BY <2>1 DEF Joined
  <2>3. \A i \in 1..Len(chain) :
          \A d \in vc.depth, m \in effective_max_depth(OnPath(i)) : d <= m
    BY <1>3, <1>4, <1>8 DEF Linked, Joined
  <2> QED
    BY <2>2, <2>3 DEF A!DepthCounted, chain
<1>9. ASSUME vc.delegated PROVE A!LimitsHold
  <2> SUFFICES ASSUME NEW i \in 1..Last(presented)
               PROVE  /\ A!Held("max_transaction_value", i) => WithinCap(OnPath(i))
                      /\ A!Held("allowed_domains", i) => WithinList(OnPath(i))
    BY DEF A!LimitsHold, WithinCap, WithinList
  <2>1. CASE i \in 1..Len(chain)
    BY <1>3, <1>4, <1>9, <2>1 DEF Linked, Joined
  <2>2. CASE i = Last(presented)
    BY <1>2, <1>4, <2>2, HeldMeans DEF LeafWithin, Stated
  <2> QED
    BY <1>4, <2>1, <2>2
<1> QED
  BY <1>5, <1>6, <1>7, <1>8, <1>9 DEF A!Authorized

\* Every check that verify() has passed leaves known what it checks, of the presented envelope
\* (LeafKnown), of the ancestors and the links walked so far (WalkKnown), and of the order of
\* the steps (StepsKnown), for every chain and every context.
THEOREM Inductive == Spec => []IInv
<1> QED  BY Induction, PTL

\* verify() rejects at the first step of section 5 that fails, for a reason that step has, and
\* accepts only where none of the first eight fails.
THEOREM FirstFailureIsNamed == Spec => []StepIsFirstFailure
<1> QED  BY Induction, PTL

\* Every ancestor of an accepted presentation is genuine, in its window, not known to
\* be revoked, and grants the requested action itself.
THEOREM EveryAncestorConcurs == Spec => []AcceptedByEveryAncestor
<1>1. IInv => AcceptedByEveryAncestor
  BY AcceptAuthorizes, SameEnvelopes DEF AcceptedByEveryAncestor, A!Authorized
<1> QED  BY <1>1, Inductive, PTL

\* An accepted path is an unbroken, acyclic chain of custody.
THEOREM CustodyUnbroken == Spec => []AcceptedCustody
<1>1. IInv => AcceptedCustody
  BY AcceptAuthorizes, SameEnvelopes DEF AcceptedCustody, A!Authorized
<1> QED  BY <1>1, Inductive, PTL

\* The depth a delegation states is counted along the chain, within every max_depth.
THEOREM DepthIsCounted == Spec => []AcceptedDepth
<1>1. IInv => AcceptedDepth
  BY AcceptAuthorizes, SameEnvelopes DEF AcceptedDepth, A!Authorized
<1> QED  BY <1>1, Inductive, PTL

\* A cap or an allowlist nobody left out binds the accepted action, however far up.
THEOREM LimitsBind == Spec => []AcceptedLimits
<1>1. IInv => AcceptedLimits
  BY AcceptAuthorizes, SameEnvelopes DEF AcceptedLimits, A!Authorized
<1> QED  BY <1>1, Inductive, PTL

\* verify() implements Authorization: every step of it is the one decision, which is
\* ACCEPT only where the path authorizes the action, or invisible.
THEOREM Implements == Spec => ImplementsAuthorization
<1>1. Init => A!Init
  BY CallsAssumption DEF Init, A!Init, Pending, Presentation, Context, A!Presentation,
         A!Context, A!Response, Response
<1>2. IInv /\ [Next]_vars => [A!Decide]_(A!avars)
  <2> SUFFICES ASSUME IInv, [Next]_vars PROVE [A!Decide]_(A!avars)
    OBVIOUS
  <2>1. UNCHANGED <<presented, ctx>>
    BY InputFixed DEF input
  <2>2. CASE Accept
    <3>1. A!Authorized /\ verdict.result = "PENDING" /\ verdict'.result = "ACCEPT"
      BY <2>2, AcceptAuthorizes DEF Accept, IInv, TypeOK
    <3> QED
      BY <2>1, <3>1 DEF A!Decide
  <2>3. ASSUME NEW fault, NEW step, pc # "done", Raise(fault, step) PROVE A!Decide
    <3>1. verdict.result = "PENDING"
      BY <2>3 DEF IInv, TypeOK
    <3> QED
      BY <2>1, <2>3, <3>1 DEF Raise, A!Decide
  <2>4. CASE ~Accept
    <3>1. verdict' = verdict \/ \E fault, step : pc # "done" /\ Raise(fault, step)
      BY <2>4 DEF Next, vars, Check, Signature, Schema, Temporal, SubjectBinding,
         SingleUse, Action, Constraints, Revocation, Delegation, VerifyAncestor, Cycle, Limit,
         VerifyLink, DelegationDone
    <3> QED
      BY <2>1, <2>3, <3>1 DEF A!avars
  <2> QED
    BY <2>2, <2>4
<1> QED
  BY <1>1, <1>2, Inductive, PTL DEF Spec, ImplementsAuthorization, A!Spec
=============================================================================
