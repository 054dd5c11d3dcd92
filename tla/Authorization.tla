--------------------------- MODULE Authorization ---------------------------
(***************************************************************************)
(* What ACCEPT promises, with no algorithm: one decision per presentation, *)
(* and an acceptance only when the whole verification path authorizes the  *)
(* requested action now.  Every clause speaks of the presented AAE and all *)
(* its ancestors at once; python-verify.py only ever looks at one envelope *)
(* or at one link.                                                         *)
(***************************************************************************)
EXTENDS Envelopes

VARIABLES presented, ctx, verdict

avars == <<presented, ctx, verdict>>

Path == 1..Last(presented)
Ancestors == 1..Len(presented.chain)
Leaf == Payload[presented.aae]
At(i) == EnvelopeAt(presented, i)

\* Signed with a key of its issuer.
Genuine(e) == e.signature = "valid" /\ e.cty /\ e.shape = "ok" /\ e.signer = e.issuer

InWindow(e) ==
  /\ \A t \in e.notBefore \cup e.validFrom : t <= ctx.current_time
  /\ \A t \in e.notAfter : ctx.current_time <= t

\* A revocable envelope needs an answer the endpoint did give, and not "revoked".
NotRevoked(e) ==
  e.revocation_check =>
    /\ \E r \in ctx.revocation_responses : r.id = e.id
    /\ \A r \in ctx.revocation_responses :
         r.id = e.id => r.http_status < 500 /\ ~r.unparseable /\ r.revoked # "true"

Stands(e) == Genuine(e) /\ InWindow(e) /\ NotRevoked(e)

\* Every ancestor stands on its own, now, and grants the requested action.
AncestorsConcur ==
  \A i \in Ancestors : Stands(At(i)) /\ ctx.requested_action \in At(i).actions

\* Every child is signed by the subject of its parent, and no envelope occurs twice.
Custody ==
  /\ \A i \in Ancestors : /\ At(i + 1).signer = At(i).subject
                          /\ At(i + 1).delegator_aae_id = At(i).id
  /\ \A i, k \in Path : i # k => At(i).id # At(k).id

\* The depth the leaf claims is its distance from chain[0], on top of chain[0]'s
\* own, and no ancestor's max_depth is exceeded.
DepthCounted ==
  Ancestors # {} =>
    /\ Leaf.depth = {d + Len(presented.chain) : d \in effective_depth(At(1))}
    /\ \A i \in Ancestors : \A d \in Leaf.depth, m \in effective_max_depth(At(i)) : d <= m

\* Constraint t is stated by every envelope from i down to the leaf.
Held(t, i) == \A k \in i..Last(presented) : t \in Stated(At(k))

\* An ancestor's cap bounds the amount, and its allowlist the domain, as long as
\* no envelope below it leaves the constraint out.
LimitsHold ==
  \A i \in Path :
    /\ Held("max_transaction_value", i) =>
         \A a \in ctx.amount, v \in ValueOrZero(At(i).constraints["max_transaction_value"]) :
           /\ a <= v
           /\ ctx.currency = At(i).constraints["max_transaction_value"].currency
    /\ Held("allowed_domains", i) =>
         LowerAll(ctx.domain) \subseteq LowerAll(At(i).constraints["allowed_domains"].domains)

\* The chain of an AAE that is not delegated is never looked at.
Authorized ==
  /\ Stands(Leaf)
  /\ ctx.requested_action \in Leaf.actions
  /\ Leaf.delegated => AncestorsConcur /\ Custody /\ DepthCounted /\ LimitsHold

Init ==
  /\ presented \in Presentation
  /\ ctx \in Context
  /\ verdict.result = "PENDING"

Decide ==
  /\ verdict.result = "PENDING"
  /\ \/ verdict'.result = "ACCEPT" /\ Authorized
     \/ verdict'.result \in {"REJECT", "EXCEPTION"}
  /\ UNCHANGED <<presented, ctx>>

Spec == Init /\ [][Decide]_avars
=============================================================================
