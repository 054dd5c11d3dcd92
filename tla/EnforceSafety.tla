---------------------------- MODULE EnforceSafety ----------------------------
(***************************************************************************)
(* What the enforce kernel is checked and proved to guarantee, stated on   *)
(* records and mandates alone, the inductive invariant behind it, and two  *)
(* things the repository says of the kernel that do not hold.              *)
(***************************************************************************)
EXTENDS DueRecords, TraceMatching

Questions == {"shape", "type_fields", "action_binding", "disposition", "constraints"}

\* A call is in progress exactly when a question is pending, and the grants in question
\* are grants of its mandate.
TypeOK ==
  /\ call.mandate \in DOMAIN Mandate /\ call.transaction \in DOMAIN Transaction
  /\ pc \in Questions \cup {"idle"}
  /\ grants \subseteq 1..Len(mandate.grants) /\ IsSeq(trace) /\ IsSeq(answers)
  /\ pc \in {"idle", "shape"} => grants = {} /\ trace = <<>>
  /\ pc \in {"type_fields", "action_binding", "disposition"} => grants # {}
  /\ \A r \in records :
       /\ r.core.verdict \in {"PERMIT", "DENY", "PENDING"} /\ IsSeq(r.core.trace)
       /\ r.mandate \in DOMAIN Mandate /\ r.transaction \in DOMAIN Transaction
  /\ \A i \in 1..Len(answers) :
       answers[i].outcome \in {"RATIFIED", "REJECTED", "RatifyError", "EXCEPTION"}

----------------------------------------------------------------------------

\* Every verdict of enforce_check() is the one the mandate gives, whatever the order of the
\* grants, of the questions and of the constraints.
DecisionsFollowGrants == \A r \in records : FollowsGrants(r)

\* Every trace of enforce_check() accounts for its verdict.
TraceAccounts == \A r \in records : Accounted(r)

\* Every record is, entry for entry, the one its mandate, its transaction and its link make:
\* the entries of a grant that was tried and passed over stay in the digested trace, in the
\* order of the grants, and nothing of another call gets into it.
RecordsAreDue == \A r \in records : r = DueRecord(r.mandate, r.transaction, r.core.prev)

\* RATIFIED takes an authority of the very mandate the record was decided under, who
\* signed this decision on this record with the key that mandate gives it first: no
\* signature on another record, for the other decision, or by another key will do.
Authorized(a) ==
  a.outcome = "RATIFIED" =>
    \A core \in a.ratifies :
      /\ core \in Cores /\ core.verdict # "PERMIT"
      /\ \A id \in core.mandate_digest, did \in a.authority :
           SignedByAuthority(Mandate[id], core, did, a.decision, signed)

RatifiedByAuthority == \A n \in 1..Len(answers) : Authorized(answers[n])

\* The record is the one it claims to be and can be ratified, a link names it, the mandate
\* supplied is the one it names, and the signature is the authority's.
Due(core, claimed, prev, decision, p) ==
  /\ claimed = core_digest(core) /\ claimed # {} /\ prev \in {{}, claimed}
  /\ core.verdict \in {"DENY", "PENDING"} /\ decision # "none"
  /\ "mandate_digest" \in DOMAIN core /\ core.mandate_digest = Supplied(p.mandate)
  /\ Mandate[p.mandate].authorities_iterable
  /\ SignedByAuthority(Mandate[p.mandate], core, p.authority, decision, p.signature)

Proofs == [mandate : Shown, authority : Did, signature : Optional(signed)]

\* Whatever ratify() is called with next, it says RATIFIED exactly if that is due: nothing else
\* in a record or a proof makes a difference, and no order of the checks.
RatifiesExactly ==
  pc = "idle" /\ answers = <<>> =>
    \A core \in Cores, claimed \in Optional(Digests), prev \in Optional(Digests),
       decision \in {"APPROVED", "DISAPPROVED", "none"}, p \in Proofs :
      LET prior == [core |-> {core}, core_digest |-> claimed]
      IN  RatifyAnswer(prior, decision, {p}, prev).outcome = "RATIFIED"
            <=> Due(core, claimed, prev, decision, p)

\* A trace that matches two expected entries has them both, in their order: not in another
\* order, and not one entry for the two.
MatchIsInOrder ==
  \A r \in records :
    LET tr == r.core.trace IN
    \A i, k \in 1..Len(tr) :
      trace_holds(<<tr[i], tr[k]>>, tr) => StandInOrder(<<tr[i], tr[k]>>, tr)

\* The kernel implements Enforcement: each call is answered with one record, whose verdict
\* is the mandate's, and each ratification with what the signatures made by then bear out.
E == INSTANCE Enforcement WITH pending <- pc # "idle"
ImplementsEnforcement == E!Spec

----------------------------------------------------------------------------
\* The inductive invariant: what the questions answered so far leave known.

StillInQuestion ==
  LET m == mandate
      t == transaction
  IN  /\ pc \in Questions \ {"shape"} => Judgeable(m, t)
      /\ pc = "type_fields" => grants = 1..Len(m.grants)
      /\ pc = "action_binding" =>
           grants = {i \in 1..Len(m.grants) : ~type_shape_problem(t.action, m.grants[i].type_fields)}
      /\ pc = "disposition" => grants = Addressed(m, t)
      /\ pc = "constraints" =>
           /\ grants \subseteq Addressed(m, t) /\ Forbids(m, t) = {}
           /\ \A i \in Addressed(m, t) \ grants :
                ~Satisfied(m.grants[i], t) /\ \A k \in grants : i < k

\* A matched grant was only passed over for a constraint that is in the trace.
FailureTraced ==
  pc = "constraints" =>
    \/ grants = Addressed(mandate, transaction) /\ grants # {}
    \/ \E k \in 1..Len(trace) : trace[k].result = "FAIL"

IInv ==
  /\ TypeOK /\ StillInQuestion /\ FailureTraced
  /\ DecisionsFollowGrants /\ TraceAccounts /\ RatifiedByAuthority

----------------------------------------------------------------------------
\* Said of the trace and of ratify(), and not so; see the findings.

\* docs/RUNNER-PROTOCOL.md: "every entry of expected.trace must appear in order, with the
\* same predicate and result".  Where they do, the trace matches.
MatchIsEmbedding ==
  \A r \in records :
    LET tr == r.core.trace IN
    \A i, k \in 1..Len(tr) :
      StandInOrder(<<tr[i], tr[k]>>, tr) => trace_holds(<<tr[i], tr[k]>>, tr)

\* docs/TESTING-YOUR-IMPLEMENTATION.md: "the supplied mandate must hash to the prior
\* core's mandate_digest".
RatifiedUnderItsMandate ==
  \A n \in 1..Len(answers) :
    LET answer == answers[n]
        ratified == {r \in records : answer.ratifies = {r.core}}
    IN  answer.outcome = "RATIFIED" /\ ratified # {} =>
          \E r \in ratified : answer.supplied = {r.mandate}
=============================================================================
