---------------------------- MODULE EnforceKernel ----------------------------
(***************************************************************************)
(* enforce_check() and ratify() of examples/enforce-verify.py, between a   *)
(* caller that keeps the records and authorities that sign what they       *)
(* decide.  The kernel keeps nothing: what ties a record to its mandate,   *)
(* its transaction and the record before it are digests.                   *)
(*                                                                         *)
(* enforce_check() is one action for each question it asks, and one for    *)
(* each turn of its loop over the grants that match; ratify() is one       *)
(* action.  Reasons, and the fields of a trace entry beyond its values,    *)
(* are left out.                                                           *)
(***************************************************************************)
EXTENDS Mandates

CONSTANTS
  Calls,         \* what enforce_check() is called with: a mandate and a transaction
  EarlierCores,  \* the cores of records the caller holds from the start
  Key, Did,      \* the keys and names of those who may be authorities
  Shown,         \* the mandates a proof may supply
  MaxRecords,    \* bounds: the records kept,
  MaxSigned,     \* the statements signed,
  MaxRatified,   \* the calls of ratify(),
  Followed       \* and the calls with which a history goes on

ASSUME CallsAssumption ==
  /\ Calls \cup Followed \subseteq [mandate : DOMAIN Mandate, transaction : DOMAIN Transaction]
  /\ Shown \subseteq DOMAIN Mandate

VARIABLES
  call,     \* the mandate, the transaction and prev_core_digest of the current call
  pc,       \* the question enforce_check() asks next, "idle" outside a call
  grants,   \* the indices of the grants still in question
  trace,    \* trace of enforce_check()
  records,  \* the records returned so far, with what each call was given
  signed,   \* the statements that were signed, with the key
  answers   \* what the calls of ratify() returned or raised, in order

checkVars == <<call, pc, grants, trace>>
vars == <<call, pc, grants, trace, records, signed, answers>>

mandate == Mandate[call.mandate]
transaction == Transaction[call.transaction]
Grant(i) == mandate.grants[i]

\* Mutant of Core: the link to the record before is left out.
Core_Unlinked(verdict, index, tr) ==
  [mandate_digest |-> mandate_digest(call.mandate),
   transaction_digest |-> transaction_digest(call.transaction),
   action_digest |-> action_digest(transaction),
   verdict |-> verdict, grant_index |-> index, trace |-> tr, prev |-> {}]

Core(verdict, index, tr) ==
  [mandate_digest |-> mandate_digest(call.mandate),
   transaction_digest |-> transaction_digest(call.transaction),
   action_digest |-> action_digest(transaction),
   verdict |-> verdict, grant_index |-> index, trace |-> tr, prev |-> call.prev]

CarriesUndigestible(core) ==
  \E i \in 1..Len(core.trace) : core.trace[i].carries \cap Undigestible # {}

core_digest(core) == digest(core, ~CarriesUndigestible(core))

\* The cores at hand, and the strings that may pass for a digest of one.
Cores == {r.core : r \in records} \cup EarlierCores
Digests == UNION {core_digest(c) : c \in Cores}

Optional(S) == {{}} \cup {{x} : x \in S}

----------------------------------------------------------------------------
\* enforce_check().

Return(verdict, index, tr) ==
  /\ records' = records \cup
       {[core |-> Core(verdict, index, tr), core_digest |-> core_digest(Core(verdict, index, tr)),
         mandate |-> call.mandate, transaction |-> call.transaction]}
  /\ pc' = "idle" /\ grants' = {} /\ trace' = <<>>
  /\ UNCHANGED <<call, signed, answers>>

Deny(index, entry) == Return("DENY", index, Append(trace, entry))

InFollowed ==
  \A r \in records : [mandate |-> r.mandate, transaction |-> r.transaction] \in Followed

Continue(question, S, tr) ==
  /\ pc' = question /\ grants' = S /\ trace' = tr
  /\ UNCHANGED <<call, records, signed, answers>>

Call ==
  /\ pc = "idle" /\ Cardinality(records) < MaxRecords /\ InFollowed
  /\ \E input \in Followed, prev \in Optional(Digests) :
       call' = [mandate |-> input.mandate, transaction |-> input.transaction, prev |-> prev]
  /\ pc' = "shape"
  /\ UNCHANGED <<grants, trace, records, signed, answers>>

\* Are the mandate and the transaction what they should be?
Shape ==
  /\ pc = "shape"
  /\ IF mandate_problem(mandate)
     THEN Deny({}, pred("mandate_present", "FAIL", {}))
     ELSE IF ~transaction.is_object
     THEN Deny({}, pred("transaction_present", "FAIL", {}))
     ELSE IF action_digest(transaction) = {}
     THEN Deny({}, pred("action_binding", "FAIL", {}))
     ELSE Continue("type_fields", 1..Len(mandate.grants),
                   Append(trace, pred("mandate_present", "PASS", {})))

\* Does the action carry exactly the type_fields of a grant?
TypeFields_Unanswered ==
  /\ pc = "type_fields"
  /\ LET typed == {i \in grants : ~type_shape_problem(transaction.action, Grant(i).type_fields)}
     IN  Continue("action_binding", typed, Append(trace, pred("type_fields", "PASS", {})))

TypeFields ==
  /\ pc = "type_fields"
  /\ LET typed == {i \in grants : ~type_shape_problem(transaction.action, Grant(i).type_fields)}
     IN  IF typed = {} THEN Deny({}, pred("type_fields", "FAIL", {}))
         ELSE Continue("action_binding", typed, Append(trace, pred("type_fields", "PASS", {})))

\* Does one of them bind the digest of the action?
ActionBinding_AnyType ==
  /\ pc = "action_binding"
  /\ LET matched == {i \in 1..Len(mandate.grants) :
                       Grant(i).action_binding = action_digest(transaction)}
     IN  IF matched = {} THEN Deny({}, pred("action_binding", "FAIL", {}))
         ELSE Continue("disposition", matched,
                       Append(trace, pred("action_binding", "PASS", {})))

ActionBinding ==
  /\ pc = "action_binding"
  /\ LET matched == {i \in grants : Grant(i).action_binding = action_digest(transaction)}
     IN  IF matched = {} THEN Deny({}, pred("action_binding", "FAIL", {}))
         ELSE Continue("disposition", matched,
                       Append(trace, pred("action_binding", "PASS", {})))

\* Does one of them forbid it?
Disposition_FirstOnly ==
  /\ pc = "disposition"
  /\ LET forbidden == {i \in grants : Grant(i).disposition = "forbid" /\ i = First(grants)}
     IN  IF forbidden # {} THEN Deny({First(forbidden)}, pred("disposition", "FAIL", {}))
         ELSE Continue("constraints", grants, trace)

Disposition ==
  /\ pc = "disposition"
  /\ LET forbidden == {i \in grants : Grant(i).disposition = "forbid"}
     IN  IF forbidden # {} THEN Deny({First(forbidden)}, pred("disposition", "FAIL", {}))
         ELSE Continue("constraints", grants, trace)

preds(i) ==
  [k \in 1..Len(Grant(i).constraints) |-> eval_constraint(Grant(i).constraints[k], transaction)]

AllPass(entries) == \A k \in 1..Len(entries) : entries[k].result = "PASS"

\* The first matched grant left: do all of its constraints hold?
Constraints_NoTrace ==
  /\ pc = "constraints" /\ grants # {}
  /\ LET i == First(grants)
         tr == IF AllPass(preds(i)) THEN trace \o preds(i) ELSE trace
     IN  IF AllPass(preds(i))
         THEN Return(IF Grant(i).disposition = "allow" THEN "PERMIT" ELSE "PENDING", {i},
                     Append(tr, pred("disposition", "PASS", {})))
         ELSE Continue("constraints", grants \ {i}, tr)

\* Mutant: only the entries of the grant that decides are kept.
Constraints_DecidingOnly ==
  /\ pc = "constraints" /\ grants # {}
  /\ LET i == First(grants)
         tr == SubSeq(trace, 1, 3) \o preds(i)
     IN  IF AllPass(preds(i))
         THEN Return(IF Grant(i).disposition = "allow" THEN "PERMIT" ELSE "PENDING", {i},
                     Append(tr, pred("disposition", "PASS", {})))
         ELSE Continue("constraints", grants \ {i}, trace \o preds(i))

Constraints ==
  /\ pc = "constraints" /\ grants # {}
  /\ LET i == First(grants)
         tr == trace \o preds(i)
     IN  IF AllPass(preds(i))
         THEN Return(IF Grant(i).disposition = "allow" THEN "PERMIT" ELSE "PENDING", {i},
                     Append(tr, pred("disposition", "PASS", {})))
         ELSE Continue("constraints", grants \ {i}, tr)

\* "no matching grant satisfied its constraints"
Unsatisfied ==
  /\ pc = "constraints" /\ grants = {}
  /\ Return("DENY", {}, trace)

----------------------------------------------------------------------------
\* ratify().

\* An authority signs a decision on a record.
Sign ==
  /\ pc = "idle" /\ Cardinality(signed) < MaxSigned /\ InFollowed
  /\ \E key \in Key, did \in Did, ratifies \in Digests, decision \in {"APPROVED", "DISAPPROVED"} :
       signed' = signed \cup {[key |-> key, authority |-> did, ratifies |-> ratifies,
                               decision |-> decision]}
  /\ UNCHANGED <<checkVars, records, answers>>

\* Mutant of RatifyError: the link may not be left out.
RatifyError_LinkAsked(prior, decision, prev) ==
  \/ decision \notin {"APPROVED", "DISAPPROVED"}
  \/ prior.core = {} \/ prior.core_digest = {}
  \/ \E core \in prior.core :
       \/ core_digest(core) # prior.core_digest
       \/ core.verdict \notin {"DENY", "PENDING"}
  \/ prev # prior.core_digest

\* What raises RatifyError: a decision that is none, a record that does not match its own
\* digest, a verdict that cannot be ratified, a link to another record.
RatifyError(prior, decision, prev) ==
  \/ decision \notin {"APPROVED", "DISAPPROVED"}
  \/ prior.core = {} \/ prior.core_digest = {}
  \/ \E core \in prior.core :
       \/ core_digest(core) # prior.core_digest
       \/ core.verdict \notin {"DENY", "PENDING"}
  \/ prev # {} /\ prev # prior.core_digest

\* The signature verifies with this key over this statement.
ed25519_verify_AnyDecision(key, signature, ratifies, decision, did) ==
  \E d \in {"APPROVED", "DISAPPROVED"} :
    signature = {[key |-> key, authority |-> did, ratifies |-> ratifies, decision |-> d]}

ed25519_verify(key, signature, ratifies, decision, did) ==
  signature = {[key |-> key, authority |-> did, ratifies |-> ratifies, decision |-> decision]}

ratify_pred(predicate, result) == pred(predicate, result, {})

\* The digest of the supplied mandate, none for null and where there is none.
Supplied(id) == IF Mandate[id].is_null THEN {} ELSE mandate_digest(id)

RatifyRecord(core, decision, p, entries) ==
  LET ok == AllPass(entries)
  IN  [outcome |-> IF ok THEN "RATIFIED" ELSE "REJECTED", decision |-> decision,
       ratifies |-> {core}, authority |-> IF ok THEN {p.authority} ELSE {},
       supplied |-> {p.mandate}, trace |-> <<ratify_pred("prior_ratifiable", "PASS")>> \o entries]

Unproved(core, decision) ==
  [outcome |-> "REJECTED", decision |-> decision, ratifies |-> {core}, authority |-> {},
   supplied |-> {}, trace |-> <<ratify_pred("prior_ratifiable", "PASS"),
                                ratify_pred("authority_proof", "FAIL")>>]

Raised(error) ==
  [outcome |-> error, decision |-> "none", ratifies |-> {}, authority |-> {}, supplied |-> {},
   trace |-> <<>>]

\* The proof: the mandate, then the authority in it, then the signature.
Judged(core, decision, p) ==
  LET bound == Supplied(p.mandate) = core.mandate_digest
      entries == EntriesOf(Mandate[p.mandate], p.authority)
      key == mandate_authorities(Mandate[p.mandate])[First(entries)].key
      ok == ed25519_verify(key, p.signature, core, decision, p.authority)
      binding == ratify_pred("mandate_binding", Verdict(bound))
      authority == ratify_pred("authority_in_mandate", Verdict(entries # {}))
      signature == ratify_pred("authority_signature", Verdict(ok))
  IN  IF ~bound THEN RatifyRecord(core, decision, p, <<binding>>)
      ELSE IF ~Mandate[p.mandate].authorities_iterable THEN Raised("EXCEPTION")
      ELSE IF entries = {} THEN RatifyRecord(core, decision, p, <<binding, authority>>)
      ELSE RatifyRecord(core, decision, p, <<binding, authority, signature>>)

\* A core without the digest of a mandate raises, whatever the proof.
RatifyAnswer(prior, decision, proof, prev) ==
  LET core == CHOOSE c \in prior.core : TRUE
      p == CHOOSE x \in proof : TRUE
  IN  IF RatifyError(prior, decision, prev) THEN Raised("RatifyError")
      ELSE IF "mandate_digest" \notin DOMAIN core THEN Raised("EXCEPTION")
      ELSE IF proof = {} THEN Unproved(core, decision)
      ELSE Judged(core, decision, p)

Ratify ==
  /\ pc = "idle" /\ Len(answers) < MaxRatified /\ InFollowed
  /\ \E core \in Optional(Cores), claimed \in Optional(Digests), prev \in Optional(Digests),
        decision \in {"APPROVED", "DISAPPROVED", "none"},
        proof \in Optional([mandate : Shown, authority : Did, signature : Optional(signed)]) :
       answers' = Append(answers,
         RatifyAnswer([core |-> core, core_digest |-> claimed], decision, proof, prev))
  /\ UNCHANGED <<checkVars, records, signed>>

----------------------------------------------------------------------------

Init ==
  /\ call \in {[mandate |-> input.mandate, transaction |-> input.transaction, prev |-> {}] :
                 input \in Calls}
  /\ pc = "shape" /\ grants = {} /\ trace = <<>>
  /\ records = {} /\ signed = {} /\ answers = <<>>

EnforceCheck ==
  Shape \/ TypeFields \/ ActionBinding \/ Disposition \/ Constraints \/ Unsatisfied

Next == Call \/ EnforceCheck \/ Sign \/ Ratify

Spec == Init /\ [][Next]_vars
=============================================================================
