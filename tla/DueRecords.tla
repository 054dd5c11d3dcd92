------------------------------ MODULE DueRecords -----------------------------
(***************************************************************************)
(* The record that a mandate, a transaction and a link make, written down  *)
(* as a function of the three: verdict, deciding grant, every entry of the *)
(* digested trace, and the digest.  enforce_check() goes through the       *)
(* grants question by question; here each part says at once which grants   *)
(* it is about.                                                            *)
(***************************************************************************)
EXTENDS EnforceKernel, Entitlement

Pass(predicate) == pred(predicate, "PASS", {})
Fail(predicate) == pred(predicate, "FAIL", {})

\* The entries of an action that one of the grants is about.
Opening == <<Pass("mandate_present"), Pass("type_fields"), Pass("action_binding")>>

Judgement(g, t) == [k \in 1..Len(g.constraints) |-> eval_constraint(g.constraints[k], t)]

\* The entries once the grants up to each have been tried.
Tried(m, t) ==
  LET tried[n \in 0..Len(m.grants)] ==
        IF n = 0 THEN Opening
        ELSE IF n \in Addressed(m, t) THEN tried[n - 1] \o Judgement(m.grants[n], t)
        ELSE tried[n - 1]
  IN  tried

\* The grants that name exactly the fields of the action.
Typed(m, t) ==
  {i \in 1..Len(m.grants) : ~type_shape_problem(t.action, m.grants[i].type_fields)}

DueTrace(m, t) ==
  IF mandate_problem(m) THEN <<Fail("mandate_present")>>
  ELSE IF ~t.is_object THEN <<Fail("transaction_present")>>
  ELSE IF ~t.action.canonical THEN <<Fail("action_binding")>>
  ELSE IF Typed(m, t) = {} THEN <<Pass("mandate_present"), Fail("type_fields")>>
  ELSE IF Addressed(m, t) = {}
  THEN <<Pass("mandate_present"), Pass("type_fields"), Fail("action_binding")>>
  ELSE IF Forbids(m, t) # {} THEN Append(Opening, Fail("disposition"))
  ELSE IF Grants(m, t) = {} THEN Tried(m, t)[Len(m.grants)]
  ELSE Append(Tried(m, t)[First(Grants(m, t))], Pass("disposition"))

\* The grant that decides: the first that forbids, or else the first that is satisfied.
DueIndex(m, t) ==
  LET deciding == IF Forbids(m, t) # {} THEN Forbids(m, t) ELSE Grants(m, t)
  IN  IF Judgeable(m, t) /\ deciding # {} THEN {First(deciding)} ELSE {}

DueVerdict(m, t) ==
  IF ~Judgeable(m, t) \/ Forbids(m, t) # {} \/ Grants(m, t) = {} THEN "DENY"
  ELSE IF m.grants[First(Grants(m, t))].disposition = "allow" THEN "PERMIT" ELSE "PENDING"

DueCore(m, t, prev) ==
  [mandate_digest |-> mandate_digest(m), transaction_digest |-> transaction_digest(t),
   action_digest |-> action_digest(Transaction[t]),
   verdict |-> DueVerdict(Mandate[m], Transaction[t]),
   grant_index |-> DueIndex(Mandate[m], Transaction[t]),
   trace |-> DueTrace(Mandate[m], Transaction[t]), prev |-> prev]

DueRecord(m, t, prev) ==
  [core |-> DueCore(m, t, prev), core_digest |-> core_digest(DueCore(m, t, prev)),
   mandate |-> m, transaction |-> t]
=============================================================================
