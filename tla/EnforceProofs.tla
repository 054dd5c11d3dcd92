---------------------------- MODULE EnforceProofs ----------------------------
(***************************************************************************)
(* What the enforce kernel guarantees for all mandates, transactions and   *)
(* caps: each decision is the one the mandate gives, each trace accounts   *)
(* for its decision, and a ratification is signed by an authority of the   *)
(* mandate.                                                                *)
(***************************************************************************)
EXTENDS EnforceSafety, TraceProofs

----------------------------------------------------------------------------
\* Sequences of whatever elements.

LEMMA AnySeq ==
  ASSUME NEW S, NEW s \in Seq(S)
  PROVE  IsSeq(s)
  BY SeqOfRange DEF IsSeq

LEMMA LenOfSeq ==
  ASSUME NEW s, IsSeq(s)
  PROVE  /\ Len(s) \in Nat /\ DOMAIN s = 1..Len(s)
         /\ \A k \in 1..Len(s) : s[k] \in Range(s)
         /\ \A x \in Range(s) : \E k \in 1..Len(s) : s[k] = x
  BY LenProperties DEF IsSeq, Range

LEMMA Concatenated ==
  ASSUME NEW s, IsSeq(s), NEW t, IsSeq(t)
  PROVE  /\ IsSeq(s \o t) /\ Len(s \o t) = Len(s) + Len(t)
         /\ \A k \in 1..Len(s) : (s \o t)[k] = s[k]
         /\ \A k \in 1..Len(t) : (s \o t)[Len(s) + k] = t[k]
<1> DEFINE U == Range(s) \cup Range(t)
<1>1. s \in Seq(U) /\ t \in Seq(U)
  BY SeqMonotonic DEF IsSeq
<1> HIDE DEF U
<1>2. s \o t \in Seq(U) /\ Len(s \o t) = Len(s) + Len(t)
  BY <1>1, ConcatProperties
<1>3. IsSeq(s \o t)
  BY <1>2, AnySeq
<1>4. \A k \in 1..Len(s) + Len(t) : (s \o t)[k] = IF k <= Len(s) THEN s[k] ELSE t[k - Len(s)]
  BY <1>1, ConcatProperties
<1>5. Len(s) \in Nat /\ Len(t) \in Nat
  BY <1>1, LenProperties
<1> QED
  BY <1>2, <1>3, <1>4, <1>5

LEMMA Appended ==
  ASSUME NEW s, IsSeq(s), NEW x
  PROVE  /\ IsSeq(Append(s, x)) /\ Len(Append(s, x)) = Len(s) + 1
         /\ \A k \in 1..Len(s) : Append(s, x)[k] = s[k]
         /\ Append(s, x)[Len(s) + 1] = x
<1> DEFINE U == Range(s) \cup {x}
<1>1. s \in Seq(U) /\ x \in U
  BY SeqMonotonic DEF IsSeq
<1> HIDE DEF U
<1>2. Append(s, x) \in Seq(U) /\ Len(Append(s, x)) = Len(s) + 1
  BY <1>1, AppendProperties
<1>3. IsSeq(Append(s, x))
  BY <1>2, AnySeq
<1>4. (\A k \in 1..Len(s) : Append(s, x)[k] = s[k]) /\ Append(s, x)[Len(s) + 1] = x
  BY <1>1, AppendProperties
<1> QED
  BY <1>2, <1>3, <1>4

\* What MandateAssumption says of one mandate, grant by grant.
LEMMA MandateShape ==
  ASSUME NEW id \in DOMAIN Mandate
  PROVE  /\ IsSeq(Mandate[id].grants) /\ Len(Mandate[id].grants) \in Nat
         /\ IsSeq(Mandate[id].principal) /\ IsSeq(Mandate[id].ratification_authorities)
         /\ \A i \in 1..Len(Mandate[id].grants) :
              LET g == Mandate[id].grants[i] IN
              /\ IsSeq(g.constraints) /\ Len(g.constraints) \in Nat
              /\ \A k \in 1..Len(g.constraints) :
                   LET c == g.constraints[k] IN IsSeq(c.values) /\ HasInt(c.lo) /\ HasInt(c.hi)
<1> DEFINE m == Mandate[id]
<1>1. /\ IsSeq(m.grants) /\ IsSeq(m.principal) /\ IsSeq(m.ratification_authorities)
      /\ \A g \in Range(m.grants) :
           /\ IsSeq(g.constraints)
           /\ \A c \in Range(g.constraints) : IsSeq(c.values) /\ HasInt(c.lo) /\ HasInt(c.hi)
  BY MandateAssumption
<1> HIDE DEF m
<1>2. Len(m.grants) \in Nat /\ \A i \in 1..Len(m.grants) : m.grants[i] \in Range(m.grants)
  BY <1>1, LenOfSeq
<1>3. ASSUME NEW i \in 1..Len(m.grants)
      PROVE  LET g == m.grants[i] IN
             /\ IsSeq(g.constraints) /\ Len(g.constraints) \in Nat
             /\ \A k \in 1..Len(g.constraints) :
                  LET c == g.constraints[k] IN IsSeq(c.values) /\ HasInt(c.lo) /\ HasInt(c.hi)
  <2> DEFINE cs == m.grants[i].constraints
  <2>1. IsSeq(cs) /\ \A c \in Range(cs) : IsSeq(c.values) /\ HasInt(c.lo) /\ HasInt(c.hi)
    BY <1>1, <1>2
  <2> HIDE DEF cs
  <2>2. Len(cs) \in Nat /\ \A k \in 1..Len(cs) : cs[k] \in Range(cs)
    BY <2>1, LenOfSeq
  <2> QED  BY <2>1, <2>2 DEF cs
<1> QED
  BY <1>1, <1>2, <1>3 DEF m

----------------------------------------------------------------------------
\* The constraint language means what Admits says.

LEMMA ConstraintJudged ==
  ASSUME NEW id \in DOMAIN Transaction, NEW c,
         IsSeq(c.values), HasInt(c.lo), HasInt(c.hi)
  PROVE  LET t == Transaction[id]
             result == eval_constraint(c, t).result
         IN  /\ result \in {"PASS", "FAIL"}
             /\ result = "PASS" <=> c.field \in DOMAIN t.fields /\ Admits(c, t.fields[c.field])
<1> DEFINE t == Transaction[id]
           x == t.fields[c.field]
           result == eval_constraint(c, t).result
<1> USE DEF eval_constraint, pred, Verdict, resolve_field, Admits
<1>1. CASE c.type = "exact"
  BY <1>1 DEF eval_exact
<1>2. CASE c.type = "enum"
  <2>1. x \in Range(c.values) => c.values # <<>>
    BY DEF Range
  <2>2. result \in {"PASS", "FAIL"}
    BY <1>2 DEF eval_enum
  <2>3. result = "PASS" <=>
          /\ c.values # <<>> /\ Len(c.values) <= MAX_ENUM_MEMBERS
          /\ c.field \in DOMAIN t.fields /\ IsText(x) /\ x \in Range(c.values)
    BY <1>2 DEF eval_enum
  <2> QED  BY <1>2, <2>1, <2>2, <2>3
<1>3. CASE c.type = "range"
  <2>1. c.field \in DOMAIN t.fields => HasInt(x)
    BY TransactionAssumption DEF Range
  <2>2. result \in {"PASS", "FAIL"}
    BY <1>3 DEF eval_range
  <2>3. result = "PASS" <=>
          /\ is_int(c.lo) /\ is_int(c.hi) /\ c.lo.is <= c.hi.is
          /\ c.field \in DOMAIN t.fields /\ is_int(x)
          /\ c.lo.is <= x.is /\ x.is <= c.hi.is
    BY <1>3 DEF eval_range
  <2>4. ASSUME is_int(c.lo), is_int(c.hi), is_int(x), c.field \in DOMAIN t.fields,
               c.lo.is <= x.is, x.is <= c.hi.is
        PROVE  c.lo.is <= c.hi.is
    BY <2>1, <2>4 DEF is_int, HasInt
  <2> QED  BY <1>3, <2>2, <2>3, <2>4
<1>4. CASE c.type \notin {"exact", "enum", "range"}
  BY <1>4
<1> QED
  BY <1>1, <1>2, <1>3, <1>4

LEMMA GrantJudged ==
  ASSUME TypeOK, NEW i \in 1..Len(mandate.grants)
  PROVE  /\ IsSeq(preds(i)) /\ Len(preds(i)) = Len(mandate.grants[i].constraints)
         /\ Len(mandate.grants[i].constraints) \in Nat
         /\ AllPass(preds(i)) <=> Satisfied(mandate.grants[i], transaction)
         /\ \A k \in 1..Len(preds(i)) : preds(i)[k].result \in {"PASS", "FAIL"}
<1> DEFINE cs == mandate.grants[i].constraints
           result(k) == eval_constraint(cs[k], transaction).result
<1>1. /\ call.mandate \in DOMAIN Mandate /\ call.transaction \in DOMAIN Transaction
      /\ mandate = Mandate[call.mandate] /\ transaction = Transaction[call.transaction]
  BY DEF TypeOK, mandate, transaction
<1>2. /\ Len(cs) \in Nat
      /\ \A k \in 1..Len(cs) : IsSeq(cs[k].values) /\ HasInt(cs[k].lo) /\ HasInt(cs[k].hi)
  BY <1>1, MandateShape
<1>3. \A k \in 1..Len(cs) :
        /\ result(k) \in {"PASS", "FAIL"}
        /\ result(k) = "PASS" <=> /\ cs[k].field \in DOMAIN transaction.fields
                                 /\ Admits(cs[k], transaction.fields[cs[k].field])
  BY <1>1, <1>2, ConstraintJudged
<1>4. preds(i) = [k \in 1..Len(cs) |-> eval_constraint(cs[k], transaction)]
  BY DEF preds, Grant
<1> HIDE DEF cs
<1>5. preds(i) \in Seq(Range(preds(i))) /\ Len(preds(i)) = Len(cs)
  <2>1. preds(i) \in [1..Len(cs) -> Range(preds(i))]
    BY <1>4 DEF Range
  <2>2. preds(i) \in Seq(Range(preds(i)))
    BY <1>2, <2>1, SeqDef
  <2>3. DOMAIN preds(i) = 1..Len(cs) /\ DOMAIN preds(i) = 1..Len(preds(i))
    BY <1>4, <2>2, LenProperties
  <2> QED
    BY <1>2, <2>2, <2>3, LenProperties
<1>6. IsSeq(preds(i))
  BY <1>5 DEF IsSeq
<1>7. \A k \in 1..Len(preds(i)) : preds(i)[k].result = result(k)
  BY <1>4, <1>5
<1> HIDE DEF result
<1>8. AllPass(preds(i)) <=> \A k \in 1..Len(cs) : result(k) = "PASS"
  BY <1>5, <1>7 DEF AllPass
<1>9. Satisfied(mandate.grants[i], transaction) <=>
        \A k \in 1..Len(cs) : /\ cs[k].field \in DOMAIN transaction.fields
                              /\ Admits(cs[k], transaction.fields[cs[k].field])
  BY DEF Satisfied, cs
<1> QED
  BY <1>2, <1>3, <1>5, <1>6, <1>7, <1>8, <1>9 DEF cs

----------------------------------------------------------------------------
\* Two ways to go on: to return a record, and to ask the next question.

NewRecord(verdict, index, tr) ==
  [core |-> Core(verdict, index, tr), core_digest |-> core_digest(Core(verdict, index, tr)),
   mandate |-> call.mandate, transaction |-> call.transaction]

LEMMA Returned ==
  ASSUME IInv, NEW verdict \in {"PERMIT", "DENY", "PENDING"}, NEW index, NEW tr, IsSeq(tr),
         Return(verdict, index, tr),
         FollowsGrants(NewRecord(verdict, index, tr)), Accounted(NewRecord(verdict, index, tr))
  PROVE  IInv'
<1> DEFINE r == NewRecord(verdict, index, tr)
<1>1. /\ records' = records \cup {r} /\ UNCHANGED <<call, signed, answers>>
      /\ pc' = "idle" /\ grants' = {} /\ trace' = <<>>
  BY DEF Return, NewRecord
<1>2. /\ r.core.verdict = verdict /\ r.core.trace = tr
      /\ r.mandate = call.mandate /\ r.transaction = call.transaction
  BY DEF NewRecord, Core
<1> HIDE DEF r
<1>3. TypeOK'
  <2>1. IsSeq(<<>>)
    BY EmptySeq DEF IsSeq
  <2> QED
    BY <1>1, <1>2, <2>1 DEF IInv, TypeOK, mandate, Questions
<1>4. StillInQuestion' /\ FailureTraced'
  BY <1>1 DEF StillInQuestion, FailureTraced, Questions
<1>5. DecisionsFollowGrants' /\ TraceAccounts'
  BY <1>1 DEF IInv, DecisionsFollowGrants, TraceAccounts, r
<1>6. RatifiedByAuthority'
  <2>1. Cores \subseteq Cores'
    BY <1>1 DEF Cores
  <2>2. ASSUME NEW a, Authorized(a) PROVE Authorized(a)'
    BY <1>1, <2>1, <2>2 DEF Authorized
  <2> QED
    BY <1>1, <2>2 DEF IInv, RatifiedByAuthority
<1> QED
  BY <1>3, <1>4, <1>5, <1>6 DEF IInv

LEMMA Continued ==
  ASSUME IInv, NEW question, NEW S, NEW tr, Continue(question, S, tr),
         TypeOK', StillInQuestion', FailureTraced'
  PROVE  IInv'
<1>1. UNCHANGED <<records, signed, answers>>
  BY DEF Continue
<1>2. DecisionsFollowGrants' /\ TraceAccounts'
  BY <1>1 DEF IInv, DecisionsFollowGrants, TraceAccounts
<1>3. RatifiedByAuthority'
  BY <1>1 DEF IInv, RatifiedByAuthority, Authorized, Cores
<1> QED
  BY <1>2, <1>3 DEF IInv

\* A denial whose last entry failed, in a case where the mandate permits nothing.
LEMMA Denied ==
  ASSUME IInv, NEW index, NEW entry, Deny(index, entry), entry.result = "FAIL",
         ~Permitted(mandate, transaction, "allow"), ~Permitted(mandate, transaction, "hold"),
         index \subseteq Forbids(mandate, transaction)
  PROVE  IInv'
<1> DEFINE tr == Append(trace, entry)
           r == NewRecord("DENY", index, tr)
<1>1. /\ r.core.verdict = "DENY" /\ r.core.grant_index = index /\ r.core.trace = tr
      /\ Mandate[r.mandate] = mandate /\ Transaction[r.transaction] = transaction
  BY DEF NewRecord, Core, mandate, transaction
<1> HIDE DEF r
<1>2. FollowsGrants(r)
  BY <1>1 DEF FollowsGrants, Forbids
<1>3. Accounted(r)
  <2>1. IsSeq(trace)
    BY DEF IInv, TypeOK
  <2>2. tr[Len(trace) + 1].result = "FAIL" /\ Len(tr) = Len(trace) + 1 /\ Len(trace) \in Nat
    BY <2>1, Appended, LenOfSeq
  <2>3. Len(trace) + 1 \in 1..Len(tr)
    BY <2>2
  <2> QED
    BY <1>1, <2>2, <2>3 DEF Accounted
<1>4. IsSeq(tr)
  BY Appended DEF IInv, TypeOK
<1> QED
  BY <1>2, <1>3, <1>4, Returned DEF Deny, r

----------------------------------------------------------------------------
\* The questions of enforce_check(), one by one.

LEMMA ShapeStep == IInv /\ Shape => IInv'
<1> SUFFICES ASSUME IInv, Shape PROVE IInv'
  OBVIOUS
<1>1. pc = "shape" /\ trace = <<>> /\ IsSeq(trace) /\ call.mandate \in DOMAIN Mandate
  BY DEF Shape, IInv, TypeOK
<1>2. CASE ~Judgeable(mandate, transaction)
  <2>1. PICK entry : Deny({}, entry) /\ entry.result = "FAIL"
    BY <1>2 DEF Shape, Judgeable, action_digest, digest, pred
  <2>2. ~Permitted(mandate, transaction, "allow") /\ ~Permitted(mandate, transaction, "hold")
    BY <1>2 DEF Permitted
  <2> QED  BY <2>1, <2>2, Denied
<1>3. CASE Judgeable(mandate, transaction)
  <2> DEFINE tr == Append(trace, pred("mandate_present", "PASS", {}))
  <2>1. Continue("type_fields", 1..Len(mandate.grants), tr)
    BY <1>3 DEF Shape, Judgeable, action_digest, digest
  <2>2. IsSeq(tr)
    BY <1>1, Appended
  <2> HIDE DEF tr
  <2>3. /\ call' = call /\ mandate' = mandate /\ transaction' = transaction
        /\ pc' = "type_fields" /\ grants' = 1..Len(mandate.grants) /\ trace' = tr
        /\ UNCHANGED <<records, answers>>
    BY <2>1 DEF Continue, mandate, transaction
  <2>4. 1..Len(mandate.grants) # {}
    <3>1. mandate.grants # <<>>
      BY <1>3 DEF Judgeable, mandate_problem
    <3>2. IsSeq(mandate.grants)
      BY <1>1, MandateShape DEF mandate
    <3>3. Len(mandate.grants) \in Nat \ {0}
      BY <3>1, <3>2, EmptySeq DEF IsSeq
    <3>4. 1 \in 1..Len(mandate.grants)
      BY <3>3
    <3> QED  BY <3>4
  <2>5. TypeOK'
    BY <2>2, <2>3, <2>4 DEF IInv, TypeOK, Questions
  <2>6. StillInQuestion' /\ FailureTraced'
    BY <1>3, <2>3 DEF StillInQuestion, FailureTraced, Judgeable
  <2> QED  BY <2>1, <2>5, <2>6, Continued
<1> QED  BY <1>2, <1>3

LEMMA TypeFieldsStep == IInv /\ TypeFields => IInv'
<1> SUFFICES ASSUME IInv, TypeFields PROVE IInv'
  OBVIOUS
<1> DEFINE typed ==
      {i \in grants : ~type_shape_problem(transaction.action, Grant(i).type_fields)}
<1>1. pc = "type_fields" /\ Judgeable(mandate, transaction)
  BY DEF TypeFields, IInv, StillInQuestion, Questions
<1>2. /\ grants = 1..Len(mandate.grants) /\ IsSeq(trace)
      /\ Addressed(mandate, transaction) \subseteq typed
  BY <1>1 DEF IInv, StillInQuestion, TypeOK, Addressed, type_shape_problem, Grant
<1>3. CASE typed = {}
  <2>1. Deny({}, pred("type_fields", "FAIL", {}))
    BY <1>3 DEF TypeFields
  <2>2. ~Permitted(mandate, transaction, "allow") /\ ~Permitted(mandate, transaction, "hold")
    BY <1>2, <1>3 DEF Permitted, Grants
  <2>3. pred("type_fields", "FAIL", {}).result = "FAIL"
    BY DEF pred
  <2> QED  BY <2>1, <2>2, <2>3, Denied
<1>4. CASE typed # {}
  <2> DEFINE tr == Append(trace, pred("type_fields", "PASS", {}))
  <2>1. Continue("action_binding", typed, tr)
    BY <1>4 DEF TypeFields
  <2>2. IsSeq(tr)
    BY <1>2, Appended
  <2>3. typed = {i \in 1..Len(mandate.grants) :
                   ~type_shape_problem(transaction.action, mandate.grants[i].type_fields)}
    BY <1>2 DEF Grant
  <2> HIDE DEF tr, typed
  <2>4. /\ call' = call /\ mandate' = mandate /\ transaction' = transaction
        /\ pc' = "action_binding" /\ grants' = typed /\ trace' = tr
        /\ UNCHANGED <<records, answers>>
    BY <2>1 DEF Continue, mandate, transaction
  <2>5. TypeOK'
    BY <1>4, <2>2, <2>3, <2>4 DEF IInv, TypeOK, Questions
  <2>6. StillInQuestion' /\ FailureTraced'
    BY <1>1, <2>3, <2>4 DEF StillInQuestion, FailureTraced
  <2> QED  BY <2>1, <2>5, <2>6, Continued
<1> QED  BY <1>3, <1>4

LEMMA ActionBindingStep == IInv /\ ActionBinding => IInv'
<1> SUFFICES ASSUME IInv, ActionBinding PROVE IInv'
  OBVIOUS
<1> DEFINE matched == {i \in grants : Grant(i).action_binding = action_digest(transaction)}
<1>1. pc = "action_binding" /\ Judgeable(mandate, transaction) /\ IsSeq(trace)
  BY DEF ActionBinding, IInv, StillInQuestion, Questions, TypeOK
<1>2. matched = Addressed(mandate, transaction)
  BY <1>1 DEF IInv, StillInQuestion, Addressed, type_shape_problem, Grant, Judgeable,
              action_digest, digest
<1>3. CASE matched = {}
  <2>1. Deny({}, pred("action_binding", "FAIL", {}))
    BY <1>3 DEF ActionBinding
  <2>2. ~Permitted(mandate, transaction, "allow") /\ ~Permitted(mandate, transaction, "hold")
    BY <1>2, <1>3 DEF Permitted, Grants
  <2>3. pred("action_binding", "FAIL", {}).result = "FAIL"
    BY DEF pred
  <2> QED  BY <2>1, <2>2, <2>3, Denied
<1>4. CASE matched # {}
  <2> DEFINE tr == Append(trace, pred("action_binding", "PASS", {}))
  <2>1. Continue("disposition", matched, tr)
    BY <1>4 DEF ActionBinding
  <2>2. IsSeq(tr)
    BY <1>1, Appended
  <2>3. matched \subseteq 1..Len(mandate.grants)
    BY <1>2 DEF Addressed
  <2> HIDE DEF tr, matched
  <2>4. /\ call' = call /\ mandate' = mandate /\ transaction' = transaction
        /\ pc' = "disposition" /\ grants' = matched /\ trace' = tr
        /\ UNCHANGED <<records, answers>>
    BY <2>1 DEF Continue, mandate, transaction
  <2>5. TypeOK'
    BY <1>4, <2>2, <2>3, <2>4 DEF IInv, TypeOK, Questions
  <2>6. StillInQuestion' /\ FailureTraced'
    BY <1>1, <1>2, <2>4 DEF StillInQuestion, FailureTraced
  <2> QED  BY <2>1, <2>5, <2>6, Continued
<1> QED  BY <1>3, <1>4

LEMMA DispositionStep == IInv /\ Disposition => IInv'
<1> SUFFICES ASSUME IInv, Disposition PROVE IInv'
  OBVIOUS
<1> DEFINE forbidden == {i \in grants : Grant(i).disposition = "forbid"}
<1>1. /\ pc = "disposition" /\ Judgeable(mandate, transaction) /\ grants # {}
      /\ grants = Addressed(mandate, transaction) /\ grants \subseteq 1..Len(mandate.grants)
  BY DEF Disposition, IInv, StillInQuestion, Questions, TypeOK
<1>2. forbidden = Forbids(mandate, transaction)
  BY <1>1 DEF Forbids, Grant
<1>3. CASE forbidden # {}
  <2>1. Deny({First(forbidden)}, pred("disposition", "FAIL", {}))
    BY <1>3 DEF Disposition
  <2>2. ~Permitted(mandate, transaction, "allow") /\ ~Permitted(mandate, transaction, "hold")
    BY <1>2, <1>3 DEF Permitted
  <2>3. pred("disposition", "FAIL", {}).result = "FAIL"
    BY DEF pred
  <2>4. forbidden \subseteq Nat
    BY <1>1, MandateShape DEF IInv, TypeOK, mandate
  <2>5. First(forbidden) \in forbidden
    BY <1>3, <2>4, FirstIsLeast
  <2> QED  BY <1>2, <2>1, <2>2, <2>3, <2>5, Denied
<1>4. CASE forbidden = {}
  <2>1. Continue("constraints", grants, trace)
    BY <1>4 DEF Disposition
  <2>2. /\ call' = call /\ mandate' = mandate /\ transaction' = transaction
        /\ pc' = "constraints" /\ grants' = grants /\ trace' = trace
        /\ UNCHANGED <<records, answers>>
    BY <2>1 DEF Continue, mandate, transaction
  <2>3. TypeOK'
    BY <2>2 DEF IInv, TypeOK, Questions
  <2>4. StillInQuestion' /\ FailureTraced'
    BY <1>1, <1>2, <1>4, <2>2 DEF StillInQuestion, FailureTraced
  <2> QED  BY <2>1, <2>3, <2>4, Continued
<1> QED  BY <1>3, <1>4

LEMMA UnsatisfiedStep == IInv /\ Unsatisfied => IInv'
<1> SUFFICES ASSUME IInv, Unsatisfied PROVE IInv'
  OBVIOUS
<1> DEFINE r == NewRecord("DENY", {}, trace)
<1>1. pc = "constraints" /\ grants = {} /\ Return("DENY", {}, trace)
  BY DEF Unsatisfied
<1>2. /\ r.core.verdict = "DENY" /\ r.core.grant_index = {} /\ r.core.trace = trace
      /\ Mandate[r.mandate] = mandate /\ Transaction[r.transaction] = transaction
  BY DEF NewRecord, Core, mandate, transaction
<1> HIDE DEF r
<1>3. Grants(mandate, transaction) = {}
  BY <1>1 DEF IInv, StillInQuestion, Grants
<1>4. FollowsGrants(r)
  BY <1>2, <1>3 DEF FollowsGrants, Permitted
<1>5. Accounted(r)
  BY <1>1, <1>2 DEF Accounted, IInv, FailureTraced
<1>6. IsSeq(trace)
  BY DEF IInv, TypeOK
<1> QED
  BY <1>1, <1>4, <1>5, <1>6, Returned DEF r

\* The loop over the matched grants: the first one left decides, or is passed over.
LEMMA ConstraintsStep == IInv /\ Constraints => IInv'
<1> SUFFICES ASSUME IInv, Constraints PROVE IInv'
  OBVIOUS
<1> DEFINE i == First(grants)
           g == mandate.grants[i]
           tr == trace \o preds(i)
           A == Addressed(mandate, transaction)
<1>1. /\ pc = "constraints" /\ grants # {} /\ Judgeable(mandate, transaction)
      /\ grants \subseteq A /\ Forbids(mandate, transaction) = {}
      /\ \A j \in A \ grants : /\ ~Satisfied(mandate.grants[j], transaction)
                              /\ \A k \in grants : j < k
  BY DEF Constraints, IInv, StillInQuestion, Questions
<1>2. TypeOK /\ IsSeq(trace) /\ A \subseteq 1..Len(mandate.grants) /\ A \subseteq Nat
  <2>1. TypeOK /\ IsSeq(trace) /\ A \subseteq 1..Len(mandate.grants)
    BY DEF IInv, TypeOK, Addressed
  <2>2. Len(mandate.grants) \in Nat
    BY MandateShape DEF IInv, TypeOK, mandate
  <2> QED  BY <2>1, <2>2
<1>3. i \in grants /\ i \in A /\ \A k \in grants : i <= k
  BY <1>1, <1>2, FirstIsLeast
<1>4. /\ IsSeq(preds(i)) /\ Len(preds(i)) = Len(g.constraints) /\ Len(g.constraints) \in Nat
      /\ AllPass(preds(i)) <=> Satisfied(g, transaction)
      /\ \A k \in 1..Len(preds(i)) : preds(i)[k].result \in {"PASS", "FAIL"}
  BY <1>2, <1>3, GrantJudged
<1> HIDE DEF i, A
<1>5. /\ IsSeq(tr) /\ Len(tr) = Len(trace) + Len(preds(i))
      /\ \A k \in 1..Len(preds(i)) : tr[Len(trace) + k] = preds(i)[k]
  <2>1. IsSeq(trace) /\ IsSeq(preds(i))
    BY <1>2, <1>4
  <2> QED  BY <2>1, Concatenated
<1>6. Len(trace) \in Nat /\ Len(preds(i)) \in Nat
  BY <1>2, <1>4, LenOfSeq
<1> HIDE DEF tr
<1>7. CASE AllPass(preds(i))
  <2> DEFINE verdict == IF g.disposition = "allow" THEN "PERMIT" ELSE "PENDING"
             whole == Append(tr, pred("disposition", "PASS", {}))
             r == NewRecord(verdict, {i}, whole)
  <2>1. Return(verdict, {i}, whole)
    BY <1>7 DEF Constraints, Grant, i, tr
  <2>2. /\ r.core.verdict = verdict /\ r.core.grant_index = {i} /\ r.core.trace = whole
        /\ r.mandate = call.mandate
        /\ Mandate[r.mandate] = mandate /\ Transaction[r.transaction] = transaction
    BY DEF NewRecord, Core, mandate, transaction
  <2> HIDE DEF r
  <2>3. g.disposition \in {"allow", "hold"}
    <3>1. g.disposition \in DISPOSITIONS
      BY <1>1, <1>2, <1>3 DEF Judgeable, mandate_problem, grant_shape_ok
    <3>2. g.disposition # "forbid"
      BY <1>1, <1>3 DEF Forbids, A
    <3> QED  BY <3>1, <3>2 DEF DISPOSITIONS
  <2>4. i \in Grants(mandate, transaction) /\ \A k \in Grants(mandate, transaction) : i <= k
    BY <1>1, <1>3, <1>4, <1>7 DEF Grants, A
  <2>5. Grants(mandate, transaction) \subseteq Nat
    BY <1>2 DEF Grants, A
  <2>6. \A d : Permitted(mandate, transaction, d) <=> g.disposition = d
    <3>1. ASSUME NEW k \in Grants(mandate, transaction),
                 \A l \in Grants(mandate, transaction) : k <= l
          PROVE  k = i
      BY <2>4, <2>5, <3>1
    <3> QED  BY <1>1, <2>4, <3>1 DEF Permitted
  <2>7. FollowsGrants(r)
    BY <1>3, <2>2, <2>3, <2>6 DEF FollowsGrants, A
  <2>8. Accounted(r)
    <3>1. /\ Len(whole) = Len(tr) + 1 /\ whole[Len(tr) + 1] = pred("disposition", "PASS", {})
          /\ \A k \in 1..Len(tr) : whole[k] = tr[k]
      BY <1>5, Appended
    <3> DEFINE n == Len(whole)
               c == Len(g.constraints)
    <3>2. whole[n].predicate = "disposition" /\ whole[n].result = "PASS" /\ c < n
      BY <1>4, <1>5, <3>1 DEF pred
    <3>3. ASSUME NEW k \in (n - c)..n PROVE whole[k].result = "PASS"
      <4>1. CASE k = n
        BY <3>2, <4>1
      <4>2. CASE k # n
        <5>1. k - Len(trace) \in 1..Len(preds(i)) /\ k \in 1..Len(tr)
          <6>1. n = Len(trace) + Len(preds(i)) + 1 /\ c = Len(preds(i))
            BY <1>4, <1>5, <1>6, <3>1
          <6>2. Len(tr) = Len(trace) + Len(preds(i))
            BY <1>5
          <6> HIDE DEF n, c
          <6> QED  BY <1>6, <4>2, <6>1, <6>2
        <5>2. tr[Len(trace) + (k - Len(trace))] = preds(i)[k - Len(trace)]
          BY <1>5, <5>1
        <5>3. k = Len(trace) + (k - Len(trace))
          BY <1>6, <5>1
        <5> QED  BY <1>7, <3>1, <5>1, <5>2, <5>3 DEF AllPass
      <4> QED  BY <4>1, <4>2
    <3> QED  BY <2>2, <2>3, <3>2, <3>3 DEF Accounted
  <2>9. IsSeq(whole)
    BY <1>5, Appended
  <2> QED  BY <2>1, <2>3, <2>7, <2>8, <2>9, Returned DEF r
<1>8. CASE ~AllPass(preds(i))
  <2>1. Continue("constraints", grants \ {i}, tr)
    BY <1>8 DEF Constraints, i, tr
  <2>2. /\ call' = call /\ mandate' = mandate /\ transaction' = transaction
        /\ pc' = "constraints" /\ grants' = grants \ {i} /\ trace' = tr
        /\ UNCHANGED <<records, answers>>
    BY <2>1 DEF Continue, mandate, transaction
  <2>3. TypeOK'
    BY <1>2, <1>5, <2>2 DEF TypeOK, Questions
  <2>4. \A j \in A \ (grants \ {i}) : /\ ~Satisfied(mandate.grants[j], transaction)
                                    /\ \A k \in grants \ {i} : j < k
    <3>1. ~Satisfied(mandate.grants[i], transaction)
      BY <1>4, <1>8
    <3>2. \A k \in grants \ {i} : i < k
      BY <1>1, <1>2, <1>3
    <3> QED  BY <1>1, <3>1, <3>2
  <2>5. StillInQuestion'
    BY <1>1, <2>2, <2>4 DEF StillInQuestion, A
  <2>6. FailureTraced'
    <3>1. PICK k \in 1..Len(preds(i)) : preds(i)[k].result = "FAIL"
      BY <1>4, <1>8 DEF AllPass
    <3>2. tr[Len(trace) + k].result = "FAIL"
      BY <1>5, <3>1
    <3>3. Len(trace) + k \in 1..Len(tr)
      <4>1. Len(tr) = Len(trace) + Len(preds(i))
        BY <1>5
      <4> QED  BY <1>6, <4>1
    <3> QED  BY <2>2, <3>2, <3>3 DEF FailureTraced
  <2> QED  BY <2>1, <2>3, <2>5, <2>6, Continued
<1> QED  BY <1>7, <1>8

----------------------------------------------------------------------------
\* ratify() and what happens around the kernel.

OUTCOMES == {"RATIFIED", "REJECTED", "RatifyError", "EXCEPTION"}

\* The authority that counts is the first entry of its name.
LEMMA FirstEntry ==
  ASSUME NEW id \in DOMAIN Mandate, NEW did, EntriesOf(Mandate[id], did) # {}
  PROVE  LET listed == mandate_authorities(Mandate[id])
             i == First(EntriesOf(Mandate[id], did))
         IN  /\ i \in 1..Len(listed) /\ listed[i].did = did
             /\ \A k \in 1..(i - 1) : listed[k].did # did
<1> DEFINE listed == mandate_authorities(Mandate[id])
           S == EntriesOf(Mandate[id], did)
           i == First(S)
<1>1. IsSeq(listed)
  <2>1. IsSeq(Mandate[id].principal) /\ IsSeq(Mandate[id].ratification_authorities)
    BY MandateShape
  <2>2. IsSeq(Mandate[id].principal \o Mandate[id].ratification_authorities) /\ IsSeq(<<>>)
    BY <2>1, Concatenated, EmptySeq DEF IsSeq
  <2> QED  BY <2>2 DEF mandate_authorities
<1>2. S = {k \in 1..Len(listed) : listed[k].did = did}
  BY DEF EntriesOf
<1> HIDE DEF listed
<1>3. Len(listed) \in Nat
  BY <1>1, LenOfSeq
<1>4. S \subseteq Nat /\ S # {}
  BY <1>2, <1>3
<1> HIDE DEF S
<1>5. i \in S /\ \A k \in S : i <= k
  BY <1>4, FirstIsLeast
<1> HIDE DEF i
<1>6. \A k \in 1..(i - 1) : listed[k].did # did
  BY <1>2, <1>3, <1>5
<1> QED
  BY <1>2, <1>5, <1>6 DEF listed, i, S

LEMMA EntriesPass ==
  ASSUME NEW x, NEW y, NEW z
  PROVE  /\ AllPass(<<x>>) <=> x.result = "PASS"
         /\ AllPass(<<x, y>>) <=> x.result = "PASS" /\ y.result = "PASS"
         /\ AllPass(<<x, y, z>>) <=> x.result = "PASS" /\ y.result = "PASS" /\ z.result = "PASS"
<1>1. \A s : AllPass(s) <=> \A k \in 1..Len(s) : s[k].result = "PASS"
  BY DEF AllPass
<1>2. AllPass(<<x>>) <=> x.result = "PASS"
  <2>1. Len(<<x>>) = 1 /\ <<x>>[1] = x /\ \A k \in 1..1 : k = 1
    OBVIOUS
  <2> QED  BY <1>1, <2>1
<1>3. AllPass(<<x, y>>) <=> x.result = "PASS" /\ y.result = "PASS"
  <2>1. /\ Len(<<x, y>>) = 2 /\ <<x, y>>[1] = x /\ <<x, y>>[2] = y
        /\ \A k : k \in 1..2 <=> k = 1 \/ k = 2
    OBVIOUS
  <2>2. AllPass(<<x, y>>) <=> \A k \in 1..2 : <<x, y>>[k].result = "PASS"
    BY <1>1, <2>1
  <2> QED  BY <2>1, <2>2
<1>4. AllPass(<<x, y, z>>) <=> x.result = "PASS" /\ y.result = "PASS" /\ z.result = "PASS"
  <2>1. /\ Len(<<x, y, z>>) = 3
        /\ <<x, y, z>>[1] = x /\ <<x, y, z>>[2] = y /\ <<x, y, z>>[3] = z
        /\ \A k \in 1..3 : k = 1 \/ k = 2 \/ k = 3
    OBVIOUS
  <2> QED  BY <1>1, <2>1
<1> QED  BY <1>2, <1>3, <1>4

LEMMA RatifyRecordOutcome ==
  ASSUME NEW core, NEW decision, NEW p, NEW entries
  PROVE  LET a == RatifyRecord(core, decision, p, entries) IN
         /\ a.outcome \in OUTCOMES
         /\ a.outcome = "RATIFIED" <=> AllPass(entries)
         /\ a.ratifies = {core} /\ a.decision = decision
         /\ a.outcome = "RATIFIED" => a.authority = {p.authority}
  BY DEF RatifyRecord, OUTCOMES

\* The proof is accepted exactly if the mandate is the one the core names and the first
\* entry of the authority's name has signed; the record made of it says by whom.
LEMMA JudgedExactly ==
  ASSUME NEW core, NEW decision,
         NEW p \in [mandate : Shown, authority : Did, signature : Optional(signed)]
  PROVE  LET m == Mandate[p.mandate]
             a == Judged(core, decision, p)
         IN  /\ a.outcome \in OUTCOMES
             /\ a.outcome = "RATIFIED" <=>
                  /\ core.mandate_digest = Supplied(p.mandate) /\ m.authorities_iterable
                  /\ SignedByAuthority(m, core, p.authority, decision, p.signature)
             /\ a.outcome = "RATIFIED" =>
                  a.ratifies = {core} /\ a.decision = decision /\ a.authority = {p.authority}
<1> DEFINE m == Mandate[p.mandate]
           a == Judged(core, decision, p)
           listed == mandate_authorities(m)
           S == EntriesOf(m, p.authority)
           i == First(S)
           bound == Supplied(p.mandate) = core.mandate_digest
           ok == ed25519_verify(listed[i].key, p.signature, core, decision, p.authority)
           B == ratify_pred("mandate_binding", Verdict(bound))
           N == ratify_pred("authority_in_mandate", Verdict(S # {}))
           G == ratify_pred("authority_signature", Verdict(ok))
           signs == SignedByAuthority(m, core, p.authority, decision, p.signature)
<1>1. a = IF ~bound THEN RatifyRecord(core, decision, p, <<B>>)
          ELSE IF ~m.authorities_iterable THEN Raised("EXCEPTION")
          ELSE IF S = {} THEN RatifyRecord(core, decision, p, <<B, N>>)
          ELSE RatifyRecord(core, decision, p, <<B, N, G>>)
  BY DEF Judged
<1>2. /\ B.result = "PASS" <=> bound
      /\ N.result = "PASS" <=> S # {}
      /\ G.result = "PASS" <=> ok
  BY DEF ratify_pred, pred, Verdict
<1>3. signs <=> S # {} /\ ok
  <2>1. S = {k \in 1..Len(listed) : listed[k].did = p.authority}
    BY DEF EntriesOf
  <2>2. p.mandate \in DOMAIN Mandate
    BY CallsAssumption
  <2>3. S # {} => /\ i \in 1..Len(listed) /\ listed[i].did = p.authority
                  /\ \A k \in 1..(i - 1) : listed[k].did # p.authority
    BY <2>2, FirstEntry
  <2>4. ASSUME NEW k \in 1..Len(listed), listed[k].did = p.authority,
               \A n \in 1..(k - 1) : listed[n].did # p.authority
        PROVE  k = i
    <3>1. k \in S
      BY <2>1, <2>4
    <3>2. /\ i \in 1..Len(listed) /\ listed[i].did = p.authority
          /\ \A n \in 1..(i - 1) : listed[n].did # p.authority
      BY <2>3, <3>1
    <3> HIDE DEF i, listed, S
    <3>3. ~(i < k) /\ ~(k < i) /\ i \in Int /\ k \in Int
      BY <2>4, <3>2
    <3> QED  BY <3>3
  <2>5. \A key : LET s == [key |-> key, authority |-> p.authority, ratifies |-> core,
                           decision |-> decision]
                 IN  s \in p.signature <=> p.signature = {s}
    BY DEF Optional
  <2>6. signs <=> \E k \in 1..Len(listed) :
                    /\ listed[k].did = p.authority
                    /\ \A n \in 1..(k - 1) : listed[n].did # p.authority
                    /\ [key |-> listed[k].key, authority |-> p.authority, ratifies |-> core,
                        decision |-> decision] \in p.signature
    BY DEF SignedByAuthority
  <2>7. ok <=> [key |-> listed[i].key, authority |-> p.authority, ratifies |-> core,
                decision |-> decision] \in p.signature
    BY <2>5 DEF ed25519_verify
  <2>8. \A k \in 1..Len(listed) : listed[k].did = p.authority => k \in S
    BY <2>1
  <2> HIDE DEF signs, ok, i, S, listed, m
  <2> QED  BY <2>3, <2>4, <2>6, <2>7, <2>8
<1> HIDE DEF B, N, G, a, ok, S, bound, listed, i, m, signs
<1>4. Raised("EXCEPTION").outcome = "EXCEPTION"
  BY DEF Raised
<1>5. a.outcome \in OUTCOMES
  BY <1>1, <1>4, RatifyRecordOutcome DEF OUTCOMES
<1>6. a.outcome = "RATIFIED" <=> bound /\ m.authorities_iterable /\ S # {} /\ ok
  BY <1>1, <1>2, <1>4, EntriesPass, RatifyRecordOutcome
<1>7. a.outcome = "RATIFIED" => a = RatifyRecord(core, decision, p, <<B, N, G>>)
  BY <1>1, <1>6
<1> QED
  BY <1>3, <1>5, <1>6, <1>7, RatifyRecordOutcome DEF a, m, bound, signs

LEMMA JudgedIsAuthorized ==
  ASSUME NEW core \in Cores, core.verdict # "PERMIT", NEW decision,
         NEW p \in [mandate : Shown, authority : Did, signature : Optional(signed)]
  PROVE  LET a == Judged(core, decision, p) IN a.outcome \in OUTCOMES /\ Authorized(a)
<1> DEFINE a == Judged(core, decision, p)
<1>1. ASSUME a.outcome = "RATIFIED" PROVE Authorized(a)
  <2>1. /\ core.mandate_digest = Supplied(p.mandate)
        /\ SignedByAuthority(Mandate[p.mandate], core, p.authority, decision, p.signature)
        /\ a.ratifies = {core} /\ a.decision = decision /\ a.authority = {p.authority}
    BY <1>1, JudgedExactly
  <2>2. \A id \in core.mandate_digest : id = p.mandate
    BY <2>1 DEF Supplied, mandate_digest, digest
  <2>3. SignedByAuthority(Mandate[p.mandate], core, p.authority, decision, signed)
    <3>1. p.signature \subseteq signed
      BY DEF Optional
    <3> QED  BY <2>1, <3>1 DEF SignedByAuthority
  <2> HIDE DEF a
  <2> QED  BY <2>1, <2>2, <2>3 DEF Authorized
<1>2. ASSUME a.outcome # "RATIFIED" PROVE Authorized(a)
  BY <1>2 DEF Authorized
<1>3. a.outcome \in OUTCOMES
  BY JudgedExactly
<1> QED
  BY <1>1, <1>2, <1>3

\* ratify() as a whole: which of its guards and checks comes first makes no difference to
\* whether the answer is RATIFIED.
LEMMA AnsweredExactly ==
  ASSUME NEW core, NEW claimed, NEW prev, NEW decision \in {"APPROVED", "DISAPPROVED", "none"},
         NEW p \in Proofs
  PROVE  RatifyAnswer([core |-> {core}, core_digest |-> claimed], decision, {p}, prev).outcome
             = "RATIFIED" <=> Due(core, claimed, prev, decision, p)
<1> DEFINE prior == [core |-> {core}, core_digest |-> claimed]
           a == RatifyAnswer(prior, decision, {p}, prev)
<1>1. (CHOOSE c \in {core} : TRUE) = core /\ (CHOOSE x \in {p} : TRUE) = p /\ {p} # {}
  OBVIOUS
<1>2. a = IF RatifyError(prior, decision, prev) THEN Raised("RatifyError")
          ELSE IF "mandate_digest" \notin DOMAIN core THEN Raised("EXCEPTION")
          ELSE Judged(core, decision, p)
  BY <1>1 DEF RatifyAnswer
<1>3. ~RatifyError(prior, decision, prev) <=>
        /\ claimed = core_digest(core) /\ claimed # {} /\ prev \in {{}, claimed}
        /\ core.verdict \in {"DENY", "PENDING"} /\ decision # "none"
  BY DEF RatifyError
<1>4. /\ Raised("RatifyError").outcome # "RATIFIED"
      /\ Raised("EXCEPTION").outcome # "RATIFIED"
  BY DEF Raised
<1> HIDE DEF a, prior
<1>5. a.outcome = "RATIFIED" <=>
        /\ ~RatifyError(prior, decision, prev) /\ "mandate_digest" \in DOMAIN core
        /\ Judged(core, decision, p).outcome = "RATIFIED"
  BY <1>2, <1>4
<1> QED  BY <1>3, <1>5, JudgedExactly DEF a, prior, Due, Proofs

LEMMA RatifyIsAuthorized ==
  ASSUME NEW candidates \in Optional(Cores), NEW claimed, NEW prev, NEW decision,
         NEW proof \in
           Optional([mandate : Shown, authority : Did, signature : Optional(signed)])
  PROVE  LET a == RatifyAnswer([core |-> candidates, core_digest |-> claimed], decision, proof,
                               prev)
         IN  a.outcome \in OUTCOMES /\ Authorized(a)
<1> DEFINE prior == [core |-> candidates, core_digest |-> claimed]
           a == RatifyAnswer(prior, decision, proof, prev)
           core == CHOOSE c \in prior.core : TRUE
           p == CHOOSE x \in proof : TRUE
<1>1. /\ Raised("RatifyError").outcome = "RatifyError"
      /\ Raised("EXCEPTION").outcome = "EXCEPTION"
      /\ Unproved(core, decision).outcome = "REJECTED"
  BY DEF Raised, Unproved
<1>2. a = IF RatifyError(prior, decision, prev) THEN Raised("RatifyError")
          ELSE IF "mandate_digest" \notin DOMAIN core THEN Raised("EXCEPTION")
          ELSE IF proof = {} THEN Unproved(core, decision)
          ELSE Judged(core, decision, p)
  BY DEF RatifyAnswer
<1>3. CASE ~RatifyError(prior, decision, prev) /\ proof # {} /\ "mandate_digest" \in DOMAIN core
  <2>1. candidates # {} /\ \A c \in candidates : c.verdict \in {"DENY", "PENDING"}
    BY <1>3 DEF RatifyError
  <2>2. core \in Cores /\ core.verdict # "PERMIT"
    BY <2>1 DEF Optional
  <2>3. p \in [mandate : Shown, authority : Did, signature : Optional(signed)]
    BY <1>3 DEF Optional
  <2>4. a = Judged(core, decision, p)
    BY <1>2, <1>3
  <2> HIDE DEF a, core, p
  <2> QED  BY <2>2, <2>3, <2>4, JudgedIsAuthorized DEF a
<1>4. CASE RatifyError(prior, decision, prev) \/ proof = {} \/ "mandate_digest" \notin DOMAIN core
  <2>1. a.outcome \in {"RatifyError", "EXCEPTION", "REJECTED"}
    BY <1>1, <1>2, <1>4
  <2> QED  BY <2>1 DEF OUTCOMES, Authorized
<1> QED  BY <1>3, <1>4

LEMMA RatifyStep == IInv /\ Ratify => IInv'
<1> SUFFICES ASSUME IInv, Ratify PROVE IInv'
  OBVIOUS
<1>1. PICK a : answers' = Append(answers, a) /\ a.outcome \in OUTCOMES /\ Authorized(a)
  BY RatifyIsAuthorized DEF Ratify
<1>2. UNCHANGED <<call, pc, grants, trace, records, signed>>
  BY DEF Ratify, checkVars
<1>3. IsSeq(answers)
  BY DEF IInv, TypeOK
<1>4. /\ IsSeq(answers') /\ Len(answers') = Len(answers) + 1 /\ Len(answers) \in Nat
      /\ \A n \in 1..Len(answers) : answers'[n] = answers[n]
      /\ answers'[Len(answers) + 1] = a
  BY <1>1, <1>3, Appended, LenOfSeq
<1>5. \A n \in 1..Len(answers') : n \in 1..Len(answers) \/ answers'[n] = a
  BY <1>4
<1>6. TypeOK'
  BY <1>1, <1>2, <1>4, <1>5 DEF IInv, TypeOK, OUTCOMES, mandate
<1>7. StillInQuestion' /\ FailureTraced' /\ DecisionsFollowGrants' /\ TraceAccounts'
  BY <1>2 DEF IInv, StillInQuestion, FailureTraced, DecisionsFollowGrants, TraceAccounts,
              mandate, transaction
<1>8. RatifiedByAuthority'
  <2>1. ASSUME NEW x, Authorized(x) PROVE Authorized(x)'
    BY <1>2, <2>1 DEF Authorized, SignedByAuthority, Cores
  <2>2. \A n \in 1..Len(answers') : Authorized(answers'[n])
    BY <1>1, <1>4, <1>5 DEF IInv, RatifiedByAuthority
  <2> QED  BY <2>1, <2>2 DEF RatifiedByAuthority
<1> QED
  BY <1>6, <1>7, <1>8 DEF IInv

LEMMA CallStep == IInv /\ Call => IInv'
<1> SUFFICES ASSUME IInv, Call PROVE IInv'
  OBVIOUS
<1>1. /\ pc' = "shape" /\ UNCHANGED <<grants, trace, records, signed, answers>>
      /\ grants = {} /\ trace = <<>>
      /\ call'.mandate \in DOMAIN Mandate /\ call'.transaction \in DOMAIN Transaction
  BY CallsAssumption DEF Call, IInv, TypeOK
<1>2. TypeOK' /\ StillInQuestion' /\ FailureTraced'
  BY <1>1 DEF IInv, TypeOK, StillInQuestion, FailureTraced, Questions
<1>3. DecisionsFollowGrants' /\ TraceAccounts'
  BY <1>1 DEF IInv, DecisionsFollowGrants, TraceAccounts
<1>4. RatifiedByAuthority'
  BY <1>1 DEF IInv, RatifiedByAuthority, Authorized, Cores
<1> QED
  BY <1>2, <1>3, <1>4 DEF IInv

LEMMA SignStep == IInv /\ Sign => IInv'
<1> SUFFICES ASSUME IInv, Sign PROVE IInv'
  OBVIOUS
<1>1. signed \subseteq signed' /\ UNCHANGED <<call, pc, grants, trace, records, answers>>
  BY DEF Sign, checkVars
<1>2. TypeOK' /\ StillInQuestion' /\ FailureTraced'
  BY <1>1 DEF IInv, TypeOK, StillInQuestion, FailureTraced, mandate, transaction
<1>3. DecisionsFollowGrants' /\ TraceAccounts'
  BY <1>1 DEF IInv, DecisionsFollowGrants, TraceAccounts
<1>4. RatifiedByAuthority'
  <2>1. ASSUME NEW x, Authorized(x) PROVE Authorized(x)'
    BY <1>1, <2>1 DEF Authorized, SignedByAuthority, Cores
  <2> QED  BY <1>1, <2>1 DEF IInv, RatifiedByAuthority
<1> QED
  BY <1>2, <1>3, <1>4 DEF IInv

----------------------------------------------------------------------------
\* The inductive invariant, and the theorems.

LEMMA InitIInv == Init => IInv
<1> SUFFICES ASSUME Init PROVE IInv
  OBVIOUS
<1>1. IsSeq(<<>>) /\ Len(<<>>) = 0
  BY EmptySeq DEF IsSeq
<1>2. call.mandate \in DOMAIN Mandate /\ call.transaction \in DOMAIN Transaction
  BY CallsAssumption DEF Init
<1>3. TypeOK /\ RatifiedByAuthority
  BY <1>1, <1>2 DEF Init, TypeOK, Questions, RatifiedByAuthority
<1> QED
  BY <1>3 DEF Init, IInv, StillInQuestion, FailureTraced, DecisionsFollowGrants, TraceAccounts

LEMMA NextIInv == IInv /\ [Next]_vars => IInv'
<1> SUFFICES ASSUME IInv, [Next]_vars PROVE IInv'
  OBVIOUS
<1>1. CASE EnforceCheck
  BY <1>1, ShapeStep, TypeFieldsStep, ActionBindingStep, DispositionStep, ConstraintsStep,
     UnsatisfiedStep DEF EnforceCheck
<1>2. CASE Call \/ Sign \/ Ratify
  BY <1>2, CallStep, SignStep, RatifyStep
<1>3. CASE UNCHANGED vars
  BY <1>3 DEF vars, IInv, TypeOK, StillInQuestion, FailureTraced, DecisionsFollowGrants,
              TraceAccounts, RatifiedByAuthority, Authorized, Cores, mandate, transaction
<1> QED
  BY <1>1, <1>2, <1>3 DEF Next

\* The invariant of the kernel is inductive, for all mandates, transactions and caps.
THEOREM Invariance == Spec => []IInv
  BY InitIInv, NextIInv, PTL DEF Spec

\* A call is in progress exactly when a question is pending, about grants of its mandate.
THEOREM TypeCorrect == Spec => []TypeOK
<1>1. IInv => TypeOK  BY DEF IInv
<1> QED  BY <1>1, Invariance, PTL

\* Every verdict of enforce_check() is the one that its mandate gives.
THEOREM DecisionsAreGiven == Spec => []DecisionsFollowGrants
<1>1. IInv => DecisionsFollowGrants  BY DEF IInv
<1> QED  BY <1>1, Invariance, PTL

\* Every trace of enforce_check() accounts for its verdict.
THEOREM TracesAccount == Spec => []TraceAccounts
<1>1. IInv => TraceAccounts  BY DEF IInv
<1> QED  BY <1>1, Invariance, PTL

\* ratify() says RATIFIED only for what an authority of the mandate has signed.
THEOREM RatificationIsSigned == Spec => []RatifiedByAuthority
<1>1. IInv => RatifiedByAuthority  BY DEF IInv
<1> QED  BY <1>1, Invariance, PTL

\* What was signed for this record by the authority its mandate lists first is ratified,
\* and nothing else, whatever the order of the checks.
THEOREM RatificationIsExact == Spec => []RatifiesExactly
<1>1. RatifiesExactly
  BY AnsweredExactly, Zenon DEF RatifiesExactly
<1> QED  BY <1>1, PTL

----------------------------------------------------------------------------
\* The kernel implements Enforcement.

LEMMA SameWords ==
  /\ \A r : E!FollowsGrants(r) <=> FollowsGrants(r)
  /\ \A r : E!Accounted(r) <=> Accounted(r)
  /\ \A m, core, did, decision, statements :
       E!SignedByAuthority(m, core, did, decision, statements)
         <=> SignedByAuthority(m, core, did, decision, statements)
<1>0. \A f : E!Range(f) = Range(f)
  BY DEF E!Range, Range
<1>1. \A m, t : E!Judgeable(m, t) <=> Judgeable(m, t)
  <2>1. \A g : E!grant_shape_ok(g) <=> grant_shape_ok(g)
    BY <1>0 DEF E!grant_shape_ok, grant_shape_ok, E!type_fields_ok, type_fields_ok,
                E!DISPOSITIONS, DISPOSITIONS, E!TYPE_FIELD_VERB, TYPE_FIELD_VERB
  <2> QED  BY <2>1 DEF E!Judgeable, Judgeable, E!mandate_problem, mandate_problem
<1>2. \A m, t : E!Addressed(m, t) = Addressed(m, t)
  BY <1>0 DEF E!Addressed, Addressed
<1>3. \A g, t : E!Satisfied(g, t) <=> Satisfied(g, t)
  <2>1. \A c, x : E!Admits(c, x) <=> Admits(c, x)
    BY <1>0 DEF E!Admits, Admits, E!IsText, IsText, E!is_int, is_int
  <2> QED  BY <2>1 DEF E!Satisfied, Satisfied
<1>4. \A m, t : E!Forbids(m, t) = Forbids(m, t) /\ E!Grants(m, t) = Grants(m, t)
  BY <1>2, <1>3 DEF E!Forbids, Forbids, E!Grants, Grants
<1>5. \A m, t, d : E!Permitted(m, t, d) <=> Permitted(m, t, d)
  BY <1>1, <1>4 DEF E!Permitted, Permitted
<1>6. \A r : E!FollowsGrants(r) <=> FollowsGrants(r)
  BY <1>2, <1>5 DEF E!FollowsGrants, FollowsGrants
<1>7. \A r : E!Accounted(r) <=> Accounted(r)
  BY DEF E!Accounted, Accounted
<1> QED
  BY <1>6, <1>7 DEF E!SignedByAuthority, SignedByAuthority, E!mandate_authorities,
                    mandate_authorities

LEMMA DigestsNameCores == Digests \subseteq Cores
  BY DEF Digests, core_digest, digest

\* A call that returns is the abstract decision: its record names the call, and says what the
\* mandate says.
LEMMA ReturnDecides ==
  ASSUME IInv', pc # "idle", NEW verdict, NEW index, NEW tr, Return(verdict, index, tr)
  PROVE  E!Decide
<1> DEFINE r == NewRecord(verdict, index, tr)
<1>1. /\ r \in records' /\ records' = records \cup {r} /\ pc' = "idle"
      /\ UNCHANGED <<call, signed, answers>>
  BY DEF Return, NewRecord
<1>2. E!NamesItsCall(r)
  BY DEF E!NamesItsCall, NewRecord, Core, mandate_digest, transaction_digest, digest
<1> HIDE DEF r
<1>3. FollowsGrants(r) /\ Accounted(r)
  BY <1>1 DEF IInv, DecisionsFollowGrants, TraceAccounts
<1> QED
  BY <1>1, <1>2, <1>3, SameWords DEF E!Decide

LEMMA QuestionStep ==
  ASSUME EnforceCheck
  PROVE  /\ pc # "idle"
         /\ \/ \E verdict, index, tr : Return(verdict, index, tr)
            \/ \E question \in Questions : \E S, tr : Continue(question, S, tr)
<1>1. \A index, entry : Deny(index, entry) => \E verdict, i, tr : Return(verdict, i, tr)
  BY DEF Deny
<1>2. CASE Shape
  BY <1>1, <1>2 DEF Shape, Questions
<1>3. CASE TypeFields
  BY <1>1, <1>3 DEF TypeFields, Questions
<1>4. CASE ActionBinding
  BY <1>1, <1>4 DEF ActionBinding, Questions
<1>5. CASE Disposition
  BY <1>1, <1>5 DEF Disposition, Questions
<1>6. CASE Constraints
  BY <1>6 DEF Constraints, Questions
<1>7. CASE Unsatisfied
  BY <1>7 DEF Unsatisfied
<1> QED
  BY <1>2, <1>3, <1>4, <1>5, <1>6, <1>7 DEF EnforceCheck

LEMMA RatifyImplements ==
  ASSUME IInv, Ratify
  PROVE  E!Ratify
<1>1. PICK a : answers' = Append(answers, a) /\ Authorized(a)
  BY RatifyIsAuthorized DEF Ratify
<1>2. pc = "idle" /\ UNCHANGED <<call, pc, grants, trace, records, signed>>
  BY DEF Ratify, checkVars
<1>3. a \in Range(answers')
  <2>1. IsSeq(answers)
    BY DEF IInv, TypeOK
  <2>2. IsSeq(answers') /\ Len(answers') = Len(answers) + 1 /\ answers'[Len(answers) + 1] = a
    BY <1>1, <2>1, Appended
  <2>3. Len(answers) + 1 \in 1..Len(answers')
    BY <2>1, <2>2, LenOfSeq
  <2> QED  BY <2>2, <2>3, LenOfSeq
<1>4. E!BornOut(a)
  BY <1>1, SameWords DEF Authorized, E!BornOut, Cores, E!Cores
<1> QED
  BY <1>1, <1>2, <1>3, <1>4 DEF E!Ratify, E!Range, Range

LEMMA StepImplements ==
  ASSUME IInv, IInv', [Next]_vars
  PROVE  [E!Next]_(E!evars)
<1>1. CASE EnforceCheck
  <2>1. CASE \E verdict, index, tr : Return(verdict, index, tr)
    BY <1>1, <2>1, QuestionStep, ReturnDecides DEF E!Next
  <2>2. CASE \E question \in Questions : \E S, tr : Continue(question, S, tr)
    BY <1>1, <2>2, QuestionStep DEF Continue, Questions, E!evars
  <2> QED  BY <1>1, <2>1, <2>2, QuestionStep
<1>2. CASE Call
  <2>1. /\ pc = "idle" /\ pc' = "shape" /\ UNCHANGED <<records, signed, answers>>
        /\ call'.prev \in Optional(Digests)
    BY <1>2 DEF Call
  <2>2. call'.prev \subseteq E!Cores
    BY <2>1, DigestsNameCores DEF Optional, Cores, E!Cores
  <2> QED  BY <2>1, <2>2 DEF E!Next, E!Ask
<1>3. CASE Sign
  <2>1. PICK s : signed' = signed \cup {s} /\ s.ratifies \in Digests
    <3>1. PICK key \in Key, did \in Did, ratifies \in Digests,
               decision \in {"APPROVED", "DISAPPROVED"} :
            signed' = signed \cup {[key |-> key, authority |-> did, ratifies |-> ratifies,
                                   decision |-> decision]}
      BY <1>3 DEF Sign
    <3> DEFINE s == [key |-> key, authority |-> did, ratifies |-> ratifies, decision |-> decision]
    <3>2. signed' = signed \cup {s} /\ s.ratifies \in Digests
      BY <3>1
    <3> QED  BY <3>2, Zenon
  <2>2. pc = "idle" /\ UNCHANGED <<call, pc, grants, trace, records, answers>>
    BY <1>3 DEF Sign, checkVars
  <2>3. s \in signed' /\ s.ratifies \in E!Cores
    BY <2>1, DigestsNameCores DEF Cores, E!Cores
  <2> QED  BY <2>1, <2>2, <2>3 DEF E!Next, E!Sign
<1>4. CASE Ratify
  BY <1>4, RatifyImplements DEF E!Next
<1>5. CASE UNCHANGED vars
  BY <1>5 DEF vars, E!evars
<1> QED
  BY <1>1, <1>2, <1>3, <1>4, <1>5 DEF Next

\* A trace of a record that matches two entries has them both, in their order.
THEOREM TracesMatchInOrder == Spec => []MatchIsInOrder
<1>1. IInv => MatchIsInOrder
  <2> SUFFICES ASSUME IInv, NEW r \in records,
                      NEW i \in 1..Len(r.core.trace), NEW k \in 1..Len(r.core.trace),
                      trace_holds(<<r.core.trace[i], r.core.trace[k]>>, r.core.trace)
               PROVE  StandInOrder(<<r.core.trace[i], r.core.trace[k]>>, r.core.trace)
    BY DEF MatchIsInOrder
  <2> DEFINE expected == <<r.core.trace[i], r.core.trace[k]>>
  <2>1. IsSeq(r.core.trace)
    BY DEF IInv, TypeOK
  <2>2. IsSeq(expected)
    <3>1. expected \in Seq({r.core.trace[i], r.core.trace[k]})
      OBVIOUS
    <3> HIDE DEF expected
    <3> QED  BY <3>1, AnySeq
  <2>3. trace_holds(expected, r.core.trace)
    OBVIOUS
  <2> HIDE DEF expected
  <2>4. StandInOrder(expected, r.core.trace)
    BY <2>1, <2>2, <2>3, ScanIsExact DEF NamedInOrder, StandInOrder
  <2> QED
    BY <2>4 DEF expected
<1> QED
  BY <1>1, Invariance, PTL

\* enforce_check() and ratify() implement Enforcement: the initial states map to initial
\* states, and every step to one of its steps or to a stutter.
THEOREM Implements == Spec => ImplementsEnforcement
<1>1. Init => E!Init
  BY DEF Init, E!Init
<1> QED
  BY <1>1, Invariance, StepImplements, PTL DEF Spec, ImplementsEnforcement, E!Spec
=============================================================================
