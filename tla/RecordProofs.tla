---------------------------- MODULE RecordProofs ----------------------------
(***************************************************************************)
(* A record is determined by the mandate, the transaction and the link its *)
(* call was given, entry for entry: it is the DueRecord of its call.       *)
(*                                                                         *)
(* The entries of the grants tried before the one that decided are a       *)
(* recursive function of the grants; that it exists, and that it does not  *)
(* change where no grant is addressed, is shown by the smallest            *)
(* counterexample, as in TraceProofs.                                      *)
(***************************************************************************)
EXTENDS EnforceProofs

----------------------------------------------------------------------------
\* The entries so far.

Try(m, t, tried, n) ==
  IF n = 0 THEN Opening
  ELSE IF n \in Addressed(m, t) THEN tried[n - 1] \o Judgement(m.grants[n], t)
  ELSE tried[n - 1]

LEMMA TriedExists ==
  ASSUME NEW m, NEW t, NEW k \in Nat
  PROVE  \E tried : tried = [n \in 0..k |-> Try(m, t, tried, n)]
<1> DEFINE S == {i \in Nat : ~ \E c : c = [n \in 0..i |-> Try(m, t, c, n)]}
<1> SUFFICES ASSUME S # {} PROVE FALSE
  BY SMT
<1>1. PICK j \in S : \A n \in S : j <= n
  <2> HIDE DEF S
  <2>1. S \subseteq Nat
    BY DEF S
  <2> QED  BY <2>1, Smallest
<1>2. CASE j = 0
  <2> DEFINE c == [n \in 0..0 |-> Opening]
  <2>1. c = [n \in 0..0 |-> Try(m, t, c, n)]
    BY DEF Try
  <2> QED  BY <1>2, <2>1
<1>3. CASE j # 0
  <2>1. j - 1 \in Nat /\ j - 1 \notin S
    BY <1>1, <1>3
  <2>2. PICK c : c = [n \in 0..(j - 1) |-> Try(m, t, c, n)]
    BY <2>1
  <2> DEFINE d == [n \in 0..j |-> IF n = j THEN Try(m, t, c, j) ELSE c[n]]
  <2>3. \A n \in 0..j : d[n] = Try(m, t, d, n)
    <3>0. \A n \in 0..(j - 1) : c[n] = Try(m, t, c, n)
      BY <2>2
    <3>1. /\ \A n \in 0..(j - 1) : d[n] = c[n]
          /\ d[j] = Try(m, t, c, j) /\ j \in Nat
      OBVIOUS
    <3> HIDE DEF d
    <3>2. ASSUME NEW n \in 0..j, n # 0
          PROVE  d[n - 1] = c[n - 1]
      BY <3>1, <3>2
    <3>3. \A n \in 0..j : Try(m, t, d, n) = Try(m, t, c, n)
      BY <3>2 DEF Try
    <3> QED  BY <3>0, <3>1, <3>3
  <2> QED  BY <2>3
<1> QED
  BY <1>2, <1>3

LEMMA TriedAfter ==
  ASSUME NEW m, NEW t, Len(m.grants) \in Nat
  PROVE  LET tried == Tried(m, t) IN
         /\ tried[0] = Opening
         /\ \A n \in 1..Len(m.grants) :
              tried[n] = IF n \in Addressed(m, t) THEN tried[n - 1] \o Judgement(m.grants[n], t)
                         ELSE tried[n - 1]
<1> DEFINE P(c) == c = [n \in 0..Len(m.grants) |-> Try(m, t, c, n)]
<1>1. \E c : P(c)
  BY TriedExists
<1>2. Tried(m, t) = CHOOSE c : P(c)
  BY DEF Tried, Try
<1> HIDE DEF P
<1>3. P(Tried(m, t))
  BY <1>1, <1>2
<1>4. \A n \in 0..Len(m.grants) : Tried(m, t)[n] = Try(m, t, Tried(m, t), n)
  BY <1>3 DEF P
<1> HIDE DEF P
<1> QED
  BY <1>4 DEF Try

\* Grants that the action is not about leave no entries.
LEMMA TriedSkips ==
  ASSUME NEW m, NEW t, Len(m.grants) \in Nat, NEW a \in 0..Len(m.grants),
         NEW b \in a..Len(m.grants), \A n \in (a + 1)..b : n \notin Addressed(m, t)
  PROVE  Tried(m, t)[b] = Tried(m, t)[a]
<1> DEFINE tried == Tried(m, t)
           S == {n \in a..b : tried[n] # tried[a]}
<1> SUFFICES ASSUME S # {} PROVE FALSE
  OBVIOUS
<1>1. PICK j \in S : \A n \in S : j <= n
  <2>1. S \subseteq Nat
    OBVIOUS
  <2> HIDE DEF S
  <2> QED  BY <2>1, Smallest
<1>2. j \in (a + 1)..b /\ j - 1 \in a..b /\ j - 1 \notin S /\ j \in 1..Len(m.grants)
  BY <1>1
<1>3. tried[j] = tried[j - 1]
  BY <1>2, TriedAfter
<1> QED
  BY <1>1, <1>2, <1>3

----------------------------------------------------------------------------
\* The trace of a call under way, and what its record will be.

Traced ==
  /\ pc = "type_fields" => trace = <<Pass("mandate_present")>>
  /\ pc = "action_binding" => trace = <<Pass("mandate_present"), Pass("type_fields")>>
  /\ pc = "disposition" => trace = Opening
  /\ pc = "constraints" =>
       /\ Addressed(mandate, transaction) # {}
       /\ trace = Tried(mandate, transaction)
                    [IF grants = {} THEN Len(mandate.grants) ELSE First(grants) - 1]
  /\ RecordsAreDue

LEMMA ReturnedDue ==
  ASSUME Traced, NEW verdict, NEW index, NEW tr, Return(verdict, index, tr),
         verdict = DueVerdict(mandate, transaction), index = DueIndex(mandate, transaction),
         tr = DueTrace(mandate, transaction)
  PROVE  Traced'
<1> DEFINE r == NewRecord(verdict, index, tr)
<1>1. records' = records \cup {r} /\ pc' = "idle"
  BY DEF Return, NewRecord
<1>2. Core(verdict, index, tr) = DueCore(call.mandate, call.transaction, call.prev)
  BY DEF Core, DueCore, mandate, transaction
<1>3. r = DueRecord(r.mandate, r.transaction, r.core.prev)
  BY <1>2 DEF NewRecord, DueRecord, DueCore
<1> HIDE DEF r
<1>4. RecordsAreDue'
  <2>1. ASSUME NEW x \in records'
        PROVE  x = DueRecord(x.mandate, x.transaction, x.core.prev)
    BY <1>1, <1>3, <2>1 DEF Traced, RecordsAreDue
  <2> QED
    BY <2>1 DEF RecordsAreDue, DueRecord, DueCore, core_digest, CarriesUndigestible
<1> QED
  BY <1>1, <1>4 DEF Traced

LEMMA RecordsStay ==
  ASSUME Traced, UNCHANGED records
  PROVE  RecordsAreDue'
  BY DEF Traced, RecordsAreDue, DueRecord, DueCore, core_digest, CarriesUndigestible

----------------------------------------------------------------------------
\* The questions, one by one.

LEMMA PairOf ==
  ASSUME NEW a, NEW b
  PROVE  Append(<<a>>, b) = <<a, b>>
<1> DEFINE S == {a, b}
           s == Append(<<a>>, b)
           t == <<a, b>>
<1>1. <<a>> \in Seq(S) /\ b \in S /\ t \in Seq(S)
  OBVIOUS
<1>2. /\ s \in Seq(S) /\ Len(s) = Len(<<a>>) + 1
      /\ \A i \in 1..Len(<<a>>) : s[i] = <<a>>[i]
      /\ s[Len(<<a>>) + 1] = b
  BY <1>1, AppendProperties
<1>3. Len(<<a>>) = 1 /\ Len(t) = 2 /\ t[1] = a /\ t[2] = b
  OBVIOUS
<1>4. Len(s) = Len(t) /\ \A i \in 1..Len(s) : s[i] = t[i]
  BY <1>2, <1>3
<1> HIDE DEF S, s, t
<1>5. s = t
  BY <1>1, <1>2, <1>4, SeqEqual
<1> QED  BY <1>5 DEF s, t

LEMMA TripleOf ==
  ASSUME NEW a, NEW b, NEW c
  PROVE  Append(<<a, b>>, c) = <<a, b, c>>
<1> DEFINE S == {a, b, c}
           r == <<a, b>>
           s == Append(r, c)
           t == <<a, b, c>>
<1>1. r \in Seq(S) /\ c \in S /\ t \in Seq(S)
  OBVIOUS
<1>2. Len(r) = 2 /\ Len(t) = 3 /\ t[1] = r[1] /\ t[2] = r[2] /\ t[3] = c
  OBVIOUS
<1> HIDE DEF r
<1>3. /\ s \in Seq(S) /\ Len(s) = Len(r) + 1
      /\ \A i \in 1..Len(r) : s[i] = r[i]
      /\ s[Len(r) + 1] = c
  BY <1>1, AppendProperties
<1> HIDE DEF S, s, t
<1>4. Len(s) = Len(t) /\ \A i \in 1..Len(s) : s[i] = t[i]
  BY <1>2, <1>3
<1>5. s = t
  BY <1>1, <1>3, <1>4, SeqEqual
<1> QED  BY <1>5 DEF s, t, r

LEMMA Appends ==
  \A a, b, c : /\ Append(<<>>, a) = <<a>> /\ Append(<<a>>, b) = <<a, b>>
               /\ Append(<<a, b>>, c) = <<a, b, c>>
<1>1. \A a : Append(<<>>, a) = <<a>>
  OBVIOUS
<1> QED  BY <1>1, PairOf, TripleOf, Zenon

\* Where the grants about an action are among those of its type, none means a denial.
LEMMA NoneAddressed ==
  ASSUME NEW m, NEW t
  PROVE  /\ Addressed(m, t) \subseteq Typed(m, t)
         /\ Addressed(m, t) = {} => DueVerdict(m, t) = "DENY" /\ DueIndex(m, t) = {}
         /\ ~Judgeable(m, t) => DueVerdict(m, t) = "DENY" /\ DueIndex(m, t) = {}
  BY DEF Addressed, Typed, type_shape_problem, Grants, Forbids, DueVerdict, DueIndex

LEMMA ShapeDue ==
  ASSUME IInv, Traced, Shape
  PROVE  Traced'
<1>1. pc = "shape" /\ trace = <<>>
  BY DEF Shape, IInv, TypeOK
<1>2. ASSUME NEW entry, Deny({}, entry), ~Judgeable(mandate, transaction),
             <<entry>> = DueTrace(mandate, transaction)
      PROVE  Traced'
  BY <1>1, <1>2, Appends, NoneAddressed, ReturnedDue DEF Deny
<1>3. CASE mandate_problem(mandate)
  <2>1. Deny({}, Fail("mandate_present"))
    BY <1>3 DEF Shape, Fail
  <2> QED  BY <1>2, <1>3, <2>1 DEF DueTrace, Judgeable
<1>4. CASE ~mandate_problem(mandate) /\ ~transaction.is_object
  <2>1. Deny({}, Fail("transaction_present"))
    BY <1>4 DEF Shape, Fail
  <2> QED  BY <1>2, <1>4, <2>1 DEF DueTrace, Judgeable
<1>5. CASE ~mandate_problem(mandate) /\ transaction.is_object /\ ~transaction.action.canonical
  <2>1. Deny({}, Fail("action_binding"))
    BY <1>5 DEF Shape, Fail, action_digest, digest
  <2> QED  BY <1>2, <1>5, <2>1 DEF DueTrace, Judgeable
<1>6. CASE Judgeable(mandate, transaction)
  <2>1. Continue("type_fields", 1..Len(mandate.grants), <<Pass("mandate_present")>>)
    BY <1>1, <1>6, Appends DEF Shape, Judgeable, action_digest, digest, Pass
  <2> QED  BY <2>1, RecordsStay DEF Continue, Traced
<1> QED
  BY <1>3, <1>4, <1>5, <1>6 DEF Judgeable

LEMMA TypeFieldsDue ==
  ASSUME IInv, Traced, TypeFields
  PROVE  Traced'
<1> DEFINE typed ==
      {i \in grants : ~type_shape_problem(transaction.action, Grant(i).type_fields)}
<1>1. /\ Judgeable(mandate, transaction) /\ trace = <<Pass("mandate_present")>>
      /\ typed = Typed(mandate, transaction)
  BY DEF TypeFields, IInv, StillInQuestion, Questions, Traced, Typed, Grant
<1>2. CASE typed = {}
  <2>1. Deny({}, Fail("type_fields"))
    BY <1>2 DEF TypeFields, Fail
  <2>2. Addressed(mandate, transaction) = {}
    BY <1>1, <1>2, NoneAddressed
  <2>3. Return("DENY", {}, <<Pass("mandate_present"), Fail("type_fields")>>)
    BY <1>1, <2>1, Appends DEF Deny
  <2>4. DueTrace(mandate, transaction) = <<Pass("mandate_present"), Fail("type_fields")>>
    BY <1>1, <1>2 DEF DueTrace, Judgeable
  <2> QED  BY <2>2, <2>3, <2>4, NoneAddressed, ReturnedDue
<1>3. CASE typed # {}
  <2>1. Continue("action_binding", typed, <<Pass("mandate_present"), Pass("type_fields")>>)
    BY <1>1, <1>3, Appends DEF TypeFields, Pass
  <2> QED  BY <2>1, RecordsStay DEF Continue, Traced
<1> QED
  BY <1>2, <1>3

LEMMA ActionBindingDue ==
  ASSUME IInv, Traced, ActionBinding
  PROVE  Traced'
<1> DEFINE matched == {i \in grants : Grant(i).action_binding = action_digest(transaction)}
<1>1. /\ Judgeable(mandate, transaction)
      /\ trace = <<Pass("mandate_present"), Pass("type_fields")>>
      /\ grants = Typed(mandate, transaction) /\ grants # {}
  BY DEF ActionBinding, IInv, TypeOK, StillInQuestion, Questions, Traced, Typed
<1>2. matched = Addressed(mandate, transaction)
  BY <1>1 DEF Typed, Addressed, type_shape_problem, Grant, Judgeable, action_digest, digest
<1>3. CASE matched = {}
  <2>1. Return("DENY", {},
               <<Pass("mandate_present"), Pass("type_fields"), Fail("action_binding")>>)
    BY <1>1, <1>3, Appends DEF ActionBinding, Deny, Fail
  <2>2. DueTrace(mandate, transaction)
          = <<Pass("mandate_present"), Pass("type_fields"), Fail("action_binding")>>
    BY <1>1, <1>2, <1>3 DEF DueTrace, Judgeable
  <2> QED  BY <1>2, <1>3, <2>1, <2>2, NoneAddressed, ReturnedDue
<1>4. CASE matched # {}
  <2>1. Continue("disposition", matched, Opening)
    BY <1>1, <1>4, Appends DEF ActionBinding, Pass, Opening
  <2> QED  BY <2>1, RecordsStay DEF Continue, Traced
<1> QED
  BY <1>3, <1>4

LEMMA DispositionDue ==
  ASSUME IInv, Traced, Disposition
  PROVE  Traced'
<1> DEFINE A == Addressed(mandate, transaction)
           forbidden == {i \in grants : Grant(i).disposition = "forbid"}
<1>1. /\ Judgeable(mandate, transaction) /\ trace = Opening
      /\ grants = A /\ A # {} /\ forbidden = Forbids(mandate, transaction)
      /\ A \subseteq 1..Len(mandate.grants) /\ Len(mandate.grants) \in Nat
  <2>1. /\ Judgeable(mandate, transaction) /\ trace = Opening /\ grants = A /\ A # {}
    BY DEF Disposition, IInv, TypeOK, StillInQuestion, Questions, Traced
  <2>2. Len(mandate.grants) \in Nat
    BY MandateShape DEF IInv, TypeOK, mandate
  <2> QED  BY <2>1, <2>2 DEF Forbids, Grant, Addressed
<1>2. Typed(mandate, transaction) # {}
  BY <1>1, NoneAddressed
<1>3. CASE forbidden # {}
  <2>1. Return("DENY", {First(forbidden)}, Append(Opening, Fail("disposition")))
    BY <1>1, <1>3 DEF Disposition, Deny, Fail
  <2>2. DueTrace(mandate, transaction) = Append(Opening, Fail("disposition"))
    BY <1>1, <1>2, <1>3 DEF DueTrace, Judgeable
  <2>3. /\ DueVerdict(mandate, transaction) = "DENY"
        /\ DueIndex(mandate, transaction) = {First(forbidden)}
    BY <1>1, <1>3 DEF DueVerdict, DueIndex
  <2> QED  BY <2>1, <2>2, <2>3, ReturnedDue
<1>4. CASE forbidden = {}
  <2>1. Continue("constraints", A, Opening)
    BY <1>1, <1>4 DEF Disposition
  <2>2. First(A) \in A /\ \A k \in A : First(A) <= k
    BY <1>1, FirstIsLeast
  <2>3. First(A) - 1 \in 0..Len(mandate.grants) /\ \A n \in 1..(First(A) - 1) : n \notin A
    BY <1>1, <2>2
  <2>4. Tried(mandate, transaction)[First(A) - 1] = Tried(mandate, transaction)[0]
    BY <1>1, <2>3, TriedSkips
  <2>5. Tried(mandate, transaction)[0] = Opening
    BY <1>1, TriedAfter
  <2> QED  BY <1>1, <2>1, <2>4, <2>5, RecordsStay DEF Continue, Traced, mandate, transaction
<1> QED
  BY <1>3, <1>4

LEMMA UnsatisfiedDue ==
  ASSUME IInv, Traced, Unsatisfied
  PROVE  Traced'
<1>1. /\ Judgeable(mandate, transaction) /\ Forbids(mandate, transaction) = {}
      /\ Addressed(mandate, transaction) # {}
      /\ Grants(mandate, transaction) = {}
      /\ trace = Tried(mandate, transaction)[Len(mandate.grants)]
  BY DEF Unsatisfied, IInv, StillInQuestion, Questions, Traced, Grants
<1>2. Typed(mandate, transaction) # {}
  BY <1>1, NoneAddressed
<1>3. /\ DueTrace(mandate, transaction) = trace
      /\ DueVerdict(mandate, transaction) = "DENY" /\ DueIndex(mandate, transaction) = {}
  BY <1>1, <1>2 DEF DueTrace, DueVerdict, DueIndex, Judgeable
<1> QED
  BY <1>3, ReturnedDue DEF Unsatisfied

LEMMA ConstraintsDue ==
  ASSUME IInv, Traced, Constraints
  PROVE  Traced'
<1> DEFINE A == Addressed(mandate, transaction)
           tried == Tried(mandate, transaction)
           last == Len(mandate.grants)
           i == First(grants)
           tr == trace \o preds(i)
<1>1. /\ grants # {} /\ Judgeable(mandate, transaction) /\ grants \subseteq A
      /\ Forbids(mandate, transaction) = {}
      /\ \A j \in A \ grants : /\ ~Satisfied(mandate.grants[j], transaction)
                              /\ \A k \in grants : j < k
      /\ trace = tried[i - 1]
  BY DEF Constraints, IInv, StillInQuestion, Questions, Traced
<1>2. TypeOK /\ last \in Nat /\ A \subseteq 1..last
  BY MandateShape DEF IInv, TypeOK, mandate, Addressed
<1>3. i \in grants /\ \A k \in grants : i <= k
  BY <1>1, <1>2, FirstIsLeast
<1>4. AllPass(preds(i)) <=> Satisfied(mandate.grants[i], transaction)
  BY <1>1, <1>2, <1>3, GrantJudged
<1>5. tr = tried[i]
  <2>1. preds(i) = Judgement(mandate.grants[i], transaction)
    BY DEF preds, Judgement, Grant
  <2> QED  BY <1>1, <1>2, <1>3, <2>1, TriedAfter
<1>6. CASE AllPass(preds(i))
  <2> DEFINE verdict == IF Grant(i).disposition = "allow" THEN "PERMIT" ELSE "PENDING"
  <2>1. Return(verdict, {i}, Append(tried[i], Pass("disposition")))
    BY <1>5, <1>6 DEF Constraints, Pass
  <2>2. First(Grants(mandate, transaction)) = i /\ Grants(mandate, transaction) # {}
    <3> DEFINE G == Grants(mandate, transaction)
    <3>1. i \in G /\ G \subseteq A /\ \A k \in G : i <= k
      BY <1>1, <1>3, <1>4, <1>6 DEF Grants
    <3>2. First(G) \in G /\ \A k \in G : First(G) <= k
      BY <1>2, <3>1, FirstIsLeast
    <3> HIDE DEF G, i
    <3>3. First(G) = i
      BY <1>2, <3>1, <3>2
    <3> QED  BY <3>1, <3>3 DEF G
  <2>3. DueTrace(mandate, transaction) = Append(tried[i], Pass("disposition"))
    <3>1. A # {} /\ Typed(mandate, transaction) # {}
      BY <1>1, NoneAddressed
    <3> QED  BY <1>1, <2>2, <3>1 DEF DueTrace, Judgeable
  <2>4. DueVerdict(mandate, transaction) = verdict /\ DueIndex(mandate, transaction) = {i}
    BY <1>1, <2>2 DEF DueVerdict, DueIndex, Grant
  <2> QED  BY <2>1, <2>3, <2>4, ReturnedDue
<1>7. CASE ~AllPass(preds(i))
  <2> DEFINE left == grants \ {i}
             b == IF left = {} THEN last ELSE First(left) - 1
  <2>1. Continue("constraints", left, tried[i])
    BY <1>5, <1>7 DEF Constraints
  <2>2. /\ left \subseteq Nat
        /\ left # {} => First(left) \in left /\ \A k \in left : First(left) <= k
    <3>1. left \subseteq Nat
      BY <1>1, <1>2
    <3> HIDE DEF left
    <3> QED  BY <3>1, FirstIsLeast
  <2>3. i \in 0..last /\ b \in i..last
    BY <1>1, <1>2, <1>3, <2>2
  <2>4. ASSUME NEW n \in (i + 1)..b, n \in A
        PROVE  FALSE
    <3>1. n \in grants
      BY <1>1, <1>2, <1>3, <2>4
    <3>2. i \in Nat /\ n \in Nat /\ i < n /\ b \in Nat /\ n <= b
      BY <1>1, <1>2, <1>3, <2>3
    <3>3. n \in left
      BY <3>1, <3>2
    <3> HIDE DEF left, i
    <3>4. First(left) \in Nat
      BY <2>2, <3>3
    <3> QED  BY <2>2, <3>2, <3>3, <3>4
  <2>5. tried[b] = tried[i]
    <3> HIDE DEF i, b, left
    <3> QED  BY <1>2, <2>3, <2>4, TriedSkips
  <2>6. /\ pc' = "constraints" /\ grants' = left /\ trace' = tried[b]
        /\ mandate' = mandate /\ transaction' = transaction /\ records' = records
    BY <2>1, <2>5 DEF Continue, mandate, transaction
  <2>7. A # {}
    BY <1>1
  <2> HIDE DEF left
  <2> QED  BY <2>6, <2>7, RecordsStay DEF Traced
<1> QED
  BY <1>6, <1>7

----------------------------------------------------------------------------
\* The invariant, and what follows from it.

LEMMA InitTraced == Init => Traced
  BY DEF Init, Traced, RecordsAreDue

LEMMA NextTraced == IInv /\ Traced /\ [Next]_vars => Traced'
<1> SUFFICES ASSUME IInv, Traced, [Next]_vars PROVE Traced'
  OBVIOUS
<1>1. CASE EnforceCheck
  BY <1>1, ShapeDue, TypeFieldsDue, ActionBindingDue, DispositionDue, ConstraintsDue,
     UnsatisfiedDue DEF EnforceCheck
<1>2. CASE Call
  <2>1. pc' = "shape" /\ UNCHANGED records
    BY <1>2 DEF Call
  <2> QED  BY <2>1, RecordsStay DEF Traced
<1>3. CASE Sign \/ Ratify \/ UNCHANGED vars
  <2>1. UNCHANGED <<call, pc, grants, trace, records>>
    BY <1>3 DEF Sign, Ratify, checkVars, vars
  <2>2. mandate' = mandate /\ transaction' = transaction
    BY <2>1 DEF mandate, transaction
  <2> QED  BY <2>1, <2>2, RecordsStay DEF Traced
<1> QED
  BY <1>1, <1>2, <1>3 DEF Next

\* Every record that enforce_check() returns is, down to its digest and the last entry of
\* its trace, the one that the mandate, the transaction and the link make.
THEOREM RecordsDetermined == Spec => []RecordsAreDue
<1>1. IInv /\ Traced /\ [Next]_vars => (IInv /\ Traced)'
  BY NextIInv, NextTraced
<1>2. Init => IInv /\ Traced
  BY InitIInv, InitTraced
<1>3. Traced => RecordsAreDue
  BY DEF Traced
<1> QED
  BY <1>1, <1>2, <1>3, PTL DEF Spec

\* What was decided once is decided the same again: the kernel cannot answer one call with
\* two records, whatever came between them.
SameAnswer ==
  \A r, s \in records :
    r.mandate = s.mandate /\ r.transaction = s.transaction /\ r.core.prev = s.core.prev => r = s

\* enforce_check() is a function of its arguments.
THEOREM AnsweredTheSame == Spec => []SameAnswer
<1>1. RecordsAreDue => SameAnswer
  BY DEF RecordsAreDue, SameAnswer
<1> QED  BY <1>1, RecordsDetermined, PTL
=============================================================================
