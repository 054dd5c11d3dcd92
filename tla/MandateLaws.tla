----------------------------- MODULE MandateLaws -----------------------------
(***************************************************************************)
(* What an edit of a mandate does to the decisions made under it, for all  *)
(* mandates and transactions: two mandates, one of which came from the     *)
(* other, and the records of one transaction under both.                   *)
(***************************************************************************)
EXTENDS EnforceProofs

----------------------------------------------------------------------------
\* Edits.

\* g and h are about the same actions.
SameAction(g, h) ==
  Range(g.type_fields) = Range(h.type_fields) /\ g.action_binding = h.action_binding

\* Every forbid of m is still there in n, and every other grant of n is one of m with some more
\* constraints or as many: grants were dropped, repeated or put in another order, constraints
\* and forbids were added, allow was made hold, or hold allow.
Narrower(n, m) ==
  /\ \A i \in 1..Len(m.grants) : m.grants[i].disposition = "forbid" =>
       \E k \in 1..Len(n.grants) :
         n.grants[k].disposition = "forbid" /\ SameAction(m.grants[i], n.grants[k])
  /\ \A k \in 1..Len(n.grants) : n.grants[k].disposition # "forbid" =>
       \E i \in 1..Len(m.grants) :
         /\ SameAction(m.grants[i], n.grants[k])
         /\ Range(m.grants[i].constraints) \subseteq Range(n.grants[k].constraints)

\* n is m with forbids put in between its grants.
Interspersed(n, m) ==
  \E place \in [1..Len(m.grants) -> 1..Len(n.grants)] :
    /\ \A i, k \in 1..Len(m.grants) : i < k => place[i] < place[k]
    /\ \A i \in 1..Len(m.grants) : n.grants[place[i]] = m.grants[i]
    /\ \A k \in 1..Len(n.grants) :
         n.grants[k].disposition = "forbid" \/ \E i \in 1..Len(m.grants) : k = place[i]

\* n has the grants of m, in whatever order.
Reordered(n, m) == Range(n.grants) = Range(m.grants)

----------------------------------------------------------------------------
\* Permission, whatever its kind.

Permissible(m, t) == Judgeable(m, t) /\ Forbids(m, t) = {} /\ Grants(m, t) # {}

\* The grants of a mandate that can be judged allow, hold or forbid.
LEMMA Disposed ==
  ASSUME NEW m, ~mandate_problem(m)
  PROVE  \A i \in 1..Len(m.grants) : m.grants[i].disposition \in {"allow", "hold", "forbid"}
  BY DEF mandate_problem, grant_shape_ok, DISPOSITIONS

\* Something is permitted exactly if a grant is satisfied and none forbids.
LEMMA PermittedSomehow ==
  ASSUME NEW m, NEW t, Len(m.grants) \in Nat
  PROVE  Permissible(m, t) <=> Permitted(m, t, "allow") \/ Permitted(m, t, "hold")
<1>1. ASSUME Permissible(m, t)
      PROVE  Permitted(m, t, "allow") \/ Permitted(m, t, "hold")
  <2>1. Grants(m, t) \subseteq Nat /\ Grants(m, t) # {} /\ Forbids(m, t) = {} /\ Judgeable(m, t)
    BY <1>1 DEF Grants, Addressed, Permissible
  <2>2. PICK i \in Grants(m, t) : \A k \in Grants(m, t) : i <= k
    BY <2>1, Smallest
  <2>3. i \in Addressed(m, t) /\ i \in 1..Len(m.grants)
    BY <2>2 DEF Grants, Addressed
  <2>4. m.grants[i].disposition \in {"allow", "hold", "forbid"}
    BY <2>1, <2>3, Disposed DEF Judgeable
  <2>5. m.grants[i].disposition # "forbid"
    BY <2>1, <2>3 DEF Forbids
  <2> QED  BY <2>1, <2>2, <2>4, <2>5 DEF Permitted
<1> QED
  BY <1>1 DEF Permitted, Permissible

\* What a record says of its mandate and its transaction.
LEMMA RecordSays ==
  ASSUME IInv, NEW r \in records
  PROVE  LET m == Mandate[r.mandate]
             t == Transaction[r.transaction]
         IN  /\ r.mandate \in DOMAIN Mandate
             /\ Len(m.grants) \in Nat
             /\ r.core.verdict \in {"PERMIT", "DENY", "PENDING"}
             /\ r.core.verdict = "PERMIT" <=> Permitted(m, t, "allow")
             /\ r.core.verdict = "PENDING" <=> Permitted(m, t, "hold")
             /\ r.core.verdict # "DENY" <=> Permissible(m, t)
<1> DEFINE m == Mandate[r.mandate]
           t == Transaction[r.transaction]
<1>1. r.mandate \in DOMAIN Mandate /\ r.core.verdict \in {"PERMIT", "DENY", "PENDING"}
  BY DEF IInv, TypeOK
<1>2. /\ r.core.verdict = "PERMIT" <=> Permitted(m, t, "allow")
      /\ r.core.verdict = "PENDING" <=> Permitted(m, t, "hold")
  BY DEF IInv, DecisionsFollowGrants, FollowsGrants
<1>3. Len(m.grants) \in Nat
  BY <1>1, MandateShape
<1> HIDE DEF m, t
<1>4. r.core.verdict # "DENY" <=> Permissible(m, t)
  BY <1>1, <1>2, <1>3, PermittedSomehow
<1> QED
  BY <1>1, <1>2, <1>3, <1>4 DEF m, t

----------------------------------------------------------------------------
\* A narrower mandate permits nothing else.

\* A grant that is satisfied is so with fewer constraints.
LEMMA FewerSatisfied ==
  ASSUME NEW g, NEW h, NEW t, IsSeq(g.constraints), IsSeq(h.constraints),
         Range(g.constraints) \subseteq Range(h.constraints), Satisfied(h, t)
  PROVE  Satisfied(g, t)
<1> DEFINE Met(c) == c.field \in DOMAIN t.fields /\ Admits(c, t.fields[c.field])
<1>1. \A k \in 1..Len(h.constraints) : Met(h.constraints[k])
  BY DEF Satisfied
<1>2. \A k \in 1..Len(g.constraints) : Met(g.constraints[k])
  <2> HIDE DEF Met
  <2> QED  BY <1>1, LenOfSeq
<1> QED
  BY <1>2 DEF Satisfied

\* Grants about the same actions are addressed alike.
LEMMA AddressedAlike ==
  ASSUME NEW m, NEW n, NEW t, NEW i \in 1..Len(m.grants), NEW k \in 1..Len(n.grants),
         SameAction(m.grants[i], n.grants[k])
  PROVE  i \in Addressed(m, t) <=> k \in Addressed(n, t)
  BY DEF Addressed, SameAction

LEMMA NarrowerPermits ==
  ASSUME NEW id \in DOMAIN Mandate, NEW other \in DOMAIN Mandate, NEW t,
         Narrower(Mandate[other], Mandate[id]), ~mandate_problem(Mandate[id]),
         Permissible(Mandate[other], t)
  PROVE  Permissible(Mandate[id], t)
<1> DEFINE m == Mandate[id]
           n == Mandate[other]
<1>1. /\ \A i \in 1..Len(m.grants) : IsSeq(m.grants[i].constraints)
      /\ \A k \in 1..Len(n.grants) : IsSeq(n.grants[k].constraints)
  BY MandateShape
<1>2. Narrower(n, m) /\ ~mandate_problem(m) /\ Permissible(n, t)
  OBVIOUS
<1> HIDE DEF m, n
<1>3. Judgeable(m, t)
  BY <1>2 DEF Permissible, Judgeable
<1>4. Forbids(m, t) = {}
  <2> SUFFICES ASSUME NEW i \in Forbids(m, t) PROVE FALSE
    OBVIOUS
  <2>1. i \in 1..Len(m.grants) /\ i \in Addressed(m, t) /\ m.grants[i].disposition = "forbid"
    BY DEF Forbids, Addressed
  <2>2. PICK k \in 1..Len(n.grants) :
          n.grants[k].disposition = "forbid" /\ SameAction(m.grants[i], n.grants[k])
    BY <1>2, <2>1 DEF Narrower
  <2>3. k \in Addressed(n, t)
    BY <2>1, <2>2, AddressedAlike
  <2> QED  BY <1>2, <2>2, <2>3 DEF Permissible, Forbids
<1>5. Grants(m, t) # {}
  <2>1. PICK k \in Grants(n, t) : TRUE
    BY <1>2 DEF Permissible
  <2>2. k \in 1..Len(n.grants) /\ k \in Addressed(n, t) /\ Satisfied(n.grants[k], t)
    BY <2>1 DEF Grants, Addressed
  <2>3. n.grants[k].disposition # "forbid"
    BY <1>2, <2>2 DEF Permissible, Forbids
  <2>4. PICK i \in 1..Len(m.grants) :
          /\ SameAction(m.grants[i], n.grants[k])
          /\ Range(m.grants[i].constraints) \subseteq Range(n.grants[k].constraints)
    BY <1>2, <2>2, <2>3 DEF Narrower
  <2>5. i \in Addressed(m, t)
    BY <2>2, <2>4, AddressedAlike
  <2>6. Satisfied(m.grants[i], t)
    BY <1>1, <2>2, <2>4, FewerSatisfied
  <2> QED  BY <2>5, <2>6 DEF Grants
<1> QED
  BY <1>3, <1>4, <1>5 DEF Permissible, m

\* enforce_check() denies under a narrower mandate whatever it denied under the wider one.
NarrowedIsDenied ==
  \A r, s \in records :
    /\ r.transaction = s.transaction
    /\ ~mandate_problem(Mandate[r.mandate])
    /\ Narrower(Mandate[s.mandate], Mandate[r.mandate])
    /\ r.core.verdict = "DENY"
    => s.core.verdict = "DENY"

\* What is denied under a mandate is denied under every narrower one: forbids and constraints
\* that are added, and grants that are dropped, repeated or moved, open nothing.  (They may
\* turn a PENDING into a PERMIT: a hold whose constraints no longer hold gives way to an allow
\* after it.)
THEOREM NarrowingOpensNothing == Spec => []NarrowedIsDenied
<1>1. ASSUME IInv, NEW r \in records, NEW s \in records, r.transaction = s.transaction,
             ~mandate_problem(Mandate[r.mandate]),
             Narrower(Mandate[s.mandate], Mandate[r.mandate]), s.core.verdict # "DENY"
      PROVE  r.core.verdict # "DENY"
  BY <1>1, RecordSays, NarrowerPermits
<1>2. IInv => NarrowedIsDenied
  BY <1>1 DEF NarrowedIsDenied
<1> QED
  BY <1>2, Invariance, PTL

----------------------------------------------------------------------------
\* Forbids that are put in only deny.

LEMMA InterspersedIsNarrower ==
  ASSUME NEW m, NEW n, Interspersed(n, m)
  PROVE  Narrower(n, m)
<1>1. PICK place \in [1..Len(m.grants) -> 1..Len(n.grants)] :
        /\ \A i \in 1..Len(m.grants) : n.grants[place[i]] = m.grants[i]
        /\ \A k \in 1..Len(n.grants) :
             n.grants[k].disposition = "forbid" \/ \E i \in 1..Len(m.grants) : k = place[i]
  BY DEF Interspersed
<1>2. ASSUME NEW i \in 1..Len(m.grants), m.grants[i].disposition = "forbid"
      PROVE  \E k \in 1..Len(n.grants) :
               n.grants[k].disposition = "forbid" /\ SameAction(m.grants[i], n.grants[k])
  <2>1. place[i] \in 1..Len(n.grants) /\ n.grants[place[i]] = m.grants[i]
    BY <1>1
  <2> QED  BY <1>2, <2>1 DEF SameAction
<1>3. ASSUME NEW k \in 1..Len(n.grants), n.grants[k].disposition # "forbid"
      PROVE  \E i \in 1..Len(m.grants) :
               /\ SameAction(m.grants[i], n.grants[k])
               /\ Range(m.grants[i].constraints) \subseteq Range(n.grants[k].constraints)
  <2>1. PICK i \in 1..Len(m.grants) : n.grants[k] = m.grants[i]
    BY <1>1, <1>3
  <2> QED  BY <2>1 DEF SameAction
<1> QED
  BY <1>2, <1>3 DEF Narrower

\* The first satisfied grant stays the first.
LEMMA InterspersedKeepsFirst ==
  ASSUME NEW m, NEW n, NEW t, NEW disposition, disposition # "forbid",
         Len(m.grants) \in Nat, Len(n.grants) \in Nat, ~mandate_problem(m),
         Interspersed(n, m), Permissible(m, t), Permitted(n, t, disposition)
  PROVE  Permitted(m, t, disposition)
<1>1. PICK place \in [1..Len(m.grants) -> 1..Len(n.grants)] :
        /\ \A i, k \in 1..Len(m.grants) : i < k => place[i] < place[k]
        /\ \A i \in 1..Len(m.grants) : n.grants[place[i]] = m.grants[i]
        /\ \A k \in 1..Len(n.grants) :
             n.grants[k].disposition = "forbid" \/ \E i \in 1..Len(m.grants) : k = place[i]
  BY DEF Interspersed
<1>2. PICK k \in Grants(n, t) :
        n.grants[k].disposition = disposition /\ \A j \in Grants(n, t) : k <= j
  BY DEF Permitted
<1>3. k \in 1..Len(n.grants)
  BY <1>2 DEF Grants, Addressed
<1>4. PICK i \in 1..Len(m.grants) : k = place[i]
  BY <1>1, <1>2, <1>3
<1>5. ASSUME NEW j \in 1..Len(m.grants)
      PROVE  j \in Grants(m, t) <=> place[j] \in Grants(n, t)
  BY <1>1 DEF Grants, Addressed
<1>6. ASSUME NEW j \in Grants(m, t)
      PROVE  i <= j
  <2>1. j \in 1..Len(m.grants)
    BY DEF Grants, Addressed
  <2>2. place[i] <= place[j]
    BY <1>2, <1>4, <1>5, <2>1
  <2>3. ~(j < i)
    BY <1>1, <2>1, <2>2
  <2> QED  BY <2>1, <2>3
<1>7. i \in Grants(m, t) /\ m.grants[i].disposition = disposition
  BY <1>1, <1>2, <1>4, <1>5
<1> QED
  BY <1>6, <1>7 DEF Permitted, Permissible

\* With forbids put in, enforce_check() decides as it did without, or DENY.
SameOrDenied ==
  \A r, s \in records :
    /\ r.transaction = s.transaction
    /\ ~mandate_problem(Mandate[r.mandate])
    /\ Interspersed(Mandate[s.mandate], Mandate[r.mandate])
    => s.core.verdict \in {r.core.verdict, "DENY"}

\* Where forbids are put in between the grants of a mandate, wherever they are put, an action
\* is decided as before, or denied.
THEOREM ForbidsOnlyDeny == Spec => []SameOrDenied
<1>1. ASSUME IInv, NEW r \in records, NEW s \in records, r.transaction = s.transaction,
             ~mandate_problem(Mandate[r.mandate]),
             Interspersed(Mandate[s.mandate], Mandate[r.mandate]), s.core.verdict # "DENY"
      PROVE  s.core.verdict = r.core.verdict
  <2> DEFINE m == Mandate[r.mandate]
             n == Mandate[s.mandate]
             t == Transaction[r.transaction]
  <2>1. /\ Permissible(n, t) /\ Len(m.grants) \in Nat /\ Len(n.grants) \in Nat
        /\ r.mandate \in DOMAIN Mandate /\ s.mandate \in DOMAIN Mandate
    BY <1>1, RecordSays
  <2>2. Narrower(n, m)
    BY <1>1, InterspersedIsNarrower
  <2>3. Permissible(m, t)
    BY <1>1, <2>1, <2>2, NarrowerPermits
  <2>4. /\ Permitted(n, t, "allow") => Permitted(m, t, "allow")
        /\ Permitted(n, t, "hold") => Permitted(m, t, "hold")
    <3> HIDE DEF m, n, t
    <3>1. ~mandate_problem(m) /\ Interspersed(n, m)
      BY <1>1 DEF m, n
    <3> QED  BY <2>1, <2>3, <3>1, InterspersedKeepsFirst
  <2>5. CASE s.core.verdict = "PERMIT"
    BY <1>1, <2>4, <2>5, RecordSays
  <2>6. CASE s.core.verdict = "PENDING"
    BY <1>1, <2>4, <2>6, RecordSays
  <2> QED  BY <1>1, <2>5, <2>6, RecordSays
<1>2. IInv => SameOrDenied
  BY <1>1 DEF SameOrDenied
<1> QED
  BY <1>2, Invariance, PTL

----------------------------------------------------------------------------
\* The order of the grants.

LEMMA ReorderedIsNarrower ==
  ASSUME NEW m, NEW n, IsSeq(m.grants), IsSeq(n.grants), Reordered(n, m)
  PROVE  Narrower(n, m)
<1>1. /\ \A i \in 1..Len(m.grants) : m.grants[i] \in Range(m.grants)
      /\ \A k \in 1..Len(n.grants) : n.grants[k] \in Range(n.grants)
      /\ \A g \in Range(m.grants) : \E i \in 1..Len(m.grants) : m.grants[i] = g
      /\ \A g \in Range(n.grants) : \E k \in 1..Len(n.grants) : n.grants[k] = g
  BY LenOfSeq
<1>2. ASSUME NEW i \in 1..Len(m.grants)
      PROVE  \E k \in 1..Len(n.grants) : n.grants[k] = m.grants[i]
  BY <1>1 DEF Reordered
<1>3. ASSUME NEW k \in 1..Len(n.grants)
      PROVE  \E i \in 1..Len(m.grants) : n.grants[k] = m.grants[i]
  BY <1>1 DEF Reordered
<1> QED
  BY <1>2, <1>3 DEF Narrower, SameAction

\* A grant that is satisfied is satisfied wherever it stands.
LEMMA GrantMoves ==
  ASSUME NEW m, NEW n, NEW t, IsSeq(m.grants), IsSeq(n.grants), Reordered(n, m),
         NEW k \in Grants(n, t)
  PROVE  \E i \in Grants(m, t) : m.grants[i] = n.grants[k]
<1>1. k \in 1..Len(n.grants)
  BY DEF Grants, Addressed
<1>2. n.grants[k] \in Range(m.grants)
  BY <1>1, LenOfSeq DEF Reordered
<1>3. PICK i \in 1..Len(m.grants) : m.grants[i] = n.grants[k]
  BY <1>2, LenOfSeq
<1> QED
  BY <1>3 DEF Grants, Addressed

\* Two orders of the same grants, of which enforce_check() makes two verdicts, make PERMIT and
\* PENDING of them, and have both kinds of grant satisfied.
SameUpToKind ==
  \A r, s \in records :
    /\ r.transaction = s.transaction
    /\ ~mandate_problem(Mandate[r.mandate]) /\ ~mandate_problem(Mandate[s.mandate])
    /\ Reordered(Mandate[s.mandate], Mandate[r.mandate])
    /\ r.core.verdict # s.core.verdict
    => /\ r.core.verdict # "DENY" /\ s.core.verdict # "DENY"
       /\ LET m == Mandate[r.mandate]
              satisfied == Grants(m, Transaction[r.transaction])
          IN  {"allow", "hold"} \subseteq {m.grants[i].disposition : i \in satisfied}

\* The order in which a mandate lists its grants never decides whether an action is denied, only
\* whether it is permitted or held, and that only where an allow and a hold are both satisfied.
THEOREM OrderOnlyChoosesKind == Spec => []SameUpToKind
<1>1. ASSUME IInv, NEW r \in records, NEW s \in records, r.transaction = s.transaction,
             ~mandate_problem(Mandate[r.mandate]), ~mandate_problem(Mandate[s.mandate]),
             Reordered(Mandate[s.mandate], Mandate[r.mandate]), r.core.verdict # s.core.verdict
      PROVE  /\ r.core.verdict # "DENY" /\ s.core.verdict # "DENY"
             /\ LET m == Mandate[r.mandate]
                    satisfied == Grants(m, Transaction[r.transaction])
                IN  {"allow", "hold"} \subseteq {m.grants[i].disposition : i \in satisfied}
  <2> DEFINE m == Mandate[r.mandate]
             n == Mandate[s.mandate]
             t == Transaction[r.transaction]
  <2>1. r.mandate \in DOMAIN Mandate /\ s.mandate \in DOMAIN Mandate
    BY <1>1, RecordSays
  <2>2. /\ IsSeq(m.grants) /\ IsSeq(n.grants)
        /\ ~mandate_problem(m) /\ ~mandate_problem(n)
    BY <1>1, <2>1, MandateShape
  <2>3. Reordered(n, m) /\ Reordered(m, n)
    BY <1>1 DEF Reordered
  <2>4. Narrower(n, m) /\ Narrower(m, n)
    <3> HIDE DEF m, n
    <3> QED  BY <2>2, <2>3, ReorderedIsNarrower
  <2>5. r.core.verdict # "DENY" /\ s.core.verdict # "DENY"
    BY <1>1, <2>1, <2>4, RecordSays, NarrowerPermits
  <2>6. {r.core.verdict, s.core.verdict} = {"PERMIT", "PENDING"}
    BY <1>1, <2>5, RecordSays
  <2>7. ASSUME NEW disposition, Permitted(m, t, disposition) \/ Permitted(n, t, disposition)
        PROVE  disposition \in {m.grants[i].disposition : i \in Grants(m, t)}
    <3> HIDE DEF m, n, t
    <3> QED  BY <2>2, <2>3, <2>7, GrantMoves DEF Permitted
  <2>8. /\ Permitted(m, t, "allow") \/ Permitted(n, t, "allow")
        /\ Permitted(m, t, "hold") \/ Permitted(n, t, "hold")
    BY <1>1, <2>6, RecordSays
  <2> QED  BY <2>5, <2>7, <2>8
<1>2. IInv => SameUpToKind
  BY <1>1 DEF SameUpToKind
<1> QED
  BY <1>2, Invariance, PTL
=============================================================================
