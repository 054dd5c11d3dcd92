----------------------------- MODULE Entitlement -----------------------------
(***************************************************************************)
(* What a mandate says of a transaction, of a record and of a signature,   *)
(* without an algorithm: the words in which the promises of the enforce    *)
(* kernel are stated.                                                      *)
(***************************************************************************)
EXTENDS Mandates

Judgeable(m, t) == ~mandate_problem(m) /\ t.is_object /\ t.action.canonical

\* The grants that are about this action: its very type, and its very digest.
Addressed(m, t) ==
  {i \in 1..Len(m.grants) :
     /\ t.action.is_object /\ t.action.fields = Range(m.grants[i].type_fields)
     /\ m.grants[i].action_binding = {t.action}}

\* The transaction has a value where c looks for one, and it is one that c admits.
Admits(c, x) ==
  \/ c.type = "exact" /\ IsText(x) /\ x = c.value
  \/ c.type = "enum" /\ IsText(x) /\ x \in Range(c.values) /\ Len(c.values) <= MAX_ENUM_MEMBERS
  \/ /\ c.type = "range" /\ is_int(c.lo) /\ is_int(c.hi) /\ is_int(x)
     /\ c.lo.is <= x.is /\ x.is <= c.hi.is

Satisfied(g, t) ==
  \A k \in 1..Len(g.constraints) :
    LET c == g.constraints[k] IN c.field \in DOMAIN t.fields /\ Admits(c, t.fields[c.field])

Forbids(m, t) == {i \in Addressed(m, t) : m.grants[i].disposition = "forbid"}
Grants(m, t) == {i \in Addressed(m, t) : Satisfied(m.grants[i], t)}

\* Permission takes a satisfied grant that no addressed one forbids, and it is the first
\* such grant that says whether the action is held.
Permitted(m, t, disposition) ==
  /\ Judgeable(m, t) /\ Forbids(m, t) = {}
  /\ \E i \in Grants(m, t) :
       /\ m.grants[i].disposition = disposition
       /\ \A k \in Grants(m, t) : i <= k

\* The verdict of every record is the one the mandate gives: PERMIT or PENDING by its
\* first satisfied grant, and DENY otherwise, a forbid outranking every grant whatever
\* comes first and whatever its constraints say.
FollowsGrants(r) ==
  LET m == Mandate[r.mandate]
      t == Transaction[r.transaction]
  IN  /\ r.core.verdict = "PERMIT" <=> Permitted(m, t, "allow")
      /\ r.core.verdict = "PENDING" <=> Permitted(m, t, "hold")
      /\ \A i \in r.core.grant_index :
           /\ i \in Addressed(m, t)
           /\ r.core.verdict = "DENY" <=> m.grants[i].disposition = "forbid"

\* The trace of a record accounts for its verdict: a DENY names what failed, anything
\* else ends in as many passed constraints as its grant has and the disposition.
Accounted(r) ==
  LET tr == r.core.trace
      n == Len(tr)
  IN  IF r.core.verdict = "DENY" THEN \E k \in 1..n : tr[k].result = "FAIL"
      ELSE \A i \in r.core.grant_index :
             LET c == Len(Mandate[r.mandate].grants[i].constraints)
             IN  /\ tr[n].predicate = "disposition" /\ c < n
                 /\ \A k \in (n - c)..n : tr[k].result = "PASS"

\* One of the statements is this decision on this record under the name did, signed with
\* the key that m gives that name first.
SignedByAuthority(m, core, did, decision, statements) ==
  LET listed == mandate_authorities(m) IN
  \E i \in 1..Len(listed) :
    /\ listed[i].did = did
    /\ \A k \in 1..(i - 1) : listed[k].did # did
    /\ [key |-> listed[i].key, authority |-> did, ratifies |-> core, decision |-> decision]
         \in statements
=============================================================================
