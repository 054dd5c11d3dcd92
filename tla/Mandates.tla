------------------------------ MODULE Mandates -------------------------------
(***************************************************************************)
(* What the enforce kernel (examples/enforce-verify.py) reads: mandates    *)
(* with their grants, transactions with their action, and the digests that *)
(* tie a record to both.                                                   *)
(*                                                                         *)
(* A mandate or a transaction is an identity, and Mandate or Transaction   *)
(* says what it holds.  A digest identifies what was digested, so that of  *)
(* x is {x}; it is {} (None in the code) where jcs cannot canonicalize x,  *)
(* a string with a lone surrogate in it for one.  A value that may be      *)
(* missing is a set of at most one, and a field path is resolved by        *)
(* looking it up: a malformed path, or one that leads nowhere, is a path   *)
(* the transaction does not have.  Names (of paths, types and type fields) *)
(* can always be canonicalized here, and so can what stands where a        *)
(* constraint wants an array.                                              *)
(***************************************************************************)
EXTENDS Integers, Sequences, FiniteSets, Functions

CONSTANTS
  Mandate,         \* what is given as a mandate, and what it holds
  Transaction,     \* what is given as a transaction, and what it holds
  Undigestible,    \* the values that cannot be canonicalized
  MAX_GRANTS, MAX_CONSTRAINTS_PER_GRANT, MAX_TYPE_FIELDS, MAX_ENUM_MEMBERS, MAX_ABS_INT

IsSeq(s) == s \in Seq(Range(s))
HasInt(x) == x.kind = "int" => x.is \in Int

\* What JSON makes an array or a number is a sequence or an integer here.
ASSUME MandateAssumption ==
  \A id \in DOMAIN Mandate :
    LET m == Mandate[id] IN
    /\ IsSeq(m.grants) /\ IsSeq(m.principal) /\ IsSeq(m.ratification_authorities)
    /\ \A g \in Range(m.grants) :
         /\ IsSeq(g.type_fields) /\ IsSeq(g.constraints)
         /\ \A c \in Range(g.constraints) : IsSeq(c.values) /\ HasInt(c.lo) /\ HasInt(c.hi)
ASSUME TransactionAssumption ==
  \A id \in DOMAIN Transaction : \A x \in Range(Transaction[id].fields) : HasInt(x)
ASSUME BoundAssumption == MAX_ENUM_MEMBERS \in Nat /\ MAX_ABS_INT \in Nat

DISPOSITIONS == {"allow", "hold", "forbid"}
TYPE_FIELD_VERB == "verb"

digest(x, canonical) == IF canonical THEN {x} ELSE {}

First(S) == CHOOSE i \in S : \A k \in S : i <= k

----------------------------------------------------------------------------
\* Section 2.5: the constraint language.

\* An entry of the predicate trace, with the values that enter the core beside it.
pred(predicate, result, carries) ==
  [predicate |-> predicate, result |-> result, carries |-> carries]

Verdict(condition) == IF condition THEN "PASS" ELSE "FAIL"

resolve_field(t, path) == IF path \in DOMAIN t.fields THEN {t.fields[path]} ELSE {}

IsText(x) == x.kind = "text"
is_int(x) == x.kind = "int" /\ -MAX_ABS_INT <= x.is /\ x.is <= MAX_ABS_INT

eval_exact(c, t) ==
  LET found == resolve_field(t, c.field)
      hit == IsText(c.value) /\ \E actual \in found : IsText(actual) /\ actual = c.value
  IN  pred("exact", Verdict(hit), {c.value} \cup (IF IsText(c.value) THEN found ELSE {}))

eval_enum(c, t) ==
  LET found == resolve_field(t, c.field)
      usable == c.values # <<>> /\ Len(c.values) <= MAX_ENUM_MEMBERS
      hit == usable /\ \E actual \in found : IsText(actual) /\ actual \in Range(c.values)
  IN  pred("enum", Verdict(hit), IF usable THEN Range(c.values) \cup found ELSE {})

\* Mutant: the interval is open at its upper end.
eval_range_Open(c, t) ==
  LET found == resolve_field(t, c.field)
      usable == is_int(c.lo) /\ is_int(c.hi) /\ c.lo.is <= c.hi.is
      hit == usable /\ \E actual \in found :
                         is_int(actual) /\ c.lo.is <= actual.is /\ actual.is < c.hi.is
  IN  pred("range", Verdict(hit), {c.lo, c.hi} \cup (IF usable THEN found ELSE {}))

eval_range(c, t) ==
  LET found == resolve_field(t, c.field)
      usable == is_int(c.lo) /\ is_int(c.hi) /\ c.lo.is <= c.hi.is
      hit == usable /\ \E actual \in found :
                         is_int(actual) /\ c.lo.is <= actual.is /\ actual.is <= c.hi.is
  IN  pred("range", Verdict(hit), {c.lo, c.hi} \cup (IF usable THEN found ELSE {}))

\* A constraint that is no object has type "none".
eval_constraint(c, t) ==
  CASE c.type = "exact" -> eval_exact(c, t)
    [] c.type = "enum" -> eval_enum(c, t)
    [] c.type = "range" -> eval_range(c, t)
    [] OTHER -> pred(c.type, "FAIL", {})

----------------------------------------------------------------------------
\* Section 2.2.1: the shape of a grant.  What is no array counts as an empty one where
\* an empty one is refused alike.

type_fields_ok(tf) ==
  /\ tf # <<>> /\ Len(tf) <= MAX_TYPE_FIELDS
  /\ \A i, k \in 1..Len(tf) : i # k => tf[i] # tf[k]
  /\ TYPE_FIELD_VERB \in Range(tf)

grant_shape_ok(g) ==
  /\ g.binding_is_digest
  /\ g.disposition \in DISPOSITIONS
  /\ type_fields_ok(g.type_fields)
  /\ g.constraints_listed /\ Len(g.constraints) <= MAX_CONSTRAINTS_PER_GRANT

mandate_problem(m) ==
  \/ ~m.is_object
  \/ m.grants = <<>> \/ Len(m.grants) > MAX_GRANTS
  \/ \E i \in 1..Len(m.grants) : ~grant_shape_ok(m.grants[i])

type_shape_problem(action, tf) == ~action.is_object \/ action.fields # Range(tf)

mandate_digest(id) == digest(id, Mandate[id].canonical)
transaction_digest(id) == digest(id, Transaction[id].canonical)
action_digest(t) == IF t.is_object THEN digest(t.action, t.action.canonical) ELSE {}

----------------------------------------------------------------------------
\* Section 6.3: who may ratify.

mandate_authorities(m) == IF m.is_object THEN m.principal \o m.ratification_authorities
                          ELSE <<>>

\* The entries of the authority did; the first of them counts.
EntriesOf(m, did) == {i \in 1..Len(mandate_authorities(m)) : mandate_authorities(m)[i].did = did}
=============================================================================
