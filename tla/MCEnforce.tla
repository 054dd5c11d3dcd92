------------------------------ MODULE MCEnforce ------------------------------
(***************************************************************************)
(* Mandates with one grant and every kind of constraint against            *)
(* transactions with every kind of value; two and three grants of every    *)
(* disposition; every way a mandate, an action or a transaction may be     *)
(* malformed; and, for ratify(), mandates that differ in their authorities *)
(* or cannot be digested.  The published vectors are checked beside them.  *)
(***************************************************************************)
EXTENDS EnforceSafety, EnforceVectors

CONSTANTS ta, tb, lone, k1, k2   \* two texts, one with a lone surrogate, and two keys

T(x) == [kind |-> "text", is |-> x]
N(n) == [kind |-> "int", is |-> n]
Other == [kind |-> "other", is |-> ta]
MCUndigestible == {T(lone)}

----------------------------------------------------------------------------
\* Transactions: an action, and what is found on the path f.

pay == [is_object |-> TRUE, fields |-> {"verb", "asset"}, canonical |-> TRUE, name |-> "pay"]
book == [pay EXCEPT !.name = "book"]

Tx(action, x) ==
  [is_object |-> TRUE, action |-> action, fields |-> x,
   canonical |-> action.canonical /\ \A f \in DOMAIN x : x[f] \notin MCUndigestible]
Found(x) == Tx(pay, [f \in {"f"} |-> x])
Nothing == [f \in {} |-> ta]

Transactions ==
  <<Found(N(5)), Found(T(ta)), Found(T(tb)), Found(T(lone)), Found(N(0)), Found(N(6)),
    Found(N(10000)), Found(Other), Tx(pay, Nothing), Tx(book, Nothing),
    Tx([pay EXCEPT !.fields = {"verb"}], Nothing),
    Tx([pay EXCEPT !.fields = @ \cup {"amount"}], Nothing),
    Tx([pay EXCEPT !.is_object = FALSE], Nothing),
    Tx([pay EXCEPT !.canonical = FALSE], Nothing),
    [Found(N(5)) EXCEPT !.is_object = FALSE]>>
MCTransaction ==
  [id \in [plain : 1..Len(Transactions)] \cup [vector : CheckIds] |->
     IF "plain" \in DOMAIN id THEN Transactions[id.plain] ELSE CheckVectors[id.vector].transaction]
usual == [plain |-> 1]

----------------------------------------------------------------------------
\* Mandates.

Exact(x) == [type |-> "exact", field |-> "f", value |-> x, values |-> <<>>, lo |-> N(1), hi |-> N(5)]
Enum(xs) == [Exact(T(ta)) EXCEPT !.type = "enum", !.values = xs]
Between(lo, hi) == [Exact(T(ta)) EXCEPT !.type = "range", !.lo = lo, !.hi = hi]
holds == Between(N(1), N(5))
fails == Between(N(6), N(9))

Constraint ==
  <<Exact(T(ta)), Exact(N(5)), Exact(T(lone)),
    Enum(<<T(tb), T(ta)>>), Enum(<<N(5)>>), Enum(<<>>), Enum(<<T(ta), T(ta), T(tb)>>),
    holds, Between(N(5), N(5)), Between(N(5), N(1)), Between(N(1), N(10000)),
    Between(Other, N(5)), [holds EXCEPT !.type = "regex"], [holds EXCEPT !.type = "none"]>>

Plain ==
  [binding_is_digest |-> TRUE, action_binding |-> {pay}, disposition |-> "allow",
   type_fields |-> <<"verb", "asset">>, constraints_listed |-> TRUE, constraints |-> <<>>]
Limited(g, c) == [g EXCEPT !.constraints = Append(@, c)]
Disposed(g, d) == [g EXCEPT !.disposition = d]

MalformedGrant ==
  <<[Plain EXCEPT !.binding_is_digest = FALSE], Disposed(Plain, "maybe"),
    [Plain EXCEPT !.type_fields = <<>>], [Plain EXCEPT !.type_fields = <<"asset">>],
    [Plain EXCEPT !.type_fields = <<"verb", "asset", "verb">>],
    [Plain EXCEPT !.type_fields = <<"verb", "asset", "x", "y", "z">>],
    [Plain EXCEPT !.constraints_listed = FALSE],
    [Plain EXCEPT !.constraints = <<holds, holds, holds>>]>>

\* Satisfied, not satisfied, and about something else.
About ==
  <<Limited(Plain, holds), Limited(Limited(Plain, holds), fails),
    [Plain EXCEPT !.action_binding = {book}], [Plain EXCEPT !.type_fields = <<"verb">>]>>
Kinds == (1..4) \X DISPOSITIONS
Matching == (1..2) \X DISPOSITIONS
Of(kind) == Disposed(About[kind[1]], kind[2])

Authority(did, key) == [did |-> did, key |-> key]
Holding(gs) ==
  [is_object |-> TRUE, is_null |-> FALSE, grants |-> gs, canonical |-> TRUE,
   principal |-> <<Authority("issuer", k1)>>, ratification_authorities |-> <<>>,
   authorities_iterable |-> TRUE]
held == Holding(<<Disposed(Plain, "hold")>>)

Named ==
  {"plain", "held", "rekeyed", "lone1", "lone2", "uneven", "null", "text", "empty",
   "crowded"}
Named_(id) ==
  CASE id = "plain" -> Holding(<<Plain>>)
    [] id = "held" -> held
    [] id = "rekeyed" ->
         [held EXCEPT !.ratification_authorities = <<Authority("role", k2), Authority("issuer", k2)>>]
    [] id = "lone1" -> [held EXCEPT !.canonical = FALSE]
    [] id = "lone2" -> [held EXCEPT !.canonical = FALSE, !.principal = <<Authority("issuer", k2)>>]
    [] id = "uneven" -> [held EXCEPT !.canonical = FALSE, !.authorities_iterable = FALSE]
    [] id = "null" -> [Holding(<<>>) EXCEPT !.is_object = FALSE, !.is_null = TRUE]
    [] id = "text" -> [Holding(<<>>) EXCEPT !.is_object = FALSE]
    [] id = "empty" -> Holding(<<>>)
    [] id = "crowded" -> Holding(<<Plain, Plain, Plain, Plain>>)

Identities ==
  [vector : CheckIds] \cup [one : 1..Len(Constraint)] \cup [malformed : 1..Len(MalformedGrant)] \cup [named : Named]
    \cup [many : (Kinds \X Kinds) \cup (Matching \X Matching \X Matching)]

MCMandate == [id \in Identities |->
  IF "vector" \in DOMAIN id THEN CheckVectors[id.vector].mandate
  ELSE IF "one" \in DOMAIN id
  THEN [Holding(<<Limited(Plain, Constraint[id.one])>>) EXCEPT
          !.canonical = Constraint[id.one].value \notin MCUndigestible]
  ELSE IF "malformed" \in DOMAIN id THEN Holding(<<Plain, MalformedGrant[id.malformed]>>)
  ELSE IF "many" \in DOMAIN id THEN Holding([i \in DOMAIN id.many |-> Of(id.many[i])])
  ELSE Named_(id.named)]

Call0(m, t) == [mandate |-> m, transaction |-> t]
MCFollowed ==
  {Call0(m, usual) : m \in [named : {"held", "lone1"}]}
MCCalls ==
  {Call0(m, usual) : m \in Identities}
  \cup {Call0(m, t) : m \in [one : 1..Len(Constraint)], t \in [plain : 1..9]}
  \cup {Call0(m, t) : m \in [named : {"plain"}], t \in [plain : 1..Len(Transactions)]}
  \cup {Call0([vector |-> v], [vector |-> v]) : v \in CheckIds}
MCShown == [named : {"held", "rekeyed", "lone2", "uneven", "null"}]

\* A record decided under another mandate, and one without the digest of its mandate.
earlier ==
  [mandate_digest |-> {[named |-> "rekeyed"]}, transaction_digest |-> {usual},
   action_digest |-> {pay}, verdict |-> "DENY", grant_index |-> {}, trace |-> <<>>,
   prev |-> {}]
MCEarlierCores == {earlier, [verdict |-> "PENDING", trace |-> <<>>]}

----------------------------------------------------------------------------
\* The published vectors.

RecordsOf(v) == {r \in records : r.mandate = [vector |-> v] /\ r.transaction = [vector |-> v]}

\* Every published vector is decided as published: verdict, grant and trace of a record,
\* outcome and trace of its ratification, through all questions of enforce_check().
VectorsAgree ==
  /\ \A v \in CheckIds : \A r \in RecordsOf(v) :
       LET want == CheckVectors[v] IN
       /\ r.core.verdict = want.verdict
       /\ want.grant_index # {} => r.core.grant_index = want.grant_index
       /\ trace_holds(want.trace, r.core.trace)
  /\ \A v \in RatifyIds : \A r \in RecordsOf(RatifyVectors[v].prior) :
       LET want == RatifyVectors[v]
           got == AnswerTo(want, r)
       IN  got.outcome = want.outcome /\ trace_holds(want.trace, got.trace)
=============================================================================
