--------------------------- MODULE EnforceVectors ---------------------------
(***************************************************************************)
(* The enforce vectors as tools/build_enforce_vectors.py assembles them,   *)
(* and the R05 vector of tools/build_resume_vectors.py.                    *)
(***************************************************************************)
EXTENDS EnforceKernel, TraceMatching

Text(x) == [kind |-> "text", is |-> x]
Number(n) == [kind |-> "int", is |-> n]

----------------------------------------------------------------------------
\* Mandates and transactions of the builder.

TF == <<"verb", "asset", "chain">>
PAY == [is_object |-> TRUE, fields |-> {"verb", "asset", "chain"}, canonical |-> TRUE,
        name |-> "transfer"]
NoObject(name) == [PAY EXCEPT !.is_object = FALSE, !.fields = {}, !.name = name]

grant(disposition, constraints, type_fields) ==
  [binding_is_digest |-> TRUE, action_binding |-> {PAY}, disposition |-> disposition,
   type_fields |-> type_fields, constraints_listed |-> TRUE, constraints |-> constraints]

MandateOf(gs) ==
  [is_object |-> TRUE, is_null |-> FALSE, grants |-> gs, canonical |-> TRUE,
   principal |-> <<>>, ratification_authorities |-> <<>>, authorities_iterable |-> TRUE]

PRINCIPAL_DID == "issuer"
PRINCIPAL_SK == "issuer-test-key-1"
STRANGER_DID == "stranger"
STRANGER_SK == "stranger-key"

ByPrincipal(gs) ==
  [MandateOf(gs) EXCEPT !.principal = <<[did |-> PRINCIPAL_DID, key |-> PRINCIPAL_SK]>>]

Allow(cs) == MandateOf(<<grant("allow", cs, TF)>>)

tx(action, to, amount, region) ==
  [is_object |-> TRUE, action |-> action, canonical |-> TRUE,
   fields |-> [path \in {"to", "amount", "region"} |->
                 CASE path = "to" -> Text(to) [] path = "amount" -> Number(amount)
                   [] path = "region" -> Text(region)]]
TxOf(action) == tx(action, "ADDR", 500, "CH")
Usual == TxOf(PAY)

EXACT == [type |-> "exact", field |-> "to", value |-> Text("ADDR"), values |-> <<>>,
          lo |-> Number(0), hi |-> Number(0)]
RANGE == [EXACT EXCEPT !.type = "range", !.field = "amount", !.hi = Number(1000)]
ENUM == [EXACT EXCEPT !.type = "enum", !.field = "region", !.values = <<Text("CH"), Text("DE")>>]

----------------------------------------------------------------------------
\* The vectors of enforce_check().

CheckVector(m, t, verdict, expected) ==
  [mandate |-> m, transaction |-> t, verdict |-> verdict, trace |-> expected, grant_index |-> {}]
Permit(m, t, expected) == CheckVector(m, t, "PERMIT", expected)
DenyOn(m, t, predicate) == CheckVector(m, t, "DENY", <<Entry(predicate, "FAIL")>>)

TypeFormIds == {"01", "02", "03", "04", "05", "06", "07", "08", "09", "10"}
TypeForm ==
  [v \in TypeFormIds |->
     CASE v = "01" ->
            [Permit(Allow(<<EXACT, RANGE>>), Usual,
                    <<Entry("type_fields", "PASS"), Entry("action_binding", "PASS"),
                      Entry("disposition", "PASS")>>) EXCEPT !.grant_index = {1}]
       [] v = "02" -> DenyOn(Allow(<<EXACT, RANGE>>),
                             TxOf([PAY EXCEPT !.fields = @ \cup {"amount"}]), "type_fields")
       [] v = "03" -> DenyOn(Allow(<<>>), TxOf([PAY EXCEPT !.fields = {"verb", "asset"}]),
                             "type_fields")
       [] v = "04" -> DenyOn(Allow(<<>>), TxOf(NoObject("string")), "type_fields")
       [] v = "05" -> DenyOn(Allow(<<>>), TxOf(NoObject("array")), "type_fields")
       [] v = "06" -> DenyOn(Allow(<<>>), TxOf(NoObject("number")), "type_fields")
       [] v = "07" -> DenyOn(Allow(<<>>), TxOf(NoObject("null")), "type_fields")
       [] v = "08" -> DenyOn(MandateOf(<<grant("allow", <<>>, <<>>)>>), Usual, "mandate_present")
       [] v = "09" -> DenyOn(MandateOf(<<grant("allow", <<>>, <<"asset", "chain">>)>>), Usual,
                             "mandate_present")
       [] v = "10" -> DenyOn(MandateOf(<<grant("allow", <<>>, <<"verb">> \o TF)>>), Usual,
                             "mandate_present")]

ConstraintLanguageIds == {"11", "12", "13", "14", "15", "16", "17", "18"}
ConstraintLanguage ==
  [v \in ConstraintLanguageIds |->
     CASE v = "11" -> Permit(Allow(<<EXACT>>), Usual, <<Entry("exact", "PASS")>>)
       [] v = "12" -> DenyOn(Allow(<<EXACT>>), tx(PAY, "ADDR_VANITY", 500, "CH"), "exact")
       [] v = "13" -> Permit(Allow(<<ENUM>>), Usual, <<Entry("enum", "PASS")>>)
       [] v = "14" -> DenyOn(Allow(<<ENUM>>), tx(PAY, "ADDR", 500, "US"), "enum")
       [] v = "15" -> Permit(Allow(<<RANGE>>), tx(PAY, "ADDR", 1000, "CH"),
                             <<Entry("range", "PASS")>>)
       [] v = "16" -> DenyOn(Allow(<<RANGE>>), tx(PAY, "ADDR", 1001, "CH"), "range")
       [] v = "17" -> DenyOn(Allow(<<[EXACT EXCEPT !.type = "regex"]>>), Usual, "regex")
       [] v = "18" -> DenyOn(Allow(<<[EXACT EXCEPT !.field = "action..verb",
                                                   !.value = Text("transfer")]>>),
                             Usual, "exact")]

VocabularyIds == {"19", "20", "21"}
Vocabulary ==
  [v \in VocabularyIds |->
     CASE v = "19" -> CheckVector(MandateOf(<<grant("hold", <<EXACT>>, TF)>>), Usual, "PENDING",
                                  <<Entry("disposition", "PASS")>>)
       [] v = "20" -> DenyOn(MandateOf(<<grant("hold", <<EXACT>>, TF)>>),
                             TxOf([PAY EXCEPT !.name = "withdraw"]), "action_binding")
       [] v = "21" ->
            [DenyOn(MandateOf(<<grant("allow", <<EXACT, RANGE>>, TF), grant("forbid", <<>>, TF)>>),
                    Usual, "disposition") EXCEPT !.grant_index = {2}]]

\* The amount drifts from the one approved, which the grant pins.
R05 ==
  CheckVector(Allow(<<EXACT, [RANGE EXCEPT !.lo = Number(120), !.hi = Number(120)]>>),
              tx(PAY, "ADDR", 150, "CH"), "DENY",
              <<Entry("exact", "PASS"), Entry("range", "FAIL")>>)

\* The records that 22 to 26 ratify: of a DENY, and of a PERMIT.
PriorIds == {"deny", "permit"}
Priors ==
  [v \in PriorIds |->
     IF v = "deny"
     THEN CheckVector(ByPrincipal(<<grant("allow", <<[RANGE EXCEPT !.hi = Number(100)]>>, TF)>>),
                      Usual, "DENY", <<>>)
     ELSE Permit(ByPrincipal(<<grant("allow", <<EXACT, RANGE>>, TF)>>), Usual, <<>>)]

CheckIds == TypeFormIds \cup ConstraintLanguageIds \cup VocabularyIds \cup PriorIds \cup {"R05"}
CheckVectors ==
  [v \in CheckIds |->
     CASE v \in TypeFormIds -> TypeForm[v]
       [] v \in ConstraintLanguageIds -> ConstraintLanguage[v]
       [] v \in VocabularyIds -> Vocabulary[v]
       [] v \in PriorIds -> Priors[v]
       [] v = "R05" -> R05]

----------------------------------------------------------------------------
\* The vectors of ratify().

RatifyVector(prior, decision, did, sk, prev, outcome, expected) ==
  [prior |-> prior, decision |-> decision, did |-> did, sk |-> sk, prev |-> prev,
   outcome |-> outcome, trace |-> expected]

RatifyIds == {"22", "23", "24", "25", "26"}
RatifyVectors ==
  [v \in RatifyIds |->
     CASE v = "22" ->
            RatifyVector("deny", "APPROVED", PRINCIPAL_DID, PRINCIPAL_SK, "none", "RATIFIED",
                         <<Entry("mandate_binding", "PASS"), Entry("authority_in_mandate", "PASS"),
                           Entry("authority_signature", "PASS")>>)
       [] v = "23" ->
            RatifyVector("deny", "APPROVED", STRANGER_DID, STRANGER_SK, "none", "REJECTED",
                         <<Entry("mandate_binding", "PASS"), Entry("authority_in_mandate", "FAIL")>>)
       [] v = "24" ->
            RatifyVector("permit", "APPROVED", PRINCIPAL_DID, PRINCIPAL_SK, "none",
                         "RatifyError", <<>>)
       [] v = "25" ->
            RatifyVector("deny", "APPROVED", PRINCIPAL_DID, PRINCIPAL_SK, "elsewhere",
                         "RatifyError", <<>>)
       [] v = "26" ->
            RatifyVector("deny", "DISAPPROVED", PRINCIPAL_DID, PRINCIPAL_SK, "prior",
                         "RATIFIED", <<>>)]

\* The call a ratification vector makes on a record, with a proof as proof_for() signs it.
AnswerTo(vector, r) ==
  LET core == r.core
      proof == [mandate |-> r.mandate, authority |-> vector.did,
                signature |-> {[key |-> vector.sk, authority |-> vector.did, ratifies |-> core,
                                decision |-> vector.decision]}]
      prev == CASE vector.prev = "none" -> {}
                [] vector.prev = "prior" -> r.core_digest
                [] vector.prev = "elsewhere" -> {[core EXCEPT !.verdict = "PENDING"]}
  IN  RatifyAnswer([core |-> {core}, core_digest |-> r.core_digest], vector.decision, {proof}, prev)
=============================================================================
