-------------------------- MODULE MCNativeVerifier --------------------------
(***************************************************************************)
(* A root, a mid and a leaf envelope as in vectors/06 (registry -> A -> B  *)
(* -> C), each with the departures below from the valid one.  Presentations *)
(* put every pair of departures on a path of one, two or three envelopes,  *)
(* and permute, repeat, cut and extend the chain.  The published vectors    *)
(* are checked beside them.                                                *)
(***************************************************************************)
EXTENDS NativeVerifierSafety, ResumeVectors

PublishedVectors == DOMAIN Native \cup DOMAIN NATIVE_ROWS
Published ==
  [v \in PublishedVectors |-> IF v \in Rows THEN NATIVE_ROWS[v] ELSE Native[v]]

\* Every published vector is decided as published: the result, the step and the reason.
\* Whether a later check of verify() gets to speak, and in which order the checks of a
\* link are made, is what most of these vectors are about.
VectorsAgree ==
  pc = "done" =>
    \A v \in PublishedVectors :
      LET call == CallOf(Published, v) IN
      presented = call.presented /\ ctx = call.ctx => verdict = Published[v].expected

MCDomains == {"Shop", "shop", "other", "flights", "hotels"}
MCLower == [d \in MCDomains |-> IF d = "Shop" THEN "shop" ELSE d]

Unstated ==
  [stated |-> FALSE, is_object |-> TRUE, required |-> TRUE, value |-> {}, currency |-> "",
   domains |-> {}]
Limit0 == [Unstated EXCEPT !.stated = TRUE]
Cap(n) == [Limit0 EXCEPT !.value = {n}, !.currency = "USD"]
Allow(S) == [Limit0 EXCEPT !.domains = S]
Rate(n) == [Limit0 EXCEPT !.value = {n}]
cap == "max_transaction_value"

Base ==
  [signature |-> "valid", signer |-> "reg", cty |-> TRUE, shape |-> "ok",
   id |-> "root", issuer |-> "reg", subject |-> "A",
   notBefore |-> {2}, notAfter |-> {8}, validFrom |-> {},
   single_use |-> FALSE, revocation_check |-> FALSE, actions |-> {"read", "pay"},
   constraints |-> [t \in ConstraintTypes |->
                      CASE t = cap -> Cap(3)
                        [] t = "allowed_domains" -> Allow({"Shop", "shop"})
                        [] OTHER -> Unstated],
   delegated |-> FALSE, delegator_did |-> "", delegator_aae_id |-> "",
   delegator_aae_hash |-> {}, depth |-> {}, max_depth |-> {}, policy_max_depth |-> {2}]

Delegate(p, id, subject, d) ==
  [p EXCEPT !.id = id, !.signer = p.subject, !.issuer = p.subject, !.subject = subject,
            !.delegated = TRUE, !.delegator_did = p.subject, !.delegator_aae_id = p.id,
            !.depth = {d}, !.max_depth = {2}, !.policy_max_depth = {}]

Roles == {"root", "mid", "leaf"}

Valid == [r \in Roles |->
  LET mid == Delegate(Base, "mid", "B", 1) IN
  CASE r = "root" -> Base
    [] r = "mid" -> mid
    [] r = "leaf" -> Delegate(mid, "leaf", "C", 2)]

\* Departures that step 9 looks at, on any envelope of a path.
Departures ==
  {"valid", "forged", "bad_base64", "wrong_signer", "own_signer", "expired", "early",
   "revocable", "pay_only", "read_only", "low_cap", "high_cap", "no_cap", "optional_cap",
   "valueless_cap", "euro", "narrow_list", "string_cap", "unknown_optional",
   "same_id", "other_id", "no_depth", "no_max", "deep", "low_max", "hash_root", "wide",
   "no_policy", "not_object", "no_subject_id"}

Depart(e, v) ==
  CASE v = "valid" -> e
    [] v = "forged" -> [e EXCEPT !.signature = "invalid_signature"]
    [] v = "bad_base64" -> [e EXCEPT !.signature = Uncaught]
    [] v = "wrong_signer" -> [e EXCEPT !.signer = "B"]
    [] v = "own_signer" -> [e EXCEPT !.signer = "C", !.issuer = "C", !.delegator_did = "C"]
    [] v = "expired" -> [e EXCEPT !.notAfter = {4}]
    [] v = "early" -> [e EXCEPT !.validFrom = {6}]
    [] v = "wide" -> [e EXCEPT !.notBefore = {1}]
    [] v = "revocable" -> [e EXCEPT !.revocation_check = TRUE]
    [] v = "pay_only" -> [e EXCEPT !.actions = {"pay"}]
    [] v = "read_only" -> [e EXCEPT !.actions = {"read"}]
    [] v = "low_cap" -> [e EXCEPT !.constraints[cap] = Cap(2)]
    [] v = "high_cap" -> [e EXCEPT !.constraints[cap] = Cap(4)]
    [] v = "no_cap" -> [e EXCEPT !.constraints[cap] = Unstated]
    [] v = "optional_cap" -> [e EXCEPT !.constraints[cap].required = FALSE]
    [] v = "valueless_cap" -> [e EXCEPT !.constraints[cap].value = {}]
    [] v = "euro" -> [e EXCEPT !.constraints[cap].currency = "EUR"]
    [] v = "narrow_list" -> [e EXCEPT !.constraints["allowed_domains"] = Allow({"Shop"})]
    [] v = "string_cap" -> [e EXCEPT !.constraints[cap].is_object = FALSE]
    [] v = "unknown_optional" ->
         [e EXCEPT !.constraints["unrecognized"] = [Limit0 EXCEPT !.required = FALSE]]
    [] v = "same_id" -> [e EXCEPT !.id = "root"]
    [] v = "other_id" -> [e EXCEPT !.id = "other"]
    [] v = "no_depth" -> [e EXCEPT !.depth = {}]
    [] v = "no_max" -> [e EXCEPT !.max_depth = {}]
    [] v = "deep" -> [e EXCEPT !.depth = {3}]
    [] v = "low_max" -> [e EXCEPT !.max_depth = {1}, !.policy_max_depth = {1}]
    [] v = "hash_root" -> [e EXCEPT !.delegator_aae_hash = {<<"root", "valid">>}]
    [] v = "no_policy" -> [e EXCEPT !.policy_max_depth = {}]
    [] v = "not_object" -> [e EXCEPT !.shape = "payload_not_object"]
    [] v = "no_subject_id" -> [e EXCEPT !.shape = "no_subject_id"]

\* Departures that only the steps before 9 look at, on an envelope of its own.
SingleDepartures ==
  {"cty", "no_validity", "no_issuer", "single_use", "unknown_required", "string_unknown",
   "rate", "rate_valueless"}

DepartAlone(e, v) ==
  CASE v = "cty" -> [e EXCEPT !.cty = FALSE]
    [] v = "no_validity" -> [e EXCEPT !.shape = "no_validity"]
    [] v = "no_issuer" -> [e EXCEPT !.shape = "no_issuer"]
    [] v = "single_use" -> [e EXCEPT !.single_use = TRUE]
    [] v = "unknown_required" -> [e EXCEPT !.constraints["unrecognized"] = Limit0]
    [] v = "string_unknown" ->
         [e EXCEPT !.constraints["unrecognized"] = [Limit0 EXCEPT !.is_object = FALSE]]
    [] v = "rate" -> [e EXCEPT !.constraints["rate_limit"] = Rate(1)]
    [] v = "rate_valueless" -> [e EXCEPT !.constraints["rate_limit"] = Limit0]

Departed == (Roles \X Departures) \cup ({"root"} \X SingleDepartures)

MCJWS == Departed \cup JwsOf(Published)

MCPayload == [j \in MCJWS |->
  IF j[1] \in PublishedVectors THEN Published[j[1]].path[j[2]]
  ELSE IF j[2] \in Departures THEN Depart(Valid[j[1]], j[2]) ELSE DepartAlone(Valid[j[1]], j[2])]

Root(v) == <<"root", v>>
Mid(v) == <<"mid", v>>
Leaf(v) == <<"leaf", v>>

Present(j, c) == [aae |-> j, chain |-> c]

Alone == {Present(j, <<>>) : j \in Departed}
Two == {Present(Mid(v), <<Root(w)>>) : v, w \in Departures}
\* A path of three with at most two departures, and every way a cap can vary on it.
CapDepartures == {"valid", "optional_cap", "no_cap", "valueless_cap", "low_cap", "high_cap"}
Three ==
  {Present(Leaf(u), <<Root(w), Mid(v)>>) : u, v, w \in CapDepartures}
  \cup {Present(Leaf(u), <<Root("valid"), Mid(v)>>) : u, v \in Departures}
  \cup {Present(Leaf(u), <<Root(w), Mid("valid")>>) : u, w \in Departures}
\* Chains that are cut, reversed, repeated, or run on above the root.
Odd ==
  {Present(Leaf("valid"), <<Mid(v)>>) : v \in Departures}
  \cup {Present(Leaf(u), <<Mid("valid")>>) : u \in Departures}
  \cup {Present(Leaf("valid"), c) : c \in
          {<<Mid("valid"), Root("valid")>>, <<Root("valid"), Mid("valid"), Mid("valid")>>,
           <<Root("other_id"), Root("valid"), Mid("valid")>>, <<Leaf("valid"), Mid("valid")>>,
           <<Root("valid"), Root("valid")>>}}
  \cup {Present(Root("valid"), <<Mid(v)>>) : v \in Departures}

Answers(status, unparseable, revoked) ==
  [id : {"root", "mid", "leaf"}, http_status : {status}, unparseable : {unparseable},
   revoked : {revoked}]

Usual ==
  [current_time |-> 5, challenge_response_valid |-> TRUE, consumed_ids |-> {},
   requested_action |-> "read", amount |-> {2}, currency |-> "USD", domain |-> {"shop"},
   rate_count |-> {0}, revocation_responses |-> Answers(200, FALSE, "false")]

MCContexts ==
  { Usual,
    [Usual EXCEPT !.current_time = 1],
    [Usual EXCEPT !.amount = {4}, !.rate_count = {1}],
    [Usual EXCEPT !.amount = {}, !.domain = {}, !.rate_count = {}],
    [Usual EXCEPT !.revocation_responses =
       {r \in Answers(200, FALSE, "true") : r.id = "root"}
       \cup {r \in Answers(200, FALSE, "false") : r.id # "root"}],
    [Usual EXCEPT !.revocation_responses = Answers(503, FALSE, "absent")],
    [Usual EXCEPT !.revocation_responses = Answers(404, FALSE, "absent")] }

\* Contexts only an envelope of its own needs.
MCSingleContexts ==
  { [Usual EXCEPT !.challenge_response_valid = FALSE],
    [Usual EXCEPT !.consumed_ids = {"root"}],
    [Usual EXCEPT !.requested_action = "book"],
    [Usual EXCEPT !.domain = {"other"}],
    [Usual EXCEPT !.current_time = 8],
    [Usual EXCEPT !.current_time = 9],
    [Usual EXCEPT !.amount = {3}, !.currency = "EUR"],
    [Usual EXCEPT !.revocation_responses = {}],
    [Usual EXCEPT !.revocation_responses = Answers(200, TRUE, "absent")] }

CallsOf(presentations, contexts) == [presented : presentations, ctx : contexts]

MCCalls ==
  CallsOf(Alone, MCContexts \cup MCSingleContexts)
  \cup CallsOf(Two \cup Three \cup Odd, MCContexts)
  \cup {CallOf(Published, v) : v \in PublishedVectors}
=============================================================================
