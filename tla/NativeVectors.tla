--------------------------- MODULE NativeVectors ---------------------------
(***************************************************************************)
(* The fifteen native vectors as tools/build_vectors.py assembles them:    *)
(* the path of envelopes, the context, and the result of section 5 each    *)
(* was published with.  A vector's JWS at position i of its path is the    *)
(* key <<vector, i>>.  Instants are hours of the day of the vectors.       *)
(***************************************************************************)
EXTENDS Envelopes

NB == 8
NA == 16
NOON == 12

REGISTRY == "registry"
AGENT_001 == "agent-001"
AGENT_A == "agent-a"
AGENT_B == "agent-b"
AGENT_C == "agent-c"

NoConstraint ==
  [stated |-> FALSE, is_object |-> TRUE, required |-> TRUE, value |-> {}, currency |-> "",
   domains |-> {}]

max_tx(value, currency) ==
  [NoConstraint EXCEPT !.stated = TRUE, !.value = {value}, !.currency = currency]

WithCap(value, currency) ==
  [t \in ConstraintTypes |->
     IF t = "max_transaction_value" THEN max_tx(value, currency) ELSE NoConstraint]

\* vc() around root_mandate(), signed with the key of the registry.
RootOf(id, subject, actions, policy_max_depth, cap) ==
  [signature |-> "valid", signer |-> REGISTRY, cty |-> TRUE, shape |-> "ok",
   id |-> id, issuer |-> REGISTRY, subject |-> subject,
   notBefore |-> {NB}, notAfter |-> {NA}, validFrom |-> {NB},
   single_use |-> FALSE, revocation_check |-> FALSE, actions |-> actions,
   constraints |-> WithCap(cap, "USD"),
   delegated |-> FALSE, delegator_did |-> "", delegator_aae_id |-> "",
   delegator_aae_hash |-> {}, depth |-> {}, max_depth |-> {},
   policy_max_depth |-> policy_max_depth]

\* vc() around a delegated mandate, signed with the key of the delegator.
DelegatedTo(subject, id, by, parent_id, actions, cap, depth, max_depth) ==
  [RootOf(id, subject, actions, {}, cap) EXCEPT
     !.signer = by, !.issuer = by, !.delegated = TRUE, !.delegator_did = by,
     !.delegator_aae_id = parent_id, !.depth = {depth}, !.max_depth = {max_depth}]

All == {"read", "book", "pay"}

At(time, action, amount) ==
  [current_time |-> time, challenge_response_valid |-> TRUE, consumed_ids |-> {},
   requested_action |-> action, amount |-> {amount}, currency |-> "USD", domain |-> {},
   rate_count |-> {}, revocation_responses |-> {}]

Book == At(NOON, "book", 300)
Read == At(NOON, "read", 50)

Status(id, http_status, revoked) ==
  [id |-> id, http_status |-> http_status, unparseable |-> FALSE, revoked |-> revoked]

ACCEPT(step) == [result |-> "ACCEPT", step |-> step, reason |-> NoFault]
REJECT(step, reason) == [result |-> "REJECT", step |-> step, reason |-> reason]

\* path: the delegation_chain, then the presented envelope.
Vector(path, c, expected) == [path |-> path, ctx |-> c, expected |-> expected]

----------------------------------------------------------------------------
aae_01 ==
  [RootOf("01", AGENT_001, All, {}, 500) EXCEPT
     !.constraints["allowed_domains"] =
        [NoConstraint EXCEPT !.stated = TRUE, !.domains = {"flights", "hotels"}]]

BookFlights == [Book EXCEPT !.domain = {"flights"}]

V01 == Vector(<<aae_01>>, BookFlights, ACCEPT(7))

aae_02 == [aae_01 EXCEPT !.id = "02"]

V02 == Vector(<<aae_02>>, [BookFlights EXCEPT !.current_time = 17],
              REJECT(3, "expired_not_after"))

\* The JWS of vector 02, earlier.
V03 == Vector(<<aae_02>>, [BookFlights EXCEPT !.current_time = 7],
              REJECT(3, "not_yet_valid_not_before"))

V04 == Vector(<<[RootOf("04", AGENT_001, All, {}, 500) EXCEPT !.revocation_check = TRUE]>>,
              [Book EXCEPT !.revocation_responses = {Status("04", 503, "absent")}],
              REJECT(8, "revocation_status_indeterminate"))

V05 == Vector(<<[RootOf("05", AGENT_001, All, {}, 500) EXCEPT !.single_use = TRUE]>>,
              [Book EXCEPT !.consumed_ids = {"05"}],
              REJECT(5, "single_use_already_consumed"))

V06 ==
  LET root_del == RootOf("06-a0", AGENT_A, All, {2}, 500)
      d1 == [DelegatedTo(AGENT_B, "06-b1", AGENT_A, "06-a0", {"read", "book"}, 300, 1, 2)
               EXCEPT !.delegator_aae_hash = {<<"06", 1>>}]
      d2 == [DelegatedTo(AGENT_C, "06-c2", AGENT_B, "06-b1", {"read"}, 100, 2, 2)
               EXCEPT !.delegator_aae_hash = {<<"06", 2>>}]
  IN Vector(<<root_del, d1, d2>>, Read, ACCEPT(9))

V07 == Vector(<<RootOf("07-a7", AGENT_A, {"read", "book"}, {2}, 500),
                DelegatedTo(AGENT_B, "07", AGENT_A, "07-a7", All, 300, 1, 2)>>,
              Read, REJECT(9, "delegated_actions_not_subset"))

V08 == Vector(<<RootOf("08-a8", AGENT_A, {"read", "book"}, {2}, 500),
                DelegatedTo(AGENT_B, "08", AGENT_A, "08-a8", {"read"}, 1000, 1, 2)>>,
              Read, REJECT(9, "delegated_constraint_relaxed"))

V09 == Vector(<<RootOf("09-a9", AGENT_A, {"read"}, {2}, 500),
                DelegatedTo(AGENT_B, "09-b9", AGENT_A, "09-a9", {"read"}, 300, 1, 1),
                DelegatedTo(AGENT_C, "09", AGENT_B, "09-b9", {"read"}, 100, 2, 1)>>,
              Read, REJECT(9, "delegation_depth_exceeded"))

\* The parent the middle envelope names is the presented one.
V10 == Vector(<<RootOf("0a", AGENT_A, {"read"}, {2}, 500),
                DelegatedTo(AGENT_B, "0a-b1", AGENT_A, "0a", {"read"}, 300, 1, 2),
                DelegatedTo(AGENT_C, "0a", AGENT_B, "0a-b1", {"read"}, 100, 2, 2)>>,
              Read, REJECT(9, "delegation_cycle_detected"))

V11 ==
  LET casc_root == [RootOf("0b-a0", AGENT_A, {"read", "book"}, {2}, 500)
                      EXCEPT !.revocation_check = TRUE]
      casc_child == [DelegatedTo(AGENT_B, "0b-b1", AGENT_A, "0b-a0", {"read"}, 300, 1, 2)
                       EXCEPT !.delegator_aae_hash = {<<"11", 1>>}]
  IN Vector(<<casc_root, casc_child>>,
            [Read EXCEPT !.revocation_responses = {Status("0b-a0", 200, "true")}],
            REJECT(9, "ancestor_revoked"))

V12 == Vector(<<[RootOf("0c", AGENT_001, All, {}, 500) EXCEPT !.signer = AGENT_A]>>,
              Book, REJECT(1, "signing_authority_mismatch"))

V13 == Vector(<<[RootOf("0d", AGENT_001, All, {}, 500) EXCEPT
                   !.constraints["unrecognized"] = [NoConstraint EXCEPT !.stated = TRUE]]>>,
              Book, REJECT(7, "unrecognized_required_constraint"))

V14 == Vector(<<[RootOf("0e", AGENT_001, All, {}, 500) EXCEPT !.cty = FALSE]>>,
              Book, REJECT(2, "cty_not_aae_json"))

V15 == Vector(<<RootOf("0f-af", AGENT_A, {"read", "book"}, {2}, 500),
                [DelegatedTo(AGENT_B, "0f", AGENT_A, "0f-af", {"read"}, 300, 1, 2)
                   EXCEPT !.constraints = WithCap(300, "EUR")]>>,
              [Read EXCEPT !.currency = "EUR"], REJECT(9, "delegation_currency_mismatch"))

Native ==
  [v \in {"01", "02", "03", "04", "05", "06", "07", "08", "09", "10", "11", "12", "13",
          "14", "15"} |->
     CASE v = "01" -> V01 [] v = "02" -> V02 [] v = "03" -> V03 [] v = "04" -> V04
       [] v = "05" -> V05 [] v = "06" -> V06 [] v = "07" -> V07 [] v = "08" -> V08
       [] v = "09" -> V09 [] v = "10" -> V10 [] v = "11" -> V11 [] v = "12" -> V12
       [] v = "13" -> V13 [] v = "14" -> V14 [] v = "15" -> V15]

----------------------------------------------------------------------------
\* What a set of vectors puts in circulation, and the call each of them makes.

JwsOf(vectors) ==
  {j \in (DOMAIN vectors) \X (1..3) : j[2] <= Len(vectors[j[1]].path)}

CallOf(vectors, v) ==
  LET n == Len(vectors[v].path) IN
  [presented |-> [aae |-> <<v, n>>, chain |-> [i \in 1..(n - 1) |-> <<v, i>>]],
   ctx |-> vectors[v].ctx]
=============================================================================
