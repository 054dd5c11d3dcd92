------------------------------- MODULE Answers -------------------------------
(***************************************************************************)
(* A vector, what an implementation may answer to it, and how the runners  *)
(* compare the two (docs/RUNNER-PROTOCOL.md).  The Python and the          *)
(* TypeScript runner compare alike; a failure message is named here by the *)
(* member it is about.                                                     *)
(*                                                                         *)
(* A JSON object is a function from the members it has to their values, so *)
(* absent and null differ, as they do in need() and compare().  An         *)
(* expected trace is given as the set of traces check_trace() accepts for  *)
(* it, and a value that may be missing as a set of at most one.            *)
(***************************************************************************)
EXTENDS Naturals, Sequences

CONSTANTS
  Null,       \* JSON null
  JsonInt,    \* the integers members may carry
  JsonText,   \* the strings members may carry
  Text,       \* what an implementation may print: its kind, and the object if it is one
  Vector,     \* the vectors: family, kernel ("none" if it names none), expected
  Suites      \* the sequences of vectors a command line may select

NATIVE_RESULTS == {"ACCEPT", "REJECT"}
VERDICTS == {"PERMIT", "DENY", "PENDING"}
STATUSES == {"RATIFIED", "REJECTED"}

\* Null is no string, a command line selects a sequence of vectors, a text is at most one
\* object, and a vector states what its schema requires of it.
ASSUME JsonAssumption == Null \notin JsonText
ASSUME SuitesAssumption == Suites \subseteq Seq(Vector)
ASSUME TextAssumption == \A t \in Text : t.object = {} \/ \E o \in t.object : t.object = {o}
ASSUME VectorAssumption ==
  \A v \in Vector :
    LET stated == DOMAIN v.expected
    IN  /\ v.family \in {"native", "enforce", "resume"}
        /\ v.kernel \in {"none", "enforce_check", "ratify"}
        /\ IF v.family = "native" \/ (v.family = "resume" /\ v.kernel = "none")
           THEN /\ {"result", "verification_step"} \subseteq stated
                /\ v.expected["result"] \in NATIVE_RESULTS
                /\ v.expected["verification_step"] \in JsonInt
           ELSE IF v.kernel = "enforce_check"
           THEN /\ {"verdict", "core_digest"} \subseteq stated
                /\ v.expected["verdict"] \in VERDICTS
                /\ v.expected["core_digest"] \in JsonText
           ELSE "error" \notin stated =>
                /\ {"status", "core_digest", "ratifies"} \subseteq stated
                /\ v.expected["status"] \in STATUSES
                /\ {v.expected["core_digest"], v.expected["ratifies"]} \subseteq JsonText

\* A response, or none.
Optional == {{}} \cup {t.object : t \in Text}

Has(resp, key) == key \in DOMAIN resp
Get(resp, key) == IF Has(resp, key) THEN resp[key] ELSE Null

\* A resume vector goes out in one of the two existing shapes.
wire_family(v) ==
  IF v.family # "resume" THEN v.family
  ELSE IF v.kernel = "none" THEN "native" ELSE "enforce"

----------------------------------------------------------------------------
\* Comparing a response with what the vector expects.

reported_error(resp) == Get(resp, "error") # Null

\* The members a response lacks or gives the wrong type, and those that differ.
need(resp, typed) == {key \in DOMAIN typed : ~Has(resp, key) \/ resp[key] \notin typed[key]}
NeedStated(resp, exp, key) == IF Has(exp, key) /\ ~Has(resp, key) THEN {key} ELSE {}
compare(resp, exp, keys) == {key \in keys \cap DOMAIN exp : Get(resp, key) # exp[key]}
check_trace(resp, exp) ==
  IF Has(exp, "trace") /\ Has(resp, "trace") /\ resp["trace"] \notin exp["trace"]
  THEN {"trace"} ELSE {}

FirstNonEmpty(problems, rest) == IF problems # {} THEN problems ELSE rest

check_native(resp, exp) ==
  IF reported_error(resp) THEN {"error"}
  ELSE FirstNonEmpty(need(resp, [result |-> NATIVE_RESULTS, verification_step |-> JsonInt]),
                     compare(resp, exp, {"result", "verification_step"}))

check_enforce_check(resp, exp) ==
  IF reported_error(resp) THEN {"error"}
  ELSE FirstNonEmpty(need(resp, [verdict |-> VERDICTS, core_digest |-> JsonText])
                       \cup NeedStated(resp, exp, "grant_index"),
                     compare(resp, exp, {"verdict", "core_digest", "grant_index"})
                       \cup check_trace(resp, exp))

\* A vector whose expected outcome is a refusal wants caller_error and no status.
CheckRefusal(resp) ==
  IF Get(resp, "caller_error") = Null THEN {"caller_error"}
  ELSE IF resp["caller_error"] \notin JsonText \ {""} THEN {"caller_error"}
  ELSE IF Get(resp, "status") # Null THEN {"status"} ELSE {}

check_ratify(resp, exp) ==
  IF reported_error(resp) THEN {"error"}
  ELSE IF Has(exp, "error") THEN CheckRefusal(resp)
  ELSE IF Get(resp, "caller_error") # Null THEN {"caller_error"}
  ELSE FirstNonEmpty(need(resp, [status |-> STATUSES, core_digest |-> JsonText,
                                 ratifies |-> JsonText])
                       \cup NeedStated(resp, exp, "authority"),
                     compare(resp, exp, {"status", "core_digest", "ratifies", "authority"})
                       \cup check_trace(resp, exp))

\* run_vector(): what is wrong with the answer to the vector as committed ...
Failures(v, resp) ==
  IF wire_family(v) = "native" THEN check_native(resp, v.expected)
  ELSE IF v.kernel = "enforce_check" THEN check_enforce_check(resp, v.expected)
  ELSE check_ratify(resp, v.expected)

\* ... whether it is sent again with its keys reversed, and what is wrong then.
Rerun(v) == wire_family(v) = "enforce" /\ v.kernel = "enforce_check"

RerunFailures(resp, again) ==
  IF Get(again, "core_digest") \notin JsonText THEN {"core_digest"}
  ELSE IF again["core_digest"] # resp["core_digest"] THEN {"core_digest"} ELSE {}
=============================================================================
