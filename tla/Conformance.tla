----------------------------- MODULE Conformance -----------------------------
(***************************************************************************)
(* What a conformance run promises, whatever the implementation under test *)
(* does: the selected vectors are judged one after another, each once; a   *)
(* vector passes exactly if every answer the protocol asks for was given   *)
(* and conforms; and the exit status says whether all of them passed.      *)
(***************************************************************************)
EXTENDS Answers

VARIABLES
  suite,    \* the selected vectors
  results,  \* the entries of the report so far
  exit,     \* the exit status: {} until the run ends, then {0}, {1} or {2}
  answered  \* what each vector was answered with, in time, as committed and when sent again

Agrees(resp, exp, keys) == \A key \in keys : Has(resp, key) /\ resp[key] = exp[key]
AgreesIfStated(resp, exp, key) == Has(exp, key) => Agrees(resp, exp, {key})
TraceAgrees(resp, exp) ==
  Has(exp, "trace") /\ Has(resp, "trace") => resp["trace"] \in exp["trace"]

EnforceConforms(resp, exp) ==
  /\ Agrees(resp, exp, {"verdict", "core_digest"})
  /\ AgreesIfStated(resp, exp, "grant_index")
  /\ TraceAgrees(resp, exp)

RefusalConforms(resp) ==
  Get(resp, "caller_error") \in JsonText \ {""} /\ Get(resp, "status") = Null

RatifyConforms(resp, exp) ==
  /\ Get(resp, "caller_error") = Null
  /\ Agrees(resp, exp, {"status", "core_digest", "ratifies"})
  /\ AgreesIfStated(resp, exp, "authority")
  /\ TraceAgrees(resp, exp)

\* The answer matches the tables of the protocol: the members it names are there and equal
\* to the expected ones, and nothing says that the question went unanswered.
Conforms(v, resp) ==
  /\ Get(resp, "error") = Null
  /\ IF wire_family(v) = "native"
     THEN Agrees(resp, v.expected, {"result", "verification_step"})
     ELSE IF v.kernel = "enforce_check" THEN EnforceConforms(resp, v.expected)
     ELSE IF Has(v.expected, "error") THEN RefusalConforms(resp)
     ELSE RatifyConforms(resp, v.expected)

\* A vector may read PASS: it was answered as the tables ask, and an enforce_check vector
\* once more with the expected digest.
Earned(v, said, again) ==
  \E resp \in said :
    /\ Conforms(v, resp)
    /\ Rerun(v) => \E r \in again : Get(r, "core_digest") = v.expected["core_digest"]

AllPassed == \A i \in 1..Len(results) : results[i].status = "PASS"

Init ==
  /\ suite \in Suites /\ results = <<>> /\ exit = {}
  /\ answered = [i \in 1..Len(suite) |-> [again \in BOOLEAN |-> {}]]

\* Only the vector in question is answered, and nothing it was answered with is forgotten.
Asked(n) ==
  /\ exit = {} /\ n = Len(results) + 1 /\ n <= Len(suite)
  /\ \A i \in 1..Len(suite), again \in BOOLEAN :
       /\ answered[i][again] \subseteq answered'[i][again]
       /\ i # n => answered'[i][again] = answered[i][again]

Answer ==
  /\ Asked(Len(results) + 1)
  /\ UNCHANGED <<suite, results, exit>>

Judge ==
  /\ Asked(Len(results'))
  /\ \A i \in 1..Len(results) : results'[i] = results[i]
  /\ LET n == Len(results')
     IN  results'[n].status = "PASS" <=>
           Earned(suite[n], answered'[n][FALSE], answered'[n][TRUE])
  /\ UNCHANGED <<suite, exit>>

End ==
  /\ exit = {} /\ Len(results) = Len(suite)
  /\ exit' = IF suite = <<>> THEN {2} ELSE IF AllPassed THEN {0} ELSE {1}
  /\ UNCHANGED <<suite, results, answered>>

Spec == Init /\ [][Answer \/ Judge \/ End]_<<suite, results, exit, answered>>
=============================================================================
