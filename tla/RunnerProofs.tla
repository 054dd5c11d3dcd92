---------------------------- MODULE RunnerProofs -----------------------------
(***************************************************************************)
(* Proofs about the runner, for every selection of vectors and everything  *)
(* an implementation may print or leave behind.                            *)
(***************************************************************************)
EXTENDS RunnerSafety, TLAPS

\* What each vector of a selection is, as the assumptions on vectors state it.
LEMMA VectorKinds ==
  ASSUME NEW v \in Vector
  PROVE  /\ wire_family(v) = "native" =>
              /\ {"result", "verification_step"} \subseteq DOMAIN v.expected
              /\ v.expected["result"] \in NATIVE_RESULTS
              /\ v.expected["verification_step"] \in JsonInt
         /\ wire_family(v) # "native" => wire_family(v) = "enforce"
         /\ wire_family(v) # "native" /\ v.kernel = "enforce_check" =>
              /\ {"verdict", "core_digest"} \subseteq DOMAIN v.expected
              /\ v.expected["verdict"] \in VERDICTS
              /\ v.expected["core_digest"] \in JsonText
         /\ wire_family(v) # "native" /\ v.kernel # "enforce_check"
              /\ "error" \notin DOMAIN v.expected =>
              /\ {"status", "core_digest", "ratifies"} \subseteq DOMAIN v.expected
              /\ v.expected["status"] \in STATUSES
              /\ {v.expected["core_digest"], v.expected["ratifies"]} \subseteq JsonText
BY VectorAssumption DEF wire_family

\* need() and compare() find nothing exactly if every member they look at is present, of
\* its type, and equal to the expected one.
LEMMA NothingMissing ==
  ASSUME NEW resp, NEW typed
  PROVE  need(resp, typed) = {} <=>
           \A key \in DOMAIN typed : Has(resp, key) /\ resp[key] \in typed[key]
BY DEF need

LEMMA NothingDiffers ==
  ASSUME NEW resp, NEW exp, NEW keys
  PROVE  compare(resp, exp, keys) = {} <=>
           \A key \in keys : Has(exp, key) => Get(resp, key) = exp[key]
BY DEF compare, Has

LEMMA NativeConforms ==
  ASSUME NEW v \in Vector, NEW resp, wire_family(v) = "native"
  PROVE  Failures(v, resp) = {} <=> C!Conforms(v, resp)
<1> DEFINE exp == v.expected
           typed == [result |-> NATIVE_RESULTS, verification_step |-> JsonInt]
<1>1. need(resp, typed) = {} <=>
        /\ Has(resp, "result") /\ resp["result"] \in NATIVE_RESULTS
        /\ Has(resp, "verification_step") /\ resp["verification_step"] \in JsonInt
  <2>1. DOMAIN typed = {"result", "verification_step"}
    OBVIOUS
  <2>2. typed["result"] = NATIVE_RESULTS /\ typed["verification_step"] = JsonInt
    OBVIOUS
  <2> QED BY <2>1, <2>2, NothingMissing
<1>2. compare(resp, exp, {"result", "verification_step"}) = {} <=>
        /\ Get(resp, "result") = exp["result"]
        /\ Get(resp, "verification_step") = exp["verification_step"]
  BY NothingDiffers, VectorKinds DEF Has
<1>3. Failures(v, resp) = {} <=>
        /\ Get(resp, "error") = Null
        /\ need(resp, typed) = {} /\ compare(resp, exp, {"result", "verification_step"}) = {}
  <2> HIDE DEF typed
  <2>1. Failures(v, resp) = check_native(resp, exp)
    BY DEF Failures
  <2>2. check_native(resp, exp) =
          IF reported_error(resp) THEN {"error"}
          ELSE FirstNonEmpty(need(resp, typed), compare(resp, exp, {"result", "verification_step"}))
    BY DEF check_native, typed
  <2> QED BY <2>1, <2>2 DEF FirstNonEmpty, reported_error
<1>4. C!Conforms(v, resp) <=>
        /\ Get(resp, "error") = Null
        /\ \A key \in {"result", "verification_step"} : Has(resp, key) /\ resp[key] = exp[key]
  BY DEF C!Conforms, C!Agrees, C!Has, C!Get, C!wire_family, wire_family, Has, Get
<1> HIDE DEF typed, exp
<1>5. exp["result"] \in NATIVE_RESULTS /\ exp["verification_step"] \in JsonInt
  BY VectorKinds DEF exp
<1> QED BY <1>1, <1>2, <1>3, <1>4, <1>5 DEF Get

LEMMA EnforceConforms ==
  ASSUME NEW v \in Vector, NEW resp, wire_family(v) # "native", v.kernel = "enforce_check"
  PROVE  Failures(v, resp) = {} <=> C!Conforms(v, resp)
<1> DEFINE exp == v.expected
           typed == [verdict |-> VERDICTS, core_digest |-> JsonText]
           missing == need(resp, typed) \cup NeedStated(resp, exp, "grant_index")
           differing == compare(resp, exp, {"verdict", "core_digest", "grant_index"})
                          \cup check_trace(resp, exp)
<1>1. need(resp, typed) = {} <=>
        /\ Has(resp, "verdict") /\ resp["verdict"] \in VERDICTS
        /\ Has(resp, "core_digest") /\ resp["core_digest"] \in JsonText
  <2>1. DOMAIN typed = {"verdict", "core_digest"}
    OBVIOUS
  <2>2. typed["verdict"] = VERDICTS /\ typed["core_digest"] = JsonText
    OBVIOUS
  <2> QED BY <2>1, <2>2, NothingMissing
<1>2. compare(resp, exp, {"verdict", "core_digest", "grant_index"}) = {} <=>
        /\ Get(resp, "verdict") = exp["verdict"]
        /\ Get(resp, "core_digest") = exp["core_digest"]
        /\ Has(exp, "grant_index") => Get(resp, "grant_index") = exp["grant_index"]
  BY NothingDiffers, VectorKinds DEF Has
<1>3. Failures(v, resp) = {} <=> Get(resp, "error") = Null /\ missing = {} /\ differing = {}
  <2> HIDE DEF typed, missing, differing
  <2>1. Failures(v, resp) = check_enforce_check(resp, v.expected)
    BY DEF Failures
  <2>2. check_enforce_check(resp, exp) =
          IF reported_error(resp) THEN {"error"} ELSE FirstNonEmpty(missing, differing)
    BY DEF check_enforce_check, typed, missing, differing
  <2> QED BY <2>1, <2>2 DEF FirstNonEmpty, reported_error
<1>4. C!Conforms(v, resp) <=>
        /\ Get(resp, "error") = Null
        /\ \A key \in {"verdict", "core_digest"} : Has(resp, key) /\ resp[key] = exp[key]
        /\ Has(exp, "grant_index") =>
             Has(resp, "grant_index") /\ resp["grant_index"] = exp["grant_index"]
        /\ Has(exp, "trace") /\ Has(resp, "trace") => resp["trace"] \in exp["trace"]
  BY DEF C!Conforms, C!EnforceConforms, C!Agrees, C!AgreesIfStated, C!TraceAgrees, C!Has, C!Get,
         C!wire_family, wire_family, Has, Get
<1>5. NeedStated(resp, exp, "grant_index") = {} <=>
        (Has(exp, "grant_index") => Has(resp, "grant_index"))
  BY DEF NeedStated
<1>6. check_trace(resp, exp) = {} <=>
        (Has(exp, "trace") /\ Has(resp, "trace") => resp["trace"] \in exp["trace"])
  BY DEF check_trace
<1>7. exp["verdict"] \in VERDICTS /\ exp["core_digest"] \in JsonText
  BY VectorKinds
<1>8. /\ missing = {} <=> need(resp, typed) = {} /\ NeedStated(resp, exp, "grant_index") = {}
      /\ differing = {} <=> /\ compare(resp, exp, {"verdict", "core_digest", "grant_index"}) = {}
                            /\ check_trace(resp, exp) = {}
  OBVIOUS
<1> HIDE DEF typed, exp, missing, differing
<1> QED BY <1>1, <1>2, <1>3, <1>4, <1>5, <1>6, <1>7, <1>8 DEF Get

LEMMA RefusalConforms ==
  ASSUME NEW v \in Vector, NEW resp, wire_family(v) # "native", v.kernel # "enforce_check",
         Has(v.expected, "error")
  PROVE  Failures(v, resp) = {} <=> C!Conforms(v, resp)
<1>1. Failures(v, resp) = {} <=> Get(resp, "error") = Null /\ CheckRefusal(resp) = {}
  BY DEF Failures, check_ratify, reported_error
<1>2. CheckRefusal(resp) = {} <=>
        Get(resp, "caller_error") \in JsonText \ {""} /\ Get(resp, "status") = Null
  BY JsonAssumption DEF CheckRefusal, Get
<1>3. C!Conforms(v, resp) <=>
        /\ Get(resp, "error") = Null
        /\ Get(resp, "caller_error") \in JsonText \ {""} /\ Get(resp, "status") = Null
  BY DEF C!Conforms, C!RefusalConforms, C!Has, C!Get, C!wire_family, wire_family, Has, Get
<1> QED BY <1>1, <1>2, <1>3

LEMMA RatifyConforms ==
  ASSUME NEW v \in Vector, NEW resp, wire_family(v) # "native", v.kernel # "enforce_check",
         ~Has(v.expected, "error")
  PROVE  Failures(v, resp) = {} <=> C!Conforms(v, resp)
<1> DEFINE exp == v.expected
           typed == [status |-> STATUSES, core_digest |-> JsonText, ratifies |-> JsonText]
           keys == {"status", "core_digest", "ratifies", "authority"}
           missing == need(resp, typed) \cup NeedStated(resp, exp, "authority")
           differing == compare(resp, exp, keys) \cup check_trace(resp, exp)
<1>1. need(resp, typed) = {} <=>
        /\ Has(resp, "status") /\ resp["status"] \in STATUSES
        /\ Has(resp, "core_digest") /\ resp["core_digest"] \in JsonText
        /\ Has(resp, "ratifies") /\ resp["ratifies"] \in JsonText
  <2>1. DOMAIN typed = {"status", "core_digest", "ratifies"}
    OBVIOUS
  <2>2. /\ typed["status"] = STATUSES
        /\ typed["core_digest"] = JsonText /\ typed["ratifies"] = JsonText
    OBVIOUS
  <2> QED BY <2>1, <2>2, NothingMissing
<1>2. compare(resp, exp, keys) = {} <=>
        /\ Get(resp, "status") = exp["status"]
        /\ Get(resp, "core_digest") = exp["core_digest"]
        /\ Get(resp, "ratifies") = exp["ratifies"]
        /\ Has(exp, "authority") => Get(resp, "authority") = exp["authority"]
  BY NothingDiffers, VectorKinds DEF Has
<1>3. Failures(v, resp) = {} <=>
        /\ Get(resp, "error") = Null /\ Get(resp, "caller_error") = Null
        /\ missing = {} /\ differing = {}
  <2> HIDE DEF typed, missing, differing
  <2>1. Failures(v, resp) = check_ratify(resp, v.expected)
    BY DEF Failures
  <2>2. check_ratify(resp, exp) =
          IF reported_error(resp) THEN {"error"}
          ELSE IF Get(resp, "caller_error") # Null THEN {"caller_error"}
          ELSE FirstNonEmpty(missing, differing)
    BY DEF check_ratify, typed, missing, differing
  <2> QED BY <2>1, <2>2 DEF FirstNonEmpty, reported_error
<1>4. C!Conforms(v, resp) <=>
        /\ Get(resp, "error") = Null /\ Get(resp, "caller_error") = Null
        /\ \A key \in {"status", "core_digest", "ratifies"} :
             Has(resp, key) /\ resp[key] = exp[key]
        /\ Has(exp, "authority") =>
             Has(resp, "authority") /\ resp["authority"] = exp["authority"]
        /\ Has(exp, "trace") /\ Has(resp, "trace") => resp["trace"] \in exp["trace"]
  BY DEF C!Conforms, C!RatifyConforms, C!Agrees, C!AgreesIfStated, C!TraceAgrees, C!Has, C!Get,
         C!wire_family, wire_family, Has, Get
<1>5. NeedStated(resp, exp, "authority") = {} <=>
        (Has(exp, "authority") => Has(resp, "authority"))
  BY DEF NeedStated
<1>6. check_trace(resp, exp) = {} <=>
        (Has(exp, "trace") /\ Has(resp, "trace") => resp["trace"] \in exp["trace"])
  BY DEF check_trace
<1>7. /\ exp["status"] \in STATUSES
      /\ exp["core_digest"] \in JsonText /\ exp["ratifies"] \in JsonText
  BY VectorKinds DEF Has
<1>8. /\ missing = {} <=> need(resp, typed) = {} /\ NeedStated(resp, exp, "authority") = {}
      /\ differing = {} <=> compare(resp, exp, keys) = {} /\ check_trace(resp, exp) = {}
  OBVIOUS
<1> HIDE DEF typed, exp, missing, differing, keys
<1> QED BY <1>1, <1>2, <1>3, <1>4, <1>5, <1>6, <1>7, <1>8 DEF Get

\* The runners' comparison finds nothing exactly if the answer conforms.
LEMMA FailuresDecideConformance ==
  ASSUME NEW v \in Vector, NEW resp
  PROVE  Failures(v, resp) = {} <=> C!Conforms(v, resp)
BY NativeConforms, EnforceConforms, RefusalConforms, RatifyConforms

\* The determinism check compares with the first answer, hence, as that one conformed,
\* with the expected digest.
LEMMA RerunDecidesDigest ==
  ASSUME NEW v \in Vector, NEW resp, NEW again, Rerun(v), Failures(v, resp) = {}
  PROVE  RerunFailures(resp, again) = {} <=>
           C!Get(again, "core_digest") = v.expected["core_digest"]
<1>1. wire_family(v) # "native" /\ v.kernel = "enforce_check"
  BY DEF Rerun
<1>2. C!Conforms(v, resp)
  BY FailuresDecideConformance
<1>3. Has(resp, "core_digest") /\ resp["core_digest"] = v.expected["core_digest"]
  BY <1>1, <1>2 DEF C!Conforms, C!EnforceConforms, C!Agrees, C!Has, Has, C!wire_family, wire_family
<1>4. v.expected["core_digest"] \in JsonText
  BY <1>1, VectorKinds
<1> QED BY <1>3, <1>4, JsonAssumption DEF RerunFailures, Get, C!Get, C!Has, Has

LEMMA OneOrNone ==
  ASSUME NEW o \in Optional, o # {}
  PROVE  \E r : o = {r}
BY TextAssumption DEF Optional

LEMMA SelectedVector ==
  ASSUME TypeOK, NEW i \in 1..Len(suite)
  PROVE  suite[i] \in Vector
BY SuitesAssumption DEF TypeOK

\* What run_vector() does with the outcome of an invocation: it holds a passing answer
\* back, or adds the one entry its vector has earned.
LEMMA Judged ==
  ASSUME TypeOK, HeldBack, Len(results) < Len(suite),
         NEW resp \in Optional, NEW error \in {"start", "timeout", "exit", "stdout"},
         RunVector(resp, error)
  PROVE  \/ /\ first = {} /\ first' = resp /\ resp # {} /\ results' = results
            /\ Rerun(vector) /\ \A r \in resp : Failures(vector, r) = {}
         \/ /\ first' = {}
            /\ \E e \in EntryType :
                 /\ results' = Append(results, e)
                 /\ e.status = "PASS" <=>
                      C!Earned(vector, e.response, e.response_keys_reversed)
                 /\ e.response = IF first = {} THEN resp ELSE first
                 /\ e.response_keys_reversed = IF first = {} THEN {} ELSE resp
                 /\ e.error = "timeout" => error = "timeout" /\ e.response = first
<1> DEFINE Judges(e) == /\ e \in EntryType
                        /\ e.status = "PASS" <=>
                             C!Earned(vector, e.response, e.response_keys_reversed)
                        /\ e.response = IF first = {} THEN resp ELSE first
                        /\ e.response_keys_reversed = IF first = {} THEN {} ELSE resp
                        /\ e.error = "timeout" => error = "timeout" /\ e.response = first
<1>1. vector \in Vector
  BY SelectedVector DEF vector, TypeOK
<1>2. {} \in Optional /\ first \in Optional
  BY DEF Optional, TypeOK
<1>3. C!Rerun(vector) <=> Rerun(vector)
  BY DEF C!Rerun, Rerun, C!wire_family, wire_family
<1> HIDE DEF vector
<1>4. ASSUME resp = {}
      PROVE  Judges(Entry(FALSE, error, first, {}))
  <2>1. Entry(FALSE, error, first, {}) \in EntryType
    BY <1>2 DEF Entry, EntryType
  <2>2. ~C!Earned(vector, first, {})
    BY <1>3 DEF HeldBack, C!Earned
  <2> QED BY <1>4, <2>1, <2>2 DEF Entry
<1>5. ASSUME resp = {}
      PROVE  first' = {} /\ results' = Append(results, Entry(FALSE, error, first, {}))
  BY <1>5, OneOrNone, <1>2 DEF RunVector, Record
<1>6. ASSUME first = {}, resp # {}
      PROVE  \/ /\ first' = resp /\ results' = results
                /\ Rerun(vector) /\ \A r \in resp : Failures(vector, r) = {}
             \/ /\ first' = {}
                /\ \E e : Judges(e) /\ results' = Append(results, e)
  <2>1. PICK r : resp = {r}
    BY <1>6, OneOrNone
  <2>2. CASE Failures(vector, r) = {} /\ Rerun(vector)
    BY <1>6, <2>1, <2>2 DEF RunVector
  <2>3. CASE ~(Failures(vector, r) = {} /\ Rerun(vector))
    <3> DEFINE e == Entry(Failures(vector, r) = {}, "none", resp, {})
    <3>1. first' = {} /\ results' = Append(results, e)
      BY <1>6, <2>1, <2>3 DEF RunVector, Record
    <3>2. e \in EntryType
      BY <1>2 DEF Entry, EntryType
    <3>3. e.response = {r} /\ e.response_keys_reversed = {} /\ e.error = "none"
      BY <2>1 DEF Entry
    <3>4. e.status = "PASS" <=> Failures(vector, r) = {}
      BY DEF Entry
    <3>5. C!Earned(vector, e.response, {}) <=> C!Conforms(vector, r) /\ ~Rerun(vector)
      BY <3>3, <1>3 DEF C!Earned
    <3>6. Failures(vector, r) = {} <=> C!Conforms(vector, r)
      BY <1>1, FailuresDecideConformance
    <3> HIDE DEF e
    <3>7. Judges(e)
      BY <3>2, <3>3, <3>4, <3>5, <3>6, <2>1, <2>3, <1>6
    <3> QED BY <3>1, <3>7
  <2> QED BY <2>2, <2>3
<1>7. ASSUME first # {}, resp # {}
      PROVE  first' = {} /\ \E e : Judges(e) /\ results' = Append(results, e)
  <2>1. PICK f : first = {f}
    BY <1>7, <1>2, OneOrNone
  <2>2. PICK again : resp = {again}
    BY <1>7, OneOrNone
  <2> DEFINE e == Entry(RerunFailures(f, again) = {}, "none", first, resp)
  <2>3. first' = {} /\ results' = Append(results, e)
    BY <1>7, <2>1, <2>2 DEF RunVector, Record
  <2>4. e \in EntryType
    BY <1>2 DEF Entry, EntryType
  <2>5. e.response = {f} /\ e.response_keys_reversed = {again} /\ e.error = "none"
    BY <2>1, <2>2 DEF Entry
  <2>6. e.status = "PASS" <=> RerunFailures(f, again) = {}
    BY DEF Entry
  <2>7. Rerun(vector) /\ Failures(vector, f) = {}
    BY <2>1, <1>7 DEF HeldBack
  <2>8. RerunFailures(f, again) = {} <=>
          C!Get(again, "core_digest") = vector.expected["core_digest"]
    BY <1>1, <2>7, RerunDecidesDigest
  <2>9. C!Conforms(vector, f)
    BY <1>1, <2>7, FailuresDecideConformance
  <2>10. C!Earned(vector, e.response, e.response_keys_reversed) <=> C!Get(again, "core_digest") = vector.expected["core_digest"]
    BY <2>5, <2>7, <2>9, <1>3 DEF C!Earned
  <2> HIDE DEF e
  <2>11. Judges(e)
    BY <2>1, <2>2, <2>4, <2>5, <2>6, <2>8, <2>10, <1>7
  <2> QED BY <2>3, <2>11
<1> HIDE DEF Judges
<1>8. \A e : Judges(e) =>
        /\ e \in EntryType
        /\ e.status = "PASS" <=> C!Earned(vector, e.response, e.response_keys_reversed)
        /\ e.response = IF first = {} THEN resp ELSE first
        /\ e.response_keys_reversed = IF first = {} THEN {} ELSE resp
        /\ e.error = "timeout" => error = "timeout" /\ e.response = first
  BY DEF Judges
<1> QED
  <2>1. CASE resp = {}
    BY <2>1, <1>4, <1>5, <1>8
  <2>2. CASE first = {} /\ resp # {}
    BY <2>2, <1>6, <1>8
  <2>3. CASE first # {} /\ resp # {}
    BY <2>3, <1>7, <1>8
  <2> QED BY <2>1, <2>2, <2>3

----------------------------------------------------------------------------
\* The inductive invariant.

LEMMA WithoutType ==
  ASSUME NEW S, NEW pr \in ProcType
  PROVE  /\ Without(pr, S) \in ProcType
         /\ Without(pr, S).alive = pr.alive \ S /\ Without(pr, S).open = pr.open \ S
<1>1. pr.alive \ S \in SUBSET Process /\ pr.open \ S \in SUBSET Process
  BY DEF ProcType
<1>2. Without(pr, S) = [pr EXCEPT !.alive = pr.alive \ S, !.open = pr.open \ S]
  BY DEF Without
<1> QED BY <1>1, <1>2 DEF ProcType

LEMMA KillType ==
  ASSUME NEW S, NEW pr \in ProcType
  PROVE  Kill(pr, S) \in ProcType /\ Kill(pr, S).alive = pr.alive \ S
<1> DEFINE gone == Without(pr, S)
           status == IF "child" \in pr.alive \cap S THEN 1 ELSE gone.status
<1>1. gone \in ProcType /\ gone.alive = pr.alive \ S
  BY WithoutType
<1>2. Kill(pr, S) = [gone EXCEPT !.status = status]
  BY DEF Kill
<1>3. status \in {0, 1}
  BY <1>1 DEF ProcType
<1> HIDE DEF gone, status
<1> QED BY <1>1, <1>2, <1>3 DEF ProcType

LEMMA NoProcessType == NoProcess \in ProcType /\ NoProcess.alive = {}
BY DEF NoProcess, ProcType

LEMMA InitIInv == Init => IInv
<1> SUFFICES ASSUME Init PROVE IInv
  OBVIOUS
<1>1. results = <<>> /\ Len(results) = 0 /\ suite \in Seq(Vector) /\ Len(suite) \in Nat
  BY SuitesAssumption DEF Init
<1>2. TypeOK
  <2>1. results \in Seq(EntryType) /\ Len(results) \in 0..Len(suite)
    BY <1>1
  <2>2. proc \in ProcType
    BY NoProcessType DEF Init
  <2>3. answered \in [1..Len(suite) -> [BOOLEAN -> Optional]]
    BY DEF Init, Optional
  <2> QED BY <2>1, <2>2, <2>3 DEF Init, TypeOK, Optional
<1>3. Heard
  BY <1>1 DEF Init, Heard
<1> QED
  BY <1>1, <1>2, <1>3 DEF Init, IInv, PassIsEarned, TimeoutLeavesNone, HeldBack, Progress,
                          Killed, LeftBehind

\* The steps of the processes leave the runner alone.
LEMMA EnvIInv ==
  ASSUME IInv, Implementation
  PROVE  IInv'
<1>1. UNCHANGED runnerVars
  BY DEF Implementation, Fork, Write, ClosePipes, Exit, Quit, QuitLater, Env
<1>2. left' \subseteq left
  BY DEF Implementation, Fork, Write, ClosePipes, Exit, Quit, QuitLater, Env
<1>3. /\ proc' \in ProcType
      /\ "child" \notin proc.alive => proc'.alive \subseteq proc.alive
      /\ proc = NoProcess => proc' = proc
  <2>1. proc \in ProcType
    BY DEF IInv, TypeOK
  <2>2. CASE \E p \in Process \ {"child"}, keeps \in BOOLEAN : Fork(p, keeps)
    <3>1. PICK p \in Process, keeps \in BOOLEAN : Fork(p, keeps)
      BY <2>2
    <3>2. DEFINE open == IF keeps THEN proc.open \cup {p} ELSE proc.open
    <3>3. proc' = [proc EXCEPT !.alive = proc.alive \cup {p}, !.open = open]
      BY <3>1 DEF Fork, Env
    <3>4. proc.alive \cup {p} \in SUBSET Process /\ open \in SUBSET Process
      BY <2>1 DEF ProcType
    <3>5. "child" \in proc.alive
      BY <3>1 DEF Fork
    <3> HIDE DEF open
    <3>6. proc' \in ProcType
      BY <2>1, <3>3, <3>4 DEF ProcType
    <3> QED BY <3>5, <3>6, NoProcessType
  <2>3. CASE \E t \in Text : Write(t)
    BY <2>1, <2>3 DEF Write, Env, NoProcess, ProcType
  <2>4. CASE \E p \in Process : ClosePipes(p) \/ Quit(p)
    <3>1. PICK p \in Process : ClosePipes(p) \/ Quit(p)
      BY <2>4
    <3>2. CASE ClosePipes(p)
      <4>1. proc' = [proc EXCEPT !.open = proc.open \ {p}] /\ p \in proc.open
        BY <3>2 DEF ClosePipes, Env
      <4> QED BY <2>1, <4>1 DEF NoProcess, ProcType
    <3>3. CASE Quit(p)
      <4>1. p \in proc.alive /\ proc' = Without(proc, {p})
        BY <3>3 DEF Quit, Env
      <4>2. proc' \in ProcType /\ proc'.alive = proc.alive \ {p}
        BY <2>1, <4>1, WithoutType
      <4> QED BY <4>1, <4>2, NoProcessType
    <3> QED BY <3>1, <3>2, <3>3
  <2>5. CASE \E status \in {0, 1} : Exit(status)
    <3>1. PICK status \in {0, 1} : Exit(status)
      BY <2>5
    <3> DEFINE gone == Without(proc, {"child"})
    <3>2. proc' = [gone EXCEPT !.status = status] /\ "child" \in proc.alive
      BY <3>1 DEF Exit, Env
    <3>3. gone \in ProcType
      BY <2>1, WithoutType
    <3> HIDE DEF gone
    <3>4. proc' \in ProcType
      BY <3>2, <3>3 DEF ProcType
    <3> QED BY <3>2, <3>4, NoProcessType
  <2>6. CASE \E x \in left : QuitLater(x)
    BY <2>1, <2>6 DEF QuitLater
  <2> QED BY <2>2, <2>3, <2>4, <2>5, <2>6 DEF Implementation
<1>4. TypeOK'
  BY <1>1, <1>2, <1>3 DEF IInv, TypeOK, runnerVars
<1>5. PassIsEarned' /\ HeldBack' /\ Heard' /\ Progress'
  BY <1>1 DEF IInv, PassIsEarned, HeldBack, Heard, Progress, runnerVars, vector
<1>6. TimeoutLeavesNone' /\ LeftBehind'
  BY <1>1, <1>2 DEF IInv, TimeoutLeavesNone, LeftBehind, runnerVars
<1>7. Killed'
  BY <1>1, <1>3 DEF IInv, Killed, runnerVars, Group
<1> QED BY <1>4, <1>5, <1>6, <1>7 DEF IInv

LEMMA StartIInv ==
  ASSUME IInv, Start
  PROVE  IInv'
<1>1. /\ UNCHANGED <<suite, results, exit, first, left, answered>>
      /\ phase = "ready" /\ phase' = "waiting" /\ timed_out' = FALSE /\ proc' = Spawned
      /\ Len(results) < Len(suite)
  BY DEF Start
<1>2. proc' \in ProcType
  <2>1. {"child"} \in SUBSET Process
    BY DEF Process, Group
  <2> QED BY <1>1, <2>1 DEF Spawned, NoProcess, ProcType
<1>3. TypeOK'
  BY <1>1, <1>2 DEF IInv, TypeOK
<1>4. PassIsEarned' /\ TimeoutLeavesNone' /\ LeftBehind'
  BY <1>1 DEF IInv, PassIsEarned, TimeoutLeavesNone, LeftBehind
<1>5. HeldBack' /\ Heard' /\ Progress' /\ Killed'
  BY <1>1 DEF IInv, HeldBack, Heard, Progress, Killed, vector
<1> QED BY <1>3, <1>4, <1>5 DEF IInv

LEMMA TimeoutIInv ==
  ASSUME IInv, TimeoutExpired
  PROVE  IInv'
<1>1. /\ UNCHANGED <<suite, results, exit, phase, first, left, answered>>
      /\ phase = "waiting" /\ timed_out' = TRUE /\ proc' = Kill(proc, Group)
  BY DEF TimeoutExpired
<1>2. /\ proc' \in ProcType
      /\ proc'.alive \cap Group = {}
  BY <1>1, KillType DEF IInv, TypeOK
<1>3. TypeOK'
  BY <1>1, <1>2 DEF IInv, TypeOK
<1>4. PassIsEarned' /\ TimeoutLeavesNone' /\ LeftBehind'
  BY <1>1 DEF IInv, PassIsEarned, TimeoutLeavesNone, LeftBehind
<1>5. HeldBack' /\ Heard' /\ Progress' /\ Killed'
  BY <1>1, <1>2 DEF IInv, HeldBack, Heard, Progress, Killed, vector
<1> QED BY <1>3, <1>4, <1>5 DEF IInv

LEMMA ReturnIInv ==
  ASSUME IInv, Return
  PROVE  IInv'
<1>1. /\ UNCHANGED <<suite, results, first, timed_out, proc, left, answered>>
      /\ phase = "ready" /\ phase' = "ended" /\ exit' \in {{0}, {1}, {2}}
      /\ Len(results) = Len(suite)
  BY DEF Return
<1>2. TypeOK'
  BY <1>1 DEF IInv, TypeOK
<1>3. PassIsEarned' /\ TimeoutLeavesNone' /\ LeftBehind'
  BY <1>1 DEF IInv, PassIsEarned, TimeoutLeavesNone, LeftBehind
<1>4. HeldBack' /\ Heard' /\ Progress' /\ Killed'
  BY <1>1 DEF IInv, HeldBack, Heard, Progress, Killed, vector
<1> QED BY <1>2, <1>3, <1>4 DEF IInv

LEMMA ResponseType ==
  ASSUME TypeOK
  PROVE  Response \in Optional
<1>1. proc.stdout \in Text \cup {NoText}
  BY DEF TypeOK, ProcType
<1>2. proc.stdout.object \in Optional
  BY <1>1 DEF Optional, NoText
<1> QED BY <1>2 DEF Response, Optional

\* What an answer adds to the history: nothing but itself, for the vector in question.
Noted(resp) ==
  /\ answered' \in [1..Len(suite) -> [BOOLEAN -> Optional]]
  /\ \A i \in 1..Len(suite), again \in BOOLEAN :
       answered'[i][again] = IF i = Len(results) + 1 /\ again = (first # {})
                             THEN resp ELSE answered[i][again]

\* Before it is judged, the vector in question has no more answers than the one held back.
LEMMA Unanswered ==
  ASSUME TypeOK, Heard, Len(results) < Len(suite)
  PROVE  /\ Len(results) + 1 \in 1..Len(suite)
         /\ answered[Len(results) + 1][FALSE] = first
         /\ answered[Len(results) + 1][TRUE] = {}
<1>1. Len(results) \in Nat /\ Len(suite) \in Nat /\ Len(results) + 1 \in 1..Len(suite)
  BY SuitesAssumption DEF TypeOK
<1> DEFINE n == Len(results) + 1
<1>2. n > Len(results) /\ n \in 1..Len(suite)
  BY <1>1
<1>3. answered[n] = [again \in BOOLEAN |-> IF n = n /\ ~again THEN first ELSE {}]
  BY <1>2 DEF Heard
<1>4. answered[n][FALSE] = first /\ answered[n][TRUE] = {}
  BY <1>3, Zenon
<1> QED BY <1>1, <1>4

LEMMA AnswerNoted ==
  ASSUME TypeOK, Heard, Len(results) < Len(suite), Answer, suite' = suite
  PROVE  Noted(Response)
<1> DEFINE n == Len(results) + 1
           turn == first # {}
           said == answered[n][turn] \cup proc.stdout.object
<1>1. /\ n \in 1..Len(suite) /\ turn \in BOOLEAN /\ answered[n][turn] = {}
  BY Unanswered
<1>2. answered \in [1..Len(suite) -> [BOOLEAN -> Optional]]
  BY DEF TypeOK
<1>3. CASE ~timed_out /\ proc.status = 0
  <2>1. said = Response
    BY <1>1, <1>3 DEF Response
  <2>2. answered' = [answered EXCEPT ![n] = [answered[n] EXCEPT ![turn] = said]]
    BY <1>3 DEF Answer
  <2>3. said \in Optional
    BY <2>1, ResponseType
  <2> HIDE DEF n, turn, said
  <2>4. answered[n] \in [BOOLEAN -> Optional]
    BY <1>1, <1>2
  <2>5. [answered[n] EXCEPT ![turn] = said] \in [BOOLEAN -> Optional]
    BY <1>1, <2>3, <2>4
  <2>6. answered' \in [1..Len(suite) -> [BOOLEAN -> Optional]]
    BY <1>1, <1>2, <2>2, <2>5
  <2>7. ASSUME NEW i \in 1..Len(suite), NEW again \in BOOLEAN
        PROVE  answered'[i][again] = IF i = n /\ again = turn THEN said ELSE answered[i][again]
    <3>1. CASE i = n
      BY <3>1, <1>1, <1>2, <2>2, <2>4
    <3>2. CASE i # n
      BY <3>2, <1>2, <2>2
    <3> QED BY <3>1, <3>2
  <2> QED BY <2>1, <2>6, <2>7 DEF Noted, n, turn
<1>4. CASE ~(~timed_out /\ proc.status = 0)
  <2>1. answered' = answered /\ Response = {}
    BY <1>4 DEF Answer, Response
  <2> QED BY <1>1, <1>2, <2>1 DEF Noted
<1> QED BY <1>3, <1>4

\* The two steps that end an invocation, with who is left behind by it.
LEMMA JudgedIInv ==
  ASSUME IInv, Len(results) < Len(suite), phase' = "ready",
         UNCHANGED <<suite, exit>>, exit = {}, timed_out' = FALSE, proc' = NoProcess,
         NEW resp \in Optional, NEW error \in {"start", "timeout", "exit", "stdout"},
         RunVector(resp, error),
         left' \subseteq left \cup Abandoned,
         error = "timeout" => proc.alive \cap Group = {},
         Noted(resp)
  PROVE  IInv'
<1> DEFINE n == Len(results) + 1
<1>1. /\ TypeOK /\ HeldBack /\ Heard /\ LeftBehind
      /\ PassIsEarned /\ TimeoutLeavesNone /\ Progress
  BY DEF IInv
<1>2. Len(results) \in Nat /\ Len(suite) \in Nat /\ n \in 1..Len(suite)
  BY <1>1, SuitesAssumption DEF TypeOK
<1>3. Abandoned \subseteq {n} \X {first # {}} \X Process
  BY <1>1 DEF Abandoned, TypeOK, ProcType
<1>4. NoProcess \in ProcType
  BY NoProcessType
<1>5. left' \subseteq (1..Len(suite)) \X BOOLEAN \X Process
  BY <1>1, <1>2, <1>3 DEF TypeOK
<1>6. CASE /\ first = {} /\ first' = resp /\ resp # {} /\ results' = results
           /\ Rerun(vector) /\ \A r \in resp : Failures(vector, r) = {}
  <2>1. TypeOK'
    BY <1>1, <1>4, <1>5, <1>6 DEF TypeOK, Noted
  <2>2. HeldBack' /\ Progress' /\ Killed'
    BY <1>1, <1>6 DEF HeldBack, Progress, Killed, vector
  <2>6. PassIsEarned'
    <3>1. \A i \in 1..Len(results) : i \in 1..Len(suite) /\ i # n
      BY <1>2
    <3> QED BY <1>1, <1>6, <3>1 DEF PassIsEarned, Noted
  <2>7. Heard'
    <3>1. SUFFICES ASSUME NEW i \in 1..Len(suite), i > Len(results)
                   PROVE  answered'[i] = [again \in BOOLEAN |->
                                            IF i = n /\ ~again THEN resp ELSE {}]
      BY <1>6 DEF Heard
    <3>2. answered[i] = [again \in BOOLEAN |-> {}]
      BY <3>1, <1>1, <1>6 DEF Heard
    <3>3. /\ answered'[i] \in [BOOLEAN -> Optional]
          /\ \A again \in BOOLEAN :
               answered'[i][again] = IF i = n /\ again = FALSE THEN resp ELSE {}
      BY <3>2, <1>6 DEF Noted
    <3> QED BY <3>3
  <2>3. \A x \in left' : x \in left \/ (x[1] = n /\ ~x[2])
    BY <1>3, <1>6
  <2>4. LeftBehind'
    BY <1>1, <1>6, <2>3 DEF LeftBehind
  <2>5. TimeoutLeavesNone'
    BY <1>1, <1>2, <1>6, <2>3 DEF TimeoutLeavesNone
  <2> QED BY <2>1, <2>2, <2>4, <2>5, <2>6, <2>7 DEF IInv
<1>7. ASSUME NEW e \in EntryType, first' = {}, results' = Append(results, e),
             e.status = "PASS" <=> C!Earned(vector, e.response, e.response_keys_reversed),
             e.response = IF first = {} THEN resp ELSE first,
             e.response_keys_reversed = IF first = {} THEN {} ELSE resp,
             e.error = "timeout" => error = "timeout" /\ e.response = first
      PROVE  IInv'
  <2>1. /\ Len(results') = n /\ results' \in Seq(EntryType)
        /\ \A i \in 1..Len(results) : results'[i] = results[i]
        /\ results'[n] = e
    BY <1>1, <1>7 DEF TypeOK
  <2>2. TypeOK'
    <3>1. Len(results') \in 0..Len(suite) /\ {} \in Optional
      BY <1>2, <2>1 DEF Optional
    <3> QED BY <1>1, <1>4, <1>5, <1>7, <2>1, <3>1 DEF TypeOK, Noted
  <2>3. PassIsEarned'
    <3>1. answered'[n][FALSE] = e.response /\ answered'[n][TRUE] = e.response_keys_reversed
      BY <1>1, <1>2, <1>7, Unanswered DEF Noted
    <3>2. ASSUME NEW i \in 1..n
          PROVE  /\ results'[i].response = answered'[i][FALSE]
                 /\ results'[i].response_keys_reversed = answered'[i][TRUE]
                 /\ results'[i].status = "PASS" <=>
                      C!Earned(suite[i], answered'[i][FALSE], answered'[i][TRUE])
      <4>1. CASE i = n
        BY <4>1, <3>1, <1>7, <2>1 DEF vector
      <4>2. CASE i # n
        <5>1. i \in 1..Len(results) /\ i \in 1..Len(suite)
          BY <4>2, <1>2
        <5>2. \A again \in BOOLEAN : answered'[i][again] = answered[i][again]
          BY <4>2, <5>1 DEF Noted
        <5> QED BY <5>1, <5>2, <1>1, <2>1 DEF PassIsEarned
      <4> QED BY <4>1, <4>2
    <3> QED BY <3>2, <2>1 DEF PassIsEarned
  <2>7. Heard'
    <3>1. SUFFICES ASSUME NEW i \in 1..Len(suite), i > n
                   PROVE  answered'[i] = [again \in BOOLEAN |->
                                            IF i = n + 1 /\ ~again THEN {} ELSE {}]
      BY <1>7, <2>1 DEF Heard
    <3>2. answered[i] = [again \in BOOLEAN |-> {}]
      BY <3>1, <1>1, <1>2 DEF Heard
    <3>3. /\ answered'[i] \in [BOOLEAN -> Optional]
          /\ \A again \in BOOLEAN : answered'[i][again] = {}
      BY <3>1, <3>2, <1>2 DEF Noted
    <3> QED BY <3>3
  <2>4. HeldBack' /\ Progress' /\ Killed'
    BY <1>1, <1>7 DEF HeldBack, Progress, Killed
  <2>5. LeftBehind'
    <3>1. SUFFICES ASSUME NEW x \in left' PROVE x[1] <= n
      BY <2>1 DEF LeftBehind
    <3>2. x[1] \in Nat
      BY <1>5, <1>2
    <3>3. CASE x \in left
      BY <3>2, <3>3, <1>1, <1>2 DEF LeftBehind
    <3>4. CASE x \in Abandoned
      BY <3>4, <3>2, <1>2, <1>3
    <3> QED BY <3>3, <3>4
  <2>6. TimeoutLeavesNone'
    <3>1. SUFFICES ASSUME NEW x \in left', x[1] <= n, results'[x[1]].error = "timeout",
                          x[2] <=> results'[x[1]].response # {}
                   PROVE  x[3] \notin Group
      BY <2>1 DEF TimeoutLeavesNone
    <3>2. CASE x \in left /\ x[1] <= Len(results)
      <4>1. x[1] \in 1..Len(results)
        BY <3>2, <1>1, <1>2 DEF TypeOK
      <4>2. results'[x[1]] = results[x[1]]
        BY <4>1, <2>1
      <4> QED BY <3>1, <3>2, <4>2, <1>1 DEF TimeoutLeavesNone
    <3>3. CASE x \in left /\ ~(x[1] <= Len(results))
      <4>1. x[1] = n /\ ~x[2] /\ first # {}
        BY <3>3, <1>1 DEF LeftBehind
      <4> QED BY <4>1, <3>1, <2>1, <1>7
    <3>4. CASE x \in Abandoned
      <4>1. x[1] = n /\ x[3] \in proc.alive
        BY <3>4 DEF Abandoned
      <4> QED BY <4>1, <3>1, <2>1, <1>7
    <3> QED BY <3>2, <3>3, <3>4
  <2> QED BY <2>2, <2>3, <2>4, <2>5, <2>6, <2>7 DEF IInv
<1> QED BY <1>1, <1>6, <1>7, Judged

LEMMA CommunicateIInv ==
  ASSUME IInv, Communicate
  PROVE  IInv'
<1> DEFINE error == IF timed_out THEN "timeout" ELSE IF proc.status # 0 THEN "exit" ELSE "stdout"
<1>1. Response \in Optional
  BY ResponseType DEF IInv
<1>2. error \in {"start", "timeout", "exit", "stdout"}
  OBVIOUS
<1>3. /\ Len(results) < Len(suite) /\ exit = {}
      /\ error = "timeout" => proc.alive \cap Group = {}
  BY DEF Communicate, IInv, Progress, Killed
<1>4. /\ phase' = "ready" /\ UNCHANGED <<suite, exit>> /\ timed_out' = FALSE
      /\ proc' = NoProcess /\ left' \subseteq left \cup Abandoned
      /\ RunVector(Response, error)
  BY DEF Communicate
<1>5. Noted(Response)
  BY <1>3, <1>4, AnswerNoted DEF Communicate, IInv
<1> HIDE DEF error
<1> QED BY <1>1, <1>2, <1>3, <1>4, <1>5, JudgedIInv

LEMMA StartFailsIInv ==
  ASSUME IInv, StartFails
  PROVE  IInv'
<1>1. /\ phase = "ready" /\ Len(results) < Len(suite) /\ RunVector({}, "start")
      /\ UNCHANGED <<suite, exit, phase, timed_out, proc, left, answered>>
  BY DEF StartFails
<1>2. {} \in Optional
  BY DEF Optional
<1>3. exit = {} /\ timed_out = FALSE /\ proc = NoProcess
  BY <1>1 DEF IInv, TypeOK, Progress, Killed
<1>4. Noted({})
  BY <1>1, Unanswered DEF Noted, IInv, TypeOK
<1> QED BY <1>1, <1>2, <1>3, <1>4, JudgedIInv

\* Every step of the runner and of the processes keeps the invariant: a verdict rests on what
\* the process printed, and what a killed one leaves is accounted for.
THEOREM Invariance == Spec => []IInv
<1>1. Init => IInv
  BY InitIInv
<1>2. IInv /\ [Next]_vars => IInv'
  <2>1. ASSUME IInv, UNCHANGED vars
        PROVE  IInv'
    BY <2>1 DEF IInv, TypeOK, PassIsEarned, TimeoutLeavesNone, HeldBack, Heard, Progress,
                Killed, LeftBehind, vars, vector
  <2> QED
    BY <2>1, StartIInv, StartFailsIInv, TimeoutIInv, CommunicateIInv, ReturnIInv, EnvIInv
    DEF Next, RunnerStep
<1> QED BY <1>1, <1>2, PTL DEF Spec

----------------------------------------------------------------------------
\* The results.

\* The report, the processes and the answer held back keep their shape, however many
\* vectors are selected.
THEOREM TypeCorrect == Spec => []TypeOK
<1>1. IInv => TypeOK
  BY DEF IInv
<1> QED BY <1>1, Invariance, PTL

\* run_vector(): for every selection of vectors and everything an implementation may print,
\* a vector reads PASS exactly if the protocol's tables are met.
THEOREM EveryPassIsEarned == Spec => []PassIsEarned
<1>1. IInv => PassIsEarned
  BY DEF IInv
<1> QED BY <1>1, Invariance, PTL

\* _kill(): what a timed-out invocation leaves running has left its process group.
THEOREM TimeoutCleansUp == Spec => []TimeoutLeavesNone
<1>1. IInv => TimeoutLeavesNone
  BY DEF IInv
<1> QED BY <1>1, Invariance, PTL

LEMMA JudgeStep ==
  ASSUME IInv, IInv', Len(results) < Len(suite), exit = {},
         NEW resp \in Optional, NEW error \in {"start", "timeout", "exit", "stdout"},
         RunVector(resp, error), Noted(resp), UNCHANGED <<suite, exit>>
  PROVE  C!Answer \/ C!Judge
<1> DEFINE n == Len(results) + 1
<1>1. TypeOK /\ HeldBack /\ Heard /\ PassIsEarned'
  BY DEF IInv
<1>2. n \in 1..Len(suite) /\ Len(results) \in Nat /\ Len(suite) \in Nat
  BY <1>1, Unanswered, SuitesAssumption DEF TypeOK
<1>3. C!Asked(n)
  <2>1. \A again \in BOOLEAN : answered[n][again] \subseteq answered'[n][again]
    BY <1>1, <1>2, Unanswered DEF Noted
  <2> QED BY <1>2, <2>1 DEF C!Asked, Noted
<1>4. CASE results' = results
  BY <1>3, <1>4 DEF C!Answer
<1>5. ASSUME NEW e \in EntryType, results' = Append(results, e)
      PROVE  C!Judge
  <2>1. Len(results') = n /\ \A i \in 1..Len(results) : results'[i] = results[i]
    BY <1>1, <1>5 DEF TypeOK
  <2>2. n \in 1..Len(results')
    BY <1>2, <2>1
  <2>3. results'[n].status = "PASS" <=>
          C!Earned(suite[n], answered'[n][FALSE], answered'[n][TRUE])
    BY <1>1, <2>2 DEF PassIsEarned
  <2> QED BY <1>3, <2>1, <2>3 DEF C!Judge
<1> QED BY <1>1, <1>4, <1>5, Judged

\* main() implements Conformance: the initial states map to initial states, and every step
\* of the runner to an answer that is held back, a verdict, the exit, or a stutter.
THEOREM Implements == Spec => ImplementsConformance
<1>1. Init => C!Init
  BY DEF Init, C!Init
<1>2. IInv /\ IInv' /\ [Next]_vars
        => [C!Answer \/ C!Judge \/ C!End]_<<suite, results, exit, answered>>
  <2> SUFFICES ASSUME IInv, IInv', [Next]_vars
               PROVE  \/ C!Answer \/ C!Judge \/ C!End
                      \/ UNCHANGED <<suite, results, exit, answered>>
    OBVIOUS
  <2>1. CASE Start
    BY <2>1 DEF Start
  <2>2. CASE StartFails
    <3>1. {} \in Optional /\ exit = {} /\ Len(results) < Len(suite)
      BY <2>2 DEF Optional, StartFails, IInv, Progress
    <3>2. Noted({})
      BY <2>2, <3>1, Unanswered DEF StartFails, Noted, IInv, TypeOK
    <3> QED BY <2>2, <3>1, <3>2, JudgeStep DEF StartFails
  <2>3. CASE TimeoutExpired
    BY <2>3 DEF TimeoutExpired
  <2>4. CASE Communicate
    <3> DEFINE error == IF timed_out THEN "timeout"
                        ELSE IF proc.status # 0 THEN "exit" ELSE "stdout"
    <3>1. Response \in Optional
      BY ResponseType DEF IInv
    <3>2. error \in {"start", "timeout", "exit", "stdout"}
      OBVIOUS
    <3>3. Len(results) < Len(suite) /\ exit = {}
      BY <2>4 DEF Communicate, IInv, Progress
    <3>4. RunVector(Response, error) /\ UNCHANGED <<suite, exit>>
      BY <2>4 DEF Communicate
    <3>5. Noted(Response)
      BY <2>4, <3>3, <3>4, AnswerNoted DEF Communicate, IInv
    <3> HIDE DEF error
    <3> QED BY <3>1, <3>2, <3>3, <3>4, <3>5, JudgeStep
  <2>5. CASE Return
    BY <2>5 DEF Return, C!End, C!AllPassed, IInv, Progress
  <2>6. CASE Implementation
    BY <2>6 DEF Implementation, Fork, Write, ClosePipes, Exit, Quit, QuitLater, Env, runnerVars
  <2>7. CASE UNCHANGED vars
    BY <2>7 DEF vars
  <2> QED BY <2>1, <2>2, <2>3, <2>4, <2>5, <2>6, <2>7 DEF Next, RunnerStep
<1> QED BY <1>1, <1>2, Invariance, PTL DEF Spec, ImplementsConformance, C!Spec
=============================================================================
