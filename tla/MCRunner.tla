------------------------------ MODULE MCRunner -------------------------------
(***************************************************************************)
(* A vector of each kind, run alone and in pairs, and implementations that *)
(* give the right answer or one that departs from it in one member.        *)
(***************************************************************************)
EXTENDS RunnerSafety

CONSTANTS null, n0, n5, n9, d1, d2, did, t1, t2

MCJsonInt == {n0, n5, n9}
MCJsonText == NATIVE_RESULTS \cup VERDICTS \cup STATUSES \cup {d1, d2, did, "", "RatifyError"}

\* The answers the vectors below expect.
Native == [result |-> "REJECT", verification_step |-> n5]
Enforced == [verdict |-> "DENY", core_digest |-> d1, grant_index |-> n0]
Ratified == [status |-> "RATIFIED", core_digest |-> d1, ratifies |-> d2, authority |-> did]
Refused == [caller_error |-> "RatifyError"]

With(resp, key, value) == [k \in DOMAIN resp \cup {key} |-> IF k = key THEN value ELSE resp[k]]
But(resp, key) == [k \in DOMAIN resp \ {key} |-> resp[k]]

NativeVector == [family |-> "native", kernel |-> "none", expected |-> Native]
EnforceVector ==
  [family |-> "enforce", kernel |-> "enforce_check", expected |-> With(Enforced, "trace", {t1})]
ResumeVector ==
  [family |-> "resume", kernel |-> "enforce_check", expected |-> But(Enforced, "grant_index")]
ResumeNativeVector == [family |-> "resume", kernel |-> "none", expected |-> Native]
RatifyVector == [family |-> "enforce", kernel |-> "ratify", expected |-> Ratified]
RefusalVector ==
  [family |-> "enforce", kernel |-> "ratify", expected |-> [error |-> "RatifyError"]]

MCVector == {NativeVector, EnforceVector, ResumeVector, ResumeNativeVector, RatifyVector,
             RefusalVector}
MCSuites ==
  {<<>>, <<NativeVector>>, <<RatifyVector>>, <<RefusalVector>>, <<EnforceVector>>,
   <<ResumeVector, ResumeNativeVector>>}

MCObjects ==
  {Native, With(Native, "result", "ACCEPT"), With(Native, "verification_step", "REJECT"),
   But(Native, "verification_step"),
   Enforced, With(Enforced, "trace", t2),
   With(Enforced, "core_digest", d2), With(Enforced, "error", did),
   But(Enforced, "grant_index"),
   Ratified, With(Ratified, "authority", null), With(Ratified, "caller_error", did),
   Refused, With(Refused, "status", "REJECTED"), With(Refused, "caller_error", "")}
MCText ==
  {[kind |-> "object", object |-> {o}] : o \in MCObjects}
    \cup {[kind |-> "malformed", object |-> {}]}
=============================================================================
