------------------------------- MODULE Faults -------------------------------
(***************************************************************************)
(* What a check of the Python verifiers yields: nothing, the reason it     *)
(* rejects with, or an exception that its caller does not catch.           *)
(***************************************************************************)

NoFault == "none"

Uncaught == "uncaught_exception"

When(condition, fault) == IF condition THEN fault ELSE NoFault

\* f, or g when the check that yields f passes.
Then(f, g) == IF f # NoFault THEN f ELSE g
=============================================================================
