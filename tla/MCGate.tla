------------------------------- MODULE MCGate -------------------------------
(***************************************************************************)
(* Two numbers and two slugs: a vector can be renamed, and a set can have  *)
(* a vector that was dropped beside one that stays.                        *)
(***************************************************************************)
EXTENDS GateSafety

MCNumbers == {1, 2}
MCOrigin == [s \in Sets |-> [n \in Numbers |->
              IF n = 1 THEN [slug |-> "allow", version |-> "v1"] ELSE Absent]]
=============================================================================
