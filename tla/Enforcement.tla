----------------------------- MODULE Enforcement -----------------------------
(***************************************************************************)
(* What the enforce kernel promises to those who rely on it: every call is *)
(* answered once, with the verdict its mandate gives; records say what     *)
(* they were decided under and are never taken back; and a decision counts *)
(* as ratified only if an authority had signed it by then.                 *)
(***************************************************************************)
EXTENDS Entitlement

CONSTANT EarlierCores   \* the cores of records the caller holds from the start

VARIABLES
  call,     \* the call in progress, or the last one
  pending,  \* is it still to be answered?
  records,  \* the records returned so far
  signed,   \* the statements that were signed
  answers   \* what the ratifications were answered with

evars == <<call, pending, records, signed, answers>>

Cores == {r.core : r \in records} \cup EarlierCores

\* The record names nothing but what it was decided under, and the record it was linked to.
NamesItsCall(r) ==
  /\ r.mandate = call.mandate /\ r.core.mandate_digest \subseteq {call.mandate}
  /\ r.transaction = call.transaction /\ r.core.transaction_digest \subseteq {call.transaction}
  /\ r.core.prev = call.prev

BornOut(a) ==
  a.outcome = "RATIFIED" =>
    \A core \in a.ratifies :
      /\ core \in Cores /\ core.verdict # "PERMIT"
      /\ \A id \in core.mandate_digest, did \in a.authority :
           SignedByAuthority(Mandate[id], core, did, a.decision, signed)

Init == pending = TRUE /\ records = {} /\ signed = {} /\ answers = <<>>

Ask ==
  /\ ~pending /\ pending' /\ call'.prev \subseteq Cores
  /\ UNCHANGED <<records, signed, answers>>

Decide ==
  /\ pending /\ ~pending'
  /\ \E r \in records' :
       /\ records' = records \cup {r}
       /\ NamesItsCall(r) /\ FollowsGrants(r) /\ Accounted(r)
  /\ UNCHANGED <<call, signed, answers>>

Sign ==
  /\ ~pending
  /\ \E s \in signed' : signed' = signed \cup {s} /\ s.ratifies \in Cores
  /\ UNCHANGED <<call, pending, records, answers>>

Ratify ==
  /\ ~pending
  /\ \E a \in Range(answers') : answers' = Append(answers, a) /\ BornOut(a)
  /\ UNCHANGED <<call, pending, records, signed>>

Next == Ask \/ Decide \/ Sign \/ Ratify

Spec == Init /\ [][Next]_evars
=============================================================================
