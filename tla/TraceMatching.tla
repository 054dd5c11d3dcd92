---------------------------- MODULE TraceMatching ----------------------------
(***************************************************************************)
(* How an expected predicate trace is matched against the one that was     *)
(* produced: trace_holds() of examples/enforce-verify.py and check_trace() *)
(* of the runner, one scan with a cursor that never goes back.  The field, *)
(* value, bound and reason of an entry are left out.                       *)
(***************************************************************************)
EXTENDS Mandates

Entry(predicate, result) == [predicate |-> predicate, result |-> result]

NoMatch == 0

\* One turn of the outer loop: from the entry after the cursor, the first with the
\* predicate wanted has to have the result wanted.  Positions count from 1, so that the
\* scan starts at 1, and NoMatch is where it ended in vain.
Scan_FromStart(produced, cursor, want) ==
  LET later == {k \in 1..Len(produced) : produced[k].predicate = want.predicate}
      found == cursor # NoMatch /\ later # {} /\ produced[First(later)].result = want.result
  IN  IF found THEN First(later) + 1 ELSE NoMatch

Scan(produced, cursor, want) ==
  LET later == {k \in cursor..Len(produced) : produced[k].predicate = want.predicate}
      found == cursor # NoMatch /\ later # {} /\ produced[First(later)].result = want.result
  IN  IF found THEN First(later) + 1 ELSE NoMatch

\* Where the scan is after each of the expected entries.
Cursors(expected, produced) ==
  LET cursor[n \in 0..Len(expected)] ==
        IF n = 0 THEN 1 ELSE Scan(produced, cursor[n - 1], expected[n])
  IN  cursor

trace_holds(expected, produced) == Cursors(expected, produced)[Len(expected)] # NoMatch

----------------------------------------------------------------------------
\* What the scan is for, and what it finds, without a scan.

\* at gives each expected entry a produced one of its predicate and result, in their order.
Embeds(at, expected, produced) ==
  \A n \in 1..Len(expected) :
    /\ produced[at[n]].predicate = expected[n].predicate
    /\ produced[at[n]].result = expected[n].result
    /\ \A m \in 1..(n - 1) : at[m] < at[n]

\* Every expected entry appears, in order, with its predicate and result.
StandInOrder(expected, produced) ==
  \E at \in [1..Len(expected) -> 1..Len(produced)] : Embeds(at, expected, produced)

\* What the scan asks besides: no entry of the predicate wanted stands between a match and
\* the one before it.
Nearest(at, expected, produced) ==
  \A n \in 1..Len(expected), k \in 1..Len(produced) :
    produced[k].predicate = expected[n].predicate /\ k < at[n] =>
      \E m \in 1..(n - 1) : k <= at[m]

NamedInOrder(expected, produced) ==
  \E at \in [1..Len(expected) -> 1..Len(produced)] :
    Embeds(at, expected, produced) /\ Nearest(at, expected, produced)
=============================================================================
