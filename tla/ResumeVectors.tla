--------------------------- MODULE ResumeVectors ---------------------------
(***************************************************************************)
(* The resume vectors that verify() decides, as                            *)
(* tools/build_resume_vectors.py assembles them: one single-use envelope   *)
(* per schedule, presented first or by a replacement worker, and the       *)
(* outcome the permission-to-retry matrix gives the history.  Row R05 is   *)
(* an enforce vector.  The three provider profiles of a row make the same  *)
(* call and have the same outcome.                                         *)
(***************************************************************************)
EXTENDS NativeVectors

AFTER_NOT_AFTER == 17
AMOUNT == 120

envelope(row) ==
  [RootOf(row, AGENT_001, {"pay"}, {}, AMOUNT) EXCEPT
     !.single_use = TRUE, !.revocation_check = TRUE]

context(row, time, consumed, revoked) ==
  [At(time, "pay", AMOUNT) EXCEPT
     !.consumed_ids = IF consumed THEN {row} ELSE {},
     !.revocation_responses = {Status(row, 200, IF revoked THEN "true" ELSE "false")}]

Rows == {"R01", "R02", "R03", "R04", "R06", "R07", "R08", "R09", "R10", "R11", "R12",
         "R13", "R14"}

\* The rows whose envelope is presented for the first time; the others are the repeat
\* dispatch after a presentation that succeeded.
FIRST == {"R02", "R03", "R04", "R06"}

\* Authority was revoked before the presentation of the row.
Revoked == {"R02", "R06", "R08", "R11", "R13"}

facts(row) ==
  context(row, IF row = "R04" THEN AFTER_NOT_AFTER ELSE NOON, row \notin FIRST, row \in Revoked)

expected_of(row) ==
  CASE row \in {"R02", "R06"} -> REJECT(8, "revoked")
    [] row = "R03" -> ACCEPT(8)
    [] row = "R04" -> REJECT(3, "expired_not_after")
    [] OTHER -> REJECT(5, "single_use_already_consumed")

NATIVE_ROWS ==
  [row \in Rows |-> Vector(<<envelope(row)>>, facts(row), expected_of(row))]

\* The "P1 | P2 | P3" columns of the matrix: D where the history is denied.
matrix_rows == [row \in Rows |-> IF row \in {"R02", "R04", "R06"} THEN "D" ELSE "NS"]

\* The assertion of build(): a cell is D exactly where the first admission is rejected.
ASSUME CellsAssumption ==
  \A row \in Rows :
    (matrix_rows[row] = "D") <=> (row \in FIRST /\ expected_of(row).result = "REJECT")
=============================================================================
