----------------------------- MODULE TraceProofs -----------------------------
(***************************************************************************)
(* What the scan of TraceMatching finds, for every expected and every      *)
(* produced trace: exactly the entries that stand in turn, each the next   *)
(* of its predicate.                                                       *)
(*                                                                         *)
(* What holds of the cursor after every entry is shown by looking at the   *)
(* first entry after which it fails to (Smallest): the induction theorems  *)
(* of the library take the statement as an operator, which no backend      *)
(* instantiates.                                                           *)
(***************************************************************************)
EXTENDS TraceMatching, SequenceTheorems, WellFoundedInduction, TLAPS

LEMMA Smallest ==
  ASSUME NEW S, S \subseteq Nat, S # {}
  PROVE  \E m \in S : \A n \in S : m <= n
<1>1. PICK m \in S : \A n \in S : <<n, m>> \notin OpToRel(<, Nat)
  BY WFMin, NatLessThanWellFounded
<1>2. \A n \in S : ~(n < m)
  BY <1>1 DEF OpToRel
<1> QED
  BY <1>2

LEMMA FirstIsLeast ==
  ASSUME NEW S, S \subseteq Nat, S # {}
  PROVE  First(S) \in S /\ \A k \in S : First(S) <= k
  BY Smallest DEF First

----------------------------------------------------------------------------
\* The cursor after each expected entry is where one more turn leads.

Turn(expected, produced, cursor, n) ==
  IF n = 0 THEN 1 ELSE Scan(produced, cursor[n - 1], expected[n])

LEMMA CursorsExist ==
  ASSUME NEW expected, NEW produced, NEW k \in Nat
  PROVE  \E cursor : cursor = [n \in 0..k |-> Turn(expected, produced, cursor, n)]
<1> DEFINE S == {i \in Nat : ~ \E c : c = [n \in 0..i |-> Turn(expected, produced, c, n)]}
<1> SUFFICES ASSUME S # {} PROVE FALSE
  BY SMT
<1>1. PICK m \in S : \A n \in S : m <= n
  <2> HIDE DEF S
  <2>1. S \subseteq Nat
    BY DEF S
  <2> QED  BY <2>1, Smallest
<1>2. CASE m = 0
  <2> DEFINE c == [n \in 0..0 |-> 1]
  <2>1. c = [n \in 0..0 |-> Turn(expected, produced, c, n)]
    BY DEF Turn
  <2> QED  BY <1>2, <2>1
<1>3. CASE m # 0
  <2>1. m - 1 \in Nat /\ m - 1 \notin S
    BY <1>1, <1>3
  <2>2. PICK c : c = [n \in 0..(m - 1) |-> Turn(expected, produced, c, n)]
    BY <2>1
  <2> DEFINE d == [n \in 0..m |-> IF n = m THEN Turn(expected, produced, c, m) ELSE c[n]]
  <2>3. \A n \in 0..m : d[n] = Turn(expected, produced, d, n)
    BY <2>2, <1>3 DEF Turn
  <2> QED  BY <2>3
<1> QED
  BY <1>2, <1>3

LEMMA CursorAfter ==
  ASSUME NEW expected, NEW produced, Len(expected) \in Nat
  PROVE  LET cursor == Cursors(expected, produced) IN
         /\ cursor[0] = 1
         /\ \A n \in 1..Len(expected) : cursor[n] = Scan(produced, cursor[n - 1], expected[n])
<1> DEFINE P(c) == c = [n \in 0..Len(expected) |-> Turn(expected, produced, c, n)]
<1>1. \E c : P(c)
  BY CursorsExist
<1>2. Cursors(expected, produced) = CHOOSE c : P(c)
  BY DEF Cursors, Turn
<1> HIDE DEF P
<1>3. P(Cursors(expected, produced))
  BY <1>1, <1>2
<1> QED
  BY <1>3 DEF P, Turn

----------------------------------------------------------------------------
\* One turn, and all of them.

LEMMA ScanFinds ==
  ASSUME NEW produced, Len(produced) \in Nat, NEW cursor \in Nat, NEW want
  PROVE  LET next == Scan(produced, cursor, want) IN
         /\ next \in Nat
         /\ next # NoMatch =>
              /\ cursor # NoMatch /\ cursor < next /\ next - 1 \in 1..Len(produced)
              /\ produced[next - 1].predicate = want.predicate
              /\ produced[next - 1].result = want.result
              /\ \A k \in cursor..Len(produced) :
                   produced[k].predicate = want.predicate => next - 1 <= k
<1> DEFINE later == {k \in cursor..Len(produced) : produced[k].predicate = want.predicate}
<1>1. CASE cursor # NoMatch /\ later # {} /\ produced[First(later)].result = want.result
  <2>1. later \subseteq Nat
    OBVIOUS
  <2>2. First(later) \in later /\ \A k \in later : First(later) <= k
    BY <1>1, <2>1, FirstIsLeast
  <2>3. Scan(produced, cursor, want) = First(later) + 1
    BY <1>1 DEF Scan
  <2> DEFINE k == First(later)
  <2>4. k \in cursor..Len(produced) /\ produced[k].predicate = want.predicate
    BY <2>2
  <2>5. produced[k].result = want.result /\ cursor # 0
    BY <1>1 DEF NoMatch
  <2>6. \A i \in cursor..Len(produced) : produced[i].predicate = want.predicate => k <= i
    BY <2>2
  <2> HIDE DEF k
  <2>7. k + 1 \in Nat /\ (k + 1) - 1 = k /\ cursor < k + 1 /\ k \in 1..Len(produced)
    BY <2>4, <2>5
  <2> HIDE DEF later
  <2>8. Scan(produced, cursor, want) = k + 1
    BY <2>3 DEF k
  <2> QED
    BY <2>4, <2>5, <2>6, <2>7, <2>8 DEF NoMatch
<1>2. CASE ~(cursor # NoMatch /\ later # {} /\ produced[First(later)].result = want.result)
  BY <1>2 DEF Scan, NoMatch
<1> QED
  BY <1>1, <1>2

LEMMA CursorsAreNat ==
  ASSUME NEW expected, NEW produced, Len(expected) \in Nat, Len(produced) \in Nat
  PROVE  \A n \in 0..Len(expected) : Cursors(expected, produced)[n] \in Nat
<1> DEFINE cursor == Cursors(expected, produced)
           S == {n \in 0..Len(expected) : cursor[n] \notin Nat}
<1> SUFFICES ASSUME S # {} PROVE FALSE
  OBVIOUS
<1>1. PICK n \in S : \A m \in S : n <= m
  <2> HIDE DEF S
  <2>1. S \subseteq Nat
    BY DEF S
  <2> QED  BY <2>1, Smallest
<1>2. cursor[0] = 1 /\ \A m \in 1..Len(expected) : cursor[m] = Scan(produced, cursor[m - 1], expected[m])
  BY CursorAfter
<1> HIDE DEF cursor
<1>3. n \in 1..Len(expected) /\ n - 1 \notin S
  BY <1>1, <1>2
<1> QED
  BY <1>1, <1>2, <1>3, ScanFinds

\* A scan that finds the last entry has found every one before it, from left to right.
LEMMA CursorsClimb ==
  ASSUME NEW expected, NEW produced, Len(expected) \in Nat, Len(produced) \in Nat,
         trace_holds(expected, produced)
  PROVE  LET cursor == Cursors(expected, produced) IN
         /\ \A n \in 0..Len(expected) : cursor[n] # NoMatch
         /\ \A n \in 0..Len(expected) : \A m \in 0..(n - 1) : cursor[m] < cursor[n]
<1> DEFINE cursor == Cursors(expected, produced)
<1>1. /\ cursor[0] = 1
      /\ \A m \in 1..Len(expected) : cursor[m] = Scan(produced, cursor[m - 1], expected[m])
      /\ \A m \in 0..Len(expected) : cursor[m] \in Nat
      /\ cursor[Len(expected)] # NoMatch
  BY CursorAfter, CursorsAreNat DEF trace_holds
<1> HIDE DEF cursor
<1>2. \A n \in 1..Len(expected) :
        cursor[n] # NoMatch => cursor[n - 1] # NoMatch /\ cursor[n - 1] < cursor[n]
  BY <1>1, ScanFinds
<1>3. \A n \in 0..Len(expected) : cursor[n] # NoMatch
  <2> DEFINE S == {i \in 0..Len(expected) : cursor[Len(expected) - i] = NoMatch}
  <2>1. CASE S # {}
    <3>1. PICK i \in S : \A k \in S : i <= k
      <4> HIDE DEF S
      <4>1. S \subseteq Nat
        BY DEF S
      <4> QED  BY <2>1, <4>1, Smallest
    <3>2. i # 0 /\ i - 1 \notin S
      BY <1>1, <3>1
    <3>3. cursor[Len(expected) - i + 1] # NoMatch /\ Len(expected) - i + 1 \in 1..Len(expected)
      BY <3>1, <3>2
    <3> QED  BY <1>2, <3>1, <3>3
  <2>2. CASE S = {}
    <3>1. \A n \in 0..Len(expected) : Len(expected) - n \notin S
      BY <2>2
    <3> QED  BY <3>1
  <2> QED  BY <2>1, <2>2
<1>4. \A n \in 0..Len(expected) : \A m \in 0..(n - 1) : cursor[m] < cursor[n]
  <2> DEFINE S == {n \in 0..Len(expected) : \E m \in 0..(n - 1) : ~(cursor[m] < cursor[n])}
  <2> SUFFICES ASSUME S # {} PROVE FALSE
    OBVIOUS
  <2>1. PICK n \in S : \A k \in S : n <= k
    <3> HIDE DEF S
    <3>1. S \subseteq Nat
      BY DEF S
    <3> QED  BY <3>1, Smallest
  <2>2. PICK m \in 0..(n - 1) : ~(cursor[m] < cursor[n])
    BY <2>1
  <2>3. n \in 1..Len(expected) /\ n - 1 \in 0..Len(expected) /\ n - 1 \notin S
    BY <2>1, <2>2
  <2>4. cursor[n - 1] < cursor[n] /\ cursor[n - 1] \in Nat /\ cursor[m] \in Nat /\ cursor[n] \in Nat
    BY <1>1, <1>2, <1>3, <2>2, <2>3
  <2>5. m = n - 1 \/ cursor[m] < cursor[n - 1]
    BY <2>2, <2>3
  <2> QED
    BY <2>2, <2>4, <2>5
<1> QED
  BY <1>3, <1>4 DEF cursor

----------------------------------------------------------------------------
\* The entries that are found, and that no others could be.

LEMMA FoundInTurn ==
  ASSUME NEW expected, NEW produced, Len(expected) \in Nat, Len(produced) \in Nat,
         trace_holds(expected, produced)
  PROVE  NamedInOrder(expected, produced)
<1> DEFINE L == Len(expected)
           cursor == Cursors(expected, produced)
           at == [n \in 1..L |-> cursor[n] - 1]
<1>1. /\ cursor[0] = 1
      /\ \A n \in 0..L : cursor[n] \in Nat
      /\ \A n \in 0..L : \A m \in 0..(n - 1) : cursor[m] < cursor[n]
  BY CursorAfter, CursorsAreNat, CursorsClimb
<1>2. \A n \in 1..L :
        /\ cursor[n] - 1 \in 1..Len(produced)
        /\ produced[cursor[n] - 1].predicate = expected[n].predicate
        /\ produced[cursor[n] - 1].result = expected[n].result
        /\ \A k \in cursor[n - 1]..Len(produced) :
             produced[k].predicate = expected[n].predicate => cursor[n] - 1 <= k
  <2> SUFFICES ASSUME NEW n \in 1..L
               PROVE  /\ cursor[n] - 1 \in 1..Len(produced)
                      /\ produced[cursor[n] - 1].predicate = expected[n].predicate
                      /\ produced[cursor[n] - 1].result = expected[n].result
                      /\ \A k \in cursor[n - 1]..Len(produced) :
                           produced[k].predicate = expected[n].predicate => cursor[n] - 1 <= k
    OBVIOUS
  <2>1. cursor[n] = Scan(produced, cursor[n - 1], expected[n]) /\ cursor[n] # NoMatch
    BY CursorAfter, CursorsClimb
  <2>2. cursor[n - 1] \in Nat
    BY <1>1
  <2> HIDE DEF cursor
  <2> QED  BY <2>1, <2>2, ScanFinds
<1> HIDE DEF cursor
<1>3. at \in [1..L -> 1..Len(produced)] /\ \A n \in 1..L : at[n] = cursor[n] - 1
  BY <1>2
<1> HIDE DEF at
<1>4. Embeds(at, expected, produced)
  <2>1. ASSUME NEW n \in 1..L, NEW m \in 1..(n - 1)
        PROVE  at[m] < at[n]
    <3>1. m \in 1..L /\ n \in 0..L /\ m \in 0..(n - 1) /\ m \in 0..L
      BY <2>1
    <3>2. cursor[m] < cursor[n] /\ cursor[m] \in Nat /\ cursor[n] \in Nat
      BY <1>1, <3>1
    <3> QED  BY <1>3, <3>1, <3>2
  <2>2. \A n \in 1..L :
          /\ produced[at[n]].predicate = expected[n].predicate
          /\ produced[at[n]].result = expected[n].result
    BY <1>2, <1>3
  <2> QED
    BY <2>1, <2>2 DEF Embeds
<1>5. Nearest(at, expected, produced)
  <2> SUFFICES ASSUME NEW n \in 1..L, NEW k \in 1..Len(produced),
                      produced[k].predicate = expected[n].predicate, k < at[n]
               PROVE  \E m \in 1..(n - 1) : k <= at[m]
    BY DEF Nearest
  <2>1. n - 1 \in 0..L /\ cursor[n - 1] \in Nat
    BY <1>1
  <2>2. k < cursor[n - 1]
    BY <1>2, <1>3, <2>1
  <2>3. n - 1 \in 1..(n - 1) /\ n - 1 \in 1..L
    BY <1>1, <2>1, <2>2
  <2> QED
    BY <1>3, <2>1, <2>2, <2>3
<1> QED
  BY <1>3, <1>4, <1>5 DEF NamedInOrder

LEMMA OthersAreNone ==
  ASSUME NEW expected, NEW produced, Len(expected) \in Nat, Len(produced) \in Nat,
         NamedInOrder(expected, produced)
  PROVE  trace_holds(expected, produced)
<1> DEFINE L == Len(expected)
           cursor == Cursors(expected, produced)
<1>1. PICK at \in [1..L -> 1..Len(produced)] :
             Embeds(at, expected, produced) /\ Nearest(at, expected, produced)
  BY DEF NamedInOrder
<1>2. /\ cursor[0] = 1
      /\ \A n \in 1..L : cursor[n] = Scan(produced, cursor[n - 1], expected[n])
  BY CursorAfter
<1> HIDE DEF cursor
<1>3. ASSUME NEW n \in 1..L, n # 1 => cursor[n - 1] = at[n - 1] + 1
      PROVE  cursor[n] = at[n] + 1
  <2> DEFINE c == cursor[n - 1]
             later == {k \in c..Len(produced) : produced[k].predicate = expected[n].predicate}
  <2>1. at[n] \in 1..Len(produced)
    BY <1>1
  <2>2. c \in 1..at[n] /\ \A m \in 1..(n - 1) : at[m] < c
    <3>1. CASE n = 1
      BY <1>2, <2>1, <3>1
    <3>2. CASE n # 1
      <4>1. n - 1 \in 1..L /\ c = at[n - 1] + 1 /\ at[n - 1] \in 1..Len(produced)
        BY <1>1, <1>3, <3>2
      <4>2. at[n - 1] < at[n] /\ \A m \in 1..(n - 1) : m = n - 1 \/ at[m] < at[n - 1]
        BY <1>1, <4>1 DEF Embeds
      <4>3. \A m \in 1..(n - 1) : at[m] \in Nat
        BY <1>1
      <4> HIDE DEF c
      <4> QED  BY <2>1, <4>1, <4>2, <4>3
    <3> QED  BY <3>1, <3>2
  <2> HIDE DEF c
  <2>3. at[n] \in later /\ produced[at[n]].result = expected[n].result
    BY <1>1, <2>1, <2>2 DEF Embeds
  <2>4. \A k \in later : at[n] <= k
    <3> SUFFICES ASSUME NEW k \in later, k < at[n] PROVE FALSE
      BY <2>1, <2>2
    <3>1. k \in 1..Len(produced) /\ k \in Nat /\ c <= k
      BY <2>2
    <3>2. PICK m \in 1..(n - 1) : k <= at[m]
      BY <1>1, <3>1 DEF Nearest
    <3>3. at[m] \in Nat /\ c \in Nat
      BY <1>1, <2>2
    <3> QED  BY <2>2, <3>1, <3>2, <3>3
  <2>5. First(later) = at[n]
    <3>1. later \subseteq Nat
      BY <2>2
    <3> HIDE DEF later
    <3>2. First(later) \in later /\ First(later) <= at[n] /\ at[n] <= First(later)
      BY <2>3, <2>4, <3>1, FirstIsLeast
    <3>3. First(later) \in Nat
      BY <3>1, <3>2
    <3>4. at[n] \in Nat
      BY <2>1
    <3> QED  BY <3>2, <3>3, <3>4
  <2>6. Scan(produced, c, expected[n]) = First(later) + 1
    <3>1. c # NoMatch /\ later # {} /\ produced[First(later)].result = expected[n].result
      BY <2>2, <2>3, <2>5 DEF NoMatch
    <3> QED  BY <3>1 DEF Scan
  <2> QED
    BY <1>2, <2>5, <2>6 DEF c
<1>4. \A n \in 1..L : cursor[n] = at[n] + 1
  <2> DEFINE S == {n \in 1..L : cursor[n] # at[n] + 1}
  <2> SUFFICES ASSUME S # {} PROVE FALSE
    OBVIOUS
  <2>1. PICK n \in S : \A k \in S : n <= k
    <3> HIDE DEF S
    <3>1. S \subseteq Nat
      BY DEF S
    <3> QED  BY <3>1, Smallest
  <2>2. ASSUME n # 1 PROVE cursor[n - 1] = at[n - 1] + 1
    <3>1. n - 1 \in 1..L /\ n - 1 \notin S
      BY <2>1, <2>2
    <3> QED  BY <3>1
  <2> QED
    BY <1>3, <2>1, <2>2
<1>5. CASE L = 0
  BY <1>2, <1>5 DEF trace_holds, cursor, NoMatch
<1>6. CASE L # 0
  <2>1. L \in 1..L /\ at[L] \in 1..Len(produced)
    BY <1>1, <1>6
  <2>2. cursor[L] # 0
    BY <1>4, <2>1
  <2> QED
    BY <2>2 DEF trace_holds, cursor, NoMatch
<1> QED
  BY <1>5, <1>6

\* The runner and the reference accept a produced trace exactly if the entries named stand in it
\* in turn, each the next of its predicate: for traces of any length and whatever entries.
THEOREM ScanIsExact ==
  \A expected, produced :
    IsSeq(expected) /\ IsSeq(produced) =>
      (trace_holds(expected, produced) <=> NamedInOrder(expected, produced))
<1> SUFFICES ASSUME NEW expected, NEW produced, IsSeq(expected), IsSeq(produced)
             PROVE  trace_holds(expected, produced) <=> NamedInOrder(expected, produced)
  OBVIOUS
<1>1. Len(expected) \in Nat /\ Len(produced) \in Nat
  BY LenProperties DEF IsSeq
<1> QED
  BY <1>1, FoundInTurn, OthersAreNone
=============================================================================
