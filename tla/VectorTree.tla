----------------------------- MODULE VectorTree -----------------------------
(***************************************************************************)
(* The published vectors as files, and what the four builders under tools/ *)
(* write.  A builder computes the vectors of one set from its own source   *)
(* and the committed test key, and writes each to a file named after the   *)
(* vector's number and its slug.  They differ in what they take away:      *)
(*                                                                         *)
(*   native    nothing                                                     *)
(*   enforce   other files of the number it is about to write              *)
(*   resume    every file it will not write, before it writes any          *)
(*   interop   nothing                                                     *)
(*                                                                         *)
(* A vector is its version and the key that signed it.  The five test      *)
(* identities are one here: genkeys.py makes all of them anew in one run.  *)
(***************************************************************************)
EXTENDS Integers, FiniteSets

CONSTANTS
  Numbers,   \* the vectors' numbers, in the order a builder writes them
  Slugs,     \* what a file name says after the number
  NoName,    \* the slug of a native vector that main() has no file name for
  Versions,  \* of what a vector says
  Absent,    \* no such vector, no such file
  Partial    \* a file that was opened for writing and not written to its end

Sets == {"native", "enforce", "resume", "interop"}

File == [set : Sets, n : Numbers, slug : Slugs]
Content == [version : Versions, key : Nat]
Tree == [File -> Content \cup {Absent, Partial}]

SlugsOf(s) == IF s = "native" THEN Slugs \cup {NoName} ELSE Slugs
Entry(s) == [slug : SlugsOf(s), version : Versions]

\* A builder lists its vectors one by one, and no vector reads as none.
ASSUME VectorTreeAssumption ==
  /\ Numbers \subseteq Int /\ IsFiniteSet(Numbers)
  /\ NoName \notin Slugs /\ Slugs # {} /\ IsFiniteSet(Slugs)
  /\ Versions # {}
  /\ Absent # Partial /\ {Absent, Partial} \cap Content = {}
  /\ \A s \in Sets : Absent \notin Entry(s)

\* What the sources of the builders say: by set and number, the vector or Absent.
Sources == {src \in [Sets -> [Numbers -> (UNION {Entry(s) : s \in Sets}) \cup {Absent}]] :
              \A s \in Sets : src[s] \in [Numbers -> Entry(s) \cup {Absent}]}

Builds(src, s) == {n \in Numbers : src[s][n] # Absent}

Named(src, s) == \A n \in Builds(src, s) : src[s][n].slug # NoName

\* f is the file of a vector that the source of its set has.
IsBuilt(src, f) == f.n \in Builds(src, f.set) /\ src[f.set][f.n].slug = f.slug

Written(src, key, f) == [version |-> src[f.set][f.n].version, key |-> key]

StaleResume(src, f) == f.set = "resume" /\ ~IsBuilt(src, f)

\* Another file of number n, which the enforce builder removes before it writes its own.
Replaced(src, n, f) == f.set = "enforce" /\ f.n = n /\ ~IsBuilt(src, f)

\* The tree after the builder of set s has run to its end.
Rebuilt(src, key, s, tree) ==
  [f \in File |->
     IF f.set = s /\ IsBuilt(src, f) THEN Written(src, key, f)
     ELSE IF f.set = s /\ (StaleResume(src, f) \/ \E n \in Builds(src, s) : Replaced(src, n, f))
     THEN Absent
     ELSE tree[f]]
=============================================================================
