------------------------------ MODULE Release ------------------------------
(***************************************************************************)
(* What a verdict of conformance.yml promises, with no job: a commit has   *)
(* one verdict, and it is decided by the commit alone.  Nothing the job    *)
(* did before, nothing its builders wrote on the way and nothing the       *)
(* developer does meanwhile makes a difference.                            *)
(***************************************************************************)
EXTENDS VectorTree

VARIABLES
  head,     \* the last commit
  verdict   \* what the job says of it

Commits == [src : Sources, key : Nat, doc : Nat, tree : Tree, count : Nat]

Held(r, f) == r.tree[f] # Absent

\* The files a runner reads once every builder has run.
Counted(r) == {f \in File : f.set # "interop" /\ (IsBuilt(r.src, f) \/ Held(r, f))}

\* The builders run to their ends, a rebuild leaves no difference that git shows (one of
\* resume/ also where a file is missing from the commit), every file that is there is a
\* whole vector, signed (but for the enforce set) with the key of the DID document, the two
\* directories whose verifier refuses an empty one are not empty, and the count is right.
Passing(r) ==
  /\ \A s \in Sets : Named(r.src, s)
  /\ (\E s \in {"native", "resume"} : Builds(r.src, s) # {}) => r.key = r.doc
  /\ \A f \in File :
       /\ Held(r, f) \/ f.set = "resume" =>
            r.tree[f] = Rebuilt(r.src, r.key, f.set, r.tree)[f]
       /\ Held(r, f) =>
            r.tree[f] # Partial /\ (f.set # "enforce" => r.tree[f].key = r.doc)
  /\ \A s \in {"native", "interop"} : \E f \in File : f.set = s /\ Held(r, f)
  /\ r.count = Cardinality(Counted(r))

Init == head \in Commits /\ verdict = "none"

Commit ==
  /\ verdict # "running" /\ verdict' = "running"
  /\ head' \in Commits

Judge ==
  /\ verdict = "running"
  /\ verdict' = IF Passing(head) THEN "passed" ELSE "failed"
  /\ UNCHANGED head

Spec == Init /\ [][Commit \/ Judge]_<<head, verdict>>
=============================================================================
