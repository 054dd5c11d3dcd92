----------------------------- MODULE GateSafety -----------------------------
(***************************************************************************)
(* What the job's verdict says about the commit.                           *)
(***************************************************************************)
EXTENDS ReproducibilityGate

\* The variables have the values the program gives them.
TypeOK ==
  /\ {work, head} \subseteq Repository
  /\ tool \in Tools
  /\ job \in [verdict : Verdicts, at : 1..Len(Steps) + 1, tree : Tree]
  /\ counts \in [{"edits", "commits", "killed"} -> Nat]

Passed == job.verdict = "passed"

Agrees(f) == head.tree[f] = Written(head.src, head.key, f)

\* A commit that passes holds nothing of a built vector but what its sources and its key say:
\* no earlier version, no file signed with an earlier key, no file a killed builder left half
\* written, no former name of an enforce vector; resume/ is the builder's output file for
\* file; and the keys match their DID documents, as long as the native or the resume builder
\* has a vector to sign.  A rebuild on the commit changes none of it.
PassedIsReproducible ==
  Passed =>
    /\ \A f \in File :
         /\ IsBuilt(head.src, f) => head.tree[f] = Absent \/ Agrees(f)
         /\ head.tree[f] # Partial
         /\ f.set = "resume" => (head.tree[f] # Absent <=> IsBuilt(head.src, f))
         /\ f.set = "enforce" /\ f.n \in Builds(head.src, "enforce") /\ head.tree[f] # Absent
              => IsBuilt(head.src, f)
    /\ (\E s \in {"native", "resume"} : Builds(head.src, s) # {}) => head.key = head.doc
    /\ \A s \in Sets : Named(head.src, s)

\* The expected count is what catches a vector nobody builds any more: where the workflow
\* expects as many vectors as are built, a commit that passes has no other file of the three
\* sets the runners read.
CountExposesStale ==
  Passed /\ head.count = CountOf(head.src) =>
    \A f \in File : f.set # "interop" /\ head.tree[f] # Absent => IsBuilt(head.src, f)

\* The job fails no commit that holds exactly the built files, matching keys and the right
\* count: no builder removes or changes what another one, or it itself, has just written.
ReleasePasses ==
  job.verdict = "failed" =>
    \/ \E s \in Sets : ~Named(head.src, s)
    \/ \E s \in {"native", "interop"} : Builds(head.src, s) = {}
    \/ \E f \in File : head.tree[f] # IF IsBuilt(head.src, f)
                                      THEN Written(head.src, head.key, f) ELSE Absent
    \/ head.key # head.doc
    \/ head.count # CountOf(head.src)

\* A builder that gets to its end has repaired whatever an earlier run, a killed one or an
\* edit left of its set: building again on the job's checkout changes nothing.
FinishedBuildIsComplete ==
  building /\ tool.todo = {} => work.tree = Rebuilt(work.src, work.key, tool.set, work.tree)

R == INSTANCE Release WITH verdict <- job.verdict

\* The eight steps of the job, each on what the one before left of the checkout, come to one
\* judgement of the commit: it passes exactly if a rebuild leaves no difference that git
\* shows, what is there is whole and signed with the published key, and the count is right.
\* A native, enforce or interop file that was never added to git shows no difference: a
\* commit without it passes.
ImplementsRelease == R!Spec

-----------------------------------------------------------------------------
\* The inductive invariant.

\* What the running builder has written is as it will leave it, and what it had to remove
\* before it wrote that is gone.
Building ==
  building =>
    /\ tool.todo \subseteq Builds(work.src, tool.set)
    /\ tool.open => tool.todo # {} /\ NextFile.slug # NoName
    /\ \A f \in File :
         /\ f.set = tool.set /\ IsBuilt(work.src, f) /\ f.n \notin tool.todo =>
              work.tree[f] = Written(work.src, work.key, f)
         /\ tool.set = "resume" /\ StaleResume(work.src, f) => work.tree[f] = Absent
         /\ tool.set = "enforce" =>
              \A n \in Builds(work.src, "enforce") :
                Replaced(work.src, n, f) /\ (n \notin tool.todo \/ (tool.open /\ n = NextFile.n)) =>
                  work.tree[f] = Absent

\* The step of the job that rebuilds a set, and the one that verifies it.
RebuildAt == [native |-> 2, enforce |-> 4, resume |-> 5, interop |-> 7]
VerifyAt == [native |-> 1, enforce |-> 3, interop |-> 6]

\* The job's tree is the commit's, with the sets rebuilt so far in place; where git was to
\* show no difference there is none.
RebuiltSoFar(f) ==
  IF job.at <= RebuildAt[f.set] THEN job.tree[f] = head.tree[f]
  ELSE /\ job.tree[f] = Rebuilt(head.src, head.key, f.set, head.tree)[f]
       /\ head.tree[f] # Absent \/ f.set = "resume" => job.tree[f] = head.tree[f]

\* The verifiers of these two sets refuse an empty directory.
FoundSoFar(s) == job.at > VerifyAt[s] => FilesOf(s, head.tree) # {}

\* The files of the commit that were verified before their set was rebuilt.
VerifiedSoFar(f) ==
  f.set # "resume" /\ head.tree[f] # Absent =>
    (job.at > VerifyAt[f.set] =>
       /\ head.tree[f] # Partial
       /\ f.set # "enforce" => head.tree[f].key = head.doc)

Judging ==
  /\ job.verdict = "running" => job.at <= Len(Steps)
  /\ Passed => job.at > Len(Steps) /\ RunVectors
  /\ job.verdict \in {"running", "passed"} =>
       /\ \A f \in File : RebuiltSoFar(f) /\ VerifiedSoFar(f)
       /\ \A s \in {"native", "interop"} : FoundSoFar(s)
       /\ \A s \in Sets : job.at > RebuildAt[s] => Named(head.src, s) /\ Computed(head, s)

IInv == TypeOK /\ Building /\ Judging /\ ReleasePasses
=============================================================================
