------------------------ MODULE ReproducibilityGate ------------------------
(***************************************************************************)
(* How the vectors reach a commit, and the job of conformance.yml that     *)
(* judges it.  A developer edits the builders, runs them and genkeys.py in *)
(* a working tree (a run may be killed between any two of its writes), and *)
(* commits: everything, or only the files git knows.  The job works on a   *)
(* checkout of the commit and runs its steps in order, up to the first     *)
(* that fails.                                                             *)
(*                                                                         *)
(* The job reads nothing but its checkout, so what the developer does      *)
(* meanwhile commutes with its steps; here the developer waits for it.     *)
(* Bounded: the developer's edits, commits and killed runs, and the keys.  *)
(***************************************************************************)
EXTENDS VectorTree, Sequences

CONSTANTS
  Origin,      \* the sources that were built, checked and committed before
  MAX_EDITS, MAX_COMMITS, MAX_KILLED, MAX_KEY

ASSUME GateAssumption ==
  /\ Origin \in Sources
  /\ \A s \in Sets : Named(Origin, s)
  /\ {MAX_EDITS, MAX_COMMITS, MAX_KILLED, MAX_KEY} \subseteq Nat

VARIABLES
  work,    \* the working tree
  head,    \* the last commit
  tool,    \* the tool that is running in the working tree
  job,     \* the job of conformance.yml on head
  counts   \* how often the developer edited, committed and killed a run

vars == <<work, head, tool, job, counts>>

\* The sources, the private key, the key of the DID document, the vector files, and the
\* number of vectors that the workflow expects the runners to pass.
Repository ==
  [src : Sources, key : 0..MAX_KEY, doc : 0..MAX_KEY, tree : Tree, count : Nat]

Idle == [name |-> "none", set |-> "none", todo |-> {}, open |-> FALSE]

Tools ==
  {Idle, [Idle EXCEPT !.name = "genkeys"]}
    \cup [name : {"build"}, set : Sets, todo : SUBSET Numbers, open : BOOLEAN]

\* The steps of the job that concern the vector files, in the order of conformance.yml.
Steps ==
  << [do |-> "verify", set |-> "native"],   [do |-> "rebuild", set |-> "native"],
     [do |-> "verify", set |-> "enforce"],  [do |-> "rebuild", set |-> "enforce"],
     [do |-> "rebuild", set |-> "resume"],
     [do |-> "verify", set |-> "interop"],  [do |-> "rebuild", set |-> "interop"],
     [do |-> "run", set |-> "native"] >>

Verdicts == {"none", "running", "passed", "failed"}

Next1(todo) == CHOOSE n \in todo : \A m \in todo : n <= m

\* The vectors the runners would find if exactly the built files were there.
CountOf(src) == Cardinality({f \in File : f.set # "interop" /\ IsBuilt(src, f)})

Init ==
  /\ head = [src |-> Origin, key |-> 0, doc |-> 0, count |-> CountOf(Origin),
             tree |-> [f \in File |-> IF IsBuilt(Origin, f) THEN Written(Origin, 0, f) ELSE Absent]]
  /\ work = head
  /\ tool = Idle
  /\ job = [verdict |-> "none", at |-> 1, tree |-> head.tree]
  /\ counts = [edits |-> 0, commits |-> 0, killed |-> 0]

\* Nothing runs; after the job of the last commit nothing happens any more.
Free == tool = Idle /\ job.verdict # "running" /\ counts.commits < MAX_COMMITS

Counted(what, most) == counts[what] < most /\ counts' = [counts EXCEPT ![what] = @ + 1]

-----------------------------------------------------------------------------
(***************************************************************************)
(* The developer's edits.                                                  *)
(***************************************************************************)

Edit(s, n, entry) ==
  /\ Free
  /\ Counted("edits", MAX_EDITS)
  /\ work.src[s][n] # entry
  /\ work' = [work EXCEPT !.src[s][n] = entry]
  /\ UNCHANGED <<head, tool, job>>

\* What a new vector is called and says makes no difference: it is renamed and revised below.
AddVector(s, n) ==
  /\ work.src[s][n] = Absent
  /\ Edit(s, n, CHOOSE entry \in [slug : Slugs, version : Versions] : TRUE)

RenameVector(s, n, slug) ==
  work.src[s][n] # Absent /\ Edit(s, n, [work.src[s][n] EXCEPT !.slug = slug])

ReviseVector(s, n, version) ==
  work.src[s][n] # Absent /\ Edit(s, n, [work.src[s][n] EXCEPT !.version = version])

DropVector(s, n) == Edit(s, n, Absent)

\* rm of one vector file by hand.
DeleteFile(f) ==
  /\ Free
  /\ Counted("edits", MAX_EDITS)
  /\ work.tree[f] # Absent
  /\ work' = [work EXCEPT !.tree[f] = Absent]
  /\ UNCHANGED <<head, tool, job>>

(***************************************************************************)
(* genkeys.py: a new private key, then the DID document that publishes it. *)
(***************************************************************************)

WriteKey ==
  /\ Free
  /\ work.key < MAX_KEY
  /\ work' = [work EXCEPT !.key = @ + 1]
  /\ tool' = [Idle EXCEPT !.name = "genkeys"]
  /\ UNCHANGED <<head, job, counts>>

\* Mutant of WriteDocument: the document of a further key, not of the one just written.
WriteDocument_FurtherKey ==
  /\ tool.name = "genkeys"
  /\ work' = [work EXCEPT !.doc = work.key + 1]
  /\ tool' = Idle
  /\ UNCHANGED <<head, job, counts>>

WriteDocument ==
  /\ tool.name = "genkeys"
  /\ work' = [work EXCEPT !.doc = work.key]
  /\ tool' = Idle
  /\ UNCHANGED <<head, job, counts>>

(***************************************************************************)
(* A builder, write by write.                                              *)
(***************************************************************************)

building == tool.name = "build"

\* The resume builder asserts that verify() gives every row its outcome, and stops before it
\* has touched a file when the DID document has another key.
Computed(repo, s) == s = "resume" => repo.key = repo.doc \/ Builds(repo.src, s) = {}

\* All vectors are computed first; the resume builder then removes what it will not write.
StartBuild(s) ==
  /\ Free
  /\ Computed(work, s)
  /\ tool' = [name |-> "build", set |-> s, todo |-> Builds(work.src, s), open |-> FALSE]
  /\ work' = [work EXCEPT !.tree =
                [f \in File |-> IF s = "resume" /\ StaleResume(work.src, f) THEN Absent ELSE @[f]]]
  /\ UNCHANGED <<head, job, counts>>

NextFile == [set |-> tool.set, n |-> Next1(tool.todo),
             slug |-> work.src[tool.set][Next1(tool.todo)].slug]

\* Mutant of RemovedAtOpen: the former name of an enforce vector stays.
RemovedAtOpen_Never(f) == FALSE

\* The enforce builder has removed the number's other files before it opens the new one.
RemovedAtOpen(f) == tool.set = "enforce" /\ Replaced(work.src, NextFile.n, f)

\* open(path, "w") leaves an empty file.
OpenFile ==
  /\ building /\ tool.todo # {} /\ ~tool.open
  /\ NextFile.slug # NoName
  /\ work' = [work EXCEPT !.tree =
                [f \in File |-> IF f = NextFile THEN Partial
                                ELSE IF RemovedAtOpen(f) THEN Absent ELSE @[f]]]
  /\ tool' = [tool EXCEPT !.open = TRUE]
  /\ UNCHANGED <<head, job, counts>>

CloseFile ==
  /\ building /\ tool.open
  /\ work' = [work EXCEPT !.tree[NextFile] = Written(work.src, work.key, NextFile)]
  /\ tool' = [tool EXCEPT !.open = FALSE, !.todo = @ \ {NextFile.n}]
  /\ UNCHANGED <<head, job, counts>>

\* filenames[v["id"]] raises KeyError: the files before it have been written.
RaiseKeyError ==
  /\ building /\ tool.todo # {} /\ ~tool.open
  /\ NextFile.slug = NoName
  /\ tool' = Idle
  /\ UNCHANGED <<work, head, job, counts>>

FinishBuild ==
  /\ building /\ tool.todo = {}
  /\ tool' = Idle
  /\ UNCHANGED <<work, head, job, counts>>

\* The running tool is killed.
Kill ==
  /\ tool # Idle
  /\ Counted("killed", MAX_KILLED)
  /\ tool' = Idle
  /\ UNCHANGED <<work, head, job>>

-----------------------------------------------------------------------------
(***************************************************************************)
(* The commit, and the job on it.                                          *)
(***************************************************************************)

\* git add -A, or git commit -a, which leaves out the files git does not know.
Recorded(all) ==
  IF all THEN work.tree
  ELSE [f \in File |-> IF head.tree[f] = Absent THEN Absent ELSE work.tree[f]]

FilesOf(s, tree) == {f \in File : f.set = s /\ tree[f] # Absent}

\* Mutant of Selected: the runners leave out the resume vectors.
Selected_NoResume(tree) == UNION {FilesOf(s, tree) : s \in {"native", "enforce"}}

\* Mutant of Selected: the runners take the composition vectors too.
Selected_WithInterop(tree) == UNION {FilesOf(s, tree) : s \in Sets}

\* The files that the runners find: load_vectors() takes the .json files of the directories.
Selected(tree) == UNION {FilesOf(s, tree) : s \in {"native", "enforce", "resume"}}

\* The count in the workflow: left as it is, the vectors that are built, or what a runner
\* prints in the working tree.
NewCounts == {work.count, CountOf(work.src), Cardinality(Selected(work.tree))}

Commit(all, count) ==
  /\ Free
  /\ Counted("commits", MAX_COMMITS)
  /\ head' = [work EXCEPT !.tree = Recorded(all), !.count = count]
  /\ work' = [work EXCEPT !.count = count]
  /\ job' = [verdict |-> "running", at |-> 1, tree |-> Recorded(all)]
  /\ UNCHANGED tool

\* What the schema, the verifier of the set and the runners accept: a file that parses and,
\* where a DID document is resolved, a signature that its key verifies.  That the verdict a
\* vector states is the right one is the subject of NativeVectors and its like, not of this
\* module; the vectors here state the right one, and it needs the signature.
Sound(f) == job.tree[f] # Partial /\ (f.set = "enforce" \/ job.tree[f].key = head.doc)

\* Files that git diff shows, and those git status shows: a file git does not know is no
\* difference to git diff.
Diff(sets, tree) == {f \in File : f.set \in sets /\ head.tree[f] # Absent /\ tree[f] # head.tree[f]}
Status(sets, tree) == {f \in File : f.set \in sets /\ tree[f] # head.tree[f]}

\* Mutant of Differences: git diff for the resume directory too.
Differences_DiffOnly(s, tree) ==
  IF s = "native" THEN Diff({"native", "enforce", "resume"}, tree) ELSE Diff({s}, tree)

\* vectors/ holds the enforce and resume directories as well.
Differences(s, tree) ==
  IF s = "native" THEN Diff({"native", "enforce", "resume"}, tree)
  ELSE IF s = "resume" THEN Status({"resume"}, tree)
  ELSE Diff({s}, tree)

\* Mutant of Verify: an empty directory is in order.
Verify_Empty(s) == \A f \in FilesOf(s, job.tree) : Sound(f)

\* The verifiers of the enforce set accept an empty directory.
Verify(s) ==
  /\ \A f \in FilesOf(s, job.tree) : Sound(f)
  /\ s # "enforce" => FilesOf(s, job.tree) # {}

Rebuild(s) ==
  /\ Named(head.src, s)
  /\ Computed(head, s)
  /\ Differences(s, Rebuilt(head.src, head.key, s, job.tree)) = {}

RunVectors ==
  /\ \A f \in Selected(job.tree) : Sound(f)
  /\ Cardinality(Selected(job.tree)) = head.count

StepHolds(step) ==
  \/ step.do = "verify" /\ Verify(step.set)
  \/ step.do = "rebuild" /\ Rebuild(step.set)
  \/ step.do = "run" /\ RunVectors

JobStep ==
  /\ job.verdict = "running"
  /\ LET step == Steps[job.at] IN
     job' = [verdict |-> IF ~StepHolds(step) THEN "failed"
                         ELSE IF job.at = Len(Steps) THEN "passed" ELSE "running",
             at |-> job.at + 1,
             tree |-> IF step.do = "rebuild"
                      THEN Rebuilt(head.src, head.key, step.set, job.tree) ELSE job.tree]
  /\ UNCHANGED <<work, head, tool, counts>>

-----------------------------------------------------------------------------

Develop ==
  \/ \E s \in Sets, n \in Numbers :
       \/ AddVector(s, n)
       \/ \E slug \in SlugsOf(s) : RenameVector(s, n, slug)
       \/ \E version \in Versions : ReviseVector(s, n, version)
       \/ DropVector(s, n)
  \/ \E f \in File : DeleteFile(f)
  \/ \E all \in BOOLEAN, count \in NewCounts : Commit(all, count)

Tool ==
  \/ WriteKey \/ WriteDocument
  \/ \E s \in Sets : StartBuild(s)
  \/ OpenFile \/ CloseFile \/ RaiseKeyError \/ FinishBuild
  \/ Kill

Next == Develop \/ Tool \/ JobStep

Spec == Init /\ [][Next]_vars
=============================================================================
