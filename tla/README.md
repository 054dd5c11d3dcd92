# A formal model of the AAE conformance suite

The repository publishes conformance vectors for Agent Authorization Envelopes (AAE),
reference verifiers that answer them, and two runners that put an implementation through
them. This directory holds TLA+ modules of the parts that decide something, the TLC
configurations that check them on small instances, and TLAPS proofs of the results that
matter for every instance.

## 1. Inventory

| Component | Code | State it keeps | Operations | Hard behaviour | Correct when |
|---|---|---|---|---|---|
| Native verifier | `examples/python-verify.py` | none between calls; inside `verify()` the step reached and the ancestor the step-9 loops are at | `verify()`: signature and signing authority, schema, window, binding, single use, action, constraints, revocation, delegation | nine ordered steps whose order shows in the verdict; a walk that only compares neighbours; reads of members that are checked later | an ACCEPT is backed by every envelope of the path, a REJECT names the first failing step, and only a few gaps in an envelope raise |
| Enforce kernel | `examples/enforce-verify.py` | none; hash-linked records handed back by the caller | `enforce_check()`, `ratify()`, `check_vector()` | forbid outranks, first satisfied grant wins, records are tied to their inputs only by digest | a decision is the one its grants give, and a held one is ratified only by an authority of its own mandate |
| Composition checker | `examples/composition-verify.py` | none | `compose()`: native verdict, proof, WHAT join, WHO join, freshness, decision | six copies of one digest, compared in pairs but for one; a row that could not be established must say so | AUTHORIZED only if one principal mandated and approved one action, which one missing comparison leaves open |
| Runners | `runner/python`, `runner/ts` | the report so far, the answer held back for a re-run, the process of the current invocation | start, write, wait, time out, kill, compare, report | the implementation is a process tree that may hang, die, outlive its run or hold its pipes | PASS exactly for a conforming implementation, one verdict per vector, the run ends |
| Trace matching | `check_trace()`, `trace_holds()` | a cursor | one greedy scan | which of several entries of one predicate an expected entry is compared with | what it matches stands in the trace in that order, and what stands there in order it matches (it does not) |
| Adapters | `adapters/`, `runner/test-adapters` | none | one request in, one answer out | exceptions become an exit status | answers every vector |
| Resume records | `tools/build_resume_vectors.py`, `scenarios/permission-to-retry` | the scenario matrix R01 to R14 by profile | `build()`, `main()` | what a pause may change between admission and dispatch | each cell is the history's own verdict |
| Vector builders and CI | `tools/build_*.py`, `genkeys.py`, `.github/workflows` | files under `vectors/`, `interop/`; the test keys | rebuild, write, commit, compare, count | stale and untracked files, a tool killed half way, keys and vectors of different runs | what passes is what the builders make from the committed sources and keys |
| Negative controls | `tools/run_negative_controls.py`, `interop/psea/negative-controls.json` | a mutated copy of a vector or the fixture | `apply_mutation()`, `compose()`, compare | one input changes, and only the rows that depend on it may move | every control ends in its committed rows |
| Validators, explainer | `tools/validate_*.py`, `explain_enforce.py` | none | one pass over the vectors | none of their own | report what the schema library or the verifier says |
| Data | `vectors/`, `schema/`, `fixtures/`, `interop/`, `testkeys/` | - | - | - | - |

How they interact: the builders sign vectors with the test keys and call the verifiers for
the expected results; the runners start an adapter once per request, write the vector's
input to its stdin and compare one JSON line with the expected members; the composition
checker calls the native verifier unchanged; CI rebuilds everything and compares with what
is committed. No component shares memory with another. The one place where several
processes run at once is the runner with the implementation it starts.

## 2. Modules

| Module | Models | Role |
|---|---|---|
| `Envelopes` | an AAE reduced to what the checks read, and the call of `verify()` | data |
| `NativeVerifier` | `verify()` with every check it calls | detailed specification |
| `Authorization` | what an ACCEPT promises: one decision, about the whole path at once | abstract specification |
| `NativeVerifierSafety` | invariants, refinement, the claims that do not hold | properties |
| `MCNativeVerifier` | a root, a mid and a leaf with named departures | instance for TLC |
| `NativeVerifierProofs` | eight theorems | proofs |
| `Answers` | vectors, answers, and the comparison the runners make | data and pure operators |
| `Runner` | `run_vector()`, `invoke()`, the loop of `main()`, and the processes of the implementation | detailed specification |
| `Conformance` | what a run promises, with the protocol's tables | abstract specification |
| `RunnerSafety`, `MCRunner`, `RunnerProofs` | as above | properties, instance, proofs |
| `Mandates` | mandates, transactions, digests, the constraint language, the shape of grants | data and pure operators |
| `EnforceKernel` | `enforce_check()` and `ratify()`, a caller that keeps records, authorities that sign | detailed specification |
| `Entitlement` | what a mandate says of a transaction, of a record and of a signature, stated without an algorithm | abstract definitions |
| `Enforcement` | what the kernel promises: one record for each call, with the mandate's verdict, and no ratification before its signature | abstract specification |
| `TraceMatching`, `TraceProofs` | `trace_holds()` and `check_trace()`, and what a match promises without a scan; one theorem | pure operators, proofs |
| `DueRecords` | the record as a function of mandate, transaction and link | abstract definition |
| `EnforceSafety` | invariants, refinement, two claims that do not hold | properties |
| `MCEnforce`, `EnforceProofs` | as above | instance, proofs |
| `MandateLaws` | what an edit of a mandate does to the decisions under it; three theorems | proofs |
| `RecordProofs` | every record is its due one; two theorems | proofs |
| `Faults` | what a check yields: nothing, a reason, an uncaught exception | shared operators |
| `CrossRun` | an interop vector, the PSEA token, the checks of `compose()` as operators, the mutations of the controls | data and pure operators |
| `Composition` | `compose()`, the loop of its `main()`, and the negative controls | detailed specification |
| `Approval` | the question: did the same principal mandate this action and approve it, with a token that commits to it? | abstract specification |
| `CompositionSafety`, `MCComposition` | invariants, the refinement, a claim that does not hold; the instance | properties, instance |
| `CompositionOutcomes`, `CompositionProofs` | the rows as functions of one vector, and the four outcomes; six theorems | proofs |
| `NativeVectors`, `ResumeVectors`, `EnforceVectors`, `InteropVectors` | the published vectors, as their builders assemble them, with the expected results | data, checked against the kernels |
| `VectorTree` | the vector files, and what each builder writes and removes | data and pure operators |
| `ReproducibilityGate` | a developer's working tree, the tools that run in it, the commit, the CI job | detailed specification |
| `Release` | what a verdict on a commit promises: one verdict, decided by the commit alone | abstract specification |
| `GateSafety`, `MCGate`, `GateProofs` | invariants, refinement and the inductive invariant; the instance; nine theorems | properties, instance, proofs |

### The native verifier

One action of `NativeVerifier` per step of section 5 (`Signature` to `Delegation`), one per
turn of the two step-9 loops (`VerifyAncestor`, `VerifyLink`), one each for the cycle check
and the limit between them (`Cycle`, `Limit`), and the two ends (`DelegationDone`,
`Accept`). `Check` is the pattern they share: a fault ends the call with the step and the
reason (`Reject`), anything `verify()` does not catch ends it as EXCEPTION, and no fault
moves on. A check is an operator that yields the fault it raises; the order of guards inside
a check is the order of the nested `Then`.

What the abstraction keeps and drops:

- a compact JWS is a member of `JWS`, and `Payload` is what a decoder makes of it. A JWS has
  one payload, so two envelopes with the same hash are the same envelope (`HashFault`);
- whether a signature verifies, and with whose key, is a field of the envelope. It covers
  the protected header, so `cty` belongs to the envelope too;
- instants are integers and compared as `datetime` compares them; parse failures are
  `Uncaught`, because that is what they end in;
- a value that may be missing is a set of at most one element;
- `shape` names the first member that a malformed document lacks. Which checks read it
  first, and whether that raises or rejects, is the code's;
- the order of the members of `constraints` is not modelled: where a loop stops at the first
  bad member, any bad member may be the first (`OneOf`). The verdict and the step do not
  depend on it, the reason may;
- `rate_limit` is checked at step 7 and not narrowed by `check_link()`, as in the code;
- `main()`, which compares with the vector and prints, is left out.

### The runners

`runner.py` blocks in `communicate()` where `cli.ts` handles events; the steps are the same
and `Runner` is both: `Start` (Popen, spawn), `StartFails` (OSError, the "error" event),
`TimeoutExpired` (the exception, the timer: SIGKILL to the process group), `Communicate`
(`communicate()` returns, the "close" event: the child has ended and nobody holds its
pipes; then `run_vector()` judges the answer, or keeps it and sends the vector again; a child that was
killed has a status that is not 0),
`Return` (the exit status of `main()`). The implementation is the environment: `Fork` into
the group ("worker") or out of it ("daemon"), with or without the pipes, `Write`,
`ClosePipes`, `Exit` with status 0 or 1, `Quit`, and `QuitLater` for a process that outlived
its invocation. Those actions are external: they stand for whatever program is under test.

`answered` is a history variable: what each invocation that ended in time and with status 0
printed, noted from the state of the processes and not from what the runner makes of it.
`Conformance` judges by it, so that a verdict taken from the stdout of a timed-out or crashed
invocation would not be earned.

A JSON object is a function from its members to values, so an absent member and `null` differ
as they do in `need()` and `compare()`. `Text` is what may be printed: an object, something
malformed, or nothing. An expected trace is given as the set of traces `check_trace()` would
accept, so the matching itself is not modelled here. Left out: option parsing, finding the
vectors, messages and colours, the JSON report file, and vector files that do not parse.

### The enforce kernel

`enforce_check()` is one action per question, in the order of the code: `Shape` (the mandate,
the transaction, the digest of the action), `TypeFields`, `ActionBinding`, `Disposition`, one
`Constraints` per turn of the loop over the grants that match, and `Unsatisfied` when none of
them is left. `Return` builds the core and hands the record to the caller, `Continue` goes on
to the next question. `ratify()` is one action, `Ratify`: `RatifyError` holds the guards that
raise, `Judged` the three checks of the proof in order, each only after the one before it
passed. `Call` and `Sign` are the caller and the authorities; `Sign` is external.

The kernel keeps no state. `records`, `signed` and `answers` are what the caller and the
authorities know, and `Ratify` combines them freely: any record with any claimed digest, any
decision, any of the mandates in `Shown`, any signature made so far. What the abstraction keeps
and drops:

- a digest identifies what was digested: that of x is `{x}`, and `{}` (None) where `jcs`
  raises. Collisions do not happen. Records are decided under mandates and transactions that
  have an identity; the digest of the record is lost too if its trace carries a value that
  cannot be canonicalized (`CarriesUndigestible`);
- names (field paths, constraint types, type fields) can always be canonicalized, and so can
  whatever stands where a constraint wants an array;
- a field path is looked up as a whole; a malformed path, one that is too deep and one that
  leads nowhere all resolve to nothing, as they do in `resolve_field()`;
- a mandate that is no object has no grants and no authorities; `authorities_iterable` says
  whether slicing `ratification_authorities` raises, and the sequence of that name holds the
  entries that survive the filter and the cap of 64;
- a trace entry is its predicate, its result and the values that enter the core, in the order
  in which the questions leave it. Reasons are
  left out, and so are the core and digest of a ratification record;
- `records` also says under which mandate and transaction each was decided, `answers` which
  mandate was supplied: the code does not keep this, the properties need it.

### The composition

`compose()` is one action per stage: `AaeNative`, `SecondaryNative`, `WhatJoin`, `WhoJoin`,
`Freshness`, `Decision`. A stage fills the rows it establishes; where the code returns early,
`Return` fills every row that is left with its not-established value, as the code does. `Raise`
is an exception nobody catches. `LoadVector` and `LoadControl` are the loops of the two
programs that call it, `Proceed` their comparison (`compare_stages()`), and `MutatedVector`
and `MutatedFixture` what `apply_mutation()` does to a copy. The native verifier enters as
`Native[jws][time]`, the reason and the step it rejects with: `NativeVerifier` is the model of
how they are reached. All eight rows are there, `admission` and `outcome` (always NONE) with the
other six, and a row is compared by its value, its reason and its step, as in the code. What the abstraction keeps and drops:

- a digest is what its octets are, or `Undecodable`; a payload is its digest and the kinds of
  leaves that `check_i_json()` tells apart. `MCOctet32` are those of 32 octets;
- a token is whether it has three parts, what the first two decode to, its header tests, the
  key that signed it (or why its signature is none) and its claims; a claim that may be missing is
  a set of at most one element, and `not_numbers` names an `iat` or `exp` that raises;
- a token whose third part is empty, on which the tampering control itself raises, is left out;
- a resolution table is a partial function from identifiers to principals;
- `trace` lines and the wording of reasons are left out; a reason is a name.

### The published vectors

`NativeVectors`, `ResumeVectors`, `EnforceVectors` and `InteropVectors` say what the four
builders put into their vectors. In the run of each kernel they are among the calls, and
`VectorsAgree` (`BaselineAgrees` for the composition) says that the model answers each as
published. That is a check of the models: the builders computed the expected results by
running the Python code on these inputs. `CellsAssumption` is the builder's own assertion
about the resume matrix.

`TraceMatching` is `trace_holds()`, the greedy scan that the reference verifier and both runners
use for an expected trace, by predicate and result. `StandInOrder` says without a scan that the
expected entries stand in the produced trace in their order. A match implies it
(`MatchIsInOrder`), on the traces the kernel returns; the converse is what the protocol
promises, and fails (`MatchIsEmbedding`, section 6). `NamedInOrder` adds what the scan really
asks, for the theorem about it.

### Vector files and the CI gate

A file is named by its set, number and slug, and holds a vector (its version and the key it
was signed with), or was left half written. The builders of the four sets differ in what they
take away before they write, and `VectorTree` says how. `ReproducibilityGate` runs them write
by write: `StartBuild`, `OpenFile` (which empties the file), `CloseFile`, `FinishBuild`, or
`RaiseKeyError` at a native vector without a file name; `WriteKey` and `WriteDocument` are
`genkeys.py`; `Kill` ends any of them between two of these steps. Removals are not steps of their
own: the enforce builder's, of the files of one number, are one step with the opening that
follows, and the resume builder's are one with its start, so that no run is killed between two
removals, nor the enforce builder between a removal and the opening. The developer edits sources
(`AddVector`, `RenameVector`, `ReviseVector`, `DropVector`), deletes files, and commits
everything or only the files git knows (`Commit`), with a count of expected vectors. `JobStep`
is the next step of the job on a checkout of the commit: `Verify` a directory, `Rebuild` it and
compare with git, or `RunVectors`, which must find the expected number. What the abstraction
keeps and drops: the five test identities are one, since `genkeys.py` makes all of them anew;
the enforce and interop verifiers need the committed key only where a DID document is
resolved; what a vector says, and whether the verdict in it is right, is the subject of
the modules of vectors; the steps of the job that do not touch the vector files (unit tests, the
integrity pin, the npm build, the explainer) are left out.

## 3. Runs

| Run | Shows | Instance and bounds |
|---|---|---|
| `native` | all native properties hold, and every native and resume vector is decided as published | a path of one to three envelopes, each valid or with one of 29 departures, at most two departures to a path (three for those that vary a cap); chains that are cut, with at most one departure besides, reversed, repeated or over-long; 7 contexts, 9 more for an envelope on its own; the 15 native vectors and 13 rows of the resume matrix |
| `native_unrooted`, `native_cap_lost` | two claims of the repository's documents that the code does not keep (section 6) | the same |
| `runner` | all runner properties hold | no vector, one of each kind, or two; 17 texts; a child, a worker and a daemon to an invocation |
| `runner_rerun_error`, `runner_held_pipe` | two claims about the runner that do not hold (section 6) | the same |
| `enforce` | all enforce properties hold, the kernel implements `Enforcement`, every enforce vector and R05 is decided as published, every record is due entry for entry, and two entries that are matched stand in their order | every sequence of two grants of 12 kinds (satisfied, not satisfied, bound to another action, typed for another, each with every disposition) and of three of the 6 matching kinds; one grant with each of 14 constraints against each of 9 transactions; 8 malformed grants, 15 transactions, mandates at and beyond every cap; the published check vectors; then, from two of these, a second record, one signature and one ratification; the ratification vectors on the records they name |
| `enforce_undigestible`, `enforce_greedy_scan` | two claims, about `ratify()` and about traces, that do not hold (section 6) | the same |
| `composition` | all composition properties hold, `compose()` with the comparison it leaves out would implement `Approval`, and the committed vectors and controls end in their rows, reasons and steps | the 6 vectors and 11 controls; the first vector with one or two of 41 departures, each under every control |
| `composition_other_action` | the claim that comparison belongs to, which does not hold (section 6) | the same |
| `gate` | what the job's verdict says of a commit, what a builder that ends has repaired, that the gate implements `Release`, and the inductive invariant behind these | two numbers and two slugs in each set, two versions; two edits, one killed tool, one new key and one commit |

Why the bounds are enough. Native: `check_link()` compares neighbours only, so whatever can go
wrong along a path needs at most a root, a mid and a leaf, with the departure and the
circumstance that lets it through; the paths of three carry two departures, and every
combination of the ways a cap may vary. Longer chains are covered by the theorems, which hold for
any length. Runner: no state but the held-back answer and abandoned processes crosses from
one vector to the next, and two vectors with a re-run on the first exercise both; one process
in the group and one out of it is every case `killpg` distinguishes. The theorems hold for
any selection of vectors. Enforce: a decision depends on which grants match, forbid and are
satisfied, and in which order; three grants show every order of a grant passed over, one that
decides and one after it. `Calls` lists the calls a history may begin with and `Followed` those
with which it goes on, so that ratification is not repeated for every mandate: it looks at
the record alone. One signature is enough for `Ratify` to be given one that was made for
another record, decision, name or key. The caps (`MAX_GRANTS` 3, `MAX_CONSTRAINTS_PER_GRANT`
2, `MAX_TYPE_FIELDS` 4, `MAX_ENUM_MEMBERS` 2, `MAX_ABS_INT` 9999) are as small as the published
vectors allow, so that the instance holds values at and beyond them. The theorems hold for any.
Composition: the function is straight-line code over one vector; two departures show which of
two failing checks is reported, and what the second leaves of the rows of the first. Gate: an
edit and the drop of another vector are what it takes for a stale file to be offset by a
missing one in the count; one killed tool leaves a half-written file, keys that do not match
their document, or a set that is partly rebuilt; a second commit starts from what the first
recorded, as the first does from its own origin. The developer waits while a job runs: a job
reads only its own checkout, so nothing is lost.

Deadlock is not checked where the system ends: `verify()`, a run of the runner, the job of the
last commit; and the caller of the kernel may stop calling.

## 4. Fairness

Only `Runner` assumes fairness: weak fairness of the runner's own steps, `Start` or its
failure, the timer, `Communicate`, `Return`. `runner.py` blocks in one call at a time and the
operating system ends that call, or the event loop of `cli.ts` delivers the event. Nothing is
assumed of the implementation, which may hang at any point; `RunEnds` holds because the timer
fires and the kill ends the group. Its premise `[]<>~Held` says that a process which left the
group does not hold a pipe for ever; without it the run may not end, which is the finding of
`runner_held_pipe`.

The other specifications are safety only: the verifiers are loops over finite lists, nobody has
to call, sign, ratify, edit or commit, and a tool may be killed at any write.

## 5. Proofs

Every theorem is for all values of the constants under the named assumptions of `Envelopes`,
`Answers`, `Mandates`, `EnforceKernel`, `CrossRun`, `Composition`, `VectorTree` and
`ReproducibilityGate` (which say no more than that the data has the shape described there: what
JSON makes an array or a number is a sequence or an integer, what is called with or supplied
exists, the files a repository may hold are finitely many, no vector is an absent or a half
written file, and the sources the history starts from name their vectors).

`NativeVerifierProofs`. The induction is over
`IInv == TypeOK /\ LeafKnown /\ WalkKnown /\ StepsKnown`. None of the
acceptance properties is inductive: at ACCEPT nothing of the path is looked at any more.
`LeafKnown` records, for each check that was passed, what it established about the presented envelope; `WalkKnown` does so for the ancestors above the loop index, `Verified`
for the first loop and `Joined` for the second. `Joined(i)` is the step that turns a comparison
of neighbours into a statement about the leaf: the actions of the leaf are a subset of node
i's, its depth is node i's plus the distance, and a cap or allowlist of node i that no
envelope below leaves out binds the action. From node i + 1 to i it follows from
`check_link()`; at node 0 it is the abstract specification's condition. `StepsKnown` is about
the number in the answer: `StepFaults` says for each of the steps 1 to 8, without the order
of the checks inside it, the reasons for which an envelope may fail it, and every step below the
one the call is at has none left (`PassesOn`, one case to each action). It says nothing once the
call has ended, where `StepIsFirstFailure` takes over, so the two are carried through the
induction together (`StepInv`).

- `TypeCorrect`, `EveryAncestorConcurs`, `CustodyUnbroken`, `DepthIsCounted`, `LimitsBind`: the
  invariants, for a chain of any length.
- `FirstFailureIsNamed`: a rejection names a step that fails for the reason given, and none
  before it fails; an acceptance passes all of 1 to 8.
- `Inductive`: the invariant itself, which the run checks too.
- `Implements`: `NativeVerifier` implements `Authorization`, whose `Authorized` speaks of the
  whole path.

`RunnerProofs`. `IInv` adds to the properties: the answer held back is a passing answer to
the current vector (`HeldBack`), a timed-out invocation has nobody left in the group
(`Killed`), a process left behind belongs to a vector that was started (`LeftBehind`),
nothing was answered ahead of the loop and the answer held back is the one the current vector
got (`Heard`), and where `main()` is (`Progress`). `FailuresDecideConformance` is the lemma underneath: the comparison
chain, with its early returns and optional members, finds nothing exactly if the protocol's
table for that kind of vector is met.

- `Invariance`, `TypeCorrect`, `TimeoutCleansUp`, and `Implements` for `Conformance`.
- `EveryPassIsEarned`: PASS exactly where invocations that ended in time with status 0 said what
  the protocol asks, and the report shows what they said.

`EnforceProofs`. A record says nothing of the grants that did not decide, so the invariant
says what the questions answered so far leave known. `StillInQuestion`: `grants` is, in turn,
all grants, those of the right type, those that are `Addressed` to the action, and in the
loop a final part of these, every one that was passed over being unsatisfied and before
every one that is left. So the first satisfied grant of the loop is the first satisfied
grant of the mandate. `FailureTraced`: once a grant was passed over, an entry of the trace
failed, which is what the DENY at the end of the loop needs. `ConstraintJudged` shows that the three evaluators
pass exactly what `Admits` says, `GrantJudged` lifts it to a grant, and there is one lemma to each action.
For `Ratify`, `FirstEntry` shows that the key used is that of the first entry of the name,
`JudgedExactly` that the three checks pass exactly if the mandate is the one the core names and
that key has signed, and `AnsweredExactly` adds the guards before them. That a genuine ratification is
never turned away is the half no invariant on answers can state, because `answers` does not keep
what `ratify()` was given: `RatifiesExactly` asks it of every call that could come next.
`QuestionStep` reduces the refinement to two kinds of step, a return, which is the abstract
decision, and a further question, which is a stutter.

- `Invariance`, `TypeCorrect`, `DecisionsAreGiven`, `TracesAccount`, `RatificationIsSigned`,
  `RatificationIsExact`: for all mandates, transactions, caps and histories.
- `Implements`: `EnforceKernel` implements `Enforcement`.

`MandateLaws` compares the records of one transaction under two mandates, of which one came from
the other by an edit. It needs no invariant of its own: `RecordSays` reads the verdicts off
`DecisionsFollowGrants`, and what is left is about two mandates.

- `NarrowingOpensNothing`: if every forbid of m is still in n and every other grant of n is one
  of m with as many or more constraints (`Narrower`), then what m denies, n denies. The proposal
  that n's verdict is m's or DENY is false: a hold whose added constraint fails gives way to the
  allow after it, so that PENDING becomes PERMIT.
- `ForbidsOnlyDeny`: if n is m with forbids put anywhere in between (`Interspersed`), the verdict
  is m's or DENY. The grants that were there keep their order, so the first satisfied one stays
  the first.
- `OrderOnlyChoosesKind`: two orders of the same grants that are decided differently are decided
  PERMIT and PENDING, and an allow and a hold are both satisfied.

All three ask that m can be judged at all: in a malformed mandate every action is denied, and
dropping the malformed grant opens it.

`RecordProofs` is about `DueRecords`, which writes the record down without the questions:
`DueRecord` is a function of the mandate, the transaction and the link. The entries of the grants that were tried are a recursive
function of the grants (`Tried`), of which `TriedExists` shows that it exists and `TriedSkips` that
it does not change where no grant is addressed; both go by the smallest counterexample, as in
`TraceProofs`. `Traced`, which is inductive together with `IInv`, says what the trace of a call
under way is at each question: in the loop, the entries up to the grant before the next one in
question.

- `RecordsDetermined`: every record is its `DueRecord` (`RecordsAreDue`), verdict, grant index, trace and digest. In
  particular the entries of a grant that was passed over stay in the digested trace, and nothing is
  left in it of an earlier call.
- `AnsweredTheSame`: no call is ever answered with two records, so that whoever has the mandate and
  the transaction can make the record again and compare the digests.

`CompositionProofs`. The induction is over `Ind == Input /\ Filled`. `IInv` says of
a row little more than whether it is positive, and `RowsAgree` needs the reasons too, of the
rows of an early return as well. `Filled` says which rows are filled at each stage and that they are those the code
computes of the vector (`LinkageRow`, `PrincipalRow`, ...), and that what is returned is one of
four outcomes: refused by the native verifier, by the proof, by the linkage, or decided. What a
row means is then a question about one vector, with no stages left in it: `ProofAccepted` says
that the proof's seventeen tests pass exactly if the token is `Authentic` and commits to the
recorded digest, `LinkageEstablished` that the comparisons of the WHAT join make the digest of
the signed envelope, the two declared ones and the payload's one, `PrincipalsAgree` and
`ReplayWellFormed` the rest. That leaves two groups of digests, these four and the token's with
its artifact's, and `compose()` has nothing that ties the one to the other. `TokenLinked` is the
comparison it leaves out, and `ApprovedIs` says that with it, and not without, the checks come to
what `Approval` asks.
`MutatedTyped` shows that every mutation of a control yields a vector again.

`OneChange` compares two compositions, so it needs what is known of the one before: `Origin`
says that the rows kept in `before` are an outcome of the committed vector, by an instance of
`CompositionOutcomes` for that vector (`Committed`), and that the vector at hand is its
mutation. What is left is that the functions behind a row do not read what the mutation changes
(`NativeAlike`, `LinkageAlike`, `PrincipalAlike` and the like).

- `TypeCorrect`, `StagesEstablish`, `FactsHold`, `RowsConsistent`, `ControlsMoveOneInput`: the
  invariants, for every fixture, set of vectors and controls, and whatever the native verifier answers.
- `ImplementsWhenLinked`: with that comparison `Composition` implements `Approval`
  (`LinkedImplementsApproval`): nothing else is missing. Each stage and each call taken up leaves the
  question open; a return, or an exception, is the one step that decides it.

`GateProofs`. The induction is over `IInv == TypeOK /\ Building /\ Judging /\ ReleasePasses`.
`Building` is about a tool that runs: of the set it builds, what is no longer to do is as it
will be left, and what had to be removed is gone. At its end this is
`FinishedBuildIsComplete`, whatever the tree was when it began, which is why a killed builder
costs nothing but another run. `Judging` is about the job: its tree is the commit's with the sets
rebuilt so far in place (`RebuiltSoFar`), a file of the commit that was verified is not half
written and its key is the document's (`VerifiedSoFar`), and where a step compared the tree with
git there was no difference. That one set's rebuild leaves the others alone, so that the steps
can be taken one at a time, is `RebuiltFile`. `CountExposesStale` then is a comparison of two
finite sets of one size, one within the other (`Counting`).

`Release` leaves the job out: `Passing` says of a commit alone whether it passes, and `Judge` says
so in one step. `Implements` maps the eight steps to it: all but the last leave the verdict open,
and what had to be shown is that a step fails only for a commit that is not `Passing`
(`PassingHolds`), and that all of them together leave nothing of `Passing` unexamined
(`PassedPassing`). The second half was not to be had from the invariant as it was: that the native
and the interop verifier refuse an empty directory is a test of the first steps, and no later
state shows it. `FoundSoFar` adds it. `ReleasePasses` then is a special case: a commit with
exactly the built files, matching keys and the right count is `Passing` (`ReleasedPassing`).

The attempt to prove `PassedIsReproducible` corrected it. It once said that the keys of a
passing commit always match their documents. With three edits, one more than the
run allows, every native and every resume vector can be gone; then no step resolves a DID
document, and keys of different runs pass. The property now asks for a vector of these two sets.

- `GateInvariant`, `GateTypeOK`, `GateReproducible`, `GateCount`, `GateReleases`, `GateFinished`:
  the invariants, for any number of vectors, names, versions, edits, kills and commits.
- `Implements`: `ReproducibilityGate` implements `Release`.
- `RebuildIdempotent`, `RebuildsCommute`: on any tree, a second rebuild changes nothing, and two
  sets may be rebuilt in either order.

`TraceProofs` is about the scan alone. `ScanIsExact`: for an expected and a produced trace of any
length, `trace_holds()` succeeds exactly if the expected entries stand in the produced trace in
turn, each the next of its predicate (`NamedInOrder`), so that the answer does not depend on how
the scan looks for them. The cursor is a recursive function of the number of entries looked at, and
the induction theorems of the library, which take the statement as an operator, cannot be
instantiated here. The proof goes by the least counterexample instead: a set of natural numbers
that is not empty has a least element (`Smallest`, from the library's `WFMin`), and the set is that
of the entries after which the statement fails. In this way `CursorsExist` shows that the
recursion defines a function at all, `CursorsClimb` that a match leaves every entry found and
the cursor ever further right, and `OthersAreNone` that wherever the entries stand in turn the
scan finds just those. `TracesMatchInOrder` in `EnforceProofs` draws from it that what is matched
in a trace the kernel returns stands there in order (`MatchIsInOrder`).

Model-checked only: `RunEnds`, which is liveness under fairness; `OnlyGapsRaise`, for which every
raising check of the nine steps would have to be carried through the induction once more; and the
agreement with the published vectors (`VectorsAgree`, `BaselineAgrees`), which is about these data
and no others.

## 6. Where the code and the documents differ

Each is a run that TLC ends with a counterexample.

- `NodeZeroIsRoot`: a delegated AAE with an empty or cut chain passes step 9; nothing asks that
  `chain[0]` is a root.
- `RequiredCapBinds`: a cap the root requires is lost once a mid envelope marks its copy
  `required: false` and the leaf leaves it out.
- `ErrorFailsTheVector`: the answer to a determinism re-run is judged by its digest alone.
- `TimeoutFailsTheVector`: after the kill the runner waits without a timeout.
- `RatifiedUnderItsMandate`: a mandate that cannot be canonicalized has the digest None, and
  `ratify()` takes two of them for the same. `RatifiedByAuthority` therefore speaks of the
  mandates that a core names: for a core that names none, RATIFIED says no more than that some
  mandate without a digest lists the authority.
- `MatchIsEmbedding`: `docs/RUNNER-PROTOCOL.md:110` and the docstring of `check_trace()` ask that
  the entries of an expected trace appear in order. The scan fails at the first entry of the
  wanted predicate that differs, although a later one may match. No published vector has a
  trace that tells the two apart.
- `ApprovedThisAction`: `interop/psea/CONFORMANCE.md:183-185` says that
  `join_what.secondary_digest` has to match `psea_payload_hash` inside the token. The code
  compares the token with the artifact's own `payload_digest` and the declared digest with the
  other side's, never the two pairs with each other, so that a token which approves another action
  is EQUIVALENT and AUTHORIZED. The same document says at 445-452 that this is how it is and meant
  to be; the two passages contradict each other.

Others were met while modelling and have no run of their own: each is one response or one member,
or a property of a passing run already says what the code does.

- An answer of the status endpoint below 500 without a "revoked" member counts as not revoked,
  where the comment at `examples/python-verify.py:172` says "if status cannot be determined, fail
  closed".
- A signed payload that lacks what step 1 reads raises, where `docs/CONFORMANCE.md:71` has the
  verifier reject it at step 2 (`OnlyGapsRaise` has this among the four causes of an exception).
- Untracked files. `CONTRIBUTING.md:30` asks that running the builder "leaves `vectors/`
  unchanged" and says that CI fails otherwise. The job asks `git diff`, which does not show a
  file git does not know: a commit that leaves out a new native, enforce or interop vector
  passes with the count that includes it, because the job's own rebuild puts the file where the
  runners find it. `PassedIsReproducible` says `Absent \/ Agrees` for this reason; for resume/
  the step asks `git status`, and the property says `<=>`.
- Stale files. A native or interop vector that is no longer built stays in the tree and passes
  every rebuild; `CountExposesStale` holds only where the expected count is the number of
  vectors that are built, and it says nothing of interop/, which the runners do not read.
- `compose()` says "every row is always present" and that the digests of the two sides are
  decoded once they are bound. A signature that is not base64, an enrolled key off its curve, a
  header that is no object and an instant that is no number raise instead (`Raise`, and EXCEPTION in `Approval`), and the two
  digests are decoded first (`LinkageFault`).

## 7. Not modelled, and the plan

Every component that keeps state has its abstract specification, shown to be implemented, and no
safety property of a run is without a theorem but those named at the end of section 5. What would
add most now is outside the modules: the core and digest of a ratification record, and the match of
field, value, bound and reason inside a trace entry.

Left out for good: what the jsonschema library checks in a file, the explainer (it prints what the
enforce verifier says), the JSON report and option parsing of the runners, and the adapters,
each of which is one behaviour of the implementation `Runner` already admits. The match of field,
value, bound and reason inside a trace entry, the wording of reasons, and key material are
abstracted as said in section 2.
