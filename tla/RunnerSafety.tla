---------------------------- MODULE RunnerSafety -----------------------------
(***************************************************************************)
(* What the runner is checked and proved to guarantee whatever the         *)
(* implementation does, the inductive invariant behind it, and what        *)
(* docs/RUNNER-PROTOCOL.md says of the runner that does not hold.          *)
(***************************************************************************)
EXTENDS Runner

C == INSTANCE Conformance

EntryType ==
  [status : {"PASS", "FAIL"}, error : {"none", "start", "timeout", "exit", "stdout"},
   response : Optional, response_keys_reversed : Optional]

ProcType ==
  [alive : SUBSET Process, open : SUBSET Process, stdout : Text \cup {NoText}, status : {0, 1}]

\* The shape of the report and of the processes, and the answer that is held back while
\* its vector is sent again.
TypeOK ==
  /\ suite \in Suites
  /\ results \in Seq(EntryType) /\ Len(results) \in 0..Len(suite)
  /\ exit \in {{}, {0}, {1}, {2}}
  /\ phase \in {"ready", "waiting", "ended"}
  /\ first \in Optional /\ timed_out \in BOOLEAN
  /\ proc \in ProcType
  /\ left \subseteq (1..Len(suite)) \X BOOLEAN \X Process
  /\ answered \in [1..Len(suite) -> [BOOLEAN -> Optional]]

\* A vector reads PASS exactly if an invocation that ended in time, with status 0, printed
\* an answer that conforms, and for an enforce_check vector a second one, asked with the keys
\* reversed, the expected digest; and the report shows what those invocations printed.  What
\* a timed-out or failing process printed counts for nothing, whenever it ended, and no
\* conforming answer is held against the implementation.
PassIsEarned ==
  \A i \in 1..Len(results) :
    LET said == answered[i][FALSE]
        again == answered[i][TRUE]
    IN  /\ results[i].response = said /\ results[i].response_keys_reversed = again
        /\ results[i].status = "PASS" <=> C!Earned(suite[i], said, again)

\* Nothing that stayed in the process group of a timed-out invocation runs on beside the
\* vectors that follow it.
TimeoutLeavesNone ==
  \A x \in left :
    LET e == results[x[1]]
    IN  x[1] <= Len(results) /\ e.error = "timeout" /\ (x[2] <=> e.response # {})
          => x[3] \notin Group

\* The runner implements Conformance: one verdict per selected vector, in order and never
\* taken back, and an exit status that tells whether all of them passed.
ImplementsConformance == C!Spec

\* Someone who left the process group of the implementation holds its stdout or stderr.
Held == "daemon" \in proc.open

\* The run ends, whatever hangs, unless a process outside the group holds the pipes for
\* ever.
RunEnds == []<>~Held => <>(exit # {})

----------------------------------------------------------------------------
\* The inductive invariant.

\* What was answered before the vector is sent again had passed.
HeldBack ==
  first # {} =>
    /\ Len(results) < Len(suite) /\ Rerun(vector)
    /\ \A r \in first : Failures(vector, r) = {}

\* main() waits only for a vector it selected, and returns once all are judged.
Progress ==
  /\ phase = "waiting" => Len(results) < Len(suite)
  /\ phase = "ended" <=> exit # {}
  /\ phase = "ended" => Len(results) = Len(suite)

\* Beyond the timeout nothing of the process group is left.
Killed ==
  /\ timed_out => phase = "waiting" /\ proc.alive \cap Group = {}
  /\ phase # "waiting" => proc = NoProcess

\* Who was left behind belongs to a vector that was started.
LeftBehind ==
  \A x \in left : x[1] <= Len(results) \/ (x[1] = Len(results) + 1 /\ ~x[2] /\ first # {})

\* The answer held back is what the current vector was answered with, and nothing was
\* answered ahead of the loop.
Heard ==
  \A i \in 1..Len(suite) :
    i > Len(results) =>
      answered[i] = [again \in BOOLEAN |-> IF i = Len(results) + 1 /\ ~again THEN first ELSE {}]

IInv ==
  /\ TypeOK /\ PassIsEarned /\ TimeoutLeavesNone
  /\ HeldBack /\ Heard /\ Progress /\ Killed /\ LeftBehind

----------------------------------------------------------------------------
\* Said of the runner, and not so.

\* docs/RUNNER-PROTOCOL.md: "A response with a non-null `error` member means the
\* implementation could not answer and fails the vector, whatever else it contains."
ErrorFailsTheVector ==
  \A i \in 1..Len(results) :
    results[i].status = "PASS" =>
      \A r \in results[i].response \cup results[i].response_keys_reversed :
        Get(r, "error") = Null

\* docs/RUNNER-PROTOCOL.md: "On timeout the runner kills the process (on POSIX the whole
\* process group) and fails the vector."
TimeoutFailsTheVector == timed_out ~> ~timed_out
=============================================================================
