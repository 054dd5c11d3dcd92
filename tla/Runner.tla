------------------------------- MODULE Runner --------------------------------
(***************************************************************************)
(* The conformance runner (runner/python/aae_conformance/runner.py and its *)
(* twin runner/ts/src/cli.ts) beside the processes it starts.              *)
(*                                                                         *)
(* For each vector the runner starts the implementation in a process group *)
(* of its own, feeds it one request and waits until the process has ended  *)
(* AND its stdout and stderr are closed by everyone who holds them.  If    *)
(* that takes longer than the timeout it kills the process group, and      *)
(* waits on.  The implementation may print anything, end with any status,  *)
(* hang, and leave other processes behind: a worker in its process group,  *)
(* a daemon in a session of its own, each with or without the pipes.       *)
(*                                                                         *)
(* Python blocks where TypeScript handles events; the steps are the same.  *)
(* communicate() returning is the "close" event, TimeoutExpired is the     *)
(* timer, an OSError from Popen is the "error" event, after which a "close"*)
(* finds the promise settled.  What stays out: the text of messages, the   *)
(* terminal, the JSON report file, and unreadable vector files, on which   *)
(* the runner raises before it starts anything.                            *)
(***************************************************************************)
EXTENDS Answers

VARIABLES
  suite,      \* the selected vectors
  results,    \* the entries so far
  exit,       \* the exit status once main() has returned, else {}
  phase,      \* "ready" to start a process, "waiting" for one, or "ended"
  first,      \* the answer to the vector as committed, while it is sent again
  timed_out,  \* TimeoutExpired was raised, or the timer fired
  proc,       \* the processes of the current invocation
  left,       \* the processes of earlier invocations that still run
  answered    \* history: what each vector was answered with in time and with status 0, as
              \* committed (FALSE) and sent again (TRUE); no step reads it

runnerVars == <<suite, results, exit, phase, first, timed_out, answered>>
vars == <<suite, results, exit, phase, first, timed_out, proc, left, answered>>

----------------------------------------------------------------------------
\* The processes of an invocation.

Group == {"child", "worker"}            \* members of the process group of the child
Process == Group \cup {"daemon"}

NoText == [kind |-> "empty", object |-> {}]
NoProcess == [alive |-> {}, open |-> {}, stdout |-> NoText, status |-> 0]
Spawned == [NoProcess EXCEPT !.alive = {"child"}, !.open = {"child"}]

\* Without the processes of S.
Without(pr, S) == [pr EXCEPT !.alive = @ \ S, !.open = @ \ S]

\* After SIGKILL to those of S; a child it ends has a status that is not 0.
Kill(pr, S) ==
  [Without(pr, S) EXCEPT !.status = IF "child" \in pr.alive \cap S THEN 1 ELSE @]

\* What communicate() and "close" wait for.
Drained == "child" \notin proc.alive /\ proc.open = {}

vector == suite[Len(results) + 1]
Abandoned == {<<Len(results) + 1, first # {}, p>> : p \in proc.alive}

\* The history, as an invocation ends: what it printed, if it was in time and its status 0.
Answer ==
  answered' = IF ~timed_out /\ proc.status = 0
              THEN [answered EXCEPT ![Len(results) + 1][first # {}] = @ \cup proc.stdout.object]
              ELSE answered

----------------------------------------------------------------------------
\* The runner.

\* Mutant: communicate() after the kill returns what was printed, and it is judged.
Response_TooLate == IF proc.status = 0 THEN proc.stdout.object ELSE {}

\* invoke(): the response, or none where it returns an error message.
Response == IF ~timed_out /\ proc.status = 0 THEN proc.stdout.object ELSE {}

Entry(passed, error, resp, again) ==
  [status |-> IF passed THEN "PASS" ELSE "FAIL", error |-> error, response |-> resp,
   response_keys_reversed |-> again]

Record_KeepsFirst(e) ==
  /\ results' = Append(results, e)
  /\ UNCHANGED first

Record(e) ==
  /\ results' = Append(results, e)
  /\ first' = {}

\* run_vector(), once invoke() has returned: an error fails the vector, a passing
\* enforce_check vector is sent again, and everything else is compared and reported.
RunVector(resp, error) ==
  IF first = {} THEN
    IF resp = {} THEN Record(Entry(FALSE, error, {}, {}))
    ELSE \E r \in resp :
      IF Failures(vector, r) = {} /\ Rerun(vector)
      THEN first' = resp /\ UNCHANGED results
      ELSE Record(Entry(Failures(vector, r) = {}, "none", resp, {}))
  ELSE
    IF resp = {} THEN Record(Entry(FALSE, error, first, {}))
    ELSE \E r \in first, again \in resp :
      Record(Entry(RerunFailures(r, again) = {}, "none", first, resp))

\* The next vector, or the current one again.
Start ==
  /\ phase = "ready" /\ Len(results) < Len(suite)
  /\ phase' = "waiting"
  /\ proc' = Spawned
  /\ timed_out' = FALSE
  /\ UNCHANGED <<suite, results, exit, first, left, answered>>

\* "could not start the implementation"
StartFails_OneMore ==
  /\ phase = "ready" /\ Len(results) <= Len(suite)
  /\ RunVector({}, "start")
  /\ UNCHANGED <<suite, exit, phase, timed_out, proc, left, answered>>

StartFails ==
  /\ phase = "ready" /\ Len(results) < Len(suite)
  /\ RunVector({}, "start")
  /\ UNCHANGED <<suite, exit, phase, timed_out, proc, left, answered>>

\* The timeout: SIGKILL to the process group.
TimeoutExpired_ChildOnly ==
  /\ phase = "waiting" /\ ~timed_out
  /\ timed_out' = TRUE
  /\ proc' = Kill(proc, {"child"})
  /\ UNCHANGED <<suite, results, exit, phase, first, left, answered>>

TimeoutExpired_NoKill ==
  /\ phase = "waiting" /\ ~timed_out
  /\ timed_out' = TRUE
  /\ UNCHANGED <<suite, results, exit, phase, first, proc, left, answered>>

TimeoutExpired ==
  /\ phase = "waiting" /\ ~timed_out
  /\ timed_out' = TRUE
  /\ proc' = Kill(proc, Group)
  /\ UNCHANGED <<suite, results, exit, phase, first, left, answered>>

\* The process has ended and its output is complete; whoever of it still runs, runs on.
Communicate ==
  /\ phase = "waiting" /\ Drained
  /\ RunVector(Response, IF timed_out THEN "timeout"
                         ELSE IF proc.status # 0 THEN "exit" ELSE "stdout")
  /\ phase' = "ready"
  /\ left' = left \cup Abandoned
  /\ Answer
  /\ proc' = NoProcess
  /\ timed_out' = FALSE
  /\ UNCHANGED <<suite, exit>>

\* main() returns.
Return_LastOnly ==
  /\ phase = "ready" /\ Len(results) = Len(suite)
  /\ phase' = "ended"
  /\ exit' = IF suite = <<>> THEN {2}
             ELSE IF results[Len(results)].status = "PASS" THEN {0} ELSE {1}
  /\ UNCHANGED <<suite, results, first, timed_out, proc, left, answered>>

Return ==
  /\ phase = "ready" /\ Len(results) = Len(suite)
  /\ phase' = "ended"
  /\ exit' = IF suite = <<>> THEN {2}
             ELSE IF \A i \in 1..Len(results) : results[i].status = "PASS" THEN {0}
             ELSE {1}
  /\ UNCHANGED <<suite, results, first, timed_out, proc, left, answered>>

----------------------------------------------------------------------------
\* The implementation under test, and what it starts.

Env(pr) == proc' = pr /\ UNCHANGED <<runnerVars, left>>

Fork(p, keeps) ==
  /\ "child" \in proc.alive /\ p \notin proc.alive
  /\ keeps => "child" \in proc.open
  /\ Env([proc EXCEPT !.alive = @ \cup {p}, !.open = IF keeps THEN @ \cup {p} ELSE @])

Write(t) ==
  /\ proc.open # {} /\ proc.stdout = NoText
  /\ Env([proc EXCEPT !.stdout = t])

ClosePipes(p) ==
  /\ p \in proc.open
  /\ Env([proc EXCEPT !.open = @ \ {p}])

Exit(status) ==
  /\ "child" \in proc.alive
  /\ Env([Without(proc, {"child"}) EXCEPT !.status = status])

Quit(p) ==
  /\ p \in proc.alive \ {"child"}
  /\ Env(Without(proc, {p}))

QuitLater(x) ==
  /\ x \in left
  /\ left' = left \ {x}
  /\ UNCHANGED <<runnerVars, proc>>

----------------------------------------------------------------------------

Init ==
  /\ suite \in Suites
  /\ results = <<>> /\ exit = {}
  /\ phase = "ready" /\ first = {} /\ timed_out = FALSE
  /\ proc = NoProcess /\ left = {} 
  /\ answered = [i \in 1..Len(suite) |-> [again \in BOOLEAN |-> {}]]

RunnerStep == Start \/ StartFails \/ TimeoutExpired \/ Communicate \/ Return

Implementation ==
  \/ \E p \in Process \ {"child"}, keeps \in BOOLEAN : Fork(p, keeps)
  \/ \E t \in Text : Write(t)
  \/ \E p \in Process : ClosePipes(p) \/ Quit(p)
  \/ \E status \in {0, 1} : Exit(status)
  \/ \E x \in left : QuitLater(x)

Next == RunnerStep \/ Implementation

\* The runner takes its next step, its timer fires, and it notices the end of a process;
\* nothing is assumed of the implementation.
Fairness ==
  /\ WF_vars(Start \/ StartFails)
  /\ WF_vars(TimeoutExpired)
  /\ WF_vars(Communicate)
  /\ WF_vars(Return)

Spec == Init /\ [][Next]_vars /\ Fairness
=============================================================================
