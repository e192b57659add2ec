----------------------------- MODULE VerifyFix -----------------------------
(***************************************************************************)
(* Verify & Fix (services/verify-fix.service.js) and the Run button        *)
(* (services/execute.service.js), on the two resources they share with the *)
(* agent runs: the model's quota (Quota) and the sandbox (Sandbox).  One   *)
(* verification v streams its progress to VerifyFixPanel, one snippet x is *)
(* run for RunCodePanel, and one agent run a calls the model meanwhile.    *)
(* The process may be killed, and boots again.                             *)
(*                                                                         *)
(* Abstraction: a program is named by the label of the container it runs   *)
(* in (the original code, or the fix of a cycle) and a test by the cycle   *)
(* that wrote it; sizes and languages the service refuses at once, and the *)
(* status events of the stream, are left out.                              *)
(***************************************************************************)
EXTENDS Quota, Sandbox

CONSTANTS v, x, a, old,  \* the three callers; a container of the process before
          MaxCycles,     \* MAX_CYCLES
          MaxLosses,    \* bound: kills of the process, lost streams
          MaxPressed,    \* bound: buttons pressed
          MaxMishaps     \* bound: losses, sandbox faults and agent calls together

ASSUME VerifyAssumption ==
  /\ v \in Runners \cap Callers /\ x \in Runners /\ a \in Callers
  /\ MaxCycles \in Nat \ {0} /\ MaxLosses \in Nat
  /\ MaxPressed \in Nat /\ MaxMishaps \in Nat

VARIABLES
  session,      \* the verification: its step, cycle, test, and outcome
  tested,       \* tested[l]: the test that label l's program ran (history)
  panel,        \* panel[p], p in {v, x}: what the browser shows
  losses,      \* kills and lost streams so far (bound)
  agentCalls        \* model calls of the agent run so far (bound)

vars == <<quotaVars, sandboxVars, session, tested, panel, losses, agentCalls>>

Cycle == 1..MaxCycles
Original == <<v, 0>>
Fix(n) == <<v, n>>
Snippet == <<x, 0>>
VerifyLabels == {Original, Snippet, old} \cup {Fix(n) : n \in Cycle}

(* The callers are three, and the old container has a label of its own. *)
ASSUME LabelAssumption ==
  /\ v # x /\ v # a
  /\ VerifyLabels \subseteq Labels
  /\ old \notin {Original, Snippet} \cup {Fix(n) : n \in Cycle}

Outcome == {"none", "no_bug_proven", "fixed", "bug_proven_not_fixed", "error"}

TypeOK ==
  /\ QuotaTypeOK /\ SandboxTypeOK
  /\ session \in [step : {"idle", "asking", "proving", "fixing", "over"},
                  cycle : 0..MaxCycles, test : 0..MaxCycles, outcome : Outcome]
  /\ tested \in [Labels -> 0..MaxCycles]
  /\ panel \in [{v, x} -> {"idle", "busy", "result", "error"}]
  /\ losses \in 0..MaxLosses /\ agentCalls \in 0..MaxMishaps

Init ==
  /\ QuotaInit /\ SandboxInit({old})
  /\ session = [step |-> "idle", cycle |-> 0, test |-> 0, outcome |-> "none"]
  /\ tested = [l \in Labels |-> 0]
  /\ panel = [p \in {v, x} |-> "idle"]
  /\ losses = 0 /\ agentCalls = 0

-----------------------------------------------------------------------------
MayPress == Cardinality({p \in {v, x} : panel[p] # "idle"}) < MaxPressed

(* The user presses Verify & Fix; the service enters its first cycle: one  *)
(* unit of the run's budget, and a call of the model.                      *)
Press ==
  /\ panel[v] = "idle" /\ MayPress
  /\ panel' = [panel EXCEPT ![v] = "busy"]
  /\ session' = [session EXCEPT !.step = "asking", !.cycle = 1]
  /\ Generate(v)
  /\ UNCHANGED <<grants, daily, memory, errors, admitted,
                 sandboxVars, tested, losses, agentCalls>>

(* The controller's answer, if the stream is still open. *)
Ends(outcome) ==
  /\ session' = [session EXCEPT !.step = "over", !.outcome = outcome]
  /\ panel' = [panel EXCEPT ![v] =
       IF @ # "busy" THEN @ ELSE IF outcome = "error" THEN "error" ELSE "result"]

(* The program of label l is run with test t. *)
RunWithTest(l, t) == Execute(v, l) /\ tested' = [tested EXCEPT ![l] = t]

(* A bug: each answer's test replaces the one the proof was made with. *)
TestOfLatest(cycle) == cycle

(* The test is the one of cycle 1 in every cycle: it is the specification. *)
TestOf(cycle) == IF cycle = 1 THEN 1 ELSE session.test

(* The model answers with a bug, a test and a fix.  In cycle 1 the test    *)
(* runs on the original, later on the fix.                                 *)
Answered ==
  /\ session.step = "asking" /\ At(v, "ok")
  /\ LET first == session.cycle = 1
         t == TestOf(session.cycle)
     IN  /\ session' = [session EXCEPT
                          !.step = IF first THEN "proving" ELSE "fixing",
                          !.test = t]
         /\ RunWithTest(IF first THEN Original ELSE Fix(session.cycle), t)
  /\ UNCHANGED <<quotaVars, alive, status, reaper, doomed, stuck, faults,
                 panel, losses, agentCalls>>

(* The call is refused or fails, or the answer has no TEST or no FIX. *)
AskFails ==
  /\ session.step = "asking" /\ call[v].step \in {"ok", "refused", "error"}
  /\ Ends("error")
  /\ UNCHANGED <<quotaVars, sandboxVars, tested, losses, agentCalls>>

(* Exit code 0 and not timed out. *)
Passed(r) == exec[r].answer = "pass"

(* The test ran on the original.  If it passed there is no bug; otherwise  *)
(* -- it failed, was killed, or ran out of time -- the bug counts as       *)
(* proven, and the fix runs.                                               *)
Proven ==
  /\ session.step = "proving" /\ Doing(v, "done") /\ exec[v].answer # "threw"
  /\ IF Passed(v)
       THEN Ends("no_bug_proven") /\ UNCHANGED <<exec, tested>>
       ELSE /\ RunWithTest(Fix(1), session.test)
            /\ session' = [session EXCEPT !.step = "fixing"]
            /\ UNCHANGED panel
  /\ UNCHANGED <<quotaVars, alive, status, reaper, doomed, stuck, faults,
                 losses, agentCalls>>

(* The same test ran on the fix: done, or one more cycle, or none left.    *)
Fixed ==
  /\ session.step = "fixing" /\ Doing(v, "done") /\ exec[v].answer # "threw"
  /\ IF Passed(v) THEN Ends("fixed") /\ UNCHANGED <<call, tail>>
     ELSE IF session.cycle = MaxCycles
       THEN Ends("bug_proven_not_fixed") /\ UNCHANGED <<call, tail>>
       ELSE /\ session' = [session EXCEPT !.step = "asking", !.cycle = @ + 1]
            /\ Generate(v)
            /\ UNCHANGED panel
  /\ UNCHANGED <<grants, daily, memory, errors, admitted,
                 sandboxVars, tested, losses, agentCalls>>

(* The sandbox threw: the controller answers with an error event. *)
RunThrows ==
  /\ session.step \in {"proving", "fixing"}
  /\ Doing(v, "done") /\ exec[v].answer = "threw"
  /\ Ends("error")
  /\ UNCHANGED <<quotaVars, sandboxVars, tested, losses, agentCalls>>

Loss == losses < MaxLosses /\ losses' = losses + 1

(* The browser loses the stream.  The service does not notice: it goes on, *)
(* and writes to nobody.                                                   *)
StreamLost ==
  /\ panel[v] = "busy" /\ Loss
  /\ panel' = [panel EXCEPT ![v] = "error"]
  /\ UNCHANGED <<quotaVars, sandboxVars, session, tested, agentCalls>>

VerifyStep == Answered \/ AskFails \/ Proven \/ Fixed \/ RunThrows

-----------------------------------------------------------------------------
(* The Run button: one execution, answered in the same request. *)
RunSnippet ==
  /\ panel[x] = "idle" /\ MayPress
  /\ panel' = [panel EXCEPT ![x] = "busy"]
  /\ Execute(x, Snippet)
  /\ UNCHANGED <<quotaVars, alive, status, reaper, doomed, stuck, faults,
                 session, tested, losses, agentCalls>>

SnippetAnswered ==
  /\ panel[x] = "busy" /\ Doing(x, "done")
  /\ panel' = [panel EXCEPT ![x] =
                 IF exec[x].answer = "threw" THEN "error" ELSE "result"]
  /\ UNCHANGED <<quotaVars, sandboxVars, session, tested, losses, agentCalls>>

(* An agent run of the same process calls the model. *)
AgentCalls ==
  /\ At(a, "idle") /\ agentCalls' = agentCalls + 1
  /\ Generate(a)
  /\ UNCHANGED <<grants, daily, memory, errors, admitted,
                 sandboxVars, session, tested, panel, losses>>

-----------------------------------------------------------------------------
QuotaMoves ==
  /\ \E c \in Callers : QuotaStep(c)
  /\ UNCHANGED <<sandboxVars, session, tested, panel, losses, agentCalls>>

SandboxMoves ==
  /\ \/ \E r \in Runners : SandboxStep(r)
     \/ \E l \in Labels : ProgramEnds(l)
     \/ Reaps
  /\ UNCHANGED <<quotaVars, session, tested, panel, losses, agentCalls>>

(* The process is killed: both requests end in the browsers as lost        *)
(* connections, and nobody resumes the verification.                       *)
Crash ==
  /\ Loss
  /\ QuotaCrash /\ SandboxCrash
  /\ session' = [session EXCEPT
       !.step = IF @ = "idle" THEN @ ELSE "over",
       !.outcome = IF session.step \in {"idle", "over"} THEN @ ELSE "error"]
  /\ panel' = [p \in {v, x} |-> IF panel[p] = "busy" THEN "error" ELSE panel[p]]
  /\ UNCHANGED <<tested, agentCalls>>

Next ==
  /\ \/ Press \/ VerifyStep \/ StreamLost
     \/ RunSnippet \/ SnippetAnswered \/ AgentCalls
     \/ QuotaMoves \/ SandboxMoves \/ Crash
  /\ losses' + faults' + agentCalls' <= MaxMishaps

Spec == Init /\ [][Next]_vars

(* What is promised runs: the service and the controller continue, Redis   *)
(* and the model answer each command and request, the minute passes, and   *)
(* Docker answers create, attach, start and remove.  Nothing makes a       *)
(* program end; the timers of the executor do fire.                        *)
Quietly(A) == A /\ UNCHANGED <<sandboxVars, session, tested, panel, losses, agentCalls>>
Boxed(A) == A /\ UNCHANGED <<quotaVars, session, tested, panel, losses, agentCalls>>

Fairness ==
  /\ WF_vars(VerifyStep) /\ WF_vars(SnippetAnswered)
  /\ \A c \in Callers : WF_vars(Quietly(QuotaStep(c)))
  /\ \A r \in Runners : WF_vars(Boxed(SandboxStep(r)))

FairSpec == Spec /\ Fairness

-----------------------------------------------------------------------------
(* A fix is reported as verified only if the container of that fix exited  *)
(* 0 with the very test that the original had been run with, and the       *)
(* original had not passed it in time.                                     *)
FixedIsProven ==
  session.outcome = "fixed" =>
    LET fix == Fix(session.cycle) IN
    /\ status[fix] = "pass"
    /\ tested[fix] = tested[Original] /\ tested[fix] = session.test
    /\ status[Original] \in {"fail", "late"}

(* However the callers interleave, and across restarts of the process, the *)
(* day's counter lets Cap calls through and no more; and none is refused   *)
(* before the counter that answered it has reached the cap, where a failed *)
(* command may have cost one call (an EXPIRE that fails has counted the    *)
(* call in Redis and sends it to the memory counter too).                  *)
WithinDailyCap ==
  /\ admitted <= Cap
  /\ (\E c \in Callers : At(c, "refused")) =>
        admitted + errors >= Cap \/ memory = Cap

(* Once the reaper of a process is through, every sandbox container is in  *)
(* the hands of an execution of this process, or this process has tried to *)
(* remove it and Docker refused: nothing is leaked by an error path, a     *)
(* timeout or the death of the process before.                             *)
ContainersAreOwned ==
  reaper = "done" =>
    \A l \in alive \ stuck :
      \E r \in Runners : Box(r) = l /\ ~Doing(r, "done")

(* The two things verifications, snippets and agents share are accounted   *)
(* for: the calls of the day and the containers.                           *)
ResourcesAccountedFor == WithinDailyCap /\ ContainersAreOwned

(* The panels are answered: whatever the program, Docker, Redis and the    *)
(* model do, a verification or a snippet that is running stops running.    *)
PanelsAnswered == \A p \in {v, x} : panel[p] = "busy" ~> panel[p] # "busy"

=============================================================================
