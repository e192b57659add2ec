------------------------------ MODULE AgentRun ------------------------------
(***************************************************************************)
(* The agent loop of one run: runAgent (agent/orchestrator.js) as the      *)
(* queue's worker executes it, with the run's row in MongoDB, the call     *)
(* budget, the sandbox and the artifact the validator reads.               *)
(*                                                                         *)
(* One action is one awaited operation with the code up to the next one.   *)
(* A job has one attempt, but BullMQ hands it out again when the process   *)
(* that executed it died: a row can be worked on by several executions,    *)
(* one after the other.                                                    *)
(***************************************************************************)
EXTENDS Integers, Sequences

CONSTANTS
    MaxAttempts,    \* config.agent.maxAttempts
    Budgets,        \* values config.gemini.callsPerRun may have
    DemoModes,      \* values config.gemini.demoCache may have
    MaxFailures,    \* bound: database operations that throw
    MaxRestarts     \* bound: crashes of the process during an execution

ASSUME LimitsAssumption == MaxAttempts \in Nat \ {0} /\ Budgets \subseteq Nat \ {0}
ASSUME BoundsAssumption ==
    MaxFailures \in Nat /\ MaxRestarts \in Nat /\ DemoModes \subseteq BOOLEAN

VARIABLES
    demo,       \* config.gemini.demoCache
    budget,     \* config.gemini.callsPerRun
    checked,    \* whether the task has a validator
    job,        \* the BullMQ job
    row,        \* the AgentRun document
    file,       \* the artifact in the run's directory
    ex,         \* the local state of the current execution
    executions, \* history: executions started
    sent,       \* history: Gemini calls made for the run
    failures,   \* history: operations that threw
    restarts    \* history: crashes

vars == <<demo, budget, checked, job, row, file, ex, executions, sent, failures,
          restarts>>

----------------------------------------------------------------------------
(* State *)

Working == {"planning", "executing", "retrying"}
Terminal == {"succeeded", "failed", "timeout", "budget_exceeded"}

\* How the sandbox ended: "fault" when it could not run, "clean" on exit 0.
Outcomes == {"clean", "crash", "timeout", "fault"}

\* An attempt in the row; "bad" stands for its validationFailures and "of" is
\* a history field: the execution that appended it, 0 for a replayed one.
Attempt == [index : Nat, of : Nat, out : Outcomes \cup {"none"}, bad : BOOLEAN]

Row == [status : {"queued"} \cup Working \cup Terminal, attempts : Seq(Attempt),
        calls : Nat, validated : {"null", "true", "false"}, replayed : BOOLEAN]

\* The file spec.artifactName: whether it satisfies the task's assertions.
Files == {"none", "right", "wrong"}

\* "pc" is the operation runAgent awaits; "used" is the budget's counter, "out"
\* and "bad" describe the last attempt, "end" is the status to finalize with,
\* "sent" and "done" are history: calls made, and the "done" event published.
Execution ==
    [pc : {"idle", "load", "start", "cache", "replay", "plan", "generate",
           "audit", "append", "announce", "sandbox", "patch", "collect",
           "succeed", "reject", "final", "verdict", "return"},
     index : Nat, used : Nat, out : Outcomes \cup {"none"}, bad : BOOLEAN,
     end : Terminal, sent : Nat, done : BOOLEAN]

NewExecution ==
    [pc |-> "load", index |-> 1, used |-> 0, out |-> "none", bad |-> FALSE,
     end |-> "failed", sent |-> 0, done |-> FALSE]

TypeOK ==
    /\ demo \in BOOLEAN /\ budget \in Budgets /\ checked \in BOOLEAN
    /\ job \in {"waiting", "active", "completed", "failed"}
    /\ row \in Row
    /\ file \in Files
    /\ ex \in Execution
    /\ executions \in Nat /\ sent \in Nat /\ failures \in Nat /\ restarts \in Nat

Init ==
    /\ demo \in DemoModes /\ budget \in Budgets /\ checked \in BOOLEAN
    /\ job = "waiting"
    /\ row = [status |-> "queued", attempts |-> <<>>, calls |-> 0,
              validated |-> "null", replayed |-> FALSE]
    /\ file = "none"
    /\ ex = [NewExecution EXCEPT !.pc = "idle"]
    /\ executions = 0 /\ sent = 0 /\ failures = 0 /\ restarts = 0

----------------------------------------------------------------------------
(* Pieces of the loop *)

At(pc) == job = "active" /\ ex.pc = pc

\* An error leaves runAgent: the job fails for good and only a log line says so.
Escapes ==
    /\ failures < MaxFailures /\ failures' = failures + 1
    /\ job' = "failed" /\ ex' = [ex EXCEPT !.pc = "idle"]

\* An awaited write of the row, after which the execution is in state e; one
\* that throws may have been applied.
Write(r, e) ==
    \/ /\ row' = r /\ ex' = e
       /\ UNCHANGED <<job, failures>>
    \/ Escapes /\ row' \in {row, r}

Goto(pc) == [ex EXCEPT !.pc = pc]

\* finalizeFailure(status), then return.
Ending(status) == [ex EXCEPT !.pc = "final", !.end = status]

\* budget.consume().
Consume(e) ==
    IF e.used < budget THEN [e EXCEPT !.pc = "generate", !.used = @ + 1]
                       ELSE [e EXCEPT !.pc = "final", !.end = "budget_exceeded"]

\* The loop goes round; only a failure of the last attempt's own validation
\* counts for the verdict.
NextIteration == [ex EXCEPT !.pc = "plan", !.index = @ + 1, !.bad = FALSE]

\* Mutant: the run that has no budget left is not finalized.
NextAttemptSilent ==
    IF ex.index < MaxAttempts /\ ex.used < budget THEN NextIteration
    ELSE Goto("return")

\* After an attempt that failed: correct it, or end the run.
NextAttempt ==
    IF ex.index < MaxAttempts
    THEN IF ex.used < budget THEN NextIteration ELSE Ending("budget_exceeded")
    ELSE Ending(IF ex.out = "timeout" THEN "timeout" ELSE "failed")

\* patchAttempt: every attempt with the current index is set.
PatchOut(f) ==
    [row EXCEPT !.attempts =
        [i \in DOMAIN row.attempts |->
            IF row.attempts[i].index = ex.index
            THEN [row.attempts[i] EXCEPT !.out = f] ELSE row.attempts[i]]]

PatchBad ==
    [row EXCEPT !.attempts =
        [i \in DOMAIN row.attempts |->
            IF row.attempts[i].index = ex.index
            THEN [row.attempts[i] EXCEPT !.bad = TRUE] ELSE row.attempts[i]]]

----------------------------------------------------------------------------
(* runAgent *)

\* The worker takes the job; a run executed before starts from the beginning.
Take ==
    /\ job = "waiting" /\ job' = "active"
    /\ ex' = NewExecution /\ executions' = executions + 1
    /\ UNCHANGED <<demo, budget, checked, row, file, sent, failures, restarts>>

\* AgentRun.findById and AgentTask.findById.
Load ==
    /\ At("load")
    /\ \/ /\ ex' \in {Goto("start"), Ending("failed")}
          /\ UNCHANGED <<job, failures>>
       \/ Escapes
    /\ UNCHANGED <<demo, budget, checked, row, file, executions, sent, restarts>>

\* startedAt is set.
Start ==
    /\ At("start")
    /\ Write(row, Goto(IF demo THEN "cache" ELSE "plan"))
    /\ UNCHANGED <<demo, budget, checked, file, executions, sent, restarts>>

\* demoCache.replay looks for a successful live run of the task, and copies
\* its artifact, if it still has one, over the run's own.
FindCached ==
    /\ At("cache")
    /\ \/ /\ ex' = Goto("plan") /\ UNCHANGED <<file, job, failures>>
       \/ /\ ex' = Goto("replay") /\ file' \in {file, "right", "wrong"}
          /\ UNCHANGED <<job, failures>>
       \/ Escapes /\ file' = file
    /\ UNCHANGED <<demo, budget, checked, row, executions, sent, restarts>>

\* The replay replaces the attempts and the call records of the row.
Replay ==
    /\ At("replay")
    /\ Write([row EXCEPT !.status = "succeeded", !.calls = 0, !.replayed = TRUE,
                         !.attempts = <<[index |-> 1, of |-> 0, out |-> "clean",
                                         bad |-> FALSE]>>],
             [ex EXCEPT !.pc = "return", !.done = TRUE])
    /\ UNCHANGED <<demo, budget, checked, file, executions, sent, restarts>>

\* setStatus("planning" or "retrying"), then budget.consume().
Plan ==
    /\ At("plan")
    /\ Write([row EXCEPT !.status = IF ex.index = 1 THEN "planning" ELSE "retrying"],
             Consume(ex))
    /\ UNCHANGED <<demo, budget, checked, file, executions, sent, restarts>>

\* geminiClient.generate: it answers, throws after a call (truncated answer,
\* failed request), or refuses before one (daily cap).
Generate ==
    /\ At("generate")
    /\ \/ /\ ex' \in {[Goto("audit") EXCEPT !.sent = @ + 1],
                      [Ending("failed") EXCEPT !.sent = @ + 1]}
          /\ sent' = sent + 1
       \/ ex' = Ending("failed") /\ sent' = sent
    /\ UNCHANGED <<demo, budget, checked, job, row, file, executions, failures, restarts>>

\* recordGeminiCall, whose error is caught, then the answer is parsed and its
\* size looked at.
Audit ==
    /\ At("audit")
    /\ \/ /\ row' = [row EXCEPT !.calls = @ + 1] /\ failures' = failures
          /\ ex' \in {Goto("append"), Ending("failed")}
       \/ /\ failures < MaxFailures /\ failures' = failures + 1
          /\ row' \in {row, [row EXCEPT !.calls = @ + 1]}
          /\ ex' = Ending("failed")
    /\ UNCHANGED <<demo, budget, checked, job, file, executions, sent, restarts>>

\* appendAttempt.
AppendAttempt ==
    /\ At("append")
    /\ Write([row EXCEPT !.attempts =
                 Append(@, [index |-> ex.index, of |-> executions,
                            out |-> "none", bad |-> FALSE])],
             Goto("announce"))
    /\ UNCHANGED <<demo, budget, checked, file, executions, sent, restarts>>

\* setStatus("executing").
Announce ==
    /\ At("announce")
    /\ Write([row EXCEPT !.status = "executing"], Goto("sandbox"))
    /\ UNCHANGED <<demo, budget, checked, file, executions, sent, restarts>>

\* executor.execute: the program may write or remove the artifact, which is in
\* the same place for every attempt of the run, or leave the one it finds there.
Sandbox ==
    /\ At("sandbox")
    /\ \E out \in Outcomes : ex' = [Goto("patch") EXCEPT !.out = out, !.bad = FALSE]
    /\ file' \in Files
    /\ UNCHANGED <<demo, budget, checked, job, row, executions, sent, failures, restarts>>

\* patchAttempt with the result, or with the sandbox error.
Patch ==
    /\ At("patch")
    /\ Write(PatchOut(ex.out),
             IF ex.out = "fault" THEN Ending("failed")
             ELSE IF ex.out = "clean" THEN Goto("collect") ELSE NextAttempt)
    /\ UNCHANGED <<demo, budget, checked, file, executions, sent, restarts>>

\* Mutant: exit 0 is enough.
Unchecked == TRUE

\* validateArtifact: the assertions hold, or the task has none.
Passes == checked => file = "right"

\* collectAndPublish, then validateArtifact.
Collect ==
    /\ At("collect")
    /\ Write(row, IF Passes THEN Goto("succeed")
                            ELSE [Goto("reject") EXCEPT !.bad = TRUE])
    /\ UNCHANGED <<demo, budget, checked, file, executions, sent, restarts>>

\* The success is written and announced.
Succeed ==
    /\ At("succeed")
    /\ Write([row EXCEPT !.status = "succeeded",
                         !.validated = IF checked THEN "true" ELSE "null"],
             [ex EXCEPT !.pc = "return", !.done = TRUE])
    /\ UNCHANGED <<demo, budget, checked, file, executions, sent, restarts>>

\* The validation failures of a clean exit are written.
Reject ==
    /\ At("reject")
    /\ Write(PatchBad, NextAttempt)
    /\ UNCHANGED <<demo, budget, checked, file, executions, sent, restarts>>

\* The status is followed by the verdict when all attempts are spent and the
\* last one failed validation.
FinalNext(status) ==
    IF status = "failed" /\ ex.bad /\ ex.index = MaxAttempts
    THEN "verdict" ELSE "return"

\* finalizeFailure: the row, then the "status" and "done" events.
Final ==
    /\ At("final")
    /\ Write([row EXCEPT !.status = ex.end],
             [ex EXCEPT !.pc = FinalNext(ex.end), !.done = TRUE])
    /\ UNCHANGED <<demo, budget, checked, file, executions, sent, restarts>>

\* validated: false, after the "done" event.
Verdict ==
    /\ At("verdict")
    /\ Write([row EXCEPT !.validated = "false"], Goto("return"))
    /\ UNCHANGED <<demo, budget, checked, file, executions, sent, restarts>>

\* runAgent has returned and BullMQ records it.
Complete ==
    /\ At("return")
    /\ job' = "completed" /\ ex' = Goto("idle")
    /\ UNCHANGED <<demo, budget, checked, row, file, executions, sent, failures, restarts>>

\* The process dies; the stalled job is handed out again or given up.
Restart ==
    /\ job = "active" /\ restarts < MaxRestarts
    /\ restarts' = restarts + 1
    /\ job' \in {"waiting", "failed"} /\ ex' = Goto("idle")
    /\ UNCHANGED <<demo, budget, checked, row, file, executions, sent, failures>>

----------------------------------------------------------------------------
(* Specification *)

Step ==
    \/ Take \/ Load \/ Start \/ FindCached \/ Replay \/ Plan \/ Generate \/ Audit
    \/ AppendAttempt \/ Announce \/ Sandbox \/ Patch \/ Collect \/ Succeed \/ Reject
    \/ Final \/ Verdict \/ Complete

Next == Step \/ Restart

Spec == Init /\ [][Next]_vars

\* The worker takes jobs and every awaited operation answers or throws.
FairSpec == Spec /\ WF_vars(Step)

----------------------------------------------------------------------------
(* Properties *)

\* An execution makes no more Gemini calls than its budget and than it has
\* attempts, whatever fails on the way.
CallsBounded == ex.sent <= budget /\ ex.sent <= MaxAttempts

\* A job that completes leaves a terminal row and has published "done": no
\* return of runAgent forgets finalizeFailure.
CompletedIsTerminal == job = "completed" => row.status \in Terminal /\ ex.done

\* A run is recorded as succeeded only when its last attempt exited cleanly
\* and, if the task has a validator, the artifact satisfies it; "validated"
\* says which, also when the run is executed again after a crash.  (A replay
\* may overwrite the artifact of a run that has already succeeded.)
SucceededIsVerified ==
    row.status = "succeeded" /\ ~row.replayed =>
        /\ row.attempts[Len(row.attempts)].out = "clean"
        /\ row.validated = IF checked THEN "true" ELSE "null"
        /\ checked /\ ~demo => file = "right"

\* The verdict "validated: false" is given only to a run whose last allowed
\* attempt exited cleanly and failed validation, not to one that crashed, lost
\* its sandbox or could not generate after such an attempt.
VerdictIsEarned ==
    row.validated = "false" /\ executions = 1 =>
        LET last == row.attempts[Len(row.attempts)]
        IN  /\ row.status = "failed" /\ last.index = MaxAttempts
            /\ last.out = "clean" /\ last.bad

\* Within one execution a terminal status is not left again.
EndsOnce ==
    [][row.status \in Terminal /\ executions' = 1 => row'.status = row.status]_vars

\* Within one execution the attempt history only grows: no attempt goes, and
\* the outcome of a finished one does not change.
HistoryGrows ==
    [][executions' = 1 =>
        /\ Len(row.attempts) <= Len(row'.attempts)
        /\ \A i \in DOMAIN row.attempts :
              row.attempts[i].out # "none" =>
                  row'.attempts[i].out = row.attempts[i].out]_vars

\* The call records of a run that succeeded undisturbed account for every
\* Gemini call it made: a call without a record ends the run as failed.
SuccessIsAudited ==
    row.status = "succeeded" /\ ~row.replayed /\ failures = 0 /\ restarts = 0 =>
        row.calls = sent

\* Every run ends in a terminal status, across a crash of the worker, unless
\* a database operation throws or the queue gives the job up.
RunEnds == <>(row.status \in Terminal \/ failures > 0 \/ job = "failed")
============================================================================
