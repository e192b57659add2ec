--------------------------- MODULE AgentRunProofs ---------------------------
(***************************************************************************)
(* Theorems about AgentRun, for every number of attempts, budget, failure  *)
(* and crash: what the statuses, the attempts and the verdict of a run say.*)
(* And about RunPage, for every number of lost and failed requests and     *)
(* unread frames: what the page of a run shows.                            *)
(***************************************************************************)
EXTENDS RunPage, SequenceTheorems, WellFoundedInduction, TLAPS

(* ----------------------------- Type correctness ------------------------- *)

\* A database write of the loop, applied or throwing, keeps the types.
LEMMA WriteType ==
    ASSUME TypeOK, NEW r \in Row, NEW e \in Execution, Write(r, e)
    PROVE  /\ row' \in Row /\ ex' \in Execution /\ failures' \in Nat
           /\ job' \in {"waiting", "active", "completed", "failed"}
<1>1. CASE row' = r /\ ex' = e /\ UNCHANGED <<job, failures>>
  BY <1>1 DEF TypeOK
<1>2. CASE Escapes /\ row' \in {row, r}
  BY <1>2 DEF TypeOK, Escapes, Execution
<1>3. QED  BY <1>1, <1>2 DEF Write

\* So does moving on to the next await,
LEMMA GotoType ==
    ASSUME TypeOK, NEW pc \in {"idle", "load", "start", "cache", "replay", "plan",
                               "generate", "audit", "append", "announce", "sandbox",
                               "patch", "collect", "succeed", "reject", "final",
                               "verdict", "return"}
    PROVE  Goto(pc) \in Execution
BY DEF TypeOK, Goto, Execution

\* ... recording a terminal status,
LEMMA EndingType ==
    ASSUME TypeOK, NEW status \in Terminal
    PROVE  Ending(status) \in Execution
BY DEF TypeOK, Ending, Execution

\* ... counting attempts and calls,
LEMMA CounterType ==
    ASSUME TypeOK
    PROVE  /\ ex.index \in Nat /\ ex.index + 1 \in Nat
           /\ ex.used \in Nat /\ ex.used + 1 \in Nat
           /\ ex.sent \in Nat /\ ex.sent + 1 \in Nat
           /\ budget \in Nat \ {0}
BY LimitsAssumption DEF TypeOK, Execution

\* ... charging a call to the budget,
LEMMA ConsumeType == TypeOK => Consume(ex) \in Execution
BY CounterType DEF TypeOK, Consume, Execution, Terminal

\* ... starting another round or giving up,
LEMMA NextAttemptType == TypeOK => NextAttempt \in Execution
<1> SUFFICES ASSUME TypeOK PROVE NextAttempt \in Execution
  OBVIOUS
<1>1. NextIteration \in Execution
  BY CounterType DEF TypeOK, NextIteration, Execution
<1>2. \A status \in Terminal : Ending(status) \in Execution
  BY EndingType
<1>3. QED  BY <1>1, <1>2 DEF NextAttempt, Terminal

\* ... and patching the attempts that have an index.
LEMMA PatchType ==
    ASSUME TypeOK
    PROVE  /\ \A f \in Outcomes \cup {"none"} : PatchOut(f) \in Row
           /\ PatchBad \in Row
<1>1. ASSUME NEW a \in Seq(Attempt), NEW b, b = [i \in DOMAIN a |-> b[i]],
             \A i \in DOMAIN a : b[i] \in Attempt
      PROVE  [row EXCEPT !.attempts = b] \in Row
  <2>1. b \in Seq(Attempt)
    BY <1>1
  <2>2. QED  BY <2>1 DEF TypeOK, Row
<1>2. row.attempts \in Seq(Attempt) /\ \A i \in DOMAIN row.attempts : row.attempts[i] \in Attempt
  BY DEF TypeOK, Row
<1>3. ASSUME NEW f \in Outcomes \cup {"none"} PROVE PatchOut(f) \in Row
  <2>1. \A i \in DOMAIN row.attempts :
           [row.attempts[i] EXCEPT !.out = f] \in Attempt /\ row.attempts[i] \in Attempt
    BY <1>2, <1>3 DEF Attempt
  <2>2. QED  BY <1>1, <1>2, <2>1 DEF PatchOut
<1>4. PatchBad \in Row
  <2>1. \A i \in DOMAIN row.attempts :
           [row.attempts[i] EXCEPT !.bad = TRUE] \in Attempt /\ row.attempts[i] \in Attempt
    BY <1>2 DEF Attempt
  <2>2. QED  BY <1>1, <1>2, <2>1 DEF PatchBad
<1>5. QED  BY <1>3, <1>4

\* A run just created is well typed.
LEMMA TypeInit == Init => TypeOK
<1> SUFFICES ASSUME Init PROVE TypeOK
  OBVIOUS
<1>1. ex \in Execution
  BY DEF Init, NewExecution, Execution, Terminal
<1>2. row \in Row
  BY DEF Init, Row
<1>3. QED  BY <1>1, <1>2, BoundsAssumption DEF Init, TypeOK, Files

\* The steps of runAgent that write the row keep the types.
LEMMA WriteStepType ==
    ASSUME TypeOK, NEW r \in Row, NEW e \in Execution, Write(r, e),
           UNCHANGED <<demo, budget, checked, file, executions, sent, restarts>>
    PROVE  TypeOK'
BY WriteType DEF TypeOK

\* Every step of the worker and of runAgent keeps the types.
LEMMA TypeStep == TypeOK /\ [Next]_vars => TypeOK'
<1> SUFFICES ASSUME TypeOK, [Next]_vars PROVE TypeOK'
  OBVIOUS
<1> USE DEF At
<1>1. CASE Take
  <2>1. NewExecution \in Execution
    BY DEF NewExecution, Execution, Terminal
  <2>2. QED  BY <1>1, <2>1 DEF Take, TypeOK
<1>2. CASE Load
  <2>1. Goto("start") \in Execution /\ Ending("failed") \in Execution
    BY GotoType, EndingType DEF Terminal
  <2>2. Escapes => /\ ex' \in Execution /\ failures' \in Nat /\ job' = "failed"
    BY GotoType DEF Escapes, TypeOK, Goto
  <2>3. QED  BY <1>2, <2>1, <2>2 DEF Load, TypeOK
<1>3. CASE Start
  BY <1>3, GotoType, WriteStepType DEF Start, TypeOK
<1>4. CASE FindCached
  <2>1. Goto("plan") \in Execution /\ Goto("replay") \in Execution
    BY GotoType
  <2>2. Escapes => /\ ex' \in Execution /\ failures' \in Nat /\ job' = "failed"
    BY GotoType DEF Escapes, TypeOK, Goto
  <2>3. QED  BY <1>4, <2>1, <2>2 DEF FindCached, Files, TypeOK
<1>5. CASE Replay
  <2> DEFINE r == [row EXCEPT !.status = "succeeded", !.calls = 0, !.replayed = TRUE,
                         !.attempts = <<[index |-> 1, of |-> 0, out |-> "clean",
                                         bad |-> FALSE]>>]
             e == [ex EXCEPT !.pc = "return", !.done = TRUE]
  <2>1. <<[index |-> 1, of |-> 0, out |-> "clean", bad |-> FALSE]>> \in Seq(Attempt)
    BY DEF Attempt, Outcomes
  <2>2. r \in Row
    BY <2>1 DEF TypeOK, Row, Terminal
  <2>3. e \in Execution
    BY DEF TypeOK, Execution
  <2>4. QED  BY <1>5, <2>2, <2>3, WriteStepType DEF Replay
<1>6. CASE Plan
  <2>1. \A st \in Working : [row EXCEPT !.status = st] \in Row
    BY DEF TypeOK, Row
  <2>2. QED  BY <1>6, <2>1, ConsumeType, WriteStepType DEF Plan, Working
<1>7. CASE Generate
  <2>1. /\ Ending("failed") \in Execution
        /\ [Goto("audit") EXCEPT !.sent = @ + 1] \in Execution
        /\ [Ending("failed") EXCEPT !.sent = @ + 1] \in Execution
    BY GotoType, EndingType DEF Terminal, Execution
  <2>2. sent' \in Nat
    BY <1>7 DEF Generate, TypeOK
  <2>3. QED  BY <1>7, <2>1, <2>2 DEF Generate, TypeOK
<1>8. CASE Audit
  <2>1. [row EXCEPT !.calls = @ + 1] \in Row
    BY DEF TypeOK, Row
  <2>2. Goto("append") \in Execution /\ Ending("failed") \in Execution
    BY GotoType, EndingType DEF Terminal
  <2>3. QED  BY <1>8, <2>1, <2>2 DEF Audit, TypeOK
<1>9. CASE AppendAttempt
  <2> DEFINE a == [index |-> ex.index, of |-> executions, out |-> "none", bad |-> FALSE]
  <2>1. a \in Attempt
    BY CounterType DEF TypeOK, Attempt
  <2>2. Append(row.attempts, a) \in Seq(Attempt)
    BY <2>1 DEF TypeOK, Row
  <2>3. [row EXCEPT !.attempts = Append(@, a)] \in Row
    BY <2>2 DEF TypeOK, Row
  <2>4. QED  BY <1>9, <2>3, GotoType, WriteStepType DEF AppendAttempt
<1>10. CASE Announce
  <2>1. [row EXCEPT !.status = "executing"] \in Row
    BY DEF TypeOK, Row, Working
  <2>2. QED  BY <1>10, <2>1, GotoType, WriteStepType DEF Announce
<1>11. CASE Sandbox
  <2>1. ASSUME NEW out \in Outcomes
        PROVE  [Goto("patch") EXCEPT !.out = out, !.bad = FALSE] \in Execution
    <3>1. Goto("patch") \in Execution
      BY GotoType
    <3>2. [Goto("patch") EXCEPT !.out = out] \in Execution
      BY <3>1 DEF Execution
    <3>3. QED  BY <3>2 DEF Execution
  <2>2. file' \in Files
    BY <1>11 DEF Sandbox, TypeOK
  <2>3. QED  BY <1>11, <2>1, <2>2 DEF Sandbox, TypeOK
<1>12. CASE Patch
  <2>1. PatchOut(ex.out) \in Row
    BY PatchType DEF TypeOK, Execution
  <2>2. Goto("collect") \in Execution /\ Ending("failed") \in Execution
    BY GotoType, EndingType DEF Terminal
  <2>3. QED  BY <1>12, <2>1, <2>2, NextAttemptType, WriteStepType DEF Patch
<1>13. CASE Collect
  <2>1. Goto("succeed") \in Execution /\ [Goto("reject") EXCEPT !.bad = TRUE] \in Execution
    BY GotoType DEF Execution
  <2>2. QED  BY <1>13, <2>1, WriteStepType DEF Collect, TypeOK
<1>14. CASE Succeed
  <2> DEFINE r == [row EXCEPT !.status = "succeeded",
                              !.validated = IF checked THEN "true" ELSE "null"]
  <2>1. r \in Row /\ [ex EXCEPT !.pc = "return", !.done = TRUE] \in Execution
    BY DEF TypeOK, Row, Terminal, Execution
  <2>2. QED  BY <1>14, <2>1, WriteStepType DEF Succeed
<1>15. CASE Reject
  BY <1>15, PatchType, NextAttemptType, WriteStepType DEF Reject
<1>16. CASE Final
  <2>1. [row EXCEPT !.status = ex.end] \in Row
    BY DEF TypeOK, Row, Execution
  <2>2. [ex EXCEPT !.pc = FinalNext(ex.end), !.done = TRUE] \in Execution
    BY DEF TypeOK, FinalNext, Execution
  <2>3. QED  BY <1>16, <2>1, <2>2, WriteStepType DEF Final
<1>17. CASE Verdict
  <2>1. [row EXCEPT !.validated = "false"] \in Row
    BY DEF TypeOK, Row
  <2>2. QED  BY <1>17, <2>1, GotoType, WriteStepType DEF Verdict
<1>18. CASE Complete
  BY <1>18, GotoType DEF Complete, TypeOK
<1>19. CASE Restart
  BY <1>19, GotoType DEF Restart, TypeOK
<1>20. CASE UNCHANGED vars
  BY <1>20 DEF vars, TypeOK
<1>21. QED
  BY <1>1, <1>2, <1>3, <1>4, <1>5, <1>6, <1>7, <1>8, <1>9, <1>10, <1>11, <1>12,
     <1>13, <1>14, <1>15, <1>16, <1>17, <1>18, <1>19, <1>20 DEF Next, Step

\* Every reachable state is well typed (the shape of the row and of runAgent's
\* local state).
THEOREM TypeCorrect == Spec => []TypeOK
<1>1. QED  BY TypeInit, TypeStep, PTL DEF Spec

(* ------------------------------ The call bound -------------------------- *)

\* Before the call of an attempt, fewer calls have been consumed than attempts
\* begun; a call in preparation has been consumed but not sent.
BeforeCall == {"load", "start", "cache", "replay", "plan"}

CallsInv ==
    /\ ex.used <= budget /\ ex.sent <= ex.used
    /\ ex.used <= ex.index /\ ex.index <= MaxAttempts
    /\ ex.pc \in BeforeCall => ex.used < ex.index
    /\ ex.pc = "generate" => ex.sent < ex.used

\* The local states a write is followed by.
LEMMA WriteEx ==
    ASSUME NEW r, NEW e, Write(r, e)
    PROVE  \/ ex' = e /\ row' = r /\ job' = job
           \/ ex' = Goto("idle") /\ row' \in {row, r} /\ job' = "failed"
BY DEF Write, Escapes, Goto

\* Another round keeps the calls below the budget and the attempts.
LEMMA NextAttemptCalls ==
    ASSUME TypeOK, CallsInv
    PROVE  /\ NextAttempt.used = ex.used /\ NextAttempt.sent = ex.sent
           /\ \/ /\ NextAttempt.pc = "plan" /\ NextAttempt.index = ex.index + 1
                 /\ ex.index < MaxAttempts
              \/ NextAttempt.pc = "final" /\ NextAttempt.index = ex.index
BY DEF NextAttempt, NextIteration, Ending, TypeOK, Execution

\* Every step keeps the calls made in step with what was charged.
LEMMA CallsStep == TypeOK /\ CallsInv /\ [Next]_vars => CallsInv'
<1> SUFFICES ASSUME TypeOK, CallsInv, [Next]_vars PROVE CallsInv'
  OBVIOUS
<1> USE CounterType, LimitsAssumption DEF CallsInv, BeforeCall, At
<1>0. ASSUME budget' = budget, ex'.used = ex.used, ex'.sent = ex.sent,
             ex'.index = ex.index, ex'.pc \notin {"generate"},
             ex'.pc \in BeforeCall => ex.pc \in BeforeCall
      PROVE  CallsInv'
  BY <1>0
<1>00. ASSUME NEW pc
       PROVE  /\ Goto(pc).used = ex.used /\ Goto(pc).sent = ex.sent
              /\ Goto(pc).index = ex.index /\ Goto(pc).pc = pc
              /\ Ending(pc).used = ex.used /\ Ending(pc).sent = ex.sent
              /\ Ending(pc).index = ex.index /\ Ending(pc).pc = "final"
  BY DEF Goto, Ending, TypeOK, Execution
<1>1. CASE Take
  BY <1>1 DEF Take, NewExecution
<1>2. CASE Load
  <2>1. ex' \in {Goto("start"), Ending("failed"), Goto("idle")}
    BY <1>2 DEF Load, Escapes, Goto
  <2>2. QED  BY <1>0, <1>00, <1>2, <2>1 DEF Load
<1>3. CASE Start
  BY <1>0, <1>00, <1>3, WriteEx DEF Start
<1>4. CASE FindCached
  <2>1. ex' \in {Goto("plan"), Goto("replay"), Goto("idle")}
    BY <1>4 DEF FindCached, Escapes, Goto
  <2>2. QED  BY <1>0, <1>00, <1>4, <2>1 DEF FindCached
<1>5. CASE Replay
  <2>1. ex' = [ex EXCEPT !.pc = "return", !.done = TRUE] \/ ex' = Goto("idle")
    BY <1>5, WriteEx DEF Replay
  <2>2. /\ ex'.used = ex.used /\ ex'.sent = ex.sent /\ ex'.index = ex.index
        /\ ex'.pc \in {"return", "idle"}
    BY <2>1 DEF Goto, TypeOK, Execution
  <2>3. QED  BY <1>0, <1>5, <2>2 DEF Replay
<1>6. CASE Plan
  <2>1. ex' = Consume(ex) \/ ex' = Goto("idle")
    BY <1>6, WriteEx DEF Plan
  <2>2. CASE ex' = Consume(ex) /\ ex.used < budget
    <3>1. /\ ex'.used = ex.used + 1 /\ ex'.sent = ex.sent /\ ex'.index = ex.index
          /\ ex'.pc = "generate"
      BY <2>2 DEF Consume, TypeOK, Execution
    <3>2. QED  BY <1>6, <2>2, <3>1 DEF Plan
  <2>3. CASE ex' = Consume(ex) /\ ~(ex.used < budget)
    <3>1. /\ ex'.used = ex.used /\ ex'.sent = ex.sent /\ ex'.index = ex.index
          /\ ex'.pc = "final"
      BY <2>3 DEF Consume, TypeOK, Execution
    <3>2. QED  BY <1>6, <1>0, <3>1 DEF Plan
  <2>4. QED  BY <1>6, <2>1, <2>2, <2>3, <1>0, <1>00 DEF Plan
<1>7. CASE Generate
  <2>1. /\ ex'.used = ex.used /\ ex'.index = ex.index
        /\ ex'.sent \in {ex.sent, ex.sent + 1} /\ ex'.pc \in {"audit", "final"}
    BY <1>7 DEF Generate, Goto, Ending, TypeOK, Execution
  <2>2. QED  BY <1>7, <2>1 DEF Generate
<1>8. CASE Audit
  BY <1>0, <1>00, <1>8 DEF Audit
<1>9. CASE AppendAttempt
  BY <1>0, <1>00, <1>9, WriteEx DEF AppendAttempt
<1>10. CASE Announce
  BY <1>0, <1>00, <1>10, WriteEx DEF Announce
<1>11. CASE Sandbox
  <2>1. /\ ex'.used = ex.used /\ ex'.sent = ex.sent /\ ex'.index = ex.index
        /\ ex'.pc = "patch"
    BY <1>11 DEF Sandbox, Goto, TypeOK, Execution
  <2>2. QED  BY <1>0, <1>11, <2>1 DEF Sandbox
<1>12. CASE Patch
  <2>1. ex' \in {Ending("failed"), Goto("collect"), NextAttempt, Goto("idle")}
    BY <1>12, WriteEx DEF Patch
  <2>2. QED  BY <1>0, <1>00, <1>12, <2>1, NextAttemptCalls DEF Patch
<1>13. CASE Collect
  <2>1. \/ ex' \in {Goto("succeed"), Goto("idle")}
        \/ ex' = [Goto("reject") EXCEPT !.bad = TRUE]
    BY <1>13, WriteEx DEF Collect
  <2>2. /\ ex'.used = ex.used /\ ex'.sent = ex.sent /\ ex'.index = ex.index
        /\ ex'.pc \in {"succeed", "reject", "idle"}
    BY <2>1 DEF Goto, TypeOK, Execution
  <2>3. QED  BY <1>0, <1>13, <2>2 DEF Collect
<1>14. CASE Succeed
  <2>1. ex' = [ex EXCEPT !.pc = "return", !.done = TRUE] \/ ex' = Goto("idle")
    BY <1>14, WriteEx DEF Succeed
  <2>2. /\ ex'.used = ex.used /\ ex'.sent = ex.sent /\ ex'.index = ex.index
        /\ ex'.pc \in {"return", "idle"}
    BY <2>1 DEF Goto, TypeOK, Execution
  <2>3. QED  BY <1>0, <1>14, <2>2 DEF Succeed
<1>15. CASE Reject
  <2>1. ex' \in {NextAttempt, Goto("idle")}
    BY <1>15, WriteEx DEF Reject
  <2>2. QED  BY <1>0, <1>00, <1>15, <2>1, NextAttemptCalls DEF Reject
<1>16. CASE Final
  <2>1. \/ ex' = [ex EXCEPT !.pc = FinalNext(ex.end), !.done = TRUE]
        \/ ex' = Goto("idle")
    BY <1>16, WriteEx DEF Final
  <2>2. FinalNext(ex.end) \in {"verdict", "return"}
    BY DEF FinalNext
  <2>3. /\ ex'.used = ex.used /\ ex'.sent = ex.sent /\ ex'.index = ex.index
        /\ ex'.pc \in {"verdict", "return", "idle"}
    BY <2>1, <2>2 DEF Goto, TypeOK, Execution
  <2>4. QED  BY <1>0, <1>16, <2>3 DEF Final
<1>17. CASE Verdict
  BY <1>0, <1>00, <1>17, WriteEx DEF Verdict
<1>18. CASE Complete
  BY <1>0, <1>00, <1>18 DEF Complete
<1>19. CASE Restart
  BY <1>0, <1>00, <1>19 DEF Restart
<1>20. CASE UNCHANGED vars
  BY <1>20 DEF vars
<1>21. QED
  BY <1>1, <1>2, <1>3, <1>4, <1>5, <1>6, <1>7, <1>8, <1>9, <1>10, <1>11, <1>12,
     <1>13, <1>14, <1>15, <1>16, <1>17, <1>18, <1>19, <1>20 DEF Next, Step

\* For every budget and number of attempts, and whatever fails, an execution of
\* runAgent makes at most that many Gemini calls.
THEOREM CallsStayBounded == Spec => []CallsBounded
<1>1. Init => CallsInv
  BY LimitsAssumption DEF Init, NewExecution, CallsInv, BeforeCall
<1>2. TypeOK /\ CallsInv => CallsBounded
  BY CounterType, LimitsAssumption DEF CallsInv, CallsBounded
<1>3. QED  BY <1>1, <1>2, TypeInit, TypeStep, CallsStep, PTL DEF Spec

-----------------------------------------------------------------------------
(* What a run records. *)

(* ------------------------------- Invariant ------------------------------ *)

\* The attempt that was appended last is the current one.
Current(r, e) == r.attempts # <<>> /\ r.attempts[Len(r.attempts)].index = e.index

LastClean(r) == r.attempts[Len(r.attempts)].out = "clean"

LastBad(r) == r.attempts[Len(r.attempts)].bad

\* What holds of the row and the local state at each await of an execution.
PcInv(r, e) ==
    /\ e.pc # "idle"
    /\ e.pc \in {"cache", "replay"} => demo
    /\ e.pc \in {"generate", "audit", "append", "announce", "sandbox", "patch",
                 "collect", "succeed", "reject"} => r.status \in Working
    /\ e.pc = "final" => e.end # "succeeded"
    /\ e.pc \in {"verdict", "return"} => r.status \in Terminal /\ e.done
    /\ e.pc \in {"announce", "sandbox", "patch", "collect", "succeed", "reject"} =>
          Current(r, e)
    /\ e.pc \in {"collect", "succeed", "reject"} => LastClean(r)
    /\ e.pc = "succeed" => Passes
    /\ e.pc \notin {"reject", "final", "verdict", "return"} => ~e.bad
    /\ e.pc \in {"final", "verdict"} /\ e.bad =>
          Current(r, e) /\ LastClean(r) /\ LastBad(r)
    /\ e.pc = "verdict" => r.status = "failed" /\ e.bad /\ e.index = MaxAttempts

\* What holds besides as long as the run has not been executed before.
FirstInv(r, e) ==
    /\ e.pc \notin {"verdict", "return"} => r.status \notin Terminal
    /\ e.pc # "return" => r.validated # "false"
    /\ e.pc \in {"load", "start", "cache", "replay"} => r.attempts = <<>>
    /\ e.pc \in {"plan", "generate", "audit", "append"} =>
          \A i \in DOMAIN r.attempts : r.attempts[i].index < e.index
    /\ e.pc \in {"announce", "sandbox", "patch"} =>
          \A i \in DOMAIN r.attempts :
             /\ r.attempts[i].index <= e.index
             /\ r.attempts[i].index = e.index => r.attempts[i].out = "none"
    /\ e.pc \in {"collect", "succeed", "reject"} =>
          \A i \in DOMAIN r.attempts : r.attempts[i].index <= e.index

NotStarted == job = "waiting" /\ row.status = "queued" /\ row.attempts = <<>>
                 /\ row.validated = "null"

ActiveInv ==
    /\ executions = 0 => NotStarted
    /\ job = "active" => PcInv(row, ex) /\ (executions = 1 => FirstInv(row, ex))
    /\ CompletedIsTerminal

\* A write of the row r that leads to the local state e, or throws.
LEMMA WriteInv ==
    ASSUME ActiveInv, job = "active", NEW r, NEW e, Write(r, e),
           UNCHANGED <<demo, checked, file, executions>>,
           PcInv(r, e), executions = 1 => FirstInv(r, e)
    PROVE  ActiveInv'
<1>1. executions # 0
  BY DEF ActiveInv, NotStarted
<1>2. CASE ex' = e /\ row' = r /\ job' = job
  BY <1>1, <1>2 DEF ActiveInv, CompletedIsTerminal, PcInv, FirstInv, Current, LastClean,
                    LastBad, Passes
<1>3. CASE job' = "failed"
  BY <1>1, <1>3 DEF ActiveInv, CompletedIsTerminal
<1>4. QED  BY <1>2, <1>3, WriteEx

\* A step that leaves the row alone and leads to the local state e.
LEMMA LocalInv ==
    ASSUME ActiveInv, job = "active", NEW e, ex' = e, job' = job, row' = row,
           UNCHANGED <<demo, checked, executions>>,
           PcInv(row, e), executions = 1 => FirstInv(row, e),
           e.pc # "succeed"
    PROVE  ActiveInv'
<1>1. executions # 0
  BY DEF ActiveInv, NotStarted
<1>2. QED
  BY <1>1 DEF ActiveInv, CompletedIsTerminal, PcInv, FirstInv, Current, LastClean, LastBad

\* The fields of the local states that runAgent goes on to.
LEMMA Fields ==
    ASSUME TypeOK, NEW pc
    PROVE  /\ Goto(pc).pc = pc /\ Goto(pc).index = ex.index /\ Goto(pc).bad = ex.bad
           /\ Goto(pc).end = ex.end /\ Goto(pc).done = ex.done /\ Goto(pc).out = ex.out
           /\ Ending(pc).pc = "final" /\ Ending(pc).index = ex.index
           /\ Ending(pc).bad = ex.bad /\ Ending(pc).end = pc /\ Ending(pc).done = ex.done
BY DEF TypeOK, Execution, Goto, Ending

\* What starting another round changes of the local state.
LEMMA NextFields ==
    ASSUME TypeOK
    PROVE  \/ /\ NextAttempt.pc = "plan" /\ NextAttempt.index = ex.index + 1
              /\ NextAttempt.bad = FALSE
           \/ /\ NextAttempt.pc = "final" /\ NextAttempt.index = ex.index
              /\ NextAttempt.bad = ex.bad /\ NextAttempt.end # "succeeded"
BY DEF TypeOK, Execution, NextAttempt, NextIteration, Ending

\* The list of attempts and its last element.
LEMMA LastOf ==
    ASSUME TypeOK
    PROVE  /\ Len(row.attempts) \in Nat /\ DOMAIN row.attempts = 1..Len(row.attempts)
           /\ row.attempts # <<>> => Len(row.attempts) \in DOMAIN row.attempts
           /\ \A i \in DOMAIN row.attempts : row.attempts[i] \in Attempt
BY DEF TypeOK, Row

\* What patching attempts by index changes of each.
LEMMA PatchFields ==
    ASSUME TypeOK, NEW f \in Outcomes \cup {"none"}
    PROVE  /\ PatchOut(f).status = row.status /\ PatchOut(f).validated = row.validated
           /\ PatchBad.status = row.status /\ PatchBad.validated = row.validated
           /\ DOMAIN PatchOut(f).attempts = DOMAIN row.attempts
           /\ DOMAIN PatchBad.attempts = DOMAIN row.attempts
           /\ Len(PatchOut(f).attempts) = Len(row.attempts)
           /\ Len(PatchBad.attempts) = Len(row.attempts)
           /\ row.attempts # <<>> => PatchOut(f).attempts # <<>> /\ PatchBad.attempts # <<>>
           /\ \A i \in DOMAIN row.attempts :
                 /\ PatchOut(f).attempts[i].index = row.attempts[i].index
                 /\ PatchOut(f).attempts[i].bad = row.attempts[i].bad
                 /\ PatchOut(f).attempts[i].out =
                       IF row.attempts[i].index = ex.index THEN f ELSE row.attempts[i].out
                 /\ PatchBad.attempts[i].index = row.attempts[i].index
                 /\ PatchBad.attempts[i].out = row.attempts[i].out
                 /\ row.attempts[i].index = ex.index => PatchBad.attempts[i].bad
<1> DEFINE a == row.attempts
           po == [i \in DOMAIN a |-> IF a[i].index = ex.index
                                     THEN [a[i] EXCEPT !.out = f] ELSE a[i]]
           pb == [i \in DOMAIN a |-> IF a[i].index = ex.index
                                     THEN [a[i] EXCEPT !.bad = TRUE] ELSE a[i]]
<1>1. PatchOut(f) = [row EXCEPT !.attempts = po] /\ PatchBad = [row EXCEPT !.attempts = pb]
  BY DEF PatchOut, PatchBad
<1>2. /\ PatchOut(f).attempts = po /\ PatchBad.attempts = pb
      /\ PatchOut(f).status = row.status /\ PatchOut(f).validated = row.validated
      /\ PatchBad.status = row.status /\ PatchBad.validated = row.validated
  BY <1>1 DEF TypeOK, Row
<1>3. DOMAIN po = 1..Len(a) /\ DOMAIN pb = 1..Len(a)
  BY LastOf
<1>4. Len(po) = Len(a) /\ Len(pb) = Len(a)
  <2>1. PatchOut(f) \in Row /\ PatchBad \in Row
    BY PatchType
  <2>2. po \in Seq(Attempt) /\ pb \in Seq(Attempt)
    BY <1>2, <2>1 DEF Row
  <2>3. QED  BY <1>3, <2>2, LastOf
<1>5. a # <<>> => po # <<>> /\ pb # <<>>
  BY <1>3, <1>4, LastOf
<1>6. ASSUME NEW i \in DOMAIN a
      PROVE  /\ po[i].index = a[i].index /\ po[i].bad = a[i].bad
             /\ po[i].out = IF a[i].index = ex.index THEN f ELSE a[i].out
             /\ pb[i].index = a[i].index /\ pb[i].out = a[i].out
             /\ a[i].index = ex.index => pb[i].bad
  BY LastOf DEF Attempt
<1>7. QED  BY <1>2, <1>3, <1>4, <1>5, <1>6, LastOf

\* Every step keeps what is known of the row at each await.
LEMMA ActiveStep == TypeOK /\ CallsInv /\ ActiveInv /\ [Next]_vars => ActiveInv'
<1> SUFFICES ASSUME TypeOK, CallsInv, ActiveInv, [Next]_vars PROVE ActiveInv'
  OBVIOUS
<1>i. job = "active" => PcInv(row, ex) /\ (executions = 1 => FirstInv(row, ex))
  BY DEF ActiveInv
<1>t. /\ "failed" \in Terminal /\ "succeeded" \in Terminal
      /\ Working \cap Terminal = {}
      /\ {"planning", "retrying", "executing"} \subseteq Working
  BY DEF Working, Terminal
<1>r. /\ \A s : [row EXCEPT !.status = s].status = s
      /\ \A s : [row EXCEPT !.status = s].attempts = row.attempts
      /\ \A s : [row EXCEPT !.status = s].validated = row.validated
  BY DEF TypeOK, Row
<1>g. \A pc : LET e == Goto(pc) IN /\ e.pc = pc /\ e.index = ex.index /\ e.bad = ex.bad
                                   /\ e.end = ex.end /\ e.done = ex.done
  BY Fields
<1>e. \A s : LET e == Ending(s) IN /\ e.pc = "final" /\ e.index = ex.index /\ e.bad = ex.bad
                                   /\ e.end = s /\ e.done = ex.done
  BY Fields
<1> USE DEF At
<1>1. CASE Take
  <2>1. executions' # 0 /\ (executions' = 1 => executions = 0)
    BY <1>1 DEF Take, TypeOK
  <2>2. PcInv(row, NewExecution)'
    BY <1>1 DEF Take, NewExecution, PcInv
  <2>3. executions' = 1 => FirstInv(row, NewExecution)'
    BY <1>1, <2>1 DEF Take, NewExecution, FirstInv, ActiveInv, NotStarted, Terminal
  <2>4. QED
    BY <1>1, <2>1, <2>2, <2>3 DEF Take, ActiveInv, CompletedIsTerminal, NewExecution
<1>2. CASE Load
  <2>1. CASE ex' = Goto("start") /\ job' = job
    <3>1. PcInv(row, Goto("start")) /\ (executions = 1 => FirstInv(row, Goto("start")))
      BY <1>2, <1>i, <1>g DEF Load, PcInv, FirstInv
    <3>2. QED  BY <1>2, <1>g, <2>1, <3>1, LocalInv DEF Load
  <2>2. CASE ex' = Ending("failed") /\ job' = job
    <3>1. PcInv(row, Ending("failed")) /\ (executions = 1 => FirstInv(row, Ending("failed")))
      BY <1>2, <1>i, <1>e DEF Load, PcInv, FirstInv
    <3>2. QED  BY <1>2, <1>e, <2>2, <3>1, LocalInv DEF Load
  <2>3. CASE job' = "failed"
    BY <1>2, <2>3 DEF Load, ActiveInv, NotStarted, CompletedIsTerminal
  <2>4. QED  BY <1>2, <2>1, <2>2, <2>3 DEF Load, Escapes
<1>3. CASE Start
  <2> DEFINE pc == IF demo THEN "cache" ELSE "plan"
  <2>1. PcInv(row, Goto(pc))
    BY <1>3, <1>i, <1>g DEF Start, PcInv
  <2>2. executions = 1 => FirstInv(row, Goto(pc))
    BY <1>3, <1>i, <1>g DEF Start, FirstInv
  <2>3. QED  BY <1>3, <2>1, <2>2, WriteInv DEF Start
<1>4. CASE FindCached
  <2>1. ASSUME NEW pc \in {"plan", "replay"}, ex' = Goto(pc), job' = job PROVE ActiveInv'
    <3>1. PcInv(row, Goto(pc)) /\ (executions = 1 => FirstInv(row, Goto(pc)))
      BY <1>4, <1>i, <1>g DEF FindCached, PcInv, FirstInv
    <3>2. QED  BY <1>4, <1>g, <2>1, <3>1, LocalInv DEF FindCached
  <2>2. CASE job' = "failed"
    BY <1>4, <2>2 DEF FindCached, ActiveInv, NotStarted, CompletedIsTerminal
  <2>3. QED  BY <1>4, <2>1, <2>2 DEF FindCached, Escapes
<1>5. CASE Replay
  <2> DEFINE r == [row EXCEPT !.status = "succeeded", !.calls = 0, !.replayed = TRUE,
                         !.attempts = <<[index |-> 1, of |-> 0, out |-> "clean",
                                         bad |-> FALSE]>>]
             e == [ex EXCEPT !.pc = "return", !.done = TRUE]
  <2>1. r.status = "succeeded" /\ e.pc = "return" /\ e.done
    BY DEF TypeOK, Row, Execution
  <2>2. PcInv(r, e) /\ FirstInv(r, e)
    BY <2>1, <1>t DEF PcInv, FirstInv
  <2>3. QED  BY <1>5, <2>2, WriteInv DEF Replay
<1>6. CASE Plan
  <2> DEFINE r == [row EXCEPT !.status = IF ex.index = 1 THEN "planning" ELSE "retrying"]
             e == Consume(ex)
  <2>1. /\ e.index = ex.index /\ e.bad = ex.bad
        /\ e.pc = "generate" \/ (e.pc = "final" /\ e.end = "budget_exceeded")
    BY DEF Consume, TypeOK, Execution
  <2>2. PcInv(r, e)
    BY <1>6, <1>i, <1>t, <1>r, <2>1 DEF Plan, PcInv
  <2>3. executions = 1 => FirstInv(r, e)
    BY <1>6, <1>i, <1>t, <1>r, <2>1 DEF Plan, FirstInv
  <2>4. QED  BY <1>6, <2>2, <2>3, WriteInv DEF Plan
<1>7. CASE Generate
  <2>1. \/ ex'.pc = "audit"
        \/ ex'.pc = "final" /\ ex'.end = "failed"
    BY <1>7 DEF Generate, Goto, Ending, TypeOK, Execution
  <2>2. ex'.index = ex.index /\ ex'.bad = ex.bad
    BY <1>7 DEF Generate, Goto, Ending, TypeOK, Execution
  <2>3. PcInv(row, ex') /\ (executions = 1 => FirstInv(row, ex'))
    BY <1>7, <1>i, <1>t, <2>1, <2>2 DEF Generate, PcInv, FirstInv
  <2>4. executions # 0
    BY <1>7 DEF Generate, ActiveInv, NotStarted
  <2>5. QED
    BY <1>7, <2>1, <2>3, <2>4
    DEF Generate, ActiveInv, CompletedIsTerminal, PcInv, FirstInv, Current, LastClean,
        LastBad
<1>8. CASE Audit
  <2>1. ASSUME NEW r, r.status = row.status, r.attempts = row.attempts,
               r.validated = row.validated, row' = r,
               ex' \in {Goto("append"), Ending("failed")}
        PROVE  ActiveInv'
    <3>1. PcInv(r, ex') /\ (executions = 1 => FirstInv(r, ex'))
      BY <1>8, <1>i, <1>g, <1>e, <1>t, <2>1 DEF Audit, PcInv, FirstInv
    <3>2. executions # 0
      BY <1>8 DEF Audit, ActiveInv, NotStarted
    <3>3. ex'.pc # "succeed"
      BY <2>1, <1>g, <1>e
    <3>4. QED
      BY <1>8, <2>1, <3>1, <3>2, <3>3
      DEF Audit, ActiveInv, CompletedIsTerminal, PcInv, FirstInv, Current, LastClean, LastBad
  <2>2. LET r == [row EXCEPT !.calls = @ + 1]
        IN  r.status = row.status /\ r.attempts = row.attempts /\ r.validated = row.validated
    BY DEF TypeOK, Row
  <2>3. QED  BY <1>8, <2>1, <2>2 DEF Audit
<1>9. CASE AppendAttempt
  <2> DEFINE new == [index |-> ex.index, of |-> executions, out |-> "none", bad |-> FALSE]
             r == [row EXCEPT !.attempts = Append(@, new)]
             e == Goto("announce")
  <2>1. r.status = row.status /\ r.validated = row.validated
        /\ r.attempts = Append(row.attempts, new)
    BY DEF TypeOK, Row
  <2>2. /\ Append(row.attempts, new) # <<>>
        /\ Len(Append(row.attempts, new)) = Len(row.attempts) + 1
        /\ Append(row.attempts, new)[Len(row.attempts) + 1] = new
        /\ DOMAIN Append(row.attempts, new) = 1..(Len(row.attempts) + 1)
        /\ \A i \in DOMAIN row.attempts : Append(row.attempts, new)[i] = row.attempts[i]
    <3>1. new \in Attempt
      BY CounterType DEF TypeOK, Attempt
    <3>2. QED  BY <3>1 DEF TypeOK, Row
  <2>3. PcInv(r, e)
    BY <1>9, <1>i, <1>g, <2>1, <2>2 DEF AppendAttempt, PcInv, Current
  <2>4. executions = 1 => FirstInv(r, e)
    <3>1. ASSUME executions = 1, NEW i \in DOMAIN r.attempts
          PROVE  /\ r.attempts[i].index <= ex.index
                 /\ r.attempts[i].index = ex.index => r.attempts[i].out = "none"
      <4>1. CASE i = Len(row.attempts) + 1
        BY <2>1, <2>2, <4>1, CounterType
      <4>2. CASE i \in DOMAIN row.attempts
        <5>1. row.attempts[i].index < ex.index
          BY <1>9, <1>i, <3>1, <4>2 DEF AppendAttempt, FirstInv
        <5>2. row.attempts[i].index \in Nat
          BY <4>2, LastOf DEF Attempt
        <5>3. QED  BY <2>1, <2>2, <4>2, <5>1, <5>2, CounterType
      <4>3. QED  BY <2>1, <2>2, <3>1, <4>1, <4>2, LastOf
    <3>2. QED  BY <1>9, <1>i, <1>g, <2>1, <3>1 DEF AppendAttempt, FirstInv
  <2>5. QED  BY <1>9, <2>3, <2>4, WriteInv DEF AppendAttempt
<1>10. CASE Announce
  <2> DEFINE r == [row EXCEPT !.status = "executing"]
  <2>1. PcInv(r, Goto("sandbox"))
    BY <1>10, <1>i, <1>g, <1>r, <1>t DEF Announce, PcInv, Current
  <2>2. executions = 1 => FirstInv(r, Goto("sandbox"))
    BY <1>10, <1>i, <1>g, <1>r, <1>t DEF Announce, FirstInv
  <2>3. QED  BY <1>10, <2>1, <2>2, WriteInv DEF Announce
<1>11. CASE Sandbox
  <2>1. ex'.pc = "patch" /\ ex'.index = ex.index /\ ex'.bad = FALSE
    BY <1>11 DEF Sandbox, Goto, TypeOK, Execution
  <2>2. PcInv(row, ex') /\ (executions = 1 => FirstInv(row, ex'))
    BY <1>11, <1>i, <2>1 DEF Sandbox, PcInv, FirstInv, Current
  <2>3. QED  BY <1>11, <2>1, <2>2, LocalInv DEF Sandbox
<1>12. CASE Patch
  <2> DEFINE r == PatchOut(ex.out)
             e == IF ex.out = "fault" THEN Ending("failed")
                  ELSE IF ex.out = "clean" THEN Goto("collect") ELSE NextAttempt
  <2>1. ex.out \in Outcomes \cup {"none"}
    BY DEF TypeOK, Execution
  <2>2. /\ r.status = row.status /\ r.validated = row.validated
        /\ DOMAIN r.attempts = DOMAIN row.attempts
        /\ \A i \in DOMAIN row.attempts : r.attempts[i].index = row.attempts[i].index
    BY <2>1, PatchFields
  <2>3. /\ Current(r, ex)
        /\ ex.out = "clean" => LastClean(r)
    <3>1. row.attempts # <<>> /\ row.attempts[Len(row.attempts)].index = ex.index
      BY <1>12, <1>i DEF Patch, PcInv, Current
    <3>2. QED  BY <2>1, <3>1, PatchFields, LastOf DEF Current, LastClean
  <2>4. ~ex.bad /\ row.status \in Working
    BY <1>12, <1>i DEF Patch, PcInv
  <2>e. \/ e.pc = "final" /\ e.end # "succeeded" /\ e.bad = ex.bad /\ e.index = ex.index
        \/ /\ ex.out = "clean" /\ e.pc = "collect" /\ e.bad = ex.bad
           /\ e.index = ex.index
        \/ e.pc = "plan" /\ e.bad = FALSE /\ e.index = ex.index + 1
    <3>1. CASE ex.out = "fault"
      BY <1>e, <3>1
    <3>2. CASE ex.out = "clean"
      BY <1>g, <3>2
    <3>3. CASE ex.out # "fault" /\ ex.out # "clean"
      BY <3>3, NextFields
    <3>4. QED  BY <3>1, <3>2, <3>3
  <2> HIDE DEF r, e
  <2>5. PcInv(r, e)
    BY <2>e, <1>t, <2>2, <2>3, <2>4 DEF PcInv, Current
  <2>6. executions = 1 => FirstInv(r, e)
    <3>1. executions = 1 => \A i \in DOMAIN row.attempts :
                               /\ row.attempts[i].index <= ex.index
                               /\ row.attempts[i].index < ex.index + 1
      BY <1>12, <1>i, CounterType, LastOf DEF Patch, FirstInv, Attempt
    <3>2. executions = 1 => row.validated # "false"
      BY <1>12, <1>i DEF Patch, FirstInv
    <3>3. QED  BY <2>e, <1>t, <2>2, <2>4, <3>1, <3>2 DEF FirstInv
  <2>7. QED  BY <1>12, <2>5, <2>6, WriteInv DEF Patch, r, e
<1>13. CASE Collect
  <2> DEFINE e == IF Passes THEN Goto("succeed") ELSE [Goto("reject") EXCEPT !.bad = TRUE]
  <2>1. e.index = ex.index /\ (IF Passes THEN e.pc = "succeed" /\ e.bad = ex.bad
                                         ELSE e.pc = "reject")
    BY DEF Goto, TypeOK, Execution
  <2>2. PcInv(row, e)
    BY <1>13, <1>i, <2>1 DEF Collect, PcInv, Current
  <2>3. executions = 1 => FirstInv(row, e)
    BY <1>13, <1>i, <2>1 DEF Collect, FirstInv
  <2>4. QED  BY <1>13, <2>2, <2>3, WriteInv DEF Collect
<1>14. CASE Succeed
  <2> DEFINE r == [row EXCEPT !.status = "succeeded",
                              !.validated = IF checked THEN "true" ELSE "null"]
             e == [ex EXCEPT !.pc = "return", !.done = TRUE]
  <2>1. r.status = "succeeded" /\ e.pc = "return" /\ e.done
    BY DEF TypeOK, Row, Execution
  <2>2. PcInv(r, e) /\ FirstInv(r, e)
    BY <2>1, <1>t DEF PcInv, FirstInv
  <2>3. QED  BY <1>14, <2>2, WriteInv DEF Succeed
<1>15. CASE Reject
  <2> DEFINE r == PatchBad
             e == NextAttempt
  <2>1. /\ r.status = row.status /\ r.validated = row.validated
        /\ DOMAIN r.attempts = DOMAIN row.attempts
        /\ \A i \in DOMAIN row.attempts : r.attempts[i].index = row.attempts[i].index
    BY PatchFields
  <2>2. Current(r, ex) /\ LastClean(r) /\ LastBad(r)
    <3>1. /\ row.attempts # <<>> /\ row.attempts[Len(row.attempts)].index = ex.index
          /\ LastClean(row)
      BY <1>15, <1>i DEF Reject, PcInv, Current
    <3>2. QED  BY <3>1, PatchFields, LastOf DEF Current, LastClean, LastBad
  <2>3. row.status \in Working
    BY <1>15, <1>i DEF Reject, PcInv
  <2>4. PcInv(r, e)
    BY <1>t, <2>1, <2>2, <2>3, NextFields DEF PcInv, Current
  <2>5. executions = 1 => FirstInv(r, e)
    <3>1. executions = 1 => \A i \in DOMAIN row.attempts :
                               row.attempts[i].index < ex.index + 1
      BY <1>15, <1>i, CounterType, LastOf DEF Reject, FirstInv, Attempt
    <3>2. executions = 1 => row.validated # "false"
      BY <1>15, <1>i DEF Reject, FirstInv
    <3>3. QED  BY <1>t, <2>1, <2>3, <3>1, <3>2, NextFields DEF FirstInv
  <2>6. QED  BY <1>15, <2>4, <2>5, WriteInv DEF Reject
<1>16. CASE Final
  <2> DEFINE r == [row EXCEPT !.status = ex.end]
             e == [ex EXCEPT !.pc = FinalNext(ex.end), !.done = TRUE]
  <2>1. /\ e.pc = FinalNext(ex.end) /\ e.done /\ e.bad = ex.bad /\ e.index = ex.index
        /\ ex.end \in Terminal
    BY DEF TypeOK, Execution
  <2>2. \/ e.pc = "return"
        \/ e.pc = "verdict" /\ ex.end = "failed" /\ ex.bad /\ ex.index = MaxAttempts
    BY <2>1 DEF FinalNext
  <2>3. PcInv(r, e)
    BY <1>16, <1>i, <1>r, <2>1, <2>2 DEF Final, PcInv, Current, LastClean, LastBad
  <2>4. executions = 1 => FirstInv(r, e)
    BY <1>16, <1>i, <1>r, <2>1, <2>2 DEF Final, FirstInv
  <2>5. QED  BY <1>16, <2>3, <2>4, WriteInv DEF Final
<1>17. CASE Verdict
  <2> DEFINE r == [row EXCEPT !.validated = "false"]
  <2>1. r.status = row.status
    BY DEF TypeOK, Row
  <2>2. PcInv(r, Goto("return")) /\ FirstInv(r, Goto("return"))
    BY <1>17, <1>i, <1>g, <2>1 DEF Verdict, PcInv, FirstInv
  <2>3. QED  BY <1>17, <2>2, WriteInv DEF Verdict
<1>18. CASE Complete
  <2>1. row.status \in Terminal /\ ex.done
    BY <1>18, <1>i DEF Complete, PcInv
  <2>2. QED
    BY <1>18, <1>g, <2>1 DEF Complete, ActiveInv, NotStarted, CompletedIsTerminal
<1>19. CASE Restart
  BY <1>19 DEF Restart, ActiveInv, NotStarted, CompletedIsTerminal
<1>20. CASE UNCHANGED vars
  BY <1>20 DEF vars, ActiveInv, NotStarted, CompletedIsTerminal, PcInv, FirstInv, Current,
               LastClean, LastBad, Passes
<1>21. QED
  BY <1>1, <1>2, <1>3, <1>4, <1>5, <1>6, <1>7, <1>8, <1>9, <1>10, <1>11, <1>12,
     <1>13, <1>14, <1>15, <1>16, <1>17, <1>18, <1>19, <1>20 DEF Next, Step

\* So it is known in every reachable state.
LEMMA ActiveInvariant == Spec => [](TypeOK /\ CallsInv /\ ActiveInv)
<1>1. Init => CallsInv
  BY LimitsAssumption DEF Init, NewExecution, CallsInv, BeforeCall
<1>2. Init => ActiveInv
  BY DEF Init, ActiveInv, NotStarted, CompletedIsTerminal
<1>3. QED  BY <1>1, <1>2, TypeInit, TypeStep, CallsStep, ActiveStep, PTL DEF Spec

\* A job that completes leaves a terminal row and a "done" event, whatever way
\* runAgent returned and however often it was executed.
THEOREM CompletionIsTerminal == Spec => []CompletedIsTerminal
<1>1. ActiveInv => CompletedIsTerminal
  BY DEF ActiveInv
<1>2. QED  BY <1>1, ActiveInvariant, PTL

(* ---------------------------- What writes the row ----------------------- *)

Written(pc, r) == job = "active" /\ ex.pc = pc /\ row' = r

ReplayedRow ==
    [row EXCEPT !.status = "succeeded", !.calls = 0, !.replayed = TRUE,
                !.attempts = <<[index |-> 1, of |-> 0, out |-> "clean", bad |-> FALSE]>>]

NewAttempt == [index |-> ex.index, of |-> executions, out |-> "none", bad |-> FALSE]

\* Every change of the row is one of the writes of runAgent.
LEMMA RowWrites ==
    ASSUME [Next]_vars
    PROVE  \/ row' = row
           \/ Written("replay", ReplayedRow)
           \/ \E s \in {"planning", "retrying"} :
                 Written("plan", [row EXCEPT !.status = s])
           \/ Written("audit", [row EXCEPT !.calls = @ + 1])
           \/ Written("append", [row EXCEPT !.attempts = Append(@, NewAttempt)])
           \/ Written("announce", [row EXCEPT !.status = "executing"])
           \/ Written("patch", PatchOut(ex.out))
           \/ Written("succeed", [row EXCEPT !.status = "succeeded",
                                        !.validated = IF checked THEN "true" ELSE "null"])
           \/ Written("reject", PatchBad)
           \/ Written("final", [row EXCEPT !.status = ex.end])
           \/ Written("verdict", [row EXCEPT !.validated = "false"])
<1> USE DEF At, Written
<1>1. CASE Take \/ Load \/ FindCached \/ Generate \/ Sandbox \/ Complete \/ Restart
           \/ UNCHANGED vars
  BY <1>1 DEF Take, Load, FindCached, Generate, Sandbox, Complete, Restart, vars
<1>2. CASE Start \/ Collect
  BY <1>2, WriteEx DEF Start, Collect
<1>3. CASE Replay
  BY <1>3, WriteEx DEF Replay, ReplayedRow
<1>4. CASE Plan
  BY <1>4, WriteEx DEF Plan
<1>5. CASE Audit
  BY <1>5 DEF Audit
<1>6. CASE AppendAttempt
  BY <1>6, WriteEx DEF AppendAttempt, NewAttempt
<1>7. CASE Announce
  BY <1>7, WriteEx DEF Announce
<1>8. CASE Patch
  BY <1>8, WriteEx DEF Patch
<1>9. CASE Succeed
  BY <1>9, WriteEx DEF Succeed
<1>10. CASE Reject
  BY <1>10, WriteEx DEF Reject
<1>11. CASE Final
  BY <1>11, WriteEx DEF Final
<1>12. CASE Verdict
  BY <1>12, WriteEx DEF Verdict
<1>13. QED
  BY <1>1, <1>2, <1>3, <1>4, <1>5, <1>6, <1>7, <1>8, <1>9, <1>10, <1>11, <1>12
  DEF Next, Step

\* The history of executions: a change of the row during the first one was
\* made by it.
LEMMA FirstExecution ==
    ASSUME TypeOK, [Next]_vars, executions' = 1
    PROVE  executions = 1 \/ (executions = 0 /\ row' = row)
<1>1. CASE Take
  BY <1>1 DEF Take, TypeOK
<1>2. CASE ~Take
  BY <1>2 DEF Next, Step, Load, Start, FindCached, Replay, Plan, Generate, Audit,
              AppendAttempt, Announce, Sandbox, Patch, Collect, Succeed, Reject, Final,
              Verdict, Complete, Restart, vars
<1>3. QED  BY <1>1, <1>2

\* In the first execution no step leaves a terminal status.
LEMMA EndsStep ==
    TypeOK /\ ActiveInv /\ [Next]_vars =>
        (row.status \in Terminal /\ executions' = 1 => row'.status = row.status)
<1> SUFFICES ASSUME TypeOK, ActiveInv, [Next]_vars, row.status \in Terminal,
                    executions' = 1
             PROVE  row'.status = row.status
  OBVIOUS
<1>1. CASE executions = 0
  BY <1>1, FirstExecution
<1>2. CASE executions = 1
  <2>1. job = "active" => ex.pc \in {"verdict", "return"}
    BY <1>2 DEF ActiveInv, FirstInv
  <2>2. row' = row \/ Written("verdict", [row EXCEPT !.validated = "false"])
    BY <2>1, RowWrites DEF Written
  <2>3. QED  BY <2>2 DEF Written, TypeOK, Row
<1>3. QED  BY <1>1, <1>2, FirstExecution

\* For every run: within one execution a terminal status is final.
THEOREM RunsEndOnce == Spec => EndsOnce
<1>1. TypeOK /\ ActiveInv /\ [Next]_vars =>
          [row.status \in Terminal /\ executions' = 1 => row'.status = row.status]_vars
  BY EndsStep
<1>2. QED  BY <1>1, ActiveInvariant, PTL DEF Spec, EndsOnce

(* ---------------------------- The attempt history ----------------------- *)

Grows ==
    /\ Len(row.attempts) <= Len(row'.attempts)
    /\ \A i \in DOMAIN row.attempts :
          row.attempts[i].out # "none" => row'.attempts[i].out = row.attempts[i].out

\* In the first execution no step drops or rewrites a finished attempt.
LEMMA HistoryStep ==
    TypeOK /\ ActiveInv /\ [Next]_vars => (executions' = 1 => Grows)
<1> SUFFICES ASSUME TypeOK, ActiveInv, [Next]_vars, executions' = 1 PROVE Grows
  OBVIOUS
<1>1. CASE row'.attempts = row.attempts
  BY <1>1, LastOf DEF Grows
<1>2. CASE executions = 1
  <2>i. job = "active" => FirstInv(row, ex)
    BY <1>2 DEF ActiveInv
  <2>1. CASE Written("replay", ReplayedRow)
    <3>1. row.attempts = <<>> /\ row' = ReplayedRow
      BY <2>1, <2>i DEF Written, FirstInv
    <3>2. Len(row'.attempts) = 1
      BY <3>1 DEF ReplayedRow, TypeOK, Row
    <3>3. QED  BY <3>1, <3>2 DEF Grows
  <2>2. CASE Written("append", [row EXCEPT !.attempts = Append(@, NewAttempt)])
    <3>1. row'.attempts = Append(row.attempts, NewAttempt)
      BY <2>2 DEF Written, TypeOK, Row
    <3>2. NewAttempt \in Attempt
      BY CounterType DEF TypeOK, NewAttempt, Attempt
    <3>3. /\ Len(row'.attempts) = Len(row.attempts) + 1
          /\ \A i \in DOMAIN row.attempts : row'.attempts[i] = row.attempts[i]
      BY <3>1, <3>2 DEF TypeOK, Row
    <3>4. QED  BY <3>3, LastOf DEF Grows
  <2>3. CASE Written("patch", PatchOut(ex.out))
    <3>1. ex.out \in Outcomes \cup {"none"}
      BY DEF TypeOK, Execution
    <3>2. \A i \in DOMAIN row.attempts :
             row.attempts[i].index = ex.index => row.attempts[i].out = "none"
      BY <2>3, <2>i DEF Written, FirstInv
    <3>3. QED  BY <2>3, <3>1, <3>2, PatchFields, LastOf DEF Written, Grows
  <2>4. CASE Written("reject", PatchBad)
    <3>1. /\ Len(PatchBad.attempts) = Len(row.attempts)
          /\ \A i \in DOMAIN row.attempts :
                PatchBad.attempts[i].out = row.attempts[i].out
      <4>1. ex.out \in Outcomes \cup {"none"}
        BY DEF TypeOK, Execution
      <4>2. QED  BY <4>1, PatchFields
    <3>2. row'.attempts = PatchBad.attempts
      BY <2>4 DEF Written
    <3>3. QED  BY <3>1, <3>2, LastOf DEF Grows
  <2>5. CASE /\ ~Written("replay", ReplayedRow)
             /\ ~Written("append", [row EXCEPT !.attempts = Append(@, NewAttempt)])
             /\ ~Written("patch", PatchOut(ex.out)) /\ ~Written("reject", PatchBad)
    <3>1. row'.attempts = row.attempts
      BY <2>5, RowWrites DEF Written, TypeOK, Row
    <3>2. QED  BY <3>1, <1>1
  <2>6. QED  BY <2>1, <2>2, <2>3, <2>4, <2>5
<1>3. QED  BY <1>1, <1>2, FirstExecution

\* For every run: within one execution no attempt goes, and the outcome of a
\* finished attempt stays.
THEOREM AttemptsGrow == Spec => HistoryGrows
<1>1. TypeOK /\ ActiveInv /\ [Next]_vars =>
          [executions' = 1 =>
              /\ Len(row.attempts) <= Len(row'.attempts)
              /\ \A i \in DOMAIN row.attempts :
                    row.attempts[i].out # "none" =>
                        row'.attempts[i].out = row.attempts[i].out]_vars
  BY HistoryStep DEF Grows
<1>2. QED  BY <1>1, ActiveInvariant, PTL DEF Spec, HistoryGrows

(* --------------------------- Success and verdict ------------------------ *)

\* Every step keeps recorded success verified.
LEMMA SucceededStep ==
    TypeOK /\ ActiveInv /\ SucceededIsVerified /\ [Next]_vars => SucceededIsVerified'
<1> SUFFICES ASSUME TypeOK, ActiveInv, SucceededIsVerified, [Next]_vars,
                    row'.status = "succeeded", ~row'.replayed
             PROVE  /\ LastClean(row')
                    /\ row'.validated = IF checked' THEN "true" ELSE "null"
                    /\ checked' /\ ~demo' => file' = "right"
  BY DEF SucceededIsVerified, LastClean
<1>i. job = "active" => PcInv(row, ex)
  BY DEF ActiveInv
<1>c. checked' = checked /\ demo' = demo
  BY DEF Next, Step, Take, Load, Start, FindCached, Replay, Plan, Generate, Audit,
         AppendAttempt, Announce, Sandbox, Patch, Collect, Succeed, Reject, Final,
         Verdict, Complete, Restart, vars
<1>f. \/ file' = file
      \/ job = "active" /\ ex.pc = "cache"
      \/ job = "active" /\ ex.pc = "sandbox"
  BY DEF Next, Step, Take, Load, Start, FindCached, Replay, Plan, Generate, Audit,
         AppendAttempt, Announce, Sandbox, Patch, Collect, Succeed, Reject, Final,
         Verdict, Complete, Restart, vars, At
<1>w. "succeeded" \notin Working /\ "succeeded" \notin {"planning", "retrying", "executing"}
  BY DEF Working
<1>1. CASE row' = row \/ Written("audit", [row EXCEPT !.calls = @ + 1])
  <2>1. /\ row.status = "succeeded" /\ ~row.replayed /\ row'.attempts = row.attempts
        /\ row'.validated = row.validated
    BY <1>1 DEF Written, TypeOK, Row
  <2>2. /\ LastClean(row) /\ row.validated = IF checked THEN "true" ELSE "null"
        /\ checked /\ ~demo => file = "right"
    BY <2>1 DEF SucceededIsVerified, LastClean
  <2>3. ~(job = "active" /\ ex.pc = "sandbox")
    BY <1>i, <1>w, <2>1 DEF PcInv
  <2>4. ~demo => ~(job = "active" /\ ex.pc = "cache")
    BY <1>i DEF PcInv
  <2>5. QED  BY <1>c, <1>f, <2>1, <2>2, <2>3, <2>4 DEF LastClean
<1>2. CASE Written("succeed", [row EXCEPT !.status = "succeeded",
                                  !.validated = IF checked THEN "true" ELSE "null"])
  <2>1. /\ row'.attempts = row.attempts
        /\ row'.validated = IF checked THEN "true" ELSE "null"
    BY <1>2 DEF Written, TypeOK, Row
  <2>2. LastClean(row) /\ Passes
    BY <1>2, <1>i DEF Written, PcInv
  <2>3. QED  BY <1>2, <1>c, <1>f, <2>1, <2>2 DEF LastClean, Passes, Written
<1>3. CASE \/ \E s \in {"planning", "retrying"} :
                 Written("plan", [row EXCEPT !.status = s])
           \/ Written("announce", [row EXCEPT !.status = "executing"])
  BY <1>3 DEF Written, TypeOK, Row
<1>4. CASE Written("replay", ReplayedRow)
  BY <1>4 DEF Written, ReplayedRow, TypeOK, Row
<1>5. CASE \/ Written("append", [row EXCEPT !.attempts = Append(@, NewAttempt)])
           \/ Written("patch", PatchOut(ex.out)) \/ Written("reject", PatchBad)
  <2>1. row'.status = row.status
    <3>1. ex.out \in Outcomes \cup {"none"}
      BY DEF TypeOK, Execution
    <3>2. QED  BY <1>5, <3>1, PatchFields DEF Written, TypeOK, Row
  <2>2. row.status \in Working
    BY <1>5, <1>i DEF Written, PcInv
  <2>3. QED  BY <1>w, <2>1, <2>2
<1>6. CASE Written("final", [row EXCEPT !.status = ex.end])
  BY <1>6, <1>i DEF Written, PcInv, TypeOK, Row
<1>7. CASE Written("verdict", [row EXCEPT !.validated = "false"])
  BY <1>7, <1>i DEF Written, PcInv, TypeOK, Row
<1>8. QED  BY <1>1, <1>2, <1>3, <1>4, <1>5, <1>6, <1>7, RowWrites

\* A success that is not a replay was seen: exit 0 in the last attempt and, for
\* a task with a validator, the expected artifact - after a crash as well.
THEOREM SuccessIsVerified == Spec => []SucceededIsVerified
<1>1. Init => SucceededIsVerified
  BY DEF Init, SucceededIsVerified
<1>2. QED  BY <1>1, SucceededStep, ActiveInvariant, PTL DEF Spec

\* The verdict is the last write of an execution.
VerdictInv == /\ VerdictIsEarned
              /\ row.validated = "false" /\ executions = 1 /\ job = "active" =>
                     ex.pc = "return"

\* Every step keeps the verdict earned.
LEMMA VerdictStep ==
    TypeOK /\ ActiveInv /\ VerdictInv /\ [Next]_vars => VerdictInv'
<1> SUFFICES ASSUME TypeOK, ActiveInv, VerdictInv, [Next]_vars,
                    row'.validated = "false", executions' = 1
             PROVE  /\ row'.status = "failed" /\ LastClean(row') /\ LastBad(row')
                    /\ row'.attempts[Len(row'.attempts)].index = MaxAttempts
                    /\ job' = "active" => ex'.pc = "return"
  BY DEF VerdictInv, VerdictIsEarned, LastClean, LastBad
<1>1. CASE executions = 0
  <2>1. row' = row /\ row.validated = "null"
    BY <1>1, FirstExecution DEF ActiveInv, NotStarted
  <2>2. QED  BY <2>1
<1>2. CASE executions = 1
  <2>i. job = "active" => PcInv(row, ex) /\ FirstInv(row, ex)
    BY <1>2 DEF ActiveInv
  <2>1. CASE row.validated = "false"
    <3>1. job = "active" => ex.pc = "return"
      BY <1>2, <2>1 DEF VerdictInv
    <3>2. row' = row
      BY <3>1, RowWrites DEF Written
    <3>3. job' = "active" => ex'.pc = "return"
      <4>1. ~Take
        BY <1>2 DEF Take, TypeOK
      <4>2. CASE job # "active"
        BY <4>1, <4>2
        DEF Next, Step, Load, Start, FindCached, Replay, Plan, Generate, Audit,
            AppendAttempt, Announce, Sandbox, Patch, Collect, Succeed, Reject, Final,
            Verdict, Complete, Restart, vars, At
      <4>3. CASE job = "active"
        BY <3>1, <4>1, <4>3
        DEF Next, Step, Load, Start, FindCached, Replay, Plan, Generate, Audit,
            AppendAttempt, Announce, Sandbox, Patch, Collect, Succeed, Reject, Final,
            Verdict, Complete, Restart, vars, At
      <4>4. QED  BY <4>2, <4>3
    <3>4. QED
      BY <1>2, <2>1, <3>2, <3>3 DEF VerdictInv, VerdictIsEarned, LastClean, LastBad
  <2>2. CASE row.validated # "false"
    <3>1. Written("verdict", [row EXCEPT !.validated = "false"])
      <4>1. ex.out \in Outcomes \cup {"none"}
        BY DEF TypeOK, Execution
      <4>2. PatchOut(ex.out).validated # "false" /\ PatchBad.validated # "false"
        BY <2>2, <4>1, PatchFields
      <4>3. QED  BY <2>2, <4>2, RowWrites DEF Written, ReplayedRow, TypeOK, Row
    <3>2. /\ row.status = "failed" /\ ex.index = MaxAttempts
          /\ Current(row, ex) /\ LastClean(row) /\ LastBad(row)
      BY <2>i, <3>1 DEF Written, PcInv
    <3>3. row'.status = row.status /\ row'.attempts = row.attempts
      BY <3>1 DEF Written, TypeOK, Row
    <3>4. job' = "active" => ex'.pc = "return"
      <4>1. CASE Verdict
        BY <4>1, WriteEx, Fields DEF Verdict
      <4>2. CASE ~Verdict
        BY <2>2, <3>1, <4>2
        DEF Written, Next, Step, Take, Load, Start, FindCached, Replay, Plan, Generate,
            Audit, AppendAttempt, Announce, Sandbox, Patch, Collect, Succeed, Reject,
            Final, Complete, Restart, vars, At
      <4>3. QED  BY <4>1, <4>2
    <3>5. QED  BY <3>2, <3>3, <3>4 DEF Current, LastClean, LastBad
  <2>3. QED  BY <2>1, <2>2
<1>3. QED  BY <1>1, <1>2, FirstExecution

\* Only a run whose last allowed attempt exited cleanly and failed validation
\* is recorded as not validated.
THEOREM VerdictsAreEarned == Spec => []VerdictIsEarned
<1>1. Init => VerdictInv
  BY DEF Init, VerdictInv, VerdictIsEarned
<1>2. VerdictInv => VerdictIsEarned
  BY DEF VerdictInv
<1>3. QED  BY <1>1, <1>2, VerdictStep, ActiveInvariant, PTL DEF Spec
(* --------------------------- The record of calls ------------------------ *)

\* Without a failure and a crash there is one execution, and it lags behind
\* its calls only while it writes a record, or when it ends as a failure.
AuditInv ==
    failures = 0 /\ restarts = 0 =>
        /\ executions = 0 => sent = 0 /\ row.calls = 0
        /\ executions # 0 => executions = 1 /\ job # "waiting"
        /\ job = "active" /\ ex.pc = "audit" => sent = row.calls + 1
        /\ job = "active" /\ ex.pc \notin {"audit", "final", "verdict", "return"} =>
              sent = row.calls
        /\ SuccessIsAudited

\* A write of the row that does not throw.
LEMMA WriteDone ==
    ASSUME TypeOK, NEW r, NEW e, Write(r, e), failures' = 0
    PROVE  ex' = e /\ row' = r /\ job' = job /\ failures = 0
BY DEF Write, Escapes, TypeOK

\* Every step keeps the record.
LEMMA AuditStep == TypeOK /\ ActiveInv /\ AuditInv /\ [Next]_vars => AuditInv'
<1> SUFFICES ASSUME TypeOK, ActiveInv, AuditInv, [Next]_vars,
                    failures' = 0, restarts' = 0
             PROVE  AuditInv'
  BY DEF AuditInv
<1> USE DEF At
<1>0. failures = 0 /\ restarts = 0
  <2>1. restarts = 0 /\ ~Restart
    <3>1. ~Restart
      BY DEF TypeOK, Restart
    <3>2. QED
      BY <3>1
      DEF Next, Step, Take, Load, Start, FindCached, Replay, Plan, Generate, Audit,
          AppendAttempt, Announce, Sandbox, Patch, Collect, Succeed, Reject, Final,
          Verdict, Complete, vars
  <2>2. CASE Load \/ FindCached \/ Audit
    BY <2>2 DEF TypeOK, Escapes, Load, FindCached, Audit
  <2>3. CASE Take \/ Generate \/ Sandbox \/ Complete \/ UNCHANGED vars
    BY <2>3 DEF Take, Generate, Sandbox, Complete, vars
  <2>4. CASE ~(\/ Load \/ FindCached \/ Audit \/ Take \/ Generate \/ Sandbox
               \/ Complete \/ UNCHANGED vars)
    <3>1. \E r, e : Write(r, e)
      BY <2>1, <2>4
      DEF Next, Step, Start, Replay, Plan, AppendAttempt, Announce, Patch, Collect,
          Succeed, Reject, Final, Verdict
    <3>2. QED  BY <2>1, <3>1, WriteDone
  <2>5. QED  BY <2>1, <2>2, <2>3, <2>4
<1>i. /\ executions = 0 => job = "waiting"
      /\ job = "active" => /\ executions = 1 /\ PcInv(row, ex)
                           /\ ex.pc \notin {"verdict", "return"} =>
                                 row.status \notin Terminal
  BY <1>0 DEF ActiveInv, AuditInv, NotStarted, FirstInv
<1>t. "succeeded" \in Terminal /\ row \in Row /\ sent \in Nat /\ row.calls \in Nat
  BY DEF Terminal, TypeOK, Row
<1>p. ASSUME NEW pc
      PROVE  Goto(pc).pc = pc /\ Ending(pc).pc = "final"
  BY Fields
<1>a. ASSUME job = "active", executions' = executions, job' = job, sent' = sent,
             ex.pc \notin {"audit", "verdict", "return", "final"},
             row'.calls = row.calls, row'.status # "succeeded", ex'.pc # "audit"
      PROVE  AuditInv'
  BY <1>0, <1>i, <1>a DEF AuditInv, SuccessIsAudited
<1>1. CASE Take
  <2>1. executions = 0
    BY <1>0, <1>1 DEF Take, AuditInv
  <2>2. row.status = "queued" /\ ex'.pc = "load"
    BY <1>1, <2>1 DEF ActiveInv, NotStarted, Take, NewExecution
  <2>3. QED  BY <1>0, <1>1, <2>1, <2>2 DEF Take, AuditInv, SuccessIsAudited
<1>2. CASE Load
  <2>1. ex' \in {Goto("start"), Ending("failed")} /\ job' = job
    BY <1>0, <1>2 DEF Load, Escapes
  <2>2. QED  BY <1>2, <1>a, <1>i, <1>p, <1>t, <2>1 DEF Load
<1>3. CASE Start
  BY <1>3, <1>a, <1>i, <1>p, <1>t, WriteDone DEF Start
<1>4. CASE FindCached
  <2>1. ex' \in {Goto("plan"), Goto("replay")} /\ job' = job
    BY <1>0, <1>4 DEF FindCached, Escapes
  <2>2. QED  BY <1>4, <1>a, <1>i, <1>p, <1>t, <2>1 DEF FindCached
<1>5. CASE Replay
  <2>1. /\ row' = ReplayedRow /\ job' = job /\ executions' = executions
        /\ ex' = [ex EXCEPT !.pc = "return", !.done = TRUE]
    BY <1>5, WriteDone DEF Replay, ReplayedRow
  <2>2. row'.replayed /\ ex'.pc = "return"
    BY <2>1 DEF ReplayedRow, TypeOK, Row, Execution
  <2>3. QED  BY <1>0, <1>5, <1>i, <2>1, <2>2 DEF AuditInv, SuccessIsAudited, Replay
<1>6. CASE Plan
  <2>1. \E s \in {"planning", "retrying"} : row' = [row EXCEPT !.status = s]
    BY <1>6, WriteDone DEF Plan
  <2>2. ex' = Consume(ex) /\ job' = job
    BY <1>6, WriteDone DEF Plan
  <2>3. ex'.pc \in {"generate", "final"}
    BY <2>2 DEF Consume, TypeOK, Execution
  <2>4. row'.calls = row.calls /\ row'.status # "succeeded"
    BY <1>t, <2>1 DEF Row
  <2>5. QED  BY <1>6, <1>a, <2>2, <2>3, <2>4 DEF Plan
<1>7. CASE Generate
  <2>1. \/ /\ ex'.pc \in {"audit", "final"} /\ sent' = sent + 1
        \/ /\ ex'.pc = "final" /\ sent' = sent
    BY <1>7 DEF Generate, Goto, Ending, TypeOK, Execution
  <2>2. row.status # "succeeded" /\ sent = row.calls
    BY <1>0, <1>7, <1>i, <1>t DEF Generate, AuditInv
  <2>3. QED
    BY <1>0, <1>7, <1>i, <2>1, <2>2 DEF Generate, AuditInv, SuccessIsAudited
<1>8. CASE Audit
  <2>1. row' = [row EXCEPT !.calls = @ + 1] /\ ex' \in {Goto("append"), Ending("failed")}
    BY <1>0, <1>8 DEF Audit
  <2>2. row'.calls = row.calls + 1 /\ row'.status = row.status
    BY <1>t, <2>1 DEF Row
  <2>3. sent = row.calls + 1 /\ row.status # "succeeded"
    BY <1>0, <1>8, <1>i, <1>t DEF Audit, AuditInv
  <2>4. ex'.pc \in {"append", "final"}
    BY <1>p, <2>1
  <2>5. QED
    BY <1>0, <1>8, <1>i, <2>2, <2>3, <2>4 DEF Audit, AuditInv, SuccessIsAudited
<1>9. CASE AppendAttempt \/ Announce
  <2>1. /\ job = "active" /\ ex.pc \in {"append", "announce"}
        /\ job' = job /\ executions' = executions /\ sent' = sent
        /\ ex' \in {Goto("announce"), Goto("sandbox")}
    BY <1>9, WriteDone DEF AppendAttempt, Announce
  <2>2. \/ row' = [row EXCEPT !.attempts = Append(@, NewAttempt)]
        \/ row' = [row EXCEPT !.status = "executing"]
    BY <1>9, WriteDone DEF AppendAttempt, Announce, NewAttempt
  <2>3. row'.calls = row.calls /\ row'.status # "succeeded"
    BY <1>i, <1>t, <2>1, <2>2 DEF Row
  <2>4. QED  BY <1>a, <1>p, <2>1, <2>3
<1>10. CASE Sandbox
  <2>1. ex'.pc = "patch"
    BY <1>10 DEF Sandbox, Goto, TypeOK, Execution
  <2>2. QED  BY <1>10, <1>a, <1>i, <1>t, <2>1 DEF Sandbox
<1>11. CASE Patch \/ Reject
  <2>1. /\ job = "active" /\ ex.pc \in {"patch", "reject"}
        /\ job' = job /\ executions' = executions /\ sent' = sent
        /\ row' \in {PatchOut(ex.out), PatchBad}
        /\ ex' \in {Ending("failed"), Goto("collect"), NextAttempt}
    BY <1>11, WriteDone DEF Patch, Reject
  <2>2. row'.calls = row.calls /\ row'.status = row.status
    BY <1>t, <2>1 DEF PatchOut, PatchBad, Row
  <2>3. ex'.pc \in {"final", "collect", "plan"}
    BY <1>p, <2>1, NextFields
  <2>4. QED  BY <1>a, <1>i, <1>t, <2>1, <2>2, <2>3
<1>12. CASE Collect
  <2>1. /\ row' = row /\ job' = job
        /\ \/ ex' = Goto("succeed")
           \/ ex' = [Goto("reject") EXCEPT !.bad = TRUE]
    BY <1>12, WriteDone DEF Collect
  <2>2. ex'.pc \in {"succeed", "reject"}
    BY <2>1 DEF Goto, TypeOK, Execution
  <2>3. QED  BY <1>12, <1>a, <1>i, <1>t, <2>1, <2>2 DEF Collect
<1>13. CASE Succeed
  <2>1. /\ row'.calls = row.calls /\ job' = job
        /\ ex' = [ex EXCEPT !.pc = "return", !.done = TRUE]
    <3>1. /\ row' = [row EXCEPT !.status = "succeeded",
                               !.validated = IF checked THEN "true" ELSE "null"]
          /\ ex' = [ex EXCEPT !.pc = "return", !.done = TRUE] /\ job' = job
      BY <1>13, WriteDone DEF Succeed
    <3>2. QED  BY <1>t, <3>1 DEF Row
  <2>2. ex'.pc = "return" /\ sent = row.calls
    BY <1>0, <1>13, <2>1 DEF Succeed, AuditInv, TypeOK, Execution
  <2>3. QED
    BY <1>0, <1>13, <1>i, <2>1, <2>2 DEF Succeed, AuditInv, SuccessIsAudited
<1>14. CASE Final \/ Verdict
  <2>1. /\ job = "active" /\ ex.pc \in {"final", "verdict"}
        /\ job' = job /\ executions' = executions
    BY <1>14, WriteDone DEF Final, Verdict
  <2>2. row'.status # "succeeded"
    <3>1. CASE Final
      <4>1. row' = [row EXCEPT !.status = ex.end] /\ ex.end # "succeeded"
        BY <1>i, <3>1, WriteDone DEF Final, PcInv
      <4>2. QED  BY <1>t, <4>1 DEF Row
    <3>2. CASE Verdict
      <4>1. row' = [row EXCEPT !.validated = "false"] /\ row.status = "failed"
        BY <1>i, <3>2, WriteDone DEF Verdict, PcInv
      <4>2. QED  BY <1>t, <4>1 DEF Row
    <3>3. QED  BY <1>14, <3>1, <3>2
  <2>3. ex'.pc \in {"verdict", "return"}
    <3>1. CASE Final
      <4>1. ex' = [ex EXCEPT !.pc = FinalNext(ex.end), !.done = TRUE]
        BY <3>1, WriteDone DEF Final
      <4>2. QED  BY <4>1 DEF FinalNext, TypeOK, Execution
    <3>2. CASE Verdict
      BY <1>p, <3>2, WriteDone DEF Verdict
    <3>3. QED  BY <1>14, <3>1, <3>2
  <2>4. QED  BY <1>0, <1>i, <2>1, <2>2, <2>3 DEF AuditInv, SuccessIsAudited
<1>15. CASE Complete
  BY <1>0, <1>15, <1>i DEF Complete, AuditInv, SuccessIsAudited
<1>16. CASE Restart
  BY <1>0, <1>16 DEF Restart
<1>17. CASE UNCHANGED vars
  BY <1>0, <1>17 DEF vars, AuditInv, SuccessIsAudited
<1>18. QED
  BY <1>1, <1>2, <1>3, <1>4, <1>5, <1>6, <1>7, <1>8, <1>9, <1>10, <1>11, <1>12,
     <1>13, <1>14, <1>15, <1>16, <1>17 DEF Next, Step

\* Nothing of what a successful run spent goes unrecorded: as long as nothing
\* fails and the process lives, its row holds one record for each Gemini call.
THEOREM SuccessfulCallsAreAudited == Spec => []SuccessIsAudited
<1>1. Init => AuditInv
  BY DEF Init, AuditInv, SuccessIsAudited
<1>2. TypeOK /\ AuditInv => SuccessIsAudited
  BY DEF AuditInv, SuccessIsAudited
<1>3. QED  BY <1>1, <1>2, AuditStep, ActiveInvariant, PTL DEF Spec

-----------------------------------------------------------------------------
(* What the page of a run shows. *)

(* ----------------------------- Frames and views ------------------------- *)

\* What the stream's frames, the page's fetched runs and its shown attempts are
\* made of.
Statuses == {"queued"} \cup Working \cup Terminal \cup {""}

Views == [status : Statuses, tries : Seq([index : Nat, out : Outcomes \cup {"none"}])]

Frames ==
    [event : {"status", "done", "error"}, index : {0}, what : Statuses]
    \cup [event : {"start"}, index : 1..MaxAttempts, what : {""}]
    \cup [event : {"result"}, index : 1..MaxAttempts, what : Results]

Pages ==
    [status : Statuses, done : BOOLEAN, failed : BOOLEAN, run : Views,
     tries : [1..MaxAttempts -> {"none", "running"} \cup Results],
     by : {"none", "mount", "refetch"}]

PageTypes ==
    /\ request \in [Requests -> {"none", "asked", "read", "live", "over", "lost"}]
    /\ seen \in [Requests -> Views]
    /\ channel \in Seq(Frames)
    /\ page \in Pages
    /\ missed \in BOOLEAN /\ lost \in Nat

IsResult(f, i) == f.event = "result" /\ f.index = i
IsStart(f, i) == f.event = "start" /\ f.index = i

\* A result of attempt i follows place p of a list of frames.
Follows(frames, p, i) == \E q \in DOMAIN frames : q > p /\ IsResult(frames[q], i)

\* Short lists.
LEMMA Tuples ==
    ASSUME NEW S, NEW a \in S, NEW b \in S
    PROVE  /\ <<a>> \in Seq(S) /\ <<a, b>> \in Seq(S) /\ <<>> \in Seq(S)
           /\ Len(<<a>>) = 1 /\ Len(<<a, b>>) = 2 /\ Len(<<>>) = 0
           /\ <<a>>[1] = a /\ <<a, b>>[1] = a /\ <<a, b>>[2] = b
           /\ <<a>> \o <<b>> = <<a, b>>
           /\ DOMAIN <<a>> = {1} /\ DOMAIN <<a, b>> = {1, 2} /\ DOMAIN <<>> = {}
<1>1. /\ <<a>> \in Seq(S) /\ <<b>> \in Seq(S) /\ <<a, b>> \in Seq(S) /\ <<>> \in Seq(S)
      /\ Len(<<a>>) = 1 /\ Len(<<b>>) = 1 /\ Len(<<a, b>>) = 2 /\ Len(<<>>) = 0
      /\ <<a>>[1] = a /\ <<b>>[1] = b /\ <<a, b>>[1] = a /\ <<a, b>>[2] = b
  OBVIOUS
<1>2. DOMAIN <<a>> = {1} /\ DOMAIN <<a, b>> = {1, 2} /\ DOMAIN <<>> = {}
  OBVIOUS
<1>3. <<a>> \o <<b>> = <<a, b>>
  <2> DEFINE s == <<a>> \o <<b>>
             t == <<a, b>>
  <2>1. s \in Seq(S) /\ Len(s) = 2 /\ s[1] = a /\ s[2] = b
    BY <1>1, ConcatProperties
  <2>2. t \in Seq(S) /\ Len(t) = 2 /\ t[1] = a /\ t[2] = b
    BY <1>1
  <2> HIDE DEF s, t
  <2>3. \A i \in 1..Len(s) : s[i] = t[i]
    BY <2>1, <2>2
  <2>4. s = t
    BY <2>1, <2>2, <2>3, SeqEqual
  <2>5. QED  BY <2>4 DEF s, t
<1>4. QED  BY <1>1, <1>2, <1>3

\* Concatenating a list of lists goes block by block.
LEMMA FlattenSteps ==
    ASSUME NEW S, NEW s \in Seq(Seq(S)), Len(s) > 0
    PROVE  \E f : /\ f = [i \in 1..Len(s) |-> IF i = 1 THEN s[i] ELSE f[i-1] \o s[i]]
                  /\ FlattenSeq(s) = f[Len(s)]
<1> DEFINE Rec(f, m) == f = [i \in 1..m |-> IF i = 1 THEN s[i] ELSE f[i-1] \o s[i]]
           Bad == {m \in Nat : m > 0 /\ ~\E f : Rec(f, m)}
<1>1. Bad = {}
  <2> SUFFICES ASSUME Bad # {} PROVE FALSE
    OBVIOUS
  <2>1. PICK m \in Bad : \A y \in Bad : ~(<<y, m>> \in OpToRel(<, Nat))
    BY NatLessThanWellFounded, WFMin
  <2>2. m \in Nat /\ m > 0 /\ ~\E f : Rec(f, m)
    BY <2>1
  <2>3. \A y \in Nat : y > 0 /\ y < m => \E f : Rec(f, y)
    BY <2>1, <2>2 DEF OpToRel
  <2> HIDE DEF Bad
  <2>4. CASE m = 1
    <3>1. Rec([i \in 1..1 |-> s[1]], 1)
      OBVIOUS
    <3>2. QED  BY <2>2, <2>4, <3>1
  <2>5. CASE m # 1
    <3>1. PICK k \in Nat : k = m - 1 /\ k > 0 /\ k < m
      BY <2>2, <2>5
    <3>2. PICK g : Rec(g, k)
      <4> HIDE DEF Rec
      <4>1. QED  BY <2>3, <3>1
    <3> DEFINE h == [i \in 1..m |-> IF i < m THEN g[i] ELSE g[m-1] \o s[m]]
    <3>3. ASSUME NEW i \in 1..m
          PROVE  h[i] = IF i = 1 THEN s[i] ELSE h[i-1] \o s[i]
      <4>1. CASE i = m
        <5>0. m \in 1..m /\ ~(m < m) /\ m-1 \in 1..m /\ m-1 < m
          BY <2>2, <3>1
        <5>1. h[m] = g[m-1] \o s[m] /\ h[m-1] = g[m-1]
          BY <5>0
        <5>2. QED  BY <2>5, <4>1, <5>1
      <4>2. CASE i # m
        <5>1. i \in 1..k /\ h[i] = g[i] /\ (i # 1 => h[i-1] = g[i-1])
          BY <2>2, <3>1, <4>2
        <5>2. g[i] = IF i = 1 THEN s[i] ELSE g[i-1] \o s[i]
          BY <3>2, <5>1
        <5>3. QED  BY <5>1, <5>2
      <4>3. QED  BY <4>1, <4>2
    <3>4. h = [i \in 1..m |-> h[i]]
      OBVIOUS
    <3>5. Rec(h, m)
      <4> HIDE DEF h
      <4>1. QED  BY <3>3, <3>4
    <3>6. QED  BY <2>2, <3>5
  <2>6. QED  BY <2>4, <2>5
<1>2. \E f : Rec(f, Len(s))
  <2>1. Len(s) \in Nat
    OBVIOUS
  <2> HIDE DEF Rec
  <2>2. QED  BY <1>1, <2>1
<1> DEFINE flat == CHOOSE f : f = [i \in 1..Len(s) |-> IF i = 1 THEN s[i] ELSE f[i-1] \o s[i]]
<1>3. flat = [i \in 1..Len(s) |-> IF i = 1 THEN s[i] ELSE flat[i-1] \o s[i]]
  BY <1>2, Zenon
<1>4. FlattenSeq(s) = flat[Len(s)]
  <2>1. Len(s) # 0
    OBVIOUS
  <2>2. QED  BY <2>1, Zenon DEF FlattenSeq
<1> HIDE DEF flat
<1>5. QED  BY <1>3, <1>4

\* What a stream writes of a row's attempts: results that the row has, and no
\* start of an attempt with a result that is not followed by the result.
Retells(v, frames) ==
    /\ frames \in Seq(Frames)
    /\ \A p \in DOMAIN frames :
          /\ frames[p].event \in {"status", "start", "result"}
          /\ frames[p].event = "result" =>
                /\ frames[p].index \in DOMAIN v.tries
                /\ v.tries[frames[p].index].out = frames[p].what
          /\ \A i : IsStart(frames[p], i) =>
                /\ i \in DOMAIN v.tries
                /\ v.tries[i].out \in Results => Follows(frames, p, i)

\* Two such lists, one after the other, are one.
LEMMA RetellsConcat ==
    ASSUME NEW v, NEW s, NEW t, Retells(v, s), Retells(v, t)
    PROVE  Retells(v, s \o t)
<1>1. /\ s \o t \in Seq(Frames) /\ Len(s) \in Nat /\ Len(t) \in Nat
      /\ Len(s \o t) = Len(s) + Len(t)
      /\ DOMAIN (s \o t) = 1..(Len(s) + Len(t))
      /\ DOMAIN s = 1..Len(s) /\ DOMAIN t = 1..Len(t)
  BY DEF Retells
<1>2. ASSUME NEW p \in DOMAIN (s \o t)
      PROVE  \/ p \in DOMAIN s /\ (s \o t)[p] = s[p]
             \/ p - Len(s) \in DOMAIN t /\ (s \o t)[p] = t[p - Len(s)]
  BY <1>1 DEF Retells
<1>3. \A p \in DOMAIN s : p \in DOMAIN (s \o t) /\ (s \o t)[p] = s[p]
  BY <1>1 DEF Retells
<1>4. \A p \in DOMAIN t : Len(s) + p \in DOMAIN (s \o t) /\ (s \o t)[Len(s) + p] = t[p]
  BY <1>1 DEF Retells
<1>5. ASSUME NEW p \in DOMAIN s, NEW i, Follows(s, p, i) PROVE Follows(s \o t, p, i)
  BY <1>3, <1>5 DEF Follows
<1>6. ASSUME NEW p \in DOMAIN (s \o t), NEW r \in DOMAIN t, r = p - Len(s), NEW i,
             Follows(t, r, i)
      PROVE  Follows(s \o t, p, i)
  <2>1. PICK q \in DOMAIN t : q > r /\ IsResult(t[q], i)
    BY <1>6 DEF Follows
  <2>2. PICK n \in Nat : n = Len(s)
    BY <1>1
  <2>3. n + q > p
    BY <1>1, <1>6, <2>1, <2>2
  <2>4. QED  BY <1>4, <2>1, <2>2, <2>3 DEF Follows
<1> DEFINE Good(u, p) ==
          /\ u[p].event \in {"status", "start", "result"}
          /\ u[p].event = "result" =>
                /\ u[p].index \in DOMAIN v.tries
                /\ v.tries[u[p].index].out = u[p].what
          /\ \A i : IsStart(u[p], i) =>
                /\ i \in DOMAIN v.tries
                /\ v.tries[i].out \in Results => Follows(u, p, i)
<1>7. ASSUME NEW p \in DOMAIN (s \o t) PROVE Good(s \o t, p)
  <2>1. CASE p \in DOMAIN s /\ (s \o t)[p] = s[p]
    <3>1. Good(s, p)
      BY <2>1 DEF Retells
    <3>2. QED  BY <1>5, <2>1, <3>1
  <2>2. CASE p - Len(s) \in DOMAIN t /\ (s \o t)[p] = t[p - Len(s)]
    <3>1. PICK r \in DOMAIN t : r = p - Len(s)
      BY <2>2
    <3>2. Good(t, r)
      BY DEF Retells
    <3>3. QED  BY <1>6, <2>2, <3>1, <3>2
  <2>3. QED  BY <1>2, <2>1, <2>2
<1>8. QED  BY <1>1, <1>7 DEF Retells

\* streamRun replays the row that it has read.
LEMMA ReplayedFrames ==
    ASSUME NEW v \in Views, Len(v.tries) <= MaxAttempts,
           \A i \in DOMAIN v.tries : v.tries[i].index = i
    PROVE  \E frames : /\ Retells(v, frames)
                       /\ Replayed(v) = IF v.status \in Terminal
                                        THEN frames \o <<Frame("done", 0, v.status)>>
                                        ELSE frames
<1> DEFINE n == Len(v.tries)
           block(i) == <<Frame("start", v.tries[i].index, "")>>
                       \o IF v.tries[i].out \in Results
                          THEN <<Frame("result", v.tries[i].index, v.tries[i].out)>> ELSE <<>>
           blocks == [i \in DOMAIN v.tries |-> block(i)]
           head == <<Frame("status", 0, v.status)>>
<1>1. n \in Nat /\ DOMAIN v.tries = 1..n /\ v.status \in Statuses /\ MaxAttempts \in Nat
  BY LimitsAssumption DEF Views
<1>2. Retells(v, head)
  BY <1>1 DEF Retells, Frame, Frames, IsStart
<1>3. ASSUME NEW i \in DOMAIN v.tries PROVE Retells(v, block(i))
  <2>1. i \in 1..MaxAttempts /\ v.tries[i].index = i
    BY <1>1
  <2> DEFINE a == Frame("start", i, "")
             b == Frame("result", i, v.tries[i].out)
  <2>s. a \in Frames /\ a.event = "start" /\ a.index = i
    BY <2>1 DEF Frame, Frames
  <2>2. CASE v.tries[i].out \in Results
    <3>1. b \in Frames /\ b.event = "result" /\ b.index = i /\ b.what = v.tries[i].out
      BY <2>1, <2>2 DEF Frame, Frames
    <3> HIDE DEF a, b
    <3>2. /\ <<a, b>> \in Seq(Frames) /\ DOMAIN <<a, b>> = {1, 2}
          /\ <<a, b>>[1] = a /\ <<a, b>>[2] = b /\ <<a>> \o <<b>> = <<a, b>>
      BY <2>s, <3>1, Tuples
    <3>3. block(i) = <<a, b>>
      BY <2>1, <2>2, <3>2 DEF a, b
    <3>4. Follows(<<a, b>>, 1, i)
      BY <3>1, <3>2 DEF Follows, IsResult
    <3> DEFINE t == <<a, b>>
    <3>5. t \in Seq(Frames) /\ DOMAIN t = {1, 2} /\ t[1] = a /\ t[2] = b /\ Follows(t, 1, i)
      BY <3>2, <3>4
    <3> HIDE DEF t
    <3>6. Retells(v, t)
      BY <2>s, <3>1, <3>5 DEF Retells, IsStart
    <3>7. QED  BY <3>3, <3>6 DEF t
  <2>3. CASE v.tries[i].out \notin Results
    <3> HIDE DEF a
    <3>1. <<a>> \in Seq(Frames) /\ DOMAIN <<a>> = {1} /\ <<a>>[1] = a /\ <<a>> \o <<>> = <<a>>
      BY <2>s, Tuples, ConcatEmptySeq
    <3>2. block(i) = <<a>>
      BY <2>1, <2>3, <3>1 DEF a
    <3> DEFINE t == <<a>>
    <3>5. t \in Seq(Frames) /\ DOMAIN t = {1} /\ t[1] = a
      BY <3>1
    <3> HIDE DEF t
    <3>6. Retells(v, t)
      BY <2>s, <2>3, <3>5 DEF Retells, IsStart
    <3>7. QED  BY <3>2, <3>6 DEF t
  <2>4. QED  BY <2>2, <2>3
<1>4. Retells(v, FlattenSeq(blocks))
  <2>0. blocks \in Seq(Seq(Frames)) /\ Len(blocks) = n
    <3>1. \A i \in 1..n : block(i) \in Seq(Frames)
      BY <1>1, <1>3 DEF Retells
    <3> HIDE DEF block
    <3>2. QED  BY <1>1, <3>1
  <2>1. CASE n = 0
    <3>1. FlattenSeq(blocks) = blocks
      BY <2>0, <2>1 DEF FlattenSeq
    <3>2. blocks = <<>>
      <4> HIDE DEF blocks
      <4>1. QED  BY <2>0, <2>1, EmptySeq
    <3>3. <<>> \in Seq(Frames) /\ DOMAIN <<>> = {}
      OBVIOUS
    <3>4. QED  BY <3>1, <3>2, <3>3 DEF Retells
  <2>2. CASE n # 0
    <3> HIDE DEF blocks
    <3>1. PICK f : /\ f = [i \in 1..n |-> IF i = 1 THEN blocks[i] ELSE f[i-1] \o blocks[i]]
                   /\ FlattenSeq(blocks) = f[n]
      <4>1. Len(blocks) > 0 /\ blocks \in Seq(Seq(Frames)) /\ n = Len(blocks)
        BY <1>1, <2>0, <2>2
      <4>2. QED  BY <4>1, FlattenSteps
    <3> DEFINE Bad == {m \in Nat : m \in 1..n /\ ~Retells(v, f[m])}
    <3>2. Bad = {}
      <4> SUFFICES ASSUME Bad # {} PROVE FALSE
        OBVIOUS
      <4>1. PICK m \in Bad : \A y \in Bad : ~(<<y, m>> \in OpToRel(<, Nat))
        BY NatLessThanWellFounded, WFMin
      <4>2. m \in Nat /\ m \in 1..n /\ ~Retells(v, f[m])
        BY <4>1
      <4>3. Retells(v, blocks[m])
        BY <1>1, <1>3, <4>2 DEF blocks
      <4>4. CASE m = 1
        <5>1. f[m] = blocks[m]
          BY <3>1, <4>2, <4>4
        <5>2. QED  BY <4>2, <4>3, <5>1
      <4>5. CASE m # 1
        <5>1. PICK k \in Nat : k = m - 1 /\ k \in 1..n /\ k < m
          BY <1>1, <4>2, <4>5
        <5>2. Retells(v, f[k])
          BY <4>1, <4>2, <5>1 DEF OpToRel
        <5>3. f[m] = f[k] \o blocks[m]
          BY <3>1, <4>2, <4>5, <5>1
        <5>4. QED  BY <4>2, <4>3, <5>2, <5>3, RetellsConcat
      <4>6. QED  BY <4>4, <4>5
    <3>3. n \in Nat /\ n \in 1..n
      BY <1>1, <2>2
    <3>4. Retells(v, f[n])
      <4>1. n \notin Bad
        BY <3>2
      <4> HIDE DEF n
      <4>2. QED  BY <3>3, <4>1 DEF Bad
    <3>5. QED  BY <3>1, <3>4
  <2>3. QED  BY <2>1, <2>2
<1> DEFINE frames == head \o FlattenSeq(blocks)
<1>5. Retells(v, frames)
  BY <1>2, <1>4, RetellsConcat
<1>6. frames \o <<>> = frames
  BY <1>5, ConcatEmptySeq DEF Retells
<1>7. Replayed(v) = frames \o IF v.status \in Terminal THEN <<Frame("done", 0, v.status)>> ELSE <<>>
  BY DEF Replayed
<1>8. QED  BY <1>5, <1>6, <1>7

(* ------------------- The attempts of a run's first execution ------------ *)

InOrder(r) == (\A i \in DOMAIN r.attempts : r.attempts[i].index = i)
                  /\ Len(r.attempts) <= MaxAttempts

Counted(r, e) ==
    /\ e.pc \in {"load", "start", "cache", "replay", "plan", "generate", "audit", "append"} =>
          Len(r.attempts) = e.index - 1
    /\ e.pc \in {"announce", "sandbox", "patch", "collect", "succeed", "reject"} =>
          Len(r.attempts) = e.index
    /\ e.pc = "patch" => e.out \in Outcomes

Numbered == executions <= 1 => InOrder(row) /\ (job = "active" => Counted(row, ex))

\* A write of the row r that leads to the local state e, or throws.
LEMMA WriteNumbered ==
    ASSUME TypeOK, Numbered, job = "active", NEW r, NEW e, Write(r, e), executions' = executions,
           executions <= 1 => InOrder(r) /\ Counted(r, e)
    PROVE  Numbered'
<1>1. CASE ex' = e /\ row' = r /\ job' = job
  BY <1>1 DEF Numbered, InOrder, Counted
<1>2. CASE row' \in {row, r} /\ job' = "failed"
  BY <1>2 DEF Numbered, InOrder
<1>3. QED  BY <1>1, <1>2, WriteEx

\* A step that leaves the row alone.
LEMMA LocalNumbered ==
    ASSUME TypeOK, Numbered, row' = row, executions' = executions,
           job' = "active" /\ executions <= 1 => Counted(row, ex')
    PROVE  Numbered'
BY DEF Numbered, InOrder, Counted

\* In the first execution the attempts are numbered as they come.
LEMMA NumberedStep ==
    TypeOK /\ CallsInv /\ ActiveInv /\ Numbered /\ [Next]_vars => Numbered'
<1> SUFFICES ASSUME TypeOK, CallsInv, ActiveInv, Numbered, [Next]_vars PROVE Numbered'
  OBVIOUS
<1> USE DEF At
<1>t. /\ executions \in Nat /\ ex.index \in Nat /\ Len(row.attempts) \in Nat
      /\ ex.index <= MaxAttempts /\ MaxAttempts \in Nat \ {0}
  BY LimitsAssumption, LastOf, CounterType DEF TypeOK, CallsInv
<1>i. job = "active" /\ executions <= 1 =>
          InOrder(row) /\ Counted(row, ex) /\ FirstInv(row, ex)
  BY <1>t DEF Numbered, ActiveInv, NotStarted
<1>f. ASSUME NEW pc
      PROVE  /\ Goto(pc).pc = pc /\ Goto(pc).index = ex.index
             /\ Ending(pc).pc = "final" /\ Ending(pc).index = ex.index
  BY Fields
<1>a. ASSUME NEW r, r.attempts = row.attempts, InOrder(row) PROVE InOrder(r)
  BY <1>a DEF InOrder
<1>1. CASE Take
  <2>1. ASSUME executions' <= 1 PROVE InOrder(row') /\ Counted(row', ex')
    <3>1. executions = 0
      BY <1>1, <1>t, <2>1 DEF Take
    <3>2. row'.attempts = <<>> /\ ex'.pc = "load" /\ ex'.index = 1
      BY <1>1, <3>1 DEF ActiveInv, NotStarted, Take, NewExecution
    <3>3. Len(row'.attempts) = 0 /\ DOMAIN row'.attempts = {}
      BY <3>2
    <3>4. QED  BY <1>t, <3>2, <3>3 DEF InOrder, Counted
  <2>2. QED  BY <2>1 DEF Numbered
<1>2. CASE Load
  <2>1. executions' = executions /\ row' = row /\ job = "active" /\ ex.pc = "load"
        /\ (job' = "active" => ex' \in {Goto("start"), Ending("failed")})
    BY <1>2 DEF Load, Escapes
  <2>2. QED  BY <1>f, <1>i, <2>1, LocalNumbered DEF Counted
<1>3. CASE Start
  <2>1. \A pc \in {"cache", "plan"} :
           executions <= 1 => InOrder(row) /\ Counted(row, Goto(pc))
    BY <1>3, <1>f, <1>i DEF Counted, Start
  <2>2. QED  BY <1>3, <2>1, WriteNumbered DEF Start
<1>4. CASE FindCached
  <2>1. executions' = executions /\ row' = row /\ job = "active" /\ ex.pc = "cache"
        /\ (job' = "active" => ex' \in {Goto("plan"), Goto("replay")})
    BY <1>4 DEF FindCached, Escapes
  <2>2. QED  BY <1>f, <1>i, <2>1, LocalNumbered DEF Counted
<1>5. CASE Replay
  <2> DEFINE e == [ex EXCEPT !.pc = "return", !.done = TRUE]
  <2>1. e.pc = "return"
    BY DEF TypeOK, Execution
  <2>2. /\ ReplayedRow.attempts = <<[index |-> 1, of |-> 0, out |-> "clean", bad |-> FALSE]>>
        /\ Len(ReplayedRow.attempts) = 1 /\ DOMAIN ReplayedRow.attempts = {1}
        /\ ReplayedRow.attempts[1].index = 1
    <3>1. ReplayedRow.attempts = <<[index |-> 1, of |-> 0, out |-> "clean", bad |-> FALSE]>>
      BY DEF ReplayedRow, TypeOK, Row
    <3>2. QED  BY <3>1
  <2>3. InOrder(ReplayedRow)
    BY <1>t, <2>2 DEF InOrder
  <2>4. Counted(ReplayedRow, e)
    BY <2>1 DEF Counted
  <2>5. Write(ReplayedRow, e) /\ job = "active" /\ executions' = executions
    BY <1>5 DEF Replay, ReplayedRow
  <2> HIDE DEF e
  <2>6. QED  BY <2>3, <2>4, <2>5, WriteNumbered
<1>6. CASE Plan
  <2>1. Consume(ex).pc \in {"generate", "final"} /\ Consume(ex).index = ex.index
    BY DEF Consume, TypeOK, Execution
  <2> DEFINE r == [row EXCEPT !.status = IF ex.index = 1 THEN "planning" ELSE "retrying"]
  <2>2. r.attempts = row.attempts
    BY DEF TypeOK, Row
  <2>3. executions <= 1 => InOrder(r) /\ Counted(r, Consume(ex))
    BY <1>6, <1>a, <1>i, <2>1, <2>2 DEF Counted, Plan
  <2>4. QED  BY <1>6, <2>3, WriteNumbered DEF Plan
<1>7. CASE Generate
  <2>1. ex'.pc \in {"audit", "final"} /\ ex'.index = ex.index
    BY <1>7 DEF Generate, Goto, Ending, TypeOK, Execution
  <2>2. QED  BY <1>7, <1>i, <2>1, LocalNumbered DEF Counted, Generate
<1>8. CASE Audit
  <2>1. /\ ex' \in {Goto("append"), Ending("failed")} /\ row'.attempts = row.attempts
        /\ executions' = executions /\ ex.pc = "audit" /\ job = "active"
    BY <1>8 DEF Audit, TypeOK, Row
  <2>2. executions <= 1 => InOrder(row') /\ Counted(row', ex')
    BY <1>a, <1>f, <1>i, <2>1 DEF Counted
  <2>3. QED  BY <2>1, <2>2 DEF Numbered
<1>9. CASE AppendAttempt
  <2> DEFINE r == [row EXCEPT !.attempts = Append(@, NewAttempt)]
  <2>1. NewAttempt \in Attempt /\ NewAttempt.index = ex.index
    BY CounterType DEF TypeOK, NewAttempt, Attempt
  <2>2. r.attempts = Append(row.attempts, NewAttempt)
    BY DEF TypeOK, Row
  <2>3. /\ Len(r.attempts) = Len(row.attempts) + 1
        /\ DOMAIN r.attempts = 1..(Len(row.attempts) + 1)
        /\ r.attempts[Len(row.attempts) + 1] = NewAttempt
        /\ \A i \in DOMAIN row.attempts : r.attempts[i] = row.attempts[i]
    BY <2>1, <2>2 DEF TypeOK, Row
  <2> HIDE DEF r
  <2>4. ASSUME executions <= 1 PROVE InOrder(r) /\ Counted(r, Goto("announce"))
    <3>1. InOrder(row) /\ Len(row.attempts) = ex.index - 1
      BY <1>9, <1>i, <2>4 DEF Counted, AppendAttempt
    <3>2. \A i \in DOMAIN r.attempts : r.attempts[i].index = i
      <4>1. \A i \in DOMAIN r.attempts : i \in DOMAIN row.attempts \/ i = Len(row.attempts) + 1
        BY <1>t, <2>3, LastOf
      <4>2. QED  BY <1>t, <2>1, <2>3, <3>1, <4>1 DEF InOrder
    <3>3. Len(r.attempts) = ex.index
      BY <1>t, <2>3, <3>1
    <3>4. QED  BY <1>f, <1>t, <3>2, <3>3 DEF InOrder, Counted
  <2>5. QED  BY <1>9, <2>4, WriteNumbered DEF AppendAttempt, NewAttempt, r
<1>10. CASE Announce
  <2> DEFINE r == [row EXCEPT !.status = "executing"]
  <2>2. r.attempts = row.attempts
    BY DEF TypeOK, Row
  <2>3. executions <= 1 => InOrder(r) /\ Counted(r, Goto("sandbox"))
    BY <1>10, <1>a, <1>f, <1>i, <2>2 DEF Counted, Announce
  <2>4. QED  BY <1>10, <2>3, WriteNumbered DEF Announce
<1>11. CASE Sandbox
  <2>1. ex'.pc = "patch" /\ ex'.index = ex.index /\ ex'.out \in Outcomes
    BY <1>11 DEF Sandbox, Goto, TypeOK, Execution
  <2>2. QED  BY <1>11, <1>i, <2>1, LocalNumbered DEF Counted, Sandbox
<1>n. ASSUME NEW r, Len(r.attempts) = ex.index,
             InOrder(r)
      PROVE  Counted(r, NextAttempt)
  <2>1. \/ NextAttempt.pc = "plan" /\ NextAttempt.index = ex.index + 1
        \/ NextAttempt.pc = "final"
    BY NextFields
  <2>2. QED  BY <1>n, <1>t, <2>1 DEF Counted
<1>12. CASE Patch
  <2>1. ex.out \in Outcomes \cup {"none"}
    BY DEF TypeOK, Execution
  <2> DEFINE r == PatchOut(ex.out)
  <2>2. /\ Len(r.attempts) = Len(row.attempts) /\ DOMAIN r.attempts = DOMAIN row.attempts
        /\ \A i \in DOMAIN row.attempts : r.attempts[i].index = row.attempts[i].index
    BY <2>1, PatchFields
  <2> HIDE DEF r
  <2>3. ASSUME executions <= 1
        PROVE  /\ InOrder(r) /\ Counted(r, Ending("failed")) /\ Counted(r, Goto("collect"))
               /\ Counted(r, NextAttempt)
    <3>1. InOrder(row) /\ Len(row.attempts) = ex.index
      BY <1>12, <1>i, <2>3 DEF Counted, Patch
    <3>2. InOrder(r) /\ Len(r.attempts) = ex.index
      BY <2>2, <3>1 DEF InOrder
    <3>3. QED  BY <1>f, <1>n, <3>2 DEF Counted
  <2>4. QED  BY <1>12, <2>3, WriteNumbered DEF Patch, r
<1>13. CASE Collect
  <2>1. /\ [Goto("reject") EXCEPT !.bad = TRUE].pc = "reject"
        /\ [Goto("reject") EXCEPT !.bad = TRUE].index = ex.index
    BY DEF Goto, TypeOK, Execution
  <2>2. executions <= 1 => /\ InOrder(row) /\ Counted(row, Goto("succeed"))
                           /\ Counted(row, [Goto("reject") EXCEPT !.bad = TRUE])
    BY <1>13, <1>f, <1>i, <2>1 DEF Counted, Collect
  <2>3. QED  BY <1>13, <2>2, WriteNumbered DEF Collect
<1>14. CASE Succeed
  <2> DEFINE r == [row EXCEPT !.status = "succeeded",
                              !.validated = IF checked THEN "true" ELSE "null"]
             e == [ex EXCEPT !.pc = "return", !.done = TRUE]
  <2>1. r.attempts = row.attempts /\ e.pc = "return"
    BY DEF TypeOK, Row, Execution
  <2>2. executions <= 1 => InOrder(r) /\ Counted(r, e)
    BY <1>14, <1>a, <1>i, <2>1 DEF Counted, Succeed
  <2>3. QED  BY <1>14, <2>2, WriteNumbered DEF Succeed
<1>15. CASE Reject
  <2>1. ex.out \in Outcomes \cup {"none"}
    BY DEF TypeOK, Execution
  <2> DEFINE r == PatchBad
  <2>2. /\ Len(r.attempts) = Len(row.attempts) /\ DOMAIN r.attempts = DOMAIN row.attempts
        /\ \A i \in DOMAIN row.attempts : r.attempts[i].index = row.attempts[i].index
    BY <2>1, PatchFields
  <2> HIDE DEF r
  <2>3. ASSUME executions <= 1 PROVE InOrder(r) /\ Counted(r, NextAttempt)
    <3>1. InOrder(row) /\ Len(row.attempts) = ex.index
      BY <1>15, <1>i, <2>3 DEF Counted, Reject
    <3>2. InOrder(r) /\ Len(r.attempts) = ex.index
      BY <2>2, <3>1 DEF InOrder
    <3>3. QED  BY <1>n, <3>2
  <2>4. QED  BY <1>15, <2>3, WriteNumbered DEF Reject, r
<1>16. CASE Final
  <2> DEFINE r == [row EXCEPT !.status = ex.end]
             e == [ex EXCEPT !.pc = FinalNext(ex.end), !.done = TRUE]
  <2>1. r.attempts = row.attempts /\ e.pc \in {"verdict", "return"}
    BY DEF TypeOK, Row, Execution, FinalNext
  <2>2. executions <= 1 => InOrder(r) /\ Counted(r, e)
    BY <1>16, <1>a, <1>i, <2>1 DEF Counted, Final
  <2>3. QED  BY <1>16, <2>2, WriteNumbered DEF Final
<1>17. CASE Verdict
  <2> DEFINE r == [row EXCEPT !.validated = "false"]
  <2>1. r.attempts = row.attempts
    BY DEF TypeOK, Row
  <2>2. executions <= 1 => InOrder(r) /\ Counted(r, Goto("return"))
    BY <1>17, <1>a, <1>f, <1>i, <2>1 DEF Counted, Verdict
  <2>3. QED  BY <1>17, <2>2, WriteNumbered DEF Verdict
<1>18. CASE Complete \/ Restart
  <2>1. row' = row /\ executions' = executions /\ job' # "active"
    BY <1>18 DEF Complete, Restart
  <2>2. QED  BY <2>1, LocalNumbered
<1>19. CASE UNCHANGED vars
  BY <1>19 DEF vars, Numbered, InOrder, Counted
<1>20. QED
  BY <1>1, <1>2, <1>3, <1>4, <1>5, <1>6, <1>7, <1>8, <1>9, <1>10, <1>11, <1>12,
     <1>13, <1>14, <1>15, <1>16, <1>17, <1>18, <1>19 DEF Next, Step

(* ------------------------ What the worker publishes --------------------- *)

\* No execution, no place in runAgent.
Idle == job # "active" => ex.pc = "idle"

\* Where a step of the worker starts and ends.
LEMMA StepPlaces ==
    ASSUME TypeOK, Step
    PROVE  /\ job = "active" \/ (job = "waiting" /\ Take)
           /\ job' = "active" \/ (ex'.pc = "idle" /\ job' \in {"failed", "completed"})
           /\ job = "active" /\ ex.pc \in {"replay", "succeed", "final"} /\ job' # "failed" =>
                 job' = "active" /\ ex'.pc \in {"return", "verdict"}
           /\ job = "active" /\ ex.pc = "replay" => Replay
           /\ job = "active" /\ ex.pc = "patch" => Patch
           /\ ex'.pc = "replay" => job = "active" /\ ex.pc = "cache"
<1> USE DEF At
<1>f. ASSUME NEW pc
      PROVE  Goto(pc).pc = pc /\ Ending(pc).pc = "final"
  BY Fields
<1>n. NextAttempt.pc \in {"plan", "final"}
  BY NextFields
<1>a. ASSUME job = "active", ex.pc \notin {"replay", "succeed", "final", "patch"},
             job' = "active" \/ (ex'.pc = "idle" /\ job' \in {"failed", "completed"}),
             ex'.pc = "replay" => ex.pc = "cache"
      PROVE  /\ job = "active" \/ (job = "waiting" /\ Take)
             /\ job' = "active" \/ (ex'.pc = "idle" /\ job' \in {"failed", "completed"})
             /\ job = "active" /\ ex.pc \in {"replay", "succeed", "final"} /\ job' # "failed" =>
                   job' = "active" /\ ex'.pc \in {"return", "verdict"}
             /\ job = "active" /\ ex.pc = "replay" => Replay
             /\ job = "active" /\ ex.pc = "patch" => Patch
             /\ ex'.pc = "replay" => job = "active" /\ ex.pc = "cache"
  BY <1>a
<1>1. CASE Take
  BY <1>1 DEF Take, NewExecution
<1>2. CASE Load \/ FindCached
  <2>1. \/ /\ job' = job
           /\ ex' \in {Goto("start"), Ending("failed"), Goto("plan"), Goto("replay")}
        \/ job' = "failed" /\ ex' = Goto("idle")
    BY <1>2 DEF Load, FindCached, Escapes, Goto
  <2>2. ex'.pc = "replay" => FindCached
    BY <1>2, <1>f, <2>1 DEF Load, Escapes
  <2>3. job = "active" /\ ex.pc \in {"load", "cache"}
    BY <1>2 DEF Load, FindCached
  <2>4. job' = "active" \/ (ex'.pc = "idle" /\ job' = "failed")
    BY <1>f, <2>1, <2>3
  <2>5. ex'.pc = "replay" => ex.pc = "cache"
    BY <2>2 DEF FindCached
  <2>6. QED  BY <1>a, <2>3, <2>4, <2>5
<1>3. CASE Replay \/ Succeed \/ Final
  <2>1. /\ job = "active" /\ ex.pc \in {"replay", "succeed", "final"}
        /\ (ex.pc = "replay" => Replay)
        /\ \/ /\ job' = job
              /\ ex' \in {[ex EXCEPT !.pc = "return", !.done = TRUE],
                          [ex EXCEPT !.pc = FinalNext(ex.end), !.done = TRUE]}
           \/ job' = "failed" /\ ex' = Goto("idle")
    BY <1>3, WriteEx DEF Replay, Succeed, Final
  <2>2. /\ [ex EXCEPT !.pc = "return", !.done = TRUE].pc = "return"
        /\ [ex EXCEPT !.pc = FinalNext(ex.end), !.done = TRUE].pc \in {"return", "verdict"}
    BY DEF FinalNext, TypeOK, Execution
  <2>3. \/ job' = "active" /\ ex'.pc \in {"return", "verdict"}
        \/ job' = "failed" /\ ex'.pc = "idle"
    BY <1>f, <2>1, <2>2
  <2>4. QED  BY <2>1, <2>3
<1>4. CASE Plan
  <2>1. Consume(ex).pc \in {"generate", "final"}
    BY DEF Consume, TypeOK, Execution
  <2>2. /\ job = "active" /\ ex.pc = "plan"
        /\ (job' = job /\ ex' = Consume(ex)) \/ (job' = "failed" /\ ex' = Goto("idle"))
    BY <1>4, WriteEx DEF Plan
  <2>3. QED  BY <1>a, <1>f, <2>1, <2>2
<1>5. CASE Generate
  <2>1. ex'.pc \in {"audit", "final"}
    BY <1>5 DEF Generate, Goto, Ending, TypeOK, Execution
  <2>2. job = "active" /\ ex.pc = "generate" /\ job' = job
    BY <1>5 DEF Generate
  <2>3. QED  BY <1>a, <2>1, <2>2
<1>6. CASE Audit
  <2>1. /\ job = "active" /\ ex.pc = "audit" /\ job' = job
        /\ ex' \in {Goto("append"), Ending("failed")}
    BY <1>6 DEF Audit
  <2>2. QED  BY <1>a, <1>f, <2>1
<1>7. CASE Start \/ AppendAttempt \/ Announce \/ Verdict
  <2>1. /\ job = "active" /\ ex.pc \in {"start", "append", "announce", "verdict"}
        /\ \/ /\ job' = job
              /\ ex' \in {Goto("cache"), Goto("plan"), Goto("announce"), Goto("sandbox"),
                          Goto("return")}
           \/ job' = "failed" /\ ex' = Goto("idle")
    BY <1>7, WriteEx DEF Start, AppendAttempt, Announce, Verdict
  <2>2. QED  BY <1>a, <1>f, <2>1
<1>8. CASE Sandbox
  <2>1. ex'.pc = "patch"
    BY <1>8 DEF Sandbox, Goto, TypeOK, Execution
  <2>2. job = "active" /\ ex.pc = "sandbox" /\ job' = job
    BY <1>8 DEF Sandbox
  <2>3. QED  BY <1>a, <2>1, <2>2
<1>9. CASE Patch \/ Reject
  <2>1. /\ job = "active" /\ ex.pc \in {"patch", "reject"} /\ (ex.pc = "patch" => Patch)
        /\ \/ job' = job /\ ex' \in {Ending("failed"), Goto("collect"), NextAttempt}
           \/ job' = "failed" /\ ex' = Goto("idle")
    BY <1>9, WriteEx DEF Patch, Reject
  <2>2. ex'.pc \in {"final", "collect", "plan", "idle"}
    BY <1>f, <1>n, <2>1
  <2>3. job' = "active" \/ (ex'.pc = "idle" /\ job' = "failed")
    BY <1>f, <2>1
  <2>4. QED  BY <2>1, <2>2, <2>3
<1>10. CASE Collect
  <2>1. [Goto("reject") EXCEPT !.bad = TRUE].pc = "reject"
    BY DEF Goto, TypeOK, Execution
  <2>2. /\ job = "active" /\ ex.pc = "collect"
        /\ \/ /\ job' = job
              /\ ex' \in {Goto("succeed"), [Goto("reject") EXCEPT !.bad = TRUE]}
           \/ job' = "failed" /\ ex' = Goto("idle")
    BY <1>10, WriteEx DEF Collect
  <2>3. \/ job' = "active" /\ ex'.pc \in {"succeed", "reject"}
        \/ job' = "failed" /\ ex'.pc = "idle"
    BY <1>f, <2>1, <2>2
  <2>4. QED  BY <1>a, <2>2, <2>3
<1>11. CASE Complete
  <2>1. job = "active" /\ ex.pc = "return" /\ job' = "completed" /\ ex' = Goto("idle")
    BY <1>11 DEF Complete
  <2>2. QED  BY <1>a, <1>f, <2>1
<1>12. QED
  BY <1>1, <1>2, <1>3, <1>4, <1>5, <1>6, <1>7, <1>8, <1>9, <1>10, <1>11 DEF Step

\* Every step keeps a run without an execution out of runAgent.
LEMMA IdleStep == TypeOK /\ Idle /\ [Next]_vars => Idle'
<1>1. TypeOK /\ Step => Idle'
  BY StepPlaces DEF Idle
<1>2. TypeOK /\ Restart => Idle'
  BY Fields DEF Idle, Restart
<1>3. Idle /\ UNCHANGED vars => Idle'
  BY DEF Idle, vars
<1>4. QED  BY <1>1, <1>2, <1>3 DEF Next

\* What is known of the run itself.
RunInv == TypeOK /\ CallsInv /\ ActiveInv /\ Numbered /\ Idle

\* It holds of a run just created,
LEMMA RunInit == Init => RunInv
<1> SUFFICES ASSUME Init PROVE RunInv
  OBVIOUS
<1>1. TypeOK
  BY TypeInit
<1>2. CallsInv
  BY LimitsAssumption DEF Init, NewExecution, CallsInv, BeforeCall
<1>3. ActiveInv
  BY DEF Init, ActiveInv, NotStarted, CompletedIsTerminal
<1>4. row.attempts = <<>> /\ job = "waiting" /\ ex.pc = "idle"
  BY DEF Init, NewExecution
<1>5. Numbered
  <2>1. Len(row.attempts) = 0 /\ DOMAIN row.attempts = {}
    BY <1>4
  <2>2. QED  BY <1>4, <2>1, LimitsAssumption DEF Numbered, InOrder
<1>6. QED  BY <1>1, <1>2, <1>3, <1>4, <1>5 DEF RunInv, Idle

\* ... and every step keeps it.
LEMMA RunStep == RunInv /\ [Next]_vars => RunInv'
BY TypeStep, CallsStep, ActiveStep, NumberedStep, IdleStep DEF RunInv

\* An attempt with its result in the row.
InRow(i, out) == i \in DOMAIN row.attempts /\ row.attempts[i].out = out

\* The cached attempt that a replay has announced and has not written.
Promised(i, out) ==
    /\ demo /\ row.attempts = <<>> /\ i = 1 /\ out = "clean" /\ row.status \notin Terminal
    /\ (job = "active" /\ ex.pc = "replay") \/ job = "failed"

\* What may be said of attempt i.
Sayable(i, out) == InRow(i, out) \/ Promised(i, out)

\* The attempts whose result must have been said: those with one in the row,
\* unless the write threw, and a replay's before it is written.
Due(i) ==
    /\ job = "active" \/ row.status \in Terminal
    /\ \/ i \in DOMAIN row.attempts /\ row.attempts[i].out \in Results
       \/ i = 1 /\ job = "active" /\ ex.pc = "replay"

\* What can be said stays so.
LEMMA SayableStays ==
    ASSUME RunInv, Step, executions' = 1, NEW i, NEW out \in Results, Sayable(i, out)
    PROVE  Sayable(i, out)'
<1>t. TypeOK /\ "none" \notin Results /\ [Next]_vars /\ demo' = demo
  BY DEF RunInv, Results, Outcomes, Next, Step, Take, Load, Start, FindCached, Replay, Plan,
         Generate, Audit, AppendAttempt, Announce, Sandbox, Patch, Collect, Succeed, Reject,
         Final, Verdict, Complete
<1>1. CASE InRow(i, out)
  <2>1. Grows
    BY <1>t, HistoryStep DEF RunInv
  <2>2. TypeOK'
    BY <1>t, TypeStep
  <2>3. /\ Len(row.attempts) \in Nat /\ DOMAIN row.attempts = 1..Len(row.attempts)
        /\ Len(row'.attempts) \in Nat /\ DOMAIN row'.attempts = 1..Len(row'.attempts)
    BY <1>t, <2>2 DEF TypeOK, Row
  <2>4. i \in DOMAIN row'.attempts
    BY <1>1, <2>1, <2>3 DEF Grows, InRow
  <2>5. row'.attempts[i].out = out
    BY <1>1, <1>t, <2>1 DEF Grows, InRow
  <2>6. QED  BY <2>4, <2>5 DEF InRow, Sayable
<1>2. CASE Promised(i, out)
  <2>1. Replay
    BY <1>2, <1>t, StepPlaces DEF Promised
  <2>2. CASE row' = ReplayedRow
    <3>1. row'.attempts = <<[index |-> 1, of |-> 0, out |-> "clean", bad |-> FALSE]>>
      BY <1>t, <2>2 DEF ReplayedRow, TypeOK, Row
    <3>2. 1 \in DOMAIN row'.attempts /\ row'.attempts[1].out = "clean"
      BY <3>1
    <3>3. QED  BY <1>2, <3>2 DEF Promised, InRow, Sayable
  <2>3. CASE row' = row /\ job' = "failed"
    BY <1>2, <1>t, <2>3 DEF Promised, Sayable
  <2>4. QED  BY <2>1, <2>2, <2>3, WriteEx DEF Replay, ReplayedRow
<1>3. QED  BY <1>1, <1>2 DEF Sayable

\* A result becomes due when it is written, and a replay's when it is announced.
LEMMA NewlyDue ==
    ASSUME RunInv, Step, executions' = 1, NEW i, Due(i)', ~Due(i)
    PROVE  \/ /\ job = "active" /\ ex.pc = "patch" /\ job' # "failed" /\ i = ex.index
              /\ ex.out \in Results
           \/ job = "active" /\ ex.pc = "cache" /\ ex'.pc = "replay" /\ i = 1
<1>t. /\ TypeOK /\ [Next]_vars /\ CallsInv /\ ActiveInv /\ "none" \notin Results
      /\ TypeOK' /\ executions \in Nat
  BY RunStep DEF RunInv, Results, Outcomes, Next, TypeOK
<1>1. CASE job # "active"
  <2>1. Take /\ executions = 0
    BY <1>1, <1>t, StepPlaces DEF Take
  <2>2. row'.attempts = <<>> /\ ex'.pc = "load"
    BY <1>t, <2>1 DEF Take, ActiveInv, NotStarted, NewExecution
  <2>3. QED  BY <2>2 DEF Due
<1>2. CASE job = "active" /\ ex'.pc = "replay" /\ i = 1
  BY <1>2, <1>t, StepPlaces
<1>3. CASE job = "active" /\ ~(ex'.pc = "replay" /\ i = 1)
  <2>e. executions = 1
    BY <1>3, <1>t, FirstExecution DEF ActiveInv, NotStarted
  <2>i. PcInv(row, ex) /\ FirstInv(row, ex) /\ InOrder(row) /\ Counted(row, ex)
    BY <1>3, <1>t, <2>e DEF RunInv, Numbered, ActiveInv
  <2>1. i \in DOMAIN row'.attempts /\ row'.attempts[i].out \in Results
    BY <1>3 DEF Due
  <2>2. ~(i \in DOMAIN row.attempts /\ row.attempts[i].out \in Results)
        /\ ~(i = 1 /\ ex.pc = "replay")
    BY <1>3 DEF Due
  <2>3. row'.attempts # row.attempts
    BY <2>1, <2>2
  <2>o. ex.out \in Outcomes \cup {"none"}
    BY <1>t DEF TypeOK, Execution
  <2>4. CASE Written("replay", ReplayedRow)
    <3>1. row'.attempts = <<[index |-> 1, of |-> 0, out |-> "clean", bad |-> FALSE]>>
      BY <1>t, <2>4 DEF Written, ReplayedRow, TypeOK, Row
    <3>2. i = 1
      BY <2>1, <3>1
    <3>3. QED  BY <2>2, <2>4, <3>2 DEF Written
  <2>5. CASE Written("append", [row EXCEPT !.attempts = Append(@, NewAttempt)])
    <3>1. row'.attempts = Append(row.attempts, NewAttempt) /\ row.attempts \in Seq(Attempt)
      BY <1>t, <2>5 DEF Written, TypeOK, Row
    <3>2. NewAttempt \in Attempt /\ NewAttempt.out = "none"
      BY <1>t, CounterType DEF TypeOK, NewAttempt, Attempt
    <3>3. /\ Len(row.attempts) \in Nat
          /\ DOMAIN row'.attempts = 1..(Len(row.attempts) + 1)
          /\ row'.attempts[Len(row.attempts) + 1] = NewAttempt
          /\ \A j \in DOMAIN row.attempts : row'.attempts[j] = row.attempts[j]
          /\ DOMAIN row.attempts = 1..Len(row.attempts)
      BY <3>1, <3>2
    <3>4. i \in DOMAIN row.attempts \/ i = Len(row.attempts) + 1
      BY <2>1, <3>3
    <3>5. QED  BY <1>t, <2>1, <2>2, <3>2, <3>3, <3>4
  <2>6. CASE Written("patch", PatchOut(ex.out))
    <3>1. /\ i \in DOMAIN row.attempts
          /\ row'.attempts[i].out =
                IF row.attempts[i].index = ex.index THEN ex.out ELSE row.attempts[i].out
      BY <1>t, <2>1, <2>6, <2>o, PatchFields DEF Written
    <3>2. i = ex.index /\ ex.out \in Results
      BY <2>1, <2>2, <2>i, <3>1 DEF InOrder
    <3>3. row'.status \in Working /\ Working \cap Terminal = {}
      BY <1>t, <2>6, <2>i, <2>o, PatchFields DEF Written, PcInv, Working, Terminal
    <3>4. job' = "active"
      BY <3>3 DEF Due
    <3>5. QED  BY <1>3, <2>6, <3>2, <3>4 DEF Written
  <2>7. CASE Written("reject", PatchBad)
    <3>1. i \in DOMAIN row.attempts /\ row'.attempts[i].out = row.attempts[i].out
      BY <1>t, <2>1, <2>7, <2>o, PatchFields DEF Written
    <3>2. QED  BY <2>1, <2>2, <3>1
  <2>8. CASE /\ ~Written("replay", ReplayedRow)
             /\ ~Written("append", [row EXCEPT !.attempts = Append(@, NewAttempt)])
             /\ ~Written("patch", PatchOut(ex.out)) /\ ~Written("reject", PatchBad)
    <3>1. row'.attempts = row.attempts
      BY <1>t, <2>8, RowWrites DEF Written, TypeOK, Row
    <3>2. QED  BY <2>3, <3>1
  <2>9. QED  BY <2>4, <2>5, <2>6, <2>7, <2>8
<1>4. QED  BY <1>1, <1>2, <1>3

\* Nothing is told of the other steps.
Silent ==
    /\ ex.pc \in {"plan", "announce", "patch", "replay", "succeed", "final"} =>
          ~Went \/ (ex.pc = "patch" /\ ex.out = "fault")
    /\ ~(ex.pc = "cache" /\ ex'.pc = "replay")

\* The events of a step, by the place in runAgent where it starts.
LEMMA ToldCases ==
    /\ ex.pc \in {"plan", "announce"} /\ Went => Told = <<Frame("status", 0, row'.status)>>
    /\ ex.pc = "patch" /\ Went /\ ex.out # "fault" =>
          Told = <<Frame("result", ex.index, ex.out)>>
    /\ ex.pc = "cache" /\ ex'.pc = "replay" =>
          Told = <<Frame("start", 1, ""), Frame("result", 1, "clean")>>
    /\ ex.pc \in {"replay", "succeed", "final"} /\ Went => Told = Ended
    /\ Silent => Told = <<>>
<1>1. ex.pc \in {"plan", "announce"} /\ Went => Told = <<Frame("status", 0, row'.status)>>
  BY DEF Told
<1>2. ex.pc = "patch" /\ Went /\ ex.out # "fault" =>
          Told = <<Frame("result", ex.index, ex.out)>>
  BY DEF Told
<1>3. ex.pc = "cache" /\ ex'.pc = "replay" =>
          Told = <<Frame("start", 1, ""), Frame("result", 1, "clean")>>
  BY DEF Told
<1>4. ex.pc \in {"replay", "succeed", "final"} /\ Went => Told = Ended
  BY DEF Told
<1>5. Silent => Told = <<>>
  BY DEF Told, Silent
<1>6. QED  BY <1>1, <1>2, <1>3, <1>4, <1>5

\* What holds of the events of a step: the end is the last and is in the row, a
\* result can be said, a start is not told of an attempt whose result is due
\* without the result, and a result that becomes due is told.
Tells(frames) ==
    /\ frames \in Seq(Frames)
    /\ \A p \in DOMAIN frames :
          /\ frames[p].event # "error"
          /\ frames[p].event = "done" =>
                p = Len(frames) /\ row'.status \in Terminal /\ frames[p].what = row'.status
          /\ \A i, out : IsResult(frames[p], i) /\ frames[p].what = out => Sayable(i, out)'
          /\ \A i : IsStart(frames[p], i) /\ Due(i)' => Follows(frames, p, i)
    /\ \A i : Due(i)' /\ ~Due(i) => \E q \in DOMAIN frames : IsResult(frames[q], i)

\* What runAgent publishes after an operation in the first execution.
LEMMA ToldFrames ==
    ASSUME RunInv, Step, executions' = 1
    PROVE  Tells(Told) /\ (ex'.pc = "plan" => \A p \in DOMAIN Told : Told[p].event # "done")
<1>t. /\ TypeOK /\ TypeOK' /\ ActiveInv' /\ Numbered' /\ [Next]_vars /\ RunInv'
      /\ row'.status \in Statuses /\ MaxAttempts \in Nat \ {0} /\ MaxAttempts >= 1
  <2>1. [Next]_vars
    BY DEF Next
  <2>2. RunInv'
    BY <2>1, RunStep
  <2>3. row'.status \in Statuses
    BY <2>2 DEF RunInv, TypeOK, Row, Statuses
  <2>4. QED  BY <2>1, <2>2, <2>3, LimitsAssumption DEF RunInv
<1>d. \A i : Due(i)' /\ ~Due(i) =>
         \/ /\ job = "active" /\ ex.pc = "patch" /\ job' # "failed" /\ i = ex.index
            /\ ex.out \in Results
         \/ job = "active" /\ ex.pc = "cache" /\ ex'.pc = "replay" /\ i = 1
  BY NewlyDue
<1>1. CASE ex.pc \in {"plan", "announce"} /\ Went
  <2> DEFINE a == Frame("status", 0, row'.status)
  <2>1. Told = <<a>> /\ a \in Frames /\ a.event = "status"
    BY <1>1, <1>t, ToldCases DEF Frame, Frames
  <2> HIDE DEF a
  <2>2. Told \in Seq(Frames) /\ DOMAIN Told = {1} /\ Told[1] = a
    BY <2>1, Tuples
  <2>3. QED  BY <1>1, <1>d, <2>1, <2>2 DEF Tells, IsStart, IsResult
<1>2. CASE ex.pc = "patch" /\ Went /\ ex.out # "fault"
  <2>1. job = "active" /\ executions = 1 /\ Patch /\ job' = "active"
    <3>1. job = "active"
      BY <1>2 DEF RunInv, Idle
    <3>2. Patch
      BY <1>2, <1>t, <3>1, StepPlaces
    <3>3. executions = 1
      BY <3>2 DEF Patch
    <3>4. job' = "active"
      BY <1>2, <3>1, <3>2, WriteEx DEF Patch, Went
    <3>5. QED  BY <3>1, <3>2, <3>3, <3>4
  <2>2. /\ InOrder(row) /\ Counted(row, ex) /\ Current(row, ex) /\ ex.out \in Outcomes
        /\ row' = PatchOut(ex.out)
    BY <1>2, <2>1, WriteEx DEF RunInv, Numbered, Counted, ActiveInv, PcInv, Patch
  <2>3. /\ ex.index \in DOMAIN row.attempts /\ ex.index \in 1..MaxAttempts
        /\ ex.out \in Results
    BY <1>2, <1>t, <2>2, LastOf DEF InOrder, Counted, Current, Results
  <2>4. ex.index \in DOMAIN row'.attempts /\ row'.attempts[ex.index].out = ex.out
    BY <1>t, <2>2, <2>3, PatchFields DEF InOrder
  <2> DEFINE a == Frame("result", ex.index, ex.out)
  <2>5. /\ Told = <<a>> /\ a \in Frames /\ a.event = "result" /\ a.index = ex.index
        /\ a.what = ex.out
    BY <1>2, <2>3, ToldCases DEF Frame, Frames
  <2>6. \A i, out : i = ex.index /\ out = ex.out => Sayable(i, out)'
    BY <2>4 DEF Sayable, InRow
  <2> HIDE DEF a
  <2>7. Told \in Seq(Frames) /\ DOMAIN Told = {1} /\ Told[1] = a
    BY <2>5, Tuples
  <2>8. QED  BY <1>2, <1>d, <2>5, <2>6, <2>7 DEF Tells, IsStart, IsResult
<1>3. CASE ex.pc = "cache" /\ ex'.pc = "replay"
  <2>1. job' = "active" /\ PcInv(row, ex)' /\ FirstInv(row, ex)'
    BY <1>3, <1>t, StepPlaces DEF ActiveInv
  <2>2. Sayable(1, "clean")'
    BY <1>3, <2>1 DEF PcInv, FirstInv, Sayable, Promised
  <2> DEFINE a == Frame("start", 1, "")
             b == Frame("result", 1, "clean")
  <2>3. /\ Told = <<a, b>> /\ a \in Frames /\ b \in Frames
        /\ a.event = "start" /\ a.index = 1
        /\ b.event = "result" /\ b.index = 1 /\ b.what = "clean"
    <3>1. Told = <<a, b>>
      BY <1>3, ToldCases
    <3>2. 1 \in 1..MaxAttempts /\ "clean" \in Results
      BY <1>t DEF Results, Outcomes
    <3>3. QED  BY <3>1, <3>2 DEF Frame, Frames
  <2> HIDE DEF a, b
  <2>4. /\ Told \in Seq(Frames) /\ DOMAIN Told = {1, 2} /\ Told[1] = a /\ Told[2] = b
    BY <2>3, Tuples
  <2>5. IsResult(Told[2], 1) /\ Follows(Told, 1, 1)
    BY <2>3, <2>4 DEF IsResult, Follows
  <2>6. QED  BY <1>3, <1>d, <2>2, <2>3, <2>4, <2>5 DEF Tells, IsStart, IsResult
<1>4. CASE ex.pc \in {"replay", "succeed", "final"} /\ Went
  <2>1. job' = "active" /\ ex'.pc \in {"return", "verdict"}
    <3>1. job = "active"
      BY <1>4 DEF RunInv, Idle
    <3>2. QED  BY <1>4, <1>t, <3>1, StepPlaces DEF Went
  <2>2. row'.status \in Terminal
    BY <1>t, <2>1 DEF ActiveInv, PcInv
  <2> DEFINE a == Frame("status", 0, row'.status)
             b == Frame("done", 0, row'.status)
  <2>3. /\ Told = <<a, b>> /\ a \in Frames /\ b \in Frames
        /\ a.event = "status" /\ b.event = "done" /\ b.what = row'.status
    BY <1>4, <1>t, ToldCases DEF Frame, Frames, Ended
  <2> HIDE DEF a, b
  <2>4. /\ Told \in Seq(Frames) /\ DOMAIN Told = {1, 2} /\ Told[1] = a /\ Told[2] = b
        /\ Len(Told) = 2
    BY <2>3, Tuples
  <2>5. QED  BY <1>4, <1>d, <2>1, <2>2, <2>3, <2>4 DEF Tells, IsStart, IsResult
<1>5. CASE Silent
  <2>1. Told = <<>>
    BY <1>5, ToldCases
  <2>2. Told \in Seq(Frames) /\ DOMAIN Told = {}
    BY <2>1
  <2>3. \A i : ~(Due(i)' /\ ~Due(i))
    BY <1>5, <1>d DEF Silent, Went, Results
  <2>4. QED  BY <2>2, <2>3 DEF Tells
<1>6. QED  BY <1>1, <1>2, <1>3, <1>4, <1>5 DEF Silent

\* The start of an iteration announces an attempt that the row does not have yet.
LEMMA BegunFrames ==
    ASSUME RunInv, Step, executions' = 1
    PROVE  \/ Begun = <<>>
           \/ \E k \in 1..MaxAttempts :
                 ~Due(k)' /\ ex'.pc = "plan" /\ Begun = <<Frame("start", k, "")>>
<1>1. CASE ex.pc # "plan" /\ ex'.pc = "plan"
  <2>1. RunInv'
    BY RunStep DEF Next
  <2>2. job' = "active"
    BY <1>1, StepPlaces DEF RunInv
  <2>k. PICK k : k = ex'.index
    OBVIOUS
  <2>3. Len(row'.attempts) = k - 1 /\ k <= MaxAttempts
    BY <2>k, <1>1, <2>1, <2>2 DEF RunInv, Numbered, Counted, CallsInv
  <2>4. /\ Len(row'.attempts) \in Nat /\ DOMAIN row'.attempts = 1..Len(row'.attempts)
        /\ MaxAttempts \in Nat /\ k \in Nat
    BY <2>1, <2>k, LimitsAssumption DEF RunInv, TypeOK, Row, Execution
  <2>5. k \in 1..MaxAttempts /\ k \notin DOMAIN row'.attempts
    BY <2>3, <2>4
  <2>6. ~Due(k)'
    BY <1>1, <2>5 DEF Due
  <2>7. Begun = <<Frame("start", k, "")>>
    BY <1>1, <2>k DEF Begun
  <2>8. QED  BY <1>1, <2>5, <2>6, <2>7
<1>2. CASE ~(ex.pc # "plan" /\ ex'.pc = "plan")
  BY <1>2 DEF Begun
<1>3. QED  BY <1>1, <1>2

\* A list of events followed by the start of an attempt that has no result.
LEMMA TellsMore ==
    ASSUME NEW s, Tells(s), \A p \in DOMAIN s : s[p].event # "done",
           NEW k \in 1..MaxAttempts, ~Due(k)'
    PROVE  Tells(s \o <<Frame("start", k, "")>>)
<1> DEFINE a == Frame("start", k, "")
           t == s \o <<a>>
<1>1. a \in Frames /\ a.event = "start" /\ a.index = k
  BY DEF Frame, Frames
<1>2. s \in Seq(Frames) /\ Len(s) \in Nat /\ DOMAIN s = 1..Len(s)
  BY DEF Tells
<1> HIDE DEF a
<1>3. /\ t \in Seq(Frames) /\ DOMAIN t = 1..(Len(s) + 1) /\ t[Len(s) + 1] = a
      /\ \A p \in DOMAIN s : p \in DOMAIN t /\ t[p] = s[p]
  BY <1>1, <1>2
<1> HIDE DEF t
<1>4. ASSUME NEW p \in DOMAIN s, NEW i, Follows(s, p, i) PROVE Follows(t, p, i)
  BY <1>3, <1>4 DEF Follows
<1>5. \A p \in DOMAIN t : p \in DOMAIN s \/ t[p] = a
  BY <1>2, <1>3
<1>6. ASSUME NEW i, Due(i)' /\ ~Due(i) PROVE \E q \in DOMAIN t : IsResult(t[q], i)
  BY <1>3, <1>6 DEF Tells
<1>7. ASSUME NEW p \in DOMAIN t
      PROVE  /\ t[p].event # "error" /\ t[p].event # "done"
             /\ \A i, out : IsResult(t[p], i) /\ t[p].what = out => Sayable(i, out)'
             /\ \A i : IsStart(t[p], i) /\ Due(i)' => Follows(t, p, i)
  <2>1. CASE p \in DOMAIN s
    <3>1. /\ s[p].event # "error"
          /\ \A i, out : IsResult(s[p], i) /\ s[p].what = out => Sayable(i, out)'
          /\ \A i : IsStart(s[p], i) /\ Due(i)' => Follows(s, p, i)
      BY <2>1 DEF Tells
    <3>2. t[p] = s[p] /\ s[p].event # "done"
      BY <1>3, <2>1
    <3>3. QED  BY <1>4, <2>1, <3>1, <3>2
  <2>2. CASE t[p] = a
    BY <1>1, <2>2 DEF IsStart, IsResult
  <2>3. QED  BY <1>5, <2>1, <2>2
<1>8. Tells(t)
  BY <1>3, <1>6, <1>7 DEF Tells
<1>9. QED  BY <1>8 DEF t, a

\* What the worker publishes in a step of the first execution.
LEMMA PublishedFrames ==
    ASSUME RunInv, Step, executions' = 1
    PROVE  Tells(Told \o Begun)
<1>1. Tells(Told) /\ (ex'.pc = "plan" => \A p \in DOMAIN Told : Told[p].event # "done")
  BY ToldFrames
<1>2. CASE Begun = <<>>
  <2>1. Told \o <<>> = Told
    BY <1>1, ConcatEmptySeq DEF Tells
  <2>2. QED  BY <1>1, <1>2, <2>1
<1>3. ASSUME NEW k \in 1..MaxAttempts, ~Due(k)', ex'.pc = "plan",
             Begun = <<Frame("start", k, "")>>
      PROVE  Tells(Told \o Begun)
  BY <1>1, <1>3, TellsMore
<1>4. QED  BY <1>2, <1>3, BegunFrames

(* ----------------------------- The page of a run ------------------------ *)

\* A page is opened before any crash, and without one there is one execution.
OneExecution ==
    /\ request["stream"] # "none" => restarts = 0
    /\ restarts = 0 => executions \in {0, 1} /\ (job = "waiting" <=> executions = 0)

\* A stream that has not replayed the row has said nothing.
Untold ==
    request["stream"] \in {"none", "asked", "read"} =>
        channel = <<>> /\ ~page.done /\ \A i \in 1..MaxAttempts : page.tries[i] = "none"

\* The last frame ends the stream; the page is done when it has read it, and only
\* then reads the run again.
EndsLast ==
    /\ \A p \in DOMAIN channel : channel[p].event \in {"done", "error"} =>
          p = Len(channel) /\ request["stream"] = "over"
    /\ page.done => channel = <<>> /\ request["stream"] = "over"
    /\ ~page.done => request["refetch"] = "none" /\ page.by # "refetch"

\* As long as nothing is lost, the end that is told is the row's, and the row is
\* read again after it.
EndIsRows ==
    lost = 0 =>
        /\ request["stream"] # "lost"
        /\ request["stream"] = "over" => row.status \in Terminal
        /\ \A p \in DOMAIN channel :
              /\ channel[p].event # "error"
              /\ channel[p].event = "done" => channel[p].what = row.status
        /\ page.done => page.status = row.status
        /\ request["refetch"] = "read" => seen["refetch"] = View(row)
        /\ page.by = "refetch" => page.run = View(row)

\* What a stream has read and not yet replayed: nothing that the row has lost
\* since, and, if it has missed nothing, every result that is due.
ReadIsOld(v) ==
    /\ Len(v.tries) <= Len(row.attempts)
    /\ v.status \in Terminal => v = View(row)
    /\ \A i \in DOMAIN v.tries :
          /\ v.tries[i].index = i
          /\ v.tries[i].out \in Results => row.attempts[i].out = v.tries[i].out
          /\ ~missed /\ Due(i) => v.tries[i].out \in Results

ReadInv == request["stream"] = "read" => ReadIsOld(seen["stream"])

\* Every result in a frame or on the page can be said.
OnlySayable ==
    request["stream"] # "none" =>
        /\ \A p \in DOMAIN channel : \A i, out :
              IsResult(channel[p], i) /\ channel[p].what = out => Sayable(i, out)
        /\ \A i \in 1..MaxAttempts : page.tries[i] \in Results => Sayable(i, page.tries[i])

\* An attempt whose result is due is not left running: the result follows its
\* start in the channel, or has been read.
NoneLeft(i) ==
    /\ \A p \in DOMAIN channel : IsStart(channel[p], i) => Follows(channel, p, i)
    /\ page.tries[i] = "running" => \E q \in DOMAIN channel : IsResult(channel[q], i)

AllDueTold ==
    request["stream"] \in {"live", "over"} /\ lost = 0 /\ ~missed =>
        \A i \in 1..MaxAttempts : Due(i) => NoneLeft(i)

PageInv ==
    PageTypes /\ OneExecution /\ Untold /\ EndsLast /\ EndIsRows /\ ReadInv /\ OnlySayable
        /\ AllDueTold

pv == <<vars, pageVars>>

\* A step of the page's model is one of the run, or leaves the run alone.
LEMMA PageSteps == [PageNext]_pv => [Next]_vars
BY DEF PageNext, PageStep, Works, Open, WorkerDies, StreamFails, StreamBreaks, LoadFails,
       Subscribe, Receive, FirstLoaded, Refetched, ReadRow, Next, pv

\* Starting from a fresh page.
LEMMA PageInvInit == PageInit => PageInv
<1> SUFFICES ASSUME PageInit PROVE PageInv
  OBVIOUS
<1>1. PageTypes
  <2>1. NoView \in Views
    BY DEF NoView, Views, Statuses
  <2>2. page \in Pages
    BY <2>1 DEF PageInit, Pages, Statuses
  <2>3. channel \in Seq(Frames) /\ missed \in BOOLEAN /\ lost \in Nat
    <3>1. channel = <<>> /\ missed \in BOOLEAN /\ lost \in Nat
      BY DEF PageInit
    <3>2. <<>> \in Seq(Frames)
      OBVIOUS
    <3>3. QED  BY <3>1, <3>2
  <2>4. seen \in [Requests -> Views]
    BY <2>1 DEF PageInit
  <2>5. request \in [Requests -> {"none", "asked", "read", "live", "over", "lost"}]
    BY DEF PageInit
  <2>6. QED  BY <2>2, <2>3, <2>4, <2>5 DEF PageTypes
<1>2. /\ request["stream"] = "none" /\ request["refetch"] = "none" /\ channel = <<>>
      /\ page.done = FALSE /\ page.by = "none"
      /\ \A i \in 1..MaxAttempts : page.tries[i] = "none"
  BY DEF PageInit, Requests
<1>3. executions = 0 /\ job = "waiting" /\ restarts = 0
  BY DEF PageInit, Init
<1>4. DOMAIN channel = {}
  BY <1>2
<1>5. OneExecution /\ Untold /\ ReadInv /\ OnlySayable /\ AllDueTold
  BY <1>2, <1>3 DEF OneExecution, Untold, ReadInv, OnlySayable, AllDueTold
<1>6. EndsLast /\ EndIsRows
  BY <1>2, <1>4 DEF EndsLast, EndIsRows
<1>7. QED  BY <1>1, <1>5, <1>6 DEF PageInv

\* One execution, as long as nothing crashes; a page is not opened after a crash.
LEMMA OneExecutionStep ==
    ASSUME RunInv, PageTypes, OneExecution, [PageNext]_pv
    PROVE  OneExecution'
<1>t. TypeOK /\ ActiveInv /\ (job = "active" => executions # 0)
  BY DEF RunInv, ActiveInv, NotStarted
<1>1. request'["stream"] # "none" => request["stream"] # "none" \/ Open
  BY DEF PageTypes, Requests, PageNext, PageStep, Works, Relayed, Open, WorkerDies, StreamFails,
         StreamBreaks, LoadFails, Subscribe, Receive, FirstLoaded, Refetched, ReadRow, pv,
         pageVars
<1>2. request'["stream"] # "none" => restarts' = 0
  <2>1. CASE Works
    <3>1. restarts' = restarts
      BY <2>1 DEF Works, Step, Take, Load, Start, FindCached, Replay, Plan, Generate, Audit,
                  AppendAttempt, Announce, Sandbox, Patch, Collect, Succeed, Reject, Final,
                  Verdict, Complete
    <3>2. request["stream"] = "none" => request' = request
      BY <2>1 DEF Works, Relayed
    <3>3. QED  BY <3>1, <3>2 DEF OneExecution
  <2>2. CASE WorkerDies
    BY <2>2 DEF WorkerDies, pageVars
  <2>3. CASE ~Works /\ ~WorkerDies
    <3>1. restarts' = restarts
      BY <2>3 DEF PageNext, PageStep, Open, StreamFails, StreamBreaks, LoadFails, Subscribe,
                  Receive, FirstLoaded, Refetched, ReadRow, pv, vars
    <3>2. QED  BY <1>1, <3>1 DEF OneExecution, Open
  <2>4. QED  BY <2>1, <2>2, <2>3
<1>3. restarts' = 0 => executions' \in {0, 1} /\ (job' = "waiting" <=> executions' = 0)
  <2>0. [Next]_vars
    BY PageSteps
  <2>1. CASE Step
    <3>1. /\ restarts' = restarts
          /\ \/ executions' = executions /\ job = "active"
             \/ executions' = executions + 1 /\ job = "waiting"
      BY <2>1 DEF Step, Take, Load, Start, FindCached, Replay, Plan, Generate, Audit,
                  AppendAttempt, Announce, Sandbox, Patch, Collect, Succeed, Reject, Final,
                  Verdict, Complete, At
    <3>2. job' # "waiting"
      BY <1>t, <2>1, StepPlaces
    <3>3. QED  BY <1>t, <3>1, <3>2 DEF OneExecution, TypeOK
  <2>2. CASE Restart
    BY <1>t, <2>2 DEF Restart, TypeOK
  <2>3. CASE UNCHANGED vars
    BY <2>3 DEF vars, OneExecution
  <2>4. QED  BY <2>0, <2>1, <2>2, <2>3 DEF Next
<1>4. QED  BY <1>2, <1>3 DEF OneExecution

(* ----------------------- The page while the run goes on ----------------- *)

\* What the frames of a stream are about.
LEMMA FrameFields ==
    ASSUME NEW f \in Frames
    PROVE  /\ f.event \in {"status", "start", "result", "done", "error"}
           /\ f.event \in {"start", "result"} => f.index \in 1..MaxAttempts
           /\ f.event = "result" => f.what \in Results
           /\ f.event \in {"status", "done", "error"} => f.what \in Statuses
BY DEF Frames

\* The row as a request finds it.
LEMMA ViewFields ==
    ASSUME TypeOK
    PROVE  /\ View(row) \in Views /\ View(row).status = row.status
           /\ Len(View(row).tries) = Len(row.attempts)
           /\ DOMAIN View(row).tries = DOMAIN row.attempts
           /\ \A i \in DOMAIN row.attempts :
                 /\ View(row).tries[i].index = row.attempts[i].index
                 /\ View(row).tries[i].out = row.attempts[i].out
<1> DEFINE t == [i \in DOMAIN row.attempts |->
                    [index |-> row.attempts[i].index, out |-> row.attempts[i].out]]
           T == [index : Nat, out : Outcomes \cup {"none"}]
<1>1. /\ Len(row.attempts) \in Nat /\ DOMAIN row.attempts = 1..Len(row.attempts)
      /\ \A i \in DOMAIN row.attempts : row.attempts[i] \in Attempt
  BY LastOf
<1>2. \A i \in DOMAIN row.attempts : t[i] \in T
  BY <1>1 DEF Attempt
<1>3. t \in Seq(T) /\ Len(t) = Len(row.attempts) /\ DOMAIN t = DOMAIN row.attempts
  <2> DEFINE n == Len(row.attempts)
  <2>1. t = [i \in 1..n |-> t[i]] /\ n \in Nat /\ \A i \in 1..n : t[i] \in T
    BY <1>1, <1>2
  <2>2. DOMAIN row.attempts = 1..n
    BY <1>1
  <2> HIDE DEF t, T, n
  <2>3. t \in Seq(T) /\ Len(t) = n /\ DOMAIN t = 1..n
    BY <2>1
  <2>4. QED  BY <2>2, <2>3 DEF n
<1>4. row.status \in Statuses
  BY DEF TypeOK, Row, Statuses
<1>5. View(row).status = row.status /\ View(row).tries = t
  BY DEF View
<1>6. View(row) \in Views
  <2>1. View(row) = [status |-> row.status, tries |-> t]
    BY DEF View
  <2> HIDE DEF t
  <2>2. QED  BY <1>3, <1>4, <2>1 DEF Views
<1>7. QED  BY <1>3, <1>5, <1>6

\* What is said of the run does not change while the run does not.
LEMMA SameRun ==
    ASSUME UNCHANGED vars
    PROVE  /\ View(row)' = View(row) /\ row' = row
           /\ \A i : Due(i)' <=> Due(i)
           /\ \A i, out : Sayable(i, out)' <=> Sayable(i, out)
BY DEF vars, View, Due, Sayable, InRow, Promised

\* A run that has ended in its first execution stays as a page finds it.
LEMMA SettledStep ==
    ASSUME RunInv, Step, executions' = 1, row.status \in Terminal
    PROVE  /\ row'.status = row.status /\ View(row)' = View(row)
           /\ \A i : Due(i)' => Due(i)
<1>t. TypeOK /\ ActiveInv /\ [Next]_vars /\ executions \in Nat
  BY DEF RunInv, Next, TypeOK
<1>1. executions = 1
  <2>1. row.status # "queued"
    BY DEF Terminal
  <2>2. QED  BY <1>t, <2>1, FirstExecution DEF ActiveInv, NotStarted
<1>2. job = "active" => ex.pc \in {"verdict", "return"}
  BY <1>1, <1>t DEF ActiveInv, FirstInv
<1>3. row' = row \/ Written("verdict", [row EXCEPT !.validated = "false"])
  BY <1>2, <1>t, RowWrites DEF Written
<1>4. row'.status = row.status /\ row'.attempts = row.attempts
  BY <1>3, <1>t DEF Written, TypeOK, Row
<1>5. View(row)' = View(row)
  BY <1>4 DEF View
<1>6. ASSUME NEW i, Due(i)' PROVE Due(i)
  BY <1>2, <1>6, NewlyDue
<1>7. QED  BY <1>4, <1>5, <1>6

\* A run that has no page may do what it likes.
LEMMA NoPageKeeps ==
    ASSUME PageInv, request["stream"] = "none", PageTypes', OneExecution',
           UNCHANGED <<request, seen, channel, page>>
    PROVE  PageInv'
<1>1. channel' = <<>> /\ ~page.done /\ request' = request /\ page' = page
  BY DEF PageInv, Untold
<1>2. DOMAIN channel' = {}
  BY <1>1
<1>3. EndsLast'
  BY <1>1, <1>2 DEF PageInv, EndsLast
<1>4. EndIsRows'
  BY <1>1, <1>2 DEF PageInv, EndsLast, EndIsRows
<1>5. Untold'
  BY <1>1 DEF PageInv, Untold
<1>6. ReadInv' /\ OnlySayable' /\ AllDueTold'
  BY <1>1 DEF ReadInv, OnlySayable, AllDueTold
<1>7. QED  BY <1>3, <1>4, <1>5, <1>6 DEF PageInv

\* A list of frames after another.
LEMMA FramesConcat ==
    ASSUME NEW s \in Seq(Frames), NEW t \in Seq(Frames)
    PROVE  /\ s \o t \in Seq(Frames) /\ Len(s \o t) = Len(s) + Len(t)
           /\ Len(s) \in Nat /\ Len(t) \in Nat
           /\ \A p \in DOMAIN (s \o t) :
                 \/ p \in DOMAIN s /\ (s \o t)[p] = s[p]
                 \/ p - Len(s) \in DOMAIN t /\ (s \o t)[p] = t[p - Len(s)]
           /\ \A p \in DOMAIN s : p \in DOMAIN (s \o t) /\ (s \o t)[p] = s[p]
           /\ \A p \in DOMAIN t : Len(s) + p \in DOMAIN (s \o t) /\ (s \o t)[Len(s) + p] = t[p]
           /\ \A p \in DOMAIN s : \A i : Follows(s, p, i) => Follows(s \o t, p, i)
           /\ \A p \in DOMAIN t : \A i : Follows(t, p, i) => Follows(s \o t, Len(s) + p, i)
           /\ \A p \in DOMAIN s, q \in DOMAIN t : \A i :
                 IsResult(t[q], i) => Follows(s \o t, p, i)
<1>1. /\ s \o t \in Seq(Frames) /\ Len(s \o t) = Len(s) + Len(t)
      /\ Len(s) \in Nat /\ Len(t) \in Nat
      /\ DOMAIN (s \o t) = 1..(Len(s) + Len(t))
      /\ DOMAIN s = 1..Len(s) /\ DOMAIN t = 1..Len(t)
      /\ \A p \in 1..(Len(s) + Len(t)) :
            (s \o t)[p] = IF p <= Len(s) THEN s[p] ELSE t[p - Len(s)]
  BY ConcatProperties
<1> DEFINE u == s \o t
<1>0. PICK n \in Nat : n = Len(s)
  BY <1>1
<1>s. \A p \in DOMAIN s : p \in DOMAIN u /\ u[p] = s[p]
  BY <1>1
<1>t. \A p \in DOMAIN t : n + p \in DOMAIN u /\ u[n + p] = t[p] /\ n + p \in Nat
  BY <1>0, <1>1
<1>u. \A p \in DOMAIN u : \/ p \in DOMAIN s /\ u[p] = s[p]
                          \/ p - n \in DOMAIN t /\ u[p] = t[p - n]
  BY <1>0, <1>1
<1> HIDE DEF u
<1>2. ASSUME NEW p \in DOMAIN s, NEW i, Follows(s, p, i) PROVE Follows(u, p, i)
  BY <1>2, <1>s DEF Follows
<1>3. ASSUME NEW p \in DOMAIN t, NEW i, Follows(t, p, i) PROVE Follows(u, n + p, i)
  <2>1. PICK q \in DOMAIN t : q > p /\ IsResult(t[q], i)
    BY <1>3 DEF Follows
  <2>2. n + q > n + p
    BY <1>0, <1>1, <2>1
  <2>3. QED  BY <1>t, <2>1, <2>2 DEF Follows
<1>4. ASSUME NEW p \in DOMAIN s, NEW q \in DOMAIN t, NEW i, IsResult(t[q], i)
      PROVE  Follows(u, p, i)
  <2>1. n + q > p
    BY <1>0, <1>1
  <2>2. QED  BY <1>4, <1>t, <2>1 DEF Follows
<1>5. u \in Seq(Frames) /\ Len(u) = Len(s) + Len(t) /\ Len(s) \in Nat /\ Len(t) \in Nat
  BY <1>1 DEF u
<1>6. QED  BY <1>0, <1>2, <1>3, <1>4, <1>5, <1>s, <1>t, <1>u DEF u

\* The worker goes on while a page is open: what the stream is told, what it
\* has read and what the page shows stay true of the row.
LEMMA WorksKeeps ==
    ASSUME RunInv, PageInv, Works, OneExecution', request["stream"] # "none"
    PROVE  PageInv'
<1> DEFINE F == Told \o Begun
<1>t. /\ TypeOK /\ PageTypes /\ OneExecution /\ Untold /\ EndsLast /\ EndIsRows
      /\ ReadInv /\ OnlySayable /\ AllDueTold
      /\ RunInv' /\ "none" \notin Results /\ [Next]_vars /\ TypeOK' /\ ActiveInv
  BY RunStep DEF RunInv, PageInv, Works, Next, Results, Outcomes
<1>1. Step /\ UNCHANGED <<seen, page, lost>>
  BY DEF Works
<1>e. executions' = 1
  <2>2. restarts' = restarts
    BY <1>1 DEF Step, Take, Load, Start, FindCached, Replay, Plan, Generate, Audit,
                AppendAttempt, Announce, Sandbox, Patch, Collect, Succeed, Reject, Final,
                Verdict, Complete
  <2>3. restarts' = 0 /\ job' # "waiting"
    BY <1>1, <1>t, <2>2, StepPlaces DEF OneExecution
  <2>4. QED  BY <2>3 DEF OneExecution
<1>F. Tells(F)
  BY <1>1, <1>e, PublishedFrames
<1>r. \/ /\ request["stream"] = "live" /\ channel' = channel \o F /\ missed' = missed
         /\ request' = IF Ends(F) THEN [request EXCEPT !["stream"] = "over"] ELSE request
      \/ /\ request["stream"] # "live" /\ channel' = channel /\ request' = request
         /\ missed' = (missed \/ (request["stream"] = "read" /\ F # <<>>))
  BY DEF Works, Relayed
<1> HIDE DEF F
<1>E. Ends(F) <=> \E p \in DOMAIN F : F[p].event = "done"
  BY DEF Ends, Range
<1>c. F \in Seq(Frames) /\ channel \in Seq(Frames)
  BY <1>F, <1>t DEF Tells, PageTypes
<1>q. /\ request'["refetch"] = request["refetch"]
      /\ \/ request'["stream"] = request["stream"]
         \/ request["stream"] = "live" /\ request'["stream"] = "over" /\ Ends(F)
      /\ request' \in [Requests -> {"none", "asked", "read", "live", "over", "lost"}]
  BY <1>r, <1>t DEF PageTypes, Requests
<1>s. row.status \in Terminal =>
          row'.status = row.status /\ View(row)' = View(row) /\ \A i : Due(i)' => Due(i)
  BY <1>1, <1>e, SettledStep
<1>2. PageTypes'
  <2>1. channel' \in Seq(Frames)
    BY <1>c, <1>r, FramesConcat
  <2>2. missed' \in BOOLEAN
    BY <1>r, <1>t DEF PageTypes
  <2>3. QED  BY <1>1, <1>q, <1>t, <2>1, <2>2 DEF PageTypes, Pages, Frames, Views, Statuses, Requests
<1>3. Untold'
  BY <1>1, <1>q, <1>r, <1>t DEF Untold
<1>4. EndsLast'
  <2>1. ASSUME NEW p \in DOMAIN channel', channel'[p].event \in {"done", "error"}
        PROVE  p = Len(channel') /\ request'["stream"] = "over"
    <3>1. CASE request["stream"] # "live"
      BY <1>r, <1>t, <2>1, <3>1 DEF EndsLast
    <3>2. CASE request["stream"] = "live"
      <4>0. channel' = channel \o F
        BY <1>r, <3>2
      <4>1. ~(p \in DOMAIN channel /\ channel'[p] = channel[p])
        BY <1>t, <2>1, <3>2 DEF EndsLast
      <4>2. PICK k \in DOMAIN F : k = p - Len(channel) /\ channel'[p] = F[k]
        BY <1>c, <4>0, <4>1, FramesConcat
      <4>3. k = Len(F) /\ Ends(F)
        BY <1>E, <1>F, <2>1, <4>2 DEF Tells
      <4>4. p = Len(channel')
        <5>1. /\ p \in Nat /\ Len(channel) \in Nat /\ Len(F) \in Nat
              /\ Len(channel') = Len(channel) + Len(F)
          BY <1>c, <4>0, FramesConcat
        <5>2. QED  BY <4>2, <4>3, <5>1
      <4>5. request'["stream"] = "over"
        BY <1>r, <1>t, <3>2, <4>3 DEF PageTypes, Requests
      <4>6. QED  BY <4>4, <4>5
    <3>3. QED  BY <3>1, <3>2
  <2>2. page'.done => channel' = <<>> /\ request'["stream"] = "over"
    BY <1>1, <1>r, <1>t DEF EndsLast
  <2>3. ~page'.done => request'["refetch"] = "none" /\ page'.by # "refetch"
    BY <1>1, <1>q, <1>t DEF EndsLast
  <2>4. QED  BY <2>1, <2>2, <2>3 DEF EndsLast
<1>5. EndIsRows'
  <2> SUFFICES ASSUME lost' = 0
               PROVE  /\ request'["stream"] # "lost"
                      /\ request'["stream"] = "over" => row'.status \in Terminal
                      /\ \A p \in DOMAIN channel' :
                            /\ channel'[p].event # "error"
                            /\ channel'[p].event = "done" => channel'[p].what = row'.status
                      /\ page'.done => page'.status = row'.status
                      /\ request'["refetch"] = "read" => seen'["refetch"] = View(row)'
                      /\ page'.by = "refetch" => page'.run = View(row)'
    BY DEF EndIsRows
  <2>0. /\ request["stream"] # "lost"
        /\ request["stream"] = "over" => row.status \in Terminal
        /\ \A p \in DOMAIN channel :
              /\ channel[p].event # "error"
              /\ channel[p].event = "done" => channel[p].what = row.status
        /\ page.done => page.status = row.status
        /\ request["refetch"] = "read" => seen["refetch"] = View(row)
        /\ page.by = "refetch" => page.run = View(row)
    BY <1>1, <1>t DEF EndIsRows
  <2>1. request'["stream"] # "lost"
    BY <1>q, <2>0
  <2>2. Ends(F) => row'.status \in Terminal
    BY <1>E, <1>F DEF Tells
  <2>3. request'["stream"] = "over" => row'.status \in Terminal
    BY <1>q, <1>s, <2>0, <2>2
  <2>4. ASSUME NEW p \in DOMAIN channel'
        PROVE  /\ channel'[p].event # "error"
               /\ channel'[p].event = "done" => channel'[p].what = row'.status
    <3>1. CASE p \in DOMAIN channel /\ channel'[p] = channel[p]
      <4>1. channel[p].event = "done" => request["stream"] = "over"
        BY <1>t, <3>1 DEF EndsLast
      <4>2. QED  BY <1>s, <2>0, <3>1, <4>1
    <3>2. CASE p - Len(channel) \in DOMAIN F /\ channel'[p] = F[p - Len(channel)]
      BY <1>F, <3>2 DEF Tells
    <3>3. QED  BY <1>c, <1>r, <3>1, <3>2, FramesConcat
  <2>5. page.done => row.status \in Terminal
    BY <1>t, <2>0 DEF EndsLast
  <2>6. (request["refetch"] = "read" \/ page.by = "refetch") => page.done
    BY <1>t DEF EndsLast
  <2>7. QED  BY <1>1, <1>q, <1>s, <2>0, <2>1, <2>3, <2>4, <2>5, <2>6
<1>6. ReadInv'
  <2> SUFFICES ASSUME request'["stream"] = "read" PROVE ReadIsOld(seen["stream"])'
    BY <1>1 DEF ReadInv
  <2> DEFINE v == seen["stream"]
  <2>1. request["stream"] = "read" /\ ReadIsOld(v) /\ v \in Views
    BY <1>q, <1>t DEF ReadInv, PageTypes, Requests
  <2>2. Grows
    BY <1>e, <1>t, HistoryStep
  <2>n. /\ Len(v.tries) \in Nat /\ Len(row.attempts) \in Nat /\ Len(row'.attempts) \in Nat
        /\ DOMAIN v.tries = 1..Len(v.tries) /\ DOMAIN row.attempts = 1..Len(row.attempts)
    BY <1>t, <2>1 DEF TypeOK, Row, Views
  <2>3. Len(v.tries) <= Len(row'.attempts)
    BY <2>1, <2>2, <2>n DEF ReadIsOld, Grows
  <2>4. v.status \in Terminal => v = View(row)'
    <3>1. View(row).status = row.status
      BY <1>t, ViewFields
    <3>2. QED  BY <1>s, <2>1, <3>1 DEF ReadIsOld
  <2>5. ASSUME NEW i \in DOMAIN v.tries
        PROVE  /\ v.tries[i].index = i
               /\ v.tries[i].out \in Results => row'.attempts[i].out = v.tries[i].out
               /\ ~missed' /\ Due(i)' => v.tries[i].out \in Results
    <3>1. /\ v.tries[i].index = i
          /\ v.tries[i].out \in Results => row.attempts[i].out = v.tries[i].out
          /\ ~missed /\ Due(i) => v.tries[i].out \in Results
      BY <2>1 DEF ReadIsOld
    <3>2. i \in DOMAIN row.attempts
      BY <2>1, <2>n DEF ReadIsOld
    <3>3. v.tries[i].out \in Results => row'.attempts[i].out = v.tries[i].out
      BY <1>t, <2>2, <3>1, <3>2 DEF Grows
    <3>4. ASSUME ~missed', Due(i)' PROVE ~missed /\ Due(i)
      <4>1. ~missed /\ F = <<>>
        BY <1>r, <2>1, <3>4
      <4>2. DOMAIN F = {}
        BY <4>1
      <4>3. QED  BY <1>F, <3>4, <4>1, <4>2 DEF Tells
    <3>5. QED  BY <3>1, <3>3, <3>4
  <2> HIDE DEF v
  <2>6. PICK w : w = v /\ w = seen["stream"]'
    BY <1>1 DEF v
  <2>7. ReadIsOld(w)'
    BY <2>3, <2>4, <2>5, <2>6 DEF ReadIsOld
  <2>8. QED  BY <2>6, <2>7
<1>7. OnlySayable'
  <2>1. ASSUME NEW p \in DOMAIN channel', NEW i, NEW out,
               IsResult(channel'[p], i), channel'[p].what = out
        PROVE  Sayable(i, out)'
    <3>1. CASE p \in DOMAIN channel /\ channel'[p] = channel[p]
      <4>1. channel[p] \in Frames
        BY <1>c, <3>1
      <4>2. out \in Results
        BY <2>1, <3>1, <4>1, FrameFields DEF IsResult
      <4>3. Sayable(i, out)
        BY <1>t, <2>1, <3>1 DEF OnlySayable
      <4>4. QED  BY <1>1, <1>e, <4>2, <4>3, SayableStays
    <3>2. CASE p - Len(channel) \in DOMAIN F /\ channel'[p] = F[p - Len(channel)]
      BY <1>F, <2>1, <3>2 DEF Tells
    <3>3. QED  BY <1>c, <1>r, <3>1, <3>2, FramesConcat
  <2>2. ASSUME NEW i \in 1..MaxAttempts, page'.tries[i] \in Results
        PROVE  Sayable(i, page.tries[i])'
    <3>1. PICK out \in Results : out = page.tries[i] /\ out = page'.tries[i]
      BY <1>1, <2>2
    <3>2. Sayable(i, out)
      BY <1>t, <3>1 DEF OnlySayable
    <3>3. Sayable(i, out)'
      BY <1>1, <1>e, <3>2, SayableStays
    <3>4. QED  BY <3>1, <3>3 DEF Sayable, InRow, Promised
  <2>3. QED  BY <2>1, <2>2 DEF OnlySayable
<1>8. AllDueTold'
  <2> SUFFICES ASSUME request'["stream"] \in {"live", "over"}, lost' = 0, ~missed',
                      NEW i \in 1..MaxAttempts, Due(i)'
               PROVE  /\ \A p \in DOMAIN channel' :
                            IsStart(channel'[p], i) => Follows(channel', p, i)
                      /\ page'.tries[i] = "running" =>
                            \E q \in DOMAIN channel' : IsResult(channel'[q], i)
    BY DEF AllDueTold, NoneLeft, Follows, IsStart, IsResult
  <2>1. request["stream"] \in {"live", "over"} /\ lost = 0 /\ ~missed
    <3>1. ~missed
      BY <1>r, ZenonT(30)
    <3>2. lost = 0
      BY <1>1
    <3>3. request["stream"] \in {"live", "over"}
      BY <1>q
    <3>4. QED  BY <3>1, <3>2, <3>3
  <2>2. Due(i) => NoneLeft(i)
    BY <1>t, <2>1 DEF AllDueTold
  <2>3. CASE request["stream"] = "over"
    <3>1. Due(i)
      BY <1>1, <1>s, <1>t, <2>1, <2>3 DEF EndIsRows
    <3>2. channel' = channel /\ page' = page
      BY <1>1, <1>r, <2>3
    <3>3. QED  BY <2>2, <3>1, <3>2 DEF NoneLeft
  <2>4. CASE request["stream"] = "live"
    <3>0. channel' = channel \o F /\ page' = page
      BY <1>1, <1>r, <2>4
    <3>s. ASSUME NEW p \in DOMAIN channel', IsStart(channel'[p], i),
                 p - Len(channel) \in DOMAIN F, channel'[p] = F[p - Len(channel)]
          PROVE  Follows(channel', p, i)
      <4>1. PICK k \in DOMAIN F : k = p - Len(channel)
        BY <3>s
      <4>2. Follows(F, k, i)
        BY <1>F, <3>s, <4>1 DEF Tells
      <4>3. Follows(channel \o F, Len(channel) + k, i)
        BY <1>c, <4>2, FramesConcat
      <4>4. Len(channel) + k = p
        <5>1. DOMAIN channel' = 1..Len(channel') /\ Len(channel) \in Nat
          BY <1>c, <3>0, FramesConcat
        <5>2. QED  BY <4>1, <5>1
      <4>5. QED  BY <3>0, <4>3, <4>4
    <3>1. CASE Due(i)
      <4>1. ASSUME NEW p \in DOMAIN channel', IsStart(channel'[p], i)
            PROVE  Follows(channel', p, i)
        <5>1. CASE p \in DOMAIN channel /\ channel'[p] = channel[p]
          BY <1>c, <2>2, <3>0, <3>1, <4>1, <5>1, FramesConcat DEF NoneLeft
        <5>2. CASE p - Len(channel) \in DOMAIN F /\ channel'[p] = F[p - Len(channel)]
          BY <3>s, <4>1, <5>2
        <5>3. QED  BY <1>c, <3>0, <4>1, <5>1, <5>2, FramesConcat
      <4>2. page'.tries[i] = "running" => \E q \in DOMAIN channel' : IsResult(channel'[q], i)
        <5>1. \A q \in DOMAIN channel : q \in DOMAIN channel' /\ channel'[q] = channel[q]
          BY <1>c, <3>0, FramesConcat
        <5>2. QED  BY <2>2, <3>0, <3>1, <5>1 DEF NoneLeft
      <4>3. QED  BY <4>1, <4>2
    <3>2. CASE ~Due(i)
      <4>1. PICK q \in DOMAIN F : IsResult(F[q], i)
        BY <1>F, <3>2 DEF Tells
      <4>2. /\ Len(channel) + q \in DOMAIN channel'
            /\ IsResult(channel'[Len(channel) + q], i)
        BY <1>c, <3>0, <4>1, FramesConcat
      <4>3. ASSUME NEW p \in DOMAIN channel', IsStart(channel'[p], i)
            PROVE  Follows(channel', p, i)
        <5>1. CASE p \in DOMAIN channel /\ channel'[p] = channel[p]
          BY <1>c, <3>0, <4>1, <5>1, FramesConcat
        <5>2. CASE p - Len(channel) \in DOMAIN F /\ channel'[p] = F[p - Len(channel)]
          BY <3>s, <4>3, <5>2
        <5>3. QED  BY <1>c, <3>0, <4>3, <5>1, <5>2, FramesConcat
      <4>4. QED  BY <4>2, <4>3
    <3>3. QED  BY <3>1, <3>2
  <2>5. QED  BY <2>1, <2>3, <2>4
<1>9. QED  BY <1>2, <1>3, <1>4, <1>5, <1>6, <1>7, <1>8 DEF PageInv

(* ------------------------- The page and its requests -------------------- *)

\* What a stream has read stays old as long as neither the run nor it moves.
LEMMA ReadStays ==
    ASSUME ReadInv, UNCHANGED <<vars, missed>>,
           request'["stream"] = "read" =>
               request["stream"] = "read" /\ seen'["stream"] = seen["stream"]
    PROVE  ReadInv'
<1> SUFFICES ASSUME request'["stream"] = "read" PROVE ReadIsOld(seen["stream"])'
  BY DEF ReadInv
<1>1. PICK v : v = seen["stream"] /\ v = seen'["stream"]
  OBVIOUS
<1>2. ReadIsOld(v)
  BY <1>1 DEF ReadInv
<1>3. ReadIsOld(v)'
  BY <1>2, SameRun DEF ReadIsOld
<1>4. QED  BY <1>1, <1>3

\* What the frames and the page say can be said while the run does not move.
LEMMA SaidStays ==
    ASSUME UNCHANGED vars,
           request'["stream"] # "none" =>
               /\ \A p \in DOMAIN channel' : \A i, out :
                     IsResult(channel'[p], i) /\ channel'[p].what = out => Sayable(i, out)
               /\ \A i \in 1..MaxAttempts : page'.tries[i] \in Results =>
                     \E out : out = page'.tries[i] /\ Sayable(i, out)
    PROVE  OnlySayable'
<1> SUFFICES ASSUME request'["stream"] # "none" PROVE OnlySayable'
  BY DEF OnlySayable
<1>1. ASSUME NEW i \in 1..MaxAttempts, page'.tries[i] \in Results
      PROVE  Sayable(i, page.tries[i])'
  <2>1. PICK out : out = page'.tries[i] /\ Sayable(i, out)
    BY <1>1
  <2>2. Sayable(i, out)'
    BY <2>1, SameRun
  <2>3. QED  BY <2>1, <2>2 DEF Sayable, InRow, Promised
<1>2. \A p \in DOMAIN channel' : \A i, out :
         IsResult(channel'[p], i) /\ channel'[p].what = out => Sayable(i, out)'
  BY SameRun
<1>3. QED  BY <1>1, <1>2 DEF OnlySayable

\* The page mounts.
LEMMA OpenKeeps ==
    ASSUME RunInv, PageInv, Open, OneExecution' PROVE PageInv'
<1>t. /\ PageTypes /\ Untold /\ EndsLast /\ "none" \notin Results
      /\ UNCHANGED <<vars, seen, channel, page, missed, lost>> /\ request["stream"] = "none"
  BY DEF PageInv, Open, Results, Outcomes
<1>1. /\ request' \in [Requests -> {"none", "asked", "read", "live", "over", "lost"}]
      /\ request'["stream"] = "asked" /\ request'["refetch"] = request["refetch"]
  BY <1>t DEF Open, PageTypes, Requests
<1>2. channel' = <<>> /\ ~page.done /\ \A i \in 1..MaxAttempts : page.tries[i] = "none"
  BY <1>t DEF Untold
<1>3. DOMAIN channel' = {}
  BY <1>2
<1>4. PageTypes'
  BY <1>1, <1>t DEF PageTypes, Pages, Frames, Views, Statuses, Requests
<1>5. Untold' /\ ReadInv' /\ AllDueTold'
  BY <1>1, <1>2, <1>t DEF Untold, ReadInv, AllDueTold
<1>6. EndsLast' /\ EndIsRows'
  BY <1>1, <1>2, <1>3, <1>t DEF EndsLast, EndIsRows
<1>7. OnlySayable'
  BY <1>2, <1>3, <1>t, SaidStays
<1>8. QED  BY <1>4, <1>5, <1>6, <1>7 DEF PageInv

\* The row is read for the stream, or for the page that is done.
LEMMA ReadRowKeeps ==
    ASSUME RunInv, PageInv, NEW q \in Requests, ReadRow(q), OneExecution' PROVE PageInv'
<1>t. /\ TypeOK /\ PageTypes /\ OneExecution /\ Untold /\ EndsLast /\ EndIsRows /\ ReadInv
      /\ OnlySayable /\ AllDueTold /\ Numbered /\ ActiveInv
      /\ UNCHANGED <<vars, channel, page, missed, lost>>
      /\ q \in {"stream", "refetch"} /\ request[q] = "asked"
  BY DEF PageInv, ReadRow, Requests, RunInv
<1>v. /\ View(row) \in Views /\ View(row).status = row.status
      /\ Len(View(row).tries) = Len(row.attempts)
      /\ DOMAIN View(row).tries = DOMAIN row.attempts
      /\ \A i \in DOMAIN row.attempts :
            /\ View(row).tries[i].index = row.attempts[i].index
            /\ View(row).tries[i].out = row.attempts[i].out
  BY <1>t, ViewFields
<1>1. /\ request' \in [Requests -> {"none", "asked", "read", "live", "over", "lost"}]
      /\ request'[q] = "read" /\ \A k \in Requests \ {q} : request'[k] = request[k]
      /\ seen' \in [Requests -> Views]
      /\ seen'[q] = View(row) /\ \A k \in Requests \ {q} : seen'[k] = seen[k]
  BY <1>t, <1>v DEF ReadRow, PageTypes
<1>2. PageTypes'
  BY <1>1, <1>t DEF PageTypes, Pages, Frames, Views, Statuses, Requests
<1>3. request'["stream"] # request["stream"] =>
          q = "stream" /\ request["stream"] = "asked" /\ request'["stream"] = "read"
  BY <1>1, <1>t DEF Requests
<1>4. Untold' /\ AllDueTold'
  <2>1. Untold'
    BY <1>3, <1>t DEF Untold
  <2>2. AllDueTold'
    BY <1>3, <1>t, SameRun DEF AllDueTold, NoneLeft
  <2>3. QED  BY <2>1, <2>2
<1>5. request["stream"] = "asked" => ~page.done /\ channel = <<>>
  BY <1>t DEF Untold
<1>6. q = "refetch" => page.done /\ request'["stream"] = request["stream"]
  BY <1>1, <1>t DEF EndsLast, Requests
<1>7. q = "stream" => request'["refetch"] = request["refetch"] /\ seen'["refetch"] = seen["refetch"]
  BY <1>1, <1>t DEF Requests
<1>8. EndsLast' /\ EndIsRows'
  <2>1. View(row)' = View(row) /\ row' = row
    BY <1>t, SameRun
  <2>2. CASE q = "refetch"
    <3>1. EndsLast'
      BY <1>6, <1>t, <2>2 DEF EndsLast
    <3>2. EndIsRows'
      BY <1>1, <1>6, <1>t, <2>1, <2>2 DEF EndIsRows
    <3>3. QED  BY <3>1, <3>2
  <2>3. CASE q = "stream"
    <3>1. channel' = channel /\ page' = page /\ lost' = lost /\ request'["stream"] = "read"
      BY <1>1, <1>t, <2>3
    <3>2. DOMAIN channel = {} /\ ~page.done
      BY <1>5, <1>t, <2>3
    <3>3. EndsLast'
      BY <1>7, <1>t, <2>3, <3>1, <3>2 DEF EndsLast
    <3>4. EndIsRows'
      BY <1>7, <1>t, <2>1, <2>3, <3>1, <3>2 DEF EndIsRows
    <3>5. QED  BY <3>3, <3>4
  <2>4. QED  BY <1>t, <2>2, <2>3
<1>9. ReadInv'
  <2>1. CASE q = "refetch"
    <3>1. seen'["stream"] = seen["stream"] /\ request'["stream"] = request["stream"]
      BY <1>1, <2>1 DEF Requests
    <3>2. QED  BY <1>t, <3>1, ReadStays
  <2>2. CASE q = "stream"
    <3>1. request["stream"] # "none"
      BY <1>t, <2>2
    <3>2. executions \in {0, 1} /\ (job = "active" => executions = 1)
      BY <1>t, <3>1 DEF OneExecution
    <3>3. \A i \in DOMAIN row.attempts : row.attempts[i].index = i
      BY <1>t, <3>2 DEF Numbered, InOrder
    <3>4. ~(job = "active" /\ ex.pc = "replay" /\ 1 \in DOMAIN row.attempts)
      <4>1. job = "active" /\ ex.pc = "replay" => row.attempts = <<>>
        BY <1>t, <3>2 DEF ActiveInv, FirstInv
      <4>2. DOMAIN <<>> = {}
        OBVIOUS
      <4>3. QED  BY <4>1, <4>2
    <3>5. \A i \in DOMAIN row.attempts : Due(i) => row.attempts[i].out \in Results
      BY <3>4 DEF Due
    <3>n. Len(row.attempts) \in Nat
      BY <1>t, LastOf
    <3>6. PICK v : v = View(row)
      OBVIOUS
    <3>7. ReadIsOld(v)
      BY <1>v, <3>3, <3>5, <3>6, <3>n DEF ReadIsOld
    <3>8. ReadIsOld(v)'
      BY <1>t, <3>7, SameRun DEF ReadIsOld
    <3>9. v = seen'["stream"]
      BY <1>1, <2>2, <3>6
    <3>10. QED  BY <3>8, <3>9 DEF ReadInv
  <2>3. QED  BY <1>t, <2>1, <2>2
<1>10. OnlySayable'
  <2>1. request'["stream"] # "none" => request["stream"] # "none"
    BY <1>3
  <2>2. QED  BY <1>t, <2>1, SaidStays DEF OnlySayable
<1>11. QED  BY <1>2, <1>4, <1>8, <1>9, <1>10 DEF PageInv

\* The first read reaches the page.
LEMMA FirstLoadedKeeps ==
    ASSUME RunInv, PageInv, FirstLoaded, OneExecution' PROVE PageInv'
<1>t. /\ PageTypes /\ Untold /\ EndsLast /\ EndIsRows /\ ReadInv /\ OnlySayable /\ AllDueTold
      /\ UNCHANGED <<vars, seen, channel, missed, lost>>
  BY DEF PageInv, FirstLoaded
<1>1. /\ request' \in [Requests -> {"none", "asked", "read", "live", "over", "lost"}]
      /\ request'["stream"] = request["stream"] /\ request'["refetch"] = request["refetch"]
  BY <1>t DEF FirstLoaded, PageTypes, Requests
<1>2. /\ page'.done = page.done /\ page'.status = page.status /\ page'.tries = page.tries
      /\ page'.by = "mount" /\ page' \in Pages
  <2>1. NoView \in Views
    BY DEF NoView, Views, Statuses
  <2>2. page' = [page EXCEPT !.run = NoView, !.by = "mount"]
    BY DEF FirstLoaded
  <2>3. QED  BY <1>t, <2>1, <2>2 DEF PageTypes, Pages
<1>3. PageTypes'
  BY <1>1, <1>2, <1>t DEF PageTypes, Pages, Frames, Views, Statuses, Requests
<1>4. Untold' /\ ReadInv'
  BY <1>1, <1>2, <1>t, ReadStays DEF Untold
<1>5. EndsLast' /\ EndIsRows'
  BY <1>1, <1>2, <1>t, SameRun DEF EndsLast, EndIsRows
<1>6. OnlySayable'
  BY <1>1, <1>2, <1>t, SaidStays DEF OnlySayable
<1>7. AllDueTold'
  BY <1>1, <1>2, <1>t, SameRun DEF AllDueTold, NoneLeft
<1>8. QED  BY <1>3, <1>4, <1>5, <1>6, <1>7 DEF PageInv

\* The second read reaches the page, which is done.
LEMMA RefetchedKeeps ==
    ASSUME RunInv, PageInv, Refetched, OneExecution' PROVE PageInv'
<1>t. /\ PageTypes /\ Untold /\ EndsLast /\ EndIsRows /\ ReadInv /\ OnlySayable /\ AllDueTold
      /\ UNCHANGED <<vars, channel, missed, lost>> /\ request["refetch"] = "read"
  BY DEF PageInv, Refetched
<1>0. NoView \in Views
  BY DEF NoView, Views, Statuses
<1>1. /\ request' \in [Requests -> {"none", "asked", "read", "live", "over", "lost"}]
      /\ request'["stream"] = request["stream"] /\ request'["refetch"] = "over"
      /\ seen' \in [Requests -> Views] /\ seen'["stream"] = seen["stream"]
  BY <1>0, <1>t DEF Refetched, PageTypes, Requests
<1>2. /\ page'.done = page.done /\ page'.status = page.status /\ page'.tries = page.tries
      /\ page'.by = "refetch" /\ page'.run = seen["refetch"] /\ page' \in Pages
  <2>1. seen["refetch"] \in Views
    BY <1>t DEF PageTypes, Requests
  <2>2. page' = [page EXCEPT !.run = seen["refetch"], !.by = "refetch"]
    BY DEF Refetched
  <2>3. QED  BY <1>t, <2>1, <2>2 DEF PageTypes, Pages
<1>3. PageTypes'
  BY <1>1, <1>2, <1>t DEF PageTypes, Pages, Frames, Views, Statuses, Requests
<1>4. page.done
  BY <1>t DEF EndsLast
<1>5. EndsLast'
  BY <1>1, <1>2, <1>4, <1>t DEF EndsLast
<1>6. EndIsRows'
  BY <1>1, <1>2, <1>4, <1>t, SameRun DEF EndIsRows
<1>7. Untold' /\ ReadInv'
  BY <1>1, <1>2, <1>t, ReadStays DEF Untold
<1>8. OnlySayable'
  BY <1>1, <1>2, <1>t, SaidStays DEF OnlySayable
<1>9. AllDueTold'
  BY <1>1, <1>2, <1>t, SameRun DEF AllDueTold, NoneLeft
<1>10. QED  BY <1>3, <1>5, <1>6, <1>7, <1>8, <1>9 DEF PageInv

\* A read of the page fails.
LEMMA LoadFailsKeeps ==
    ASSUME RunInv, PageInv, NEW q \in Requests, LoadFails(q), OneExecution' PROVE PageInv'
<1>t. /\ PageTypes /\ Untold /\ EndsLast /\ ReadInv /\ OnlySayable
      /\ UNCHANGED <<vars, channel, missed>> /\ q \in {"mount", "refetch"}
      /\ request[q] # "none"
  BY DEF PageInv, LoadFails, Requests
<1>0. NoView \in Views
  BY DEF NoView, Views, Statuses
<1>1. /\ request' \in [Requests -> {"none", "asked", "read", "live", "over", "lost"}]
      /\ request'["stream"] = request["stream"]
      /\ request'["refetch"] = "none" <=> request["refetch"] = "none"
      /\ seen' \in [Requests -> Views] /\ seen'["stream"] = seen["stream"]
  BY <1>0, <1>t DEF LoadFails, PageTypes, Requests
<1>2. /\ page'.done = page.done /\ page'.tries = page.tries /\ page'.by = page.by
      /\ page' \in Pages
  BY <1>t DEF LoadFails, PageTypes, Pages
<1>3. lost' \in Nat /\ lost' # 0
  BY <1>t DEF LoadFails, PageTypes
<1>4. PageTypes'
  BY <1>1, <1>2, <1>3, <1>t DEF PageTypes, Pages, Frames, Views, Statuses, Requests
<1>5. EndsLast'
  BY <1>1, <1>2, <1>t DEF EndsLast
<1>6. EndIsRows' /\ AllDueTold'
  BY <1>3 DEF EndIsRows, AllDueTold
<1>7. Untold' /\ ReadInv'
  BY <1>1, <1>2, <1>t, ReadStays DEF Untold
<1>8. OnlySayable'
  BY <1>1, <1>2, <1>t, SaidStays DEF OnlySayable
<1>9. QED  BY <1>4, <1>5, <1>6, <1>7, <1>8 DEF PageInv

\* The stream could not read the row, and says so.
LEMMA StreamFailsKeeps ==
    ASSUME RunInv, PageInv, StreamFails, OneExecution' PROVE PageInv'
<1> DEFINE f == Frame("error", 0, "")
<1>t. /\ PageTypes /\ Untold /\ EndsLast /\ ReadInv /\ OnlySayable /\ "none" \notin Results
      /\ UNCHANGED <<vars, seen, page, missed>> /\ request["stream"] = "asked"
  BY DEF PageInv, StreamFails, Results, Outcomes
<1>0. f \in Frames /\ f.event = "error"
  BY DEF Frame, Frames, Statuses
<1>1. /\ request' \in [Requests -> {"none", "asked", "read", "live", "over", "lost"}]
      /\ request'["stream"] = "over" /\ request'["refetch"] = request["refetch"]
  BY <1>t DEF StreamFails, PageTypes, Requests
<1>2. ~page.done /\ channel = <<>> /\ \A i \in 1..MaxAttempts : page.tries[i] = "none"
  BY <1>t DEF Untold
<1>3. lost' \in Nat /\ lost' # 0
  <2>1. lost' = lost + 1
    BY DEF StreamFails
  <2>2. lost \in Nat
    BY <1>t DEF PageTypes
  <2>3. QED  BY <2>1, <2>2
<1>4. /\ channel' \in Seq(Frames) /\ Len(channel') = 1 /\ DOMAIN channel' = {1}
      /\ channel'[1] = f
  <2>1. channel' = Append(<<>>, f)
    BY <1>2 DEF StreamFails
  <2> HIDE DEF f
  <2>2. channel' = <<f>>
    BY <2>1
  <2>3. QED  BY <1>0, <2>2, Tuples
<1> HIDE DEF f
<1>5. PageTypes'
  BY <1>1, <1>3, <1>4, <1>t DEF PageTypes, Pages, Frames, Views, Statuses, Requests
<1>6. EndsLast'
  BY <1>1, <1>2, <1>4, <1>t DEF EndsLast
<1>7. EndIsRows' /\ AllDueTold'
  BY <1>3 DEF EndIsRows, AllDueTold
<1>8. Untold' /\ ReadInv'
  BY <1>1 DEF Untold, ReadInv
<1>9. OnlySayable'
  BY <1>0, <1>2, <1>4, <1>t, SaidStays DEF IsResult
<1>10. QED  BY <1>5, <1>6, <1>7, <1>8, <1>9 DEF PageInv

\* The stream breaks.
LEMMA StreamBreaksKeeps ==
    ASSUME RunInv, PageInv, StreamBreaks, OneExecution' PROVE PageInv'
<1>t. /\ PageTypes /\ EndsLast /\ OnlySayable
      /\ UNCHANGED <<vars, page, missed>> /\ request["stream"] \in {"asked", "read", "live"}
  BY DEF PageInv, StreamBreaks
<1>0. NoView \in Views
  BY DEF NoView, Views, Statuses
<1>1. /\ request' \in [Requests -> {"none", "asked", "read", "live", "over", "lost"}]
      /\ request'["stream"] = "lost" /\ request'["refetch"] = request["refetch"]
      /\ seen' \in [Requests -> Views]
  BY <1>0, <1>t DEF StreamBreaks, PageTypes, Requests
<1>2. ~page.done
  BY <1>t DEF EndsLast
<1>3. lost' \in Nat /\ lost' # 0
  BY <1>t DEF StreamBreaks, PageTypes
<1>4. channel' \in Seq(Frames) /\ DOMAIN channel' = {}
  <2>1. channel' = <<>>
    BY DEF StreamBreaks
  <2>2. <<>> \in Seq(Frames) /\ DOMAIN <<>> = {}
    OBVIOUS
  <2>3. QED  BY <2>1, <2>2
<1>5. PageTypes'
  BY <1>1, <1>3, <1>4, <1>t DEF PageTypes, Pages, Frames, Views, Statuses, Requests
<1>6. EndsLast'
  BY <1>1, <1>2, <1>4, <1>t DEF EndsLast
<1>7. EndIsRows' /\ AllDueTold'
  BY <1>3 DEF EndIsRows, AllDueTold
<1>8. Untold' /\ ReadInv'
  BY <1>1 DEF Untold, ReadInv
<1>9. OnlySayable'
  BY <1>4, <1>t, SaidStays DEF OnlySayable
<1>10. QED  BY <1>5, <1>6, <1>7, <1>8, <1>9 DEF PageInv

\* The stream replays the row it has read.
LEMMA SubscribeKeeps ==
    ASSUME RunInv, PageInv, Subscribe, OneExecution' PROVE PageInv'
<1> DEFINE v == seen["stream"]
<1>t. /\ TypeOK /\ PageTypes /\ OneExecution /\ Untold /\ EndsLast /\ EndIsRows /\ ReadInv
      /\ OnlySayable /\ Numbered /\ "none" \notin Results
      /\ UNCHANGED <<vars, page, missed, lost>> /\ request["stream"] = "read"
  BY DEF PageInv, Subscribe, RunInv, Results, Outcomes
<1>0. NoView \in Views
  BY DEF NoView, Views, Statuses
<1>1. /\ request' \in [Requests -> {"none", "asked", "read", "live", "over", "lost"}]
      /\ request'["stream"] = IF v.status \in Terminal THEN "over" ELSE "live"
      /\ request'["refetch"] = request["refetch"] /\ seen' \in [Requests -> Views]
      /\ seen'["refetch"] = seen["refetch"]
  BY <1>0, <1>t DEF Subscribe, PageTypes, Requests
<1>2. ~page.done /\ channel = <<>> /\ \A i \in 1..MaxAttempts : page.tries[i] = "none"
  BY <1>t DEF Untold
<1>v. v \in Views /\ ReadIsOld(v)
  BY <1>t DEF ReadInv, PageTypes, Requests
<1>n. /\ Len(v.tries) \in Nat /\ DOMAIN v.tries = 1..Len(v.tries)
      /\ Len(row.attempts) \in Nat /\ DOMAIN row.attempts = 1..Len(row.attempts)
      /\ MaxAttempts \in Nat /\ v.status \in Statuses
  BY <1>t, <1>v, LimitsAssumption DEF TypeOK, Row, Views
<1>3. Len(v.tries) <= MaxAttempts
  <2>1. executions <= 1
    BY <1>t DEF OneExecution
  <2>2. Len(row.attempts) <= MaxAttempts
    BY <1>t, <2>1 DEF Numbered, InOrder
  <2>3. QED  BY <1>n, <1>v, <2>2 DEF ReadIsOld
<1>4. PICK frames :
         /\ Retells(v, frames)
         /\ Replayed(v) = IF v.status \in Terminal
                          THEN frames \o <<Frame("done", 0, v.status)>> ELSE frames
  BY <1>3, <1>v, ReplayedFrames DEF ReadIsOld
<1> DEFINE d == Frame("done", 0, v.status)
<1>d. d \in Frames /\ d.event = "done" /\ d.what = v.status
  BY <1>n DEF Frame, Frames
<1>5. channel' = Replayed(v)
  <2>1. channel' = <<>> \o Replayed(v)
    BY <1>2 DEF Subscribe
  <2>2. Replayed(v) \in Seq(Frames)
    <3>1. frames \in Seq(Frames) /\ frames \o <<d>> \in Seq(Frames)
      BY <1>4, <1>d, Tuples, ConcatProperties DEF Retells
    <3>2. QED  BY <1>4, <3>1
  <2> HIDE DEF v
  <2>3. QED  BY <2>1, <2>2, ConcatEmptySeq
<1>s. v.status \in Terminal => v.status = row.status /\ row.status \in Terminal
  BY <1>t, <1>v, ViewFields DEF ReadIsOld
<1> HIDE DEF v, d
\* Every frame is one of the retold ones, or the end.
<1>6. /\ channel' \in Seq(Frames)
      /\ \A p \in DOMAIN channel' :
            \/ p \in DOMAIN frames /\ channel'[p] = frames[p]
            \/ /\ v.status \in Terminal /\ channel'[p] = d
               /\ p = Len(channel')
      /\ \A p \in DOMAIN frames : \A i :
            Follows(frames, p, i) => Follows(channel', p, i)
  <2>c. frames \in Seq(Frames)
    BY <1>4 DEF Retells
  <2>1. CASE v.status \notin Terminal
    <3>1. channel' = frames
      BY <1>4, <1>5, <2>1
    <3>2. QED  BY <2>1, <2>c, <3>1
  <2>2. CASE v.status \in Terminal
    <3> DEFINE t == <<d>>
    <3>1. channel' = frames \o t
      BY <1>4, <1>5, <2>2 DEF d
    <3>2. t \in Seq(Frames) /\ Len(t) = 1 /\ DOMAIN t = {1} /\ t[1] = d
      BY <1>d, Tuples
    <3> HIDE DEF t
    <3>3. /\ channel' \in Seq(Frames) /\ Len(channel') = Len(frames) + 1
          /\ Len(frames) \in Nat /\ DOMAIN channel' = 1..Len(channel')
      <4>1. /\ channel' \in Seq(Frames) /\ Len(channel') = Len(frames) + 1
            /\ Len(frames) \in Nat
        BY <2>c, <3>1, <3>2, FramesConcat
      <4>2. QED  BY <4>1
    <3>4. ASSUME NEW p \in DOMAIN channel'
          PROVE  \/ p \in DOMAIN frames /\ channel'[p] = frames[p]
                 \/ channel'[p] = d /\ p = Len(channel')
      <4>1. CASE p - Len(frames) \in DOMAIN t /\ channel'[p] = t[p - Len(frames)]
        <5>1. p - Len(frames) = 1
          BY <3>2, <4>1
        <5>2. QED  BY <3>2, <3>3, <4>1, <5>1
      <4>2. QED  BY <2>c, <3>1, <3>2, <4>1, FramesConcat
    <3>5. \A p \in DOMAIN frames : \A i : Follows(frames, p, i) => Follows(channel', p, i)
      BY <2>c, <3>1, <3>2, FramesConcat
    <3>6. QED  BY <2>2, <3>3, <3>4, <3>5
  <2>3. QED  BY <2>1, <2>2
<1>f. ASSUME NEW p \in DOMAIN frames
      PROVE  /\ frames[p].event \in {"status", "start", "result"}
             /\ \A i : IsResult(frames[p], i) =>
                   i \in DOMAIN v.tries /\ v.tries[i].out = frames[p].what
             /\ \A i : IsStart(frames[p], i) =>
                   i \in DOMAIN v.tries /\ (v.tries[i].out \in Results => Follows(frames, p, i))
             /\ frames[p] \in Frames
  BY <1>4 DEF Retells, IsResult
<1>7. PageTypes'
  BY <1>1, <1>6, <1>t DEF PageTypes, Pages, Frames, Views, Statuses, Requests
<1>8. Untold' /\ ReadInv'
  BY <1>1 DEF Untold, ReadInv
<1>9. EndsLast'
  <2>1. \A p \in DOMAIN channel' : channel'[p].event \in {"done", "error"} =>
           p = Len(channel') /\ v.status \in Terminal
    BY <1>6, <1>f
  <2>2. QED  BY <1>1, <1>2, <1>t, <2>1 DEF EndsLast
<1>10. EndIsRows'
  <2>1. ASSUME NEW p \in DOMAIN channel'
        PROVE  /\ channel'[p].event # "error"
               /\ channel'[p].event = "done" => channel'[p].what = row.status
    BY <1>6, <1>d, <1>f, <1>s
  <2>2. request["refetch"] = "none" /\ page.by # "refetch" /\ row' = row
    BY <1>2, <1>t, SameRun DEF EndsLast
  <2>3. request'["stream"] = "over" => row.status \in Terminal
    BY <1>1, <1>s
  <2>4. QED  BY <1>1, <1>2, <1>t, <2>1, <2>2, <2>3 DEF EndIsRows
<1>11. OnlySayable'
  <2>1. ASSUME NEW p \in DOMAIN channel', NEW i, NEW out,
               IsResult(channel'[p], i), channel'[p].what = out
        PROVE  Sayable(i, out)
    <3>1. p \in DOMAIN frames /\ channel'[p] = frames[p]
      BY <1>6, <1>d, <2>1 DEF IsResult
    <3>2. i \in DOMAIN v.tries /\ v.tries[i].out = out
      BY <1>f, <2>1, <3>1
    <3>3. out \in Results
      BY <1>f, <2>1, <3>1, FrameFields DEF IsResult
    <3>4. i \in DOMAIN row.attempts /\ row.attempts[i].out = out
      BY <1>n, <1>v, <3>2, <3>3 DEF ReadIsOld
    <3>5. QED  BY <3>4 DEF Sayable, InRow
  <2>2. \A i \in 1..MaxAttempts : page'.tries[i] \notin Results
    BY <1>2, <1>t
  <2>3. QED  BY <1>t, <2>1, <2>2, SaidStays
<1>12. AllDueTold'
  <2> SUFFICES ASSUME ~missed', NEW i \in 1..MaxAttempts, Due(i)' PROVE NoneLeft(i)'
    BY DEF AllDueTold
  <2>1. ~missed /\ Due(i)
    BY <1>t, SameRun
  <2>2. ASSUME NEW p \in DOMAIN channel', IsStart(channel'[p], i)
        PROVE  Follows(channel', p, i)
    <3>1. p \in DOMAIN frames /\ channel'[p] = frames[p]
      BY <1>6, <1>d, <2>2 DEF IsStart
    <3>2. i \in DOMAIN v.tries /\ (v.tries[i].out \in Results => Follows(frames, p, i))
      BY <1>f, <2>2, <3>1
    <3>3. v.tries[i].out \in Results
      BY <1>v, <2>1, <3>2 DEF ReadIsOld
    <3>4. QED  BY <1>6, <3>1, <3>2, <3>3
  <2>3. page'.tries[i] # "running"
    BY <1>2, <1>t
  <2>4. QED  BY <2>2, <2>3 DEF NoneLeft, IsStart, Follows, IsResult
<1>13. QED  BY <1>7, <1>8, <1>9, <1>10, <1>11, <1>12 DEF PageInv

\* What applyEvent does to the page.
LEMMA AppliedFields ==
    ASSUME PageTypes, NEW f \in Frames
    PROVE  /\ Applied(f) \in Pages /\ Applied(f).by = page.by
           /\ Applied(f).done <=> page.done \/ f.event \in {"done", "error"}
           /\ f.event = "done" => Applied(f).status = f.what
           /\ \A i \in 1..MaxAttempts : Applied(f).tries[i] =
                 IF IsStart(f, i) THEN "running"
                 ELSE IF IsResult(f, i) THEN f.what ELSE page.tries[i]
<1>1. page \in Pages
  BY DEF PageTypes
<1>t. ASSUME NEW k \in 1..MaxAttempts, NEW x \in {"running"} \cup Results
      PROVE  \E p \in Pages : /\ p = [page EXCEPT !.tries[k] = x]
                              /\ p.by = page.by /\ p.done = page.done
                              /\ \A i \in 1..MaxAttempts :
                                    p.tries[i] = IF i = k THEN x ELSE page.tries[i]
  <2> DEFINE t == [page.tries EXCEPT ![k] = x]
             p == [page EXCEPT !.tries = t]
  <2>1. t \in [1..MaxAttempts -> {"none", "running"} \cup Results]
    BY <1>1 DEF Pages
  <2>2. \A i \in 1..MaxAttempts : t[i] = IF i = k THEN x ELSE page.tries[i]
    BY <1>1 DEF Pages
  <2>3. [page EXCEPT !.tries[k] = x] = p
    BY <1>1 DEF Pages
  <2> HIDE DEF t
  <2>4. p \in Pages /\ p.by = page.by /\ p.done = page.done /\ p.tries = t
    BY <1>1, <2>1 DEF Pages
  <2>5. QED  BY <2>2, <2>3, <2>4
<1>2. CASE f.event = "status"
  <2>1. Applied(f) = [page EXCEPT !.status = f.what] /\ f.what \in Statuses
    BY <1>2, FrameFields DEF Applied
  <2>2. QED  BY <1>1, <1>2, <2>1 DEF Pages, IsStart, IsResult
<1>3. CASE f.event = "start"
  <2>1. Applied(f) = [page EXCEPT !.tries[f.index] = "running"] /\ f.index \in 1..MaxAttempts
    BY <1>3, FrameFields DEF Applied
  <2>2. PICK p \in Pages : /\ p = Applied(f) /\ p.by = page.by /\ p.done = page.done
                           /\ \A i \in 1..MaxAttempts :
                                 p.tries[i] = IF i = f.index THEN "running" ELSE page.tries[i]
    BY <1>t, <2>1
  <2>3. \A i : (IsStart(f, i) <=> f.index = i) /\ (IsResult(f, i) <=> FALSE)
    BY <1>3 DEF IsStart, IsResult
  <2>4. f.event \notin {"done", "error"}
    BY <1>3
  <2>5. QED  BY <2>2, <2>3, <2>4
<1>4. CASE f.event = "result"
  <2>1. /\ Applied(f) = [page EXCEPT !.tries[f.index] = f.what]
        /\ f.index \in 1..MaxAttempts /\ f.what \in Results
    BY <1>4, FrameFields DEF Applied
  <2>2. PICK p \in Pages : /\ p = Applied(f) /\ p.by = page.by /\ p.done = page.done
                           /\ \A i \in 1..MaxAttempts :
                                 p.tries[i] = IF i = f.index THEN f.what ELSE page.tries[i]
    BY <1>t, <2>1
  <2>3. \A i : (IsStart(f, i) <=> FALSE) /\ (IsResult(f, i) <=> f.index = i)
    BY <1>4 DEF IsStart, IsResult
  <2>4. f.event \notin {"done", "error"}
    BY <1>4
  <2>5. QED  BY <2>2, <2>3, <2>4
<1>5. CASE f.event = "done"
  <2>1. Applied(f) = [page EXCEPT !.done = TRUE, !.status = f.what] /\ f.what \in Statuses
    BY <1>5, FrameFields DEF Applied
  <2>2. QED  BY <1>1, <1>5, <2>1 DEF Pages, IsStart, IsResult
<1>6. CASE f.event = "error"
  <2>1. Applied(f) = [page EXCEPT !.done = TRUE]
    BY <1>6 DEF Applied
  <2>2. QED  BY <1>1, <1>6, <2>1 DEF Pages, IsStart, IsResult
<1>7. QED  BY <1>2, <1>3, <1>4, <1>5, <1>6, FrameFields

\* The page applies a frame.
LEMMA ReceiveKeeps ==
    ASSUME RunInv, PageInv, Receive, OneExecution' PROVE PageInv'
<1> DEFINE f == Head(channel)
<1>t. /\ PageTypes /\ Untold /\ EndsLast /\ EndIsRows /\ ReadInv /\ OnlySayable /\ AllDueTold
      /\ "running" \notin Results /\ channel # <<>> /\ channel \in Seq(Frames)
      /\ UNCHANGED <<vars, seen, missed, lost>> /\ channel' = Tail(channel)
  BY DEF PageInv, Receive, Results, Outcomes, PageTypes
<1>0. ~page.done /\ request["stream"] \notin {"none", "asked", "read"}
  BY <1>t DEF EndsLast, Untold
<1>c. /\ f \in Frames /\ channel[1] = f /\ Len(channel) \in Nat /\ Len(channel) > 0
      /\ channel' \in Seq(Frames) /\ Len(channel') = Len(channel) - 1
      /\ DOMAIN channel = 1..Len(channel) /\ DOMAIN channel' = 1..Len(channel')
      /\ \A p \in 1..Len(channel') : channel'[p] = channel[p + 1]
  BY <1>t, HeadTailProperties, EmptySeq
<1>a. /\ page' = Applied(f) /\ page' \in Pages /\ page'.by = page.by
      /\ page'.done <=> f.event \in {"done", "error"}
      /\ f.event = "done" => page'.status = f.what
      /\ \A i \in 1..MaxAttempts : page'.tries[i] =
            IF IsStart(f, i) THEN "running"
            ELSE IF IsResult(f, i) THEN f.what ELSE page.tries[i]
  BY <1>0, <1>c, <1>t, AppliedFields DEF Receive
<1>1. /\ request' \in [Requests -> {"none", "asked", "read", "live", "over", "lost"}]
      /\ request'["stream"] = request["stream"]
      /\ request'["refetch"] # "read"
      /\ ~page'.done => request'["refetch"] = "none"
  <2>1. request["refetch"] = "none"
    BY <1>0, <1>t DEF EndsLast
  <2>2. request' = [request EXCEPT !["refetch"] = IF page'.done /\ ~page.done THEN "asked" ELSE @]
    BY DEF Receive
  <2>3. QED  BY <1>t, <2>1, <2>2 DEF PageTypes, Requests
<1> HIDE DEF f
<1>n. \A p \in DOMAIN channel' : p + 1 \in DOMAIN channel /\ channel'[p] = channel[p + 1]
  BY <1>c
<1>b. \A p \in DOMAIN channel : p > 1 => p - 1 \in DOMAIN channel' /\ channel'[p - 1] = channel[p]
  <2> SUFFICES ASSUME NEW p \in DOMAIN channel, p > 1
               PROVE  p - 1 \in DOMAIN channel' /\ channel'[p - 1] = channel[p]
    OBVIOUS
  <2>1. PICK k \in Nat : k = p - 1
    BY <1>c
  <2>2. k \in 1..Len(channel') /\ k + 1 = p
    BY <1>c, <2>1
  <2>3. QED  BY <1>c, <2>1, <2>2
<1>d. 1 \in DOMAIN channel
  BY <1>c
<1>2. PageTypes'
  BY <1>1, <1>a, <1>c, <1>t DEF PageTypes, Frames, Views, Statuses, Requests, Pages
<1>3. Untold' /\ ReadInv'
  BY <1>0, <1>1 DEF Untold, ReadInv
<1>4. EndsLast'
  <2>1. ASSUME NEW p \in DOMAIN channel', channel'[p].event \in {"done", "error"}
        PROVE  p = Len(channel') /\ request'["stream"] = "over"
    <3>1. p + 1 = Len(channel) /\ request["stream"] = "over"
      BY <1>n, <1>t, <2>1 DEF EndsLast
    <3>2. QED  BY <1>1, <1>c, <3>1
  <2>2. page'.done => channel' = <<>> /\ request'["stream"] = "over"
    <3>1. page'.done => 1 = Len(channel) /\ request["stream"] = "over"
      <4>1. page'.done => channel[1].event \in {"done", "error"}
        BY <1>a, <1>c
      <4>2. QED  BY <1>d, <1>t, <4>1 DEF EndsLast
    <3>2. ASSUME 1 = Len(channel) PROVE channel' = <<>>
      <4>1. PICK n : n = Len(channel')
        OBVIOUS
      <4>2. n = 1 - 1
        BY <1>c, <3>2, <4>1
      <4>3. channel' # <<>> => n \in Nat \ {0}
        BY <1>c, <4>1, EmptySeq
      <4>4. QED  BY <4>2, <4>3
    <3>3. QED  BY <1>1, <3>1, <3>2
  <2>3. ~page'.done => request'["refetch"] = "none" /\ page'.by # "refetch"
    BY <1>0, <1>1, <1>a, <1>t DEF EndsLast
  <2>4. QED  BY <2>1, <2>2, <2>3 DEF EndsLast
<1>5. EndIsRows'
  <2> SUFFICES ASSUME lost' = 0
               PROVE  /\ request'["stream"] # "lost"
                      /\ request'["stream"] = "over" => row'.status \in Terminal
                      /\ \A p \in DOMAIN channel' :
                            /\ channel'[p].event # "error"
                            /\ channel'[p].event = "done" => channel'[p].what = row'.status
                      /\ page'.done => page'.status = row'.status
                      /\ request'["refetch"] = "read" => seen'["refetch"] = View(row)'
                      /\ page'.by = "refetch" => page'.run = View(row)'
    BY DEF EndIsRows
  <2>0. row' = row
    BY <1>t, SameRun
  <2>1. /\ request["stream"] # "lost"
        /\ request["stream"] = "over" => row.status \in Terminal
        /\ \A p \in DOMAIN channel :
              /\ channel[p].event # "error"
              /\ channel[p].event = "done" => channel[p].what = row.status
    BY <1>t DEF EndIsRows
  <2>2. page'.done => page'.status = row.status
    BY <1>a, <1>c, <1>d, <2>1
  <2>3. page'.by # "refetch"
    BY <1>0, <1>a, <1>t DEF EndsLast
  <2>4. \A p \in DOMAIN channel' :
              /\ channel'[p].event # "error"
              /\ channel'[p].event = "done" => channel'[p].what = row.status
    BY <1>n, <2>1
  <2>5. QED  BY <1>1, <2>0, <2>1, <2>2, <2>3, <2>4
<1>6. OnlySayable'
  <2>0. /\ \A p \in DOMAIN channel : \A i, out :
              IsResult(channel[p], i) /\ channel[p].what = out => Sayable(i, out)
        /\ \A i \in 1..MaxAttempts : page.tries[i] \in Results => Sayable(i, page.tries[i])
    BY <1>0, <1>t DEF OnlySayable
  <2>1. \A p \in DOMAIN channel' : \A i, out :
           IsResult(channel'[p], i) /\ channel'[p].what = out => Sayable(i, out)
    BY <1>n, <2>0
  <2>2. ASSUME NEW i \in 1..MaxAttempts, page'.tries[i] \in Results
        PROVE  \E out : out = page'.tries[i] /\ Sayable(i, out)
    <3>1. CASE IsResult(f, i)
      <4>1. page'.tries[i] = f.what
        BY <1>a, <3>1 DEF IsResult, IsStart
      <4>2. Sayable(i, f.what)
        BY <1>c, <1>d, <2>0, <3>1
      <4>3. QED  BY <4>1, <4>2
    <3>2. CASE ~IsResult(f, i)
      <4>1. page'.tries[i] = page.tries[i]
        BY <1>a, <1>t, <2>2, <3>2
      <4>2. QED  BY <2>0, <2>2, <4>1
    <3>3. QED  BY <3>1, <3>2
  <2>3. QED  BY <1>t, <2>1, <2>2, SaidStays
<1>7. AllDueTold'
  <2> SUFFICES ASSUME request'["stream"] \in {"live", "over"}, lost' = 0, ~missed',
                      NEW i \in 1..MaxAttempts, Due(i)'
               PROVE  /\ \A p \in DOMAIN channel' :
                            IsStart(channel'[p], i) => Follows(channel', p, i)
                      /\ page'.tries[i] = "running" =>
                            \E q \in DOMAIN channel' : IsResult(channel'[q], i)
    BY DEF AllDueTold, NoneLeft, Follows, IsStart, IsResult
  <2>1. Due(i)
    BY <1>t, SameRun
  <2>2. NoneLeft(i)
    BY <1>1, <1>t, <2>1 DEF AllDueTold
  <2>3. ASSUME NEW p \in DOMAIN channel', IsStart(channel'[p], i)
        PROVE  Follows(channel', p, i)
    <3>1. PICK q \in DOMAIN channel : q > p + 1 /\ IsResult(channel[q], i)
      BY <1>n, <2>2, <2>3 DEF NoneLeft, Follows
    <3>2. q > 1 /\ q - 1 > p
      BY <1>c, <3>1
    <3>3. QED  BY <1>b, <3>1, <3>2 DEF Follows
  <2>4. ASSUME page'.tries[i] = "running"
        PROVE  \E q \in DOMAIN channel' : IsResult(channel'[q], i)
    <3>1. CASE IsStart(f, i)
      <4>1. PICK q \in DOMAIN channel : q > 1 /\ IsResult(channel[q], i)
        BY <1>c, <1>d, <2>2, <3>1 DEF NoneLeft, Follows
      <4>2. QED  BY <1>b, <4>1
    <3>2. CASE ~IsStart(f, i)
      <4>1. ~IsResult(f, i)
        BY <1>a, <1>c, <1>t, <2>4, <3>2, FrameFields DEF IsResult
      <4>2. page.tries[i] = "running"
        BY <1>a, <2>4, <3>2, <4>1
      <4>3. PICK q \in DOMAIN channel : IsResult(channel[q], i)
        BY <2>2, <4>2 DEF NoneLeft
      <4>4. q > 1
        BY <1>c, <4>1, <4>3
      <4>5. QED  BY <1>b, <4>3, <4>4
    <3>3. QED  BY <3>1, <3>2
  <2>5. QED  BY <2>3, <2>4
<1>8. QED  BY <1>2, <1>3, <1>4, <1>5, <1>6, <1>7 DEF PageInv

\* Every step keeps what is known of the page.
LEMMA PageInvStep == RunInv /\ PageInv /\ [PageNext]_pv => PageInv'
<1> SUFFICES ASSUME RunInv, PageInv, [PageNext]_pv PROVE PageInv'
  OBVIOUS
<1>0. OneExecution'
  BY OneExecutionStep DEF PageInv
<1>1. CASE Works /\ request["stream"] = "none"
  <2>1. UNCHANGED <<request, seen, channel, page, lost>> /\ missed' \in BOOLEAN
    BY <1>1 DEF Works, Relayed
  <2>2. PageTypes'
    BY <2>1 DEF PageInv, PageTypes, Pages, Frames, Views, Statuses, Requests
  <2>3. QED  BY <1>0, <1>1, <2>1, <2>2, NoPageKeeps
<1>2. CASE Works /\ request["stream"] # "none"
  BY <1>0, <1>2, WorksKeeps
<1>3. CASE WorkerDies
  <2>1. UNCHANGED <<request, seen, channel, page, missed, lost>> /\ request["stream"] = "none"
    BY <1>3 DEF WorkerDies, pageVars
  <2>2. PageTypes'
    BY <2>1 DEF PageInv, PageTypes, Pages, Frames, Views, Statuses, Requests
  <2>3. QED  BY <1>0, <2>1, <2>2, NoPageKeeps
<1>4. CASE Open \/ Subscribe \/ Receive \/ FirstLoaded \/ Refetched \/ StreamFails
           \/ StreamBreaks
  BY <1>0, <1>4, OpenKeeps, SubscribeKeeps, ReceiveKeeps, FirstLoadedKeeps, RefetchedKeeps,
     StreamFailsKeeps, StreamBreaksKeeps
<1>5. CASE \E q \in Requests : ReadRow(q) \/ LoadFails(q)
  BY <1>0, <1>5, ReadRowKeeps, LoadFailsKeeps
<1>6. CASE UNCHANGED pv
  <2>1. UNCHANGED <<vars, request, seen, channel, page, missed, lost>>
    BY <1>6 DEF pv, pageVars
  <2>2. PageTypes' /\ Untold' /\ EndsLast'
    BY <2>1 DEF PageInv, PageTypes, Untold, EndsLast, Pages, Frames, Views, Statuses, Requests
  <2>3. EndIsRows' /\ AllDueTold'
    BY <2>1, SameRun DEF PageInv, EndIsRows, AllDueTold, NoneLeft
  <2>4. ReadInv'
    BY <2>1, ReadStays DEF PageInv
  <2>5. OnlySayable'
    BY <2>1, SaidStays DEF PageInv, OnlySayable
  <2>6. QED  BY <1>0, <2>2, <2>3, <2>4, <2>5 DEF PageInv
<1>7. QED
  BY <1>1, <1>2, <1>3, <1>4, <1>5, <1>6 DEF PageNext, PageStep

\* An open page, an execution, and its attempts in their places.
LEMMA PlacedAttempts ==
    ASSUME RunInv, PageInv, request["stream"] # "none"
    PROVE  /\ DOMAIN row.attempts \subseteq 1..MaxAttempts
           /\ \A i \in DOMAIN row.attempts : row.attempts[i].index = i
<1>1. executions <= 1
  BY DEF PageInv, OneExecution
<1>2. InOrder(row)
  BY <1>1 DEF RunInv, Numbered
<1>3. /\ Len(row.attempts) \in Nat /\ DOMAIN row.attempts = 1..Len(row.attempts)
      /\ MaxAttempts \in Nat
  BY LastOf, LimitsAssumption DEF RunInv
<1>4. QED  BY <1>2, <1>3 DEF InOrder

\* What is known of the page makes it truthful.
LEMMA TruthfulPage == RunInv /\ PageInv => PageIsTruthful
<1> SUFFICES ASSUME RunInv, PageInv PROVE PageIsTruthful
  OBVIOUS
<1>t. /\ TypeOK /\ PageTypes /\ Untold /\ EndsLast /\ EndIsRows /\ OnlySayable /\ AllDueTold
      /\ "none" \notin Results /\ "running" \notin Results
  BY DEF RunInv, PageInv, Results, Outcomes
<1>1. ResultsAreRecorded
  <2> SUFFICES ASSUME ~demo, NEW i \in 1..MaxAttempts, page.tries[i] \in Results
               PROVE  \E a \in Range(row.attempts) : a.index = i /\ a.out = page.tries[i]
    BY DEF ResultsAreRecorded
  <2>1. request["stream"] # "none"
    BY <1>t DEF Untold
  <2>2. InRow(i, page.tries[i])
    BY <1>t, <2>1 DEF OnlySayable, Sayable, Promised
  <2>3. row.attempts[i] \in Range(row.attempts) /\ row.attempts[i].index = i
    BY <2>1, <2>2, PlacedAttempts DEF InRow, Range
  <2>4. QED  BY <2>2, <2>3 DEF InRow
<1>2. SettledPageIsCurrent
  <2> SUFFICES ASSUME page.done, page.by = "refetch", lost = 0
               PROVE  /\ page.status = row.status /\ page.run = View(row)
                      /\ ~missed => \A a \in Range(row.attempts) :
                                        a.out \in Results => Shown(a.index) = {a.out}
    BY DEF SettledPageIsCurrent
  <2>1. page.status = row.status /\ page.run = View(row)
    BY <1>t DEF EndIsRows
  <2>2. channel = <<>> /\ request["stream"] = "over" /\ row.status \in Terminal
    BY <1>t DEF EndsLast, EndIsRows
  <2>3. ASSUME ~missed, NEW a \in Range(row.attempts), a.out \in Results
        PROVE  Shown(a.index) = {a.out}
    <3>1. PICK i \in DOMAIN row.attempts : a = row.attempts[i]
      BY DEF Range
    <3>2. a.index = i /\ i \in 1..MaxAttempts
      BY <2>2, <3>1, PlacedAttempts
    <3>3. page.tries[i] # "running"
      <4>1. Due(i)
        BY <2>2, <2>3, <3>1 DEF Due
      <4>2. NoneLeft(i)
        BY <1>t, <2>2, <2>3, <3>2, <4>1 DEF AllDueTold
      <4>3. DOMAIN channel = {}
        BY <2>2
      <4>4. QED  BY <4>2, <4>3 DEF NoneLeft
    <3>4. CASE page.tries[i] = "none"
      <4> DEFINE R == Range(View(row).tries)
      <4>1. Shown(i) = {t.out : t \in {u \in R : u.index = i}}
        BY <2>1, <3>4 DEF Shown
      <4>2. ASSUME NEW u \in R, u.index = i PROVE u.out = a.out
        <5>1. PICK k \in DOMAIN row.attempts : u = View(row).tries[k]
          BY <1>t, ViewFields DEF Range
        <5>2. k = i
          BY <1>t, <2>2, <4>2, <5>1, PlacedAttempts, ViewFields
        <5>3. QED  BY <1>t, <3>1, <5>1, <5>2, ViewFields
      <4>3. \E u \in R : u.index = i
        <5>1. View(row).tries[i] \in R
          BY <1>t, ViewFields DEF Range
        <5>2. View(row).tries[i].index = i
          BY <1>t, <2>2, PlacedAttempts, ViewFields
        <5>3. QED  BY <5>1, <5>2
      <4> HIDE DEF R
      <4>4. {t.out : t \in {u \in R : u.index = i}} = {a.out}
        BY <4>2, <4>3
      <4>5. QED  BY <3>2, <4>1, <4>4
    <3>5. CASE page.tries[i] # "none"
      <4>1. page.tries[i] \in Results
        BY <1>t, <3>2, <3>3, <3>5 DEF PageTypes, Pages
      <4>2. Sayable(i, page.tries[i])
        BY <1>t, <2>2, <3>2, <4>1 DEF OnlySayable
      <4>3. page.tries[i] = a.out
        BY <2>2, <3>1, <4>2 DEF Sayable, Promised, InRow
      <4>4. QED  BY <3>2, <3>5, <4>3 DEF Shown
    <3>6. QED  BY <3>4, <3>5
  <2>4. QED  BY <2>1, <2>2, <2>3
<1>3. QED  BY <1>1, <1>2 DEF PageIsTruthful

\* What holds always of a run and its page.
LEMMA PageInvariant == PageSpec => [](RunInv /\ PageInv)
<1>1. PageInit => RunInv /\ PageInv
  BY RunInit, PageInvInit DEF PageInit
<1>2. RunInv /\ PageInv /\ [PageNext]_pv => (RunInv /\ PageInv)'
  BY PageSteps, RunStep, PageInvStep
<1>3. [PageNext]_<<vars, pageVars>> => [PageNext]_pv
  BY DEF pv
<1>4. QED  BY <1>1, <1>2, <1>3, PTL DEF PageSpec

\* For every run, and however its page's requests, frames and failures fall: a
\* result the page shows is one that runAgent has written, and a page that is
\* done and has read the run again shows its status, its attempts and, if no
\* event fell between replay and subscription, all its results.
THEOREM PagesAreTruthful == PageSpec => []PageIsTruthful
<1>1. QED  BY PageInvariant, TruthfulPage, PTL

\* A page only watches: what the worker does beside a page it does without one,
\* and every theorem about Spec holds of the run on a page.
THEOREM PagesRunTheRun == PageSpec => Spec
<1>1. PageInit => Init
  BY DEF PageInit
<1>2. [PageNext]_<<vars, pageVars>> => [Next]_vars
  BY PageSteps DEF pv
<1>3. QED  BY <1>1, <1>2, PTL DEF PageSpec, Spec
============================================================================
