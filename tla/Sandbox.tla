------------------------------ MODULE Sandbox ------------------------------
(***************************************************************************)
(* sandbox/executor.js: one container per execution, killed at a deadline, *)
(* waited for, and removed whatever happened; sandbox/reaper.js: at boot,  *)
(* remove the containers a previous process left.  The routes are served   *)
(* while the reaper works.  A container is named by the label it carries;  *)
(* the output it prints is not modelled.                                   *)
(***************************************************************************)
EXTENDS Naturals, FiniteSets

CONSTANTS Runners,   \* who calls execute
          Labels,    \* the labels of containers
          NoLabel,   \* no container
          MaxFaults  \* bound: Docker operations that fail

ASSUME SandboxAssumption == NoLabel \notin Labels /\ MaxFaults \in Nat

VARIABLES
  exec,         \* exec[r]: the execution r waits for
  alive,        \* the containers Docker holds
  status,       \* status[l]: what has become of l's program
  reaper,       \* "listing", "removing" or "done"
  doomed,       \* the containers the reaper has listed and not yet removed
  stuck,        \* containers this process tried to remove in vain (history)
  faults        \* failed Docker operations so far (bound)

sandboxVars == <<exec, alive, status, reaper, doomed, stuck, faults>>

(* "fail" is every exit code but 0, and 137 of a program that was killed;  *)
(* "overdue" runs past the deadline, "late" was over or killed by then.    *)
Status == {"new", "up", "pass", "fail", "overdue", "late"}
Answer == {"none", "pass", "fail", "late", "threw"}
ExecStep == {"idle", "creating", "starting", "waiting", "cleaning", "done"}

SandboxTypeOK ==
  /\ exec \in [Runners -> [step : ExecStep, label : Labels \cup {NoLabel},
                           answer : Answer]]
  /\ alive \subseteq Labels /\ doomed \subseteq Labels
  /\ stuck \subseteq Labels
  /\ status \in [Labels -> Status]
  /\ reaper \in {"listing", "removing", "done"}
  /\ faults \in 0..MaxFaults

NoExec == [step |-> "idle", label |-> NoLabel, answer |-> "none"]

(* A process boots on a Docker that may hold old containers. *)
SandboxInit(old) ==
  /\ exec = [r \in Runners |-> NoExec]
  /\ alive \in SUBSET old
  /\ status \in [Labels -> {"new", "up"}]
  /\ \A l \in Labels : status[l] = "up" <=> l \in alive
  /\ doomed = {} /\ stuck = {}
  /\ reaper = "listing" /\ faults = 0

Doing(r, step) == exec[r].step = step
Box(r) == exec[r].label
To(r, step) == exec' = [exec EXCEPT ![r].step = step]
Fault == faults < MaxFaults /\ faults' = faults + 1

Execute(r, l) ==
  exec' = [exec EXCEPT ![r] =
             [step |-> "creating", label |-> l, answer |-> "none"]]

Create(r) ==
  /\ Doing(r, "creating")
  /\ \/ /\ alive' = alive \cup {Box(r)}
        /\ To(r, "starting") /\ UNCHANGED faults
     \/ /\ Fault /\ UNCHANGED alive
        /\ exec' = [exec EXCEPT ![r].step = "done", ![r].answer = "threw"]
  /\ UNCHANGED <<status, reaper, doomed, stuck>>

Throws(r) == exec' = [exec EXCEPT ![r].step = "cleaning", ![r].answer = "threw"]

(* attach, then start: each can fail, and they do when the container has   *)
(* been removed.                                                           *)
Start(r) ==
  /\ Doing(r, "starting")
  /\ \/ /\ Box(r) \in alive
        /\ status' = [status EXCEPT ![Box(r)] = "up"]
        /\ To(r, "waiting") /\ UNCHANGED faults
     \/ /\ Throws(r) /\ UNCHANGED status
        /\ IF Box(r) \in alive THEN Fault ELSE UNCHANGED faults
  /\ UNCHANGED <<alive, reaper, doomed, stuck>>

Runs(l) == status[l] \in {"up", "overdue"}
Becomes(l, s) == status' = [status EXCEPT ![l] = s]

(* The program ends by itself, or the kernel ends it (memory).  What the   *)
(* program of label l does is the world's choice.                          *)
ProgramEnds(l) ==
  /\ l \in alive /\ Runs(l)
  /\ IF status[l] = "overdue" THEN Becomes(l, "late")
     ELSE Becomes(l, "pass") \/ Becomes(l, "fail")
  /\ UNCHANGED <<exec, alive, reaper, doomed, stuck, faults>>

(* The wall-clock timer: timedOut is set whatever the program has done     *)
(* meanwhile, and the kill is sent without waiting for it.                 *)
Deadline(r) ==
  /\ Doing(r, "waiting") /\ status[Box(r)] \notin {"overdue", "late"}
  /\ \/ Becomes(Box(r), "late") /\ UNCHANGED faults
     \/ Runs(Box(r)) /\ Becomes(Box(r), "overdue") /\ Fault
  /\ UNCHANGED <<exec, alive, reaper, doomed, stuck>>

(* container.wait() answers; a late execution has no exit code. *)
WaitReturns(r) ==
  /\ Doing(r, "waiting") /\ ~Runs(Box(r))
  /\ exec' = [exec EXCEPT ![r].step = "cleaning",
                          ![r].answer = status[Box(r)]]
  /\ UNCHANGED <<alive, status, reaper, doomed, stuck, faults>>

(* A bug: nothing bounds the wait for a container that ignores the kill. *)
GraceMissing(r) == FALSE

(* The kill had no effect: the wait is given up WAIT_GRACE_MS later. *)
Grace(r) ==
  /\ Doing(r, "waiting") /\ status[Box(r)] = "overdue"
  /\ Throws(r)
  /\ UNCHANGED <<alive, status, reaper, doomed, stuck, faults>>

(* What a forced removal does to a program that is still running. *)
Removed(l) ==
  /\ alive' = alive \ {l}
  /\ Becomes(l, IF l \notin alive THEN status[l]
                ELSE CASE status[l] = "up" -> "fail"
                       [] status[l] = "overdue" -> "late"
                       [] OTHER -> status[l])

(* A bug: the removal follows the wait instead of being a finally. *)
CleanUpAfterWaitOnly(r) ==
  /\ Doing(r, "cleaning") /\ To(r, "done")
  /\ IF exec[r].answer = "threw" THEN UNCHANGED <<alive, status>>
     ELSE Removed(Box(r))
  /\ UNCHANGED <<reaper, doomed, stuck, faults>>

(* finally: the container is removed; a failure is logged. *)
CleanUp(r) ==
  /\ Doing(r, "cleaning") /\ To(r, "done")
  /\ \/ Removed(Box(r)) /\ UNCHANGED <<stuck, faults>>
     \/ /\ Box(r) \in alive /\ Fault /\ stuck' = stuck \cup {Box(r)}
        /\ UNCHANGED <<alive, status>>
  /\ UNCHANGED <<reaper, doomed>>

SandboxStep(r) == Create(r) \/ Start(r) \/ Deadline(r) \/ WaitReturns(r)
                  \/ Grace(r) \/ CleanUp(r)

(* The reaper lists every labelled container, the ones that have exited    *)
(* and the ones this process has just made included; without Docker it     *)
(* gives up.                                                               *)
ReaperLists ==
  /\ reaper = "listing"
  /\ \/ /\ doomed' = alive /\ reaper' = "removing"
        /\ UNCHANGED <<stuck, faults>>
     \/ /\ Fault /\ reaper' = "done" /\ stuck' = stuck \cup alive
        /\ UNCHANGED doomed
  /\ UNCHANGED <<exec, alive, status>>

ReaperRemoves ==
  /\ reaper = "removing"
  /\ \E l \in doomed :
       /\ doomed' = doomed \ {l}
       /\ \/ Removed(l) /\ UNCHANGED <<stuck, faults>>
          \/ /\ l \in alive /\ Fault /\ stuck' = stuck \cup {l}
             /\ UNCHANGED <<alive, status>>
  /\ UNCHANGED <<exec, reaper>>

ReaperEnds ==
  /\ reaper = "removing" /\ doomed = {}
  /\ reaper' = "done"
  /\ UNCHANGED <<exec, alive, status, doomed, stuck, faults>>

Reaps == ReaperLists \/ ReaperRemoves \/ ReaperEnds

(* The process dies with its executions; containers and programs stay, and *)
(* the next process boots.                                                 *)
SandboxCrash ==
  /\ exec' = [r \in Runners |-> NoExec]
  /\ reaper' = "listing" /\ doomed' = {} /\ stuck' = {}
  /\ UNCHANGED <<alive, status, faults>>

=============================================================================
