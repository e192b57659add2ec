------------------------------- MODULE Quota -------------------------------
(***************************************************************************)
(* One call of the pinned Gemini model (agent/gemini.client.js generate)   *)
(* and the limits every caller of the process shares (quota/limiter.js):   *)
(* a first-come window of slots, a daily counter in Redis that counts      *)
(* before it decides, and the counter in memory that stands in for it when *)
(* a command fails.  One Pacific day; the backoff is the order of tries.   *)
(***************************************************************************)
EXTENDS Naturals, Sequences, FiniteSets

CONSTANTS
  Callers,      \* who calls generate
  Capacity,     \* config.gemini.requestsPerMinute
  Cap,          \* config.gemini.dailyCap
  MaxTries,     \* BACKOFF_MS.length + 1
  MaxErrors     \* bound: Redis commands that fail

ASSUME QuotaAssumption ==
  /\ Capacity \in Nat \ {0} /\ MaxTries \in Nat \ {0}
  /\ Cap \in Nat /\ MaxErrors \in Nat
  /\ IsFiniteSet(Callers)

VARIABLES
  call,         \* call[c]: the step of c's call and the tries it has made
  tail,         \* the callers chained behind the bucket's tail
  grants,       \* slots granted in the last minute
  daily,        \* today's counter in Redis
  memory,       \* today's counter in this process
  errors,       \* failed Redis commands so far (bound)
  admitted      \* calls that Redis's counter let through today (history)

quotaVars == <<call, tail, grants, daily, memory, errors, admitted>>

CallStep == {"idle", "queued", "reserving", "refusing", "sending",
             "ok", "refused", "error"}

QuotaTypeOK ==
  /\ call \in [Callers -> [step : CallStep, tries : 0..MaxTries]]
  /\ tail \in Seq(Callers) /\ Len(tail) <= Cardinality(Callers)
  /\ grants \in 0..Capacity
  /\ daily \in Nat /\ admitted \in Nat
  /\ memory \in 0..Cap
  /\ errors \in 0..MaxErrors

NoCall == [step |-> "idle", tries |-> 0]

QuotaInit ==
  /\ call = [c \in Callers |-> NoCall]
  /\ tail = << >> /\ grants = 0
  /\ daily = 0 /\ memory = 0
  /\ errors = 0 /\ admitted = 0

At(c, step) == call[c].step = step
Go(c, step) == call' = [call EXCEPT ![c] = [step |-> step, tries |-> 0]]

(* The call joins the bucket's chain. *)
Generate(c) ==
  /\ call' = [call EXCEPT ![c] = [step |-> "queued", tries |-> 0]]
  /\ tail' = Append(tail, c)

(* A bug: released callers do not look at the window. *)
SlotUnpaced(c) ==
  /\ At(c, "queued") /\ Head(tail) = c
  /\ grants' = grants + 1
  /\ tail' = Tail(tail)
  /\ Go(c, "reserving")
  /\ UNCHANGED <<daily, memory, errors, admitted>>

(* The head takes a slot when the window has one; the callers behind it    *)
(* wait for it to do so.                                                   *)
Slot(c) ==
  /\ At(c, "queued") /\ Head(tail) = c /\ grants < Capacity
  /\ grants' = grants + 1
  /\ tail' = Tail(tail)
  /\ Go(c, "reserving")
  /\ UNCHANGED <<daily, memory, errors, admitted>>

(* The head sleeps until the oldest grant has left the window. *)
WindowSlides(c) ==
  /\ At(c, "queued") /\ Head(tail) = c /\ grants > 0
  /\ grants' = grants - 1
  /\ UNCHANGED <<call, tail, daily, memory, errors, admitted>>

(* INCR decides: at most Cap callers are answered a count within the cap.  *)
Reserve(c) ==
  /\ At(c, "reserving")
  /\ daily' = daily + 1
  /\ IF daily + 1 > Cap THEN Go(c, "refusing") /\ UNCHANGED admitted
     ELSE Go(c, "sending") /\ admitted' = admitted + 1
  /\ UNCHANGED <<tail, grants, memory, errors>>

(* The memory counter decides in place of Redis. *)
ReserveInMemory(c) ==
  /\ errors < MaxErrors /\ errors' = errors + 1
  /\ IF memory + 1 > Cap
       THEN Go(c, "refused") /\ UNCHANGED memory
       ELSE memory' = memory + 1 /\ Go(c, "sending")
  /\ UNCHANGED <<tail, grants, admitted>>

(* INCR is refused, or it was today's first and its EXPIRE is refused.     *)
ReserveErrs(c) ==
  /\ At(c, "reserving")
  /\ daily' \in {daily} \cup (IF daily = 0 THEN {1} ELSE {})
  /\ ReserveInMemory(c)

(* The refused caller takes its count back. *)
GiveBack(c) ==
  /\ At(c, "refusing")
  /\ daily' = daily - 1
  /\ Go(c, "refused")
  /\ UNCHANGED <<tail, grants, memory, errors, admitted>>

(* DECR is refused: the same catch asks the memory counter, which may      *)
(* admit the call that Redis has just refused.                             *)
GiveBackErrs(c) ==
  /\ At(c, "refusing")
  /\ UNCHANGED daily
  /\ ReserveInMemory(c)

(* One HTTP request: an answer, a condition no retry can help (404, a zero *)
(* allocation, another 4xx, a truncated answer), or a transient failure,   *)
(* after which the same model is tried again until the backoffs run out.   *)
Try(c) ==
  /\ At(c, "sending")
  /\ \/ Go(c, "ok") \/ Go(c, "error")
     \/ /\ call[c].tries + 1 < MaxTries
        /\ call' = [call EXCEPT ![c].tries = @ + 1]
  /\ UNCHANGED <<tail, grants, daily, memory, errors, admitted>>

QuotaStep(c) == Slot(c) \/ WindowSlides(c) \/ Reserve(c) \/ ReserveErrs(c)
                \/ GiveBack(c) \/ GiveBackErrs(c) \/ Try(c)

(* The process dies: what it held in memory is gone, what Redis holds      *)
(* stays.                                                                  *)
QuotaCrash ==
  /\ call' = [c \in Callers |-> NoCall]
  /\ tail' = << >> /\ grants' = 0 /\ memory' = 0
  /\ UNCHANGED <<daily, errors, admitted>>

=============================================================================
