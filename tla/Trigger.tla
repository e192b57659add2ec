------------------------------ MODULE Trigger ------------------------------
(***************************************************************************)
(* Triggering agent runs: createAndEnqueue (services/run.service.js) with  *)
(* the Redis claim of services/idempotency.js, the unique index of         *)
(* models/AgentRun.js, the queue, the worker's handling of jobs and the    *)
(* scheduler's tick lock.                                                  *)
(*                                                                         *)
(* The deliveries all carry one idempotency key; runs of other keys do not *)
(* interact.  The firings, one per server instance, of one cron tick carry *)
(* none; a manual trigger does what a firing does past the tick lock.  One *)
(* action is one awaited operation of MongoDB, Redis or the queue with the *)
(* code that follows it; one that throws may have taken effect.            *)
(***************************************************************************)
EXTENDS Integers, FiniteSets

CONSTANTS
    Deliveries,     \* webhook deliveries of the key, retries included
    Firings,        \* firings of one cron tick, one per instance
    Runs,           \* AgentRun ids
    NoRun,
    RedisModes,     \* values isRedisConfigured() may have
    MaxFailures,    \* bound: operations that throw
    MaxRestarts     \* bound: crashes and restarts

ASSUME IdsAssumption ==
    /\ NoRun \notin Runs
    /\ {"free", "pending"} \cap Runs = {}
    /\ Deliveries \cap Firings = {}
ASSUME BoundsAssumption ==
    MaxFailures \in Nat /\ MaxRestarts \in Nat /\ RedisModes \subseteq BOOLEAN

Requests == Deliveries \cup Firings

VARIABLES
    redisOn,    \* isRedisConfigured()
    req,        \* each request: the operation it awaits and its run
    answer,     \* each request's outcome
    claim,      \* idem:<key> in Redis
    tick,       \* whether cron:<task>:<minute> is taken
    rows,       \* AgentRun.status, "none" when there is no row
    keyed,      \* the runs whose row has the idempotency key
    jobs,       \* each run's BullMQ job
    failed,     \* history: what has thrown so far
    failures,   \* history: how often
    restarts    \* history: crashes so far

vars == <<redisOn, req, answer, claim, tick, rows, keyed, jobs, failed,
          failures, restarts>>

Awaits == {"idle", "tick", "resolve", "set", "get", "byRun", "byKey", "create",
           "dup", "add", "mark", "release", "record", "done"}

TypeOK ==
    /\ redisOn \in BOOLEAN
    /\ req \in [Requests -> [pc : Awaits, run : Runs \cup {NoRun}]]
    /\ answer \in [Requests -> {"none", "new", "replay", "conflict", "error",
                                "skipped", "lost"}]
    /\ claim \in {"free", "pending"} \cup Runs
    /\ tick \in BOOLEAN
    /\ rows \in [Runs -> {"none", "queued", "running", "ended", "failed"}]
    /\ keyed \subseteq Runs
    /\ jobs \in [Runs -> {"none", "waiting", "active", "done"}]
    /\ failed \subseteq {"redis", "mongo", "queue"}
    /\ failures \in Nat /\ restarts \in Nat

Init ==
    /\ redisOn \in RedisModes
    /\ req = [q \in Requests |-> [pc |-> "idle", run |-> NoRun]]
    /\ answer = [q \in Requests |-> "none"]
    /\ claim = "free" /\ tick = FALSE
    /\ rows = [r \in Runs |-> "none"] /\ keyed = {}
    /\ jobs = [r \in Runs |-> "none"]
    /\ failed = {} /\ failures = 0 /\ restarts = 0

----------------------------------------------------------------------------
(* Pieces of the steps *)

At(q, pc) == req[q].pc = pc

\* The request goes on to await an operation, about run r.
Await(q, pc, r) ==
    /\ req' = [req EXCEPT ![q] = [pc |-> pc, run |-> r]]
    /\ answer' = answer

\* The request ends: a run and whether it is a replay, or an error.
Reply(q, kind, r) ==
    /\ req' = [req EXCEPT ![q] = [pc |-> "done", run |-> r]]
    /\ answer' = [answer EXCEPT ![q] = kind]

Works == UNCHANGED <<failed, failures>>

Throws(what) ==
    /\ failures < MaxFailures
    /\ failures' = failures + 1
    /\ failed' = failed \cup {what}

\* Mutant: the catch block does not rethrow.
Swallow(q) == Reply(q, "new", req[q].run)

\* Catch blocks: release the claim of a delivery, then rethrow.
Undo(q) ==
    IF q \in Deliveries /\ redisOn THEN Await(q, "release", req[q].run)
                                   ELSE Reply(q, "error", req[q].run)

----------------------------------------------------------------------------
(* createAndEnqueue *)

\* A request arrives, or the tick's cron callback runs.
Send(q) ==
    /\ At(q, "idle")
    /\ Await(q, IF q \in Firings /\ redisOn THEN "tick" ELSE "resolve", NoRun)
    /\ UNCHANGED <<redisOn, claim, tick, rows, keyed, jobs, failed, failures, restarts>>

\* Mutant: the tick lock fails open.
FireAnyway(q) == Await(q, "resolve", NoRun)

\* acquireTickLock fails closed: another instance has, or may have, the tick.
SkipTick(q) == Reply(q, "skipped", NoRun)

\* acquireTickLock: SET NX on the minute's key.
TickLock(q) ==
    /\ At(q, "tick")
    /\ \/ /\ ~tick /\ tick' = TRUE /\ Works
          /\ Await(q, "resolve", NoRun)
       \/ /\ tick /\ tick' = TRUE /\ Works
          /\ Reply(q, "skipped", NoRun)
       \/ /\ Throws("redis") /\ tick' \in {tick, TRUE}
          /\ SkipTick(q)
    /\ UNCHANGED <<redisOn, claim, rows, keyed, jobs, restarts>>

\* resolveTask: the task is there and enabled, or the request is refused.
Resolve(q) ==
    /\ At(q, "resolve")
    /\ \/ Await(q, IF q \in Deliveries /\ redisOn THEN "set" ELSE "create", NoRun)
       \/ Reply(q, "error", NoRun)
    /\ UNCHANGED <<redisOn, claim, tick, rows, keyed, jobs, failed, failures, restarts>>

\* idempotency.claim: SET NX; an error counts as claimed.
ClaimKey(q) ==
    /\ At(q, "set")
    /\ \/ /\ claim = "free" /\ claim' = "pending" /\ Works
          /\ Await(q, "create", NoRun)
       \/ /\ claim # "free" /\ claim' = claim /\ Works
          /\ Await(q, "get", NoRun)
       \/ /\ Throws("redis")
          /\ claim' \in {claim, IF claim = "free" THEN "pending" ELSE claim}
          /\ Await(q, "create", NoRun)
    /\ UNCHANGED <<redisOn, tick, rows, keyed, jobs, restarts>>

\* idempotency.claim: GET, by when the claim may have been released or expired.
ReadClaim(q) ==
    /\ At(q, "get")
    /\ \/ claim \in Runs /\ Works /\ Await(q, "byRun", claim)
       \/ claim \notin Runs /\ Works /\ Await(q, "byKey", NoRun)
       \/ Throws("redis") /\ Await(q, "create", NoRun)
    /\ UNCHANGED <<redisOn, claim, tick, rows, keyed, jobs, restarts>>

\* A recorded claim: findById, whose error counts as not found.  Rows are
\* never deleted.
FindByRun(q) ==
    /\ At(q, "byRun")
    /\ \/ Works /\ Reply(q, "replay", req[q].run)
       \/ Throws("mongo") /\ Await(q, "create", NoRun)
    /\ UNCHANGED <<redisOn, claim, tick, rows, keyed, jobs, restarts>>

\* A pending claim: findOne by key, and 409 when there is no row yet.
FindByKey(q) ==
    /\ At(q, "byKey")
    /\ \/ keyed = {} /\ Works /\ Reply(q, "conflict", NoRun)
       \/ \E r \in keyed : Works /\ Reply(q, "replay", r)
       \/ Throws("mongo") /\ Reply(q, "error", NoRun)
    /\ UNCHANGED <<redisOn, claim, tick, rows, keyed, jobs, restarts>>

\* Mutant: there is no unique index.
IndexMissing(q) == TRUE

\* The unique partial index on idempotencyKey.
IndexAdmits(q) == q \in Deliveries => keyed = {}

\* The row appears in the collection.
Insert(q, r) ==
    /\ rows[r] = "none" /\ IndexAdmits(q)
    /\ rows' = [rows EXCEPT ![r] = "queued"]
    /\ keyed' = IF q \in Deliveries THEN keyed \cup {r} ELSE keyed

\* AgentRun.create.
Create(q) ==
    /\ At(q, "create")
    /\ \/ /\ Works
          /\ \E r \in Runs : Insert(q, r) /\ Await(q, "add", r)
       \/ /\ ~IndexAdmits(q) /\ Works
          /\ Await(q, "dup", NoRun)
          /\ UNCHANGED <<rows, keyed>>
       \/ /\ Throws("mongo") /\ Undo(q)
          /\ (\E r \in Runs : Insert(q, r)) \/ UNCHANGED <<rows, keyed>>
    /\ UNCHANGED <<redisOn, claim, tick, jobs, restarts>>

\* The unique index fired: answer with the winner's run.  An error of this
\* query leaves the catch block, and the claim, as they are.
FindWinner(q) ==
    /\ At(q, "dup")
    /\ \/ \E r \in keyed : Works /\ Reply(q, "replay", r)
       \/ Throws("mongo") /\ Reply(q, "error", NoRun)
    /\ UNCHANGED <<redisOn, claim, tick, rows, keyed, jobs, restarts>>

\* queue.add touches the queue alone.
ClaimKept(q) == claim' = claim

\* enqueueRun: null without Redis, or queue.add with the run's id as job id.
Enqueue(q) ==
    LET added == [jobs EXCEPT ![req[q].run] = "waiting"] IN
    /\ At(q, "add")
    /\ \/ /\ redisOn /\ Works /\ jobs' = added /\ ClaimKept(q)
          /\ IF q \in Deliveries THEN Await(q, "record", req[q].run)
                                 ELSE Reply(q, "new", req[q].run)
       \/ /\ ~redisOn /\ Works /\ UNCHANGED <<jobs, claim>>
          /\ Await(q, "mark", req[q].run)
       \/ /\ redisOn /\ Throws("queue") /\ jobs' \in {jobs, added} /\ ClaimKept(q)
          /\ Undo(q)
    /\ UNCHANGED <<redisOn, tick, rows, keyed, restarts>>

\* The row of a run without a queue is marked failed.
MarkFailed(q) == rows' = [rows EXCEPT ![req[q].run] = "failed"]

\* run.save() on the way to 503.
Mark(q) ==
    /\ At(q, "mark")
    /\ \/ Works /\ MarkFailed(q)
       \/ Throws("mongo") /\ (MarkFailed(q) \/ rows' = rows)
    /\ Undo(q)
    /\ UNCHANGED <<redisOn, claim, tick, keyed, jobs, restarts>>

\* Mutant: the claim survives the failure.
ReleaseNothing == claim

\* DEL of the key, whoever set it.
ClaimReleased == "free"

\* idempotency.release swallows its errors; the request's own error follows.
Release(q) ==
    /\ At(q, "release")
    /\ \/ Works /\ claim' = ClaimReleased
       \/ Throws("redis") /\ claim' \in {claim, ClaimReleased}
    /\ Reply(q, "error", req[q].run)
    /\ UNCHANGED <<redisOn, tick, rows, keyed, jobs, restarts>>

\* idempotency.record swallows its errors; the run is answered as new.
Record(q) ==
    /\ At(q, "record")
    /\ \/ Works /\ claim' = req[q].run
       \/ Throws("redis") /\ claim' \in {claim, req[q].run}
    /\ Reply(q, "new", req[q].run)
    /\ UNCHANGED <<redisOn, tick, rows, keyed, jobs, restarts>>

----------------------------------------------------------------------------
(* Redis, the worker and the process *)

\* idempotencyTtlSec has passed.
ClaimExpires ==
    /\ claim # "free" /\ claim' = "free"
    /\ UNCHANGED <<redisOn, req, answer, tick, rows, keyed, jobs, failed, failures,
                   restarts>>

\* The worker, concurrency 1, hands a job to runAgent.
Take(r) ==
    /\ jobs[r] = "waiting" /\ \A x \in Runs : jobs[x] # "active"
    /\ jobs' = [jobs EXCEPT ![r] = "active"]
    /\ rows' = [rows EXCEPT ![r] = "running"]
    /\ UNCHANGED <<redisOn, req, answer, claim, tick, keyed, failed, failures, restarts>>

\* runAgent returns with a terminal status, or throws: the job has one shot.
Finish(r) ==
    /\ jobs[r] = "active"
    /\ jobs' = [jobs EXCEPT ![r] = "done"]
    /\ \/ Works /\ rows' = [rows EXCEPT ![r] = "ended"]
       \/ Throws("mongo") /\ rows' = rows
    /\ UNCHANGED <<redisOn, req, answer, claim, tick, keyed, restarts>>

\* BullMQ finds an active job stalled and hands it out again, or gives it up.
StalledJob(j) == IF j = "active" THEN {"waiting", "done"} ELSE {j}

\* The process crashes and starts again: requests are lost, the databases and
\* the queue are not.
Restart ==
    /\ restarts < MaxRestarts /\ restarts' = restarts + 1
    /\ LET lost == {q \in Requests : req[q].pc \notin {"idle", "done"}} IN
       /\ req' = [q \in Requests |-> IF q \in lost THEN [req[q] EXCEPT !.pc = "done"]
                                                   ELSE req[q]]
       /\ answer' = [q \in Requests |-> IF q \in lost THEN "lost" ELSE answer[q]]
    /\ \E j \in [Runs -> {"none", "waiting", "active", "done"}] :
          (\A r \in Runs : j[r] \in StalledJob(jobs[r])) /\ jobs' = j
    /\ UNCHANGED <<redisOn, claim, tick, rows, keyed, failed, failures>>

----------------------------------------------------------------------------
(* Specification *)

Proceed(q) ==
    \/ TickLock(q) \/ Resolve(q) \/ ClaimKey(q) \/ ReadClaim(q) \/ FindByRun(q)
    \/ FindByKey(q) \/ Create(q) \/ FindWinner(q) \/ Enqueue(q) \/ Mark(q)
    \/ Release(q) \/ Record(q)

Next ==
    \/ \E q \in Requests : Send(q) \/ Proceed(q)
    \/ \E r \in Runs : Take(r) \/ Finish(r)
    \/ ClaimExpires \/ Restart

Spec == Init /\ [][Next]_vars

\* Awaited operations answer or throw, and the worker runs jobs.
Fairness ==
    /\ WF_vars(\E q \in Requests : Proceed(q))
    /\ WF_vars(\E r \in Runs : Take(r) \/ Finish(r))

FairSpec == Spec /\ Fairness

----------------------------------------------------------------------------
(* Properties *)

\* However the deliveries of a key race, fail and are retried, one run is made
\* and every delivery that is told a run is told that one: the claim, the
\* recorded id and the index agree.
Once == INSTANCE RunOnce WITH
            made <- keyed,
            told <- [d \in Deliveries |-> IF answer[d] \in {"new", "replay"}
                                          THEN req[d].run ELSE NoRun]
ImplementsRunOnce == Once!Spec

\* The run a claim has recorded is the key's, and its job was added: a replay
\* answered from Redis never names a run that nobody will execute.
RecordedWasQueued ==
    claim \in Runs => claim \in keyed /\ jobs[claim] # "none"

\* A claim that is pending without a run blocks every retry with 409, so it
\* stays only while a delivery is still to create the run or release the
\* claim, unless Redis threw or the process crashed.
PendingHasOwner ==
    claim = "pending" /\ keyed = {} /\ "redis" \notin failed /\ restarts = 0 =>
        \E d \in Deliveries : req[d].pc \in {"create", "release"}

\* A queued row has a job, or a request that has yet to add it, unless a
\* database or the queue threw or the process crashed: without Redis the run
\* is marked failed rather than left queued for ever.
QueuedIsWaiting ==
    \A r \in Runs : rows[r] = "queued" /\ failed = {} /\ restarts = 0 =>
        \/ jobs[r] # "none"
        \/ \E q \in Requests : req[q].run = r /\ req[q].pc \in {"add", "mark"}

\* Of the instances that fire one tick, one at most starts a run, even when
\* Redis fails under the tick lock.
OneRunPerTick ==
    redisOn => Cardinality({q \in Firings : req[q].run # NoRun}) <= 1

\* The worker always catches up with the runs answered with 202: each of them
\* is handed to runAgent to the end, across crashes of the process.
AcceptedIsExecuted ==
    []<>(\A q \in Requests : \A r \in Runs :
            answer[q] = "new" /\ req[q].run = r => jobs[r] = "done")
============================================================================
