---------------------------- MODULE TriggerProofs ----------------------------
(***************************************************************************)
(* Theorems about Trigger, for any number of deliveries, firings, runs,    *)
(* failures and restarts: one run per key (the refinement of RunOnce) and  *)
(* per tick, and no run or claim that nobody will look after.              *)
(***************************************************************************)
EXTENDS Trigger, FiniteSetTheorems, TLAPS

(* ----------------------------- Type correctness ------------------------- *)

\* What a request's program counter says of its kind, its run and its answer.
Route(q, e, a, on) ==
    /\ e \in [pc : Awaits, run : Runs \cup {NoRun}]
    /\ a \in {"none", "new", "replay", "conflict", "error", "skipped", "lost"}
    /\ e.pc \in {"set", "get", "byRun", "byKey", "release", "record"} =>
          q \in Deliveries /\ on
    /\ e.pc = "dup" => q \in Deliveries
    /\ e.pc = "tick" => q \in Firings /\ on
    /\ e.pc \in {"byRun", "add", "mark", "record"} => e.run \in Runs
    /\ e.pc \notin {"byRun", "add", "mark", "record", "release", "done"} => e.run = NoRun
    /\ a = "none" <=> e.pc # "done"

Routes == \A q \in Requests : Route(q, req[q], answer[q], redisOn)

TypeInv == TypeOK /\ Routes

\* Before anything arrives the invariant holds.
LEMMA InvInit == Init => TypeInv
<1> SUFFICES ASSUME Init PROVE TypeInv
  OBVIOUS
<1>1. \A q \in Requests : req[q] = [pc |-> "idle", run |-> NoRun] /\ answer[q] = "none"
  BY DEF Init
<1>2. Routes
  BY <1>1 DEF Routes, Route, Awaits
<1>3. TypeOK
  BY BoundsAssumption DEF Init, TypeOK, Awaits
<1>4. QED  BY <1>2, <1>3 DEF TypeInv

\* A step that gives request q a new entry and answer keeps the others.
LEMMA RouteStep ==
    ASSUME TypeInv, NEW q \in Requests, NEW e, NEW a, Route(q, e, a, redisOn),
           req' = [req EXCEPT ![q] = e], answer' = [answer EXCEPT ![q] = a],
           redisOn' = redisOn
    PROVE  /\ Routes'
           /\ req' \in [Requests -> [pc : Awaits, run : Runs \cup {NoRun}]]
           /\ answer' \in [Requests -> {"none", "new", "replay", "conflict", "error",
                                        "skipped", "lost"}]
<1>1. ASSUME NEW x \in Requests PROVE Route(x, req'[x], answer'[x], redisOn')
  <2>1. CASE x = q
    BY <2>1 DEF TypeInv, TypeOK
  <2>2. CASE x # q
    BY <2>2 DEF TypeInv, Routes, TypeOK
  <2>3. QED  BY <2>1, <2>2
<1>2. Routes'
  BY <1>1 DEF Routes, Requests
<1>3. QED  BY <1>1, <1>2 DEF Route, TypeInv, TypeOK

\* Where a request is determines what it holds.
LEMMA RouteOf ==
    ASSUME TypeInv, NEW q \in Requests
    PROVE  Route(q, req[q], answer[q], redisOn) /\ req[q].run \in Runs \cup {NoRun}
BY DEF TypeInv, Routes, Route

\* Moving on to the next await keeps the routes,
LEMMA AwaitRoute ==
    ASSUME TypeInv, NEW q \in Requests, NEW pc \in Awaits \ {"done"},
           NEW r \in Runs \cup {NoRun}, req[q].pc # "done", redisOn' = redisOn,
           Route(q, [pc |-> pc, run |-> r], "none", redisOn), Await(q, pc, r)
    PROVE  /\ Routes'
           /\ req' \in [Requests -> [pc : Awaits, run : Runs \cup {NoRun}]]
           /\ answer' \in [Requests -> {"none", "new", "replay", "conflict", "error",
                                        "skipped", "lost"}]
<1>1. answer[q] = "none"
  BY RouteOf DEF Route
<1>2. answer' = [answer EXCEPT ![q] = "none"]
  BY <1>1 DEF Await, TypeInv, TypeOK
<1>3. QED  BY <1>2, RouteStep DEF Await

\* ... as does answering,
LEMMA ReplyRoute ==
    ASSUME TypeInv, NEW q \in Requests, NEW r \in Runs \cup {NoRun}, redisOn' = redisOn,
           NEW k \in {"new", "replay", "conflict", "error", "skipped"}, Reply(q, k, r)
    PROVE  /\ Routes'
           /\ req' \in [Requests -> [pc : Awaits, run : Runs \cup {NoRun}]]
           /\ answer' \in [Requests -> {"none", "new", "replay", "conflict", "error",
                                        "skipped", "lost"}]
<1>1. Route(q, [pc |-> "done", run |-> r], k, redisOn)
  BY DEF Route, Awaits
<1>2. QED  BY <1>1, RouteStep DEF Reply

\* ... and the catch block.
LEMMA UndoRoute ==
    ASSUME TypeInv, NEW q \in Requests, req[q].pc # "done", redisOn' = redisOn, Undo(q)
    PROVE  /\ Routes'
           /\ req' \in [Requests -> [pc : Awaits, run : Runs \cup {NoRun}]]
           /\ answer' \in [Requests -> {"none", "new", "replay", "conflict", "error",
                                        "skipped", "lost"}]
<1>1. CASE q \in Deliveries /\ redisOn
  <2>1. Route(q, [pc |-> "release", run |-> req[q].run], "none", redisOn)
    BY <1>1, RouteOf DEF Route, Awaits
  <2>2. QED  BY <1>1, <2>1, RouteOf, AwaitRoute DEF Undo, Awaits
<1>2. CASE ~(q \in Deliveries /\ redisOn)
  BY <1>2, RouteOf, ReplyRoute DEF Undo
<1>3. QED  BY <1>1, <1>2

\* Every step of requests, worker and process keeps types and routes.
LEMMA InvStep == TypeInv /\ [Next]_vars => TypeInv'
<1> SUFFICES ASSUME TypeInv, [Next]_vars PROVE TypeInv'
  OBVIOUS
<1> DEFINE ReqInv == /\ Routes
                     /\ req \in [Requests -> [pc : Awaits, run : Runs \cup {NoRun}]]
                     /\ answer \in [Requests -> {"none", "new", "replay", "conflict",
                                                 "error", "skipped", "lost"}]
           FailInv == failed \subseteq {"redis", "mongo", "queue"} /\ failures \in Nat
           RowInv == /\ rows \in [Runs -> {"none", "queued", "running", "ended", "failed"}]
                     /\ keyed \subseteq Runs
           JobInv == jobs \in [Runs -> {"none", "waiting", "active", "done"}]
           ClaimInv == claim \in {"free", "pending"} \cup Runs
           RestInv == redisOn \in BOOLEAN /\ tick \in BOOLEAN /\ restarts \in Nat
<1>o. TypeOK /\ ReqInv /\ FailInv /\ RowInv /\ JobInv /\ ClaimInv /\ RestInv
  BY DEF TypeInv, TypeOK
<1>w. ASSUME NEW q \in Requests, NEW pc \in Awaits \ {"done"}, NEW r \in Runs \cup {NoRun},
             req[q].pc # "done", redisOn' = redisOn,
             Route(q, [pc |-> pc, run |-> r], "none", redisOn), Await(q, pc, r)
      PROVE  ReqInv'
  BY <1>w, AwaitRoute DEF Requests
<1>a. ASSUME NEW q \in Requests, NEW r \in Runs \cup {NoRun}, redisOn' = redisOn,
             NEW k \in {"new", "replay", "conflict", "error", "skipped"}, Reply(q, k, r)
      PROVE  ReqInv'
  BY <1>a, ReplyRoute DEF Requests
<1>u. ASSUME NEW q \in Requests, req[q].pc # "done", redisOn' = redisOn, Undo(q)
      PROVE  ReqInv'
  BY <1>u, UndoRoute DEF Requests
<1>f. ASSUME NEW w \in {"redis", "mongo", "queue"}, Works \/ Throws(w) PROVE FailInv'
  <2>1. CASE Works
    BY <1>o, <2>1 DEF Works
  <2>2. CASE Throws(w)
    BY <1>o, <2>2 DEF Throws
  <2>3. QED  BY <1>f, <2>1, <2>2
<1>t. ASSUME ReqInv', FailInv', RowInv', JobInv', ClaimInv', RestInv' PROVE TypeInv'
  BY <1>t DEF TypeInv, TypeOK
<1>p. ASSUME NEW q \in Requests
      PROVE /\ Route(q, req[q], answer[q], redisOn)
            /\ req[q].run \in Runs \cup {NoRun}
  BY RouteOf
<1>n. /\ UNCHANGED <<rows, keyed>> => RowInv'
      /\ UNCHANGED jobs => JobInv'
      /\ UNCHANGED claim => ClaimInv'
      /\ UNCHANGED <<redisOn, tick, restarts>> => RestInv'
      /\ UNCHANGED <<failed, failures>> => FailInv'
  BY <1>o
<1> HIDE DEF ReqInv, FailInv, RowInv, JobInv, ClaimInv, RestInv
<1>1. ASSUME NEW q \in Requests, Send(q) PROVE TypeInv'
  <2>1. /\ Route(q, [pc |-> "resolve", run |-> NoRun], "none", redisOn)
        /\ q \in Firings /\ redisOn => Route(q, [pc |-> "tick", run |-> NoRun], "none", redisOn)
    BY DEF Route, Awaits
  <2>2. ReqInv'
    BY <1>1, <2>1, <1>w DEF Send, At, Awaits
  <2>3. QED  BY <1>1, <2>2, <1>n, <1>t DEF Send
<1>2. ASSUME NEW q \in Requests, TickLock(q) PROVE TypeInv'
  <2>1. Route(q, [pc |-> "resolve", run |-> NoRun], "none", redisOn)
    BY DEF Route, Awaits
  <2>2. ReqInv'
    BY <1>2, <2>1, <1>w, <1>a DEF TickLock, SkipTick, At, Awaits
  <2>3. FailInv'
    BY <1>2, <1>f DEF TickLock
  <2>4. RestInv'
    BY <1>2, <1>o DEF TickLock, RestInv
  <2>5. QED  BY <1>2, <2>2, <2>3, <2>4, <1>n, <1>t DEF TickLock
<1>3. ASSUME NEW q \in Requests, Resolve(q) PROVE TypeInv'
  <2>1. /\ Route(q, [pc |-> "create", run |-> NoRun], "none", redisOn)
        /\ q \in Deliveries /\ redisOn => Route(q, [pc |-> "set", run |-> NoRun], "none", redisOn)
    BY DEF Route, Awaits
  <2>2. ReqInv'
    BY <1>3, <2>1, <1>w, <1>a DEF Resolve, At, Awaits
  <2>3. QED  BY <1>3, <2>2, <1>n, <1>t DEF Resolve
<1>4. ASSUME NEW q \in Requests, ClaimKey(q) PROVE TypeInv'
  <2>1. /\ Route(q, [pc |-> "create", run |-> NoRun], "none", redisOn)
        /\ Route(q, [pc |-> "get", run |-> NoRun], "none", redisOn)
    BY <1>4, <1>p DEF ClaimKey, At, Route, Awaits
  <2>2. ReqInv'
    BY <1>4, <2>1, <1>w DEF ClaimKey, At, Awaits
  <2>3. FailInv'
    BY <1>4, <1>f DEF ClaimKey
  <2>4. ClaimInv'
    BY <1>4, <1>o DEF ClaimKey, ClaimInv
  <2>5. QED  BY <1>4, <2>2, <2>3, <2>4, <1>n, <1>t DEF ClaimKey
<1>5. ASSUME NEW q \in Requests, ReadClaim(q) PROVE TypeInv'
  <2>1. /\ Route(q, [pc |-> "create", run |-> NoRun], "none", redisOn)
        /\ Route(q, [pc |-> "byKey", run |-> NoRun], "none", redisOn)
        /\ claim \in Runs => Route(q, [pc |-> "byRun", run |-> claim], "none", redisOn)
    BY <1>5, <1>p DEF ReadClaim, At, Route, Awaits
  <2>2. ReqInv'
    BY <1>5, <2>1, <1>w DEF ReadClaim, At, Awaits
  <2>3. FailInv'
    BY <1>5, <1>f DEF ReadClaim
  <2>4. QED  BY <1>5, <2>2, <2>3, <1>n, <1>t DEF ReadClaim
<1>6. ASSUME NEW q \in Requests, FindByRun(q) PROVE TypeInv'
  <2>1. Route(q, [pc |-> "create", run |-> NoRun], "none", redisOn)
    BY DEF Route, Awaits
  <2>2. ReqInv'
    BY <1>6, <2>1, <1>p, <1>w, <1>a DEF FindByRun, At, Awaits
  <2>3. FailInv'
    BY <1>6, <1>f DEF FindByRun
  <2>4. QED  BY <1>6, <2>2, <2>3, <1>n, <1>t DEF FindByRun
<1>7. ASSUME NEW q \in Requests, FindByKey(q) PROVE TypeInv'
  <2>1. ReqInv'
    BY <1>7, <1>o, <1>a DEF FindByKey, RowInv
  <2>2. FailInv'
    BY <1>7, <1>f DEF FindByKey
  <2>3. QED  BY <1>7, <2>1, <2>2, <1>n, <1>t DEF FindByKey
<1>8. ASSUME NEW q \in Requests, Create(q) PROVE TypeInv'
  <2>1. /\ \A r \in Runs : Route(q, [pc |-> "add", run |-> r], "none", redisOn)
        /\ q \in Deliveries => Route(q, [pc |-> "dup", run |-> NoRun], "none", redisOn)
    BY DEF Route, Awaits
  <2>2. ~IndexAdmits(q) => q \in Deliveries
    BY DEF IndexAdmits
  <2>3. ReqInv'
    BY <1>8, <2>1, <2>2, <1>w, <1>u DEF Create, At, Awaits
  <2>4. FailInv'
    BY <1>8, <1>f DEF Create
  <2>5. RowInv'
    BY <1>8, <1>o DEF Create, Insert, RowInv
  <2>6. QED  BY <1>8, <2>3, <2>4, <2>5, <1>n, <1>t DEF Create
<1>9. ASSUME NEW q \in Requests, FindWinner(q) PROVE TypeInv'
  <2>1. ReqInv'
    BY <1>9, <1>o, <1>a DEF FindWinner, RowInv
  <2>2. FailInv'
    BY <1>9, <1>f DEF FindWinner
  <2>3. QED  BY <1>9, <2>1, <2>2, <1>n, <1>t DEF FindWinner
<1>10. ASSUME NEW q \in Requests, Enqueue(q) PROVE TypeInv'
  <2>1. /\ req[q].run \in Runs
        /\ Route(q, [pc |-> "mark", run |-> req[q].run], "none", redisOn)
        /\ q \in Deliveries /\ redisOn =>
              Route(q, [pc |-> "record", run |-> req[q].run], "none", redisOn)
    BY <1>10, <1>p DEF Enqueue, At, Route, Awaits
  <2>2. ReqInv'
    BY <1>10, <2>1, <1>w, <1>a, <1>u DEF Enqueue, At, Awaits
  <2>3. FailInv'
    BY <1>10, <1>f DEF Enqueue
  <2>4. JobInv' /\ claim' = claim
    BY <1>10, <1>o DEF Enqueue, ClaimKept, JobInv
  <2>5. QED  BY <1>10, <2>2, <2>3, <2>4, <1>n, <1>t DEF Enqueue
<1>11. ASSUME NEW q \in Requests, Mark(q) PROVE TypeInv'
  <2>1. ReqInv'
    BY <1>11, <1>u DEF Mark, At
  <2>2. FailInv'
    BY <1>11, <1>f DEF Mark
  <2>3. RowInv'
    BY <1>11, <1>o DEF Mark, MarkFailed, RowInv
  <2>4. QED  BY <1>11, <2>1, <2>2, <2>3, <1>n, <1>t DEF Mark
<1>12. ASSUME NEW q \in Requests, Release(q) PROVE TypeInv'
  <2>1. ReqInv'
    BY <1>12, <1>p, <1>a DEF Release
  <2>2. FailInv'
    BY <1>12, <1>f DEF Release
  <2>3. ClaimInv'
    BY <1>12, <1>o DEF Release, ClaimReleased, ClaimInv
  <2>4. QED  BY <1>12, <2>1, <2>2, <2>3, <1>n, <1>t DEF Release
<1>13. ASSUME NEW q \in Requests, Record(q) PROVE TypeInv'
  <2>1. ReqInv'
    BY <1>13, <1>p, <1>a DEF Record
  <2>2. FailInv'
    BY <1>13, <1>f DEF Record
  <2>3. ClaimInv'
    BY <1>13, <1>o, <1>p DEF Record, At, Route, ClaimInv
  <2>4. QED  BY <1>13, <2>1, <2>2, <2>3, <1>n, <1>t DEF Record
<1>14. CASE ClaimExpires
  <2>1. ReqInv' /\ ClaimInv'
    BY <1>14, <1>o DEF ClaimExpires, ReqInv, ClaimInv, Routes, Requests
  <2>2. QED  BY <1>14, <2>1, <1>n, <1>t DEF ClaimExpires
<1>15. ASSUME NEW r \in Runs, Take(r) PROVE TypeInv'
  <2>1. ReqInv'
    BY <1>15, <1>o DEF Take, ReqInv, Routes, Requests
  <2>2. RowInv' /\ JobInv'
    BY <1>15, <1>o DEF Take, RowInv, JobInv
  <2>3. QED  BY <1>15, <2>1, <2>2, <1>n, <1>t DEF Take
<1>16. ASSUME NEW r \in Runs, Finish(r) PROVE TypeInv'
  <2>1. ReqInv'
    BY <1>16, <1>o DEF Finish, ReqInv, Routes, Requests
  <2>2. RowInv' /\ JobInv'
    BY <1>16, <1>o DEF Finish, RowInv, JobInv
  <2>3. FailInv'
    BY <1>16, <1>f DEF Finish
  <2>4. QED  BY <1>16, <2>1, <2>2, <2>3, <1>n, <1>t DEF Finish
<1>17. CASE Restart
  <2> DEFINE lost == {q \in Requests : req[q].pc \notin {"idle", "done"}}
  <2>1. /\ req' = [q \in Requests |-> IF q \in lost THEN [req[q] EXCEPT !.pc = "done"]
                                                     ELSE req[q]]
        /\ answer' = [q \in Requests |-> IF q \in lost THEN "lost" ELSE answer[q]]
        /\ redisOn' = redisOn
    BY <1>17 DEF Restart
  <2>2. ASSUME NEW q \in Requests PROVE Route(q, req'[q], answer'[q], redisOn')
    <3>1. Route(q, [req[q] EXCEPT !.pc = "done"], "lost", redisOn)
      BY <1>p DEF Route, Awaits
    <3>2. QED  BY <2>1, <3>1, <1>p
  <2>3. ReqInv'
    <3>1. Routes'
      BY <2>2 DEF Routes, Requests
    <3>2. \A q \in Requests : req'[q] \in [pc : Awaits, run : Runs \cup {NoRun}]
      BY <2>2 DEF Route
    <3>3. \A q \in Requests :
             answer'[q] \in {"none", "new", "replay", "conflict", "error", "skipped", "lost"}
      BY <2>2 DEF Route
    <3>4. QED  BY <2>1, <3>1, <3>2, <3>3 DEF ReqInv, Requests
  <2>4. JobInv'
    BY <1>17 DEF Restart, JobInv
  <2>5. RestInv'
    BY <1>17, <1>o DEF Restart, RestInv
  <2>6. QED  BY <1>17, <2>3, <2>4, <2>5, <1>n, <1>t DEF Restart
<1>18. CASE UNCHANGED vars
  <2>1. ReqInv'
    BY <1>18, <1>o DEF vars, ReqInv, Routes, Requests
  <2>2. QED  BY <1>18, <2>1, <1>n, <1>t DEF vars
<1>19. QED
  BY <1>1, <1>2, <1>3, <1>4, <1>5, <1>6, <1>7, <1>8, <1>9, <1>10, <1>11, <1>12, <1>13,
     <1>14, <1>15, <1>16, <1>17, <1>18 DEF Next, Proceed

\* Every reachable state is well typed.
THEOREM TypeCorrect == Spec => []TypeOK
<1>1. TypeInv => TypeOK
  BY DEF TypeInv
<1>2. QED  BY <1>1, InvInit, InvStep, PTL DEF Spec

-----------------------------------------------------------------------------
(* One run per key and per tick. *)

\* A step of one request changes its own entry and answer alone.
LEMMA AwaitShape ==
    ASSUME TypeInv, NEW q \in Requests, NEW pc, NEW r, Await(q, pc, r)
    PROVE  /\ req'[q].pc = pc /\ req'[q].run = r /\ answer' = answer
           /\ \A x \in Requests \ {q} : req'[x] = req[x]
BY DEF Await, TypeInv, TypeOK

\* What an answer changes.
LEMMA ReplyShape ==
    ASSUME TypeInv, NEW q \in Requests, NEW k, NEW r, Reply(q, k, r)
    PROVE  /\ req'[q].pc = "done" /\ req'[q].run = r /\ answer'[q] = k
           /\ \A x \in Requests \ {q} : req'[x] = req[x] /\ answer'[x] = answer[x]
BY DEF Reply, TypeInv, TypeOK

\* What the catch block changes.
LEMMA UndoShape ==
    ASSUME TypeInv, NEW q \in Requests, Undo(q)
    PROVE  /\ req'[q].run = req[q].run
           /\ \/ /\ q \in Deliveries /\ redisOn
                 /\ req'[q].pc = "release" /\ answer' = answer
              \/ /\ ~(q \in Deliveries /\ redisOn)
                 /\ req'[q].pc = "done" /\ answer'[q] = "error"
           /\ \A x \in Requests \ {q} : req'[x] = req[x] /\ answer'[x] = answer[x]
<1>1. CASE q \in Deliveries /\ redisOn
  BY <1>1, AwaitShape DEF Undo
<1>2. CASE ~(q \in Deliveries /\ redisOn)
  BY <1>2, ReplyShape DEF Undo
<1>3. QED  BY <1>1, <1>2

\* A step of one request leaves the others as they were.
LEMMA OthersKept ==
    ASSUME TypeInv, NEW q \in Requests, NEW x \in Requests \ {q}, Send(q) \/ Proceed(q)
    PROVE  req'[x] = req[x]
<1>w. ASSUME NEW pc, NEW r, Await(q, pc, r) PROVE req'[x] = req[x]
  BY <1>w, AwaitShape
<1>a. ASSUME NEW k, NEW r, Reply(q, k, r) PROVE req'[x] = req[x]
  BY <1>a, ReplyShape
<1>u. ASSUME Undo(q) PROVE req'[x] = req[x]
  BY <1>u, UndoShape
<1>1. QED
  BY <1>w, <1>a, <1>u
  DEF Proceed, Send, TickLock, SkipTick, Resolve, ClaimKey, ReadClaim, FindByRun,
      FindByKey, Create, FindWinner, Enqueue, Mark, Release, Record

(* ------------------------------ One run per key ------------------------- *)

OneKeyed == \A r, s \in keyed : r = s

ClaimKeyed == claim \in Runs => claim \in keyed

\* The run a delivery is about to handle, or has been told, is the key's.
HoldsKeyed(d) ==
    req[d].pc \in {"byRun", "add", "mark", "record"} \/ answer[d] \in {"new", "replay"} =>
        req[d].run \in keyed

OneRun == OneKeyed /\ ClaimKeyed /\ \A d \in Deliveries : HoldsKeyed(d)

\* Every step keeps one run for the key, and all who hold a run hold it.
LEMMA OneRunStep == TypeInv /\ OneRun /\ [Next]_vars => OneRun'
<1> SUFFICES ASSUME TypeInv, OneRun, [Next]_vars PROVE OneRun'
  OBVIOUS
<1>p. ASSUME NEW q \in Requests PROVE Route(q, req[q], answer[q], redisOn)
  BY RouteOf
<1>d. Deliveries \subseteq Requests
  BY DEF Requests
<1>s. ASSUME NEW q \in Requests, OneKeyed', ClaimKeyed', keyed \subseteq keyed',
             q \in Deliveries => HoldsKeyed(q)',
             \A x \in Requests \ {q} : req'[x] = req[x] /\ answer'[x] = answer[x]
      PROVE  OneRun'
  BY <1>s, <1>d DEF OneRun, HoldsKeyed
<1>w. ASSUME NEW q \in Requests, NEW pc, NEW r, Await(q, pc, r), req[q].pc # "done",
             OneKeyed', ClaimKeyed', keyed \subseteq keyed',
             q \in Deliveries /\ pc \in {"byRun", "add", "mark", "record"} => r \in keyed'
      PROVE  OneRun'
  <2>1. answer[q] = "none"
    BY <1>w, <1>p DEF Route
  <2>2. q \in Deliveries => HoldsKeyed(q)'
    BY <1>w, <2>1, AwaitShape DEF HoldsKeyed
  <2>3. QED  BY <1>s, <1>w, <2>2, AwaitShape
<1>a. ASSUME NEW q \in Requests, NEW k, NEW r, Reply(q, k, r),
             OneKeyed', ClaimKeyed', keyed \subseteq keyed',
             q \in Deliveries /\ k \in {"new", "replay"} => r \in keyed'
      PROVE  OneRun'
  <2>1. q \in Deliveries => HoldsKeyed(q)'
    BY <1>a, ReplyShape DEF HoldsKeyed
  <2>2. QED  BY <1>s, <1>a, <2>1, ReplyShape
<1>u. ASSUME NEW q \in Requests, Undo(q), req[q].pc # "done",
             OneKeyed', ClaimKeyed', keyed \subseteq keyed'
      PROVE  OneRun'
  <2>1. CASE q \in Deliveries /\ redisOn
    BY <1>u, <2>1, <1>w DEF Undo
  <2>2. CASE ~(q \in Deliveries /\ redisOn)
    BY <1>u, <2>2, <1>a DEF Undo
  <2>3. QED  BY <2>1, <2>2
<1>k. OneKeyed /\ ClaimKeyed /\ \A d \in Deliveries : HoldsKeyed(d)
  BY DEF OneRun
<1>n. /\ UNCHANGED keyed => OneKeyed' /\ keyed \subseteq keyed'
      /\ UNCHANGED <<claim, keyed>> => ClaimKeyed'
  BY <1>k DEF OneKeyed, ClaimKeyed
<1>1. ASSUME NEW q \in Requests, Send(q) PROVE OneRun'
  BY <1>1, <1>w, <1>n DEF Send, At
<1>2. ASSUME NEW q \in Requests, TickLock(q) PROVE OneRun'
  BY <1>2, <1>w, <1>a, <1>n DEF TickLock, SkipTick, At
<1>3. ASSUME NEW q \in Requests, Resolve(q) PROVE OneRun'
  BY <1>3, <1>w, <1>a, <1>n DEF Resolve, At
<1>4. ASSUME NEW q \in Requests, ClaimKey(q) PROVE OneRun'
  <2>1. ClaimKeyed'
    BY <1>4, <1>k, IdsAssumption DEF ClaimKey, ClaimKeyed
  <2>2. QED  BY <1>4, <2>1, <1>w, <1>n DEF ClaimKey, At
<1>5. ASSUME NEW q \in Requests, ReadClaim(q) PROVE OneRun'
  BY <1>5, <1>k, <1>w, <1>n DEF ReadClaim, At, ClaimKeyed
<1>6. ASSUME NEW q \in Requests, FindByRun(q) PROVE OneRun'
  BY <1>6, <1>k, <1>w, <1>a, <1>n DEF FindByRun, At, HoldsKeyed
<1>7. ASSUME NEW q \in Requests, FindByKey(q) PROVE OneRun'
  BY <1>7, <1>a, <1>n DEF FindByKey
<1>8. ASSUME NEW q \in Requests, Create(q) PROVE OneRun'
  <2>i. ASSUME NEW r \in Runs, Insert(q, r)
        PROVE  /\ OneKeyed' /\ keyed \subseteq keyed'
               /\ q \in Deliveries => r \in keyed'
    BY <2>i, <1>k DEF Insert, IndexAdmits, OneKeyed
  <2>c. keyed \subseteq keyed' => ClaimKeyed'
    BY <1>8, <1>k DEF Create, ClaimKeyed
  <2>1. ASSUME NEW r \in Runs, Insert(q, r), Await(q, "add", r) PROVE OneRun'
    BY <1>8, <2>1, <2>i, <2>c, <1>w DEF Create, At
  <2>2. CASE Await(q, "dup", NoRun) /\ UNCHANGED <<rows, keyed>>
    BY <1>8, <2>2, <2>c, <1>w, <1>n DEF Create, At
  <2>3. ASSUME NEW r \in Runs, Insert(q, r), Undo(q) PROVE OneRun'
    BY <1>8, <2>3, <2>i, <2>c, <1>u DEF Create, At
  <2>4. CASE Undo(q) /\ UNCHANGED <<rows, keyed>>
    BY <1>8, <2>4, <2>c, <1>u, <1>n DEF Create, At
  <2>5. QED  BY <1>8, <2>1, <2>2, <2>3, <2>4 DEF Create
<1>9. ASSUME NEW q \in Requests, FindWinner(q) PROVE OneRun'
  BY <1>9, <1>a, <1>n DEF FindWinner
<1>10. ASSUME NEW q \in Requests, Enqueue(q) PROVE OneRun'
  <2>1. q \in Deliveries => req[q].run \in keyed
    BY <1>10, <1>k DEF Enqueue, At, HoldsKeyed
  <2>2. UNCHANGED <<claim, keyed>>
    BY <1>10 DEF Enqueue, ClaimKept
  <2>3. QED  BY <1>10, <2>1, <2>2, <1>w, <1>a, <1>u, <1>n DEF Enqueue, At
<1>11. ASSUME NEW q \in Requests, Mark(q) PROVE OneRun'
  BY <1>11, <1>u, <1>n DEF Mark, At
<1>12. ASSUME NEW q \in Requests, Release(q) PROVE OneRun'
  <2>1. ClaimKeyed'
    BY <1>12, <1>k, IdsAssumption DEF Release, ClaimReleased, ClaimKeyed
  <2>2. QED  BY <1>12, <2>1, <1>a, <1>n DEF Release
<1>13. ASSUME NEW q \in Requests, Record(q) PROVE OneRun'
  <2>1. q \in Deliveries /\ req[q].run \in keyed
    BY <1>13, <1>p, <1>k DEF Record, At, Route, HoldsKeyed
  <2>2. ClaimKeyed'
    BY <1>13, <1>k, <2>1 DEF Record, ClaimKeyed
  <2>3. QED  BY <1>13, <2>1, <2>2, <1>a, <1>n DEF Record
<1>14. CASE ClaimExpires
  BY <1>14, <1>k, IdsAssumption
  DEF ClaimExpires, OneRun, OneKeyed, ClaimKeyed, HoldsKeyed
<1>15. ASSUME NEW r \in Runs, Take(r) \/ Finish(r) PROVE OneRun'
  BY <1>15, <1>k DEF Take, Finish, OneRun, OneKeyed, ClaimKeyed, HoldsKeyed
<1>16. CASE Restart
  <2>1. ASSUME NEW d \in Deliveries PROVE HoldsKeyed(d)'
    BY <1>16, <1>k, <1>d, <1>p DEF Restart, HoldsKeyed, Route
  <2>2. QED  BY <1>16, <2>1, <1>n DEF Restart, OneRun
<1>17. CASE UNCHANGED vars
  BY <1>17, <1>k DEF vars, OneRun, OneKeyed, ClaimKeyed, HoldsKeyed
<1>18. QED
  BY <1>1, <1>2, <1>3, <1>4, <1>5, <1>6, <1>7, <1>8, <1>9, <1>10, <1>11, <1>12, <1>13,
     <1>14, <1>15, <1>16, <1>17 DEF Next, Proceed

\* The claim, the recorded id, the index and the answers name one run.
LEMMA OneRunInvariant == Spec => []OneRun
<1>1. Init => OneRun
  BY IdsAssumption DEF Init, OneRun, OneKeyed, ClaimKeyed, HoldsKeyed, Requests
<1>2. QED  BY <1>1, OneRunStep, InvInit, InvStep, PTL DEF Spec

Told == [d \in Deliveries |-> IF answer[d] \in {"new", "replay"} THEN req[d].run ELSE NoRun]

\* A step that gives request q an answer tells it a run of the key, or nothing.
LEMMA Answering ==
    ASSUME TypeInv, NEW q \in Requests, req[q].pc # "done", keyed' = keyed,
           NEW k, NEW r, Reply(q, k, r),
           q \in Deliveries /\ k \in {"new", "replay"} => r \in keyed
    PROVE  Told' = Told \/ (q \in Deliveries /\ Once!Tell(q, r))
<1>1. answer[q] = "none"
  BY RouteOf DEF Route
<1>2. \A x \in Deliveries \ {q} : Told'[x] = Told[x]
  BY ReplyShape DEF Told, Requests
<1>3. CASE q \in Deliveries /\ k \in {"new", "replay"}
  <2>1. Told[q] = NoRun /\ Told'[q] = r
    BY <1>1, <1>3, ReplyShape DEF Told
  <2>2. Told' = [Told EXCEPT ![q] = r]
    BY <1>2, <2>1 DEF Told
  <2>3. QED  BY <1>3, <2>1, <2>2 DEF Once!Tell, Told
<1>4. CASE ~(q \in Deliveries /\ k \in {"new", "replay"})
  <2>1. \A x \in Deliveries : Told'[x] = Told[x]
    BY <1>1, <1>2, <1>4, ReplyShape DEF Told
  <2>2. Told' = Told
    BY <2>1 DEF Told
  <2>3. QED  BY <2>2
<1>5. QED  BY <1>3, <1>4

\* A request that moves on to another await is told nothing,
LEMMA Waiting ==
    ASSUME TypeInv, NEW q \in Requests, req[q].pc # "done", NEW pc, NEW r, Await(q, pc, r)
    PROVE  Told' = Told
<1>1. answer[q] = "none"
  BY RouteOf DEF Route
<1>2. \A x \in Deliveries : Told'[x] = Told[x]
  BY <1>1, AwaitShape DEF Told, Requests
<1>3. QED  BY <1>2 DEF Told

\* ... and neither is one that enters the catch block.
LEMMA Undoing ==
    ASSUME TypeInv, NEW q \in Requests, req[q].pc # "done", Undo(q)
    PROVE  Told' = Told
<1>1. answer[q] = "none"
  BY RouteOf DEF Route
<1>2. \A x \in Deliveries : Told'[x] = Told[x]
  BY <1>1, UndoShape DEF Told, Requests
<1>3. QED  BY <1>2 DEF Told

\* Every step is a step of RunOnce, or changes nothing it speaks of.
LEMMA OnceStep == TypeInv /\ OneRun /\ [Next]_vars => [Once!Next]_<<keyed, Told>>
<1> SUFFICES ASSUME TypeInv, OneRun, [Next]_vars PROVE [Once!Next]_<<keyed, Told>>
  OBVIOUS
<1>p. ASSUME NEW q \in Requests PROVE Route(q, req[q], answer[q], redisOn)
  BY RouteOf
<1>t. ASSUME NEW d \in Deliveries, NEW r \in keyed, Once!Tell(d, r) PROVE Once!Next
  BY <1>t DEF Once!Next, TypeInv, TypeOK
<1>a. ASSUME NEW q \in Requests, req[q].pc # "done", keyed' = keyed,
             NEW k, NEW r, Reply(q, k, r),
             q \in Deliveries /\ k \in {"new", "replay"} => r \in keyed
      PROVE  [Once!Next]_<<keyed, Told>>
  <2>1. CASE Told' = Told
    BY <1>a, <2>1
  <2>2. CASE q \in Deliveries /\ Once!Tell(q, r)
    BY <2>2 DEF Once!Next, Once!Tell, TypeInv, TypeOK
  <2>3. QED  BY <1>a, <2>1, <2>2, Answering
<1>w. ASSUME NEW q \in Requests, req[q].pc # "done", keyed' = keyed,
             NEW pc, NEW r, Await(q, pc, r)
      PROVE  [Once!Next]_<<keyed, Told>>
  BY <1>w, Waiting
<1>u. ASSUME NEW q \in Requests, req[q].pc # "done", keyed' = keyed, Undo(q)
      PROVE  [Once!Next]_<<keyed, Told>>
  BY <1>u, Undoing
<1>s. ASSUME UNCHANGED <<keyed, req, answer>> PROVE [Once!Next]_<<keyed, Told>>
  BY <1>s DEF Told
<1> HIDE DEF Told
<1>1. ASSUME NEW q \in Requests, Send(q) PROVE [Once!Next]_<<keyed, Told>>
  BY <1>1, <1>w DEF Send, At
<1>2. ASSUME NEW q \in Requests, TickLock(q) PROVE [Once!Next]_<<keyed, Told>>
  BY <1>2, <1>w, <1>a DEF TickLock, SkipTick, At
<1>3. ASSUME NEW q \in Requests, Resolve(q) PROVE [Once!Next]_<<keyed, Told>>
  BY <1>3, <1>w, <1>a DEF Resolve, At
<1>4. ASSUME NEW q \in Requests, ClaimKey(q) PROVE [Once!Next]_<<keyed, Told>>
  BY <1>4, <1>w DEF ClaimKey, At
<1>5. ASSUME NEW q \in Requests, ReadClaim(q) PROVE [Once!Next]_<<keyed, Told>>
  BY <1>5, <1>w DEF ReadClaim, At
<1>6. ASSUME NEW q \in Requests, FindByRun(q) PROVE [Once!Next]_<<keyed, Told>>
  BY <1>6, <1>w, <1>a DEF FindByRun, At, OneRun, HoldsKeyed
<1>7. ASSUME NEW q \in Requests, FindByKey(q) PROVE [Once!Next]_<<keyed, Told>>
  BY <1>7, <1>a DEF FindByKey, At
<1>8. ASSUME NEW q \in Requests, Create(q) PROVE [Once!Next]_<<keyed, Told>>
  <2>i. ASSUME NEW r \in Runs, Insert(q, r), Told' = Told
        PROVE  [Once!Next]_<<keyed, Told>>
    <3>1. CASE q \in Deliveries
      <4>1. keyed = {} /\ keyed' = {r}
        BY <2>i, <3>1 DEF Insert, IndexAdmits
      <4>2. Once!Make(r)
        BY <2>i, <4>1 DEF Once!Make, Told
      <4>3. QED  BY <4>2 DEF Once!Next
    <3>2. CASE q \notin Deliveries
      BY <2>i, <3>2 DEF Insert
    <3>3. QED  BY <3>1, <3>2
  <2>1. ASSUME NEW r \in Runs, Insert(q, r), Await(q, "add", r)
        PROVE  [Once!Next]_<<keyed, Told>>
    BY <1>8, <2>1, <2>i, Waiting DEF Create, At
  <2>2. CASE Await(q, "dup", NoRun) /\ UNCHANGED <<rows, keyed>>
    BY <1>8, <2>2, <1>w DEF Create, At
  <2>3. ASSUME NEW r \in Runs, Insert(q, r), Undo(q)
        PROVE  [Once!Next]_<<keyed, Told>>
    BY <1>8, <2>3, <2>i, Undoing DEF Create, At
  <2>4. CASE Undo(q) /\ UNCHANGED <<rows, keyed>>
    BY <1>8, <2>4, <1>u DEF Create, At
  <2>5. QED  BY <1>8, <2>1, <2>2, <2>3, <2>4 DEF Create
<1>9. ASSUME NEW q \in Requests, FindWinner(q) PROVE [Once!Next]_<<keyed, Told>>
  BY <1>9, <1>a DEF FindWinner, At
<1>10. ASSUME NEW q \in Requests, Enqueue(q) PROVE [Once!Next]_<<keyed, Told>>
  <2>1. q \in Deliveries => req[q].run \in keyed
    BY <1>10 DEF Enqueue, At, OneRun, HoldsKeyed
  <2>2. QED  BY <1>10, <2>1, <1>w, <1>a, <1>u DEF Enqueue, At
<1>11. ASSUME NEW q \in Requests, Mark(q) PROVE [Once!Next]_<<keyed, Told>>
  BY <1>11, <1>u DEF Mark, At
<1>12. ASSUME NEW q \in Requests, Release(q) PROVE [Once!Next]_<<keyed, Told>>
  BY <1>12, <1>a DEF Release, At
<1>13. ASSUME NEW q \in Requests, Record(q) PROVE [Once!Next]_<<keyed, Told>>
  <2>1. q \in Deliveries /\ req[q].run \in keyed
    BY <1>13, <1>p DEF Record, At, Route, OneRun, HoldsKeyed
  <2>2. QED  BY <1>13, <2>1, <1>a DEF Record, At
<1>14. CASE ClaimExpires
  BY <1>14, <1>s DEF ClaimExpires
<1>15. ASSUME NEW r \in Runs, Take(r) \/ Finish(r) PROVE [Once!Next]_<<keyed, Told>>
  BY <1>15, <1>s DEF Take, Finish
<1>16. CASE Restart
  <2>1. \A d \in Deliveries : Told'[d] = Told[d]
    BY <1>16, <1>p DEF Restart, Told, Route, Requests
  <2>2. Told' = Told
    BY <2>1 DEF Told
  <2>3. QED  BY <1>16, <2>2 DEF Restart
<1>17. CASE UNCHANGED vars
  BY <1>17, <1>s DEF vars
<1>18. QED
  BY <1>1, <1>2, <1>3, <1>4, <1>5, <1>6, <1>7, <1>8, <1>9, <1>10, <1>11, <1>12, <1>13,
     <1>14, <1>15, <1>16, <1>17 DEF Next, Proceed

\* However deliveries of a key race, fail, expire, crash and are retried: one
\* run is made for the key, and no delivery is told another one.
THEOREM Refinement == Spec => ImplementsRunOnce
<1>1. Init => Once!Init
  BY DEF Init, Once!Init, Requests
<1>2. TypeInv /\ OneRun /\ [Next]_vars =>
          [Once!Next]_<<keyed, [d \in Deliveries |-> IF answer[d] \in {"new", "replay"}
                                                     THEN req[d].run ELSE NoRun]>>
  BY OnceStep DEF Told
<1>3. Spec => []TypeInv
  BY InvInit, InvStep, PTL DEF Spec
<1>4. QED
  BY <1>1, <1>2, <1>3, OneRunInvariant, PTL DEF Spec, ImplementsRunOnce, Once!Spec

(* ------------------------- Recorded runs have a job --------------------- *)

JobsKept == \A r \in Runs : jobs[r] # "none" => jobs'[r] # "none"

\* Jobs that were added are never taken back.
LEMMA JobsStay == TypeInv /\ [Next]_vars => JobsKept
<1> SUFFICES ASSUME TypeInv, [Next]_vars, NEW r \in Runs, jobs[r] # "none"
             PROVE  jobs'[r] # "none"
  BY DEF JobsKept
<1>1. ASSUME NEW q \in Requests, Enqueue(q) PROVE jobs'[r] # "none"
  BY <1>1 DEF Enqueue, TypeInv, TypeOK
<1>2. ASSUME NEW q \in Requests, Send(q) \/ Proceed(q), ~Enqueue(q) PROVE jobs' = jobs
  BY <1>2 DEF Proceed, Send, TickLock, Resolve, ClaimKey, ReadClaim, FindByRun,
              FindByKey, Create, FindWinner, Mark, Release, Record
<1>3. ASSUME NEW s \in Runs, Take(s) \/ Finish(s) PROVE jobs'[r] # "none"
  BY <1>3 DEF Take, Finish, TypeInv, TypeOK
<1>4. CASE Restart
  BY <1>4 DEF Restart, StalledJob
<1>5. CASE ClaimExpires \/ UNCHANGED vars
  BY <1>5 DEF ClaimExpires, vars
<1>6. QED  BY <1>1, <1>2, <1>3, <1>4, <1>5 DEF Next

\* A delivery records its run after its job was added.
Recording == \A d \in Deliveries : req[d].pc = "record" => jobs[req[d].run] # "none"

ClaimQueued == claim \in Runs => jobs[claim] # "none"

\* Only queue.add leads to the recording of a run.
LEMMA RecordingStep ==
    ASSUME TypeInv, [Next]_vars, NEW d \in Deliveries, req'[d].pc = "record"
    PROVE  \/ req'[d] = req[d]
           \/ /\ Enqueue(d) /\ req'[d].run = req[d].run
              /\ req[d].run \in Runs /\ jobs'[req[d].run] = "waiting"
<1>d. Deliveries \subseteq Requests
  BY DEF Requests
<1>1. ASSUME NEW q \in Requests, Send(q) \/ Proceed(q), q # d PROVE req'[d] = req[d]
  BY <1>1, <1>d, OthersKept
<1>2. ASSUME Send(d) \/ Proceed(d), ~Enqueue(d) PROVE FALSE
  <2>w. ASSUME NEW pc, NEW r, Await(d, pc, r), pc # "record" PROVE FALSE
    BY <1>d, <2>w, AwaitShape
  <2>a. ASSUME NEW k, NEW r, Reply(d, k, r) PROVE FALSE
    BY <1>d, <2>a, ReplyShape
  <2>u. ASSUME Undo(d) PROVE FALSE
    BY <1>d, <2>u, UndoShape
  <2>1. QED
    BY <1>2, <2>w, <2>a, <2>u
    DEF Proceed, Send, TickLock, SkipTick, Resolve, ClaimKey, ReadClaim, FindByRun,
        FindByKey, Create, FindWinner, Mark, Release, Record
<1>3. CASE Enqueue(d)
  <2>1. req[d].run \in Runs
    BY <1>3, <1>d, RouteOf DEF Enqueue, At, Route
  <2>2. Await(d, "mark", req[d].run) \/ Undo(d) => FALSE
    BY <1>d, AwaitShape, UndoShape
  <2>3. /\ Await(d, "record", req[d].run)
        /\ jobs' = [jobs EXCEPT ![req[d].run] = "waiting"]
    BY <1>3, <2>2 DEF Enqueue
  <2>4. QED  BY <1>3, <1>d, <2>1, <2>3, AwaitShape DEF TypeInv, TypeOK
<1>4. ASSUME NEW r \in Runs, Take(r) \/ Finish(r) PROVE req'[d] = req[d]
  BY <1>4 DEF Take, Finish
<1>5. CASE Restart
  BY <1>5, <1>d DEF Restart, TypeInv, TypeOK
<1>6. CASE ClaimExpires \/ UNCHANGED vars
  BY <1>6 DEF ClaimExpires, vars
<1>7. QED  BY <1>1, <1>2, <1>3, <1>4, <1>5, <1>6, <1>d DEF Next

\* Every step keeps the recorded run queued.
LEMMA RecordedStep ==
    TypeInv /\ Recording /\ ClaimQueued /\ [Next]_vars => Recording' /\ ClaimQueued'
<1> SUFFICES ASSUME TypeInv, Recording, ClaimQueued, [Next]_vars
             PROVE  Recording' /\ ClaimQueued'
  OBVIOUS
<1>j. JobsKept
  BY JobsStay
<1>1. Recording'
  <2>1. ASSUME NEW d \in Deliveries, req'[d].pc = "record"
        PROVE  jobs'[req'[d].run] # "none"
    <3>1. CASE req'[d] = req[d]
      <4>1. req[d].run \in Runs
        BY <2>1, <3>1, RouteOf DEF Route, Requests
      <4>2. QED  BY <2>1, <3>1, <4>1, <1>j DEF Recording, JobsKept
    <3>2. QED  BY <2>1, <3>1, RecordingStep
  <2>2. QED  BY <2>1 DEF Recording
<1>2. ClaimQueued'
  <2>1. ASSUME NEW q \in Requests, Record(q), claim' = req[q].run PROVE ClaimQueued'
    <3>1. q \in Deliveries /\ req[q].run \in Runs /\ req[q].pc = "record"
      BY <2>1, RouteOf DEF Record, At, Route
    <3>2. QED  BY <2>1, <3>1, <1>j DEF Recording, JobsKept, ClaimQueued
  <2>2. CASE claim' = claim
    BY <2>2, <1>j DEF ClaimQueued, JobsKept
  <2>3. CASE claim' \in {"free", "pending"}
    BY <2>3, IdsAssumption DEF ClaimQueued
  <2>4. (claim' = claim \/ claim' \in {"free", "pending"})
           \/ \E q \in Requests : Record(q) /\ claim' = req[q].run
    <3>1. ASSUME NEW q \in Requests, Send(q) \/ Proceed(q), ~Record(q)
          PROVE  claim' = claim \/ claim' \in {"free", "pending"}
      BY <3>1 DEF Proceed, Send, TickLock, Resolve, ClaimKey, ReadClaim, FindByRun,
                  FindByKey, Create, FindWinner, Enqueue, ClaimKept, Mark, Release,
                  ClaimReleased
    <3>2. ASSUME NEW q \in Requests, Record(q)
          PROVE  claim' = claim \/ claim' = req[q].run
      BY <3>2 DEF Record
    <3>3. ASSUME NEW r \in Runs, Take(r) \/ Finish(r) PROVE claim' = claim
      BY <3>3 DEF Take, Finish
    <3>4. CASE ClaimExpires \/ Restart \/ UNCHANGED vars
      BY <3>4 DEF ClaimExpires, Restart, vars
    <3>5. QED  BY <3>1, <3>2, <3>3, <3>4 DEF Next
  <2>5. QED  BY <2>1, <2>2, <2>3, <2>4
<1>3. QED  BY <1>1, <1>2

\* A replay answered from the claim in Redis never names a run without a job.
THEOREM RecordedRunsAreQueued == Spec => []RecordedWasQueued
<1>1. Init => Recording /\ ClaimQueued
  BY IdsAssumption DEF Init, Recording, ClaimQueued, Requests
<1>2. OneRun /\ ClaimQueued => RecordedWasQueued
  BY DEF OneRun, ClaimKeyed, ClaimQueued, RecordedWasQueued
<1>3. QED
  BY <1>1, <1>2, RecordedStep, OneRunInvariant, InvInit, InvStep, PTL DEF Spec

(* --------------------- Queued rows are waiting for somebody ------------- *)

Owner(q, r) == req[q].run = r /\ req[q].pc \in {"add", "mark"}

\* Every step leaves a queued row with a job or an owner.
LEMMA QueuedStep == TypeInv /\ QueuedIsWaiting /\ [Next]_vars => QueuedIsWaiting'
<1> SUFFICES ASSUME TypeInv, QueuedIsWaiting, [Next]_vars, NEW r \in Runs,
                    rows'[r] = "queued", failed' = {}, restarts' = 0
             PROVE  jobs'[r] # "none" \/ \E q \in Requests : Owner(q, r)'
  BY DEF QueuedIsWaiting, Owner, Requests
<1>j. JobsKept
  BY JobsStay
<1>f. ASSUME NEW w, Throws(w) PROVE FALSE
  BY <1>f DEF Throws
<1>1. CASE \E q \in Requests : Send(q) \/ Proceed(q)
  <2> PICK q \in Requests : Send(q) \/ Proceed(q)
    BY <1>1
  <2>1. failed = {} /\ restarts = 0
    BY <1>f DEF Proceed, Send, TickLock, Resolve, ClaimKey, ReadClaim, FindByRun,
       FindByKey, Create, FindWinner, Enqueue, Mark, Release, Record, Works
  <2>2. CASE rows[r] = "queued" /\ jobs[r] # "none"
    BY <2>2, <1>j DEF JobsKept
  <2>3. CASE rows[r] = "queued" /\ \E x \in Requests \ {q} : Owner(x, r)
    BY <2>3, OthersKept DEF Owner
  <2>4. CASE rows[r] = "queued" /\ Owner(q, r)
    <3>1. CASE Enqueue(q)
      <4>1. CASE jobs' = [jobs EXCEPT ![r] = "waiting"]
        BY <4>1 DEF TypeInv, TypeOK
      <4>2. CASE Await(q, "mark", r)
        BY <4>2, AwaitShape DEF Owner
      <4>3. QED  BY <2>4, <3>1, <4>1, <4>2, <1>f DEF Enqueue, Owner
    <3>2. CASE Mark(q)
      <4>1. rows' = [rows EXCEPT ![r] = "failed"]
        BY <2>4, <3>2, <1>f DEF Mark, MarkFailed, Owner
      <4>2. QED  BY <4>1 DEF TypeInv, TypeOK
    <3>3. QED
      BY <2>4, <3>1, <3>2
      DEF Owner, Proceed, At, Send, TickLock, Resolve, ClaimKey, ReadClaim, FindByRun,
          FindByKey, Create, FindWinner, Release, Record
  <2>5. CASE rows[r] # "queued"
    <3>1. Create(q)
      BY <2>5 DEF Proceed, Send, TickLock, Resolve, ClaimKey, ReadClaim, FindByRun,
         FindByKey, FindWinner, Enqueue, Mark, MarkFailed, Release, Record, TypeInv, TypeOK
    <3>2. PICK s \in Runs : Insert(q, s) /\ Await(q, "add", s)
      BY <2>5, <3>1, <1>f DEF Create
    <3>3. s = r
      BY <2>5, <3>2 DEF Insert, TypeInv, TypeOK
    <3>4. QED  BY <3>2, <3>3, AwaitShape DEF Owner
  <2>6. QED  BY <2>1, <2>2, <2>3, <2>4, <2>5 DEF QueuedIsWaiting, Owner
<1>2. ASSUME NEW s \in Runs, Take(s) \/ Finish(s)
      PROVE  jobs'[r] # "none" \/ \E q \in Requests : Owner(q, r)'
  <2>1. rows[r] = "queued" /\ failed = {} /\ restarts = 0
    BY <1>2, <1>f DEF Take, Finish, Works, TypeInv, TypeOK
  <2>2. QED  BY <1>2, <1>j, <2>1 DEF QueuedIsWaiting, Owner, JobsKept, Take, Finish
<1>3. CASE Restart
  BY <1>3 DEF Restart, TypeInv, TypeOK
<1>4. CASE ClaimExpires \/ UNCHANGED vars
  BY <1>4 DEF ClaimExpires, vars, QueuedIsWaiting, Owner
<1>5. QED  BY <1>1, <1>2, <1>3, <1>4 DEF Next

\* Without a failure or a crash, no row is left queued for ever.
THEOREM QueuedRowsAreOwned == Spec => []QueuedIsWaiting
<1>1. Init => QueuedIsWaiting
  BY DEF Init, QueuedIsWaiting
<1>2. QED  BY <1>1, QueuedStep, InvInit, InvStep, PTL DEF Spec

(* ------------------------ Pending claims have an owner ------------------ *)

Claimant(d) == req[d].pc \in {"create", "release"}

ClaimNeedsRedis == claim # "free" => redisOn

\* Every step leaves a pending claim with a delivery.
LEMMA ClaimantStep ==
    TypeInv /\ ClaimNeedsRedis /\ PendingHasOwner /\ [Next]_vars =>
        ClaimNeedsRedis' /\ PendingHasOwner'
<1> SUFFICES ASSUME TypeInv, ClaimNeedsRedis, PendingHasOwner, [Next]_vars
             PROVE  ClaimNeedsRedis' /\ PendingHasOwner'
  OBVIOUS
<1>d. Deliveries \subseteq Requests
  BY DEF Requests
<1>1. ClaimNeedsRedis'
  <2>1. ASSUME NEW q \in Requests, ClaimKey(q) \/ Record(q) PROVE ClaimNeedsRedis'
    BY <2>1, RouteOf DEF ClaimKey, Record, At, Route, ClaimNeedsRedis
  <2>2. ASSUME NEW q \in Requests, Send(q) \/ Proceed(q), ~ClaimKey(q), ~Record(q)
        PROVE  ClaimNeedsRedis'
    <3>1. claim' = claim \/ claim' = "free"
      BY <2>2 DEF Proceed, Send, TickLock, Resolve, ReadClaim, FindByRun, FindByKey,
         Create, FindWinner, Enqueue, ClaimKept, Mark, Release, ClaimReleased
    <3>2. redisOn' = redisOn
      BY <2>2 DEF Proceed, Send, TickLock, Resolve, ReadClaim, FindByRun, FindByKey,
         Create, FindWinner, Enqueue, Mark, Release
    <3>3. QED  BY <3>1, <3>2 DEF ClaimNeedsRedis
  <2>3. ASSUME NEW r \in Runs, Take(r) \/ Finish(r) PROVE ClaimNeedsRedis'
    BY <2>3 DEF Take, Finish, ClaimNeedsRedis
  <2>4. CASE ClaimExpires \/ Restart \/ UNCHANGED vars
    BY <2>4 DEF ClaimExpires, Restart, vars, ClaimNeedsRedis
  <2>5. QED  BY <2>1, <2>2, <2>3, <2>4 DEF Next
<1>2. ASSUME claim' = "pending", keyed' = {}, "redis" \notin failed', restarts' = 0
      PROVE  \E d \in Deliveries : Claimant(d)'
  <2>f. ASSUME Throws("redis") PROVE FALSE
    BY <1>2, <2>f DEF Throws, TypeInv, TypeOK
  <2>1. ASSUME NEW q \in Requests, ClaimKey(q), claim = "free"
        PROVE  \E d \in Deliveries : Claimant(d)'
    <3>1. q \in Deliveries
      BY <2>1, RouteOf DEF ClaimKey, At, Route
    <3>2. Await(q, "create", NoRun)
      BY <2>1, <2>f DEF ClaimKey
    <3>3. QED  BY <3>1, <3>2, AwaitShape DEF Claimant
  <2>2. ASSUME NEW q \in Requests, Send(q) \/ Proceed(q), claim = "pending"
        PROVE  \E d \in Deliveries : Claimant(d)'
    <3>1. keyed = {} /\ "redis" \notin failed /\ restarts = 0
      BY <1>2, <2>2 DEF Proceed, Send, TickLock, Resolve, ClaimKey, ReadClaim, FindByRun,
         FindByKey, Create, Insert, FindWinner, Enqueue, Mark, Release, Record, Works,
         Throws
    <3>2. PICK d \in Deliveries : Claimant(d)
      BY <2>2, <3>1 DEF PendingHasOwner, Claimant
    <3>3. CASE q # d
      BY <2>2, <3>2, <3>3, <1>d, OthersKept DEF Claimant
    <3>4. CASE q = d /\ Create(q)
      <4>1. ~(\E r \in Runs : Insert(q, r))
        BY <1>2, <3>4 DEF Insert
      <4>2. IndexAdmits(q)
        BY <3>1 DEF IndexAdmits
      <4>3. Undo(q)
        BY <3>4, <4>1, <4>2 DEF Create
      <4>4. redisOn
        BY <2>2 DEF ClaimNeedsRedis
      <4>5. QED  BY <3>4, <4>3, <4>4, UndoShape DEF Claimant
    <3>5. CASE q = d /\ Release(q)
      BY <1>2, <2>f, <3>5 DEF Release, ClaimReleased
    <3>6. QED
      BY <2>2, <3>2, <3>3, <3>4, <3>5
      DEF Claimant, Proceed, At, Send, TickLock, Resolve, ClaimKey, ReadClaim, FindByRun,
          FindByKey, FindWinner, Enqueue, Mark, Record
  <2>3. ASSUME NEW q \in Requests, Send(q) \/ Proceed(q), claim # "pending", ~ClaimKey(q)
        PROVE  FALSE
    <3>1. Record(q)
      BY <1>2, <2>3 DEF Proceed, Send, TickLock, Resolve, ReadClaim, FindByRun, FindByKey,
         Create, FindWinner, Enqueue, ClaimKept, Mark, Release, ClaimReleased
    <3>2. req[q].run \in Runs
      BY <3>1, RouteOf DEF Record, At, Route
    <3>3. QED  BY <1>2, <2>3, <3>1, <3>2, IdsAssumption DEF Record
  <2>4. ASSUME NEW q \in Requests, ClaimKey(q), claim \notin {"free", "pending"}
        PROVE  FALSE
    BY <1>2, <2>4 DEF ClaimKey
  <2>5. ASSUME NEW r \in Runs, Take(r) \/ Finish(r)
        PROVE  \E d \in Deliveries : Claimant(d)'
    BY <1>2, <2>5 DEF Take, Finish, Works, Throws, PendingHasOwner, Claimant
  <2>6. CASE ClaimExpires \/ Restart \/ UNCHANGED vars
    BY <1>2, <2>6 DEF ClaimExpires, Restart, vars, PendingHasOwner, Claimant, TypeInv,
       TypeOK
  <2>7. QED  BY <2>1, <2>2, <2>3, <2>4, <2>5, <2>6 DEF Next, Proceed
<1>3. QED  BY <1>1, <1>2 DEF PendingHasOwner, Claimant

\* Unless Redis throws or the process crashes, a key that blocks its retries
\* has a delivery that is still working for it.
THEOREM PendingClaimsAreOwned == Spec => []PendingHasOwner
<1>1. Init => ClaimNeedsRedis /\ PendingHasOwner
  BY DEF Init, ClaimNeedsRedis, PendingHasOwner
<1>2. QED  BY <1>1, ClaimantStep, InvInit, InvStep, PTL DEF Spec

(* ------------------------------ One run per tick ------------------------ *)

\* A firing that has the tick and may have made a run.
Past(f) == req[f].pc \notin {"idle", "tick"} /\ ~(req[f].pc = "done" /\ req[f].run = NoRun)

TickInv ==
    redisOn =>
        /\ ~tick => \A f \in Firings : ~Past(f)
        /\ \A f, g \in Firings : Past(f) /\ Past(g) => f = g

\* A firing gets past the tick lock only by taking a free tick.
LEMMA PastStep ==
    ASSUME TypeInv, [Next]_vars, redisOn, NEW f \in Firings, Past(f)', ~Past(f)
    PROVE  TickLock(f) /\ ~tick /\ tick'
<1>d. f \in Requests
  BY DEF Requests
<1>1. CASE \E q \in Requests \ {f} : Send(q) \/ Proceed(q)
  BY <1>1, <1>d, OthersKept DEF Past
<1>2. CASE Send(f)
  BY <1>2, <1>d, AwaitShape DEF Send, Past
<1>3. CASE TickLock(f) /\ ~(~tick /\ tick')
  <2>1. Reply(f, "skipped", NoRun)
    BY <1>3 DEF TickLock, SkipTick
  <2>2. QED  BY <1>d, <2>1, ReplyShape DEF Past
<1>4. CASE Proceed(f) /\ ~TickLock(f)
  BY <1>4, <1>d, RouteOf
  DEF Proceed, Past, Route, At, Resolve, ClaimKey, ReadClaim, FindByRun, FindByKey,
      Create, FindWinner, Enqueue, Mark, Release, Record
<1>5. ASSUME NEW r \in Runs, Take(r) \/ Finish(r) PROVE FALSE
  BY <1>5 DEF Take, Finish, Past
<1>6. CASE Restart
  BY <1>6, <1>d, RouteOf DEF Restart, Past, Route, TypeInv, TypeOK
<1>7. CASE ClaimExpires \/ UNCHANGED vars
  BY <1>7 DEF ClaimExpires, vars, Past
<1>8. QED  BY <1>1, <1>2, <1>3, <1>4, <1>5, <1>6, <1>7 DEF Next, Proceed

\* A tick that is taken stays taken.
LEMMA TickStays == TypeInv /\ [Next]_vars => (tick => tick') /\ redisOn' = redisOn
<1> SUFFICES ASSUME TypeInv, [Next]_vars PROVE (tick => tick') /\ redisOn' = redisOn
  OBVIOUS
<1>1. ASSUME NEW q \in Requests, Send(q) \/ Proceed(q)
      PROVE  (tick => tick') /\ redisOn' = redisOn
  <2>1. CASE TickLock(q)
    <3>1. tick' = TRUE \/ tick' = tick
      BY <2>1 DEF TickLock
    <3>2. redisOn' = redisOn
      BY <2>1 DEF TickLock
    <3>3. QED  BY <3>1, <3>2
  <2>2. CASE ~TickLock(q)
    <3>1. tick' = tick
      BY <1>1, <2>2 DEF Proceed, Send, Resolve, ClaimKey, ReadClaim, FindByRun,
         FindByKey, Create, FindWinner, Enqueue, Mark, Release, Record
    <3>2. redisOn' = redisOn
      BY <1>1, <2>2 DEF Proceed, Send, Resolve, ClaimKey, ReadClaim, FindByRun,
         FindByKey, Create, FindWinner, Enqueue, Mark, Release, Record
    <3>3. QED  BY <3>1, <3>2
  <2>3. QED  BY <2>1, <2>2
<1>2. ASSUME NEW r \in Runs, Take(r) \/ Finish(r)
      PROVE  (tick => tick') /\ redisOn' = redisOn
  BY <1>2 DEF Take, Finish
<1>3. CASE ClaimExpires \/ Restart \/ UNCHANGED vars
  BY <1>3 DEF ClaimExpires, Restart, vars
<1>4. QED  BY <1>1, <1>2, <1>3 DEF Next

\* Every step keeps at most one firing past the tick lock.
LEMMA TickStep == TypeInv /\ TickInv /\ [Next]_vars => TickInv'
<1> SUFFICES ASSUME TypeInv, TickInv, [Next]_vars, redisOn' PROVE TickInv'
  BY DEF TickInv
<1>1. redisOn /\ (tick => tick')
  BY TickStays
<1>2. ASSUME ~tick', NEW f \in Firings PROVE ~Past(f)'
  BY <1>1, <1>2, PastStep DEF TickInv
<1>3. ASSUME NEW f \in Firings, NEW g \in Firings, Past(f)', Past(g)' PROVE f = g
  <2>1. CASE Past(f) /\ Past(g)
    BY <1>1, <2>1 DEF TickInv
  <2>2. CASE ~Past(f) /\ Past(g)
    BY <1>1, <1>3, <2>2, PastStep DEF TickInv
  <2>3. CASE Past(f) /\ ~Past(g)
    BY <1>1, <1>3, <2>3, PastStep DEF TickInv
  <2>4. CASE ~Past(f) /\ ~Past(g)
    <3>1. TickLock(f) /\ TickLock(g) /\ ~tick /\ tick'
      BY <1>1, <1>3, <2>4, PastStep
    <3>2. f \in Requests /\ g \in Requests
      BY DEF Requests
    <3>3. f # g => req'[g] = req[g]
      BY <3>1, <3>2, OthersKept DEF Proceed
    <3>4. QED  BY <1>3, <2>4, <3>3 DEF Past
  <2>5. QED  BY <2>1, <2>2, <2>3, <2>4
<1>4. QED  BY <1>2, <1>3 DEF TickInv

\* With Redis, whichever instances fire a tick and whatever fails, one of them
\* at most makes a run.
THEOREM TicksFireOnce == Spec => []OneRunPerTick
<1>1. Init => TickInv
  BY DEF Init, TickInv, Past, Requests
<1>2. TypeInv /\ TickInv => OneRunPerTick
  <2> SUFFICES ASSUME TypeInv, TickInv, redisOn PROVE OneRunPerTick
    BY DEF OneRunPerTick
  <2> DEFINE S == {q \in Firings : req[q].run # NoRun}
  <2>1. ASSUME NEW f \in S PROVE Past(f)
    BY RouteOf DEF Past, Route, Requests
  <2>2. \A f, g \in S : f = g
    BY <2>1 DEF TickInv
  <2>3. CASE S = {}
    BY <2>3, FS_EmptySet DEF OneRunPerTick
  <2>4. CASE S # {}
    <3>1. PICK f \in S : TRUE
      BY <2>4
    <3>2. S = {f}
      BY <2>2, <3>1
    <3>3. Cardinality(S) = 1
      BY <3>2, FS_Singleton
    <3>4. QED  BY <3>3 DEF OneRunPerTick
  <2>5. QED  BY <2>3, <2>4
<1>3. QED  BY <1>1, <1>2, TickStep, InvInit, InvStep, PTL DEF Spec
============================================================================
