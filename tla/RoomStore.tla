----------------------------- MODULE RoomStore -----------------------------
(***************************************************************************)
(* The server side of one collaborative document: the room that holds the  *)
(* live Yjs document, the sockets tracked in it, and the write-behind      *)
(* persistence of the room to MongoDB (services/crdt.service.js with the   *)
(* socket handlers that call it and the shutdown sequence of server.js).   *)
(*                                                                         *)
(* A Yjs document is the set of updates applied to it: applyUpdate is set  *)
(* union, encodeStateAsUpdate is the set itself.  Every step below is the  *)
(* code one Node callback runs between two awaits.  A room object lives on *)
(* in closures after rooms.delete or rooms.set has replaced it, so each    *)
(* object has an incarnation number and "room" is the one the Map holds.   *)
(***************************************************************************)
EXTENDS Integers, FiniteSets

CONSTANTS
    Sockets,        \* socket ids; an id is not reused after a disconnect
    Edits,          \* the updates clients may send
    Persists,       \* bound: persistRoom calls running at the same time
    MaxRooms,       \* bound: room objects created over a behaviour
    MaxFailures,    \* bound: database and lock failures
    MaxRestarts,    \* bound: crashes and restarts of the process
    MaxStray,       \* bound: cleanup timers whose handle was overwritten
    RedisModes,     \* values getRedlock() may take: TRUE is "Redis ready"
    LockExpires,    \* whether a lock may outlive its 2000 ms TTL
    StrayLeaves,    \* whether a socket outside the room may send room:leave
    Disconnects,    \* whether a socket may drop without room:leave
    Shutdowns,      \* whether the process may be told to stop
    QuietColdStart  \* whether a room is loaded only when nothing else runs

ASSUME BoundsAssumption ==
    /\ MaxRooms \in Nat /\ MaxFailures \in Nat
    /\ MaxRestarts \in Nat /\ MaxStray \in Nat
ASSUME ModesAssumption ==
    /\ RedisModes \subseteq BOOLEAN
    /\ LockExpires \in BOOLEAN /\ StrayLeaves \in BOOLEAN
    /\ Disconnects \in BOOLEAN /\ Shutdowns \in BOOLEAN
    /\ QuietColdStart \in BOOLEAN
ASSUME PersistsAssumption == "none" \notin Persists

VARIABLES
    mode,         \* "up", "flushing" (SIGTERM received) or "down"
    room,         \* rooms.get(documentId): an incarnation, or 0 for undefined
    born,         \* room objects created so far
    heap,         \* the room objects, by incarnation
    strayTimers,  \* armed cleanup timers no handle refers to
    retryTimers,  \* armed retry timers of failed persistRoom calls
    conn,         \* each socket: "out", "in" the Socket.IO room, or "gone"
    task,         \* each socket's handler waiting for createRoom
    op,           \* the running persistRoom calls
    lock,         \* holder of lock:document:<id>, or "none"
    redis,        \* redisAvailable
    db,           \* Document.content
    flushOp,      \* the persistRoom call flushAllRooms waits for, or "none"
    accepted,     \* history: updates applied to some room object
    flushed,      \* history: what the live room held when the flush began
    failures,     \* history: failures so far
    restarts      \* history: crashes and restarts so far

vars == <<mode, room, born, heap, strayTimers, retryTimers, conn, task, op,
          lock, redis, db, flushOp, accepted, flushed, failures, restarts>>

----------------------------------------------------------------------------
(* State *)

Rooms == 1..MaxRooms
NoRoom == 0

\* roomState.  "written" is a history field: what MongoDB acknowledged from
\* this object (or handed to it); "cuts" counts the auto-save versions cut
\* since the auto-save interval last elapsed.
RoomState ==
    [doc : SUBSET Edits, sockets : SUBSET Sockets,
     persistTimer : BOOLEAN, cleanupTimer : BOOLEAN,
     recentPersist : BOOLEAN, edited : BOOLEAN, recentSave : BOOLEAN,
     written : SUBSET Edits, cuts : Nat]

\* Mutant: the stored content is not applied to the new document.
BlankRoom(content) ==
    [doc |-> {}, sockets |-> {},
     persistTimer |-> FALSE, cleanupTimer |-> FALSE,
     recentPersist |-> FALSE, edited |-> FALSE, recentSave |-> FALSE,
     written |-> {}, cuts |-> 0]

\* createRoom's room object over the content it loaded.
NewRoom(content) ==
    [doc |-> content, sockets |-> {},
     persistTimer |-> FALSE, cleanupTimer |-> FALSE,
     recentPersist |-> FALSE, edited |-> FALSE, recentSave |-> FALSE,
     written |-> content, cuts |-> 0]

\* A handler suspended in createRoom: "find" awaits Document.findById,
\* "found" has its reply.  An edit handler carries its update.
TaskState ==
    [pc : {"idle", "find", "found"}, kind : {"join", "edit"},
     edit : SUBSET Edits, seen : SUBSET Edits]
NoTask == [pc |-> "idle", kind |-> "join", edit |-> {}, seen |-> {}]

\* A running persistRoom: "lock" awaits redlock.acquire, "write" the
\* updateOne, "save" createAutoSaveVersion, "unlock" lock.release.
NoOp == [pc |-> "idle", room |-> NoRoom, snap |-> {}, locked |-> FALSE]
OpState ==
    {NoOp} \cup [pc : {"lock", "write", "save", "unlock"},
                room : Rooms, snap : SUBSET Edits, locked : BOOLEAN]

Active(p) == op[p].pc # "idle"

TypeOK ==
    /\ mode \in {"up", "flushing", "down"}
    /\ room \in 0..MaxRooms
    /\ born \in 0..MaxRooms
    /\ heap \in [Rooms -> RoomState]
    /\ strayTimers \in Nat /\ retryTimers \in Nat
    /\ conn \in [Sockets -> {"out", "in", "gone"}]
    /\ task \in [Sockets -> TaskState]
    /\ op \in [Persists -> OpState]
    /\ lock \in Persists \cup {"none"}
    /\ redis \in BOOLEAN
    /\ db \subseteq Edits
    /\ flushOp \in Persists \cup {"none"}
    /\ accepted \subseteq Edits /\ flushed \subseteq Edits
    /\ failures \in Nat /\ restarts \in Nat

Init ==
    /\ mode = "up" /\ room = NoRoom /\ born = 0
    /\ heap = [r \in Rooms |-> NewRoom({})]
    /\ strayTimers = 0 /\ retryTimers = 0
    /\ conn = [s \in Sockets |-> "out"]
    /\ task = [s \in Sockets |-> NoTask]
    /\ op = [p \in Persists |-> NoOp]
    /\ lock = "none" /\ redis \in RedisModes
    /\ db = {} /\ flushOp = "none"
    /\ accepted = {} /\ flushed = {}
    /\ failures = 0 /\ restarts = 0

----------------------------------------------------------------------------
(* Pieces of the handlers *)

\* The synchronous prefix of persistRoom(documentId) for a live room in state
\* s, run as call p: clear the persist timer, then wait for the lock or, with
\* no redlock, take the snapshot at once.
Started(r, s) ==
    IF redis THEN [pc |-> "lock", room |-> r, snap |-> {}, locked |-> FALSE]
             ELSE [pc |-> "write", room |-> r, snap |-> s.doc, locked |-> FALSE]

StartPersist(r, s) ==
    \E p \in Persists :
        /\ ~Active(p)
        /\ op' = [op EXCEPT ![p] = Started(r, s)]
        /\ heap' = [heap EXCEPT ![r] = [s EXCEPT !.persistTimer = FALSE]]

\* Mutant: the timers persist nothing.
PersistNothing(h) == op' = op /\ heap' = h

\* persistRoom(documentId) called by a timer: nothing happens without a room.
PersistLiveRoom(h) ==
    IF room = NoRoom
    THEN op' = op /\ heap' = h
    ELSE \E p \in Persists :
            /\ ~Active(p)
            /\ op' = [op EXCEPT ![p] = Started(room, h[room])]
            /\ heap' = [h EXCEPT ![room].persistTimer = FALSE]

\* schedulePersist: write now when the last write is older than persistMaxMs,
\* otherwise (re)arm the debounce timer.
SchedulePersist(r, s) ==
    \/ /\ ~s.recentPersist
       /\ StartPersist(r, s)
    \/ /\ s.recentPersist
       /\ heap' = [heap EXCEPT ![r] = [s EXCEPT !.persistTimer = TRUE]]
       /\ op' = op

\* applyUpdate on room object r in state s; the Yjs "update" event calls
\* schedulePersist in the same callback.
ApplyUpdate(r, s, e) ==
    /\ SchedulePersist(r, [s EXCEPT !.doc = @ \cup {e}, !.edited = TRUE])
    /\ accepted' = accepted \cup {e}

\* Mutant: a join leaves the cleanup timer armed.
TrackJoinArmed(r, s, k) ==
    /\ heap' = [heap EXCEPT ![r] = [s EXCEPT !.sockets = @ \cup {k}]]
    /\ conn' = [conn EXCEPT ![k] = IF @ = "gone" THEN @ ELSE "in"]

\* trackSocketJoin on the live room, after socket.join; a socket that has
\* dropped meanwhile is tracked all the same.
TrackJoin(r, s, k) ==
    /\ heap' = [heap EXCEPT ![r] = [s EXCEPT !.sockets = @ \cup {k},
                                             !.cleanupTimer = FALSE]]
    /\ conn' = [conn EXCEPT ![k] = IF @ = "gone" THEN @ ELSE "in"]

\* With QuietColdStart, a handler starts to load a room only when no other
\* handler is loading one and no persistRoom call is running.
MayLoad(k) ==
    QuietColdStart => /\ \A j \in Sockets \ {k} : task[j].pc = "idle"
                      /\ \A p \in Persists : ~Active(p)

Fresh(e) == e \notin accepted /\ \A k \in Sockets : e \notin task[k].edit

Suspend(k, kind, es) ==
    /\ MayLoad(k)
    /\ task' = [task EXCEPT ![k] = [pc |-> "find", kind |-> kind,
                                    edit |-> es, seen |-> {}]]

----------------------------------------------------------------------------
(* Socket handlers *)

\* room:join, document already loaded or not.
Join(k) ==
    /\ mode # "down" /\ conn[k] # "gone" /\ task[k].pc = "idle"
    /\ \/ /\ room # NoRoom
          /\ TrackJoin(room, heap[room], k)
          /\ task' = task
       \/ /\ room = NoRoom
          /\ Suspend(k, "join", {})
          /\ UNCHANGED <<heap, conn>>
    /\ UNCHANGED <<mode, room, born, strayTimers, retryTimers, op, lock, redis,
                   db, flushOp, accepted, flushed, failures, restarts>>

\* sync:update from a socket of the Socket.IO room.
Edit(k, e) ==
    /\ mode # "down" /\ conn[k] = "in" /\ task[k].pc = "idle" /\ Fresh(e)
    /\ \/ /\ room # NoRoom
          /\ ApplyUpdate(room, heap[room], e)
          /\ task' = task
       \/ /\ room = NoRoom
          /\ Suspend(k, "edit", {e})
          /\ UNCHANGED <<heap, op, accepted>>
    /\ UNCHANGED <<mode, room, born, strayTimers, retryTimers, conn, lock, redis,
                   db, flushOp, flushed, failures, restarts>>

\* createRoom: MongoDB answers findById.
Find(k) ==
    /\ task[k].pc = "find"
    /\ task' = [task EXCEPT ![k].pc = "found", ![k].seen = db]
    /\ UNCHANGED <<mode, room, born, heap, strayTimers, retryTimers, conn, op,
                   lock, redis, db, flushOp, accepted, flushed, failures, restarts>>

\* createRoom resumes: a new room object is put in the Map whether or not one
\* is there by now, and the suspended handler goes on with it.
Create(k) ==
    /\ task[k].pc = "found" /\ born < MaxRooms
    /\ born' = born + 1 /\ room' = born + 1
    /\ \/ /\ task[k].kind = "join"
          /\ TrackJoin(born + 1, NewRoom(task[k].seen), k)
          /\ UNCHANGED <<op, accepted>>
       \/ /\ task[k].kind = "edit"
          /\ \E e \in task[k].edit :
                ApplyUpdate(born + 1, NewRoom(task[k].seen), e)
          /\ conn' = conn
    /\ task' = [task EXCEPT ![k] = NoTask]
    /\ UNCHANGED <<mode, strayTimers, retryTimers, lock, redis, db, flushOp,
                   flushed, failures, restarts>>

\* Mutant: an empty room gets no cleanup timer.
TrackLeaveUnarmed(k) ==
    /\ heap' = IF room = NoRoom THEN heap
               ELSE [heap EXCEPT ![room].sockets = @ \ {k}]
    /\ UNCHANGED strayTimers

\* trackSocketLeave: an empty room gets a cleanup timer even when it has one,
\* whose handle is then forgotten.
TrackLeave(k) ==
    IF room = NoRoom
    THEN UNCHANGED <<heap, strayTimers>>
    ELSE LET left == heap[room].sockets \ {k} IN
         IF left # {}
         THEN /\ heap' = [heap EXCEPT ![room].sockets = left]
              /\ UNCHANGED strayTimers
         ELSE /\ heap' = [heap EXCEPT ![room].sockets = left,
                                      ![room].cleanupTimer = TRUE]
              /\ IF heap[room].cleanupTimer
                 THEN /\ strayTimers < MaxStray
                      /\ strayTimers' = strayTimers + 1
                 ELSE UNCHANGED strayTimers

\* room:leave, from a socket that is in the room, from one whose join is
\* still suspended (which then completes), or from one that is not in it.
Leave(k) ==
    /\ mode # "down" /\ conn[k] # "gone"
    /\ conn[k] = "in" \/ task[k].pc # "idle" \/ StrayLeaves
    /\ conn' = [conn EXCEPT ![k] = "out"]
    /\ TrackLeave(k)
    /\ UNCHANGED <<mode, room, born, retryTimers, task, op, lock, redis, db,
                   flushOp, accepted, flushed, failures, restarts>>

\* disconnect: Socket.IO has emptied socket.rooms when the handler runs, so
\* the handler tracks no leave and the room keeps the socket id.
Disconnect(k) ==
    /\ Disconnects /\ conn[k] # "gone"
    /\ conn' = [conn EXCEPT ![k] = "gone"]
    /\ UNCHANGED <<mode, room, born, heap, strayTimers, retryTimers, task, op, lock,
                   redis, db, flushOp, accepted, flushed, failures, restarts>>

----------------------------------------------------------------------------
(* Timers *)

\* The debounce timer of any incarnation; it names the document, not the room.
PersistTimerFires(r) ==
    /\ heap[r].persistTimer
    /\ PersistLiveRoom([heap EXCEPT ![r].persistTimer = FALSE])
    /\ UNCHANGED <<mode, room, born, strayTimers, retryTimers, conn, task, lock,
                   redis, db, flushOp, accepted, flushed, failures, restarts>>

\* A retry timer is armed.
RetryDue == retryTimers > 0

\* The retry timer of the catch block.
RetryTimerFires ==
    /\ RetryDue
    /\ retryTimers' = retryTimers - 1
    /\ PersistLiveRoom(heap)
    /\ UNCHANGED <<mode, room, born, strayTimers, conn, task, lock, redis, db,
                   flushOp, accepted, flushed, failures, restarts>>

\* The cleanup timer of trackSocketLeave: start a persist, and delete whatever
\* room the Map holds without waiting for it.
CleanupTimerFires(r) ==
    /\ heap[r].cleanupTimer
    /\ PersistLiveRoom([heap EXCEPT ![r].cleanupTimer = FALSE])
    /\ room' = NoRoom
    /\ UNCHANGED <<mode, born, strayTimers, retryTimers, conn, task, lock, redis,
                   db, flushOp, accepted, flushed, failures, restarts>>

StrayTimerFires ==
    /\ strayTimers > 0
    /\ strayTimers' = strayTimers - 1
    /\ PersistLiveRoom(heap)
    /\ room' = NoRoom
    /\ UNCHANGED <<mode, born, retryTimers, conn, task, lock, redis, db, flushOp,
                   accepted, flushed, failures, restarts>>

\* Room objects some code can still reach: the Map's and those of running calls.
Reachable(r) == r = room \/ \E p \in Persists : op[p].room = r

\* persistMaxMs has passed since the room's last write.
PersistWindowEnds(r) ==
    /\ Reachable(r) /\ heap[r].recentPersist
    /\ heap' = [heap EXCEPT ![r].recentPersist = FALSE]
    /\ UNCHANGED <<mode, room, born, strayTimers, retryTimers, conn, task, op, lock,
                   redis, db, flushOp, accepted, flushed, failures, restarts>>

\* autoSaveIntervalMs has passed since the room's last auto-save.
SaveWindowEnds(r) ==
    /\ Reachable(r) /\ heap[r].recentSave
    /\ heap' = [heap EXCEPT ![r].recentSave = FALSE, ![r].cuts = 0]
    /\ UNCHANGED <<mode, room, born, strayTimers, retryTimers, conn, task, op, lock,
                   redis, db, flushOp, accepted, flushed, failures, restarts>>

----------------------------------------------------------------------------
(* persistRoom after its first await *)

\* Redlock grants the lock to one caller at a time.
LockFree == lock = "none"

\* The lock is granted; the snapshot is taken and the updateOne sent.
Acquire(p) ==
    /\ op[p].pc = "lock" /\ LockFree
    /\ lock' = p
    /\ op' = [op EXCEPT ![p].pc = "write", ![p].locked = TRUE,
                        ![p].snap = heap[op[p].room].doc]
    /\ UNCHANGED <<mode, room, born, heap, strayTimers, retryTimers, conn, task,
                   redis, db, flushOp, accepted, flushed, failures, restarts>>

\* What follows the try block: release the lock, or return when there is none.
Ended(o) == IF o.locked THEN [o EXCEPT !.pc = "unlock"] ELSE NoOp

\* An editor is known and the last auto-save is old enough.
SaveDue(s) == s.edited /\ ~s.recentSave

\* MongoDB has stored the snapshot; an auto-save version may follow.
WriteDone(p) ==
    LET r == op[p].room IN
    /\ op[p].pc = "write"
    /\ db' = op[p].snap
    /\ heap' = [heap EXCEPT ![r].recentPersist = TRUE,
                            ![r].written = @ \cup op[p].snap]
    /\ op' = [op EXCEPT ![p] = IF SaveDue(heap[r])
                               THEN [@ EXCEPT !.pc = "save"]
                               ELSE Ended(@)]
    /\ UNCHANGED <<mode, room, born, strayTimers, retryTimers, conn, task, lock,
                   redis, flushOp, accepted, flushed, failures, restarts>>

\* createAutoSaveVersion has returned.
SaveDone(p) ==
    LET r == op[p].room IN
    /\ op[p].pc = "save"
    /\ heap' = [heap EXCEPT ![r].recentSave = TRUE, ![r].cuts = @ + 1]
    /\ op' = [op EXCEPT ![p] = Ended(@)]
    /\ UNCHANGED <<mode, room, born, strayTimers, retryTimers, conn, task, lock,
                   redis, db, flushOp, accepted, flushed, failures, restarts>>

\* Mutant: a failed call is not tried again.
RetryForgotten == retryTimers' = retryTimers

\* The catch block arms a retry timer that nothing keeps track of.
ArmRetry == retryTimers' = retryTimers + 1

\* The acquire, the write or the auto-save throws.  A write may have reached
\* the database and an auto-save the collection all the same; the catch block
\* swallows the error.
PersistFails(p) ==
    LET r == op[p].room IN
    /\ op[p].pc \in {"lock", "write", "save"} /\ failures < MaxFailures
    /\ failures' = failures + 1
    /\ ArmRetry
    /\ \/ /\ op[p].pc = "write" /\ db' = op[p].snap /\ heap' = heap
       \/ /\ op[p].pc = "save" /\ db' = db
          /\ heap' = [heap EXCEPT ![r].cuts = @ + 1]
       \/ UNCHANGED <<db, heap>>
    /\ op' = [op EXCEPT ![p] = Ended(@)]
    /\ UNCHANGED <<mode, room, born, strayTimers, conn, task, lock, redis,
                   flushOp, accepted, flushed, restarts>>

\* The lock after p releases it.
FreedLock(p) == IF lock = p THEN "none" ELSE lock

\* lock.release(): nothing happens to a lock that has expired, and a request
\* that fails leaves the lock to its TTL.
Release(p) ==
    /\ op[p].pc = "unlock"
    /\ op' = [op EXCEPT ![p] = NoOp]
    /\ lock' \in {FreedLock(p)} \cup (IF LockExpires THEN {lock} ELSE {})
    /\ UNCHANGED <<mode, room, born, heap, strayTimers, retryTimers, conn, task,
                   redis, db, flushOp, accepted, flushed, failures, restarts>>

\* The lock's TTL runs out while its holder is still at work.
LockExpiry ==
    /\ LockExpires /\ lock # "none"
    /\ lock' = "none"
    /\ UNCHANGED <<mode, room, born, heap, strayTimers, retryTimers, conn, task, op,
                   redis, db, flushOp, accepted, flushed, failures, restarts>>

\* The Redis client reports "ready", "error" or "close".
RedisChanges ==
    /\ redis' \in RedisModes \ {redis}
    /\ UNCHANGED <<mode, room, born, heap, strayTimers, retryTimers, conn, task, op,
                   lock, db, flushOp, accepted, flushed, failures, restarts>>

----------------------------------------------------------------------------
(* Shutdown, crash and restart *)

\* SIGTERM: flushAllRooms calls persistRoom for every room of the Map.
Flush ==
    /\ Shutdowns /\ mode = "up"
    /\ mode' = "flushing"
    /\ IF room = NoRoom
       THEN /\ flushed' = {} /\ flushOp' = "none"
            /\ UNCHANGED <<op, heap>>
       ELSE /\ flushed' = heap[room].doc
            /\ \E p \in Persists :
                  /\ ~Active(p) /\ flushOp' = p
                  /\ op' = [op EXCEPT ![p] = Started(room, heap[room])]
            /\ heap' = [heap EXCEPT ![room].persistTimer = FALSE]
    /\ UNCHANGED <<room, born, strayTimers, retryTimers, conn, task, lock, redis,
                   db, accepted, failures, restarts>>

\* Mutant: the shutdown does not await flushAllRooms.
FlushNotAwaited == TRUE

\* Promise.all of flushAllRooms has resolved.
FlushResolved == flushOp # "none" => ~Active(flushOp)

\* The flush has resolved: shutdownRooms clears the timers and the Map, and
\* the sockets are closed.  Handlers still suspended go on until the process exits.
FlushDone ==
    /\ mode = "flushing"
    /\ FlushResolved
    /\ mode' = "down" /\ room' = NoRoom
    /\ heap' = [r \in Rooms |->
                  IF r = room THEN [heap[r] EXCEPT !.persistTimer = FALSE,
                                                   !.cleanupTimer = FALSE]
                              ELSE heap[r]]
    /\ conn' = [k \in Sockets |-> "gone"]
    /\ UNCHANGED <<born, strayTimers, retryTimers, task, op, lock, redis, db,
                   flushOp, accepted, flushed, failures, restarts>>

\* The process exits, from "down" or by crashing, and starts again: nothing in
\* memory survives, one of the writes in flight may still reach the database,
\* and the lock is gone by the time the new process serves.
Restart ==
    /\ restarts < MaxRestarts
    /\ restarts' = restarts + 1
    /\ db' \in {db} \cup {op[p].snap : p \in {q \in Persists : op[q].pc = "write"}}
    /\ mode' = "up" /\ room' = NoRoom
    /\ heap' = [r \in Rooms |-> NewRoom({})]
    /\ strayTimers' = 0 /\ retryTimers' = 0
    /\ conn' = [k \in Sockets |-> "out"]
    /\ task' = [k \in Sockets |-> NoTask]
    /\ op' = [p \in Persists |-> NoOp]
    /\ lock' = "none" /\ flushOp' = "none" /\ flushed' = {}
    /\ UNCHANGED <<born, redis, accepted, failures>>

----------------------------------------------------------------------------
(* Specification *)

Next ==
    \/ \E k \in Sockets :
          \/ Join(k) \/ Find(k) \/ Create(k) \/ Leave(k) \/ Disconnect(k)
          \/ \E e \in Edits : Edit(k, e)
    \/ \E r \in Rooms :
          \/ PersistTimerFires(r) \/ CleanupTimerFires(r)
          \/ PersistWindowEnds(r) \/ SaveWindowEnds(r)
    \/ \E p \in Persists :
          Acquire(p) \/ WriteDone(p) \/ SaveDone(p) \/ PersistFails(p) \/ Release(p)
    \/ RetryTimerFires \/ StrayTimerFires \/ LockExpiry \/ RedisChanges
    \/ Flush \/ FlushDone \/ Restart

Spec == Init /\ [][Next]_vars

\* Node runs every timer and every resumed handler; MongoDB and Redis answer.
\* Clients, failures and restarts are under no obligation.
Fairness ==
    /\ \A k \in Sockets : WF_vars(Find(k)) /\ WF_vars(Create(k))
    /\ \A r \in Rooms :
          WF_vars(PersistTimerFires(r)) /\ WF_vars(CleanupTimerFires(r))
    /\ \A p \in Persists :
          /\ WF_vars(Acquire(p)) /\ WF_vars(WriteDone(p))
          /\ WF_vars(SaveDone(p)) /\ WF_vars(Release(p))
    /\ WF_vars(RetryTimerFires) /\ WF_vars(StrayTimerFires) /\ WF_vars(LockExpiry)

FairSpec == Spec /\ Fairness

----------------------------------------------------------------------------
(* Properties of every configuration *)

\* Some timer or running call will still store update e of the live room.
Pending(e) ==
    \/ heap[room].persistTimer
    \/ retryTimers > 0
    \/ \E p \in Persists :
          /\ op[p].room = room
          /\ op[p].pc = "lock" \/ (op[p].pc = "write" /\ e \in op[p].snap)

\* An update of the live room that MongoDB has not acknowledged is never
\* forgotten: a debounce timer, a retry timer or a running persistRoom call
\* is there to store it, whatever the interleaving of edits, timers, failed
\* writes, evictions and reloads (schedulePersist, persistRoom).
EditsCovered ==
    room # NoRoom =>
        \A e \in heap[room].doc \ heap[room].written : Pending(e)

\* The cleanup timer a room object holds on to is armed only while no socket
\* is tracked in that object: trackSocketJoin disarms it, trackSocketLeave
\* arms it for an empty room alone.
ArmedMeansEmpty ==
    \A r \in Rooms : heap[r].cleanupTimer => heap[r].sockets = {}

----------------------------------------------------------------------------
(* Properties under a stable lock and quiet cold starts *)

\* The stored document never loses an update: no write puts an older snapshot
\* over a newer one, across retries, evictions, reloads and crashes.
StoredOnlyGrows == [][db \subseteq db']_vars

\* persistRoom calls write one at a time: whoever is past its acquire holds
\* the lock.
WritesSerialized ==
    /\ redis
    /\ \A p \in Persists :
          /\ op[p].pc \in {"write", "save", "unlock"} => op[p].locked /\ lock = p
          /\ op[p].pc = "lock" => ~op[p].locked

\* The running calls all work for one room object, the live one if any.
OneRoomPersisted ==
    \A p \in Persists : Active(p) =>
        /\ room # NoRoom => op[p].room = room
        /\ \A q \in Persists : Active(q) => op[q].room = op[p].room

\* While a handler loads the document nothing else happens to it, so what it
\* has read is what is stored, and its update is not accepted yet.
LoadsAreFresh ==
    \A k \in Sockets : task[k].pc # "idle" =>
        /\ room = NoRoom /\ \A p \in Persists : ~Active(p)
        /\ \A j \in Sockets \ {k} : task[j].pc = "idle"
        /\ task[k].pc = "found" => task[k].seen = db
        /\ task[k].edit \cap accepted = {}

\* The stored document, a snapshot on its way, the room's document and what
\* was accepted are each part of the next.
CopiesOrdered ==
    /\ db \subseteq accepted
    /\ room # NoRoom => /\ db \subseteq heap[room].doc
                        /\ heap[room].doc \subseteq accepted
    /\ \A p \in Persists : Active(p) =>
          /\ db \subseteq heap[op[p].room].doc
          /\ heap[op[p].room].doc \subseteq accepted
          /\ op[p].pc = "write" => /\ db \subseteq op[p].snap
                                   /\ op[p].snap \subseteq heap[op[p].room].doc

\* Why the write-behind store works: calls are serialized and for one room,
\* loads are fresh, so every copy is part of the next fresher one.
StoreInv ==
    WritesSerialized /\ OneRoomPersisted /\ LoadsAreFresh /\ CopiesOrdered

\* Until a write fails or the process stops, every accepted update is stored,
\* in the live room, or in the room of a persistRoom call yet to write it:
\* eviction, which does not wait for its persist, loses nothing.
EditsSurvive ==
    failures = 0 /\ restarts = 0 /\ mode = "up" =>
        \A e \in accepted :
            \/ e \in db
            \/ room # NoRoom /\ e \in heap[room].doc
            \/ \E p \in Persists : /\ op[p].pc \in {"lock", "write"}
                                   /\ e \in heap[op[p].room].doc

\* A running process drops the room from the Map only when no socket is
\* tracked in it, so nobody's live document disappears under them.
EvictOnlyEmpty ==
    [][room # NoRoom /\ room' = NoRoom /\ mode' = "up" /\ restarts' = restarts
         => heap[room].sockets = {}]_vars

\* While nothing fails, one auto-save version is cut per interval and room.
OneSavePerInterval ==
    failures = 0 => \A r \in Rooms : heap[r].cuts <= 1

\* A graceful shutdown during which no write fails has stored all the live
\* room held when the flush began.
ShutdownStores == mode = "down" /\ failures = 0 => flushed \subseteq db

\* What eviction, the flush and the auto-saves may rely on while nothing fails:
\* no accepted update is lost, a shutdown stores what was live, and an interval
\* cuts one version.
StoreSafety == EditsSurvive /\ ShutdownStores /\ OneSavePerInterval

\* An update in the live room is eventually stored, or the room goes away.
EditsEventuallyStored ==
    \A e \in Edits :
        (room # NoRoom /\ e \in heap[room].doc) ~> (e \in db \/ room = NoRoom)

\* A live room with no tracked socket is eventually evicted or joined again.
EmptyRoomEvicted ==
    (room # NoRoom /\ heap[room].sockets = {})
        ~> (room = NoRoom \/ heap[room].sockets # {})

\* The room implements the abstract write-behind store, the stored copy being
\* Document.content.
Abstract == INSTANCE WriteBehind WITH stored <- db
ImplementsWriteBehind == Abstract!Spec
============================================================================
