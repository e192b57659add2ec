-------------------------- MODULE RoomStoreProofs --------------------------
(***************************************************************************)
(* Theorems about RoomStore, for every value of its constants.  With Redis *)
(* always there, locks that outlive their calls and loads that race with   *)
(* nothing, the room implements the write-behind store, for any number of  *)
(* sockets, updates, calls, failures, crashes and restarts; and while      *)
(* nothing fails it loses no update and evicts no room in use.             *)
(***************************************************************************)
EXTENDS RoomStore, TLAPS

(* ----------------------------- Type correctness ------------------------- *)

HeapType == heap \in [Rooms -> RoomState]
OpType == op \in [Persists -> OpState]

\* The rooms of the Map and of the running calls are real ones.
LEMMA RoomInRooms ==
    ASSUME TypeOK, room # NoRoom
    PROVE  room \in Rooms
BY BoundsAssumption DEF TypeOK, Rooms, NoRoom

\* A room object as createRoom makes it is well typed,
LEMMA NewRoomType ==
    ASSUME NEW c \in SUBSET Edits
    PROVE  NewRoom(c) \in RoomState
BY DEF NewRoom, RoomState

\* ... and so are a persistRoom call that does not run,
LEMMA NoOpType == NoOp \in OpState
BY DEF OpState

\* ... one that starts,
LEMMA StartedType ==
    ASSUME NEW r \in Rooms, NEW s \in RoomState
    PROVE  Started(r, s) \in OpState
BY BoundsAssumption DEF Started, OpState, RoomState, Rooms

\* ... and one that ends.
LEMMA EndedType ==
    ASSUME NEW o \in OpState
    PROVE  Ended(o) \in OpState
<1>1. CASE o = NoOp
  BY <1>1, NoOpType DEF Ended, NoOp
<1>2. CASE o \in [pc : {"lock", "write", "save", "unlock"}, room : Rooms,
                 snap : SUBSET Edits, locked : BOOLEAN]
  <2>1. [o EXCEPT !.pc = "unlock"] \in OpState
    BY <1>2 DEF OpState
  <2>2. QED  BY <2>1, NoOpType DEF Ended
<1>3. QED  BY <1>1, <1>2 DEF OpState

\* Starting persistRoom keeps the types,
LEMMA StartPersistType ==
    ASSUME TypeOK, NEW r \in Rooms, NEW s \in RoomState, StartPersist(r, s)
    PROVE  HeapType' /\ OpType'
<1>1. PICK p \in Persists :
        /\ op' = [op EXCEPT ![p] = Started(r, s)]
        /\ heap' = [heap EXCEPT ![r] = [s EXCEPT !.persistTimer = FALSE]]
  BY DEF StartPersist
<1>2. [s EXCEPT !.persistTimer = FALSE] \in RoomState
  BY DEF RoomState
<1>3. QED  BY <1>1, <1>2, StartedType DEF TypeOK, HeapType, OpType

\* ... also when it starts from the room in the Map,
LEMMA PersistLiveRoomType ==
    ASSUME TypeOK, NEW h \in [Rooms -> RoomState], PersistLiveRoom(h)
    PROVE  HeapType' /\ OpType'
<1>1. CASE room = NoRoom
  BY <1>1 DEF PersistLiveRoom, TypeOK, HeapType, OpType
<1>2. CASE room # NoRoom
  <2>1. room \in Rooms /\ h[room] \in RoomState
    BY <1>2, RoomInRooms
  <2>2. PICK p \in Persists :
          /\ op' = [op EXCEPT ![p] = Started(room, h[room])]
          /\ heap' = [h EXCEPT ![room].persistTimer = FALSE]
    BY <1>2 DEF PersistLiveRoom
  <2>3. [h[room] EXCEPT !.persistTimer = FALSE] \in RoomState
    BY <2>1 DEF RoomState
  <2>4. QED  BY <2>1, <2>2, <2>3, StartedType DEF TypeOK, HeapType, OpType
<1>3. QED  BY <1>1, <1>2

\* ... as does applyUpdate with its update listener,
LEMMA ApplyUpdateType ==
    ASSUME TypeOK, NEW r \in Rooms, NEW s \in RoomState, NEW e \in Edits,
           ApplyUpdate(r, s, e)
    PROVE  HeapType' /\ OpType' /\ accepted' \subseteq Edits
<1> DEFINE t == [s EXCEPT !.doc = @ \cup {e}, !.edited = TRUE]
<1>1. t \in RoomState
  BY DEF RoomState
<1>2. SchedulePersist(r, t) /\ accepted' \subseteq Edits
  BY DEF ApplyUpdate, TypeOK
<1>3. CASE StartPersist(r, t)
  BY <1>1, <1>2, <1>3, StartPersistType
<1>4. CASE /\ heap' = [heap EXCEPT ![r] = [t EXCEPT !.persistTimer = TRUE]]
           /\ op' = op
  <2>1. [t EXCEPT !.persistTimer = TRUE] \in RoomState
    BY <1>1 DEF RoomState
  <2>2. QED  BY <1>2, <1>4, <2>1 DEF TypeOK, HeapType, OpType
<1>5. QED  BY <1>2, <1>3, <1>4 DEF SchedulePersist

\* ... trackSocketJoin,
LEMMA TrackJoinType ==
    ASSUME TypeOK, NEW r \in Rooms, NEW s \in RoomState, NEW k \in Sockets,
           TrackJoin(r, s, k)
    PROVE  HeapType' /\ conn' \in [Sockets -> {"out", "in", "gone"}]
<1>1. [s EXCEPT !.sockets = @ \cup {k}, !.cleanupTimer = FALSE] \in RoomState
  BY DEF RoomState
<1>2. QED  BY <1>1 DEF TrackJoin, TypeOK, HeapType

\* One room object changes; nothing is asked of a number that is no room.
LEMMA HeapUpdateType ==
    ASSUME TypeOK, NEW r, NEW s, r \in Rooms => s \in RoomState
    PROVE  [heap EXCEPT ![r] = s] \in [Rooms -> RoomState]
BY DEF TypeOK

\* ... and the progress of one call.
LEMMA OpUpdateType ==
    ASSUME TypeOK, NEW p \in Persists, NEW o \in OpState
    PROVE  [op EXCEPT ![p] = o] \in [Persists -> OpState]
BY DEF TypeOK

\* A server just booted is well typed.
LEMMA TypeInit == Init => TypeOK
<1>1. NewRoom({}) \in RoomState /\ NoTask \in TaskState /\ NoOp \in OpState
  BY NewRoomType, NoOpType DEF NoTask, TaskState
<1>2. QED
  BY <1>1, BoundsAssumption, ModesAssumption DEF Init, TypeOK, NoRoom

\* The parts of the state a socket handler changes.
LEMMA SuspendType ==
    ASSUME TypeOK, NEW k \in Sockets, NEW kind \in {"join", "edit"},
           NEW es \in SUBSET Edits, Suspend(k, kind, es)
    PROVE  task' \in [Sockets -> TaskState]
<1>1. [pc |-> "find", kind |-> kind, edit |-> es, seen |-> {}] \in TaskState
  BY DEF TaskState
<1>2. QED  BY <1>1 DEF Suspend, TypeOK

\* trackSocketLeave, with or without the room, keeps the types.
LEMMA TrackLeaveType ==
    ASSUME TypeOK, NEW k \in Sockets, TrackLeave(k)
    PROVE  HeapType' /\ strayTimers' \in Nat
<1>1. CASE room = NoRoom
  BY <1>1 DEF TrackLeave, TypeOK, HeapType
<1>2. CASE room # NoRoom
  <2>1. room \in Rooms /\ heap[room] \in RoomState
    BY <1>2, RoomInRooms DEF TypeOK
  <2> DEFINE left == heap[room].sockets \ {k}
  <2>2. [heap[room] EXCEPT !.sockets = left] \in RoomState
    BY <2>1 DEF RoomState
  <2>3. [heap[room] EXCEPT !.sockets = left, !.cleanupTimer = TRUE] \in RoomState
    BY <2>1 DEF RoomState
  <2>4. \/ heap' = [heap EXCEPT ![room] = [heap[room] EXCEPT !.sockets = left]]
        \/ heap' = [heap EXCEPT ![room] = [heap[room] EXCEPT !.sockets = left,
                                                    !.cleanupTimer = TRUE]]
    BY <1>2, <2>1 DEF TrackLeave, TypeOK
  <2>5. HeapType'
    BY <2>1, <2>2, <2>3, <2>4, HeapUpdateType DEF HeapType
  <2>6. strayTimers' \in Nat
    BY <1>2 DEF TrackLeave, TypeOK
  <2>7. QED  BY <2>5, <2>6
<1>3. QED  BY <1>1, <1>2

\* Socket handlers keep the types,
LEMMA HandlerType ==
    ASSUME TypeOK, NEW k \in Sockets,
           \/ Join(k) \/ Find(k) \/ Create(k) \/ Leave(k) \/ Disconnect(k)
           \/ \E e \in Edits : Edit(k, e)
    PROVE  TypeOK'
<1>1. CASE Join(k)
  <2>1. CASE room # NoRoom /\ TrackJoin(room, heap[room], k) /\ task' = task
    <3>1. room \in Rooms /\ heap[room] \in RoomState
      BY <2>1, RoomInRooms DEF TypeOK
    <3>2. HeapType' /\ conn' \in [Sockets -> {"out", "in", "gone"}]
      BY <2>1, <3>1, TrackJoinType
    <3>3. QED  BY <1>1, <2>1, <3>2 DEF Join, TypeOK, HeapType
  <2>2. CASE Suspend(k, "join", {}) /\ UNCHANGED <<heap, conn>>
    <3>1. task' \in [Sockets -> TaskState]
      BY <2>2, SuspendType
    <3>2. QED  BY <1>1, <2>2, <3>1 DEF Join, TypeOK
  <2>3. QED  BY <1>1, <2>1, <2>2 DEF Join
<1>2. CASE \E e \in Edits : Edit(k, e)
  <2>0. PICK e \in Edits : Edit(k, e)
    BY <1>2
  <2>1. CASE room # NoRoom /\ ApplyUpdate(room, heap[room], e) /\ task' = task
    <3>1. room \in Rooms /\ heap[room] \in RoomState
      BY <2>1, RoomInRooms DEF TypeOK
    <3>2. HeapType' /\ OpType' /\ accepted' \subseteq Edits
      BY <2>1, <3>1, ApplyUpdateType
    <3>3. QED  BY <2>0, <2>1, <3>2 DEF Edit, TypeOK, HeapType, OpType
  <2>2. CASE Suspend(k, "edit", {e}) /\ UNCHANGED <<heap, op, accepted>>
    <3>1. task' \in [Sockets -> TaskState]
      BY <2>2, SuspendType
    <3>2. QED  BY <2>0, <2>2, <3>1 DEF Edit, TypeOK
  <2>3. QED  BY <2>0, <2>1, <2>2 DEF Edit
<1>3. CASE Find(k)
  <2>1. [task[k] EXCEPT !.pc = "found", !.seen = db] \in TaskState
    BY DEF TypeOK, TaskState
  <2>2. task' = [task EXCEPT ![k] = [task[k] EXCEPT !.pc = "found", !.seen = db]]
    BY <1>3 DEF Find, TypeOK
  <2>3. task' \in [Sockets -> TaskState]
    BY <2>1, <2>2 DEF TypeOK
  <2>4. QED  BY <1>3, <2>3 DEF Find, TypeOK
<1>4. CASE Create(k)
  <2> DEFINE r == born + 1
             s == NewRoom(task[k].seen)
  <2>1. r \in Rooms /\ r \in 0..MaxRooms /\ born' = r /\ room' = r
    BY <1>4, BoundsAssumption DEF Create, TypeOK, Rooms
  <2>2. task[k] \in TaskState /\ s \in RoomState
    BY NewRoomType DEF TypeOK, TaskState
  <2>3. NoTask \in TaskState
    BY DEF NoTask, TaskState
  <2>4. task' \in [Sockets -> TaskState]
    BY <1>4, <2>3 DEF Create, TypeOK
  <2>5. CASE TrackJoin(r, s, k) /\ UNCHANGED <<op, accepted>>
    <3>1. HeapType' /\ conn' \in [Sockets -> {"out", "in", "gone"}]
      BY <2>1, <2>2, <2>5, TrackJoinType
    <3>2. QED
      BY <1>4, <2>1, <2>4, <2>5, <3>1 DEF Create, TypeOK, HeapType
  <2>6. CASE conn' = conn /\ \E e \in task[k].edit : ApplyUpdate(r, s, e)
    <3>1. PICK e \in task[k].edit : ApplyUpdate(r, s, e)
      BY <2>6
    <3>2. e \in Edits
      BY <2>2 DEF TaskState
    <3>3. HeapType' /\ OpType' /\ accepted' \subseteq Edits
      BY <2>1, <2>2, <3>1, <3>2, ApplyUpdateType
    <3>4. QED
      BY <1>4, <2>1, <2>4, <2>6, <3>3 DEF Create, TypeOK, HeapType, OpType
  <2>7. QED  BY <1>4, <2>5, <2>6 DEF Create
<1>5. CASE Leave(k)
  <2>1. HeapType' /\ strayTimers' \in Nat
    BY <1>5, TrackLeaveType DEF Leave
  <2>2. QED  BY <1>5, <2>1 DEF Leave, TypeOK, HeapType
<1>6. CASE Disconnect(k)
  BY <1>6 DEF Disconnect, TypeOK
<1>7. QED  BY <1>1, <1>2, <1>3, <1>4, <1>5, <1>6

\* ... timers do,
LEMMA TimerType ==
    ASSUME TypeOK,
           \/ \E r \in Rooms : \/ PersistTimerFires(r) \/ CleanupTimerFires(r)
                               \/ PersistWindowEnds(r) \/ SaveWindowEnds(r)
           \/ RetryTimerFires \/ StrayTimerFires
    PROVE  TypeOK'
<1>1. ASSUME NEW r \in Rooms, PersistTimerFires(r)
      PROVE  TypeOK'
  <2>1. [heap[r] EXCEPT !.persistTimer = FALSE] \in RoomState
    BY DEF TypeOK, RoomState
  <2>2. [heap EXCEPT ![r] = [heap[r] EXCEPT !.persistTimer = FALSE]]
          \in [Rooms -> RoomState]
    BY <2>1, HeapUpdateType
  <2>3. HeapType' /\ OpType'
    BY <1>1, <2>2, PersistLiveRoomType DEF PersistTimerFires, TypeOK
  <2>4. QED  BY <1>1, <2>3 DEF PersistTimerFires, TypeOK, HeapType, OpType
<1>2. ASSUME NEW r \in Rooms, CleanupTimerFires(r)
      PROVE  TypeOK'
  <2>1. [heap[r] EXCEPT !.cleanupTimer = FALSE] \in RoomState
    BY DEF TypeOK, RoomState
  <2>2. [heap EXCEPT ![r] = [heap[r] EXCEPT !.cleanupTimer = FALSE]]
          \in [Rooms -> RoomState]
    BY <2>1, HeapUpdateType
  <2>3. HeapType' /\ OpType'
    BY <1>2, <2>2, PersistLiveRoomType DEF CleanupTimerFires, TypeOK
  <2>4. room' \in 0..MaxRooms
    BY <1>2, BoundsAssumption DEF CleanupTimerFires, NoRoom
  <2>5. QED  BY <1>2, <2>3, <2>4 DEF CleanupTimerFires, TypeOK, HeapType, OpType
<1>3. ASSUME NEW r \in Rooms, PersistWindowEnds(r)
      PROVE  TypeOK'
  <2>1. [heap[r] EXCEPT !.recentPersist = FALSE] \in RoomState
    BY DEF TypeOK, RoomState
  <2>2. heap' \in [Rooms -> RoomState]
    BY <1>3, <2>1, HeapUpdateType DEF PersistWindowEnds
  <2>3. QED  BY <1>3, <2>2 DEF PersistWindowEnds, TypeOK
<1>4. ASSUME NEW r \in Rooms, SaveWindowEnds(r)
      PROVE  TypeOK'
  <2>1. [heap[r] EXCEPT !.recentSave = FALSE, !.cuts = 0] \in RoomState
    BY DEF TypeOK, RoomState
  <2>2. heap' = [heap EXCEPT ![r] =
                   [heap[r] EXCEPT !.recentSave = FALSE, !.cuts = 0]]
    BY <1>4 DEF SaveWindowEnds, TypeOK
  <2>3. heap' \in [Rooms -> RoomState]
    BY <2>1, <2>2, HeapUpdateType
  <2>4. QED  BY <1>4, <2>3 DEF SaveWindowEnds, TypeOK
<1>5. CASE RetryTimerFires
  <2>1. HeapType' /\ OpType'
    BY <1>5, PersistLiveRoomType DEF RetryTimerFires, TypeOK
  <2>2. retryTimers' \in Nat
    BY <1>5 DEF RetryTimerFires, RetryDue, TypeOK
  <2>3. QED  BY <1>5, <2>1, <2>2 DEF RetryTimerFires, TypeOK, HeapType, OpType
<1>6. CASE StrayTimerFires
  <2>1. HeapType' /\ OpType'
    BY <1>6, PersistLiveRoomType DEF StrayTimerFires, TypeOK
  <2>2. strayTimers' \in Nat /\ room' \in 0..MaxRooms
    BY <1>6, BoundsAssumption DEF StrayTimerFires, TypeOK, NoRoom
  <2>3. QED  BY <1>6, <2>1, <2>2 DEF StrayTimerFires, TypeOK, HeapType, OpType
<1>7. QED  BY <1>1, <1>2, <1>3, <1>4, <1>5, <1>6

\* A running call has a room.
LEMMA ActiveOp ==
    ASSUME TypeOK, NEW p \in Persists, op[p].pc # "idle"
    PROVE  /\ op[p] \in [pc : {"lock", "write", "save", "unlock"},
                          room : Rooms, snap : SUBSET Edits, locked : BOOLEAN]
           /\ heap[op[p].room] \in RoomState
<1>1. op[p] \in OpState /\ op[p] # NoOp
  BY DEF TypeOK, NoOp
<1>2. QED  BY <1>1 DEF OpState, TypeOK

\* ... persistRoom between its awaits does,
LEMMA PersistType ==
    ASSUME TypeOK, NEW p \in Persists,
           \/ Acquire(p) \/ WriteDone(p) \/ SaveDone(p)
           \/ PersistFails(p) \/ Release(p)
    PROVE  TypeOK'
<1> DEFINE r == op[p].room
<1>0. /\ op[p] \in [pc : {"lock", "write", "save", "unlock"},
                     room : Rooms, snap : SUBSET Edits, locked : BOOLEAN]
      /\ heap[r] \in RoomState /\ r \in Rooms
  BY ActiveOp DEF Acquire, WriteDone, SaveDone, PersistFails, Release
<1>0a. op[p] \in OpState /\ Ended(op[p]) \in OpState
  BY EndedType DEF TypeOK
<1>1. CASE Acquire(p)
  <2> DEFINE o == [op[p] EXCEPT !.pc = "write", !.locked = TRUE,
                                !.snap = heap[r].doc]
  <2>1. o \in OpState
    BY <1>0 DEF OpState, RoomState
  <2>2. op' = [op EXCEPT ![p] = o]
    BY <1>1 DEF Acquire, TypeOK
  <2>3. op' \in [Persists -> OpState]
    BY <2>1, <2>2, OpUpdateType
  <2>4. QED  BY <1>1, <2>3 DEF Acquire, TypeOK
<1>2. CASE WriteDone(p)
  <2>1. [heap[r] EXCEPT !.recentPersist = TRUE, !.written = @ \cup op[p].snap]
          \in RoomState
    BY <1>0 DEF RoomState
  <2>2. heap' = [heap EXCEPT ![r] =
                   [heap[r] EXCEPT !.recentPersist = TRUE,
                                   !.written = @ \cup op[p].snap]]
    BY <1>0, <1>2 DEF WriteDone, TypeOK
  <2>3. heap' \in [Rooms -> RoomState]
    BY <2>1, <2>2, HeapUpdateType
  <2>4. [op[p] EXCEPT !.pc = "save"] \in OpState
    BY <1>0 DEF OpState
  <2>5. op' \in [Persists -> OpState]
    BY <1>0a, <1>2, <2>4 DEF WriteDone, TypeOK
  <2>6. db' \subseteq Edits
    BY <1>0, <1>2 DEF WriteDone
  <2>7. QED  BY <1>2, <2>3, <2>5, <2>6 DEF WriteDone, TypeOK
<1>3. CASE SaveDone(p)
  <2>1. [heap[r] EXCEPT !.recentSave = TRUE, !.cuts = @ + 1] \in RoomState
    <3>1. heap[r].cuts + 1 \in Nat
      BY <1>0 DEF RoomState
    <3>2. QED  BY <1>0, <3>1 DEF RoomState
  <2>2. heap' = [heap EXCEPT ![r] =
                   [heap[r] EXCEPT !.recentSave = TRUE, !.cuts = @ + 1]]
    BY <1>0, <1>3 DEF SaveDone, TypeOK, RoomState
  <2>3. heap' \in [Rooms -> RoomState]
    BY <2>1, <2>2, HeapUpdateType
  <2>4. op' \in [Persists -> OpState]
    BY <1>0a, <1>3 DEF SaveDone, TypeOK
  <2>5. QED  BY <1>3, <2>3, <2>4 DEF SaveDone, TypeOK
<1>4. CASE PersistFails(p)
  <2>1. [heap[r] EXCEPT !.cuts = @ + 1] \in RoomState
    BY <1>0 DEF RoomState
  <2>2. [heap EXCEPT ![r] = [heap[r] EXCEPT !.cuts = @ + 1]]
          \in [Rooms -> RoomState]
    BY <2>1, HeapUpdateType
  <2>3. heap' \in [Rooms -> RoomState] /\ db' \subseteq Edits
    BY <1>0, <1>4, <2>2 DEF PersistFails, TypeOK
  <2>4. op' \in [Persists -> OpState]
    BY <1>0a, <1>4 DEF PersistFails, TypeOK
  <2>5. retryTimers' \in Nat /\ failures' \in Nat
    BY <1>4 DEF PersistFails, ArmRetry, TypeOK
  <2>6. QED  BY <1>4, <2>3, <2>4, <2>5 DEF PersistFails, TypeOK
<1>5. CASE Release(p)
  <2>1. op' \in [Persists -> OpState]
    BY <1>5, NoOpType DEF Release, TypeOK
  <2>2. lock' \in Persists \cup {"none"}
    BY <1>5 DEF Release, FreedLock, TypeOK
  <2>3. QED  BY <1>5, <2>1, <2>2 DEF Release, TypeOK
<1>6. QED  BY <1>1, <1>2, <1>3, <1>4, <1>5

\* ... and shutdown, exit and boot do.
LEMMA StopType ==
    ASSUME TypeOK, Flush \/ FlushDone \/ Restart \/ LockExpiry \/ RedisChanges
    PROVE  TypeOK'
<1>1. CASE Flush
  <2>1. CASE room = NoRoom
    BY <1>1, <2>1 DEF Flush, TypeOK
  <2>2. CASE room # NoRoom
    <3>1. room \in Rooms /\ heap[room] \in RoomState
      BY <2>2, RoomInRooms DEF TypeOK
    <3>2. [heap[room] EXCEPT !.persistTimer = FALSE] \in RoomState
      BY <3>1 DEF RoomState
    <3>3. heap' = [heap EXCEPT ![room] = [heap[room] EXCEPT !.persistTimer = FALSE]]
      BY <1>1, <2>2, <3>1 DEF Flush, TypeOK
    <3>3a. heap' \in [Rooms -> RoomState]
      BY <3>1, <3>2, <3>3 DEF TypeOK
    <3>4. flushed' \subseteq Edits
      BY <1>1, <2>2, <3>1 DEF Flush, RoomState
    <3>5. op' \in [Persists -> OpState] /\ flushOp' \in Persists
      BY <1>1, <2>2, <3>1, StartedType DEF Flush, TypeOK
    <3>6. QED  BY <1>1, <3>3a, <3>4, <3>5 DEF Flush, TypeOK
  <2>3. QED  BY <2>1, <2>2
<1>2. CASE FlushDone
  <2>1. \A r \in Rooms :
          [heap[r] EXCEPT !.persistTimer = FALSE, !.cleanupTimer = FALSE]
            \in RoomState
    BY DEF TypeOK, RoomState
  <2>2. heap' \in [Rooms -> RoomState]
    BY <1>2, <2>1 DEF FlushDone, TypeOK
  <2>3. room' \in 0..MaxRooms
    <3>1. room' = NoRoom
      BY <1>2 DEF FlushDone
    <3>2. QED  BY <3>1, BoundsAssumption DEF NoRoom
  <2>4. QED  BY <1>2, <2>2, <2>3 DEF FlushDone, TypeOK
<1>3. CASE Restart
  <2>1. NewRoom({}) \in RoomState /\ NoTask \in TaskState /\ NoOp \in OpState
    BY NewRoomType, NoOpType DEF NoTask, TaskState
  <2>2. \A p \in Persists : op[p].pc = "write" => op[p].snap \subseteq Edits
    BY ActiveOp
  <2>3. db' \subseteq Edits
    BY <1>3, <2>2 DEF Restart, TypeOK
  <2>4. room' \in 0..MaxRooms /\ restarts' \in Nat
    BY <1>3, BoundsAssumption DEF Restart, TypeOK, NoRoom
  <2>5. QED  BY <1>3, <2>1, <2>3, <2>4 DEF Restart, TypeOK
<1>4. CASE LockExpiry
  BY <1>4 DEF LockExpiry, TypeOK
<1>5. CASE RedisChanges
  BY <1>5, ModesAssumption DEF RedisChanges, TypeOK
<1>6. QED  BY <1>1, <1>2, <1>3, <1>4, <1>5

\* Every step keeps the types.
LEMMA TypeStep == TypeOK /\ [Next]_vars => TypeOK'
<1> SUFFICES ASSUME TypeOK, [Next]_vars
             PROVE  TypeOK'
  OBVIOUS
<1>1. CASE Next
  BY <1>1, HandlerType, TimerType, PersistType, StopType DEF Next
<1>2. CASE UNCHANGED vars
  BY <1>2 DEF vars, TypeOK
<1>3. QED  BY <1>1, <1>2

\* Every reachable state is well typed, whatever the number of sockets,
\* updates, persistRoom calls and room objects.
THEOREM TypeCorrect == Spec => []TypeOK
<1>1. Init => TypeOK
  BY TypeInit
<1>2. TypeOK /\ [Next]_vars => TypeOK'
  BY TypeStep
<1>3. QED  BY <1>1, <1>2, PTL DEF Spec

(* ------------------- Nothing unstored is forgotten ---------------------- *)

\* A step that starts a call for the live room covers its whole document.
LEMMA CallCovers ==
    ASSUME NEW p \in Persists,
           room' # NoRoom =>
             /\ op'[p].room = room'
             /\ \/ op'[p].pc = "lock"
                \/ op'[p].pc = "write" /\ heap'[room'].doc \subseteq op'[p].snap
    PROVE  EditsCovered'
BY DEF EditsCovered, Pending

\* A step that leaves the live document, its timer and the calls alone.
LEMMA CoverKept ==
    ASSUME TypeOK, TypeOK', EditsCovered,
           room' # NoRoom =>
             /\ room' = room
             /\ heap'[room].doc = heap[room].doc
             /\ heap[room].written \subseteq heap'[room].written
             /\ heap'[room].persistTimer = heap[room].persistTimer
             /\ retryTimers' >= retryTimers
             /\ op' = op
    PROVE  EditsCovered'
<1> SUFFICES ASSUME room' # NoRoom,
                    NEW e \in (heap[room].doc \ heap[room].written)
             PROVE  Pending(e)'
  BY DEF EditsCovered
<1>1. room # NoRoom /\ Pending(e)
  BY DEF EditsCovered
<1>2. CASE heap[room].persistTimer
  BY <1>2 DEF Pending
<1>3. CASE retryTimers > 0
  BY <1>3 DEF Pending, TypeOK
<1>4. CASE \E p \in Persists :
             /\ op[p].room = room
             /\ op[p].pc = "lock" \/ (op[p].pc = "write" /\ e \in op[p].snap)
  BY <1>4 DEF Pending
<1>5. QED  BY <1>1, <1>2, <1>3, <1>4 DEF Pending

\* A timer that fires for the live room leaves a call that covers it.
LEMMA PersistLiveRoomCovers ==
    ASSUME TypeOK, NEW h \in [Rooms -> RoomState], PersistLiveRoom(h),
           room' \in {room, NoRoom}
    PROVE  EditsCovered'
<1>1. CASE room = NoRoom
  BY <1>1 DEF EditsCovered
<1>2. CASE room # NoRoom
  <2>1. room \in Rooms /\ h[room] \in RoomState
    BY <1>2, RoomInRooms
  <2>2. PICK p \in Persists :
          /\ op' = [op EXCEPT ![p] = Started(room, h[room])]
          /\ heap' = [h EXCEPT ![room].persistTimer = FALSE]
    BY <1>2 DEF PersistLiveRoom
  <2>3. heap'[room].doc = h[room].doc /\ op'[p] = Started(room, h[room])
    BY <2>1, <2>2 DEF TypeOK, RoomState
  <2>4. QED  BY <2>3, CallCovers DEF Started
<1>3. QED  BY <1>1, <1>2

\* An update enters the room with a timer or a call.
LEMMA ApplyUpdateCovers ==
    ASSUME TypeOK, NEW r \in Rooms, NEW s \in RoomState, NEW e \in Edits,
           ApplyUpdate(r, s, e), room' = r
    PROVE  EditsCovered'
<1> DEFINE t == [s EXCEPT !.doc = @ \cup {e}, !.edited = TRUE]
<1>1. t \in RoomState
  BY DEF RoomState
<1>2. CASE StartPersist(r, t)
  <2>1. PICK p \in Persists :
          /\ op' = [op EXCEPT ![p] = Started(r, t)]
          /\ heap' = [heap EXCEPT ![r] = [t EXCEPT !.persistTimer = FALSE]]
    BY <1>2 DEF StartPersist
  <2>2. heap'[r].doc = t.doc /\ op'[p] = Started(r, t)
    BY <1>1, <2>1 DEF TypeOK, RoomState
  <2>3. QED  BY <2>2, CallCovers DEF Started
<1>3. CASE heap' = [heap EXCEPT ![r] = [t EXCEPT !.persistTimer = TRUE]]
  <2>1. heap'[r].persistTimer
    BY <1>1, <1>3 DEF TypeOK, RoomState
  <2>2. QED  BY <2>1 DEF EditsCovered, Pending
<1>4. QED  BY <1>2, <1>3 DEF ApplyUpdate, SchedulePersist

\* Socket handlers leave every update of the live room covered,
LEMMA HandlerCovers ==
    ASSUME TypeOK, TypeOK', EditsCovered, NEW k \in Sockets,
           \/ Join(k) \/ Find(k) \/ Create(k) \/ Leave(k) \/ Disconnect(k)
           \/ \E e \in Edits : Edit(k, e)
    PROVE  EditsCovered'
<1>1. CASE Join(k)
  <2>1. CASE room # NoRoom /\ TrackJoin(room, heap[room], k)
    <3>1. room \in Rooms /\ heap[room] \in RoomState
      BY <2>1, RoomInRooms DEF TypeOK
    <3>2. heap'[room] = [heap[room] EXCEPT !.sockets = @ \cup {k},
                                           !.cleanupTimer = FALSE]
      BY <2>1, <3>1 DEF TrackJoin, TypeOK
    <3>3. QED  BY <1>1, <3>1, <3>2, CoverKept DEF Join, RoomState, TypeOK
  <2>2. CASE UNCHANGED heap
    BY <1>1, <2>2, CoverKept DEF Join, TypeOK
  <2>3. QED  BY <1>1, <2>1, <2>2 DEF Join
<1>2. CASE \E e \in Edits : Edit(k, e)
  <2>0. PICK e \in Edits : Edit(k, e)
    BY <1>2
  <2>1. CASE room # NoRoom /\ ApplyUpdate(room, heap[room], e)
    <3>1. room \in Rooms /\ heap[room] \in RoomState /\ room' = room
      BY <2>0, <2>1, RoomInRooms DEF TypeOK, Edit
    <3>2. QED  BY <2>1, <3>1, ApplyUpdateCovers
  <2>2. CASE room = NoRoom
    BY <2>0, <2>2 DEF Edit, EditsCovered
  <2>3. QED  BY <2>0, <2>1, <2>2 DEF Edit
<1>3. CASE Find(k)
  BY <1>3, CoverKept DEF Find, TypeOK
<1>4. CASE Create(k)
  <2> DEFINE r == born + 1
             s == NewRoom(task[k].seen)
  <2>1. r \in Rooms /\ room' = r
    BY <1>4, BoundsAssumption DEF Create, TypeOK, Rooms
  <2>2. task[k] \in TaskState /\ s \in RoomState
    BY NewRoomType DEF TypeOK, TaskState
  <2>3. CASE TrackJoin(r, s, k)
    <3>1. heap'[r] = [s EXCEPT !.sockets = @ \cup {k}, !.cleanupTimer = FALSE]
      BY <2>1, <2>3 DEF TrackJoin, TypeOK
    <3>2. heap'[r].doc = heap'[r].written
      BY <2>2, <3>1 DEF NewRoom
    <3>3. QED  BY <2>1, <3>2 DEF EditsCovered
  <2>4. CASE \E e \in task[k].edit : ApplyUpdate(r, s, e)
    <3>1. PICK e \in task[k].edit : ApplyUpdate(r, s, e)
      BY <2>4
    <3>2. e \in Edits
      BY <2>2 DEF TaskState
    <3>3. QED  BY <2>1, <2>2, <3>1, <3>2, ApplyUpdateCovers
  <2>5. QED  BY <1>4, <2>3, <2>4 DEF Create
<1>5. CASE Leave(k)
  <2>1. CASE room = NoRoom
    BY <1>5, <2>1 DEF Leave, EditsCovered
  <2>2. CASE room # NoRoom
    <3>1. room \in Rooms /\ heap[room] \in RoomState
      BY <2>2, RoomInRooms DEF TypeOK
    <3>2. /\ heap'[room].doc = heap[room].doc
          /\ heap'[room].written = heap[room].written
          /\ heap'[room].persistTimer = heap[room].persistTimer
      BY <1>5, <2>2, <3>1 DEF Leave, TrackLeave, RoomState, TypeOK
    <3>3. QED  BY <1>5, <3>2, CoverKept DEF Leave, TypeOK
  <2>3. QED  BY <2>1, <2>2
<1>6. CASE Disconnect(k)
  BY <1>6, CoverKept DEF Disconnect, TypeOK
<1>7. QED  BY <1>1, <1>2, <1>3, <1>4, <1>5, <1>6

\* ... timers do,
LEMMA TimerCovers ==
    ASSUME TypeOK, TypeOK', EditsCovered,
           \/ \E r \in Rooms : \/ PersistTimerFires(r) \/ CleanupTimerFires(r)
                               \/ PersistWindowEnds(r) \/ SaveWindowEnds(r)
           \/ RetryTimerFires \/ StrayTimerFires
    PROVE  EditsCovered'
<1>1. ASSUME NEW r \in Rooms, PersistTimerFires(r)
      PROVE  EditsCovered'
  <2>1. [heap[r] EXCEPT !.persistTimer = FALSE] \in RoomState
    BY DEF TypeOK, RoomState
  <2>2. [heap EXCEPT ![r].persistTimer = FALSE] \in [Rooms -> RoomState]
    BY <2>1 DEF TypeOK
  <2>3. QED  BY <1>1, <2>2, PersistLiveRoomCovers DEF PersistTimerFires
<1>2. ASSUME NEW r \in Rooms, CleanupTimerFires(r)
      PROVE  EditsCovered'
  BY <1>2 DEF CleanupTimerFires, EditsCovered
<1>3. ASSUME NEW r \in Rooms, PersistWindowEnds(r) \/ SaveWindowEnds(r)
      PROVE  EditsCovered'
  <2>1. \A q \in Rooms : /\ heap'[q].doc = heap[q].doc
                         /\ heap'[q].written = heap[q].written
                         /\ heap'[q].persistTimer = heap[q].persistTimer
    BY <1>3 DEF PersistWindowEnds, SaveWindowEnds, TypeOK, RoomState
  <2>2. room' = room /\ op' = op /\ retryTimers' = retryTimers
    BY <1>3 DEF PersistWindowEnds, SaveWindowEnds
  <2>3. QED  BY <2>1, <2>2, CoverKept, RoomInRooms DEF TypeOK
<1>4. CASE RetryTimerFires
  BY <1>4, PersistLiveRoomCovers DEF RetryTimerFires, TypeOK
<1>5. CASE StrayTimerFires
  BY <1>5 DEF StrayTimerFires, EditsCovered
<1>6. QED  BY <1>1, <1>2, <1>3, <1>4, <1>5

\* ... persistRoom does when it is acknowledged, fails or ends,
LEMMA PersistCovers ==
    ASSUME TypeOK, TypeOK', EditsCovered, NEW p \in Persists,
           \/ Acquire(p) \/ WriteDone(p) \/ SaveDone(p)
           \/ PersistFails(p) \/ Release(p)
    PROVE  EditsCovered'
<1> DEFINE r == op[p].room
<1> SUFFICES ASSUME room' # NoRoom,
                    NEW e \in (heap'[room'].doc \ heap'[room'].written)
             PROVE  Pending(e)'
  BY DEF EditsCovered
<1>0. /\ room' = room /\ room \in Rooms /\ heap[room] \in RoomState
      /\ r \in Rooms /\ heap[r] \in RoomState
  BY ActiveOp, RoomInRooms
     DEF Acquire, WriteDone, SaveDone, PersistFails, Release, TypeOK
<1>1. heap'[room].doc = heap[room].doc
  BY <1>0 DEF Acquire, WriteDone, SaveDone, PersistFails, Release, TypeOK, RoomState
<1>2. heap'[room].persistTimer = heap[room].persistTimer
  BY <1>0 DEF Acquire, WriteDone, SaveDone, PersistFails, Release, TypeOK, RoomState
<1>3. heap[room].written \subseteq heap'[room].written
  BY <1>0 DEF Acquire, WriteDone, SaveDone, PersistFails, Release, TypeOK, RoomState
<1>4. Pending(e)
  BY <1>0, <1>1, <1>3 DEF EditsCovered
<1>5. retryTimers > 0 => retryTimers' > 0
  BY DEF Acquire, WriteDone, SaveDone, PersistFails, Release, ArmRetry, TypeOK
<1>6. ASSUME NEW q \in Persists, op[q].room = room,
             op[q].pc = "lock" \/ (op[q].pc = "write" /\ e \in op[q].snap)
      PROVE  Pending(e)'
  <2>1. CASE q # p
    <3>1. op'[q] = op[q]
      BY <2>1 DEF Acquire, WriteDone, SaveDone, PersistFails, Release, TypeOK
    <3>2. QED  BY <1>0, <1>6, <3>1 DEF Pending
  <2>2. CASE q = p /\ Acquire(p)
    <3>1. /\ op'[p].room = room /\ op'[p].pc = "write"
          /\ op'[p].snap = heap[room].doc
      BY <1>6, <2>2, ActiveOp DEF Acquire, TypeOK
    <3>2. QED  BY <1>0, <1>1, <3>1 DEF Pending
  <2>3. CASE q = p /\ WriteDone(p)
    <3>1. e \in op[p].snap
      BY <1>6, <2>3 DEF WriteDone
    <3>2. heap'[room].written = heap[room].written \cup op[p].snap
      BY <1>0, <1>6, <2>3 DEF WriteDone, TypeOK, RoomState
    <3>3. QED  BY <1>0, <3>1, <3>2
  <2>4. CASE q = p /\ PersistFails(p)
    <3>1. retryTimers' > 0
      BY <2>4 DEF PersistFails, ArmRetry, TypeOK
    <3>2. QED  BY <3>1 DEF Pending
  <2>5. CASE q = p /\ (SaveDone(p) \/ Release(p))
    BY <1>6, <2>5 DEF SaveDone, Release
  <2>6. QED  BY <2>1, <2>2, <2>3, <2>4, <2>5
<1>7. QED  BY <1>0, <1>2, <1>4, <1>5, <1>6 DEF Pending

\* ... and shutdown, exit and boot do.
LEMMA StopCovers ==
    ASSUME TypeOK, TypeOK', EditsCovered,
           Flush \/ FlushDone \/ Restart \/ LockExpiry \/ RedisChanges
    PROVE  EditsCovered'
<1>1. CASE Flush
  <2>1. CASE room = NoRoom
    BY <1>1, <2>1 DEF Flush, EditsCovered
  <2>2. CASE room # NoRoom
    <3>1. room \in Rooms /\ heap[room] \in RoomState
      BY <2>2, RoomInRooms DEF TypeOK
    <3>2. PICK p \in Persists :
            op' = [op EXCEPT ![p] = Started(room, heap[room])]
      BY <1>1, <2>2 DEF Flush
    <3>3. op'[p] = Started(room, heap[room]) /\ room' = room
      BY <1>1, <3>2 DEF Flush, TypeOK
    <3>4. heap'[room].doc = heap[room].doc
      BY <1>1, <2>2, <3>1 DEF Flush, TypeOK, RoomState
    <3>5. QED  BY <3>3, <3>4, CallCovers DEF Started
  <2>3. QED  BY <2>1, <2>2
<1>2. CASE FlushDone
  BY <1>2 DEF FlushDone, EditsCovered
<1>3. CASE Restart
  BY <1>3 DEF Restart, EditsCovered
<1>4. CASE LockExpiry \/ RedisChanges
  BY <1>4, CoverKept DEF LockExpiry, RedisChanges, TypeOK
<1>5. QED  BY <1>1, <1>2, <1>3, <1>4

\* An update of the live room that MongoDB has not acknowledged always has a
\* timer or a running call that will store it: for any number of sockets and
\* calls, with or without Redis, whatever fails and whatever races.
THEOREM NothingForgotten == Spec => []EditsCovered
<1>1. Init => EditsCovered
  BY DEF Init, EditsCovered
<1>2. TypeOK /\ TypeOK' /\ EditsCovered /\ [Next]_vars => EditsCovered'
  <2> SUFFICES ASSUME TypeOK, TypeOK', EditsCovered, [Next]_vars
               PROVE  EditsCovered'
    OBVIOUS
  <2>1. CASE Next
    BY <2>1, HandlerCovers, TimerCovers, PersistCovers, StopCovers DEF Next
  <2>2. CASE UNCHANGED vars
    BY <2>2, CoverKept DEF vars, TypeOK
  <2>3. QED  BY <2>1, <2>2
<1>3. QED  BY <1>1, <1>2, TypeCorrect, PTL DEF Spec

(* ------------------- Cleanup timers and tracked sockets ----------------- *)

\* A step that, room by room, keeps both fields, disarms the timer, or
\* tracks nobody.
LEMMA ArmedKept ==
    ASSUME ArmedMeansEmpty,
           \A r \in Rooms : \/ ~heap'[r].cleanupTimer
                            \/ heap'[r].sockets = {}
                            \/ /\ heap'[r].cleanupTimer = heap[r].cleanupTimer
                               /\ heap'[r].sockets = heap[r].sockets
    PROVE  ArmedMeansEmpty'
BY DEF ArmedMeansEmpty

\* A persist started by a timer changes neither field.
LEMMA PersistLiveRoomArmed ==
    ASSUME TypeOK, NEW h \in [Rooms -> RoomState], PersistLiveRoom(h)
    PROVE  \A r \in Rooms : /\ heap'[r].cleanupTimer = h[r].cleanupTimer
                            /\ heap'[r].sockets = h[r].sockets
BY DEF PersistLiveRoom, RoomState

\* applyUpdate leaves the cleanup timer alone.
LEMMA ApplyUpdateArmed ==
    ASSUME TypeOK, NEW r \in Rooms, NEW s \in RoomState, NEW e \in Edits,
           ApplyUpdate(r, s, e)
    PROVE  /\ heap'[r].cleanupTimer = s.cleanupTimer
           /\ heap'[r].sockets = s.sockets
           /\ \A q \in Rooms \ {r} : heap'[q] = heap[q]
<1> DEFINE t == [s EXCEPT !.doc = @ \cup {e}, !.edited = TRUE]
<1>1. t \in RoomState /\ t.cleanupTimer = s.cleanupTimer /\ t.sockets = s.sockets
  BY DEF RoomState
<1>2. \/ heap' = [heap EXCEPT ![r] = [t EXCEPT !.persistTimer = FALSE]]
      \/ heap' = [heap EXCEPT ![r] = [t EXCEPT !.persistTimer = TRUE]]
  BY DEF ApplyUpdate, SchedulePersist, StartPersist
<1>3. heap'[r] \in {[t EXCEPT !.persistTimer = FALSE],
                    [t EXCEPT !.persistTimer = TRUE]}
  BY <1>2 DEF TypeOK
<1>4. QED  BY <1>1, <1>2, <1>3 DEF TypeOK, RoomState

\* Socket handlers arm the cleanup timer of an empty room only,
LEMMA HandlerArmed ==
    ASSUME TypeOK, ArmedMeansEmpty, NEW k \in Sockets,
           \/ Join(k) \/ Find(k) \/ Create(k) \/ Leave(k) \/ Disconnect(k)
           \/ \E e \in Edits : Edit(k, e)
    PROVE  ArmedMeansEmpty'
<1>1. CASE Join(k)
  <2>1. CASE room # NoRoom /\ TrackJoin(room, heap[room], k)
    <3>1. room \in Rooms /\ heap[room] \in RoomState
      BY <2>1, RoomInRooms DEF TypeOK
    <3>2. ~heap'[room].cleanupTimer
      BY <2>1, <3>1 DEF TrackJoin, TypeOK, RoomState
    <3>3. \A q \in Rooms \ {room} : heap'[q] = heap[q]
      BY <2>1, <3>1 DEF TrackJoin, TypeOK
    <3>4. QED  BY <3>2, <3>3, ArmedKept
  <2>2. CASE heap' = heap
    BY <2>2, ArmedKept
  <2>3. QED  BY <1>1, <2>1, <2>2 DEF Join
<1>2. CASE \E e \in Edits : Edit(k, e)
  <2>0. PICK e \in Edits : Edit(k, e)
    BY <1>2
  <2>1. CASE room # NoRoom /\ ApplyUpdate(room, heap[room], e)
    <3>1. room \in Rooms /\ heap[room] \in RoomState
      BY <2>1, RoomInRooms DEF TypeOK
    <3>2. QED  BY <2>1, <3>1, ApplyUpdateArmed, ArmedKept
  <2>2. CASE heap' = heap
    BY <2>2, ArmedKept
  <2>3. QED  BY <2>0, <2>1, <2>2 DEF Edit
<1>3. CASE Create(k)
  <2> DEFINE r == born + 1
             s == NewRoom(task[k].seen)
  <2>1. r \in Rooms /\ task[k] \in TaskState /\ s \in RoomState
    BY <1>3, BoundsAssumption, NewRoomType DEF Create, TypeOK, Rooms, TaskState
  <2>2. s.cleanupTimer = FALSE
    BY DEF NewRoom
  <2>3. CASE TrackJoin(r, s, k)
    BY <2>1, <2>2, <2>3, ArmedKept DEF TrackJoin, TypeOK, RoomState
  <2>4. CASE \E e \in task[k].edit : ApplyUpdate(r, s, e)
    <3>1. PICK e \in task[k].edit : ApplyUpdate(r, s, e)
      BY <2>4
    <3>2. e \in Edits
      BY <2>1 DEF TaskState
    <3>3. /\ heap'[r].cleanupTimer = FALSE
          /\ \A q \in Rooms \ {r} : heap'[q] = heap[q]
      BY <2>1, <2>2, <3>1, <3>2, ApplyUpdateArmed
    <3>4. QED  BY <3>3, ArmedKept
  <2>5. QED  BY <1>3, <2>3, <2>4 DEF Create
<1>4. CASE Leave(k)
  <2>1. CASE room = NoRoom
    BY <1>4, <2>1, ArmedKept DEF Leave, TrackLeave
  <2>2. CASE room # NoRoom
    <3>1. room \in Rooms /\ heap[room] \in RoomState
      BY <2>2, RoomInRooms DEF TypeOK
    <3> DEFINE left == heap[room].sockets \ {k}
    <3>2. CASE left # {}
      <4>1. ~heap[room].cleanupTimer
        BY <3>1, <3>2 DEF ArmedMeansEmpty
      <4>2. heap' = [heap EXCEPT ![room] = [heap[room] EXCEPT !.sockets = left]]
        BY <1>4, <2>2, <3>1, <3>2 DEF Leave, TrackLeave, TypeOK
      <4>3. QED  BY <3>1, <4>1, <4>2, ArmedKept DEF TypeOK, RoomState
    <3>3. CASE left = {}
      <4>1. heap' = [heap EXCEPT ![room] =
                       [heap[room] EXCEPT !.sockets = left, !.cleanupTimer = TRUE]]
        BY <1>4, <2>2, <3>1, <3>3 DEF Leave, TrackLeave, TypeOK
      <4>2. heap'[room].sockets = {}
        BY <3>1, <3>3, <4>1 DEF TypeOK, RoomState
      <4>3. QED  BY <3>1, <4>1, <4>2, ArmedKept DEF TypeOK
    <3>4. QED  BY <3>2, <3>3
  <2>3. QED  BY <2>1, <2>2
<1>5. CASE Find(k) \/ Disconnect(k)
  BY <1>5, ArmedKept DEF Find, Disconnect
<1>6. QED  BY <1>1, <1>2, <1>3, <1>4, <1>5

\* ... timers never arm it for a room in use,
LEMMA TimerArmed ==
    ASSUME TypeOK, ArmedMeansEmpty,
           \/ \E r \in Rooms : \/ PersistTimerFires(r) \/ CleanupTimerFires(r)
                               \/ PersistWindowEnds(r) \/ SaveWindowEnds(r)
           \/ RetryTimerFires \/ StrayTimerFires
    PROVE  ArmedMeansEmpty'
<1>1. ASSUME NEW r \in Rooms, PersistTimerFires(r)
      PROVE  ArmedMeansEmpty'
  <2> DEFINE h == [heap EXCEPT ![r].persistTimer = FALSE]
  <2>1. h \in [Rooms -> RoomState]
    <3>1. [heap[r] EXCEPT !.persistTimer = FALSE] \in RoomState
      BY DEF TypeOK, RoomState
    <3>2. QED  BY <3>1 DEF TypeOK
  <2>2. \A q \in Rooms : /\ h[q].cleanupTimer = heap[q].cleanupTimer
                         /\ h[q].sockets = heap[q].sockets
    BY DEF TypeOK, RoomState
  <2>3. PersistLiveRoom(h)
    BY <1>1 DEF PersistTimerFires
  <2>4. QED  BY <2>1, <2>2, <2>3, PersistLiveRoomArmed, ArmedKept
<1>2. ASSUME NEW r \in Rooms, CleanupTimerFires(r)
      PROVE  ArmedMeansEmpty'
  <2> DEFINE h == [heap EXCEPT ![r].cleanupTimer = FALSE]
  <2>1. h \in [Rooms -> RoomState]
    <3>1. [heap[r] EXCEPT !.cleanupTimer = FALSE] \in RoomState
      BY DEF TypeOK, RoomState
    <3>2. QED  BY <3>1 DEF TypeOK
  <2>2. \A q \in Rooms : \/ ~h[q].cleanupTimer
                         \/ /\ h[q].cleanupTimer = heap[q].cleanupTimer
                            /\ h[q].sockets = heap[q].sockets
    BY DEF TypeOK, RoomState
  <2>3. PersistLiveRoom(h)
    BY <1>2 DEF CleanupTimerFires
  <2>4. QED  BY <2>1, <2>2, <2>3, PersistLiveRoomArmed, ArmedKept
<1>3. ASSUME NEW r \in Rooms, PersistWindowEnds(r) \/ SaveWindowEnds(r)
      PROVE  ArmedMeansEmpty'
  BY <1>3, ArmedKept DEF PersistWindowEnds, SaveWindowEnds, TypeOK, RoomState
<1>4. CASE RetryTimerFires \/ StrayTimerFires
  <2>1. PersistLiveRoom(heap) /\ heap \in [Rooms -> RoomState]
    BY <1>4 DEF RetryTimerFires, StrayTimerFires, TypeOK
  <2>2. QED  BY <2>1, PersistLiveRoomArmed, ArmedKept
<1>5. QED  BY <1>1, <1>2, <1>3, <1>4

\* ... persistRoom leaves it alone,
LEMMA PersistArmed ==
    ASSUME TypeOK, ArmedMeansEmpty, NEW p \in Persists,
           \/ Acquire(p) \/ WriteDone(p) \/ SaveDone(p)
           \/ PersistFails(p) \/ Release(p)
    PROVE  ArmedMeansEmpty'
<1>1. op[p].room \in Rooms
  BY ActiveOp DEF Acquire, WriteDone, SaveDone, PersistFails, Release
<1>2. \A r \in Rooms : /\ heap'[r].cleanupTimer = heap[r].cleanupTimer
                       /\ heap'[r].sockets = heap[r].sockets
  BY <1>1 DEF Acquire, WriteDone, SaveDone, PersistFails, Release, TypeOK, RoomState
<1>3. QED  BY <1>2, ArmedKept

\* ... and shutdown, exit and boot leave no timer.
LEMMA StopArmed ==
    ASSUME TypeOK, ArmedMeansEmpty,
           Flush \/ FlushDone \/ Restart \/ LockExpiry \/ RedisChanges
    PROVE  ArmedMeansEmpty'
<1>1. CASE Flush
  BY <1>1, ArmedKept, RoomInRooms DEF Flush, TypeOK, RoomState
<1>2. CASE FlushDone
  BY <1>2, ArmedKept DEF FlushDone, TypeOK, RoomState
<1>3. CASE Restart
  BY <1>3 DEF Restart, ArmedMeansEmpty, NewRoom
<1>4. CASE LockExpiry \/ RedisChanges
  BY <1>4, ArmedKept DEF LockExpiry, RedisChanges
<1>5. QED  BY <1>1, <1>2, <1>3, <1>4

\* A room object's own cleanup timer is never armed while a socket is tracked
\* in it, for any interleaving of joins, leaves, timers and reloads.
THEOREM TimersRespectSockets == Spec => []ArmedMeansEmpty
<1>1. Init => ArmedMeansEmpty
  BY DEF Init, ArmedMeansEmpty, NewRoom
<1>2. TypeOK /\ ArmedMeansEmpty /\ [Next]_vars => ArmedMeansEmpty'
  <2> SUFFICES ASSUME TypeOK, ArmedMeansEmpty, [Next]_vars
               PROVE  ArmedMeansEmpty'
    OBVIOUS
  <2>1. CASE Next
    BY <2>1, HandlerArmed, TimerArmed, PersistArmed, StopArmed DEF Next
  <2>2. CASE UNCHANGED vars
    BY <2>2, ArmedKept DEF vars
  <2>3. QED  BY <2>1, <2>2
<1>3. QED  BY <1>1, <1>2, TypeCorrect, PTL DEF Spec

-----------------------------------------------------------------------------
(* Under a stable lock. *)

StableLock == QuietColdStart /\ RedisModes = {TRUE} /\ ~LockExpires

(* Steps in which only the Map, timers or tracked sockets change. *)
LEMMA FrameStep ==
    ASSUME TypeOK, StoreInv, room' \in {room, NoRoom},
           UNCHANGED <<op, lock, redis, db, accepted, task>>,
           \A r \in Rooms : heap'[r].doc = heap[r].doc
    PROVE  StoreInv'
<1>1. WritesSerialized'
  BY DEF StoreInv, WritesSerialized
<1>2. OneRoomPersisted'
  BY DEF StoreInv, OneRoomPersisted, Active
<1>3. LoadsAreFresh'
  BY DEF StoreInv, LoadsAreFresh, Active
<1>4. CopiesOrdered'
  <2>1. \A p \in Persists : Active(p) => op[p].room \in Rooms
    BY ActiveOp DEF Active
  <2>2. QED  BY <2>1, RoomInRooms DEF StoreInv, CopiesOrdered, Active
<1>5. QED  BY <1>1, <1>2, <1>3, <1>4 DEF StoreInv

(* Steps on a live room: its document may grow, a call for it may start, and
   it may leave the Map. *)
LEMMA LiveRoomStep ==
    ASSUME TypeOK, StoreInv, room # NoRoom, room' \in {room, NoRoom},
           UNCHANGED <<lock, redis, db, task>>,
           \/ op' = op
           \/ \E p \in Persists :
                 /\ ~Active(p)
                 /\ op' = [op EXCEPT ![p] = [pc |-> "lock", room |-> room,
                                             snap |-> {}, locked |-> FALSE]],
           \A r \in Rooms \ {room} : heap'[r].doc = heap[r].doc,
           heap[room].doc \subseteq heap'[room].doc,
           heap'[room].doc \subseteq accepted',
           accepted \subseteq accepted'
    PROVE  StoreInv'
<1>1. room \in Rooms
  BY RoomInRooms
<1>2. ASSUME NEW q \in Persists, Active(q)'
      PROVE  \/ op'[q] = op[q] /\ Active(q)
             \/ op'[q] = [pc |-> "lock", room |-> room,
                          snap |-> {}, locked |-> FALSE]
  BY <1>2 DEF Active, TypeOK
<1>3. \A q \in Persists : Active(q)' => op'[q].room = room
  BY <1>2 DEF StoreInv, OneRoomPersisted
<1>4. WritesSerialized'
  <2>1. \A q \in Persists : op'[q].pc # "idle" => Active(q)'
    BY DEF Active
  <2>2. QED  BY <1>2, <2>1 DEF StoreInv, WritesSerialized
<1>5. OneRoomPersisted'
  BY <1>3 DEF OneRoomPersisted
<1>6. LoadsAreFresh'
  BY DEF StoreInv, LoadsAreFresh
<1>7. CopiesOrdered'
  <2>1. db \subseteq heap[room].doc
    BY DEF StoreInv, CopiesOrdered
  <2>2. ASSUME NEW q \in Persists, Active(q)', op'[q].pc = "write"
        PROVE  db \subseteq op'[q].snap /\ op'[q].snap \subseteq heap'[room].doc
    <3>1. op'[q] = op[q] /\ Active(q)
      BY <1>2, <2>2
    <3>2. op[q].room = room
      BY <1>3, <2>2, <3>1
    <3>3. QED  BY <2>2, <3>1, <3>2 DEF StoreInv, CopiesOrdered
  <2>3. QED  BY <1>3, <2>1, <2>2 DEF StoreInv, CopiesOrdered
<1>8. QED  BY <1>4, <1>5, <1>6, <1>7 DEF StoreInv

\* The three ways the code starts a call, seen as live-room steps.
LEMMA TimerCallStep ==
    ASSUME TypeOK, StoreInv, NEW h \in [Rooms -> RoomState], PersistLiveRoom(h),
           room' \in {room, NoRoom}, \A r \in Rooms : h[r].doc = heap[r].doc,
           UNCHANGED <<lock, redis, db, task, accepted>>
    PROVE  StoreInv'
<1>1. CASE room = NoRoom
  <2>1. op' = op /\ heap' = h
    BY <1>1 DEF PersistLiveRoom
  <2>2. QED  BY <2>1, FrameStep
<1>2. CASE room # NoRoom
  <2>1. room \in Rooms /\ redis
    BY <1>2, RoomInRooms DEF StoreInv, WritesSerialized
  <2>2. PICK p \in Persists :
          /\ ~Active(p)
          /\ op' = [op EXCEPT ![p] = Started(room, h[room])]
          /\ heap' = [h EXCEPT ![room].persistTimer = FALSE]
    BY <1>2 DEF PersistLiveRoom
  <2>3. op' = [op EXCEPT ![p] = [pc |-> "lock", room |-> room,
                                 snap |-> {}, locked |-> FALSE]]
    BY <2>1, <2>2 DEF Started
  <2>4. \A r \in Rooms : heap'[r].doc = heap[r].doc
    BY <2>1, <2>2 DEF RoomState
  <2>5. heap[room].doc \subseteq accepted
    BY <1>2 DEF StoreInv, CopiesOrdered
  <2>6. QED  BY <1>2, <2>1, <2>2, <2>3, <2>4, <2>5, LiveRoomStep
<1>3. QED  BY <1>1, <1>2

\* What applyUpdate changes of the copies of the document.
LEMMA ApplyUpdateEffect ==
    ASSUME TypeOK, redis, NEW r \in Rooms, NEW s \in RoomState, NEW e \in Edits,
           ApplyUpdate(r, s, e)
    PROVE  /\ accepted' = accepted \cup {e}
           /\ heap'[r].doc = s.doc \cup {e}
           /\ \A q \in Rooms \ {r} : heap'[q] = heap[q]
           /\ \/ op' = op
              \/ \E p \in Persists :
                    /\ ~Active(p)
                    /\ op' = [op EXCEPT ![p] = [pc |-> "lock", room |-> r,
                                                snap |-> {}, locked |-> FALSE]]
<1> DEFINE t == [s EXCEPT !.doc = @ \cup {e}, !.edited = TRUE]
<1>1. t \in RoomState /\ t.doc = s.doc \cup {e}
  BY DEF RoomState
<1>2. /\ accepted' = accepted \cup {e}
      /\ \/ /\ heap' = [heap EXCEPT ![r] = [t EXCEPT !.persistTimer = TRUE]]
            /\ op' = op
         \/ StartPersist(r, t)
  BY DEF ApplyUpdate, SchedulePersist
<1>3. CASE StartPersist(r, t)
  <2>1. PICK p \in Persists :
          /\ ~Active(p)
          /\ op' = [op EXCEPT ![p] = Started(r, t)]
          /\ heap' = [heap EXCEPT ![r] = [t EXCEPT !.persistTimer = FALSE]]
    BY <1>3 DEF StartPersist
  <2>2. op' = [op EXCEPT ![p] = [pc |-> "lock", room |-> r,
                                 snap |-> {}, locked |-> FALSE]]
    BY <2>1 DEF Started
  <2>3. heap'[r].doc = t.doc /\ \A q \in Rooms \ {r} : heap'[q] = heap[q]
    BY <1>1, <2>1 DEF TypeOK, RoomState
  <2>4. QED  BY <1>1, <1>2, <2>1, <2>2, <2>3
<1>4. CASE /\ heap' = [heap EXCEPT ![r] = [t EXCEPT !.persistTimer = TRUE]]
           /\ op' = op
  <2>1. heap'[r].doc = t.doc /\ \A q \in Rooms \ {r} : heap'[q] = heap[q]
    BY <1>1, <1>4 DEF TypeOK, RoomState
  <2>2. QED  BY <1>1, <1>2, <1>4, <2>1
<1>5. QED  BY <1>2, <1>3, <1>4

\* A handler that starts to load the room keeps the invariant,
LEMMA SuspendStep ==
    ASSUME TypeOK, StoreInv, StableLock, NEW k \in Sockets,
           NEW kind \in {"join", "edit"}, NEW es \in SUBSET Edits,
           Suspend(k, kind, es), room = NoRoom, es \cap accepted = {},
           UNCHANGED <<room, heap, op, lock, redis, db, accepted>>
    PROVE  StoreInv'
<1>1. WritesSerialized' /\ OneRoomPersisted' /\ CopiesOrdered'
  BY DEF StoreInv, WritesSerialized, OneRoomPersisted, CopiesOrdered, Active
<1>2. /\ \A j \in Sockets \ {k} : task[j].pc = "idle" /\ task'[j] = task[j]
      /\ \A p \in Persists : ~Active(p)
      /\ task'[k] = [pc |-> "find", kind |-> kind, edit |-> es, seen |-> {}]
  BY DEF Suspend, MayLoad, StableLock, TypeOK
<1>3. LoadsAreFresh'
  BY <1>2 DEF LoadsAreFresh, Active
<1>4. QED  BY <1>1, <1>3 DEF StoreInv

\* What a handler may do to the history and the stored copy.
LEMMA CreateStep ==
    ASSUME TypeOK, StoreInv, NEW k \in Sockets, Create(k)
    PROVE  /\ StoreInv'
           /\ UNCHANGED db
           /\ \/ accepted' = accepted
              \/ \E e \in Edits : e \notin accepted /\ accepted' = accepted \cup {e}
<1> DEFINE r == born + 1
           s == NewRoom(task[k].seen)
<1>1. r \in Rooms /\ task[k] \in TaskState /\ s \in RoomState /\ room' = r
  BY BoundsAssumption, NewRoomType DEF Create, TypeOK, Rooms, TaskState
<1>2. /\ room = NoRoom /\ \A p \in Persists : ~Active(p)
      /\ \A j \in Sockets \ {k} : task[j].pc = "idle"
      /\ task[k].seen = db /\ task[k].edit \cap accepted = {}
  BY DEF StoreInv, LoadsAreFresh, Create
<1>3. s.doc = db
  BY <1>2 DEF NewRoom
<1>4. UNCHANGED <<db, lock, redis>>
  BY DEF Create
<1>5. \A j \in Sockets : task'[j].pc = "idle"
  BY <1>2 DEF Create, NoTask, TypeOK
<1>6. LoadsAreFresh'
  BY <1>5 DEF LoadsAreFresh
<1>7. CASE TrackJoin(r, s, k) /\ UNCHANGED <<op, accepted>>
  <2>1. heap'[r].doc = db
    BY <1>1, <1>3, <1>7 DEF TrackJoin, TypeOK, RoomState
  <2>2. WritesSerialized' /\ OneRoomPersisted'
    BY <1>2, <1>4, <1>7
       DEF StoreInv, WritesSerialized, OneRoomPersisted, Active
  <2>3. CopiesOrdered'
    BY <1>1, <1>2, <1>4, <1>7, <2>1 DEF StoreInv, CopiesOrdered, Active
  <2>4. QED  BY <1>4, <1>6, <1>7, <2>2, <2>3 DEF StoreInv
<1>8. CASE \E e \in task[k].edit : ApplyUpdate(r, s, e)
  <2>1. PICK e \in task[k].edit : ApplyUpdate(r, s, e)
    BY <1>8
  <2>2. e \in Edits /\ e \notin accepted
    BY <1>1, <1>2, <2>1 DEF TaskState
  <2>3. /\ accepted' = accepted \cup {e}
        /\ heap'[r].doc = s.doc \cup {e}
        /\ \/ op' = op
           \/ \E p \in Persists :
                 op' = [op EXCEPT ![p] = [pc |-> "lock", room |-> r,
                                          snap |-> {}, locked |-> FALSE]]
    <3>1. redis
      BY DEF StoreInv, WritesSerialized
    <3>2. QED  BY <1>1, <2>1, <2>2, <3>1, ApplyUpdateEffect
  <2>4. ASSUME NEW q \in Persists, op'[q].pc # "idle"
        PROVE  op'[q] = [pc |-> "lock", room |-> r, snap |-> {}, locked |-> FALSE]
    BY <1>2, <2>3, <2>4 DEF Active, TypeOK
  <2>5. WritesSerialized'
    BY <1>4, <2>4 DEF StoreInv, WritesSerialized
  <2>6. OneRoomPersisted'
    BY <1>1, <2>4 DEF OneRoomPersisted, Active
  <2>7. db \subseteq heap'[r].doc /\ heap'[r].doc \subseteq accepted'
    BY <1>3, <2>3 DEF StoreInv, CopiesOrdered
  <2>8. CopiesOrdered'
    BY <1>1, <1>4, <2>4, <2>7 DEF CopiesOrdered, Active
  <2>9. QED  BY <1>4, <1>6, <2>2, <2>3, <2>5, <2>6, <2>8 DEF StoreInv
<1>9. QED  BY <1>7, <1>8 DEF Create

\* A step of the abstract store, or none.
AbstractStep ==
    \/ /\ UNCHANGED db
       /\ \/ accepted' = accepted
          \/ \E e \in Edits : e \notin accepted /\ accepted' = accepted \cup {e}
    \/ accepted' = accepted /\ db \subseteq db' /\ db' \subseteq accepted

\* ... socket handlers do,
LEMMA HandlerStep ==
    ASSUME TypeOK, StoreInv, StableLock, NEW k \in Sockets,
           \/ Join(k) \/ Find(k) \/ Create(k) \/ Leave(k) \/ Disconnect(k)
           \/ \E e \in Edits : Edit(k, e)
    PROVE  StoreInv' /\ AbstractStep
<1>1. CASE Join(k)
  <2>1. AbstractStep
    BY <1>1 DEF Join, AbstractStep
  <2>2. CASE room # NoRoom /\ TrackJoin(room, heap[room], k) /\ task' = task
    <3>1. room \in Rooms /\ heap[room] \in RoomState
      BY <2>2, RoomInRooms DEF TypeOK
    <3>2. \A r \in Rooms : heap'[r].doc = heap[r].doc
      BY <2>2, <3>1 DEF TrackJoin, TypeOK, RoomState
    <3>3. QED  BY <1>1, <2>1, <2>2, <3>2, FrameStep DEF Join
  <2>3. CASE room = NoRoom /\ Suspend(k, "join", {}) /\ UNCHANGED <<heap, conn>>
    BY <1>1, <2>1, <2>3, SuspendStep DEF Join
  <2>4. QED  BY <1>1, <2>2, <2>3 DEF Join
<1>2. CASE \E e \in Edits : Edit(k, e)
  <2>0. PICK e \in Edits : Edit(k, e)
    BY <1>2
  <2>1. e \notin accepted /\ redis
    BY <2>0 DEF Edit, Fresh, StoreInv, WritesSerialized
  <2>2. CASE /\ room # NoRoom /\ ApplyUpdate(room, heap[room], e)
             /\ task' = task
    <3>1. room \in Rooms /\ heap[room] \in RoomState
      BY <2>2, RoomInRooms DEF TypeOK
    <3>2. /\ accepted' = accepted \cup {e}
          /\ heap'[room].doc = heap[room].doc \cup {e}
          /\ \A q \in Rooms \ {room} : heap'[q] = heap[q]
          /\ \/ op' = op
             \/ \E p \in Persists :
                   /\ ~Active(p)
                   /\ op' = [op EXCEPT ![p] = [pc |-> "lock", room |-> room,
                                               snap |-> {}, locked |-> FALSE]]
      BY <2>1, <2>2, <3>1, ApplyUpdateEffect
    <3>3. heap[room].doc \subseteq accepted
      BY <2>2 DEF StoreInv, CopiesOrdered
    <3>4. UNCHANGED <<room, lock, redis, db>>
      BY <2>0 DEF Edit
    <3>5. StoreInv'
      BY <2>2, <3>2, <3>3, <3>4, LiveRoomStep
    <3>6. QED  BY <2>1, <3>2, <3>4, <3>5 DEF AbstractStep
  <2>3. CASE room = NoRoom /\ Suspend(k, "edit", {e})
             /\ UNCHANGED <<heap, op, accepted>>
    <3>1. UNCHANGED <<room, lock, redis, db>>
      BY <2>0 DEF Edit
    <3>2. QED  BY <2>1, <2>3, <3>1, SuspendStep DEF AbstractStep
  <2>4. QED  BY <2>0, <2>2, <2>3 DEF Edit
<1>3. CASE Find(k)
  <2>1. AbstractStep
    BY <1>3 DEF Find, AbstractStep
  <2>2. WritesSerialized' /\ OneRoomPersisted' /\ CopiesOrdered'
    BY <1>3
       DEF Find, StoreInv, WritesSerialized, OneRoomPersisted, CopiesOrdered, Active
  <2>3. /\ task'[k].seen = db /\ task'[k].edit = task[k].edit
        /\ \A j \in Sockets \ {k} : task'[j] = task[j]
        /\ task[k].pc # "idle"
    BY <1>3 DEF Find, TypeOK, TaskState
  <2>4. /\ room = NoRoom /\ \A p \in Persists : ~Active(p)
        /\ \A j \in Sockets \ {k} : task[j].pc = "idle"
        /\ task[k].edit \cap accepted = {}
    BY <2>3 DEF StoreInv, LoadsAreFresh
  <2>5. LoadsAreFresh'
    BY <1>3, <2>3, <2>4 DEF Find, LoadsAreFresh, Active
  <2>6. QED  BY <2>1, <2>2, <2>5 DEF StoreInv
<1>4. CASE Create(k)
  BY <1>4, CreateStep DEF AbstractStep
<1>5. CASE Leave(k)
  <2>1. \A r \in Rooms : heap'[r].doc = heap[r].doc
    <3>1. CASE room = NoRoom
      BY <1>5, <3>1 DEF Leave, TrackLeave
    <3>2. CASE room # NoRoom
      BY <1>5, <3>2, RoomInRooms DEF Leave, TrackLeave, TypeOK, RoomState
    <3>3. QED  BY <3>1, <3>2
  <2>2. QED  BY <1>5, <2>1, FrameStep DEF Leave, AbstractStep
<1>6. CASE Disconnect(k)
  BY <1>6, FrameStep DEF Disconnect, AbstractStep
<1>7. QED  BY <1>1, <1>2, <1>3, <1>4, <1>5, <1>6

\* ... timers do,
LEMMA TimerStep ==
    ASSUME TypeOK, StoreInv,
           \/ \E r \in Rooms : \/ PersistTimerFires(r) \/ CleanupTimerFires(r)
                               \/ PersistWindowEnds(r) \/ SaveWindowEnds(r)
           \/ RetryTimerFires \/ StrayTimerFires
    PROVE  StoreInv' /\ AbstractStep
<1>1. AbstractStep
  BY DEF AbstractStep, PersistTimerFires, CleanupTimerFires, PersistWindowEnds,
         SaveWindowEnds, RetryTimerFires, StrayTimerFires
<1>2. ASSUME NEW r \in Rooms, PersistTimerFires(r)
      PROVE  StoreInv'
  <2> DEFINE h == [heap EXCEPT ![r].persistTimer = FALSE]
  <2>1. [heap[r] EXCEPT !.persistTimer = FALSE] \in RoomState
    BY DEF TypeOK, RoomState
  <2>2. h \in [Rooms -> RoomState] /\ \A q \in Rooms : h[q].doc = heap[q].doc
    BY <2>1 DEF TypeOK, RoomState
  <2>3. PersistLiveRoom(h) /\ UNCHANGED <<room, lock, redis, db, task, accepted>>
    BY <1>2 DEF PersistTimerFires
  <2>4. QED  BY <2>2, <2>3, TimerCallStep
<1>3. ASSUME NEW r \in Rooms, CleanupTimerFires(r)
      PROVE  StoreInv'
  <2> DEFINE h == [heap EXCEPT ![r].cleanupTimer = FALSE]
  <2>1. [heap[r] EXCEPT !.cleanupTimer = FALSE] \in RoomState
    BY DEF TypeOK, RoomState
  <2>2. h \in [Rooms -> RoomState] /\ \A q \in Rooms : h[q].doc = heap[q].doc
    BY <2>1 DEF TypeOK, RoomState
  <2>3. /\ PersistLiveRoom(h) /\ room' = NoRoom
        /\ UNCHANGED <<lock, redis, db, task, accepted>>
    BY <1>3 DEF CleanupTimerFires
  <2>4. QED  BY <2>2, <2>3, TimerCallStep
<1>4. ASSUME NEW r \in Rooms, PersistWindowEnds(r) \/ SaveWindowEnds(r)
      PROVE  StoreInv'
  <2>1. \A q \in Rooms : heap'[q].doc = heap[q].doc
    BY <1>4 DEF PersistWindowEnds, SaveWindowEnds, TypeOK, RoomState
  <2>2. UNCHANGED <<room, op, lock, redis, db, accepted, task>>
    BY <1>4 DEF PersistWindowEnds, SaveWindowEnds
  <2>3. QED  BY <2>1, <2>2, FrameStep
<1>5. CASE RetryTimerFires
  <2>1. /\ PersistLiveRoom(heap) /\ heap \in [Rooms -> RoomState]
        /\ UNCHANGED <<room, lock, redis, db, task, accepted>>
    BY <1>5 DEF RetryTimerFires, TypeOK
  <2>2. QED  BY <1>1, <2>1, TimerCallStep
<1>6. CASE StrayTimerFires
  <2>1. /\ PersistLiveRoom(heap) /\ heap \in [Rooms -> RoomState]
        /\ room' = NoRoom /\ UNCHANGED <<lock, redis, db, task, accepted>>
    BY <1>6 DEF StrayTimerFires, TypeOK
  <2>2. QED  BY <1>1, <2>1, TimerCallStep
<1>7. QED  BY <1>1, <1>2, <1>3, <1>4, <1>5, <1>6

(* Steps of a running call. *)
LEMMA AcquireStep ==
    ASSUME TypeOK, StoreInv, NEW p \in Persists, Acquire(p)
    PROVE  StoreInv' /\ AbstractStep
<1> DEFINE r == op[p].room
<1>1. /\ r \in Rooms /\ Active(p) /\ p # "none"
      /\ op' = [op EXCEPT ![p] = [op[p] EXCEPT !.pc = "write", !.locked = TRUE,
                                               !.snap = heap[r].doc]]
      /\ op'[p].pc = "write" /\ op'[p].locked /\ op'[p].snap = heap[r].doc
      /\ op'[p].room = r
  BY ActiveOp, PersistsAssumption DEF Acquire, TypeOK, Active
<1>2. \A q \in Persists : Active(q)' <=> Active(q)
  BY <1>1 DEF Active, TypeOK
<1>3. \A q \in Persists \ {p} :
         op'[q] = op[q] /\ op[q].pc \notin {"write", "save", "unlock"}
  <2>1. lock = "none"
    BY DEF Acquire, LockFree
  <2>2. \A q \in Persists : q # "none"
    BY PersistsAssumption
  <2>3. \A q \in Persists : op[q].pc \notin {"write", "save", "unlock"}
    BY <2>1, <2>2 DEF StoreInv, WritesSerialized
  <2>4. QED  BY <1>1, <2>3 DEF TypeOK
<1>4. WritesSerialized'
  BY <1>1, <1>3 DEF Acquire, StoreInv, WritesSerialized
<1>5. OneRoomPersisted'
  <2>1. \A q \in Persists : op'[q].room = op[q].room
    BY <1>1, <1>3
  <2>2. room' = room
    BY DEF Acquire
  <2>3. QED  BY <1>2, <2>1, <2>2 DEF StoreInv, OneRoomPersisted
<1>6. LoadsAreFresh'
  BY <1>1, <1>2 DEF Acquire, StoreInv, LoadsAreFresh
<1>7. CopiesOrdered'
  BY <1>1, <1>2, <1>3 DEF Acquire, StoreInv, CopiesOrdered
<1>8. QED  BY <1>4, <1>5, <1>6, <1>7 DEF StoreInv, Acquire, AbstractStep

\* A call that keeps or gives up its lock without writing, or writes its
\* snapshot.
LEMMA CallStep ==
    ASSUME TypeOK, StoreInv, NEW p \in Persists, Active(p),
           op[p].pc \in {"lock", "write", "save", "unlock"},
           NEW o, op' = [op EXCEPT ![p] = o],
           o \in {NoOp, [op[p] EXCEPT !.pc = "save"], [op[p] EXCEPT !.pc = "unlock"]},
           o # NoOp => op[p].pc \in {"write", "save"} /\ lock' = lock,
           o = NoOp => \/ op[p].pc = "lock" /\ lock' = lock
                       \/ op[p].pc = "unlock" /\ lock' = "none",
           db' = db \/ (op[p].pc = "write" /\ db' = op[p].snap),
           \A r \in Rooms : heap'[r].doc = heap[r].doc,
           UNCHANGED <<room, redis, accepted, task>>
    PROVE  StoreInv' /\ AbstractStep
<1>1. /\ op[p].room \in Rooms
      /\ op[p] \in [pc : {"lock", "write", "save", "unlock"}, room : Rooms,
                    snap : SUBSET Edits, locked : BOOLEAN]
  BY ActiveOp DEF Active
<1>2. /\ op'[p] = o
      /\ o # NoOp => /\ o.room = op[p].room /\ o.locked = op[p].locked
                     /\ o.pc \in {"save", "unlock"}
      /\ \A q \in Persists \ {p} : op'[q] = op[q]
  BY <1>1 DEF TypeOK
<1>3. \A q \in Persists : Active(q)' => Active(q) /\ op'[q].room = op[q].room
  BY <1>2 DEF Active, NoOp
<1>4. /\ db \subseteq db' /\ db' \subseteq heap[op[p].room].doc
      /\ heap[op[p].room].doc \subseteq accepted
  BY DEF StoreInv, CopiesOrdered
<1>5. WritesSerialized'
  <2>1. ASSUME NEW q \in Persists
        PROVE  /\ op'[q].pc \in {"write", "save", "unlock"} => op'[q].locked /\ lock' = q
               /\ op'[q].pc = "lock" => ~op'[q].locked
    <3>1. CASE q = p
      BY <1>2, <3>1 DEF StoreInv, WritesSerialized, NoOp
    <3>2. CASE q # p
      BY <1>2, <3>2 DEF StoreInv, WritesSerialized
    <3>3. QED  BY <3>1, <3>2
  <2>2. QED  BY <2>1 DEF StoreInv, WritesSerialized
<1>6. OneRoomPersisted'
  BY <1>3 DEF StoreInv, OneRoomPersisted
<1>7. LoadsAreFresh'
  BY DEF StoreInv, LoadsAreFresh
<1>8. CopiesOrdered'
  <2>1. room # NoRoom => op[p].room = room /\ room \in Rooms
    BY RoomInRooms DEF StoreInv, OneRoomPersisted
  <2>2. ASSUME NEW q \in Persists, Active(q)'
        PROVE  /\ db' \subseteq heap'[op'[q].room].doc
               /\ heap'[op'[q].room].doc \subseteq accepted
               /\ op'[q].pc = "write" => /\ db' \subseteq op'[q].snap
                                         /\ op'[q].snap \subseteq heap'[op'[q].room].doc
    <3>1. op'[q].room = op[p].room
      BY <1>3, <2>2 DEF StoreInv, OneRoomPersisted
    <3>2. op'[q].pc = "write" => q # p /\ op'[q] = op[q]
      BY <1>2 DEF NoOp
    <3>3. op'[q].pc = "write" => db' = db
      BY <3>2 DEF StoreInv, WritesSerialized
    <3>4. QED  BY <1>1, <1>3, <1>4, <2>2, <3>1, <3>2, <3>3 DEF StoreInv, CopiesOrdered
  <2>3. QED  BY <1>1, <1>4, <2>1, <2>2 DEF StoreInv, CopiesOrdered
<1>9. AbstractStep
  BY <1>4 DEF AbstractStep
<1>10. QED  BY <1>5, <1>6, <1>7, <1>8, <1>9 DEF StoreInv

\* ... persistRoom between its awaits does,
LEMMA PersistStep ==
    ASSUME TypeOK, StoreInv, StableLock, NEW p \in Persists,
           \/ Acquire(p) \/ WriteDone(p) \/ SaveDone(p)
           \/ PersistFails(p) \/ Release(p)
    PROVE  StoreInv' /\ AbstractStep
<1>0. /\ Active(p) /\ op[p].pc \in {"lock", "write", "save", "unlock"}
      /\ op[p].room \in Rooms
      /\ op[p].pc \in {"write", "save", "unlock"} => op[p].locked /\ lock = p
      /\ op[p].pc = "lock" => ~op[p].locked
  BY ActiveOp
     DEF Acquire, WriteDone, SaveDone, PersistFails, Release, Active,
         StoreInv, WritesSerialized
<1>1. CASE Acquire(p)
  BY <1>1, AcquireStep
<1>2. CASE WriteDone(p)
  <2>1. PICK o \in {[op[p] EXCEPT !.pc = "save"], [op[p] EXCEPT !.pc = "unlock"]} :
          op' = [op EXCEPT ![p] = o]
    BY <1>0, <1>2 DEF WriteDone, Ended
  <2>2. o # NoOp
    BY <1>0, <2>1, ActiveOp DEF Active, NoOp
  <2>3. \A r \in Rooms : heap'[r].doc = heap[r].doc
    BY <1>0, <1>2 DEF WriteDone, TypeOK, RoomState
  <2>4. /\ op[p].pc = "write" /\ db' = op[p].snap
        /\ UNCHANGED <<room, lock, redis, accepted, task>>
    BY <1>2 DEF WriteDone
  <2>5. QED  BY <1>0, <2>1, <2>2, <2>3, <2>4, CallStep
<1>3. CASE SaveDone(p)
  <2>1. op' = [op EXCEPT ![p] = [op[p] EXCEPT !.pc = "unlock"]]
    BY <1>0, <1>3 DEF SaveDone, Ended
  <2>2. [op[p] EXCEPT !.pc = "unlock"] # NoOp
    BY <1>0, ActiveOp DEF Active, NoOp
  <2>3. \A r \in Rooms : heap'[r].doc = heap[r].doc
    BY <1>0, <1>3 DEF SaveDone, TypeOK, RoomState
  <2>4. /\ op[p].pc = "save" /\ db' = db
        /\ UNCHANGED <<room, lock, redis, accepted, task>>
    BY <1>3 DEF SaveDone
  <2>5. QED  BY <1>0, <2>1, <2>2, <2>3, <2>4, CallStep
<1>4. CASE PersistFails(p)
  <2>1. \A r \in Rooms : heap'[r].doc = heap[r].doc
    BY <1>0, <1>4 DEF PersistFails, TypeOK, RoomState
  <2>2. /\ db' = db \/ (op[p].pc = "write" /\ db' = op[p].snap)
        /\ op[p].pc \in {"lock", "write", "save"}
        /\ UNCHANGED <<room, lock, redis, accepted, task>>
    BY <1>4 DEF PersistFails
  <2>3. CASE op[p].pc = "lock"
    <3>1. op' = [op EXCEPT ![p] = NoOp]
      BY <1>0, <1>4, <2>3 DEF PersistFails, Ended
    <3>2. db' = db
      BY <2>2, <2>3
    <3>3. QED  BY <1>0, <2>1, <2>2, <2>3, <3>1, <3>2, CallStep
  <2>4. CASE op[p].pc \in {"write", "save"}
    <3>1. op' = [op EXCEPT ![p] = [op[p] EXCEPT !.pc = "unlock"]]
      BY <1>0, <1>4, <2>4 DEF PersistFails, Ended
    <3>2. [op[p] EXCEPT !.pc = "unlock"] # NoOp
      BY <1>0, ActiveOp DEF Active, NoOp
    <3>3. QED  BY <1>0, <2>1, <2>2, <2>4, <3>1, <3>2, CallStep
  <2>5. QED  BY <2>2, <2>3, <2>4
<1>5. CASE Release(p)
  <2>1. /\ op' = [op EXCEPT ![p] = NoOp] /\ lock' = "none"
        /\ op[p].pc = "unlock" /\ db' = db /\ heap' = heap
        /\ UNCHANGED <<room, redis, accepted, task>>
    BY <1>0, <1>5 DEF Release, FreedLock, StableLock
  <2>2. QED  BY <1>0, <2>1, CallStep
<1>6. QED  BY <1>1, <1>2, <1>3, <1>4, <1>5

\* ... and shutdown, exit and boot do.
LEMMA StopStep ==
    ASSUME TypeOK, StoreInv, StableLock,
           Flush \/ FlushDone \/ Restart \/ LockExpiry \/ RedisChanges
    PROVE  StoreInv' /\ AbstractStep
<1>1. CASE Flush
  <2>1. CASE room = NoRoom
    BY <1>1, <2>1, FrameStep DEF Flush, AbstractStep
  <2>2. CASE room # NoRoom
    <3>1. room \in Rooms /\ heap[room] \in RoomState /\ redis
      BY <2>2, RoomInRooms DEF TypeOK, StoreInv, WritesSerialized
    <3>2. PICK p \in Persists :
            ~Active(p) /\ op' = [op EXCEPT ![p] = Started(room, heap[room])]
      BY <1>1, <2>2 DEF Flush
    <3>3. op' = [op EXCEPT ![p] = [pc |-> "lock", room |-> room,
                                   snap |-> {}, locked |-> FALSE]]
      BY <3>1, <3>2 DEF Started
    <3>4. \A r \in Rooms : heap'[r].doc = heap[r].doc
      BY <1>1, <2>2, <3>1 DEF Flush, TypeOK, RoomState
    <3>5. heap[room].doc \subseteq accepted
      BY <2>2 DEF StoreInv, CopiesOrdered
    <3>6. UNCHANGED <<room, lock, redis, db, task, accepted>>
      BY <1>1 DEF Flush
    <3>7. StoreInv'
      BY <2>2, <3>1, <3>2, <3>3, <3>4, <3>5, <3>6, LiveRoomStep
    <3>8. QED  BY <3>6, <3>7 DEF AbstractStep
  <2>3. QED  BY <2>1, <2>2
<1>2. CASE FlushDone
  <2>1. \A r \in Rooms : heap'[r].doc = heap[r].doc
    BY <1>2 DEF FlushDone, TypeOK, RoomState
  <2>2. room' = NoRoom /\ UNCHANGED <<op, lock, redis, db, accepted, task>>
    BY <1>2 DEF FlushDone
  <2>3. QED  BY <2>1, <2>2, FrameStep DEF AbstractStep
<1>3. CASE Restart
  <2>1. \A p \in Persists : op[p].pc = "write" =>
            db \subseteq op[p].snap /\ op[p].snap \subseteq accepted
    BY DEF StoreInv, CopiesOrdered, Active
  <2>2. /\ db \subseteq db' /\ db' \subseteq accepted /\ accepted' = accepted
        /\ redis' = redis /\ room' = NoRoom
    BY <1>3, <2>1 DEF Restart, StoreInv, CopiesOrdered
  <2>3. /\ \A p \in Persists : op'[p] = NoOp
        /\ \A k \in Sockets : task'[k] = NoTask
    BY <1>3 DEF Restart
  <2>4. StoreInv'
    BY <2>2, <2>3
       DEF StoreInv, WritesSerialized, OneRoomPersisted, LoadsAreFresh,
           CopiesOrdered, Active, NoOp, NoTask
  <2>5. QED  BY <2>2, <2>4 DEF AbstractStep
<1>4. CASE LockExpiry
  BY <1>4 DEF LockExpiry, StableLock
<1>5. CASE RedisChanges
  BY <1>5 DEF RedisChanges, StableLock, StoreInv, WritesSerialized
<1>6. QED  BY <1>1, <1>2, <1>3, <1>4, <1>5

\* A server just booted has one copy of the document.
LEMMA StoreInit == StableLock /\ Init => StoreInv
BY DEF StableLock, Init, StoreInv, WritesSerialized, OneRoomPersisted,
       LoadsAreFresh, CopiesOrdered, Active, NoOp, NoTask

\* Every step keeps the copies ordered.
LEMMA StoreStep ==
    ASSUME StableLock, TypeOK, StoreInv, [Next]_vars
    PROVE  StoreInv' /\ AbstractStep
<1>1. CASE Next
  BY <1>1, HandlerStep, TimerStep, PersistStep, StopStep DEF Next
<1>2. CASE UNCHANGED vars
  BY <1>2, FrameStep DEF vars, AbstractStep
<1>3. QED  BY <1>1, <1>2

\* The inductive argument: serialized calls, one room, fresh loads, and every
\* copy of the document part of the next fresher one.
THEOREM StoreInvariant == ASSUME StableLock PROVE Spec => []StoreInv
<1>1. Init => StoreInv
  BY StoreInit
<1>2. TypeOK /\ StoreInv /\ [Next]_vars => StoreInv'
  BY StoreStep
<1>3. QED  BY <1>1, <1>2, TypeCorrect, PTL DEF Spec

\* No write of persistRoom, no retry, no crash with a write in flight and no
\* reload ever takes an update out of MongoDB.
THEOREM NothingUnstored == ASSUME StableLock PROVE Spec => StoredOnlyGrows
<1>1. TypeOK /\ StoreInv /\ [Next]_vars => [db \subseteq db']_vars
  <2> SUFFICES ASSUME TypeOK, StoreInv, [Next]_vars
               PROVE  db \subseteq db'
    OBVIOUS
  <2>1. AbstractStep
    BY StoreStep
  <2>2. QED  BY <2>1 DEF AbstractStep
<1>2. QED  BY <1>1, TypeCorrect, StoreInvariant, PTL DEF Spec, StoredOnlyGrows

\* The room with its timers, calls, lock, evictions, crashes and restarts
\* implements the write-behind store.
THEOREM Refinement == ASSUME StableLock PROVE Spec => ImplementsWriteBehind
<1>1. Init => Abstract!Init
  BY DEF Init, Abstract!Init
<1>2. TypeOK /\ StoreInv /\ [Next]_vars
        => [Abstract!Next]_<<accepted, db>>
  <2> SUFFICES ASSUME TypeOK, StoreInv, [Next]_vars
               PROVE  [Abstract!Next]_<<accepted, db>>
    OBVIOUS
  <2>1. AbstractStep
    BY StoreStep
  <2>2. QED
    BY <2>1 DEF AbstractStep, Abstract!Next, Abstract!Store, Abstract!Accept
<1>3. QED
  BY <1>1, <1>2, TypeCorrect, StoreInvariant, PTL
     DEF Spec, ImplementsWriteBehind, Abstract!Spec

(* --------------------- Nothing is lost while nothing fails --------------- *)

\* Someone still has update e: MongoDB, the live room, the room of a call that
\* waits for the lock, or the snapshot of a call that writes.
Kept(e) ==
    \/ e \in db
    \/ room # NoRoom /\ e \in heap[room].doc
    \/ \E p \in Persists :
          \/ op[p].pc = "lock" /\ e \in heap[op[p].room].doc
          \/ op[p].pc = "write" /\ e \in op[p].snap

EditsKept ==
    failures = 0 /\ restarts = 0 /\ mode = "up" => \A e \in accepted : Kept(e)

\* The flush's own call still carries what was live when the flush began.
FlushCarries ==
    /\ flushOp \in Persists
    /\ \/ op[flushOp].pc = "lock" /\ flushed \subseteq heap[op[flushOp].room].doc
       \/ op[flushOp].pc = "write" /\ flushed \subseteq op[flushOp].snap

FlushKept ==
    failures = 0 =>
        /\ mode = "flushing" => (flushed \subseteq db \/ FlushCarries)
        /\ mode = "down" => flushed \subseteq db

\* The version of an interval is cut by a call that found none.
CutsCounted ==
    failures = 0 =>
        /\ \A r \in Rooms : \/ heap[r].cuts = 0
                            \/ heap[r].cuts = 1 /\ heap[r].recentSave
        /\ \A p \in Persists : op[p].pc = "save" => heap[op[p].room].cuts = 0

SafetyInv == EditsKept /\ FlushKept /\ CutsCounted

\* Handlers, timers and the start of the flush: no copy of the document
\* shrinks, running calls go on, new calls wait for the lock, a room that
\* leaves the Map leaves a call behind, and versions are counted.
Grows ==
    /\ db' = db
    /\ \A p \in Persists : \/ op'[p] = op[p]
                           \/ op[p].pc = "idle" /\ op'[p].pc = "lock"
    /\ \A r \in Rooms : /\ heap[r].doc \subseteq heap'[r].doc
                        /\ \/ heap'[r].cuts = 0
                           \/ /\ heap'[r].cuts = heap[r].cuts
                              /\ heap'[r].recentSave = heap[r].recentSave
    /\ \A e \in accepted' \ accepted : room # NoRoom /\ e \in heap'[room].doc
    /\ \/ room' = room
       \/ /\ room' = NoRoom
          /\ room # NoRoom => \E p \in Persists :
                                  op'[p].pc = "lock" /\ op'[p].room = room

SameEra == UNCHANGED <<mode, flushOp, flushed, failures, restarts>>

\* Such steps keep every update,
LEMMA GrowsKeeps ==
    ASSUME TypeOK, Grows, NEW e, Kept(e)
    PROVE  Kept(e)'
<1>1. \A p \in Persists : op[p].pc # "idle" => op'[p] = op[p] /\ op[p].room \in Rooms
  BY ActiveOp DEF Grows
<1>2. CASE e \in db
  BY <1>2 DEF Grows, Kept
<1>3. CASE room # NoRoom /\ e \in heap[room].doc
  <2>1. room \in Rooms /\ e \in heap'[room].doc
    BY <1>3, RoomInRooms DEF Grows
  <2>2. QED  BY <1>3, <2>1 DEF Grows, Kept
<1>4. CASE \E p \in Persists : op[p].pc = "lock" /\ e \in heap[op[p].room].doc
  BY <1>1, <1>4 DEF Grows, Kept
<1>5. CASE \E p \in Persists : op[p].pc = "write" /\ e \in op[p].snap
  BY <1>1, <1>5 DEF Kept
<1>6. QED  BY <1>2, <1>3, <1>4, <1>5 DEF Kept

\* ... also the ones they accept,
LEMMA GrowsEdits ==
    ASSUME TypeOK, EditsKept, Grows, mode' = "up" => mode = "up",
           UNCHANGED <<failures, restarts>>
    PROVE  EditsKept'
<1> SUFFICES ASSUME failures' = 0, restarts' = 0, mode' = "up",
                    NEW e \in accepted'
             PROVE  Kept(e)'
  BY DEF EditsKept
<1>1. CASE e \in accepted
  BY <1>1, GrowsKeeps DEF EditsKept
<1>2. CASE e \notin accepted
  <2>1. room # NoRoom /\ e \in heap'[room].doc
    BY <1>2 DEF Grows
  <2>2. CASE room' = room
    BY <2>1, <2>2 DEF Kept
  <2>3. CASE room' # room
    BY <2>1, <2>3 DEF Grows, Kept
  <2>4. QED  BY <2>2, <2>3
<1>3. QED  BY <1>1, <1>2

\* ... carry what the flush stores,
LEMMA GrowsFlush ==
    ASSUME TypeOK, FlushKept, Grows, SameEra
    PROVE  FlushKept'
<1>1. FlushCarries => FlushCarries'
  <2> SUFFICES ASSUME FlushCarries
               PROVE  FlushCarries'
    OBVIOUS
  <2>1. /\ flushOp \in Persists /\ flushOp' = flushOp /\ flushed' = flushed
        /\ op'[flushOp] = op[flushOp]
    BY DEF FlushCarries, Grows, SameEra
  <2>2. op[flushOp].room \in Rooms
    BY <2>1, ActiveOp DEF FlushCarries
  <2>3. QED  BY <2>1, <2>2 DEF FlushCarries, Grows
<1>2. QED  BY <1>1 DEF FlushKept, Grows, SameEra

\* ... and cut no version.
LEMMA GrowsCuts ==
    ASSUME TypeOK, CutsCounted, Grows, failures' = failures
    PROVE  CutsCounted'
<1> SUFFICES ASSUME failures = 0
             PROVE  CutsCounted'
  BY DEF CutsCounted
<1>1. \A p \in Persists :
         op'[p].pc = "save" => op'[p] = op[p] /\ op[p].room \in Rooms
  BY ActiveOp DEF Grows
<1>2. \A r \in Rooms : \/ heap'[r].cuts = 0
                       \/ /\ heap'[r].cuts = heap[r].cuts
                          /\ heap'[r].recentSave = heap[r].recentSave
  BY DEF Grows
<1>3. \A r \in Rooms : \/ heap[r].cuts = 0
                       \/ heap[r].cuts = 1 /\ heap[r].recentSave
  BY DEF CutsCounted
<1>4. \A p \in Persists : op[p].pc = "save" => heap[op[p].room].cuts = 0
  BY DEF CutsCounted
<1>5. \A p \in Persists : op'[p].pc = "save" => heap'[op'[p].room].cuts = 0
  BY <1>1, <1>2, <1>4
<1>6. \A r \in Rooms : \/ heap'[r].cuts = 0
                       \/ heap'[r].cuts = 1 /\ heap'[r].recentSave
  BY <1>2, <1>3
<1>7. QED  BY <1>5, <1>6 DEF CutsCounted

\* A call started for the live room of a heap no poorer than the present one.
LEMMA LiveCallGrows ==
    ASSUME TypeOK, StoreInv, NEW h \in [Rooms -> RoomState], PersistLiveRoom(h),
           room' \in {room, NoRoom}, UNCHANGED <<db, accepted>>,
           \A r \in Rooms : /\ h[r].doc = heap[r].doc
                            /\ h[r].cuts = heap[r].cuts
                            /\ h[r].recentSave = heap[r].recentSave
    PROVE  Grows
<1>1. CASE room = NoRoom
  BY <1>1 DEF PersistLiveRoom, Grows
<1>2. CASE room # NoRoom
  <2>1. room \in Rooms /\ redis
    BY <1>2, RoomInRooms DEF StoreInv, WritesSerialized
  <2>2. PICK p \in Persists :
          /\ ~Active(p)
          /\ op' = [op EXCEPT ![p] = Started(room, h[room])]
          /\ heap' = [h EXCEPT ![room].persistTimer = FALSE]
    BY <1>2 DEF PersistLiveRoom
  <2>3. /\ op'[p].pc = "lock" /\ op'[p].room = room
        /\ \A q \in Persists \ {p} : op'[q] = op[q]
    BY <2>1, <2>2 DEF Started, TypeOK
  <2>4. \A r \in Rooms : /\ heap'[r].doc = heap[r].doc
                         /\ heap'[r].cuts = heap[r].cuts
                         /\ heap'[r].recentSave = heap[r].recentSave
    BY <2>1, <2>2 DEF RoomState
  <2>5. QED  BY <2>2, <2>3, <2>4 DEF Grows, Active
<1>3. QED  BY <1>1, <1>2

\* applyUpdate on a live room.
LEMMA ApplyUpdateGrows ==
    ASSUME TypeOK, StoreInv, NEW r \in Rooms, NEW s \in RoomState, NEW e \in Edits,
           ApplyUpdate(r, s, e)
    PROVE  /\ heap'[r].doc = s.doc \cup {e}
           /\ heap'[r].cuts = s.cuts /\ heap'[r].recentSave = s.recentSave
           /\ \A q \in Rooms \ {r} : heap'[q] = heap[q]
           /\ \A p \in Persists : \/ op'[p] = op[p]
                                  \/ op[p].pc = "idle" /\ op'[p].pc = "lock"
           /\ accepted' = accepted \cup {e}
<1> DEFINE t == [s EXCEPT !.doc = @ \cup {e}, !.edited = TRUE]
<1>1. /\ t \in RoomState /\ t.doc = s.doc \cup {e}
      /\ t.cuts = s.cuts /\ t.recentSave = s.recentSave
  BY DEF RoomState
<1>2. \/ heap' = [heap EXCEPT ![r] = [t EXCEPT !.persistTimer = FALSE]]
      \/ heap' = [heap EXCEPT ![r] = [t EXCEPT !.persistTimer = TRUE]]
  BY DEF ApplyUpdate, SchedulePersist, StartPersist
<1>3. heap'[r] \in {[t EXCEPT !.persistTimer = FALSE],
                    [t EXCEPT !.persistTimer = TRUE]}
  BY <1>2 DEF TypeOK
<1>4. heap'[r].cuts = s.cuts /\ heap'[r].recentSave = s.recentSave
  BY <1>1, <1>3 DEF RoomState
<1>5. redis
  BY DEF StoreInv, WritesSerialized
<1>6. QED  BY <1>4, <1>5, ApplyUpdateEffect DEF Active, TypeOK

\* Socket handlers grow the copies or put a new room in the Map.
LEMMA HandlerGrows ==
    ASSUME TypeOK, StoreInv, NEW k \in Sockets,
           \/ Join(k) \/ Find(k) \/ Leave(k) \/ Disconnect(k)
           \/ \E e \in Edits : Edit(k, e)
    PROVE  Grows
<1>1. CASE Join(k)
  <2>1. CASE room # NoRoom /\ TrackJoin(room, heap[room], k)
    BY <1>1, <2>1, RoomInRooms DEF Join, TrackJoin, Grows, TypeOK, RoomState
  <2>2. CASE heap' = heap
    BY <1>1, <2>2 DEF Join, Grows
  <2>3. QED  BY <1>1, <2>1, <2>2 DEF Join
<1>2. CASE \E e \in Edits : Edit(k, e)
  <2>0. PICK e \in Edits : Edit(k, e)
    BY <1>2
  <2>1. CASE room # NoRoom /\ ApplyUpdate(room, heap[room], e)
    <3>1. room \in Rooms /\ heap[room] \in RoomState /\ db' = db /\ room' = room
      BY <2>0, <2>1, RoomInRooms DEF TypeOK, Edit
    <3>2. QED  BY <2>1, <3>1, ApplyUpdateGrows DEF Grows
  <2>2. CASE UNCHANGED <<heap, op, accepted>>
    BY <2>0, <2>2 DEF Edit, Grows
  <2>3. QED  BY <2>0, <2>1, <2>2 DEF Edit
<1>3. CASE Leave(k)
  <2>1. CASE room = NoRoom
    BY <1>3, <2>1 DEF Leave, TrackLeave, Grows
  <2>2. CASE room # NoRoom
    <3>1. \A r \in Rooms : /\ heap'[r].doc = heap[r].doc
                           /\ heap'[r].cuts = heap[r].cuts
                           /\ heap'[r].recentSave = heap[r].recentSave
      BY <1>3, <2>2, RoomInRooms DEF Leave, TrackLeave, TypeOK, RoomState
    <3>2. QED  BY <1>3, <3>1 DEF Leave, Grows
  <2>3. QED  BY <2>1, <2>2
<1>4. CASE Find(k) \/ Disconnect(k)
  BY <1>4 DEF Find, Disconnect, Grows
<1>5. QED  BY <1>1, <1>2, <1>3, <1>4

\* ... timers grow them,
LEMMA TimerGrows ==
    ASSUME TypeOK, StoreInv,
           \/ \E r \in Rooms : \/ PersistTimerFires(r) \/ CleanupTimerFires(r)
                               \/ PersistWindowEnds(r) \/ SaveWindowEnds(r)
           \/ RetryTimerFires \/ StrayTimerFires
    PROVE  Grows
<1>1. ASSUME NEW r \in Rooms, PersistTimerFires(r)
      PROVE  Grows
  <2> DEFINE h == [heap EXCEPT ![r].persistTimer = FALSE]
  <2>1. [heap[r] EXCEPT !.persistTimer = FALSE] \in RoomState
    BY DEF TypeOK, RoomState
  <2>2. /\ h \in [Rooms -> RoomState]
        /\ \A q \in Rooms : /\ h[q].doc = heap[q].doc
                            /\ h[q].cuts = heap[q].cuts
                            /\ h[q].recentSave = heap[q].recentSave
    BY <2>1 DEF TypeOK, RoomState
  <2>3. PersistLiveRoom(h) /\ UNCHANGED <<room, db, accepted>>
    BY <1>1 DEF PersistTimerFires
  <2>4. QED  BY <2>2, <2>3, LiveCallGrows
<1>2. ASSUME NEW r \in Rooms, CleanupTimerFires(r)
      PROVE  Grows
  <2> DEFINE h == [heap EXCEPT ![r].cleanupTimer = FALSE]
  <2>1. [heap[r] EXCEPT !.cleanupTimer = FALSE] \in RoomState
    BY DEF TypeOK, RoomState
  <2>2. /\ h \in [Rooms -> RoomState]
        /\ \A q \in Rooms : /\ h[q].doc = heap[q].doc
                            /\ h[q].cuts = heap[q].cuts
                            /\ h[q].recentSave = heap[q].recentSave
    BY <2>1 DEF TypeOK, RoomState
  <2>3. PersistLiveRoom(h) /\ room' = NoRoom /\ UNCHANGED <<db, accepted>>
    BY <1>2 DEF CleanupTimerFires
  <2>4. QED  BY <2>2, <2>3, LiveCallGrows
<1>3. ASSUME NEW r \in Rooms, PersistWindowEnds(r) \/ SaveWindowEnds(r)
      PROVE  Grows
  BY <1>3 DEF PersistWindowEnds, SaveWindowEnds, Grows, TypeOK, RoomState
<1>4. CASE RetryTimerFires \/ StrayTimerFires
  <2>1. /\ PersistLiveRoom(heap) /\ heap \in [Rooms -> RoomState]
        /\ room' \in {room, NoRoom} /\ UNCHANGED <<db, accepted>>
    BY <1>4 DEF RetryTimerFires, StrayTimerFires, TypeOK
  <2>2. QED  BY <2>1, LiveCallGrows
<1>5. QED  BY <1>1, <1>2, <1>3, <1>4

\* A growing step keeps the three parts.
LEMMA GrowsSafe ==
    ASSUME TypeOK, SafetyInv, Grows, SameEra
    PROVE  SafetyInv'
<1>1. EditsKept'
  BY GrowsEdits DEF SafetyInv, SameEra
<1>2. FlushKept'
  BY GrowsFlush DEF SafetyInv
<1>3. CutsCounted'
  BY GrowsCuts DEF SafetyInv, SameEra
<1>4. QED  BY <1>1, <1>2, <1>3 DEF SafetyInv

\* A room is created over the stored content, which is then all there is.
LEMMA CreateSafe ==
    ASSUME TypeOK, StoreInv, SafetyInv, NEW k \in Sockets, Create(k)
    PROVE  SafetyInv'
<1> DEFINE r == born + 1
           s == NewRoom(task[k].seen)
<1>1. r \in Rooms /\ task[k] \in TaskState /\ s \in RoomState
  BY BoundsAssumption, NewRoomType DEF Create, TypeOK, Rooms, TaskState
<1>2. /\ room = NoRoom /\ \A p \in Persists : op[p].pc = "idle"
      /\ task[k].seen = db
  BY DEF StoreInv, LoadsAreFresh, Create, Active
<1>3. s.doc = db /\ s.cuts = 0 /\ ~s.recentSave
  BY <1>2 DEF NewRoom
<1>4. /\ room' = r /\ r # NoRoom /\ db' = db
      /\ UNCHANGED <<mode, flushOp, flushed, failures, restarts>>
  BY <1>1 DEF Create, Rooms, NoRoom
<1>5. /\ db \subseteq heap'[r].doc /\ heap'[r].cuts = 0
      /\ \A q \in Rooms \ {r} : heap'[q] = heap[q]
      /\ \A p \in Persists : op'[p].pc \in {"idle", "lock"}
      /\ \A e \in accepted' \ accepted : e \in heap'[r].doc
  <2>1. CASE TrackJoin(r, s, k) /\ UNCHANGED <<op, accepted>>
    BY <1>1, <1>2, <1>3, <2>1 DEF TrackJoin, TypeOK, RoomState
  <2>2. CASE \E e \in task[k].edit : ApplyUpdate(r, s, e)
    <3>1. PICK e \in task[k].edit : ApplyUpdate(r, s, e)
      BY <2>2
    <3>2. e \in Edits
      BY <1>1, <3>1 DEF TaskState
    <3>3. QED  BY <1>1, <1>2, <1>3, <3>1, <3>2, ApplyUpdateGrows
  <2>3. QED  BY <2>1, <2>2 DEF Create
<1>6. EditsKept'
  <2>1. failures = 0 /\ restarts = 0 /\ mode = "up" => accepted \subseteq db
    BY <1>2 DEF SafetyInv, EditsKept, Kept
  <2>2. QED  BY <1>4, <1>5, <2>1 DEF EditsKept, Kept
<1>7. FlushKept'
  <2>1. FlushCarries => FALSE
    BY <1>2 DEF FlushCarries
  <2>2. QED  BY <1>4, <2>1 DEF SafetyInv, FlushKept
<1>8. CutsCounted'
  BY <1>4, <1>5 DEF SafetyInv, CutsCounted
<1>9. QED  BY <1>6, <1>7, <1>8 DEF SafetyInv

\* Between its awaits persistRoom hands on the copy it carries.
LEMMA AcquireSafe ==
    ASSUME TypeOK, StoreInv, SafetyInv, NEW p \in Persists, Acquire(p)
    PROVE  SafetyInv'
<1>1. /\ op'[p].pc = "write" /\ op'[p].snap = heap[op[p].room].doc
      /\ \A q \in Persists \ {p} : op'[q] = op[q]
  BY ActiveOp DEF Acquire, TypeOK
<1>2. /\ op[p].pc = "lock"
      /\ UNCHANGED <<mode, room, heap, db, flushOp, accepted, flushed,
                     failures, restarts>>
  BY DEF Acquire
<1>3. ASSUME NEW e, Kept(e)
      PROVE  Kept(e)'
  BY <1>1, <1>2, <1>3 DEF Kept
<1>4. EditsKept'
  BY <1>2, <1>3 DEF SafetyInv, EditsKept
<1>5. FlushCarries => FlushCarries'
  BY <1>1, <1>2 DEF FlushCarries
<1>6. FlushKept'
  BY <1>2, <1>5 DEF SafetyInv, FlushKept
<1>7. CutsCounted'
  BY <1>1, <1>2 DEF SafetyInv, CutsCounted
<1>8. QED  BY <1>4, <1>6, <1>7 DEF SafetyInv

LEMMA WriteSafe ==
    ASSUME TypeOK, StoreInv, SafetyInv, NEW p \in Persists, WriteDone(p)
    PROVE  SafetyInv'
<1> DEFINE r == op[p].room
<1>1. /\ op[p].pc = "write" /\ r \in Rooms /\ db' = op[p].snap
      /\ op[p].locked /\ db \subseteq op[p].snap
      /\ UNCHANGED <<mode, room, flushOp, accepted, flushed, failures, restarts>>
  BY ActiveOp DEF WriteDone, StoreInv, CopiesOrdered, WritesSerialized, Active
<1>2. /\ op'[p].pc \in {"save", "unlock"} /\ op'[p].room = r
      /\ op'[p].pc = "save" => SaveDue(heap[r])
      /\ \A q \in Persists \ {p} : op'[q] = op[q]
  BY <1>1, ActiveOp DEF WriteDone, Ended, TypeOK
<1>3. \A q \in Rooms : /\ heap'[q].doc = heap[q].doc
                       /\ heap'[q].cuts = heap[q].cuts
                       /\ heap'[q].recentSave = heap[q].recentSave
  BY <1>1 DEF WriteDone, TypeOK, RoomState
<1>4. \A q \in Persists : op[q].pc # "idle" => op[q].room \in Rooms
  BY ActiveOp
<1>5. ASSUME NEW e, Kept(e)
      PROVE  Kept(e)'
  BY <1>1, <1>2, <1>3, <1>4, <1>5, RoomInRooms DEF Kept
<1>6. EditsKept'
  BY <1>1, <1>5 DEF SafetyInv, EditsKept
<1>7. FlushCarries => FlushCarries' \/ flushed \subseteq db'
  BY <1>1, <1>2, <1>3, <1>4 DEF FlushCarries
<1>8. FlushKept'
  <2>1. flushed \subseteq db => flushed' \subseteq db'
    BY <1>1
  <2>2. QED  BY <1>1, <1>7, <2>1 DEF SafetyInv, FlushKept
<1>9. CutsCounted'
  <2> SUFFICES ASSUME failures = 0
               PROVE  CutsCounted'
    BY <1>1 DEF CutsCounted
  <2>1. op'[p].pc = "save" => heap[r].cuts = 0
    BY <1>1, <1>2 DEF SafetyInv, CutsCounted, SaveDue
  <2>2. \A q \in Persists : op'[q].pc = "save" => heap[op'[q].room].cuts = 0
                                                  /\ op'[q].room \in Rooms
    BY <1>1, <1>2, <1>4, <2>1 DEF SafetyInv, CutsCounted
  <2>3. \A q \in Rooms : \/ heap'[q].cuts = 0
                         \/ heap'[q].cuts = 1 /\ heap'[q].recentSave
    BY <1>3 DEF SafetyInv, CutsCounted
  <2>4. QED  BY <1>3, <2>2, <2>3 DEF CutsCounted
<1>10. QED  BY <1>6, <1>8, <1>9 DEF SafetyInv

\* A call that cut its version, or that releases its lock, carries no copy.
LEMMA SaveSafe ==
    ASSUME TypeOK, StoreInv, SafetyInv, NEW p \in Persists,
           SaveDone(p) \/ Release(p)
    PROVE  SafetyInv'
<1> DEFINE r == op[p].room
<1>1. /\ op[p].pc \in {"save", "unlock"} /\ r \in Rooms
      /\ op[p].pc = "save" => op[p].locked
      /\ UNCHANGED <<mode, room, db, flushOp, accepted, flushed, failures, restarts>>
  BY ActiveOp DEF SaveDone, Release, StoreInv, WritesSerialized
<1>2. /\ op'[p].pc \in {"idle", "unlock"}
      /\ \A q \in Persists \ {p} : op'[q] = op[q]
  BY <1>1, ActiveOp DEF SaveDone, Release, Ended, NoOp, TypeOK
<1>3. \A q \in Rooms : heap'[q].doc = heap[q].doc
  BY <1>1 DEF SaveDone, Release, TypeOK, RoomState
<1>4. \A q \in Persists : op[q].pc # "idle" => op[q].room \in Rooms
  BY ActiveOp
<1>5. ASSUME NEW e, Kept(e)
      PROVE  Kept(e)'
  BY <1>1, <1>2, <1>3, <1>4, <1>5, RoomInRooms DEF Kept
<1>6. EditsKept'
  BY <1>1, <1>5 DEF SafetyInv, EditsKept
<1>7. FlushCarries => FlushCarries'
  BY <1>1, <1>2, <1>3, <1>4 DEF FlushCarries
<1>8. FlushKept'
  BY <1>1, <1>7 DEF SafetyInv, FlushKept
<1>9. CutsCounted'
  <2> SUFFICES ASSUME failures = 0
               PROVE  CutsCounted'
    BY <1>1 DEF CutsCounted
  <2>1. CASE SaveDone(p)
    <3>1. heap[r].cuts = 0
      BY <2>1 DEF SafetyInv, CutsCounted, SaveDone
    <3>2. /\ heap'[r].cuts = 1 /\ heap'[r].recentSave
          /\ \A q \in Rooms \ {r} : heap'[q] = heap[q]
      BY <1>1, <2>1, <3>1 DEF SaveDone, TypeOK, RoomState
    <3>3. \A q \in Persists : op'[q].pc # "save"
      BY <1>1, <1>2, <2>1 DEF SaveDone, StoreInv, WritesSerialized
    <3>4. \A q \in Rooms : \/ heap'[q].cuts = 0
                           \/ heap'[q].cuts = 1 /\ heap'[q].recentSave
      BY <3>2 DEF SafetyInv, CutsCounted
    <3>5. QED  BY <3>3, <3>4 DEF CutsCounted
  <2>2. CASE Release(p)
    BY <1>2, <2>2 DEF Release, SafetyInv, CutsCounted
  <2>3. QED  BY <2>1, <2>2
<1>10. QED  BY <1>6, <1>8, <1>9 DEF SafetyInv

\* ... shutdown, exit and boot do.
LEMMA StopSafe ==
    ASSUME TypeOK, StoreInv, StableLock, SafetyInv,
           Flush \/ FlushDone \/ Restart \/ LockExpiry \/ RedisChanges
    PROVE  SafetyInv'
<1>1. CASE Flush
  <2>1. /\ mode = "up" /\ mode' = "flushing"
        /\ UNCHANGED <<room, db, accepted, failures, restarts>>
    BY <1>1 DEF Flush
  <2>2. CASE room = NoRoom
    <3>1. Grows /\ flushed' = {}
      BY <1>1, <2>2 DEF Flush, Grows
    <3>2. QED  BY <2>1, <3>1, GrowsEdits, GrowsCuts DEF SafetyInv, FlushKept
  <2>3. CASE room # NoRoom
    <3>1. room \in Rooms /\ redis
      BY <2>3, RoomInRooms DEF StoreInv, WritesSerialized
    <3>2. PICK p \in Persists :
            /\ ~Active(p) /\ flushOp' = p
            /\ op' = [op EXCEPT ![p] = Started(room, heap[room])]
      BY <1>1, <2>3 DEF Flush
    <3>3. /\ op'[p].pc = "lock" /\ op'[p].room = room
          /\ \A q \in Persists \ {p} : op'[q] = op[q]
      BY <3>1, <3>2 DEF Started, TypeOK
    <3>4. \A r \in Rooms : /\ heap'[r].doc = heap[r].doc
                           /\ heap'[r].cuts = heap[r].cuts
                           /\ heap'[r].recentSave = heap[r].recentSave
      BY <1>1, <2>3, <3>1 DEF Flush, TypeOK, RoomState
    <3>5. Grows
      BY <2>1, <3>2, <3>3, <3>4 DEF Grows, Active
    <3>6. flushed' = heap[room].doc
      BY <1>1, <2>3 DEF Flush
    <3>7. FlushKept'
      BY <2>1, <3>1, <3>2, <3>3, <3>4, <3>6 DEF FlushKept, FlushCarries
    <3>8. QED  BY <2>1, <3>5, <3>7, GrowsEdits, GrowsCuts DEF SafetyInv
  <2>4. QED  BY <2>2, <2>3
<1>2. CASE FlushDone
  <2>1. /\ mode = "flushing" /\ mode' = "down"
        /\ UNCHANGED <<op, db, flushOp, flushed, failures>>
        /\ flushOp # "none" => op[flushOp].pc = "idle"
    BY <1>2 DEF FlushDone, FlushResolved, Active
  <2>2. ~FlushCarries
    BY <2>1, PersistsAssumption DEF FlushCarries
  <2>3. \A r \in Rooms : /\ heap'[r].cuts = heap[r].cuts
                         /\ heap'[r].recentSave = heap[r].recentSave
    BY <1>2 DEF FlushDone, TypeOK, RoomState
  <2>4. EditsKept' /\ FlushKept'
    BY <2>1, <2>2 DEF SafetyInv, EditsKept, FlushKept
  <2>5. \A p \in Persists : op[p].pc = "save" => op[p].room \in Rooms
    BY ActiveOp
  <2>6. CutsCounted'
    BY <2>1, <2>3, <2>5 DEF SafetyInv, CutsCounted
  <2>7. QED  BY <2>4, <2>6 DEF SafetyInv
<1>3. CASE Restart
  <2>1. /\ mode' = "up" /\ restarts' # 0
        /\ \A r \in Rooms : heap'[r].cuts = 0
        /\ \A p \in Persists : op'[p].pc = "idle"
    BY <1>3 DEF Restart, TypeOK, NewRoom, NoOp
  <2>2. QED  BY <2>1 DEF SafetyInv, EditsKept, FlushKept, CutsCounted
<1>4. CASE LockExpiry \/ RedisChanges
  BY <1>4 DEF LockExpiry, RedisChanges, StableLock, StoreInv, WritesSerialized
<1>5. QED  BY <1>1, <1>2, <1>3, <1>4

\* Every step does, and a failure ends what is promised.
LEMMA SafeStep ==
    ASSUME StableLock, TypeOK, StoreInv, SafetyInv, [Next]_vars
    PROVE  SafetyInv'
<1>1. ASSUME NEW k \in Sockets,
             \/ Join(k) \/ Find(k) \/ Leave(k) \/ Disconnect(k)
             \/ \E e \in Edits : Edit(k, e)
      PROVE  SafetyInv'
  <2>1. SameEra
    BY <1>1 DEF Join, Find, Leave, Disconnect, Edit, SameEra
  <2>2. QED  BY <1>1, <2>1, HandlerGrows, GrowsSafe
<1>2. ASSUME \/ \E r \in Rooms : \/ PersistTimerFires(r) \/ CleanupTimerFires(r)
                                 \/ PersistWindowEnds(r) \/ SaveWindowEnds(r)
             \/ RetryTimerFires \/ StrayTimerFires
      PROVE  SafetyInv'
  <2>1. SameEra
    BY <1>2 DEF PersistTimerFires, CleanupTimerFires, PersistWindowEnds,
                SaveWindowEnds, RetryTimerFires, StrayTimerFires, SameEra
  <2>2. QED  BY <1>2, <2>1, TimerGrows, GrowsSafe
<1>3. ASSUME NEW p \in Persists, PersistFails(p)
      PROVE  SafetyInv'
  <2>1. failures' # 0
    BY <1>3 DEF PersistFails, TypeOK
  <2>2. QED  BY <2>1 DEF SafetyInv, EditsKept, FlushKept, CutsCounted
<1>4. CASE UNCHANGED vars
  BY <1>4, GrowsSafe DEF vars, Grows, SameEra
<1>5. CASE Next
  BY <1>1, <1>2, <1>3, <1>5, CreateSafe, AcquireSafe, WriteSafe, SaveSafe,
     StopSafe DEF Next
<1>6. QED  BY <1>4, <1>5

\* While nothing fails, no accepted update is lost by an eviction or a reload,
\* a graceful shutdown has stored what was live, and an interval cuts one
\* version (cleanup timer, flushAllRooms, the auto-save of persistRoom).
THEOREM NothingLost == ASSUME StableLock PROVE Spec => []StoreSafety
<1>1. Init => SafetyInv
  BY DEF Init, SafetyInv, EditsKept, FlushKept, CutsCounted, NewRoom, NoOp
<1>2. TypeOK /\ StoreInv /\ SafetyInv /\ [Next]_vars => SafetyInv'
  BY SafeStep
<1>3. TypeOK /\ StoreInv /\ SafetyInv => StoreSafety
  <2> SUFFICES ASSUME TypeOK, StoreInv, SafetyInv
               PROVE  StoreSafety
    OBVIOUS
  <2>1. \A p \in Persists :
           op[p].pc = "write" => op[p].snap \subseteq heap[op[p].room].doc
    BY DEF StoreInv, CopiesOrdered, Active
  <2>2. EditsSurvive
    BY <2>1 DEF SafetyInv, EditsKept, Kept, EditsSurvive
  <2>3. ShutdownStores
    BY DEF SafetyInv, FlushKept, ShutdownStores
  <2>4. OneSavePerInterval
    BY DEF SafetyInv, CutsCounted, OneSavePerInterval
  <2>5. QED  BY <2>2, <2>3, <2>4 DEF StoreSafety
<1>4. QED  BY <1>1, <1>2, <1>3, TypeCorrect, StoreInvariant, PTL DEF Spec

(* ------------------- Eviction and the tracked sockets ------------------- *)

\* Every cleanup timer belongs to the live room, and every socket of the
\* Socket.IO room is tracked in it.
TrackInv ==
    /\ strayTimers = 0
    /\ \A r \in Rooms : heap[r].cleanupTimer => r = room
    /\ \A k \in Sockets :
          conn[k] = "in" => room # NoRoom /\ k \in heap[room].sockets

\* A step that arms no timer and changes no socket.
LEMMA TrackFrame ==
    ASSUME TypeOK, TrackInv, UNCHANGED <<room, strayTimers>>,
           \A k \in Sockets : conn'[k] = "in" => conn[k] = "in",
           \A r \in Rooms : /\ heap'[r].cleanupTimer => heap[r].cleanupTimer
                            /\ heap'[r].sockets = heap[r].sockets
    PROVE  TrackInv'
BY RoomInRooms DEF TrackInv

\* Handlers track whom they let into the Socket.IO room,
LEMMA HandlerTracks ==
    ASSUME TypeOK, StoreInv, ArmedMeansEmpty, TrackInv, ~StrayLeaves,
           NEW k \in Sockets,
           \/ Join(k) \/ Find(k) \/ Create(k) \/ Leave(k) \/ Disconnect(k)
           \/ \E e \in Edits : Edit(k, e)
    PROVE  TrackInv'
<1>1. CASE Join(k)
  <2>1. CASE room # NoRoom /\ TrackJoin(room, heap[room], k)
    <3>1. room \in Rooms /\ UNCHANGED <<room, strayTimers>>
      BY <1>1, <2>1, RoomInRooms DEF Join
    <3>2. /\ ~heap'[room].cleanupTimer
          /\ heap'[room].sockets = heap[room].sockets \cup {k}
          /\ \A q \in Rooms \ {room} : heap'[q] = heap[q]
          /\ \A j \in Sockets \ {k} : conn'[j] = conn[j]
      BY <2>1, <3>1 DEF TrackJoin, TypeOK, RoomState
    <3>3. QED  BY <2>1, <3>1, <3>2 DEF TrackInv
  <2>2. CASE UNCHANGED <<heap, conn>>
    BY <1>1, <2>2, TrackFrame DEF Join
  <2>3. QED  BY <1>1, <2>1, <2>2 DEF Join
<1>2. CASE \E e \in Edits : Edit(k, e)
  <2>0. PICK e \in Edits : Edit(k, e)
    BY <1>2
  <2>1. UNCHANGED <<room, strayTimers, conn>>
    BY <2>0 DEF Edit
  <2>2. CASE room # NoRoom /\ ApplyUpdate(room, heap[room], e)
    <3>1. room \in Rooms /\ heap[room] \in RoomState
      BY <2>2, RoomInRooms DEF TypeOK
    <3>2. QED  BY <2>1, <2>2, <3>1, ApplyUpdateArmed, TrackFrame
  <2>3. CASE heap' = heap
    BY <2>1, <2>3, TrackFrame
  <2>4. QED  BY <2>0, <2>2, <2>3 DEF Edit
<1>3. CASE Create(k)
  <2> DEFINE r == born + 1
             s == NewRoom(task[k].seen)
  <2>1. r \in Rooms /\ task[k] \in TaskState /\ s \in RoomState
    BY <1>3, BoundsAssumption, NewRoomType DEF Create, TypeOK, Rooms, TaskState
  <2>2. room = NoRoom
    BY <1>3 DEF Create, StoreInv, LoadsAreFresh
  <2>3. /\ strayTimers' = 0 /\ room' = r /\ r # NoRoom
        /\ \A q \in Rooms : ~heap[q].cleanupTimer
        /\ \A j \in Sockets : conn[j] # "in"
    BY <1>3, <2>1, <2>2 DEF Create, TrackInv, Rooms, NoRoom
  <2>4. ~s.cleanupTimer
    BY DEF NewRoom
  <2>5. CASE TrackJoin(r, s, k)
    <3>1. /\ ~heap'[r].cleanupTimer /\ k \in heap'[r].sockets
          /\ \A q \in Rooms \ {r} : heap'[q] = heap[q]
          /\ \A j \in Sockets \ {k} : conn'[j] = conn[j]
      BY <2>1, <2>5 DEF TrackJoin, TypeOK, RoomState
    <3>2. QED  BY <2>3, <3>1 DEF TrackInv
  <2>6. CASE conn' = conn /\ \E e \in task[k].edit : ApplyUpdate(r, s, e)
    <3>1. PICK e \in task[k].edit : ApplyUpdate(r, s, e)
      BY <2>6
    <3>2. e \in Edits
      BY <2>1 DEF TaskState
    <3>3. /\ ~heap'[r].cleanupTimer
          /\ \A q \in Rooms \ {r} : heap'[q] = heap[q]
      BY <2>1, <2>4, <3>1, <3>2, ApplyUpdateArmed
    <3>4. QED  BY <2>3, <2>6, <3>3 DEF TrackInv
  <2>7. QED  BY <1>3, <2>5, <2>6 DEF Create
<1>4. CASE Leave(k)
  <2>1. /\ room' = room
        /\ \A j \in Sockets : conn'[j] = "in" => j # k /\ conn[j] = "in"
    BY <1>4 DEF Leave, TypeOK
  <2>2. CASE room = NoRoom
    BY <1>4, <2>1, <2>2, TrackFrame DEF Leave, TrackLeave
  <2>3. CASE room # NoRoom
    <3>1. room \in Rooms /\ heap[room] \in RoomState
      BY <2>3, RoomInRooms DEF TypeOK
    <3>2. k \in heap[room].sockets
      BY <1>4, <2>3 DEF Leave, TrackInv, StoreInv, LoadsAreFresh
    <3>3. ~heap[room].cleanupTimer
      BY <3>1, <3>2 DEF ArmedMeansEmpty
    <3>4. strayTimers' = strayTimers
      BY <1>4, <2>3, <3>3 DEF Leave, TrackLeave
    <3>5. /\ heap'[room].sockets = heap[room].sockets \ {k}
          /\ \A q \in Rooms \ {room} : heap'[q] = heap[q]
      BY <1>4, <2>3, <3>1 DEF Leave, TrackLeave, TypeOK, RoomState
    <3>6. QED  BY <2>1, <3>1, <3>4, <3>5 DEF TrackInv
  <2>4. QED  BY <2>2, <2>3
<1>5. CASE Find(k)
  BY <1>5, TrackFrame DEF Find
<1>6. CASE Disconnect(k)
  BY <1>6, TrackFrame DEF Disconnect, TypeOK
<1>7. QED  BY <1>1, <1>2, <1>3, <1>4, <1>5, <1>6

\* ... the cleanup timer evicts a room nobody is in,
LEMMA CleanupTracks ==
    ASSUME TypeOK, ArmedMeansEmpty, TrackInv, NEW r \in Rooms, CleanupTimerFires(r)
    PROVE  TrackInv' /\ r = room /\ heap[room].sockets = {}
<1> DEFINE h == [heap EXCEPT ![r].cleanupTimer = FALSE]
<1>1. h \in [Rooms -> RoomState]
  <2>1. [heap[r] EXCEPT !.cleanupTimer = FALSE] \in RoomState
    BY DEF TypeOK, RoomState
  <2>2. QED  BY <2>1 DEF TypeOK
<1>2. /\ ~h[r].cleanupTimer
      /\ \A q \in Rooms \ {r} : h[q].cleanupTimer = heap[q].cleanupTimer
  BY DEF TypeOK, RoomState
<1>3. /\ PersistLiveRoom(h) /\ room' = NoRoom /\ heap[r].cleanupTimer
      /\ UNCHANGED <<strayTimers, conn>>
  BY DEF CleanupTimerFires
<1>4. r = room /\ heap[room].sockets = {}
  BY <1>3 DEF TrackInv, ArmedMeansEmpty
<1>5. \A q \in Rooms : ~heap'[q].cleanupTimer
  BY <1>1, <1>2, <1>3, <1>4, PersistLiveRoomArmed DEF TrackInv
<1>6. \A k \in Sockets : conn[k] # "in"
  BY <1>4 DEF TrackInv
<1>7. QED  BY <1>3, <1>4, <1>5, <1>6 DEF TrackInv

\* ... the other timers touch neither,
LEMMA TimerTracks ==
    ASSUME TypeOK, TrackInv,
           \/ \E r \in Rooms : \/ PersistTimerFires(r) \/ PersistWindowEnds(r)
                               \/ SaveWindowEnds(r)
           \/ RetryTimerFires
    PROVE  TrackInv'
<1>1. ASSUME NEW r \in Rooms, PersistTimerFires(r)
      PROVE  TrackInv'
  <2> DEFINE h == [heap EXCEPT ![r].persistTimer = FALSE]
  <2>1. [heap[r] EXCEPT !.persistTimer = FALSE] \in RoomState
    BY DEF TypeOK, RoomState
  <2>2. /\ h \in [Rooms -> RoomState]
        /\ \A q \in Rooms : /\ h[q].cleanupTimer = heap[q].cleanupTimer
                            /\ h[q].sockets = heap[q].sockets
    BY <2>1 DEF TypeOK, RoomState
  <2>3. PersistLiveRoom(h) /\ UNCHANGED <<room, strayTimers, conn>>
    BY <1>1 DEF PersistTimerFires
  <2>4. QED  BY <2>2, <2>3, PersistLiveRoomArmed, TrackFrame
<1>2. ASSUME NEW r \in Rooms, PersistWindowEnds(r) \/ SaveWindowEnds(r)
      PROVE  TrackInv'
  <2>1. /\ \A q \in Rooms : /\ heap'[q].cleanupTimer = heap[q].cleanupTimer
                            /\ heap'[q].sockets = heap[q].sockets
        /\ UNCHANGED <<room, strayTimers, conn>>
    BY <1>2 DEF PersistWindowEnds, SaveWindowEnds, TypeOK, RoomState
  <2>2. QED  BY <2>1, TrackFrame
<1>3. CASE RetryTimerFires
  <2>1. /\ PersistLiveRoom(heap) /\ heap \in [Rooms -> RoomState]
        /\ UNCHANGED <<room, strayTimers, conn>>
    BY <1>3 DEF RetryTimerFires, TypeOK
  <2>2. QED  BY <2>1, PersistLiveRoomArmed, TrackFrame
<1>4. QED  BY <1>1, <1>2, <1>3

\* ... nor does persistRoom between its awaits,
LEMMA PersistTracks ==
    ASSUME TypeOK, TrackInv, NEW p \in Persists,
           \/ Acquire(p) \/ WriteDone(p) \/ SaveDone(p)
           \/ PersistFails(p) \/ Release(p)
    PROVE  TrackInv' /\ room' = room
<1>1. op[p].room \in Rooms
  BY ActiveOp DEF Acquire, WriteDone, SaveDone, PersistFails, Release
<1>2. \A r \in Rooms : /\ heap'[r].cleanupTimer = heap[r].cleanupTimer
                       /\ heap'[r].sockets = heap[r].sockets
  BY <1>1 DEF Acquire, WriteDone, SaveDone, PersistFails, Release, TypeOK, RoomState
<1>3. UNCHANGED <<room, strayTimers, conn>>
  BY DEF Acquire, WriteDone, SaveDone, PersistFails, Release
<1>4. QED  BY <1>2, <1>3, TrackFrame

\* ... and shutdown, exit and boot empty everything.
LEMMA StopTracks ==
    ASSUME TypeOK, TrackInv,
           Flush \/ FlushDone \/ Restart \/ LockExpiry \/ RedisChanges
    PROVE  TrackInv'
<1>1. CASE Flush
  <2>1. /\ \A q \in Rooms : /\ heap'[q].cleanupTimer = heap[q].cleanupTimer
                            /\ heap'[q].sockets = heap[q].sockets
        /\ UNCHANGED <<room, strayTimers, conn>>
    BY <1>1, RoomInRooms DEF Flush, TypeOK, RoomState
  <2>2. QED  BY <2>1, TrackFrame
<1>2. CASE FlushDone
  <2>1. \A r \in Rooms : ~heap'[r].cleanupTimer
    BY <1>2 DEF FlushDone, TrackInv, TypeOK, RoomState
  <2>2. QED  BY <1>2, <2>1 DEF FlushDone, TrackInv
<1>3. CASE Restart
  BY <1>3 DEF Restart, TrackInv, NewRoom
<1>4. CASE LockExpiry \/ RedisChanges
  BY <1>4, TrackFrame DEF LockExpiry, RedisChanges
<1>5. QED  BY <1>1, <1>2, <1>3, <1>4

\* Every step keeps the sockets tracked and evicts an empty room only.
LEMMA TrackStep ==
    ASSUME ~StrayLeaves, TypeOK, StoreInv, ArmedMeansEmpty, TrackInv, [Next]_vars
    PROVE  /\ TrackInv'
           /\ room # NoRoom /\ room' = NoRoom /\ mode' = "up"
              /\ restarts' = restarts => heap[room].sockets = {}
<1> DEFINE Evicts == room # NoRoom /\ room' = NoRoom /\ mode' = "up"
                     /\ restarts' = restarts
<1>1. ASSUME NEW k \in Sockets,
             \/ Join(k) \/ Find(k) \/ Create(k) \/ Leave(k) \/ Disconnect(k)
             \/ \E e \in Edits : Edit(k, e)
      PROVE  TrackInv' /\ ~Evicts
  <2>1. room' = room \/ room = NoRoom
    BY <1>1 DEF Join, Find, Create, Leave, Disconnect, Edit, StoreInv, LoadsAreFresh
  <2>2. QED  BY <1>1, <2>1, HandlerTracks
<1>2. ASSUME \/ \E r \in Rooms : \/ PersistTimerFires(r) \/ PersistWindowEnds(r)
                                 \/ SaveWindowEnds(r)
             \/ RetryTimerFires
      PROVE  TrackInv' /\ ~Evicts
  <2>1. room' = room
    BY <1>2 DEF PersistTimerFires, PersistWindowEnds, SaveWindowEnds, RetryTimerFires
  <2>2. QED  BY <1>2, <2>1, TimerTracks
<1>3. ASSUME Flush \/ FlushDone \/ Restart \/ LockExpiry \/ RedisChanges
      PROVE  TrackInv' /\ ~Evicts
  <2>1. CASE Flush \/ LockExpiry \/ RedisChanges
    <3>1. room' = room
      BY <2>1 DEF Flush, LockExpiry, RedisChanges
    <3>2. QED  BY <1>3, <3>1, StopTracks
  <2>2. CASE FlushDone
    <3>1. mode' = "down"
      BY <2>2 DEF FlushDone
    <3>2. QED  BY <1>3, <3>1, StopTracks
  <2>3. CASE Restart
    <3>1. restarts' # restarts
      BY <2>3 DEF Restart, TypeOK
    <3>2. QED  BY <1>3, <3>1, StopTracks
  <2>4. QED  BY <1>3, <2>1, <2>2, <2>3
<1>4. ~StrayTimerFires
  BY DEF StrayTimerFires, TrackInv
<1>5. CASE UNCHANGED vars
  BY <1>5, TrackFrame DEF vars
<1>6. CASE Next
  BY <1>1, <1>2, <1>3, <1>4, <1>6, CleanupTracks, PersistTracks DEF Next
<1>7. QED  BY <1>5, <1>6

\* With no room:leave from outside the room, a running process drops the room
\* from the Map only when no socket is tracked in it (trackSocketJoin,
\* trackSocketLeave and its cleanup timer).
THEOREM EvictionsFindItEmpty ==
    ASSUME StableLock, ~StrayLeaves
    PROVE  Spec => EvictOnlyEmpty
<1>1. Init => TrackInv
  BY DEF Init, TrackInv, NewRoom
<1>2. TypeOK /\ StoreInv /\ ArmedMeansEmpty /\ TrackInv /\ [Next]_vars => TrackInv'
  BY TrackStep
<1>3. TypeOK /\ StoreInv /\ ArmedMeansEmpty /\ TrackInv /\ [Next]_vars
        => [room # NoRoom /\ room' = NoRoom /\ mode' = "up"
            /\ restarts' = restarts => heap[room].sockets = {}]_vars
  BY TrackStep
<1>4. QED
  BY <1>1, <1>2, <1>3, TypeCorrect, StoreInvariant, TimersRespectSockets, PTL
     DEF Spec, EvictOnlyEmpty
============================================================================
