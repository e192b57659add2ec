# Verification of the collaborative code editor

This directory holds TLA+ models of the editor's server and of the client state
that depends on it, the TLC configurations that check them on small instances,
and theorems that the TLA+ proof system (TLAPS) checks for every value of the
constants. Paths are relative to the repository's root, `src/`.

1. [The system](#1-the-system): components, state, interaction, hard behaviours
2. [The modules](#2-the-modules), the runs at a glance
3. [RoomStore](#3-roomstore-the-live-document-and-its-persistence): the live document and its persistence
4. [Versions](#4-versions-publish-auto-save-restore): publish, auto-save, restore
5. [Collab, Presence, Documents](#5-collab-presence-documents-who-edits-what-with-whom): browsers, rooms, rows and lists
6. [Trigger](#6-trigger-one-run-per-delivery-and-per-tick): one run per delivery and per tick
7. [AgentRun and RunPage](#7-agentrun-and-runpage-a-run-and-the-page-that-shows-it): a run and the page that shows it
8. [Stream](#8-stream-live-viewers-of-a-run): live viewers of a run
9. [Quota, Sandbox, VerifyFix](#9-quota-sandbox-verifyfix-shared-limits): shared limits
10. [Review](#10-review-a-streamed-ai-review): a streamed AI review
11. [Sessions](#11-sessions-tokens-and-the-refresh-queue): tokens and the refresh queue
12. [Findings](#12-findings)
13. [Not modelled, and the plan](#13-not-modelled-and-the-plan)

## 1. The system

The program is a Node server (`server/src`) with a React client
(`client/src`). MongoDB stores users, documents, versions and agent runs; Redis
backs the Socket.IO adapter, the document lock (Redlock), the list cache, the
presence hash, the rate limiter, the BullMQ queue, the daily quota and the
idempotency keys. Node is single-threaded, so the unit of atomicity is the code
between two `await`s; everything hard in this system happens because something
else ran during an `await`, a timer, a lost connection or a crash.

| Component | State it keeps | Operations | What makes it correct |
|---|---|---|---|
| Collaborative room store (`services/crdt.service.js`, `server.js`) | `rooms: Map<docId, {doc, persistTimer, lastPersist, lastEditor, lastAutoSave, socketIds, cleanupTimer}>`; `Document.content` | load, merge an update, track join/leave, schedule/persist/retry, evict, flush, replace | accepted edits are not lost; what is stored only grows towards what was accepted; a room in use stays; an abandoned one goes |
| Socket handlers (`socket/*.js`) | Socket.IO room membership, presence hash or map | `room:join`, `room:leave`, `disconnect`, `sync:update`, `sync:state-vector`, awareness, chat | members see every edit, their edits arrive, only those with access stay, members are listed |
| Versions (`services/version.service.js`) | `Version` rows numbered per document | auto-save, publish, restore, delete, prune | numbers follow the order of saves; a restore wins over the live room and loses nothing that was stored; the newest auto-saves stay |
| Documents and sharing (`services/document.service.js`) | `Document` rows, the list cache | CRUD, visibility, deletion | a cached list is not stale after a change |
| Sessions (`services/auth.service.js`, `client/src/services/api.js`, `AuthContext.jsx`) | refresh cookie; copies of the access token; the client's refresh queue | sign in, refresh, sign out, reload | one identity; every request that waits for a refresh is answered; none is refused without a cause |
| HTTP middleware (`middleware/*`) | a sliding window per user in Redis | limit, validate, report | no more than the limit per window |
| Reviews and RAG (`services/review.service.js`, `rag.service.js`, `useReview.js`) | history rows; the panel's text, notice and loading flag | retrieve context, stream a model, fall back, save | a canned review is never taken for a real one; the panel shows one review; no review loads for ever |
| Run triggering (`agent-runner/services/run.service.js`, `idempotency.js`, `queue/`) | idempotency key in Redis, `AgentRun` row with a unique key, BullMQ job | trigger, replay, enqueue, release | one run per delivery key; a delivered run is executed or reported |
| Agent loop (`agent-runner/agent/orchestrator.js`, `queue/worker.js`) | the `AgentRun` row: status, attempts, Gemini calls | generate, execute, validate, retry, finalize | bounded calls; history is append-only; success is verified; every run ends once |
| Run streaming (`agent-runner/stream/*`) | SSE connections, subscriptions, a de-duplication set | replay, subscribe, publish, tear down | nothing due is missed, nothing is shown twice, streams end |
| The run's page (`RunDetailPage.jsx`, `useRunStream.js`) | the fetched run and the folded events | open, read, fold, read again at `done` | what it shows is on record; a settled page is current |
| Gemini quota (`agent-runner/quota/*`, `gemini.client.js`) | token bucket, daily counter in Redis and in memory | reserve, give back, retry | the cap is not passed; nobody is refused below it |
| Sandbox and reaper (`agent-runner/sandbox/*`) | Docker containers | execute with a deadline, remove, reap at boot | no container outlives its execution |
| Verify and fix (`services/verify-fix.service.js`, `execute.service.js`, the panels) | a session: cycle, test, program | demonstrate, fix, prove, report | a reported fix passed the test that the original failed |
| Scheduler (`agent-runner/scheduler/cron.js`) | tick lock per minute | fire due tasks | one firing per tick across instances |
| Client editor (`client/src/pages/Editor.jsx`, `CodeEditor.jsx`, `SocketContext.jsx`) | the fetched document, a Yjs document that lives as long as `CodeEditor`, socket state | fetch, fetch again, join, edit, receive, reconnect | local edits reach the server; an editor built anew misses nothing |
| Presentation (dashboard, logs, lists, toolbar) | what was fetched | render | none of its own |

**Interaction.** A socket handler calls `getOrCreateRoom`, which may suspend in
`Document.findById`, and then `trackSocketJoin` or `applyUpdate`; the Yjs
`update` event calls `schedulePersist` in the same callback; `persistRoom` takes
`lock:document:<id>`, writes the snapshot, may cut an auto-save version, and
unlocks. Timers call `persistRoom` by document id, long after the object that
armed them may have left the Map. Restoring a version writes MongoDB, then the
live room, then MongoDB again. Changing a document drops cached lists and, when
it becomes private, takes sockets out of the room. A webhook, a user or the
scheduler creates an `AgentRun` and a job; the worker runs the loop, which
reserves from the quota, executes in a container, patches the row and publishes
events that streams relay to browsers. Verify-and-fix and the Run button use the
same quota and the same sandbox.

**Hard behaviours**, each listed with its line under `hazards` in
`PROJECT.json`: two first accesses to a document at once; an eviction that does
not wait for its write; a retry that finds another room, or none; locks that
expire under their holder; crashes with a write in flight; a shutdown whose
flush swallows failures; check-then-act on version numbers, auto-save intervals
and caches; a restore racing a persist; a reconnection that is in no room; an
editor destroyed and built anew at every refresh of its page; a
kick racing a join; a delivery retried while its first attempt is half done; a
run executed again after its worker died; a stream that subscribes after it
replayed; two unordered reads and a stream folded into one page; counters that
fall back to memory; a reaper that removes what is in use; a refresh that fails
with requests queued behind it; a model that stalls, and a browser that restarts
its review.

## 2. The modules

| Module | Contents |
|---|---|
| `RoomStore` | one document's room, its sockets, timers, `persistRoom` calls, the lock, shutdown, crash and restart |
| `WriteBehind` | abstract specification: updates are accepted, and the stored copy grows within what was accepted |
| `MCRoomStore` | the symmetry used by the run without liveness |
| `RoomStoreProofs` | theorems of every configuration: types, `EditsCovered`, `ArmedMeansEmpty`; and under a stable lock: `StoreInv`, `StoredOnlyGrows`, the refinement of `WriteBehind`, `StoreSafety`, `EvictOnlyEmpty` |
| `Versions` | one document's versions: published, auto-saved, pruned, restored over the live room, deleted |
| `VersionsProofs` | theorems for any number of users, versions and faults: `VersionsInOrder`, `OnlyUnsavedIsLost`, types |
| `Collab` | one document in several browsers: pages that fetch it and build and destroy their replicas, sockets, handlers, the kick |
| `EditorProofs` | theorems of `Collab` and of `Review`, for any browsers, updates, reviews and models: `MembersLoseNothing`, `StrangersWereLate`, `PanelIsHonest`, types |
| `Presence` | the Socket.IO room and the presence entries of one document |
| `Documents` | the row of one document, the cached lists, requests, and the sockets of `Presence` |
| `MCDocuments` | whose the browsers and requests of the run are |
| `Trigger` | the requests that would start a run: deliveries of one key and firings of one tick; claim, unique index, queue, worker as far as jobs go |
| `RunOnce` | abstract specification: one run is made, and whoever is told a run is told that one |
| `TriggerProofs` | theorems of `Trigger`: types, with the invariant that ties a request's program counter to its run; the refinement of `RunOnce`, `RecordedWasQueued`, `QueuedIsWaiting`, `PendingHasOwner`, `OneRunPerTick` |
| `AgentRun` | `runAgent` on one row: attempts, budget, sandbox outcome, artifact, validation, replay, a second execution after a crash |
| `AgentRunProofs` | theorems of `AgentRun`: types, the bound on Gemini calls, terminal completion, a single end, append-only history, verified success, the earned verdict, audited success; and of `RunPage`: that it is a run, `PageIsTruthful` |
| `RunPage` | `AgentRun` with the events it publishes, the stream of one browser and the page that folds them |
| `Stream` | `streamRun` and the event bus: viewers on several instances, the local emitter, Redis pub/sub, de-duplication, teardown |
| `RunFeed` | abstract specification: a viewer is shown published events, none twice, none after the one that ends the run |
| `StreamProofs` | theorems of `Stream`: types, the shared subscription, the order of events, the refinement of `RunFeed`, that no viewer misses what it is due |
| `Quota` | one call of the model: slot, daily reservation over Redis and memory, tries |
| `Sandbox` | one container per execution with its deadline and clean-up; the boot reaper |
| `VerifyFix` | a verification, a snippet and an agent composed over `Quota` and `Sandbox`, with crash and boot |
| `VerifyFixProofs` | theorems for any callers, cap, cycles and bounds: `FixedIsProven`, `ResourcesAccountedFor`, types of all three modules |
| `Review` | a streamed review: server, models, stream, panel |
| `Sessions` | tokens, cookie, React state, and the interceptor's queue in one browser tab |
| `AccountProofs` | theorems of `Sessions` and of `Documents`, for any users, browsers and requests: `OneIdentity`, `DeniedForCause`, `CacheIsCurrent`, `MembersAreKnown`, types |

**Composition.** `RunPage` extends `AgentRun`: each step of the run publishes,
and the page interleaves with it. `VerifyFix` extends `Quota` and `Sandbox`, and
`Documents` extends `Presence`. The others meet at named interfaces. `Trigger`
sees an execution as one `Take` and one `Finish`, which `AgentRun` opens; what
it assumes, that `runAgent` returns with a terminal status or throws, is
`CompletedIsTerminal` and `RunEnds` there. `Stream` sees a run as events, a
terminal status and the event `done`, in the order of `Succeed` and `Final` in
`AgentRun`; its fairness on `Finish` and `Done` is what `RunEnds` says of a run
without failures. `RunPage` in turn abstracts the bus to one that delivers, which
is what `Stream` shows of an undisturbed one. `Versions` abstracts the room to
one that stays and whose persists run one at a time, which is what `RoomStore`
shows under a stable lock; `Collab` abstracts persistence away.

| Run | Module | Question |
|---|---|---|
| `RoomStoreSafety` | `MCRoomStore` | does the store lose anything across a failed write, a crash and a shutdown, and does everything get stored? |
| `RoomStoreRaces` | `MCRoomStore` | what is left when locks expire, loads race and leaves stray? |
| `Versions` | `Versions` | do saves, prunes and restores that overlap keep the history readable and the document intact? |
| `Collab` | `Collab` | do members miss anything, or lose what they typed, whatever their pages fetch again? |
| `CollabOffline` | `Collab` | do offline edits merge? **violated** |
| `Documents` | `MCDocuments` | are lists current, members permitted and listed? |
| `Trigger` | `Trigger` | one run per delivery and tick, executed? |
| `RunPage` | `RunPage` | is a run's success verified, and does its page tell the truth and settle? |
| `Stream` | `Stream` | does every viewer see what it is due, once, until the end? |
| `VerifyFix` | `VerifyFix` | are fixes proven and shared resources accounted for? |
| `Review` | `Review` | is the panel honest, and does it stop loading? |
| `Sessions` | `Sessions` | one identity, refusals with a cause, every request settled? |

A property that a theorem proves for every value of the constants is not always
checked by a run as well; each section says which are proved, which are run, and
which are both.

## 3. RoomStore: the live document and its persistence

### State and actions against the code

One document is modelled; rooms of different documents share nothing but the
Redis client. A Yjs document is the set of updates applied to it: merging is set
union, which is what makes it a CRDT, and a snapshot is the set itself. Wall
clock ages that the code compares with a threshold are booleans:
`recentPersist` is `Date.now() - lastPersist < persistMaxMs`, `recentSave` is
the same for `autoSaveIntervalMs`, and the `...WindowEnds` actions are the
passage of time. `heap` holds the room objects ever created, because timers and
suspended calls keep objects alive after `rooms` has dropped or replaced them;
`room` is the incarnation the Map holds.

| Code | Model |
|---|---|
| `room:join` with the room present / absent | `Join`, then `Find` and `Create` when `createRoom` had to load |
| `sync:update` | `Edit` (and `Find`, `Create` when the room is absent) |
| `applyUpdate`, the `update` listener and `schedulePersist` | `ApplyUpdate`, `SchedulePersist`: one callback |
| `trackSocketJoin`, `trackSocketLeave` | `TrackJoin`, `TrackLeave`; overwriting an armed cleanup handle leaves a timer nobody can clear (`strayTimers`) |
| `room:leave`, `disconnect` | `Leave`, `Disconnect`; at `disconnect` Socket.IO has emptied `socket.rooms`, so no leave is tracked |
| the debounce, retry and cleanup timers | `PersistTimerFires`, `RetryTimerFires`, `CleanupTimerFires`, `StrayTimerFires` |
| `persistRoom`, from one `await` to the next | `Started`, `Acquire`, `WriteDone`, `SaveDone`, `PersistFails`, `Release` |
| `flushAllRooms`, `shutdownRooms`, the rest of `shutdown` | `Flush`, `FlushDone` |
| process exit or crash, and boot | `Restart`: memory and timers go; a write in flight may or may not have reached MongoDB |
| Redis connecting, failing, closing | `RedisChanges` (which `getRedlock()` observes) |

The Redlock package is outside the repository. It is modelled from its use: the
lock has one holder, `acquire` waits or throws (`PersistFails` at `lock`), and a
lock may outlive neither its 2000 ms lifetime nor its holder's `release` unless
`LockExpires` says that calls can be slower than the lifetime or that a release
request can fail.

### Runs

| Run | Question | Result |
|---|---|---|
| `RoomStoreSafety` | With a stable lock and quiet cold starts, does the store lose anything across a failed write, a crash and a shutdown, and is everything stored in the end? | no, and yes: `StoreSafety` (`EditsSurvive`, `ShutdownStores`, `OneSavePerInterval`), `EvictOnlyEmpty`, `ImplementsWriteBehind`, `EditsEventuallyStored`, `EmptyRoomEvicted` |
| `RoomStoreRaces` | With Redis coming and going, expiring locks, racing loads and sockets that leave twice, leave while joining, or drop, is an unacknowledged update ever forgotten? | never: `EditsCovered` |

`StableLock` (in `RoomStoreProofs`) names what the first question assumes:
Redis is ready, a call is faster than its lock's lifetime, and a room is loaded
when nothing else runs for the document. Each part is necessary. Without the
lock an older snapshot can be written after a newer one; with racing loads a
handler may load the document before the evicted room's last write, or replace a
live room. `RoomStoreRaces` drops all three assumptions and shows what is left:
an update that is in the *live* room and not acknowledged always has a timer or
a call that will store it. It says nothing of updates that fell out of the live
room: two first accesses that race create two room objects, and what was applied
to the first is in no live room any more ([finding 1](#12-findings)). Likewise
`ShutdownStores` has the premise that no write fails during the flush, because
`flushAllRooms` does not learn of one that does (finding 2).

Two behaviours met on the way are worth knowing, although no document of the
repository promises otherwise. A room object created by a late `sync:update`
(its room having been evicted by a forgotten timer) has no tracked socket, hence
no cleanup timer, and stays until a join and a leave; therefore `EmptyRoomEvicted`
is checked without stray leaves. And an object orphaned by a racing load keeps
its cleanup timer, which names the document and evicts the room now in use;
therefore `EvictOnlyEmpty` is checked with quiet cold starts.

### Bounds

Two updates tell an older snapshot from a newer one, and two `persistRoom` calls
are the least that contend for the lock; `RoomStoreSafety` has both, with one
socket that joins, edits, leaves and comes back: under quiet cold starts nothing
overlaps a load, and in a live room a handler runs without an `await`, so a second
socket adds no interleaving. `RoomStoreRaces` has two sockets, which give the race
between two handlers, or between a handler and the last leave, one update, because
`EditsCovered` speaks of one at a time, and one slot for a call, a second one
being delayed until it is free. `MaxRooms = 2` gives an eviction and a reload, or
two racing loads. One failure is combined with everything else, and one crash and
a shutdown, or one forgotten timer. A socket has at most one suspended handler. An
id that dropped is not reused, as in Socket.IO. The theorems have none of these
bounds except that they are parameters.

### Fairness

Node runs every expired timer and every resumed handler, MongoDB and Redis
answer or fail, and an expiring lock expires: those actions are weakly fair.
Joins, edits, leaves, disconnects, failures, shutdown and restarts are not.
`PersistFails` is not fair and is bounded, so a database that fails for ever is
outside the liveness claims. A crash empties the Map, which ends the claims about
the room that was live; the updates it took with it are owed nothing.

### Theorems

All are proved without bounds on any constant, from `BoundsAssumption`,
`ModesAssumption` and `PersistsAssumption` (the constants have their types; no
call is called "none").

* `TypeCorrect`: the type invariant. `OpState` ties a running call to a real
  room object, which is what makes `heap[op[p].room]` meaningful everywhere.
* `NothingForgotten`: `EditsCovered`. `EditsCovered` is inductive given types.
  The argument per step: an update enters the room with a timer or a call
  (`ApplyUpdateCovers`); a timer that fires leaves a call (`PersistLiveRoomCovers`);
  a call keeps covering until it acknowledges its snapshot into `written` or
  fails, and failing arms a retry (`PersistCovers`); only `Create` changes the
  live room, to one that covers itself.
* `TimersRespectSockets`: `ArmedMeansEmpty`, inductive given types.
* `StoreInvariant`: under `StableLock`, `StoreInv`. Its parts hold each other up:
  `WritesSerialized` (whoever is past its acquire holds the lock) keeps a write
  from being overtaken; `OneRoomPersisted` and `LoadsAreFresh` make the room that
  is loaded the successor of the one that was written; `CopiesOrdered` then
  orders the copies: `db`, a snapshot in flight, the room, what was accepted.
* `NothingUnstored`: `StoredOnlyGrows`, since a write in flight contains `db`.
* `Refinement`: the room implements `WriteBehind`. A step that stores maps to
  `Store`, an edit to `Accept`, everything else to a stutter.
* `NothingLost`: `StoreSafety`, from `SafetyInv`. Its parts say who still has what:
  an accepted update is in MongoDB, in the live room, in the room of a call that
  waits for the lock, or in the snapshot of a call that writes (`EditsKept`); the
  flush's own call carries what was live until it is stored (`FlushKept`), which is
  why the shutdown may drop the room once that call has ended; a call that is
  about to cut a version found none cut (`CutsCounted`). Handlers and timers all
  have one effect on these (`Grows`): copies do not shrink, running calls go on, and
  a room that leaves the Map leaves a call behind. The first failure ends the
  promise.
* `EvictionsFindItEmpty`: `EvictOnlyEmpty`, when moreover no socket outside the
  room sends `room:leave`. `TrackInv`: no timer's handle is lost, every cleanup
  timer is the live room's, and every socket of the Socket.IO room is tracked;
  with `ArmedMeansEmpty`, a timer that fires finds nobody.

Both proved and run: `EditsCovered`, `ImplementsWriteBehind`, `StoreSafety` and
`EvictOnlyEmpty`. Proved, not run: `ArmedMeansEmpty`, `StoreInv`,
`StoredOnlyGrows`. Only model-checked: the liveness properties, which are out of
the proof system's reach.

## 4. Versions: publish, auto-save, restore

### State and actions against the code

One document. A text is the set of edits it holds: a restore replaces it, typing
adds to it, and a persist copies it. `live` is the room's text, `stored` is
`Document.content`; `persist` and `request[u]` are the program counters and local
variables of `persistRoom` and of one version request per user. `asof` of a
version is history: the newest version that existed when its number was read.

| Code | Model |
|---|---|
| `applyUpdate` and the debounce | `Type`, `Clear` (everything deleted: the empty text), `PersistBegins` |
| `persistRoom`, from one `await` to the next | `PersistStores`, `PersistNumbers`, `PersistInserts`, `PersistPrunes`; `PersistFails` and `PersistRetries` |
| `getNextVersionNumber`; `Version.create` | `NextVersionNumber`; `Insert`, refused by the schema for an empty text (`Insertable`, finding 7) |
| `assertPublishAllowed`, `createPublishedVersion` | `PublishBegins`, `GuardExpires`, `PublishReads`, `RequestNumbers`, `PublishInserts` |
| `restoreVersion` | `RestoreBegins`, `RequestNumbers`, `RestoreBacksUp`, `RestoreSaves`, then `replaceRoomContent`: `RestoreReplaces`, `RestoreStores` |
| `deleteVersion`; the history panel's buttons | `DeleteVersion`; `Asks`, `Listed` |
| an `await` that rejects; the process restarts | `RequestFails`, `PersistFails`; `Crash` |

The room stays in memory and its persists run one at a time, which is what
`RoomStore` shows under a stable lock; they do overlap with restores, which take
no lock.

### The run

`Versions` checks `TypeOK` and:

* `OnlyUnsavedIsLost`: an edit that was typed is in the live text, the stored
  document or a version, unless it is excused, and the excuses are named: an edit
  in the live room that no persist had stored when a restore backed the document
  up or that was typed while it ran (finding 8), text that somebody deleted, an
  edit no persist had stored at a crash. `excused` grows at the step that puts the
  edit at risk, so what is lost otherwise shows.
* `VersionsInOrder`. `NumbersFollowSaves`: a version numbered while another
  existed has the higher number. Two saves that overlap may share one, since the
  number is read and the row inserted in two steps; nothing stronger holds, and
  nothing weaker would let the history be read by its numbers.
  `NewestAutoSavesStay`: pruning, which deletes by list and not by rank, removes
  an auto-save only when `AutoSaveLimit` newer ones were inserted.
* `StoredFollowsLive` (liveness): whatever a restore, a persist in flight and
  typing write over each other, the stored document ends up as the live one. It
  fails only when a restore stops between writing the one and the other (`half`).

Bounds: two users overlap two requests with the persist; one edit is either in a
backup or not; three versions are a first one, a backup and one that pruning with
`AutoSaveLimit = 1` must choose between; one rejecting `await` or crash.
Fairness: `WF` on the persist and on each request: timers fire, and what was begun
goes on or rejects. Nobody has to type, ask, or crash.

### Theorems

`HistoryStaysInOrder`: `VersionsInOrder`, for any number of users, edits,
versions, crashes and failing `await`s, and any `AutoSaveLimit`. The invariant is
`OrderInv`. It adds to the two properties what they rest on: the collection is
finite and its ids are distinct and within `inserted` (`Collection`); a number
that is held is higher than that of every version that existed when it was read
(`HeldAhead`); and `autoSaved`, which only grows, names every auto-save in the
collection (`Recorded`). A number is read as one more than the highest
(`NextIsHigher`), which exists because the collection is finite
(`HighestVersion`); what is inserted in the meantime has an id above `asof` and is
not promised anything. Pruning takes the auto-saves beyond the limit
(`ExpiredAreOld`): the newer ones inject by id into `autoSaved`, so that many were
inserted. The types the argument needs are looser than `TypeOK` (`Types`): no
bound on versions enters.

`RestoresLoseNothingStored`: `OnlyUnsavedIsLost`, again without a bound on
anything. The property itself is not inductive: it says where an edit is, not
that it will stay there. `KeepInv` calls an edit `Safe` when nothing can take it
away (it is in a published version, or excused), and says that every edit is safe
or still in the live text, the only copy that a step may shrink. A restore that
has read the document owes the rest: what is live is in what it read or safe
(an edit typed since is excused at once), so that the backup, a published version
of what it read, makes all of the live text safe (`backed`, `saved`); only then
does `RestoreReplaces` take it. Auto-saves and the stored document count for
nothing in this, since pruning and the next persist take them away. With an empty
document there is no backup, and the restore ends (finding 7).

`TypesHold`: `TypeOK`, from `OrderInv` and `TypeInv`. That ids and numbers stay
within their bounds is a count (`Budget`): every request or persist that has still
to insert has an id left for it, since one is admitted only while `MayNumber`;
the users are assumed finite for that count (`BoundsAssumption`). Numbers run
ahead of ids by the one version that the document had lost when it was loaded.

All three are also run. Only model-checked: `StoredFollowsLive`, a liveness
property.

## 5. Collab, Presence, Documents: who edits what with whom

### Collab

A replica (`doc[c]`, and `room` on the server) is a set of updates, merged by
union; `Visible` keeps Yjs's rule that updates with a gap in their Y.Doc's clock
stay pending (`after[u]` is what had been typed on the same Y.Doc before `u`, which
`own[c]` collects). `up[c]` and `down[c]` are the two directions of a connection, in
order, as Socket.IO keeps them; `joining[c]` is the program counter of `room:join`
on the server.

A browser's replica does not live as long as its page. `Editor` shows a spinner in
place of `CodeEditor` whenever `useDocument` is loading (`Editor.jsx:188`): after
the first rendering, and again at every `refresh()`. `CodeEditor` then unmounts, its
cleanup takes its listeners off and destroys the Y.Doc, and whatever arrives until
the answer is dropped; the `CodeEditor` that comes with the answer has an empty Y.Doc
and sends its state vector. The page itself stays, and so does the membership: no
second `room:join` is sent. In the model `page[c]` is `new`, `loading` (spinner, no
replica), `open` (a `CodeEditor` with its replica), `failed` (the error view) or
`closed`; `loads[c]` and `checking[c]` count the requests of `useDocument` and of
`handleVisibility` in flight, and `patched` the answers to the owner's toggle.

| Code | Model |
|---|---|
| the page mounts: the first `CodeEditor` greets and goes, `room:join`, the first fetch | `Open`, which emits `Vector` and `Join` and leaves the page `loading` |
| `fetchDocument`, called again by `refresh()`; its answer; its error | `Refresh` (with `Unmounts`), `Loaded` (with `Mounts`), `LoadFails` |
| `CodeEditor` unmounts: doc destroyed, listeners off; mounts: empty doc, state vector | `Unmounts`; `Mounts` |
| the page unmounts (also by `navigate`), `room:leave` | `LeavePage`, `Close` |
| `handleDocUpdate`, `sendStateVector`, Socket.IO's send buffer | `Type`, `Vector`, `Emit`; on a new socket `Greeting` |
| connection, its loss, a new token | `Connect`, `LinkDrops`, `TokenChanges` (the socket is replaced, finding 14), `Unlinked` |
| `handleFull`, `handleUpdate` | `ReceiveUpdate`: merged by a `CodeEditor`, dropped without one |
| `handleVisibility`: public; private, and the answer to its request | `ReceivePublic`; `ReceivePrivate`, `AccessAnswered` (refresh, or leave on any error) |
| `handleVisibilityToggle` after its PATCH | `ToggleAnswered` |
| `handleKicked` | `ReceiveKicked` |
| `room:join` from one `await` to the next | `HandleJoin`, `JoinEntered`, `JoinEncoded`, `JoinAnswered` |
| `room:leave`, `sync:state-vector`, `sync:update` | `HandleLeave`, `HandleVector`, `HandleUpdate` |
| `updateDocument`: save, broadcast, kick | `SaveVisibility`, `Announce`, `Strangers` |

Three simplifications. A GET reads the document and is answered in one step
(`Loaded`, `LoadFails`, `AccessAnswered`), so an answer is never older than the
visibility; what a page does with it is the same. A request fails for want of
access or, for a client outside `Steady`, for any reason (`Errs`); so may a PATCH,
which then refreshes nothing. And a page that opens has a socket already, connected
or not, as one reached from the dashboard has; when the browser loads the page
directly, `SocketProvider` makes the socket right after the first effects, and only
`room:join` is emitted. The vector that `Open` emits before the join finds no
membership and is ignored, so the two are alike to the server.

`Collab` has a member who stays, the owner, and a browser that joins, types, loses
or replaces its connection and leaves, while the visibility changes in either
direction, so that every page is told to fetch the document again.

* `MembersLoseNothing`. `NoGap`: what the live document holds and the editor of a
  member does not is on its way, in the state its join will encode, or about to be
  asked for: a state vector that claims no more than the replica holds is still to
  be handled (`Asked`). It rests on `socket.join` coming before
  `encodeStateAsUpdate`, and on each new `CodeEditor` sending its vector when it
  mounts: without it (`MountsSilently`) whatever arrived behind the spinner would
  stay missing until somebody reconnects. `TypedOnMemberArrives`: what was typed on
  a member connection is on the server or on its way until the connection or the
  membership goes, although the replica it was typed on may be destroyed long before.
* `StrangersWereLate`: once the change to private is announced, the only members
  without access are joins that had passed `canAccess` before it and entered
  after it. They exist: nothing checks again, and they stay until they leave.
* `RoomReachesMembers` (liveness): time and again all browsers that stay members
  with their pages have the whole of the live document, also those whose page shows
  the spinner meanwhile, unless their fetch fails.
* `CollabOffline` is the run of finding 6: a reconnected browser is in no room,
  and no handler asks it for what the server lacks.

What no property claims: an edit typed in an editor whose page is not a member yet
(`room:join` still under way) is ignored by the server and, unless a page of the
browser reloads it from there, stays on that replica alone, as with finding 6.

Fairness: packets arrive, handlers run on, a saved visibility is announced, and a
fetch is answered, with the document or with an error (`LoadAnswered`); the last is
the network's promise, since `api.js` sets no timeout. Connections need not come
back, nobody has to type, and the request of `handleVisibility` and the owner's PATCH
need not be answered: the page keeps its editor meanwhile.
Bounds: two browsers suffice because every property is about one browser and the
server, the other being the source of updates; one drop and one change of visibility
give two refreshes that overlap (the announcement's and the toggle's) around a
reconnection. With one update a replica that holds a later update of a Y.Doc and not
an earlier one (`Visible`, `after`) does not occur in the run: the theorem on
`MembersLoseNothing` covers it, the liveness check does not. Since edits and changes
are bounded, `RoomReachesMembers` is about what happens once they have come to an end.

Theorems (`EditorProofs`), for any set of browsers and any number of updates,
drops and changes of visibility, from `ClientsAssumption` (the owner is one of the
browsers, and has access) and `BoundsAssumption`:

* `NothingMissed`: `MembersLoseNothing`, by `CollabInv`. Neither half is inductive
  alone. `NoGap` needs to know of packets that carry updates: a full state or an
  update taken from the front of `down` goes into the replica if there is one, so
  what is coming becomes what is there, and other packets carry nothing
  (`PlainPackets`); a broadcast goes to every member, and a join enters the room with
  all of it still to encode. The hard case is a member's own update, which the server
  does not send back: it may arrive when the replica it was typed on is gone, and its
  successor does not hold it. Then the successor's vector is behind it in the same
  queue (`Rebuilt`, `Caught`): the update was emitted before the new editor mounted,
  and Socket.IO keeps the order. When that vector is handled, the reply covers the
  room. The lemmas on queues (`QueueGrows`, `QueueAsks`, `QueueShrinks`) say how
  emitting and handling keep this. `TypedOnMemberArrives` needs that a connection
  which goes takes its queues along (`Wired`), and that a promise is made to members
  only (`SecureMembers`).
* `StrangersAreLate`: `StrangersWereLate`, by `LateJoins`, which speaks of joins
  past `canAccess` as well as of members: they are members to be.
* `TypesHold`: `TypeOK`, in which a page without `CodeEditor` has no replica.

All three are also run. Only model-checked: `RoomReachesMembers`, a liveness
property, and `OfflineEditsMerge`, which is violated.

### Presence and Documents

`Presence` has the Socket.IO room (`member`), the entries of the presence hash or
of the process's map (`entries`), and `room:join` as the sequence of its Redis
commands: `Enter`, `Hset`, `Hgetall`, `Hdel` against the list of active sockets
that was taken first. `Documents` adds the row, the list cache and the requests:

| Code | Model |
|---|---|
| `room:join` with `ensureDocument` | `Open`, `Look`, `EnsureDocument`, `Admit` |
| `listDocuments` | `Ask`, `GetList`, `FindList`, `StoreList`; the TTL: `ListExpires` |
| `createDocument`, `updateDocument`, `deleteDocument` | `Insert`, `FindOwn`, `Save`, `Delete`, then `Clear` (the cached lists), `Announce` (the kick) |
| `asyncHandler` | `Throws` |

`MCDocuments` says whose the browsers and requests are. The run checks:

* `CacheIsCurrent`: with no change on its way, a user's cached list is his list,
  except after a named accident. The accidents (`excused`) are a list read before
  an invalidation and stored after it, an invalidation that does not happen
  (Redis away, a request that throws before it), a change of a row that somebody
  else has made since under the same id, and `ensureDocument`, which creates a row
  without dropping its owner's list (`roomHandler.js:131`).
* `MembersAreKnown`, two claims. `MembersHaveAccess`: of two visitors who open an id that has
  no document, one makes it and the other is refused. `MemberIsListed`: a member
  has an entry, unless a join that overlapped swept it (`swept`), the hash
  expired after its hour, or Redis was lost in between.

Nothing in the code adds collaborators, so a user's list is the documents he
owns. Two further behaviours the model has and no property excludes: `disconnect`
sends no presence update, and deleting a document neither closes its live room
nor removes anyone from it. Bounds: three pages and requests in any order and one
mishap; each accident needs two requests, and a sweep two joins.

Theorems (`AccountProofs`, which extends `Sessions` and `Documents`; they share no
variable, and the names both would have begin with `Documents` in the latter), for
any users, browsers, requests, bounds and mishaps. `PresenceAssumption` and
`DocumentsAssumption` say that the bounds are numbers, that `Nobody` is no user, and
that an assignment gives every browser and request a user. All three follow from
`DocumentInv`:

* `MembersAreAdmitted`: `MembersAreKnown`. Its first half needs `Access`, which speaks
  of a socket past `ensureDocument` as well as of members, and `Creating`: while
  `createDocument` is at work under a fresh id there is no row, no join and one
  maker, so the row a join has found or made is never replaced by another's. The
  second half needs `MemberInv`: a member's own handler holds a list of sockets that
  has him (or none, if the list could not be had), so it does not sweep him; a
  `room:leave` still under way is older than his join, and clears his entry before he
  sets it; and so he is listed, about to be, or was swept by another join.
* `ListsAreCurrent`: `CacheIsCurrent`, by `Lists`: of a user without an excuse, either
  a change is on its way to drop his list, or both what is cached and what a request
  has read and not cached yet are current. `Carries` says whose documents a request
  reads and changes.
* `DocumentsTypesHold`: `DocumentsTypeOK`, in which a cached list shows a user
  no document of another.

All three are also run, and no liveness is claimed: that a stale list goes with its
TTL is what Redis does, not this code.

## 6. Trigger: one run per delivery and per tick

### State and actions against the code

`createAndEnqueue` is one function with up to seven awaits, and every one of
them may run beside another request for the same key, in this process or in
another. `req[q].pc` names the operation request `q` awaits; an action performs
that operation and the synchronous code up to the next one.

| Code | Model |
|---|---|
| a webhook delivery; a cron callback per instance; a manual trigger | `Send`; a manual trigger does what a firing does past its tick lock |
| `acquireTickLock` (`scheduler/cron.js`) | `TickLock`, `SkipTick`: fails closed |
| `resolveTask` | `Resolve` |
| `idempotency.claim` | `ClaimKey` (SET NX; an error counts as claimed), `ReadClaim` (GET) |
| the answers from a recorded and from a pending claim | `FindByRun`, `FindByKey` |
| `AgentRun.create`, `E11000`, and the query for the winner | `Create`, `Insert`, `IndexAdmits`, `FindWinner` |
| `enqueueRun`; the row marked failed when there is no queue | `Enqueue`, `Mark` |
| the catch block, `release`, `record` | `Undo`, `Release`, `Record` |
| the key's TTL | `ClaimExpires`, at any time |
| the worker's job, a stalled job, the process | `Take`, `Finish`, `Restart`, `StalledJob` |

Every operation may throw *and have been applied*: the answer to a committed
insert or a queued job can be lost. That is the case the code's catch block
cannot see. Redis, MongoDB and BullMQ are outside the repository and are
modelled by their use: SET NX decides one winner, the partial unique index
admits one row with the key, a job id is added once, a job has one attempt
but a stalled one may be handed out again.

### Runs

| Run | Question | Result |
|---|---|---|
| `Trigger` | Do retried and concurrent deliveries make one run that is executed, and is no claim abandoned? | yes: `ImplementsRunOnce`, `PendingHasOwner`, `OneRunPerTick`, `AcceptedIsExecuted` |

When `queue.add` throws, the row stays queued with its key and without a job,
and retries are answered with that run (finding 3). `QueuedIsWaiting`, which is
proved, says how far the documentation of `queued` is right: without a failure
the row is queued only while a job exists or its request is still on the way.
`PendingHasOwner` excludes Redis failures, because `release` swallows its error
and leaves the claim to its TTL, and crashes for the same reason.

`OneRunPerTick` is about instances whose clocks agree on the minute: the tick
lock's key is the minute at the moment of the callback, and two instances on
either side of a minute boundary use two keys.

### Bounds

Two deliveries give a race and a retry; two firings, two instances; the two
runs are one more than a key may have, so that a second one would be seen. One
operation that throws, one crash and any number of expiries combine freely, with
and without Redis. The theorems have no bound on any of them.

### Fairness

Awaited operations answer or throw, and the worker takes and finishes jobs.
Weak fairness of "some request proceeds" and "some job proceeds" suffices, as
there are finitely many of both. Arrivals, expiries, failures and crashes are
not fair.

### Theorems

* `TypeCorrect`: `TypeOK`, by the stronger `TypeInv`, whose part `Routes` says
  which program counters need a delivery, Redis, or a run. Without it
  `rows[req[q].run]` could be read at `NoRun`.
* `Refinement`: `Spec => ImplementsRunOnce`. The invariant is `OneRun`: `keyed`
  has at most one element (from the index alone), a recorded claim is in it
  (`ClaimKeyed`), and so is the run every delivery is handling or has been told
  (`HoldsKeyed`). `Insert` maps to `Make`, an answer with a run to `Tell`. The
  claim is used nowhere: the index is what makes runs unique, and the claim
  only saves work.
* `RecordedRunsAreQueued`: `record` comes after `queue.add`, and jobs are never
  taken back.
* `QueuedRowsAreOwned`: every row was inserted by a request that is at `add` or
  `mark`, or has got its job, or has been marked.
* `PendingClaimsAreOwned`: a claim becomes pending only by a delivery that moves
  to `create`, and leaves there only with a run or to `release`.
* `TicksFireOnce`: with Redis, one firing at most is past the tick lock. An
  applied SET whose answer is lost takes the tick and fires nothing.

`RecordedWasQueued` and `QueuedIsWaiting` are proved and not run; the refinement,
`PendingHasOwner` and `OneRunPerTick` are both. Only model-checked:
`AcceptedIsExecuted`, a liveness property.

## 7. AgentRun and RunPage: a run and the page that shows it

### State and actions against the code

`row` is the MongoDB document, `ex` the local variables of the current execution
of `runAgent`, `file` the artifact in the run's directory, `job` the BullMQ job.
Generated code, its output and its logs are abstracted to the sandbox outcome
(`clean`, `crash`, `timeout`, or `fault` when the sandbox itself could not run)
and to whether the artifact satisfies the task's assertions.

| Code | Model |
|---|---|
| the worker's processor | `Take`, `Complete`, `Escapes` (an error that leaves `runAgent`), `Restart` |
| loading the run and its task, `startedAt` | `Load`, `Start` |
| `demoCache.replay` | `FindCached`, `Replay` |
| `setStatus`, `budget.consume` | `Plan`, `Consume` |
| `geminiClient.generate`, `recordGeminiCall`, parsing | `Generate`, `Audit` |
| `appendAttempt`, `setStatus("executing")`, `executor.execute` | `AppendAttempt`, `Announce`, `Sandbox` |
| `patchAttempt` | `Patch`, `PatchOut`, `Reject`, `PatchBad` |
| `collectAndPublish`, `validateArtifact` | `Collect`, `Passes` |
| success, another round, the end | `Succeed`, `NextAttempt`, `NextIteration`, `Final`, `Verdict` |

Five things the model makes visible, and the properties are worded for:

* All attempts of a run share one artifact directory, and the sandbox writes
  into it; so what the validator reads may stem from an earlier attempt.
  `SucceededIsVerified` therefore speaks of the file that is there.
* `validated: false` is written after the terminal status and the `done` event,
  by a separate update. A stream that has ended has not seen it.
* BullMQ hands a stalled job out again and `runAgent` starts at attempt 1 without
  looking at the row's status. A run that was `budget_exceeded` when its process
  died between the last write and the job's completion is executed again, and a
  second execution keeps an old error or verdict and
  patches the attempts of the first (finding 4). `EndsOnce`, `HistoryGrows` and
  `VerdictIsEarned` are about the first execution of a run; `CallsBounded`,
  `CompletedIsTerminal` and `SucceededIsVerified` about every one.
* A Gemini call that reached the model and then threw (a truncated answer, a
  failed request) is charged to the budget and leaves no `geminiCalls` record,
  although `models/AgentRun.js:56-57` says that every call lands there.
  `SuccessIsAudited` says how far the record can be trusted: a live run that
  succeeded without a failure has one for every call of it.
* A write that throws leaves the loop, the row keeps a working status, and only
  a log line says so. `RunEnds` excludes it.

`RunPage` adds one browser: `request[q]` for the stream and the two reads of the
page, `channel` for the frames written and not yet read, `page` for the React
state, in which the stream's attempts override the fetched ones.

| Code | Model |
|---|---|
| what `runAgent` publishes at each of its steps | `Told`, `Begun`, with the step of `AgentRun`: `Works` |
| `streamRun`: query, replay, subscription, failure | `ReadRow`, `Replayed`, `Subscribe`, `Relayed`, `StreamFails` |
| `useRunStream`: open, fold, broken connection | `Open`, `Receive` with `Applied`, `StreamBreaks` |
| `RunDetailPage`: read at mount, read at `done`, failed read, `mergeAttempts` | `FirstLoaded`, `Refetched`, `LoadFails`, `Shown` |

### The run

`RunPage` checks both at once; the run of `AgentRun` is in every behaviour of it.

* `SucceededIsVerified`: a live run recorded as succeeded ended with a clean exit
  and, where its task has a validator, an accepted artifact, in every execution.
* `RunEnds` (liveness): every run ends in a terminal status, across a crash of the
  worker, unless a database operation throws or the queue gives the job up.
* `PageIsTruthful`. `ResultsAreRecorded`: a result on the page is on record, the
  row being written before the event is published. `SettledPageIsCurrent`: a page
  whose stream is done and whose second read was the last to come shows the end,
  and every attempt with its result.
* `PageEnds` (liveness): every page is told the end and reads the run again,
  unless one of the named accidents happens.

Their premises are again the informative part. A first read answered after the
second overwrites the final run, and nothing corrects it (`page.by`); a failed
read hides the page for good (`failed`); a lost stream is neither reconnected nor
followed by another read (`lost`); an event between replay and subscription is
in neither (`missed`); a replay from the demo cache announces its attempts before
a write that may throw (`~demo`). The verdict written after `done` is not part of
what the second read is held to (finding 16), and an attempt without a result
stays "running" (finding 17).

### Bounds

`MaxAttempts = 2`, with budgets of one and two, ends a run by either limit and
has a first and a later attempt, which is what an overwritten artifact, verdict
or outcome needs. One write that throws, and a crash or a page, at any step. A
page and a second execution are not combined (`Open` and `WorkerDies` exclude each
other): the row of a run that is executed again is not append-only, so a page of
it has nothing stable to be compared with. At most one unread frame while
the worker goes on; the first read's row is not kept, any row since the page
opened being possible. The theorems have no bound on attempts, budgets, failures,
crashes, lost requests or unread frames.

### Fairness

`WF` of the worker's step: the worker takes a waiting job, and an awaited
operation answers or throws: the sandbox has a deadline, the Gemini client a
bounded number of tries, a database call a driver timeout. `WF` of the page's:
requests are answered and the browser reads its stream. Crashes, failures and
lost connections are not fair.

### Theorems

* `TypeCorrect`, and `CallsStayBounded`: `CallsBounded`. The invariant
  `CallsInv` relates `sent` to the budget's counter and to the attempt index at
  each await: `consume` comes before the call, so `sent` trails `used`.
* `CompletionIsTerminal`, `RunsEndOnce`, `AttemptsGrow`, `SuccessIsVerified` from
  `ActiveInv`. `PcInv` says what is known of the row at each await (between
  `appendAttempt` and its patches the last attempt is the current one; the
  outcome at `collect` is clean; at `return` the status is terminal and `done`
  is published) and holds in every execution. `FirstInv` holds besides in the
  first one: indexes below the current, no outcome yet for the current one,
  no terminal status before `return`. `NotStarted` is its base.
* `VerdictsAreEarned`: `bad` survives from `reject` to `final` for the current
  last attempt, and `NextIteration` clears it.

* `SuccessfulCallsAreAudited`: `SuccessIsAudited`. Without a failure or a crash
  there is one execution, and `AuditInv` says that its record and the calls it
  sent are equal, except at `audit`, where the record is one behind, and on the
  way to a failed end, from which no step leads to success.

* `PagesRunTheRun`: `PageSpec` implies `Spec`. A page only watches, so all of the
  above holds of the run that it shows, and what `RunPage` checks of the run is
  what is proved of `AgentRun`.
* `PagesAreTruthful`: `PageIsTruthful`. The page says nothing of the row as it is,
  only of frames written earlier and views read earlier; so the invariant says what
  those still know. `RunInv` is about the run alone: the types, `CallsInv`,
  `ActiveInv`, and `Numbered`, that the attempts of a first execution are numbered
  1, 2, ... and which of them exist at each await. `PageInv` is about the page:
  * `Sayable(i, out)`: the result is in the row, or it is that of a cached attempt
    which a replay has announced and not written. Every result in the channel and on
    the page is sayable (`OnlySayable`), and stays so (`SayableStays`, which needs
    that a first execution's history only grows).
  * `Due(i)`: the result must have been said. No start of such an attempt is in the
    channel without its result behind it, and no such attempt is "running" on the page
    unless its result is in the channel (`AllDueTold`). That a result becomes due in the
    step that publishes it, and in no other, is `NewlyDue`.
  * `ReadIsOld(v)`: what a stream has read and not replayed has no result that the row
    has not, and, as long as `missed` is false, no attempt lacks a result that is due.
    This is the part that a row read before a write and replayed after it depends on.
  * `EndsLast`, `EndIsRows`: `done` is the last frame of a stream, it carries the
    row's status, and the row is terminal by then; so the page's second read, which
    is asked for only after it, finds a row that no step changes but the verdict.

  Each step of the worker publishes a list of frames for which `Tells` holds
  (`PublishedFrames`), and `WorksKeeps` appends it to the channel whatever the list
  is. The replay is a concatenation over the attempts (`FlattenSeq`), which would be
  proved by induction; `ReplayedFrames` takes the least prefix that is not a faithful
  retelling instead, which exists if any does (`WFMin`, since `<` is well-founded on
  `Nat`), and finds that it is one. The invariant was checked with TLC, on the run's
  constants, before it was proved.

`SucceededIsVerified` and `PageIsTruthful` are both proved and run. The other
properties named here are proved and not run. Only model-checked: `RunEnds`,
`PageEnds`.

## 8. Stream: live viewers of a run

### State and actions against the code

One run is modelled. Its events are numbered in the order of `publish`; `last`
is the number of `done`. A message's content is abstracted to that number, so
two different events are never taken for one another; the code compares event
name, millisecond and data, and would drop the second of two equal log lines
published within a millisecond.

| Code | Model |
|---|---|
| `streamRun` up to `findById`, the query, and its resumption | `Open`; `Find`; `ReplayAll` (no row, an error, or a terminal row) or `Subscribe` |
| `subscribe`, its closure `dedupe`, the unsubscribe function | `Subscribe`, `Fresh`, `Remembered`, `CommandsAfter`: one Redis subscription per instance for all its viewers |
| `cleanup`, the response's `close` event | `Closed`, `HangUp` |
| `publish` | `Publish`: the local emitter in the same callback, Redis later |
| the subscriber's `message` handler | `Deliver` |
| `setStatus`, `emitLog` and the like; the terminal write; `done` | `Progress`; `Finish`; `Done` |
| Redis (outside the repository) | `Command` (a connection's commands in order), `FanOut` (publications in order, to the instances subscribed then), either of which may fail once |

`from` and `lost` are history variables: the first event a viewer is due, known
once its instance's subscription stands, and the number of failures.

### Runs

| Run | Question | Result |
|---|---|---|
| `Stream` | Do viewers on any instance see what they are due, once, until the run ends? | yes: `NothingMissed`, `ImplementsRunFeed`, `StreamEnds` |

A client that goes while the row is read is subscribed after its cleanup, and
nothing releases the listener and the interval (finding 5).

What the properties are careful not to say is as informative as what they say:

* `NothingMissed` and `StreamEnds` begin when the subscription stands. Events
  published between the read of the row and then, `done` included, are in neither
  the replay nor the live part: such a stream stays open, fed by heartbeats, until
  its client leaves. `sse.js:116-117` explains why the subscription comes after
  the replay; the window is the price.
* `RemoteInOrder` is about viewers that are not on the worker's instance. There,
  an echo that was published before the viewer subscribed is new to its closure,
  and may follow a newer event of the local emitter: the comment at
  `pubsub.js:120-123` says that the Redis path is used only for events of other
  processes, but `dedupe` is registered on both.
* Without a loss is a condition on remote viewers only. A SUBSCRIBE that fails is
  logged and not repeated, and the channel's entry keeps later viewers of that
  instance from issuing another one.

### Bounds

Two viewers, each on the worker's instance or the other one (the run tries every
placement), give a shared subscription, a departure while the other arrives, and
both paths. Three events are two and `done`, the least that can be reordered. One
loss is any command or publication. `SeenLimit >= MaxEvents` because a run
publishes about ten events per attempt and the set is cleared at 500; whether
clearing would repeat an event is therefore not examined. Crashes of an
instance, which end its streams, are not modelled.

### Fairness

The run ends and says so (`Finish`, `Done`), MongoDB answers (`Find`) and Node
resumes the handler, Redis handles commands and publications (`Command`,
`FanOut`: handling includes failing, which is bounded) and Node runs the message
handler (`Deliver`). Arrivals and departures of clients are not fair.

### Theorems

* `TypeCorrect`: `TypeOK`. The invariant adds that only a stream at work is
  registered (`Sound`), that `done` is published after the terminal write, and
  that Redis has no more publications than were made.
* `SubscriptionsMatch`: `SubscriptionMatches`, inductive given types. An instance
  issues a command exactly when its set of handlers becomes empty or stops being
  so, and the last command in flight is the last one issued.
* `RemoteViewersInOrder` and `Refinement`, from `Paths`, which follows an event
  along its way: Redis's queue holds exactly the events it has not handled
  (`QueueExact`), an inbox and what its viewers were shown are increasing and
  of handled events, what was shown precedes what waits (`FramesOrdered`), and
  the de-duplication set of an open stream is exactly what it was shown
  (`MemoryExact`, where `SeenLimit` matters). A second copy of an event is
  therefore dropped, an unseen one is appended, and after `done` the stream is
  closed.
* `NothingIsMissed`, from `Paths`, `SubscriptionMatches`, `LocalDue` and
  `RemoteDue`. The point is that a viewer that is due events keeps its instance
  subscribed and without a command in flight, whoever else comes and goes; hence
  each event that Redis handles reaches its inbox. A viewer that subscribes to a
  standing subscription needs `SubscriptionMatches` for this: without it an
  UNSUBSCRIBE might still be issued behind it.

`SubscriptionMatches` and `RemoteInOrder` are proved and not run; `NothingMissed`
and the refinement are both. Only model-checked: `StreamEnds`.

## 9. Quota, Sandbox, VerifyFix: shared limits

### State and actions against the code

`Quota` is `geminiClient.generate` for any number of callers over what they share:
`tail` and `grants`, the first-come window of slots (`limiter.js` `acquire` and
`drain`); `daily`, the counter in Redis, which counts before it decides; `memory`,
the counter that stands in when a command fails; and `admitted`, history: the
reservations that Redis granted.
`Sandbox` is `execute`, one container per execution, and the boot reaper.
`VerifyFix` composes both for one verification `v` with its panel, one snippet `x`
with its panel, and one agent `a` that calls the model meanwhile.

| Code | Model |
|---|---|
| `acquire`, `drain`, the sliding window | `Generate`, `Slot`, `WindowSlides` |
| `reserveDailyCall`: INCR, and DECR above the cap; either may fail | `Reserve`, `GiveBack`; `ReserveErrs`, `GiveBackErrs`, `ReserveInMemory` |
| the HTTP tries of one call | `Try` |
| `execute`: create, attach, start, wait, deadline, grace, removal | `Execute`, `Create`, `Start`, `WaitReturns`, `Deadline`, `Grace`, `CleanUp`, `Throws` |
| Docker (outside the repository) | `ProgramEnds`, `Removed` |
| `reapOrphans` and when the server runs it | `ReaperLists`, `ReaperRemoves`, `ReaperEnds`, `Reaps` |
| `verifyAndFix` | `AskFails`, `Answered`, `RunWithTest`, `Passed`, `Proven`, `Fixed`, `RunThrows` |
| the controllers and panels | `Press`, `Ends`, `StreamLost`, `Loss`, `RunSnippet`, `SnippetAnswered` |
| the process dies and boots | `Crash` (`QuotaCrash`, `SandboxCrash`, the panels' streams) |

A program is named by the container label it runs under (the original or the fix
of a cycle), a test by the cycle that wrote it.

### The run

* `FixedIsProven`: a fix is reported only if *its* container exited 0 with the very
  test the original had been run with, and the original had not passed it in time.
  It does not say that the original failed the test: a container that timed out or
  was killed counts as a demonstration (finding 11).
* `ResourcesAccountedFor`. `WithinDailyCap`: Redis grants no more than the cap, and
  a caller is refused only when the cap is reached, counting an increment for each
  command that failed. `ContainersAreOwned`: once the reaper is through, every
  labelled container is in the hands of an execution of this process, or Docker
  refused to remove it.
* `PanelsAnswered` (liveness): a panel that runs stops running, whatever the
  program, Docker, Redis and the model do.

What the cap does not bound is part of the model: one reservation covers up to five
HTTP tries, and the memory counter starts from zero beside the Redis counter, also
for a call that Redis had refused and whose DECR failed (finding 12). The reaper
removes every labelled container, another instance's too, and the routes are
served while it works (finding 13).

Bounds: `Capacity = 1` makes callers wait; `Cap = 2` is reached by a session and an
agent; two tries are one retry; one Redis command and one Docker operation that
fail, one crash or lost stream. `MaxMishaps = 1` lets one of the losses, sandbox
faults and agent calls happen in a behaviour, so each is combined with everything
else but not with one another; two cycles are a failed fix and another one.
Fairness: the service continues, Redis and the model answer, the window slides,
Docker answers, and the timers of the executor fire. No program has to end.

### Theorems

From the assumptions on the constants in the three modules: the bounds have their
types, the callers are finitely many (the refused ones are counted), the
verification is neither the snippet nor the agent, and the labels it uses are
labels (`LabelAssumption`). TLC evaluates them all. The invariant is `VerifyInv`,
checked on the run's instance before it was proved, in three layers. What a lower
layer says is kept by every step of its own module, whoever takes it.

* `QuotaInv`. The chain of the bucket holds each waiting caller once (`Chained`).
  `Counted`: Redis has counted every call it let through and every refused one
  that has still to take its count back; the counter exceeds these only by the
  commands that failed, until it has once answered a count above the cap. The
  calls that take their count back are a cardinality, so each step of a caller
  moves one element (`RefusingAfter`). `ForCause` says why a caller is refused.
* `SandboxInv`. `Shapes` says what each step of an execution knows of its
  container, `Apart` that no two executions have the same one, and `Reaped` that a
  container which nobody owns is on the reaper's list while it removes. Without
  `Apart` one execution's clean-up could take another's container, and the
  outcome read at `WaitReturns` would be nobody's.
* `VerifyTypes`, `Boxes` (who runs which program), `Fresh` (a program not run yet
  has no container, so that a verdict is never read off an earlier cycle's) and
  `Stage`, which follows a verification: from the second question on, the original
  has been run with the test of the session and did not pass (`BugShown`), and a
  fix that passed is the current cycle's.

`FixesAreProven` (`FixedIsProven`), `ResourcesAreAccountedFor`
(`ResourcesAccountedFor`) and `TypesHold` (`TypeOK`) follow; the length of the
chain is bounded because an injection into the callers is (`ChainFits`). All three
are also run. Only model-checked: `PanelsAnswered`, a liveness property.

## 10. Review: a streamed AI review

Each click is a review with a stream of its own; the panel's text, notice, error
and loading flag are shared by all of them. A stream is a sequence of lines, and a
read may cut an event between its name and its data. The model reads one line at a
time: `processChunk` takes as many as a read returned, with nothing in between, and
where the cut was makes no difference but for the name that waits for its data.
"Notice" means the one of the canned review. A live review of a large file carries
a notice too (`review.service.js:387`), which says that only a part was reviewed;
its event and its text in the history are left out, and so are the `GEMINI_MOCK`
branches, which replace the model by a text of the repository.

| Code | Model |
|---|---|
| `startReview`, its read loop, `stopReview` | `Start`, `ReadLine` with `OnText`, `OnName` and `OnData`, `ReadEnd`, `LinkFails`, `Stop`, `Cleared` |
| `streamReview` on the server | `LoadCode`, `Ask`, `FirstTokenTimeout`, `Token`, `StreamEnds`, `GiveUp`, `Settled`, `CannedWord`, `Save`, `Finish`, `Write` |
| `retrieveContext` with its timeouts and memo | `FindStore`, `Retrieve`, `After` |
| the request's `close` event | `Closes` |

* `PanelIsHonest`. `FallbackIsFlagged`: canned words on the panel come with the
  notice. `OneReviewShown`: the panel shows one review from its beginning, live or
  canned, nothing left of a stopped one. `HistoryIsWhatWasSent`: a row holds what
  was sent from its first fragment to its last, and is marked when it is canned
  (with the fallback's notice; a live row of a large file carries the other one).
  All three but the marking have the premise `~unlocked`: an old read loop that
  ends clears the loading flag of the new review, and the button that this
  unlocks lets two reviews write to one panel.
* `ReviewEnds` (liveness): the panel does not load for ever.

`ReviewEnds` assumes two things the code does not see to: a model that has sent its
first token goes on or breaks off (finding 10), and Chroma answers
`ensureCollection` and `fromExistingCollection`, which are awaited without a
timeout (finding 9). Bounds: two reviews are a stopped one and its successor; two
models, a failing one and the next; two fragments, a first one and a rest.

Theorems (`EditorProofs`, which extends `Collab` and `Review`; they share no
variable, and the names both would have begin with `Review` in the latter), for any
number of reviews, models and fragments, which `ReviewAssumption` says are at least
one of each:

* `PanelsAreHonest`: `PanelIsHonest`, by `ReviewInv`. What a call has written so far
  is a function of its state, its script: a notice or none, the fragments up to
  `sent`, and the last event with the end (`Follows`, `LineAt`). While the panel
  loads, the browser has read some number `p` of the script's lines, the stream
  carries exactly the others, and the text, the notice and the buffered name are
  what the first `p` lines say (`Following`, `Delivered`). Each write of the server
  extends the script and each read adds one to `p`, so no induction over the lines
  is needed. A script that has had a line of text keeps its source: before the first
  fragment the stream is empty (`CallInv`), and after it nothing falls back. Every
  other stream that is still read has only its end left (`Trailing`), so that it
  cannot write to the panel of a newer review; this is what `unlocked` gives up.
  `Shown` keeps what a stopped or broken review has left on the panel in step with
  the call that goes on, and so with the history row it writes (`Kept`).
* `ReviewTypesHold`: `ReviewTypeOK`.

Both are also run. Only model-checked: `ReviewEnds`, a liveness property.

## 11. Sessions: tokens and the refresh queue

One browser tab. Access tokens are numbered as they are signed and expire in that
order. The client has the token three times, in the axios module (`access`), in
`localStorage` (`storage`) and in React's state (`token`, with `user`); the server
is stateless and knows the refresh cookie.

| Code | Model |
|---|---|
| `AuthProvider`'s mount, `login` and `register`, `logout`, a page load | `Mount`, `MountAnswered`, `SignIn`, `SignInAnswered`, `Logout`, `Reload` |
| the request interceptor; pages behind `PrivateRoute` | `Sending`, `Send` |
| the response interceptor | `Answered`, `Unauthorized`, `Refreshed`, `RefreshFails`, `processQueue` as `Settle` and `Waiting` |
| `signAccessToken`, `protect`, `refresh` | `Signed`, `Expires`, `Valid`, `Refuses` |

* `OneIdentity`: outside a page load, module and storage hold the same token, and
  while they hold one, React's token is that one, its user is the token's, and so
  is the cookie's unless it was lost. (The converse fails: after a refresh that failed React still
  believes it is signed in, finding 15.)
* `DeniedForCause`: while the cookie is good and the network does not fail, a
  request is refused only after it was sent again with a newer token that expired
  too. Requests that meet a refresh under way are answered with its token.
* `RequestsSettle` (liveness): every request that was sent is answered, refused or
  lost; the queue is emptied whatever becomes of the refresh.

Bounds: two requests are one that refreshes and one that queues; three tokens are
an expired one, its successor and another sign-in. A lost response, a sign-out and
a reload combine freely with everything. Fairness: requests on the wire are answered
or fail; axios sets no timeout, so this is the network's promise.

Theorems (`AccountProofs`), for any number of accounts, requests, tokens, faults,
sign-outs and page loads. `SessionAssumption` says that the bounds are numbers,
that `NoAccount` is no account, and that at least one token can be signed, since
the token of an earlier visit is one of those counted.

* `IdentityIsOne`: `OneIdentity`, by `SessionInv`. Two refreshes can change the
  token, the mount's and the interceptor's, and a sign-in as well. `PageLoad` keeps
  them apart: behind the loading screen nothing but the mount's own refresh is
  under way, and React's token is still that of `localStorage`.
* `DenialsHaveCause`: `DeniedForCause`. `SentCounts` is what a 401 means: the second
  of a request can only arrive when it has been sent twice, with a token signed for
  the second time. `CookieHistory`: a refresh that is refused was sent without a
  cookie, and then the cookie was lost.
* `TypesHold`: `TypeOK`, in which a request is sent at most once more than tokens are
  signed.

All three are also run. Only model-checked: `RequestsSettle`, a liveness property.

## 12. Findings

Places where the code does not do what a document, a comment or a test of the
repository says of it, or plainly means to; `PROJECT.json` quotes both sides. One
is shown by a run. The others were met while modelling, and the models and the
premises of the properties follow the code in each of them.

| | What | Where | Shown by |
|---|---|---|---|
| 1 | two first accesses create two rooms (divergence) | `server/src/services/crdt.service.js:76` | reading |
| 2 | the flush resolves with rooms unsaved (divergence) | `server/src/services/crdt.service.js:328` | reading |
| 3 | a queued run without a job (divergence) | `server/src/agent-runner/services/run.service.js:125` | reading |
| 4 | attempts of a second execution overwrite (divergence) | `server/src/agent-runner/agent/orchestrator.js:80` | reading |
| 5 | a stream subscribed after its client left (bug) | `server/src/agent-runner/stream/sse.js:118` | reading |
| 6 | offline edits stay offline (divergence) | `client/src/pages/Editor.jsx:69` | run `CollabOffline` |
| 7 | an empty document cannot be versioned (bug) | `server/src/models/Version.js:22` | reading |
| 8 | a restore backs up less than it replaces (divergence) | `server/src/services/version.service.js:205` | reading |
| 9 | retrieval can hold up a review (divergence) | `server/src/services/rag.service.js:290` | reading |
| 10 | a stalled model holds up the panel (divergence) | `server/src/services/review.service.js:417` | reading |
| 11 | a time-out counts as a demonstrated bug (bug) | `server/src/agent-runner/services/verify-fix.service.js:136` | reading |
| 12 | a refused call admitted (bug) | `server/src/agent-runner/quota/limiter.js:197` | reading |
| 13 | the reaper overlaps the routes (divergence) | `server/src/agent-runner/index.js:34` | reading |
| 14 | a refreshed token replaces the socket (divergence) | `client/src/context/SocketContext.jsx:19` | reading |
| 15 | a failed refresh leaves React signed in (bug) | `client/src/services/api.js:96` | reading |
| 16 | the last read can miss the verdict (divergence) | `client/src/features/agent-runner/RunDetailPage.jsx:60` | reading |
| 17 | an attempt that stays running (bug) | `client/src/features/agent-runner/RunDetailPage.jsx:27` | reading |

Some behaviours that nothing promises otherwise are noted with their modules: a
deleted document keeps its live room, a disconnection sends no presence update, the
presence hash of a room expires after an hour, a sign-out does not cancel a refresh
under way, and tick locks of two instances differ across a minute boundary.

## 13. Not modelled, and the plan

| Left out | Why |
|---|---|
| the rate limiter (`middleware/rateLimiter.js`) | its window is made of clock values, and two requests of one millisecond, which it counts once, differ in nothing else |
| awareness and chat | relayed without state |
| request validation, error formatting, password hashing, token encoding | no state, or cryptography |
| prompts, task texts, code parsing, embeddings, indexing of the knowledge base | text |
| artifact metadata, the webhook and GitHub sinks | best effort after the run's end, nothing reads them back |
| lists of runs, logs and artifacts, the dashboard's layout, editor decorations, cursors | rendering |
| schedule registration, connection retries at boot | wiring and plain I/O |
| content: Yjs structure, version diffs, program output | a set of updates, a text, an outcome stand for them |

Within the modelled parts: `RoomStore` and `Versions` are not composed with each
other, nor `Collab` with `Documents`; other keys in `Trigger`, other documents
everywhere and a second day in `Quota` share nothing with the one modelled;
`Stream` has no crash of an instance, which ends its streams; clearing the
de-duplication set at `SeenLimit` is not examined.

Next, in order of importance:

1. Composition: `RoomStore` with `Versions` (eviction and reload under a restore),
   `Collab` with `Documents` (the kick and the presence entries together).
2. A crash of an instance in `Stream`, which ends its viewers' streams, and the
   reconnection of the page.
3. The rate limiter with a discrete clock, if it is to be relied upon.

Every safety property that a passing run checks, the refinements included, is also a
theorem. Out of the proof system's reach, and left to the runs: liveness under
fairness, and whatever needs ENABLED. Induction over data was avoided in two ways:
`Review` says what a stream carries as a function of the sender's state, and the
replay of `RunPage` is treated by its least prefix (section 7).
