------------------------------ MODULE Versions ------------------------------
(***************************************************************************)
(* The versions of one document (version.service.js): published by people, *)
(* cut by persistRoom as auto-saves, and restored, which writes the stored *)
(* document and then replaces the text of the live room                    *)
(* (crdt.service.js).  Requests, the persist of the room and the typing    *)
(* interleave at every await.                                              *)
(*                                                                         *)
(* A text is the set of edits it holds.  The room stays in memory, and     *)
(* persistRoom runs once at a time, as the lock makes it; RoomStore has    *)
(* eviction and overlapping persists.                                      *)
(***************************************************************************)
EXTENDS Naturals, FiniteSetsExt

CONSTANTS
    Users,          \* people with one version request each in flight
    AutoSaveLimit,  \* config.yjs.autoSaveLimit
    MaxEdits,       \* bound: edits typed
    MaxVersions,    \* bound: versions inserted, the first one included
    MaxFaults       \* bound: awaits that reject, and restarts of the server

ASSUME LimitAssumption == AutoSaveLimit \in Nat \ {0}
ASSUME BoundsAssumption ==
    /\ MaxEdits \in Nat /\ MaxVersions \in Nat \ {0} /\ MaxFaults \in Nat
    /\ IsFiniteSet(Users)

VARIABLES
    live,       \* the text of the live Y.Doc
    typed,      \* edits typed so far
    stored,     \* Document.content and snapshotText
    due,        \* a persist of the room is scheduled
    persist,    \* persistRoom: where it is and what it holds
    versions,   \* the Version collection
    inserted,   \* versions inserted so far, which orders them by createdAt
    request,    \* each user's request: where it is and what it holds
    guard,      \* users whose publish key has not expired
    faults,     \* awaits that rejected and restarts so far
    excused,    \* history: edits cleared, or not stored when they were replaced
    autoSaved,  \* history: auto-saves inserted
    pruned,     \* history: auto-saves pruned
    half        \* history: a restore failed between its two writes

texts == <<live, typed, stored, due>>
history == <<excused, autoSaved, pruned, half>>
vars == <<texts, persist, versions, inserted, request, guard, faults, history>>

Edits == 0 .. MaxEdits
Ids == 1 .. MaxVersions
VersionNumbers == 1 .. MaxVersions + 1
Text == SUBSET Edits

\* asof is history: the newest version inserted when the number was read.
Version == [id : Ids, number : VersionNumbers, text : Text, auto : BOOLEAN, asof : Ids \cup {0}]

PersistState == [pc : {"idle", "encoded", "stored", "numbered", "inserted"},
                 text : Text, number : VersionNumbers \cup {0}, asof : Ids \cup {0}]

RequestState == [pc : {"idle", "admitted", "read", "numbered", "backed", "saved", "replaced"},
                 op : {"none", "publish", "restore"},
                 doc : Text, text : Text, from : 0 .. MaxVersions,
                 number : VersionNumbers \cup {0}, asof : Ids \cup {0}]

TypeOK ==
    /\ live \in Text /\ typed \in Edits /\ stored \in Text /\ due \in BOOLEAN
    /\ persist \in PersistState /\ request \in [Users -> RequestState]
    /\ versions \subseteq Version /\ inserted \in Ids
    /\ \A v, w \in versions : v.id = w.id => v = w
    /\ guard \subseteq Users
    /\ faults \in 0 .. MaxFaults
    /\ excused \in Text /\ pruned \subseteq autoSaved /\ autoSaved \subseteq Ids /\ half \in BOOLEAN

NoPersist == [pc |-> "idle", text |-> {}, number |-> 0, asof |-> 0]
NoRequest == [pc |-> "idle", op |-> "none", doc |-> {}, text |-> {}, from |-> 0,
              number |-> 0, asof |-> 0]

\* A stored document and a published version of it, cut when the document had
\* an auto-save that is gone.
Init ==
    /\ live = {0} /\ typed = 0 /\ stored = {0} /\ due = FALSE
    /\ persist = NoPersist
    /\ versions = {[id |-> 1, number |-> 2, text |-> {0}, auto |-> FALSE, asof |-> 0]}
    /\ inserted = 1
    /\ request = [u \in Users |-> NoRequest] /\ guard = {}
    /\ faults = 0
    /\ excused = {} /\ autoSaved = {} /\ pruned = {} /\ half = FALSE

----------------------------------------------------------------------------
(* The Version collection *)

Existing == {v.id : v \in versions}
Numbers == {v.number : v \in versions}

\* Mutant: the number of versions, plus one.
CountedVersionNumber == Cardinality(versions) + 1

\* getNextVersionNumber: the highest number there is, plus one.
NextVersionNumber == IF Numbers = {} THEN 1 ELSE Max(Numbers) + 1

\* Version.create; the schema refuses an empty snapshotText.
Insertable(text) == text # {}

Insert(number, text, auto, asof) ==
    /\ inserted' = inserted + 1
    /\ autoSaved' = IF auto THEN autoSaved \cup {inserted + 1} ELSE autoSaved
    /\ versions' = versions \cup {[id |-> inserted + 1, number |-> number, text |-> text,
                                   auto |-> auto, asof |-> asof]}

\* The bound MaxVersions: every request and auto-save under way can insert.
MayNumber ==
    inserted + Cardinality({u \in Users : request[u].pc \in {"admitted", "read", "numbered"}})
             + (IF persist.pc = "numbered" THEN 1 ELSE 0) < MaxVersions

\* Mutant: versions of every kind are listed.
AutoSavesUnfiltered == versions

AutoSaves == {v \in versions : v.auto}
Newer(v) == {w \in AutoSaves : w.id > v.id}

\* What createAutoSaveVersion prunes: all but the newest AutoSaveLimit.
Expired == {v \in AutoSaves : Cardinality(Newer(v)) >= AutoSaveLimit}

----------------------------------------------------------------------------
(* Typing and the persist of the room *)

\* Restores that have read the document and not replaced the live text yet.
Restoring == \E u \in Users :
    request[u].op = "restore" /\ request[u].pc \in {"read", "numbered", "backed", "saved"}

Type ==
    /\ typed < MaxEdits /\ typed' = typed + 1
    /\ live' = live \cup {typed + 1} /\ due' = TRUE
    /\ excused' = IF Restoring THEN excused \cup {typed + 1} ELSE excused
    /\ UNCHANGED <<stored, persist, versions, inserted, request, guard, faults, autoSaved, pruned, half>>

\* Someone deletes the whole text.
Clear ==
    /\ live # {} /\ live' = {} /\ due' = TRUE
    /\ excused' = excused \cup live
    /\ UNCHANGED <<typed, stored, persist, versions, inserted, request, guard, faults,
                   autoSaved, pruned, half>>

\* The persist timer: persistRoom clears it and encodes the live document.
PersistBegins ==
    /\ due /\ persist.pc = "idle"
    /\ due' = FALSE
    /\ persist' = [NoPersist EXCEPT !.pc = "encoded", !.text = live]
    /\ UNCHANGED <<live, typed, stored, versions, inserted, request, guard, faults, history>>

PersistStores ==
    /\ persist.pc = "encoded"
    /\ stored' = persist.text
    /\ persist' = [persist EXCEPT !.pc = "stored"]
    /\ UNCHANGED <<live, typed, due, versions, inserted, request, guard, faults, history>>

\* An auto-save is cut when the last one is autoSaveIntervalMs old.
PersistNumbers ==
    /\ persist.pc = "stored"
    /\ \/ persist' = NoPersist
       \/ MayNumber /\ persist' = [persist EXCEPT !.pc = "numbered", !.number = NextVersionNumber,
                                                  !.asof = inserted]
    /\ UNCHANGED <<texts, versions, inserted, request, guard, faults, history>>

\* The catch of persistRoom: whatever was done, the persist is retried.
PersistRetries == due' = TRUE /\ persist' = NoPersist

PersistInserts ==
    /\ persist.pc = "numbered"
    /\ IF Insertable(persist.text)
       THEN /\ Insert(persist.number, persist.text, TRUE, persist.asof)
            /\ persist' = [persist EXCEPT !.pc = "inserted"]
            /\ UNCHANGED due
       ELSE PersistRetries /\ UNCHANGED <<versions, inserted, autoSaved>>
    /\ UNCHANGED <<live, typed, stored, request, guard, faults, excused, pruned, half>>

\* createAutoSaveVersion lists the auto-saves and deletes the expired ones.
PersistPrunes ==
    /\ persist.pc = "inserted"
    /\ versions' = versions \ Expired
    /\ pruned' = pruned \cup {v.id : v \in Expired}
    /\ persist' = NoPersist
    /\ UNCHANGED <<texts, inserted, request, guard, faults, excused,
                   autoSaved, half>>

PersistFails ==
    /\ persist.pc # "idle" /\ faults < MaxFaults
    /\ faults' = faults + 1
    /\ PersistRetries
    /\ UNCHANGED <<live, typed, stored, versions, inserted, request, guard, history>>

----------------------------------------------------------------------------
(* Requests *)

Continues(u, r) == request' = [request EXCEPT ![u] = r]
Ends(u) == Continues(u, NoRequest)

\* VersionHistory: a save waits for the one under way; the buttons of a listed
\* version do not, which two users stand for.
Asks(u) == request[u].pc = "idle" /\ MayNumber

\* listVersions
Listed == versions

\* assertPublishAllowed takes the key, and keeps it when the publish fails.
PublishBegins(u) ==
    /\ Asks(u) /\ u \notin guard
    /\ guard' = guard \cup {u}
    /\ Continues(u, [NoRequest EXCEPT !.pc = "admitted", !.op = "publish"])
    /\ UNCHANGED <<texts, persist, versions, inserted, faults, history>>

GuardExpires(u) ==
    /\ u \in guard /\ guard' = guard \ {u}
    /\ UNCHANGED <<texts, persist, versions, inserted, request, faults, history>>

\* createPublishedVersion publishes the stored document, not the live one.
PublishReads(u) ==
    /\ request[u].op = "publish" /\ request[u].pc = "admitted"
    /\ Continues(u, [request[u] EXCEPT !.pc = "read", !.doc = stored])
    /\ UNCHANGED <<texts, persist, versions, inserted, guard, faults, history>>

\* handleRestore: restoreVersion reads the document and the version.
RestoreBegins(u, v) ==
    /\ Asks(u)
    /\ Continues(u, [NoRequest EXCEPT !.pc = "read", !.op = "restore",
                                      !.doc = stored, !.text = v.text, !.from = v.id])
    /\ excused' = excused \cup (live \ stored)
    /\ UNCHANGED <<texts, persist, versions, inserted, guard, faults, autoSaved, pruned, half>>

RequestNumbers(u) ==
    /\ request[u].pc = "read"
    /\ Continues(u, [request[u] EXCEPT !.pc = "numbered", !.number = NextVersionNumber,
                                       !.asof = inserted])
    /\ UNCHANGED <<texts, persist, versions, inserted, guard, faults, history>>

\* The published version; an empty document cannot be published.
PublishInserts(u) ==
    /\ request[u].op = "publish" /\ request[u].pc = "numbered"
    /\ Ends(u)
    /\ IF Insertable(request[u].doc)
       THEN Insert(request[u].number, request[u].doc, FALSE, request[u].asof)
       ELSE UNCHANGED <<versions, inserted, autoSaved>>
    /\ UNCHANGED <<texts, persist, guard, faults, excused, pruned, half>>

\* Mutant: the backup is made after the document has taken the old content.
RestoreBacksUpLate(u) ==
    /\ request[u].op = "restore" /\ request[u].pc = "numbered"
    /\ Insert(request[u].number, request[u].text, FALSE, request[u].asof)
    /\ Continues(u, [request[u] EXCEPT !.pc = "backed"])
    /\ UNCHANGED <<texts, persist, guard, faults, excused, pruned, half>>

\* The backup, a published version of the document as it was read; nothing is
\* restored over an empty document.
RestoreBacksUp(u) ==
    /\ request[u].op = "restore" /\ request[u].pc = "numbered"
    /\ IF Insertable(request[u].doc)
       THEN /\ Insert(request[u].number, request[u].doc, FALSE, request[u].asof)
            /\ Continues(u, [request[u] EXCEPT !.pc = "backed"])
       ELSE Ends(u) /\ UNCHANGED <<versions, inserted, autoSaved>>
    /\ UNCHANGED <<texts, persist, guard, faults, excused, pruned, half>>

\* document.save()
RestoreSaves(u) ==
    /\ request[u].pc = "backed"
    /\ stored' = request[u].text
    /\ Continues(u, [request[u] EXCEPT !.pc = "saved"])
    /\ UNCHANGED <<live, typed, due, persist, versions, inserted, guard, faults, history>>

\* replaceRoomContent changes the live document, whose update event schedules a
\* persist.  When the version is gone there is nothing to replace it with.
RestoreReplaces(u) ==
    /\ request[u].pc = "saved"
    /\ IF request[u].from \in Existing
       THEN /\ live' = request[u].text /\ due' = TRUE
            /\ Continues(u, [request[u] EXCEPT !.pc = "replaced"])
            /\ UNCHANGED half
       ELSE Ends(u) /\ half' = TRUE /\ UNCHANGED <<live, due>>
    /\ UNCHANGED <<typed, stored, persist, versions, inserted, guard, faults, excused,
                   autoSaved, pruned>>

\* Mutant: no persist is scheduled after the write.
RestoreLeavesStored(u) ==
    /\ request[u].pc = "replaced"
    /\ stored' = request[u].text
    /\ Ends(u)
    /\ UNCHANGED <<live, typed, due, persist, versions, inserted, guard, faults, history>>

\* Its updateOne takes no lock and lands later; then it schedules a persist.
RestoreStores(u) ==
    /\ request[u].pc = "replaced"
    /\ stored' = request[u].text /\ due' = TRUE
    /\ Ends(u)
    /\ UNCHANGED <<live, typed, persist, versions, inserted, guard, faults, history>>

\* An await of the request rejects: what was done stays.
RequestFails(u) ==
    /\ request[u].pc # "idle" /\ faults < MaxFaults
    /\ faults' = faults + 1
    /\ Ends(u)
    /\ half' = (half \/ request[u].pc = "saved")
    /\ UNCHANGED <<texts, persist, versions, inserted, guard, excused,
                   autoSaved, pruned>>

\* deleteVersion refuses what is published.
DeleteVersion(v) ==
    /\ v.auto /\ versions' = versions \ {v}
    /\ UNCHANGED <<texts, persist, inserted, request, guard, faults, history>>

\* The server restarts: the room is made again from the stored document.
Crash ==
    /\ faults < MaxFaults /\ faults' = faults + 1
    /\ live' = stored /\ due' = FALSE
    /\ persist' = NoPersist /\ request' = [u \in Users |-> NoRequest]
    /\ excused' = excused \cup (live \ stored)
    /\ UNCHANGED <<typed, stored, versions, inserted, guard, autoSaved, pruned, half>>

----------------------------------------------------------------------------
PersistStep == PersistBegins \/ PersistStores \/ PersistNumbers \/ PersistInserts \/ PersistPrunes

RequestStep(u) ==
    \/ PublishReads(u) \/ RequestNumbers(u) \/ PublishInserts(u)
    \/ RestoreBacksUp(u) \/ RestoreSaves(u) \/ RestoreReplaces(u) \/ RestoreStores(u)

Next ==
    \/ Type \/ Clear
    \/ PersistStep \/ PersistFails
    \/ \E u \in Users :
          \/ PublishBegins(u) \/ GuardExpires(u)
          \/ \E v \in Listed : RestoreBegins(u, v)
          \/ RequestStep(u) \/ RequestFails(u)
    \/ \E v \in Listed : DeleteVersion(v)
    \/ Crash

Spec == Init /\ [][Next]_vars

\* Timers fire, and what was begun goes on until it ends or rejects.
FairSpec ==
    /\ Spec
    /\ WF_vars(PersistStep)
    /\ \A u \in Users : WF_vars(RequestStep(u))

----------------------------------------------------------------------------
(* Properties *)

Kept == live \cup stored \cup UNION {v.text : v \in versions}

\* A restore loses no edit that was stored when it read the document: the
\* backup has it, and no backup is ever deleted.
OnlyUnsavedIsLost == 0 .. typed \subseteq Kept \cup excused

\* A version numbered when another existed has the higher number: only saves
\* that overlapped share one, whatever was pruned or deleted in between.
NumbersFollowSaves ==
    \A v, w \in versions : v.id <= w.asof => v.number < w.number

\* An auto-save is pruned only when AutoSaveLimit newer auto-saves
\* have been inserted.
NewestAutoSavesStay ==
    \A p \in pruned : Cardinality({a \in autoSaved : a > p}) >= AutoSaveLimit

\* The history can be read by its numbers, and what it keeps of the auto-saves
\* is the newest of them, however saves, pruning and deletion interleave.
VersionsInOrder == NumbersFollowSaves /\ NewestAutoSavesStay

\* Whatever a restore, the persist that was in flight and the typing write over
\* each other, the stored document ends up as the live one, unless a restore
\* failed between writing the one and the other.
StoredFollowsLive == <>[](stored = live \/ half)
=============================================================================
