------------------------------- MODULE Collab -------------------------------
(***************************************************************************)
(* One document edited in several browsers: the Editor page that fetches   *)
(* it, the Yjs replica of the CodeEditor that page shows, its socket, the  *)
(* handlers roomHandler.js and editorHandler.js run for it, and the owner  *)
(* changing the visibility.                                                *)
(*                                                                         *)
(* A replica is a set of updates, merged by union.  Updates go from the    *)
(* browsers to the server and from the server to the members of the room;  *)
(* the server never asks a browser for what it lacks.  A browser that      *)
(* reconnects does so with another server-side socket, which is in no      *)
(* room: whatever belonged to the old one is gone.                         *)
(* The page shows a spinner while it fetches the document, which destroys  *)
(* CodeEditor with its replica, and so does every refresh after a change   *)
(* of the visibility; the editor that is shown next starts from an empty   *)
(* replica and asks the server for everything, as the member it still is.  *)
(***************************************************************************)
EXTENDS Naturals, Sequences

CONSTANTS
    Clients,        \* browsers, each with one editor page for the document
    Owner,          \* the owner's
    Allowed,        \* those of the owner and of the collaborators
    Steady,         \* bound: in the room from the start, no connection or request fails
    Starts,         \* bound: whether the document is public at the start
    MaxDrops,       \* bound: connections the browsers lose or replace
    MaxUpdates,     \* bound: updates typed
    MaxToggles      \* bound: changes of the document's visibility

ASSUME ClientsAssumption ==
    /\ Owner \in Allowed /\ Allowed \subseteq Clients /\ Steady \subseteq Clients
    /\ Starts \subseteq BOOLEAN
ASSUME BoundsAssumption ==
    MaxDrops \in Nat /\ MaxUpdates \in Nat /\ MaxToggles \in Nat

VARIABLES
    page,       \* each client's Editor page: not there yet, with its spinner,
                \* with CodeEditor, with an error, or left
    doc,        \* the Y.Doc of each client's CodeEditor: the updates it holds
    own,        \* those that were typed on it
    online,     \* clients whose socket is connected
    buffer,     \* packets emitted while it was not
    checking,   \* GETs of each client's handleVisibility in flight
    loads,      \* GETs of each client's useDocument in flight
    patched,    \* answered PATCHes of the visibility the owner's page has yet to see
    drops,      \* connections lost or replaced so far
    up, down,   \* packets travelling on each client's connection
    joined,     \* members of the Socket.IO room
    joining,    \* the room:join handler of each connection
    room,       \* the live Y.Doc of the room
    author,     \* who typed each update, {} before it is typed
    after,      \* what had been typed on its Y.Doc before it
    isPublic,   \* Document.isPublic
    announcing, \* visibilities updateDocument saved and has yet to announce
    toggles,    \* visibility changes so far
    secure,     \* history: typed on a member connection that is one still
    late        \* history: joins past canAccess when the room was cleared

view == <<page, doc, own>>
requests == <<checking, loads, patched>>
browser == <<view, buffer, requests>>
network == <<online, drops>>
handlers == <<joined, joining>>
text == <<room, author, after>>
access == <<isPublic, announcing, toggles, late>>
vars == <<browser, network, up, down, handlers, text, access, secure>>

Updates == 1 .. MaxUpdates

Packet == [event : {"join", "leave", "vector", "update", "full", "public", "private", "kicked"},
           data : SUBSET Updates]
JoinState == [pc : {"idle", "checked", "member", "encoded"}, state : SUBSET Updates]

\* A page without CodeEditor has no replica.
TypeOK ==
    /\ page \in [Clients -> {"new", "loading", "open", "failed", "closed"}]
    /\ doc \in [Clients -> SUBSET Updates] /\ own \in [Clients -> SUBSET Updates]
    /\ \A c \in Clients : own[c] \subseteq doc[c] /\ (page[c] # "open" => doc[c] = {})
    /\ online \subseteq Clients /\ drops \in 0 .. MaxDrops
    /\ buffer \in [Clients -> Seq(Packet)]
    /\ checking \in [Clients -> Nat] /\ loads \in [Clients -> Nat] /\ patched \in Nat
    /\ up \in [Clients -> Seq(Packet)] /\ down \in [Clients -> Seq(Packet)]
    /\ joined \subseteq online
    /\ joining \in [Clients -> JoinState]
    /\ room \subseteq Updates /\ author \in [Updates -> SUBSET Clients]
    /\ after \in [Updates -> SUBSET Updates]
    /\ isPublic \in BOOLEAN /\ announcing \subseteq BOOLEAN
    /\ toggles \in 0 .. MaxToggles
    /\ secure \subseteq Updates /\ late \subseteq Clients

Msg(event, data) == [event |-> event, data |-> data]
Idle == [pc |-> "idle", state |-> {}]

\* The pages of Steady are open, connected and in the room.
Init ==
    /\ page = [c \in Clients |-> IF c \in Steady THEN "open" ELSE "new"]
    /\ doc = [c \in Clients |-> {}] /\ own = doc
    /\ checking = [c \in Clients |-> 0] /\ loads = checking /\ patched = 0
    /\ online = Steady /\ joined = Steady /\ drops = 0
    /\ buffer = [c \in Clients |-> <<>>]
    /\ up = [c \in Clients |-> <<>>] /\ down = [c \in Clients |-> <<>>]
    /\ joining = [c \in Clients |-> Idle]
    /\ room = {} /\ author = [u \in Updates |-> {}] /\ after = author /\ secure = {}
    /\ isPublic \in Starts /\ (Steady \subseteq Allowed \/ isPublic)
    /\ announcing = {} /\ toggles = 0 /\ late = {}

Typed(c) == {u \in Updates : author[u] = {c}}

\* Yjs shows an update once it has the earlier ones of the same Y.Doc.
Visible(S) == {u \in S : after[u] \subseteq S}

\* canAccessDocument
CanAccess(c) == isPublic \/ c \in Allowed

----------------------------------------------------------------------------
(* The browser *)

\* socket.emit: packets go out in order, or wait for a connection.
Emit(c, packets) ==
    IF c \in online
    THEN up' = [up EXCEPT ![c] = @ \o packets] /\ UNCHANGED buffer
    ELSE buffer' = [buffer EXCEPT ![c] = @ \o packets] /\ UNCHANGED up

Vector(c) == Msg("vector", Visible(doc[c]))
Join == Msg("join", {})

\* The Editor component is there: its socket effect has its listeners on.
Present(c) == page[c] \in {"loading", "open", "failed"}

\* CodeEditor goes, with its Y.Doc and its listeners; the page becomes p.
Unmounts(c, p) ==
    /\ page' = [page EXCEPT ![c] = p]
    /\ doc' = [doc EXCEPT ![c] = {}] /\ own' = [own EXCEPT ![c] = {}]

\* Mutant: a new CodeEditor counts on the room:join of its page.
MountsSilently(c) ==
    page' = [page EXCEPT ![c] = "open"] /\ UNCHANGED <<doc, own, up, buffer>>

\* CodeEditor comes: its Y.Doc is new, and the server is told so.
Mounts(c) ==
    /\ page' = [page EXCEPT ![c] = "open"] /\ UNCHANGED <<doc, own>>
    /\ Emit(c, <<Vector(c)>>)

\* The effects of a page that gets a socket: CodeEditor's before its parent's.
Greeting(c) == IF page[c] = "open" THEN <<Vector(c), Join>> ELSE <<Join>>

\* The page is mounted: its first rendering has a CodeEditor, which greets, and
\* is gone as soon as the effects have run and the fetch has begun.
Open(c) ==
    /\ page[c] = "new"
    /\ page' = [page EXCEPT ![c] = "loading"] /\ loads' = [loads EXCEPT ![c] = @ + 1]
    /\ Emit(c, <<Vector(c), Join>>)
    /\ UNCHANGED <<doc, own, checking, patched, network, down, handlers, text, access, secure>>

\* fetchDocument, again: on a page that is gone it changes nothing.
Refresh(c) ==
    IF Present(c) THEN Unmounts(c, "loading") /\ loads' = [loads EXCEPT ![c] = @ + 1]
                  ELSE UNCHANGED <<view, loads>>

\* A request is refused without access, and may fail for any reason.
Errs(c) == c \notin Steady \/ ~CanAccess(c)

\* fetchDocument is answered.  An error that another answer has set stays.
Loaded(c) ==
    /\ loads[c] > 0 /\ loads' = [loads EXCEPT ![c] = @ - 1]
    /\ CanAccess(c)
    /\ IF page[c] = "loading" THEN Mounts(c) ELSE UNCHANGED <<view, up, buffer>>
    /\ UNCHANGED <<checking, patched, network, down, handlers, text, access, secure>>

LoadFails(c) ==
    /\ loads[c] > 0 /\ loads' = [loads EXCEPT ![c] = @ - 1]
    /\ Errs(c)
    /\ IF Present(c) THEN Unmounts(c, "failed") ELSE UNCHANGED view
    /\ UNCHANGED <<up, buffer, checking, patched, network, down, handlers, text, access, secure>>

\* handleDocUpdate sends every update of local origin at once.
Type(c, u) ==
    /\ page[c] = "open"
    /\ author[u] = {} /\ \A v \in Updates : v < u => author[v] # {}
    /\ doc' = [doc EXCEPT ![c] = @ \cup {u}] /\ own' = [own EXCEPT ![c] = @ \cup {u}]
    /\ author' = [author EXCEPT ![u] = {c}] /\ after' = [after EXCEPT ![u] = own[c]]
    /\ Emit(c, <<Msg("update", {u})>>)
    /\ secure' = IF c \in joined THEN secure \cup {u} ELSE secure
    /\ UNCHANGED <<page, requests, network, down, handlers, room, access>>

\* A connection is made: what was buffered is sent, then "connect" fires.
Connect(c) ==
    /\ c \notin online /\ online' = online \cup {c}
    /\ up' = [up EXCEPT ![c] = IF page[c] = "open" THEN Append(buffer[c], Vector(c))
                                                   ELSE buffer[c]]
    /\ buffer' = [buffer EXCEPT ![c] = <<>>]
    /\ UNCHANGED <<view, requests, drops, down, handlers, text, access, secure>>

\* Mutant: the socket stays a member until a handler takes it out.
UnlinkedMember(c) ==
    /\ c \in online /\ online' = online \ {c}
    /\ c \notin Steady /\ drops < MaxDrops /\ drops' = drops + 1
    /\ up' = [up EXCEPT ![c] = <<>>] /\ down' = [down EXCEPT ![c] = <<>>]
    /\ joining' = [joining EXCEPT ![c] = Idle] /\ UNCHANGED joined
    /\ secure' = secure \ Typed(c) /\ late' = late \ {c}

\* A connection ends, with what travels on it.  Socket.IO takes the socket out
\* of its rooms before the disconnect handler looks at them; a room:join still
\* running for it goes on to no effect.
Unlinked(c) ==
    /\ c \in online /\ online' = online \ {c}
    /\ c \notin Steady /\ drops < MaxDrops /\ drops' = drops + 1
    /\ up' = [up EXCEPT ![c] = <<>>] /\ down' = [down EXCEPT ![c] = <<>>]
    /\ joined' = joined \ {c} /\ joining' = [joining EXCEPT ![c] = Idle]
    /\ secure' = secure \ Typed(c) /\ late' = late \ {c}

\* The transport fails; the same Socket object will reconnect.
LinkDrops(c) ==
    /\ Unlinked(c)
    /\ UNCHANGED <<browser, text, isPublic, announcing, toggles>>

\* A refreshed access token: SocketProvider disconnects the instance and makes
\* another, and the page's effects run again on it.
TokenChanges(c) ==
    /\ Unlinked(c)
    /\ buffer' = [buffer EXCEPT ![c] = IF Present(c) THEN Greeting(c) ELSE <<>>]
    /\ UNCHANGED <<view, requests, text, isPublic, announcing, toggles>>

\* The page goes away and the effect's cleanup emits room:leave.  When a
\* handler has emitted one already, the second changes nothing.
LeavePage(c) ==
    /\ Unmounts(c, "closed")
    /\ Emit(c, <<Msg("leave", {})>>)

Close(c) ==
    /\ Present(c) /\ c \notin Steady
    /\ LeavePage(c)
    /\ UNCHANGED <<requests, network, down, handlers, text, access, secure>>

\* The next packet for client c; who does not listen any more loses it.
Taken(c, events) ==
    /\ down[c] # <<>> /\ Head(down[c]).event \in events
    /\ down' = [down EXCEPT ![c] = Tail(@)]

\* handleFull, handleUpdate: CodeEditor's listeners, which come and go with it.
ReceiveUpdate(c) ==
    /\ Taken(c, {"full", "update"})
    /\ doc' = [doc EXCEPT ![c] = IF page[c] = "open" THEN @ \cup Head(down[c]).data ELSE @]
    /\ UNCHANGED <<page, own, buffer, requests, network, up, handlers, text, access, secure>>

\* handleVisibility of a public document fetches it again ...
ReceivePublic(c) ==
    /\ Taken(c, {"public"}) /\ Refresh(c)
    /\ UNCHANGED <<buffer, checking, patched, network, up, handlers, text, access, secure>>

\* ... and of a private one asks first whether it is still accessible.
ReceivePrivate(c) ==
    /\ Taken(c, {"private"})
    /\ checking' = IF Present(c) THEN [checking EXCEPT ![c] = @ + 1] ELSE checking
    /\ UNCHANGED <<view, buffer, loads, patched, network, up, handlers, text, access, secure>>

\* The answer: the page fetches the document again, or, whatever the error, leaves.
AccessAnswered(c) ==
    /\ checking[c] > 0 /\ checking' = [checking EXCEPT ![c] = @ - 1]
    /\ \/ CanAccess(c) /\ Refresh(c) /\ UNCHANGED <<up, buffer>>
       \/ Errs(c) /\ LeavePage(c) /\ UNCHANGED loads
    /\ UNCHANGED <<patched, network, down, handlers, text, access, secure>>

\* handleVisibilityToggle's PATCH is answered: the owner's page fetches the
\* document again, unless the answer is an error or another browser's.
ToggleAnswered ==
    /\ patched > 0 /\ patched' = patched - 1
    /\ Refresh(Owner) \/ UNCHANGED <<view, loads>>
    /\ UNCHANGED <<buffer, checking, network, up, down, handlers, text, access, secure>>

ReceiveKicked(c) ==
    /\ Taken(c, {"kicked"})
    /\ IF Present(c) THEN LeavePage(c) ELSE UNCHANGED <<view, up, buffer>>
    /\ UNCHANGED <<requests, network, handlers, text, access, secure>>

----------------------------------------------------------------------------
(* The server *)

\* Packets sent to some clients.
Sent(targets, packets) ==
    [c \in Clients |-> IF c \in targets \cap online THEN down[c] \o packets ELSE down[c]]

\* A connection hands its next packet, an event of this kind, to a handler.
Handles(c, event) ==
    /\ up[c] # <<>> /\ Head(up[c]).event = event
    /\ up' = [up EXCEPT ![c] = Tail(@)]

\* room:join reads the document, checks the access, and awaits the room; what
\* the socket sends meanwhile finds it a member of nothing ...
HandleJoin(c) ==
    /\ joining[c].pc = "idle" /\ Handles(c, "join")
    /\ joining' = IF CanAccess(c) THEN [joining EXCEPT ![c].pc = "checked"] ELSE joining
    /\ UNCHANGED <<browser, network, down, joined, text, access, secure>>

\* ... makes the socket a member and awaits the list of members ...
JoinEntered(c) ==
    /\ joining[c].pc = "checked"
    /\ joined' = joined \cup {c}
    /\ joining' = [joining EXCEPT ![c].pc = "member"]
    /\ UNCHANGED <<browser, network, up, down, text, access, secure>>

\* ... encodes the room's state and awaits the presence list ...
JoinEncoded(c) ==
    /\ joining[c].pc = "member"
    /\ joining' = [joining EXCEPT ![c] = [pc |-> "encoded", state |-> room]]
    /\ UNCHANGED <<browser, network, up, down, joined, text, access, secure>>

\* ... and sends the state to the socket.
JoinAnswered(c) ==
    /\ joining[c].pc = "encoded"
    /\ down' = Sent({c}, <<Msg("full", joining[c].state)>>)
    /\ joining' = [joining EXCEPT ![c] = Idle]
    /\ UNCHANGED <<browser, network, up, joined, text, access, secure>>

\* Mutant: the state is encoded before the socket is a member.
JoinStepEncodesFirst(c) ==
    /\ \/ /\ joining[c].pc = "checked"
          /\ joining' = [joining EXCEPT ![c] = [pc |-> "member", state |-> room]]
          /\ UNCHANGED <<joined, down>>
       \/ /\ joining[c].pc = "member"
          /\ joining' = [joining EXCEPT ![c].pc = "encoded"]
          /\ joined' = joined \cup {c} /\ UNCHANGED down
       \/ /\ joining[c].pc = "encoded" /\ joining' = [joining EXCEPT ![c] = Idle]
          /\ down' = Sent({c}, <<Msg("full", joining[c].state)>>) /\ UNCHANGED joined
    /\ UNCHANGED <<browser, network, up, text, access, secure>>

JoinStep(c) == JoinEntered(c) \/ JoinEncoded(c) \/ JoinAnswered(c)

HandleLeave(c) ==
    /\ Handles(c, "leave")
    /\ joined' = joined \ {c}
    /\ secure' = IF c \in joined THEN secure \ Typed(c) ELSE secure
    /\ UNCHANGED <<browser, network, down, joining, text, access>>

\* sync:state-vector is answered with what the sender lacks, never with a
\* request for what the server lacks.
HandleVector(c) ==
    /\ Handles(c, "vector")
    /\ down' = IF c \in joined
               THEN Sent({c}, <<Msg("update", room \ Head(up[c]).data)>>) ELSE down
    /\ UNCHANGED <<browser, network, handlers, text, access, secure>>

\* sync:update is merged and passed on, or ignored when c is not a member.
HandleUpdate(c) ==
    /\ Handles(c, "update")
    /\ IF c \in joined
       THEN /\ room' = room \cup Head(up[c]).data
            /\ down' = Sent(joined \ {c}, <<Head(up[c])>>)
       ELSE UNCHANGED <<room, down>>
    /\ UNCHANGED <<browser, network, handlers, author, after, access, secure>>

\* updateDocument saves the visibility ...
SaveVisibility(v) ==
    /\ toggles < MaxToggles /\ isPublic # v /\ v \notin announcing
    /\ isPublic' = v /\ announcing' = announcing \cup {v} /\ toggles' = toggles + 1
    /\ UNCHANGED <<browser, network, up, down, handlers, text, late, secure>>

\* ... and, the save awaited, tells the room, clears it of strangers, and answers.
Strangers == joined \ Allowed

\* Mutant: the room is told, and nobody is put out of it.
AnnounceOnly(v) ==
    /\ v \in announcing /\ announcing' = announcing \ {v} /\ patched' = patched + 1
    /\ down' = Sent(joined, <<Msg(IF v THEN "public" ELSE "private", {})>>)
    /\ late' = IF v THEN late ELSE {c \in Clients : joining[c].pc = "checked"}
    /\ UNCHANGED <<view, buffer, checking, loads, network, up, handlers, text>>
    /\ UNCHANGED <<isPublic, toggles, secure>>

Announce(v) ==
    /\ v \in announcing /\ announcing' = announcing \ {v} /\ patched' = patched + 1
    /\ IF v THEN down' = Sent(joined, <<Msg("public", {})>>) /\ UNCHANGED <<joined, late, secure>>
       ELSE /\ down' = [c \in Clients |->
                  IF c \in Strangers
                  THEN Sent({c}, <<Msg("private", {}), Msg("kicked", {})>>)[c]
                  ELSE Sent(joined, <<Msg("private", {})>>)[c]]
            /\ joined' = joined \ Strangers
            /\ secure' = secure \ UNION {Typed(c) : c \in Strangers}
            /\ late' = {c \in Clients : joining[c].pc = "checked"}
    /\ UNCHANGED <<view, buffer, checking, loads, network, up, joining, text, isPublic, toggles>>

----------------------------------------------------------------------------
Handle(c) == HandleJoin(c) \/ HandleLeave(c) \/ HandleVector(c) \/ HandleUpdate(c)
Receive(c) == ReceiveUpdate(c) \/ ReceivePublic(c) \/ ReceivePrivate(c) \/ ReceiveKicked(c)
LoadAnswered(c) == Loaded(c) \/ LoadFails(c)

Next ==
    \/ \E c \in Clients :
          \/ Open(c) \/ Close(c) \/ Connect(c) \/ LinkDrops(c) \/ TokenChanges(c)
          \/ \E u \in Updates : Type(c, u)
          \/ Receive(c) \/ LoadAnswered(c) \/ AccessAnswered(c)
          \/ Handle(c) \/ JoinStep(c)
    \/ ToggleAnswered
    \/ \E v \in BOOLEAN : SaveVisibility(v) \/ Announce(v)

Spec == Init /\ [][Next]_vars

\* Packets arrive, handlers run on, fetches are answered, and a saved visibility
\* is announced.
FairSpec ==
    /\ Spec
    /\ \A c \in Clients :
          /\ WF_vars(Receive(c)) /\ WF_vars(Handle(c)) /\ WF_vars(JoinStep(c))
          /\ WF_vars(LoadAnswered(c))
    /\ \A v \in BOOLEAN : WF_vars(Announce(v))

----------------------------------------------------------------------------
(* Properties *)

\* Updates on their way to client c.
Coming(c) ==
    joining[c].state \cup UNION {down[c][i].data : i \in 1 .. Len(down[c])}

\* The server is about to be asked for all that c's replica lacks.
Asked(c) ==
    \E i \in 1 .. Len(up[c]) : up[c][i].event = "vector" /\ up[c][i].data \subseteq doc[c]

\* The editor of a member misses nothing, however often it was destroyed and
\* built anew: what the live document holds and its replica does not is on its
\* way, in the state its join will encode (socket.join comes before
\* encodeStateAsUpdate), or about to be asked for.
NoGap ==
    \A c \in joined :
        page[c] = "open" /\ joining[c].pc # "member" =>
            room \subseteq doc[c] \cup Coming(c) \/ Asked(c)

\* An update typed on a member connection is lost only with the connection or
\* the membership: until then the server has it or it is on its way.
TypedOnMemberArrives ==
    \A c \in Clients, u \in secure :
        author[u] = {c} /\ u \notin room =>
            \E i \in 1 .. Len(up[c]) : up[c][i] = Msg("update", {u})

\* Between a member's browser and the live document nothing goes missing, in
\* either direction.
MembersLoseNothing == NoGap /\ TypedOnMemberArrives

\* Once the change to private is announced, the only members without access are
\* joins that had passed canAccess before it and entered the room after it.
StrangersWereLate ==
    ~isPublic /\ FALSE \notin announcing => Strangers \subseteq late

\* Whatever the live document holds reaches the browsers that stay members, those
\* whose page is fetching the document and shows no editor yet included: time and
\* again they all have the whole of it.
Staying(c) == c \in joined /\ page[c] \in {"loading", "open"}
RoomReachesMembers == []<>(\A c \in Clients : Staying(c) => room \subseteq doc[c])

\* Nothing is travelling, and every open page has a connection.
Quiet ==
    \A c \in Clients :
        /\ up[c] = <<>> /\ down[c] = <<>> /\ joining[c] = Idle
        /\ page[c] = "open" => c \in online

\* README.md: "conflict-free merges with offline edits".
OfflineEditsMerge ==
    Quiet => \A c \in Clients : page[c] = "open" => doc[c] \subseteq room
=============================================================================
