----------------------------- MODULE Documents -----------------------------
(***************************************************************************)
(* One document as its row, the cached lists that name it, and the         *)
(* sockets that join its room: services/document.service.js with its       *)
(* controller, ensureDocument of socket/roomHandler.js, Dashboard.jsx and  *)
(* the visibility button of Editor.jsx.                                    *)
(*                                                                         *)
(* Abstraction: a row is its owner and visibility (what a list shows of    *)
(* it); nothing in the code adds collaborators, so a user's list holds the *)
(* document iff he owns it.  Ages are abstracted: a cached list may expire *)
(* at any time.                                                            *)
(* Names that every specification has (Init, Next) begin with Documents:   *)
(* this module and Sessions are extended together where both are proved.   *)
(***************************************************************************)
EXTENDS Presence

CONSTANTS Users, Nobody,
          ApiCalls,     \* requests to the API
          Assignments,  \* whose the browsers and requests may be
          MaxOps     \* bound: pages opened, requests made, and mishaps

ASSUME DocumentsAssumption ==
  /\ Assignments \subseteq [Sockets \cup ApiCalls -> Users]
  /\ MaxOps \in Nat /\ Nobody \notin Users

VARIABLES
  whose,     \* whose[k], whose[q]: whose browser it is
  row,       \* the row in MongoDB
  known,     \* whether the id of the document is in use
  op,        \* op[q]: a request to the API: its kind, step, and what it has read
  cache,     \* cache[u]: u's list in Redis
  excused,   \* users whose cached list may be out of date (history)
  changed,   \* the row's visibility was changed or it was deleted (history)
  ops        \* operations so far (bound)

documentVars == <<whose, row, known, op, cache, excused, changed, ops>>
roomVars == <<presenceVars, documentVars>>

Row == [owner : Users, public : BOOLEAN]
NoRow == [owner |-> Nobody, public |-> FALSE]
Kinds == {"list", "create", "private", "public", "delete"}
Steps == {"idle", "get", "find", "store", "insert", "save", "announce", "delete", "clear"}
NoOp == [kind |-> "list", step |-> "idle", row |-> NoRow]

(* What a list of u's documents holds of this one, and no list.            *)
Listing(u) == IF row.owner = u THEN row ELSE NoRow
NoList == [owner |-> Nobody, public |-> TRUE]

DocumentsTypeOK ==
  /\ PresenceTypeOK
  /\ whose \in Assignments
  /\ row \in Row \cup {NoRow} /\ known \in BOOLEAN /\ row # NoRow => known
  /\ op \in [ApiCalls -> [kind : Kinds, step : Steps, row : Row \cup {NoRow}]]
  /\ \A u \in Users : cache[u] \in {NoList, NoRow} \cup [owner : {u}, public : BOOLEAN]
  /\ excused \subseteq Users /\ changed \in BOOLEAN /\ ops \in 0..MaxOps

DocumentsInit ==
  /\ PresenceInit
  /\ whose \in Assignments
  /\ row \in Row \cup {NoRow} /\ known = (row # NoRow)
  /\ op = [q \in ApiCalls |-> NoOp]
  /\ cache = [u \in Users |-> NoList]
  /\ excused = {} /\ changed = FALSE /\ ops = 0

-----------------------------------------------------------------------------
CanAccess(r, u) == r # NoRow /\ (r.public \/ r.owner = u)
OneMore == ops < MaxOps /\ ops' = ops + 1
Is(q, step) == op[q].step = step
Go(q, step) == op' = [op EXCEPT ![q].step = step]
Ends(q) == op' = [op EXCEPT ![q] = NoOp]

(* u has a list that was read and is not stored yet.                       *)
Storing(u) == \E q \in ApiCalls : Is(q, "store") /\ whose[q] = u
(* Nobody will drop u's list: an excuse, if there is one or will be.       *)
Stale(u) == IF u \in Users /\ (cache[u] # NoList \/ Storing(u)) THEN {u} ELSE {}

-----------------------------------------------------------------------------
(* A browser opens the room's page, by its link or from the dashboard (not *)
(* while the id is being made), and sends room:join; ensureDocument looks  *)
(* for the row ...                                                         *)
Open(k) ==
  /\ k \in up \ inPage /\ At(k, "idle") /\ OneMore
  /\ \A q \in ApiCalls : ~Is(q, "insert")
  /\ inPage' = inPage \cup {k}
  /\ join' = [join EXCEPT ![k].step = "find"]
  /\ known' = TRUE
  /\ UNCHANGED <<up, member, leaving, entries, ready, swept, mishaps>>
  /\ UNCHANGED <<whose, row, op, cache, excused, changed>>

Admit(k, step) ==
  join' = IF CanAccess(row, whose[k]) THEN [join EXCEPT ![k].step = "room"]
          ELSE IF step = "find" /\ row = NoRow THEN [join EXCEPT ![k].step = "create"]
          ELSE [join EXCEPT ![k] = NoJoin]

Look(k) ==
  /\ \E step \in {"find", "refind"} : At(k, step) /\ Admit(k, step)
  /\ UNCHANGED <<up, inPage, member, leaving, entries, ready, swept, mishaps>>
  /\ UNCHANGED documentVars

(* ... makes one if there is none, private and his, without a word to the  *)
(* cached list; and looks again when another has made it meanwhile.        *)
EnsureDocument(k) ==
  /\ At(k, "create")
  /\ IF row = NoRow
     THEN /\ row' = [owner |-> whose[k], public |-> FALSE]
          /\ excused' = excused \cup Stale(whose[k])
          /\ join' = [join EXCEPT ![k].step = "room"]
     ELSE /\ join' = [join EXCEPT ![k].step = "refind"]
          /\ UNCHANGED <<row, excused>>
  /\ UNCHANGED <<up, inPage, member, leaving, entries, ready, swept, mishaps>>
  /\ UNCHANGED <<whose, known, op, cache, changed, ops>>

-----------------------------------------------------------------------------
(* A request arrives: a dashboard is mounted or gets the focus, its Create *)
(* button (a fresh id), the visibility button, a deletion.                 *)
Ask(q, kind) ==
  /\ Is(q, "idle") /\ OneMore
  /\ kind = "create" => ~known
  /\ known' = (known \/ kind = "create")
  /\ op' = [op EXCEPT ![q] = [kind |-> kind, row |-> NoRow,
       step |-> IF kind = "create" THEN "insert"
                ELSE IF kind = "list" /\ ready THEN "get" ELSE "find"]]
  /\ UNCHANGED <<presenceVars, whose, row, cache, excused, changed>>

(* listDocuments: the cached list answers, or MongoDB does ...             *)
GetList(q) ==
  /\ Is(q, "get") /\ ready
  /\ IF cache[whose[q]] # NoList THEN Ends(q) ELSE Go(q, "find")
  /\ UNCHANGED <<presenceVars, whose, row, known, cache, excused, changed, ops>>

FindListUnfiltered(q) ==
  /\ Is(q, "find") /\ op[q].kind = "list"
  /\ op' = [op EXCEPT ![q].step = "store", ![q].row = row]
  /\ UNCHANGED <<presenceVars, whose, row, known, cache, excused, changed, ops>>

FindList(q) ==
  /\ Is(q, "find") /\ op[q].kind = "list"
  /\ op' = [op EXCEPT ![q].step = "store", ![q].row = Listing(whose[q])]
  /\ UNCHANGED <<presenceVars, whose, row, known, cache, excused, changed, ops>>

(* ... and its answer is kept for a while, if Redis is there by then.      *)
StoreList(q) ==
  /\ Is(q, "store")
  /\ cache' = IF ready THEN [cache EXCEPT ![whose[q]] = op[q].row] ELSE cache
  /\ Ends(q)
  /\ UNCHANGED <<presenceVars, whose, row, known, excused, changed, ops>>

(* Redis drops a list at the end of its time.                              *)
ListExpires(u) ==
  /\ cache[u] # NoList
  /\ cache' = [cache EXCEPT ![u] = NoList]
  /\ excused' = IF Storing(u) THEN excused ELSE excused \ {u}
  /\ UNCHANGED <<presenceVars, whose, row, known, op, changed, ops>>

-----------------------------------------------------------------------------
(* createDocument.                                                         *)
Insert(q) ==
  /\ Is(q, "insert")
  /\ row' = [owner |-> whose[q], public |-> TRUE]
  /\ op' = [op EXCEPT ![q].step = "clear", ![q].row = row']
  /\ UNCHANGED <<presenceVars, whose, known, cache, excused, changed, ops>>

(* updateDocument and deleteDocument: load, refuse whoever is not the      *)
(* owner ...                                                               *)
FindOwn(q) ==
  /\ Is(q, "find") /\ op[q].kind # "list"
  /\ IF row.owner = whose[q]
     THEN op' = [op EXCEPT ![q].row = row,
                           ![q].step = IF op[q].kind = "delete" THEN "delete" ELSE "save"]
     ELSE Ends(q)
  /\ UNCHANGED <<presenceVars, whose, row, known, cache, excused, changed, ops>>

Wanted(q) == op[q].kind = "public"

(* ... save what differs from the loaded row (by id, so that it may be a   *)
(* row made since by another); a row that has gone is an error ...         *)
Save(q) ==
  /\ Is(q, "save")
  /\ IF row = NoRow THEN Ends(q) /\ UNCHANGED <<row, excused, changed>>
     ELSE /\ Go(q, "announce")
          /\ IF Wanted(q) = op[q].row.public THEN UNCHANGED <<row, excused, changed>>
             ELSE /\ row' = [row EXCEPT !.public = Wanted(q)]
                  /\ changed' = TRUE
                  /\ excused' = IF row.owner = whose[q] THEN excused
                                ELSE excused \cup Stale(row.owner)
  /\ UNCHANGED <<presenceVars, whose, known, cache, ops>>

(* ... with the save answered, put strangers out of a room that has become *)
(* private, and drop the owner's list unless Redis is away ...             *)
Clearing(q) == IF ready THEN Go(q, "clear") /\ UNCHANGED excused
               ELSE Ends(q) /\ excused' = excused \cup Stale(op[q].row.owner)

Announce(q) ==
  /\ Is(q, "announce")
  /\ member' = IF ~Wanted(q) /\ op[q].row.public
               THEN member \ {k \in up : whose[k] # op[q].row.owner} ELSE member
  /\ Clearing(q)
  /\ UNCHANGED <<up, inPage, join, leaving, entries, ready, swept, mishaps>>
  /\ UNCHANGED <<whose, row, known, cache, changed, ops>>

DeleteUncleared(q) ==
  /\ Is(q, "delete") /\ row' = NoRow /\ changed' = TRUE
  /\ Ends(q)
  /\ UNCHANGED <<presenceVars, whose, known, cache, excused, ops>>

Delete(q) ==
  /\ Is(q, "delete")
  /\ row' = NoRow /\ changed' = TRUE
  /\ excused' = IF row.owner = op[q].row.owner THEN excused
                ELSE excused \cup Stale(row.owner)
  /\ Go(q, "clear")
  /\ UNCHANGED <<presenceVars, whose, known, cache, ops>>

(* invalidateDocListCaches.                                                *)
Clear(q) ==
  LET u == op[q].row.owner IN
  /\ Is(q, "clear")
  /\ IF ready
     THEN /\ cache' = [cache EXCEPT ![u] = NoList]
          /\ excused' = IF Storing(u) THEN excused \cup {u} ELSE excused \ {u}
     ELSE excused' = excused \cup Stale(u) /\ UNCHANGED cache
  /\ Ends(q)
  /\ UNCHANGED <<presenceVars, whose, row, known, changed, ops>>

(* An operation of a request throws (also a get that Redis does not        *)
(* answer): the request ends there.                                        *)
Throws(q) ==
  /\ ~Is(q, "idle")
  /\ \/ Mishap
     \/ Is(q, "get") /\ ~ready /\ UNCHANGED mishaps
  /\ excused' = IF op[q].step \in {"announce", "clear"}
                THEN excused \cup Stale(op[q].row.owner) ELSE excused
  /\ Ends(q)
  /\ UNCHANGED <<up, inPage, member, join, leaving, entries, ready, swept>>
  /\ UNCHANGED <<whose, row, known, cache, changed, ops>>

-----------------------------------------------------------------------------
RequestStep(q) ==
  \/ GetList(q) \/ FindList(q) \/ StoreList(q) \/ Insert(q)
  \/ FindOwn(q) \/ Save(q) \/ Announce(q) \/ Delete(q) \/ Clear(q)

JoinBegins(k) == Open(k) \/ Look(k) \/ EnsureDocument(k)

DocumentsNext ==
  /\ \/ \E k \in Sockets : JoinBegins(k)
     \/ PresenceStep /\ UNCHANGED documentVars
     \/ \E q \in ApiCalls : RequestStep(q) \/ Throws(q) \/ \E kind \in Kinds : Ask(q, kind)
     \/ \E u \in Users : ListExpires(u)
  /\ ops' + mishaps' <= MaxOps

DocumentsSpec == DocumentsInit /\ [][DocumentsNext]_roomVars

-----------------------------------------------------------------------------
(* A change of u's documents has been made and his list is not dropped     *)
(* yet.                                                                    *)
Pending(u) ==
  \E q \in ApiCalls : op[q].step \in {"announce", "clear"} /\ op[q].row.owner = u

(* A list that Redis keeps is what MongoDB holds, unless a change is on    *)
(* its way to drop it, or one of the named accidents happened: a list was  *)
(* read before the change and stored after its invalidation, the document  *)
(* was made by a join, Redis was away or an operation threw, or the row    *)
(* had become another's.  (invalidateDocListCaches after every change.)    *)
CacheIsCurrent ==
  \A u \in Users \ excused :
    cache[u] # NoList /\ ~Pending(u) => cache[u] = Listing(u)

(* As long as nobody changes its visibility or deletes it, the document    *)
(* has a row that everybody in its room may read: of two visitors who open *)
(* an id that does not exist, one makes the document and the other is      *)
(* refused.                                                                *)
MembersHaveAccess ==
  ~changed => \A k \in member : CanAccess(row, whose[k])

(* Who is in the room may be there and is shown to the others as present.  *)
MembersAreKnown == MembersHaveAccess /\ MemberIsListed
=============================================================================
