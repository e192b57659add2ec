--------------------------- MODULE VersionsProofs ---------------------------
(***************************************************************************)
(* Theorems about Versions, for any finite set of users, any number of     *)
(* edits, versions and faults, and any limit of auto-saves: the history    *)
(* keeps its order, a restore loses nothing that was stored, and every     *)
(* variable keeps its type.                                                *)
(***************************************************************************)
EXTENDS Versions, FiniteSetTheorems, TLAPS

(* ------------------------------- Invariant ------------------------------ *)

\* Where a persist or a request is, and what it holds, bounds aside.
Held == [pc : {"idle", "encoded", "stored", "numbered", "inserted"},
         text : SUBSET Nat, number : Nat, asof : Nat]

Asked == [pc : {"idle", "admitted", "read", "numbered", "backed", "saved", "replaced"},
          op : {"none", "publish", "restore"},
          doc : SUBSET Nat, text : SUBSET Nat, from : Nat, number : Nat, asof : Nat]

Types ==
    /\ live \in SUBSET Nat /\ stored \in SUBSET Nat /\ typed \in Nat
    /\ persist \in Held /\ request \in [Users -> Asked]
    /\ inserted \in Nat

\* The collection is finite, and a version is known by its id.
Collection ==
    /\ IsFiniteSet(versions)
    /\ \A v \in versions :
          /\ v.id \in Nat /\ v.id <= inserted /\ v.number \in Nat /\ v.asof \in Nat
          /\ v.text \in SUBSET Nat /\ v.auto \in BOOLEAN
    /\ \A v, w \in versions : v.id = w.id => v = w

\* A number that is held is higher than that of every version that was there
\* when it was read.
Ahead(h) == h.asof <= inserted /\ \A v \in versions : v.id <= h.asof => v.number < h.number

HeldAhead ==
    /\ persist.pc = "numbered" => Ahead(persist)
    /\ \A u \in Users : request[u].pc = "numbered" => Ahead(request[u])

\* The auto-saves that were inserted; those in the collection are among them.
Recorded ==
    /\ IsFiniteSet(autoSaved) /\ autoSaved \subseteq Nat
    /\ \A a \in autoSaved : a <= inserted
    /\ \A v \in AutoSaves : v.id \in autoSaved
    /\ pruned \subseteq Nat

OrderInv ==
    Types /\ Collection /\ HeldAhead /\ Recorded /\ NumbersFollowSaves /\ NewestAutoSavesStay

(* --------------------------------- Lemmas ------------------------------- *)

\* A finite set of versions has one with the highest number: of the sets of
\* versions above each, one is minimal.
LEMMA HighestVersion ==
    ASSUME NEW V, IsFiniteSet(V), V # {}, \A v \in V : v.number \in Nat
    PROVE  \E v \in V : \A w \in V : w.number <= v.number
<1> DEFINE Above(v) == {w \in V : w.number > v.number}
           T == {Above(v) : v \in V}
<1>1. T \subseteq FiniteSubsetsOf(V) /\ T # {}
  <2>1. \A v \in V : Above(v) \in SUBSET V /\ IsFiniteSet(Above(v))
    BY FS_Subset
  <2>2. QED  BY <2>1 DEF FiniteSubsetsOf
<1>2. PICK x \in T : \A y \in T : <<y, x>> \notin StrictSubsetOrdering(V)
  BY <1>1, FS_StrictSubsetOrderingWellFounded, WFMin
<1>3. PICK v \in V : x = Above(v)
  OBVIOUS
<1>4. ASSUME NEW w \in V, ~ w.number <= v.number PROVE FALSE
  <2>1. w \in Above(v) /\ w \notin Above(w)
    BY <1>4
  <2>2. Above(w) \subseteq Above(v) /\ Above(w) # Above(v)
    BY <2>1
  <2>3. <<Above(w), Above(v)>> \in (SUBSET V) \X (SUBSET V)
    OBVIOUS
  <2>4. <<Above(w), Above(v)>> \in StrictSubsetOrdering(V)
    BY <2>2, <2>3 DEF StrictSubsetOrdering
  <2>5. QED  BY <2>4, <1>2, <1>3
<1>5. QED  BY <1>4

\* getNextVersionNumber is higher than the number of every version there is.
LEMMA NextIsHigher ==
    ASSUME IsFiniteSet(versions), \A v \in versions : v.number \in Nat
    PROVE  /\ NextVersionNumber \in Nat
           /\ \A v \in versions : v.number < NextVersionNumber
<1>1. CASE versions = {}
  BY <1>1 DEF NextVersionNumber, Numbers
<1>2. CASE versions # {}
  <2>1. PICK v \in versions : \A w \in versions : w.number <= v.number
    BY <1>2, HighestVersion
  <2>2. v.number \in Numbers /\ \A n \in Numbers : v.number >= n
    BY <2>1 DEF Numbers
  <2>3. Max(Numbers) \in Numbers /\ \A n \in Numbers : Max(Numbers) >= n
    BY <2>2 DEF Max
  <2>4. Numbers \subseteq Nat /\ \A w \in versions : w.number \in Numbers
    BY DEF Numbers
  <2>5. NextVersionNumber = Max(Numbers) + 1
    BY <2>2 DEF NextVersionNumber
  <2>6. Max(Numbers) \in Nat
    BY <2>3, <2>4
  <2>7. QED  BY <2>3, <2>4, <2>5, <2>6
<1>3. QED  BY <1>1, <1>2

\* What is pruned has AutoSaveLimit newer auto-saves, each known by its id.
LEMMA ExpiredAreOld ==
    ASSUME OrderInv, NEW v \in Expired
    PROVE  Cardinality({a \in autoSaved : a > v.id}) >= AutoSaveLimit
<1> DEFINE T == {a \in autoSaved : a > v.id}
           f == [w \in Newer(v) |-> w.id]
<1>1. v \in AutoSaves /\ Cardinality(Newer(v)) >= AutoSaveLimit
  BY DEF Expired
<1>2. IsFiniteSet(T)
  BY FS_Subset DEF OrderInv, Recorded
<1>3. \A w \in Newer(v) : w \in versions /\ f[w] \in T
  BY DEF Newer, AutoSaves, OrderInv, Recorded
<1>4. f \in Injection(Newer(v), T)
  BY <1>3 DEF Injection, IsInjective, OrderInv, Collection
<1>5. Cardinality(Newer(v)) <= Cardinality(T) /\ IsFiniteSet(Newer(v))
  BY <1>2, <1>4, FS_Injection
<1>6. Cardinality(Newer(v)) \in Nat /\ Cardinality(T) \in Nat
  BY <1>2, <1>5, FS_CardinalityType
<1>7. QED  BY <1>1, <1>5, <1>6, LimitAssumption

(* ------------------------------ Kinds of step --------------------------- *)

\* What is held stays ahead when the collection only loses versions or gains
\* one with a new id.
LEMMA AheadStays ==
    ASSUME OrderInv, inserted' \in Nat, inserted <= inserted',
           \A v \in versions' : v \in versions \/ v.id = inserted + 1,
           NEW h, h.asof \in Nat, Ahead(h)
    PROVE  /\ h.asof <= inserted'
           /\ \A v \in versions' : v.id <= h.asof => v.number < h.number
BY DEF OrderInv, Types, Ahead

\* What a step may leave in a persist or a request that holds a number.
Holds(h, old) == h.pc = "numbered" => h = old

\* A step that changes neither the collection nor what is recorded of it, and
\* reads no number but the next.
LEMMA CollectionStays ==
    ASSUME OrderInv, UNCHANGED <<versions, inserted, autoSaved, pruned>>, Types',
           Holds(persist', persist)
             \/ (persist'.asof = inserted /\ persist'.number = NextVersionNumber),
           \A u \in Users : Holds(request'[u], request[u])
             \/ (request'[u].asof = inserted /\ request'[u].number = NextVersionNumber)
    PROVE  OrderInv'
<1>1. /\ NextVersionNumber \in Nat
      /\ \A v \in versions : v.number < NextVersionNumber
  BY NextIsHigher DEF OrderInv, Collection
<1>2. Collection' /\ Recorded' /\ NumbersFollowSaves' /\ NewestAutoSavesStay'
  BY DEF OrderInv, Collection, Recorded, NumbersFollowSaves, NewestAutoSavesStay, AutoSaves
<1>3. persist'.pc = "numbered" => Ahead(persist)'
  BY <1>1 DEF OrderInv, HeldAhead, Ahead, Holds, Types
<1>4. \A u \in Users : request'[u].pc = "numbered" => Ahead(request[u])'
  BY <1>1 DEF OrderInv, HeldAhead, Ahead, Holds, Types
<1>5. QED  BY <1>2, <1>3, <1>4 DEF OrderInv, HeldAhead

\* A step that inserts a version with a number it held.
LEMMA VersionInserted ==
    ASSUME OrderInv, NEW number \in Nat, NEW text \in SUBSET Nat, NEW auto \in BOOLEAN,
           NEW asof \in Nat, asof <= inserted,
           \A v \in versions : v.id <= asof => v.number < number,
           Insert(number, text, auto, asof), pruned' = pruned, Types',
           Holds(persist', persist), \A u \in Users : Holds(request'[u], request[u])
    PROVE  OrderInv'
<1> DEFINE new == [id |-> inserted + 1, number |-> number, text |-> text,
                   auto |-> auto, asof |-> asof]
<1>1. /\ versions' = versions \cup {new} /\ inserted' = inserted + 1
      /\ autoSaved' = IF auto THEN autoSaved \cup {inserted + 1} ELSE autoSaved
  BY DEF Insert
<1>2. Collection'
  <2>1. IsFiniteSet(versions')
    BY <1>1, FS_AddElement DEF OrderInv, Collection
  <2>2. /\ new.id = inserted + 1 /\ new.number = number /\ new.text = text
        /\ new.auto = auto /\ new.asof = asof
    OBVIOUS
  <2>3. ASSUME NEW v \in versions'
        PROVE  /\ v.id \in Nat /\ v.id <= inserted' /\ v.number \in Nat /\ v.asof \in Nat
               /\ v.text \in SUBSET Nat
    <3>1. CASE v \in versions
      BY <3>1, <1>1 DEF OrderInv, Collection, Types
    <3>2. CASE v = new
      BY <3>2, <2>2, <1>1 DEF OrderInv, Types
    <3>3. QED  BY <3>1, <3>2, <1>1
  <2>4. ASSUME NEW v \in versions' PROVE v.auto \in BOOLEAN
    <3>1. CASE v \in versions
      BY <3>1 DEF OrderInv, Collection
    <3>2. CASE v = new
      BY <3>2, <2>2, Zenon
    <3>3. QED  BY <3>1, <3>2, <1>1
  <2>5. ASSUME NEW v \in versions', NEW w \in versions', v.id = w.id PROVE v = w
    BY <2>2, <2>5, <1>1 DEF OrderInv, Collection, Types
  <2>6. QED  BY <2>1, <2>3, <2>4, <2>5 DEF Collection
<1>3. Recorded'
  <2>1. IsFiniteSet(autoSaved')
    BY <1>1, FS_AddElement DEF OrderInv, Recorded
  <2>2. \A v \in AutoSaves' : v.id \in autoSaved'
    BY <1>1 DEF OrderInv, Recorded, AutoSaves
  <2>3. QED  BY <2>1, <2>2, <1>1 DEF OrderInv, Recorded, Types
<1>4. NumbersFollowSaves'
  BY <1>1 DEF OrderInv, NumbersFollowSaves, Collection, Types
<1>5. NewestAutoSavesStay'
  <2>1. SUFFICES ASSUME NEW p \in pruned
                 PROVE  Cardinality({a \in autoSaved' : a > p}) >= AutoSaveLimit
    BY DEF NewestAutoSavesStay
  <2>2. IsFiniteSet({a \in autoSaved' : a > p})
    BY <1>3, FS_Subset DEF Recorded
  <2>3. {a \in autoSaved : a > p} \subseteq {a \in autoSaved' : a > p}
    BY <1>1
  <2>4. /\ IsFiniteSet({a \in autoSaved : a > p})
        /\ Cardinality({a \in autoSaved : a > p}) <= Cardinality({a \in autoSaved' : a > p})
    BY <2>2, <2>3, FS_Subset
  <2>5. /\ Cardinality({a \in autoSaved : a > p}) \in Nat
        /\ Cardinality({a \in autoSaved' : a > p}) \in Nat
    BY <2>2, <2>4, FS_CardinalityType
  <2>6. Cardinality({a \in autoSaved : a > p}) >= AutoSaveLimit
    BY DEF OrderInv, NewestAutoSavesStay
  <2>7. QED  BY <2>4, <2>5, <2>6, LimitAssumption
<1>6. /\ inserted \in Nat /\ inserted' \in Nat /\ inserted <= inserted'
      /\ \A v \in versions' : v \in versions \/ v.id = inserted + 1
  BY <1>1 DEF OrderInv, Types
<1>7. persist'.pc = "numbered" => Ahead(persist)'
  BY <1>6, AheadStays DEF OrderInv, HeldAhead, Ahead, Holds, Types, Held
<1>8. \A u \in Users : request'[u].pc = "numbered" => Ahead(request[u])'
  BY <1>6, AheadStays DEF OrderInv, HeldAhead, Ahead, Holds, Types, Asked
<1>9. QED  BY <1>2, <1>3, <1>4, <1>5, <1>7, <1>8 DEF OrderInv, HeldAhead

\* A step that takes versions out, and prunes none but expired ones.
LEMMA VersionsRemoved ==
    ASSUME OrderInv, versions' \subseteq versions, UNCHANGED <<inserted, autoSaved>>,
           pruned' \subseteq pruned \cup {v.id : v \in Expired}, Types',
           Holds(persist', persist), \A u \in Users : Holds(request'[u], request[u])
    PROVE  OrderInv'
<1>1. Collection'
  <2>1. IsFiniteSet(versions')
    BY FS_Subset DEF OrderInv, Collection
  <2>2. QED  BY <2>1 DEF OrderInv, Collection
<1>2. Expired \subseteq versions
  BY DEF Expired, AutoSaves
<1>3. Recorded'
  BY <1>2 DEF OrderInv, Recorded, AutoSaves, Collection
<1>4. NumbersFollowSaves'
  BY DEF OrderInv, NumbersFollowSaves
<1>5. NewestAutoSavesStay'
  BY ExpiredAreOld DEF OrderInv, NewestAutoSavesStay
<1>6. /\ inserted' \in Nat /\ inserted <= inserted'
      /\ \A v \in versions' : v \in versions \/ v.id = inserted + 1
  BY DEF OrderInv, Types
<1>7. persist'.pc = "numbered" => Ahead(persist)'
  BY <1>6, AheadStays DEF OrderInv, HeldAhead, Ahead, Holds, Types, Held
<1>8. \A u \in Users : request'[u].pc = "numbered" => Ahead(request[u])'
  BY <1>6, AheadStays DEF OrderInv, HeldAhead, Ahead, Holds, Types, Asked
<1>9. QED  BY <1>1, <1>3, <1>4, <1>5, <1>7, <1>8 DEF OrderInv, HeldAhead

(* -------------------------------- The steps ----------------------------- *)

\* The first version is in order.
LEMMA InitInOrder == Init => OrderInv
<1> SUFFICES ASSUME Init PROVE OrderInv
  OBVIOUS
<1>1. Types
  BY DEF Init, Types, Held, Asked, NoPersist, NoRequest
<1>2. Collection
  <2> DEFINE v == [id |-> 1, number |-> 2, text |-> {0}, auto |-> FALSE, asof |-> 0]
  <2>1. /\ versions = {v} /\ v.id = 1 /\ v.number = 2 /\ v.text = {0}
        /\ v.auto = FALSE /\ v.asof = 0
    BY DEF Init
  <2> HIDE DEF v
  <2>2. IsFiniteSet(versions)
    BY <2>1, FS_Singleton
  <2>3. \A w \in versions : w.auto \in BOOLEAN
    BY <2>1, Zenon
  <2>4. QED  BY <2>1, <2>2, <2>3 DEF Init, Collection
<1>3. Recorded
  BY FS_EmptySet DEF Init, Recorded, AutoSaves
<1>4. HeldAhead /\ NumbersFollowSaves /\ NewestAutoSavesStay
  BY DEF Init, HeldAhead, NumbersFollowSaves, NewestAutoSavesStay, NoPersist, NoRequest
<1>5. QED  BY <1>1, <1>2, <1>3, <1>4 DEF OrderInv

\* A request that goes on with r leaves the other requests alone.
LEMMA RequestStays ==
    ASSUME Types, NEW u \in Users, NEW r \in Asked, Continues(u, r)
    PROVE  /\ request' \in [Users -> Asked] /\ request'[u] = r
           /\ \A w \in Users : w # u => request'[w] = request[w]
BY DEF Types, Continues

\* Typing, the room's persist as far as it inserts nothing, and a restart.
LEMMA PersistInOrder ==
    ASSUME OrderInv, Type \/ Clear \/ PersistBegins \/ PersistStores \/ PersistNumbers
                       \/ PersistFails \/ Crash
    PROVE  OrderInv'
<1> USE DEF OrderInv, Types, Held, Holds, texts, history
<1>1. UNCHANGED <<versions, inserted, autoSaved, pruned>>
  BY DEF Type, Clear, PersistBegins, PersistStores, PersistNumbers, PersistFails, Crash
<1>2. CASE Type \/ Clear
  <2>1. typed' \in Nat /\ live' \in SUBSET Nat /\ UNCHANGED <<stored, persist, request>>
    <3>1. CASE Type
      BY <3>1 DEF Type
    <3>2. CASE Clear
      BY <3>2 DEF Clear
    <3>3. QED  BY <1>2, <3>1, <3>2
  <2>2. QED  BY <1>1, <2>1, CollectionStays
<1>3. CASE PersistBegins
  <2>1. /\ persist' = [NoPersist EXCEPT !.pc = "encoded", !.text = live]
        /\ UNCHANGED <<live, typed, stored, request>>
    BY <1>3 DEF PersistBegins
  <2>2. persist' \in Held /\ persist'.pc = "encoded"
    BY <2>1 DEF NoPersist
  <2>3. QED  BY <1>1, <2>1, <2>2, CollectionStays
<1>4. CASE PersistStores
  BY <1>1, <1>4, CollectionStays DEF PersistStores
<1>5. CASE PersistNumbers
  <2>1. NextVersionNumber \in Nat
    BY NextIsHigher DEF Collection
  <2>2. UNCHANGED <<live, typed, stored, request>>
    BY <1>5 DEF PersistNumbers
  <2>3. CASE persist' = NoPersist
    BY <2>2, <2>3, <1>1, CollectionStays DEF NoPersist
  <2>4. CASE persist' = [persist EXCEPT !.pc = "numbered", !.number = NextVersionNumber,
                                        !.asof = inserted]
    <3>1. /\ persist' \in Held
          /\ persist'.asof = inserted /\ persist'.number = NextVersionNumber
      BY <2>1, <2>4
    <3>2. QED  BY <3>1, <2>2, <1>1, CollectionStays
  <2>5. QED  BY <2>3, <2>4, <1>5 DEF PersistNumbers
<1>6. CASE PersistFails
  BY <1>1, <1>6, CollectionStays DEF PersistFails, PersistRetries, NoPersist
<1>7. CASE Crash
  BY <1>1, <1>7, CollectionStays DEF Crash, NoPersist, NoRequest, Asked
<1>8. QED  BY <1>2, <1>3, <1>4, <1>5, <1>6, <1>7

\* The persist inserts an auto-save, and prunes.
LEMMA AutoSaveInOrder ==
    ASSUME OrderInv, PersistInserts \/ PersistPrunes
    PROVE  OrderInv'
<1>1. CASE PersistInserts /\ Insertable(persist.text)
  <2>1. /\ Insert(persist.number, persist.text, TRUE, persist.asof)
        /\ persist.pc = "numbered" /\ persist' = [persist EXCEPT !.pc = "inserted"]
        /\ UNCHANGED <<live, typed, stored, request, pruned>>
    BY <1>1 DEF PersistInserts
  <2>2. Types'
    BY <2>1 DEF OrderInv, Types, Held, Insert
  <2>3. Holds(persist', persist) /\ \A u \in Users : Holds(request'[u], request[u])
    BY <2>1 DEF Holds, OrderInv, Types, Held
  <2>4. /\ persist.number \in Nat /\ persist.text \in SUBSET Nat /\ persist.asof \in Nat
        /\ Ahead(persist)
    BY <2>1 DEF OrderInv, Types, Held, HeldAhead
  <2>5. QED  BY <2>1, <2>2, <2>3, <2>4, VersionInserted DEF Ahead
<1>2. CASE PersistInserts /\ ~Insertable(persist.text)
  BY <1>2, CollectionStays
     DEF PersistInserts, PersistRetries, NoPersist, OrderInv, Types, Held, Holds
<1>3. CASE PersistPrunes
  <2>1. /\ versions' = versions \ Expired /\ pruned' = pruned \cup {v.id : v \in Expired}
        /\ persist' = NoPersist
        /\ UNCHANGED <<live, typed, stored, inserted, request, autoSaved>>
    BY <1>3 DEF PersistPrunes, texts
  <2>2. Types' /\ Holds(persist', persist) /\ \A u \in Users : Holds(request'[u], request[u])
    BY <2>1 DEF OrderInv, Types, Held, NoPersist, Holds
  <2>3. QED  BY <2>1, <2>2, VersionsRemoved
<1>4. QED  BY <1>1, <1>2, <1>3

\* A request reads, numbers, restores or fails.
LEMMA RequestInOrder ==
    ASSUME OrderInv, NEW u \in Users,
           \/ PublishBegins(u) \/ GuardExpires(u) \/ PublishReads(u) \/ RequestNumbers(u)
           \/ RestoreSaves(u) \/ RestoreReplaces(u) \/ RestoreStores(u) \/ RequestFails(u)
           \/ \E v \in Listed : RestoreBegins(u, v)
    PROVE  OrderInv'
<1> USE DEF texts, history
<1>1. UNCHANGED <<versions, inserted, autoSaved, pruned, persist, typed>>
  BY DEF PublishBegins, GuardExpires, PublishReads, RequestNumbers, RestoreSaves,
         RestoreReplaces, RestoreStores, RequestFails, RestoreBegins
<1>2. request[u] \in Asked /\ NoRequest \in Asked /\ NoRequest.pc = "idle"
  BY DEF OrderInv, Types, Asked, NoRequest
<1>3. ASSUME NEW r \in Asked, Continues(u, r), live' \in SUBSET Nat, stored' \in SUBSET Nat,
             Holds(r, request[u]) \/ (r.asof = inserted /\ r.number = NextVersionNumber)
      PROVE  OrderInv'
  <2>1. Types'
    BY <1>1, <1>3, RequestStays DEF OrderInv, Types
  <2>2. \A w \in Users : Holds(request'[w], request[w])
             \/ (request'[w].asof = inserted /\ request'[w].number = NextVersionNumber)
    BY <1>3, RequestStays DEF OrderInv, Holds
  <2>3. QED  BY <1>1, <2>1, <2>2, CollectionStays DEF Holds
<1>4. CASE PublishBegins(u)
  BY <1>2, <1>3, <1>4 DEF PublishBegins, NoRequest, Asked, Holds, OrderInv, Types
<1>5. CASE GuardExpires(u)
  BY <1>1, <1>5, CollectionStays DEF GuardExpires, Holds, OrderInv, Types
<1>6. CASE PublishReads(u)
  BY <1>2, <1>3, <1>6 DEF PublishReads, Asked, Holds, OrderInv, Types
<1>7. CASE RequestNumbers(u)
  <2>1. NextVersionNumber \in Nat
    BY NextIsHigher DEF OrderInv, Collection
  <2>2. QED  BY <2>1, <1>2, <1>3, <1>7 DEF RequestNumbers, Asked, OrderInv, Types
<1>8. CASE RestoreSaves(u)
  BY <1>2, <1>3, <1>8 DEF RestoreSaves, Asked, Holds, OrderInv, Types
<1>9. CASE RestoreReplaces(u)
  BY <1>2, <1>3, <1>9 DEF RestoreReplaces, Ends, Asked, Holds, OrderInv, Types
<1>10. CASE RestoreStores(u)
  BY <1>2, <1>3, <1>10 DEF RestoreStores, Ends, Asked, Holds, OrderInv, Types
<1>11. CASE RequestFails(u)
  BY <1>2, <1>3, <1>11 DEF RequestFails, Ends, Asked, Holds, OrderInv, Types
<1>12. CASE \E v \in Listed : RestoreBegins(u, v)
  <2>1. PICK v \in versions : RestoreBegins(u, v)
    BY <1>12 DEF Listed
  <2>2. v.text \in SUBSET Nat /\ v.id \in Nat
    BY DEF OrderInv, Collection
  <2>3. QED  BY <1>2, <1>3, <2>1, <2>2 DEF RestoreBegins, NoRequest, Asked, Holds, OrderInv, Types
<1>13. QED  BY <1>4, <1>5, <1>6, <1>7, <1>8, <1>9, <1>10, <1>11, <1>12

\* A request inserts a published version or a backup.
LEMMA PublishedInOrder ==
    ASSUME OrderInv, NEW u \in Users, PublishInserts(u) \/ RestoreBacksUp(u)
    PROVE  OrderInv'
<1>1. /\ request[u] \in Asked /\ request[u].pc = "numbered" /\ Ahead(request[u])
      /\ NoRequest \in Asked /\ NoRequest.pc = "idle"
      /\ UNCHANGED <<live, typed, stored, persist, pruned>>
  BY DEF OrderInv, Types, HeldAhead, Asked, NoRequest, PublishInserts, RestoreBacksUp, texts
<1>2. PICK r \in Asked : Continues(u, r) /\ r.pc # "numbered"
  <2>1. CASE Ends(u)
    BY <2>1, <1>1 DEF Ends
  <2>2. CASE Continues(u, [request[u] EXCEPT !.pc = "backed"])
    <3>1. [request[u] EXCEPT !.pc = "backed"] \in Asked
      BY <1>1 DEF Asked
    <3>2. [request[u] EXCEPT !.pc = "backed"].pc = "backed"
      BY <1>1 DEF Asked
    <3>3. QED  BY <2>2, <3>1, <3>2
  <2>3. QED  BY <2>1, <2>2 DEF PublishInserts, RestoreBacksUp
<1>3. \A w \in Users : Holds(request'[w], request[w])
  BY <1>2, RequestStays DEF OrderInv, Holds
<1>4. CASE Insertable(request[u].doc)
  <2>1. Insert(request[u].number, request[u].doc, FALSE, request[u].asof)
    BY <1>4 DEF PublishInserts, RestoreBacksUp
  <2>2. Types'
    BY <1>1, <1>2, <2>1, RequestStays DEF OrderInv, Types, Insert
  <2>3. /\ request[u].number \in Nat /\ request[u].doc \in SUBSET Nat
        /\ request[u].asof \in Nat
    BY <1>1 DEF Asked
  <2>4. QED  BY <1>1, <1>3, <2>1, <2>2, <2>3, VersionInserted DEF Ahead, Holds
<1>5. CASE ~Insertable(request[u].doc)
  <2>1. UNCHANGED <<versions, inserted, autoSaved>>
    BY <1>5 DEF PublishInserts, RestoreBacksUp
  <2>2. Types'
    BY <1>1, <1>2, <2>1, RequestStays DEF OrderInv, Types
  <2>3. QED  BY <1>1, <1>3, <2>1, <2>2, CollectionStays DEF Holds
<1>6. QED  BY <1>4, <1>5

\* Every step keeps the order.
LEMMA StepInOrder == OrderInv /\ [Next]_vars => OrderInv'
<1> SUFFICES ASSUME OrderInv, [Next]_vars PROVE OrderInv'
  OBVIOUS
<1>1. CASE \E v \in Listed : DeleteVersion(v)
  <2>1. /\ versions' \subseteq versions
        /\ UNCHANGED <<live, typed, stored, persist, inserted, request, autoSaved, pruned>>
    BY <1>1 DEF DeleteVersion, texts, history
  <2>2. Types'
    BY <2>1 DEF OrderInv, Types
  <2>3. QED  BY <2>1, <2>2, VersionsRemoved DEF Holds
<1>2. CASE UNCHANGED vars
  BY <1>2, CollectionStays DEF vars, texts, history, Holds, OrderInv, Types
<1>3. QED
  BY <1>1, <1>2, PersistInOrder, AutoSaveInOrder, RequestInOrder, PublishedInOrder
     DEF Next, PersistStep, RequestStep

(* -------------------------------- Theorem ------------------------------- *)

\* For any number of users, edits, versions and faults, and any limit: a
\* version numbered when another existed has the higher number, and an
\* auto-save is pruned only when the limit of newer ones was inserted
\* (getNextVersionNumber, createAutoSaveVersion, restoreVersion).
THEOREM HistoryStaysInOrder == Spec => []VersionsInOrder
<1>1. OrderInv => VersionsInOrder
  BY DEF OrderInv, VersionsInOrder
<1>2. QED  BY <1>1, InitInOrder, StepInOrder, PTL DEF Spec

(* ----------------------------- Nothing is lost -------------------------- *)

\* The edits there have been.
Known == 0 .. typed

\* Nothing holds an edit that has not been typed.
Texts ==
    /\ live \subseteq Known /\ stored \subseteq Known /\ persist.text \subseteq Known
    /\ \A u \in Users : request[u].doc \subseteq Known /\ request[u].text \subseteq Known
    /\ \A v \in versions : v.text \subseteq Known

\* An edit that no restore can lose: it is excused, or in a version that was
\* published, which nothing deletes.
Safe(e) == e \in excused \/ \E v \in versions \ AutoSaves : e \in v.text

Restores(u) == request[u].op = "restore"

\* The live text has every edit that is not safe.  What it has and a restore did
\* not read is safe, and once the backup is made all of it is.
KeepInv ==
    /\ Texts
    /\ \A e \in Known : e \in live \/ Safe(e)
    /\ \A u \in Users :
          /\ Restores(u) /\ request[u].pc \in {"read", "numbered"} =>
                \A e \in live : e \in request[u].doc \/ Safe(e)
          /\ request[u].pc \in {"backed", "saved"} =>
                Restores(u) /\ \A e \in live : Safe(e)

\* What is safe stays safe: only auto-saves are deleted.
LEMMA SafeStays ==
    ASSUME OrderInv, [Next]_vars
    PROVE  \A e : Safe(e) => Safe(e)'
<1> SUFFICES ASSUME NEW e, Safe(e) PROVE Safe(e)'
  OBVIOUS
<1>1. excused \subseteq excused'
  BY DEF Next, PersistStep, RequestStep, Type, Clear, PersistBegins, PersistStores,
         PersistNumbers, PersistInserts, PersistPrunes, PersistFails, PublishBegins,
         GuardExpires, PublishReads, RestoreBegins, RequestNumbers, PublishInserts,
         RestoreBacksUp, RestoreSaves, RestoreReplaces, RestoreStores, RequestFails,
         DeleteVersion, Crash, vars, texts, history
<1>2. \A v \in versions \ AutoSaves : v \in versions' \ AutoSaves'
  <2>1. \A v \in versions : v \in AutoSaves <=> v.auto
    BY DEF AutoSaves
  <2>2. \A v \in versions' : v \in AutoSaves' <=> v.auto
    BY DEF AutoSaves
  <2>3. versions \ AutoSaves \subseteq versions'
    <3>1. CASE UNCHANGED versions
      BY <3>1
    <3>2. CASE PersistPrunes
      BY <3>2 DEF PersistPrunes, Expired
    <3>3. ASSUME NEW n, NEW t, NEW b, NEW s, Insert(n, t, b, s) PROVE versions \subseteq versions'
      BY <3>3 DEF Insert
    <3>4. CASE PersistInserts
      BY <3>1, <3>3, <3>4 DEF PersistInserts
    <3>5. CASE \E u \in Users : PublishInserts(u) \/ RestoreBacksUp(u)
      BY <3>1, <3>3, <3>5 DEF PublishInserts, RestoreBacksUp
    <3>6. CASE \E v \in Listed : DeleteVersion(v)
      BY <3>6 DEF DeleteVersion, Listed, AutoSaves
    <3>7. UNCHANGED versions \/ PersistPrunes \/ PersistInserts
          \/ (\E u \in Users : PublishInserts(u) \/ RestoreBacksUp(u))
          \/ (\E v \in Listed : DeleteVersion(v))
      BY DEF Next, PersistStep, RequestStep, Type, Clear, PersistBegins, PersistStores,
         PersistNumbers, PersistFails, PublishBegins,
         GuardExpires, PublishReads, RestoreBegins, RequestNumbers,
         RestoreSaves, RestoreReplaces, RestoreStores, RequestFails,
         Crash, vars, texts, history
    <3>8. QED  BY <3>1, <3>2, <3>4, <3>5, <3>6, <3>7
  <2>4. QED  BY <2>1, <2>2, <2>3
<1>3. QED  BY <1>1, <1>2 DEF Safe

\* The requests and the texts a step leaves alone.
LEMMA RoomKeeps ==
    ASSUME OrderInv, KeepInv, [Next]_vars, UNCHANGED <<live, request, typed>>,
           stored' \subseteq Known, persist'.text \subseteq Known,
           \A v \in versions' : v.text \subseteq Known
    PROVE  KeepInv'
<1>1. Texts'
  BY DEF KeepInv, Texts, Known
<1>2. \A e : Safe(e) => Safe(e)'
  BY SafeStays
<1>3. QED  BY <1>1, <1>2 DEF KeepInv, Known, Restores

LEMMA PersistKeeps ==
    ASSUME OrderInv, KeepInv, PersistStep \/ PersistFails
    PROVE  KeepInv'
<1>0. [Next]_vars /\ UNCHANGED <<live, request, typed>>
  BY DEF Next, PersistStep, PersistBegins, PersistStores, PersistNumbers, PersistInserts,
         PersistPrunes, PersistFails, texts
<1>1. /\ persist \in Held /\ {} \subseteq Known
      /\ live \subseteq Known /\ stored \subseteq Known /\ persist.text \subseteq Known
      /\ \A v \in versions : v.text \subseteq Known
  BY DEF OrderInv, Types, KeepInv, Texts
<1>2. stored' \subseteq Known /\ persist'.text \subseteq Known
  <2>1. CASE PersistBegins
    BY <1>1, <2>1 DEF PersistBegins, NoPersist
  <2>2. CASE PersistStores
    <3>1. stored' = persist.text /\ persist' = [persist EXCEPT !.pc = "stored"]
      BY <2>2 DEF PersistStores
    <3>2. persist'.text = persist.text
      BY <1>1, <3>1 DEF Held
    <3>3. QED  BY <1>1, <3>1, <3>2
  <2>3. CASE PersistNumbers
    <3>1. /\ stored' = stored
          /\ \/ persist' = NoPersist
             \/ persist' = [persist EXCEPT !.pc = "numbered", !.number = NextVersionNumber,
                                           !.asof = inserted]
      BY <2>3 DEF PersistNumbers, texts
    <3>2. persist' = NoPersist => persist'.text = {}
      BY DEF NoPersist
    <3>3. persist' # NoPersist => persist'.text = persist.text
      BY <1>1, <3>1 DEF Held
    <3>4. QED  BY <1>1, <3>1, <3>2, <3>3
  <2>4. CASE PersistInserts
    <3>1. /\ stored' = stored
          /\ persist' = NoPersist \/ persist' = [persist EXCEPT !.pc = "inserted"]
      BY <2>4 DEF PersistInserts, PersistRetries
    <3>2. persist' = NoPersist => persist'.text = {}
      BY DEF NoPersist
    <3>3. persist' # NoPersist => persist'.text = persist.text
      BY <1>1, <3>1 DEF Held
    <3>4. QED  BY <1>1, <3>1, <3>2, <3>3
  <2>5. CASE PersistPrunes \/ PersistFails
    BY <1>1, <2>5 DEF PersistPrunes, PersistFails, PersistRetries, NoPersist, texts
  <2>6. QED  BY <2>1, <2>2, <2>3, <2>4, <2>5 DEF PersistStep
<1>3. \A v \in versions' : v.text \subseteq Known
  <2>1. CASE PersistInserts
    BY <1>1, <2>1 DEF PersistInserts, Insert
  <2>2. CASE ~PersistInserts
    BY <1>1, <2>2 DEF PersistStep, PersistBegins, PersistStores, PersistNumbers,
         PersistPrunes, PersistFails, texts
  <2>3. QED  BY <2>1, <2>2
<1>4. QED  BY <1>0, <1>2, <1>3, RoomKeeps

LEMMA TypingKeeps ==
    ASSUME OrderInv, KeepInv, Type \/ Clear \/ Crash
    PROVE  KeepInv'
<1> USE DEF KeepInv, Texts, Known
<1>0. [Next]_vars /\ UNCHANGED versions /\ typed \in Nat
  BY DEF Next, Type, Clear, Crash, OrderInv, Types
<1>1. \A e : Safe(e) => Safe(e)'
  BY <1>0, SafeStays
<1>2. CASE Type
  <2>0. PICK n \in Nat : n = typed + 1
    BY <1>0
  <2>1. /\ n = typed + 1 /\ typed' = n /\ live' = live \cup {n}
        /\ UNCHANGED <<stored, persist, request>>
        /\ excused' = IF Restoring THEN excused \cup {n} ELSE excused
    BY <2>0, <1>2 DEF Type
  <2>2. 0 .. typed' = (0 .. typed) \cup {n}
    BY <1>0, <2>1
  <2>3. Texts'
    BY <1>0, <2>1, <2>2
  <2>4. \A u \in Users :
           Restores(u) /\ request[u].pc \in {"read", "numbered", "backed", "saved"} =>
              Safe(n)'
    BY <2>1 DEF Restores, Restoring, Safe
  <2>5. \A e \in Known' : e \in live' \/ Safe(e)'
    BY <1>1, <2>1, <2>2
  <2>6. ASSUME NEW u \in Users
        PROVE  /\ Restores(u) /\ request[u].pc \in {"read", "numbered"} =>
                     \A e \in live' : e \in request[u].doc \/ Safe(e)'
               /\ request[u].pc \in {"backed", "saved"} =>
                     Restores(u) /\ \A e \in live' : Safe(e)'
    BY <1>1, <2>1, <2>4
  <2>7. QED  BY <2>1, <2>3, <2>5, <2>6 DEF Restores
<1>3. CASE Clear
  <2>1. /\ live' = {} /\ excused' = excused \cup live
        /\ UNCHANGED <<typed, stored, persist, request>>
    BY <1>3 DEF Clear
  <2>2. \A e \in live : Safe(e)'
    BY <2>1 DEF Safe
  <2>3. QED  BY <1>0, <1>1, <2>1, <2>2 DEF Restores
<1>4. CASE Crash
  <2>1. /\ live' = stored /\ excused' = excused \cup (live \ stored)
        /\ persist' = NoPersist /\ request' = [u \in Users |-> NoRequest]
        /\ UNCHANGED <<typed, stored>>
    BY <1>4 DEF Crash
  <2>2. \A e \in live : e \in live' \/ Safe(e)'
    BY <2>1 DEF Safe
  <2>3. QED  BY <1>0, <1>1, <2>1, <2>2 DEF Restores, NoRequest, NoPersist
<1>5. QED  BY <1>2, <1>3, <1>4

\* A request goes on with r, and the live text stays.
LEMMA RequestKeeps ==
    ASSUME OrderInv, KeepInv, [Next]_vars, UNCHANGED <<live, persist, typed>>,
           NEW u \in Users, NEW r \in Asked, Continues(u, r),
           r.doc \subseteq Known, r.text \subseteq Known, stored' \subseteq Known,
           \A v \in versions' : v.text \subseteq Known,
           r.op = "restore" /\ r.pc \in {"read", "numbered"} =>
              \A e \in live : e \in r.doc \/ Safe(e)',
           r.pc \in {"backed", "saved"} => r.op = "restore" /\ \A e \in live : Safe(e)'
    PROVE  KeepInv'
<1>1. request'[u] = r /\ \A w \in Users \ {u} : request'[w] = request[w]
  BY DEF Continues, OrderInv, Types
<1>2. \A e : Safe(e) => Safe(e)'
  BY SafeStays
<1>3. Texts'
  BY <1>1 DEF KeepInv, Texts, Known
<1>4. QED  BY <1>1, <1>2, <1>3 DEF KeepInv, Known, Restores

LEMMA RequestsKeep ==
    ASSUME OrderInv, KeepInv, NEW u \in Users,
           \/ PublishBegins(u) \/ PublishReads(u) \/ RequestNumbers(u) \/ PublishInserts(u)
           \/ RestoreBacksUp(u) \/ RestoreSaves(u) \/ RestoreStores(u) \/ RequestFails(u)
           \/ \E v \in Listed : RestoreBegins(u, v)
    PROVE  KeepInv'
<1> USE DEF texts, history
<1>0. [Next]_vars /\ UNCHANGED <<live, persist, typed>>
  BY DEF Next, RequestStep, PublishBegins, PublishReads, RequestNumbers, PublishInserts,
         RestoreBacksUp, RestoreSaves, RestoreStores, RequestFails, RestoreBegins
<1>1. \A e : Safe(e) => Safe(e)'
  BY <1>0, SafeStays
<1>2. /\ request[u] \in Asked /\ request[u].doc \subseteq Known /\ request[u].text \subseteq Known
      /\ stored \subseteq Known /\ \A v \in versions : v.text \subseteq Known
      /\ NoRequest \in Asked /\ NoRequest.pc = "idle" /\ NoRequest.op = "none"
      /\ NoRequest.doc = {} /\ NoRequest.text = {} /\ {} \subseteq Known
  BY DEF OrderInv, Types, KeepInv, Texts, NoRequest, Asked
<1>3. CASE UNCHANGED <<versions, stored>> /\ Ends(u)
  BY <1>0, <1>2, <1>3, RequestKeeps DEF Ends
<1>4. CASE PublishBegins(u)
  <2> DEFINE r == [NoRequest EXCEPT !.pc = "admitted", !.op = "publish"]
  <2>1. r \in Asked /\ r.pc = "admitted" /\ r.doc = {} /\ r.text = {}
    BY <1>2 DEF Asked
  <2>2. Continues(u, r) /\ UNCHANGED <<versions, stored>>
    BY <1>4 DEF PublishBegins
  <2> HIDE DEF r
  <2>3. QED  BY <1>0, <1>2, <2>1, <2>2, RequestKeeps
<1>5. CASE PublishReads(u)
  <2> DEFINE r == [request[u] EXCEPT !.pc = "read", !.doc = stored]
  <2>1. /\ r \in Asked /\ r.op = "publish" /\ r.doc = stored /\ r.pc = "read"
        /\ r.text = request[u].text
    BY <1>2, <1>5 DEF Asked, PublishReads, OrderInv, Types
  <2>2. Continues(u, r) /\ UNCHANGED <<versions, stored>>
    BY <1>5 DEF PublishReads
  <2> HIDE DEF r
  <2>3. QED  BY <1>0, <1>2, <2>1, <2>2, RequestKeeps
<1>6. CASE RequestNumbers(u)
  <2> DEFINE r == [request[u] EXCEPT !.pc = "numbered", !.number = NextVersionNumber,
                                     !.asof = inserted]
  <2>1. NextVersionNumber \in Nat
    BY NextIsHigher DEF OrderInv, Collection
  <2>2. /\ r \in Asked /\ r.op = request[u].op /\ r.doc = request[u].doc /\ r.pc = "numbered"
        /\ r.text = request[u].text
    BY <1>2, <2>1 DEF Asked, OrderInv, Types
  <2>3. Continues(u, r) /\ UNCHANGED <<versions, stored>> /\ request[u].pc = "read"
    BY <1>6 DEF RequestNumbers
  <2> HIDE DEF r
  <2>4. r.op = "restore" => \A e \in live : e \in r.doc \/ Safe(e)'
    BY <1>1, <2>2, <2>3 DEF KeepInv, Restores
  <2>5. QED  BY <1>0, <1>2, <2>2, <2>3, <2>4, RequestKeeps
<1>7. CASE PublishInserts(u)
  <2>1. Ends(u) /\ UNCHANGED stored
    BY <1>7 DEF PublishInserts
  <2>2. \A v \in versions' : v.text \subseteq Known
    BY <1>2, <1>7 DEF PublishInserts, Insert
  <2>3. QED  BY <1>0, <1>2, <2>1, <2>2, RequestKeeps DEF Ends
<1>8. CASE RestoreBacksUp(u)
  <2>1. CASE ~Insertable(request[u].doc)
    BY <1>3, <1>8, <2>1 DEF RestoreBacksUp
  <2>2. CASE Insertable(request[u].doc)
    <3> DEFINE r == [request[u] EXCEPT !.pc = "backed"]
               b == [id |-> inserted + 1, number |-> request[u].number,
                     text |-> request[u].doc, auto |-> FALSE, asof |-> request[u].asof]
    <3>1. /\ r \in Asked /\ r.op = request[u].op /\ r.doc = request[u].doc /\ r.pc = "backed"
          /\ r.text = request[u].text
      BY <1>2 DEF Asked
    <3>2. /\ Continues(u, r) /\ UNCHANGED stored
          /\ request[u].op = "restore" /\ request[u].pc = "numbered"
          /\ versions' = versions \cup {b}
      BY <1>8, <2>2 DEF RestoreBacksUp, Insert
    <3>3. b.text = request[u].doc /\ b \notin AutoSaves'
      BY DEF AutoSaves
    <3> HIDE DEF r, b
    <3>4. \A e \in live : Safe(e)'
      <4>1. \A e \in request[u].doc : Safe(e)'
        BY <3>2, <3>3 DEF Safe
      <4>2. QED  BY <1>1, <3>2, <4>1 DEF KeepInv, Restores
    <3>5. QED  BY <1>0, <1>2, <3>1, <3>2, <3>3, <3>4, RequestKeeps
  <2>3. QED  BY <2>1, <2>2
<1>9. CASE RestoreSaves(u)
  <2> DEFINE r == [request[u] EXCEPT !.pc = "saved"]
  <2>1. /\ r \in Asked /\ r.op = request[u].op /\ r.doc = request[u].doc /\ r.pc = "saved"
        /\ r.text = request[u].text
    BY <1>2 DEF Asked
  <2>2. /\ Continues(u, r) /\ stored' = request[u].text /\ UNCHANGED versions
        /\ request[u].pc = "backed"
    BY <1>9 DEF RestoreSaves
  <2> HIDE DEF r
  <2>3. r.op = "restore" /\ \A e \in live : Safe(e)'
    BY <1>1, <2>1, <2>2 DEF KeepInv, Restores
  <2>4. QED  BY <1>0, <1>2, <2>1, <2>2, <2>3, RequestKeeps
<1>10. CASE RestoreStores(u)
  <2>1. Ends(u) /\ UNCHANGED versions /\ stored' = request[u].text
    BY <1>10 DEF RestoreStores
  <2>2. QED  BY <1>0, <1>2, <2>1, RequestKeeps DEF Ends
<1>11. CASE RequestFails(u)
  BY <1>3, <1>11 DEF RequestFails
<1>12. CASE \E v \in Listed : RestoreBegins(u, v)
  <2>1. PICK v \in versions : RestoreBegins(u, v)
    BY <1>12 DEF Listed
  <2> DEFINE r == [NoRequest EXCEPT !.pc = "read", !.op = "restore",
                                    !.doc = stored, !.text = v.text, !.from = v.id]
  <2>2. /\ r \in Asked /\ r.op = "restore" /\ r.doc = stored /\ r.pc = "read"
        /\ r.text = v.text
    BY <1>2 DEF Asked, OrderInv, Types, Collection
  <2>3. /\ Continues(u, r) /\ UNCHANGED <<versions, stored>>
        /\ excused' = excused \cup (live \ stored)
    BY <2>1 DEF RestoreBegins
  <2> HIDE DEF r
  <2>4. \A e \in live : e \in r.doc \/ Safe(e)'
    BY <2>2, <2>3 DEF Safe
  <2>5. QED  BY <1>0, <1>2, <2>2, <2>3, <2>4, RequestKeeps
<1>13. QED  BY <1>4, <1>5, <1>6, <1>7, <1>8, <1>9, <1>10, <1>11, <1>12

\* replaceRoomContent: what the live text loses is safe.
LEMMA ReplaceKeeps ==
    ASSUME OrderInv, KeepInv, NEW u \in Users, RestoreReplaces(u)
    PROVE  KeepInv'
<1>0. [Next]_vars /\ UNCHANGED <<versions, stored, persist, typed>> /\ request[u].pc = "saved"
  BY DEF Next, RequestStep, RestoreReplaces
<1>1. \A e : Safe(e) => Safe(e)'
  BY <1>0, SafeStays
<1>2. \A e \in Known : Safe(e) \/ e \in live
  BY DEF KeepInv
<1>3. \A e \in live : Safe(e)
  BY <1>0 DEF KeepInv
<1>4. \A e \in Known : Safe(e)'
  BY <1>1, <1>2, <1>3
<1>5. /\ live' \subseteq Known
      /\ \A w \in Users : /\ request'[w].doc \subseteq Known /\ request'[w].text \subseteq Known
                          /\ request'[w].pc \in {"backed", "saved"} => request'[w].op = "restore"
  <2>1. PICK r \in {[request[u] EXCEPT !.pc = "replaced"], NoRequest} :
           Continues(u, r) /\ (live' = request[u].text \/ live' = live)
    BY DEF RestoreReplaces, Ends
  <2>2. /\ request[u] \in Asked /\ request[u].doc \subseteq Known /\ request[u].text \subseteq Known
        /\ live \subseteq Known
    BY DEF OrderInv, Types, KeepInv, Texts
  <2>3. r.doc \subseteq Known /\ r.text \subseteq Known /\ r.pc \notin {"backed", "saved"}
    BY <2>1, <2>2 DEF Asked, NoRequest
  <2>4. request'[u] = r /\ \A w \in Users \ {u} : request'[w] = request[w]
    BY <2>1 DEF Continues, OrderInv, Types
  <2>5. QED  BY <2>1, <2>2, <2>3, <2>4 DEF KeepInv, Texts, Restores
<1>6. Texts'
  BY <1>0, <1>5 DEF KeepInv, Texts, Known
<1>7. QED  BY <1>0, <1>4, <1>5, <1>6 DEF KeepInv, Known, Restores

\* Every step keeps what a restore could lose safe.
LEMMA StepKeeps == OrderInv /\ KeepInv /\ [Next]_vars => KeepInv'
<1> SUFFICES ASSUME OrderInv, KeepInv, [Next]_vars PROVE KeepInv'
  OBVIOUS
<1>1. CASE \E u \in Users : GuardExpires(u)
  BY <1>1, RoomKeeps DEF GuardExpires, texts, KeepInv, Texts
<1>2. CASE \E v \in Listed : DeleteVersion(v)
  BY <1>2, RoomKeeps DEF DeleteVersion, texts, KeepInv, Texts
<1>3. CASE UNCHANGED vars
  BY <1>3, RoomKeeps DEF vars, texts, KeepInv, Texts
<1>4. QED
  BY <1>1, <1>2, <1>3, PersistKeeps, TypingKeeps, RequestsKeep, ReplaceKeeps
     DEF Next, RequestStep

LEMMA InitKeeps == Init => KeepInv
<1> SUFFICES ASSUME Init PROVE KeepInv
  OBVIOUS
<1> DEFINE v == [id |-> 1, number |-> 2, text |-> {0}, auto |-> FALSE, asof |-> 0]
<1>1. versions = {v} /\ v.text = {0} /\ live = {0} /\ stored = {0} /\ typed = 0
  BY DEF Init
<1> HIDE DEF v
<1>2. Texts
  BY <1>1 DEF Init, Texts, Known, NoPersist, NoRequest
<1>3. QED  BY <1>1, <1>2 DEF Init, KeepInv, Known, NoRequest, Restores

\* For any number of users, edits, versions and faults: a restore loses no edit
\* that was stored when it read the document (restoreVersion makes the backup
\* before it writes, and deleteVersion refuses what is published).
THEOREM RestoresLoseNothingStored == Spec => []OnlyUnsavedIsLost
<1>1. KeepInv => OnlyUnsavedIsLost
  BY DEF KeepInv, Known, Safe, OnlyUnsavedIsLost, Kept
<1>2. QED
  BY <1>1, InitInOrder, StepInOrder, InitKeeps, StepKeeps, PTL DEF Spec

(* --------------------------------- Types -------------------------------- *)

LEMMA VersionsConstants ==
    /\ MaxEdits \in Nat /\ MaxVersions \in Nat /\ MaxVersions > 0 /\ MaxFaults \in Nat
    /\ IsFiniteSet(Users)
BY BoundsAssumption

\* The requests that can still insert a version.
Inserters == {u \in Users : request[u].pc \in {"admitted", "read", "numbered"}}

\* There is an id for every version that can still be inserted.
Budget ==
    inserted + Cardinality(Inserters) + (IF persist.pc = "numbered" THEN 1 ELSE 0)
        <= MaxVersions

\* Numbers run ahead of the ids by the one version that the document had lost
\* when it was loaded.
Small(h) == h.pc = "numbered" => h.number \in 1 .. h.asof + 2

RoomTypes ==
    /\ live \in Text /\ typed \in Edits /\ stored \in Text /\ due \in BOOLEAN
    /\ guard \subseteq Users /\ faults \in 0 .. MaxFaults
    /\ excused \in Text /\ half \in BOOLEAN

CollectionTypes ==
    /\ versions \subseteq Version /\ inserted \in Ids
    /\ pruned \subseteq autoSaved /\ autoSaved \subseteq Ids
    /\ \A v \in versions : v.number <= v.id + 1

StepTypes ==
    /\ persist \in PersistState /\ Small(persist)
    /\ request \in [Users -> RequestState] /\ \A u \in Users : Small(request[u])

TypeInv == RoomTypes /\ CollectionTypes /\ StepTypes /\ Budget

LEMMA InsertersFinite == IsFiniteSet(Inserters) /\ Cardinality(Inserters) \in Nat
BY VersionsConstants, FS_Subset, FS_CardinalityType DEF Inserters

\* One request moves: it joins or leaves those that can insert.
LEMMA InsertersMove ==
    ASSUME request \in [Users -> RequestState], NEW u \in Users, NEW r, Continues(u, r)
    PROVE  LET in == r.pc \in {"admitted", "read", "numbered"}
           IN  /\ Cardinality(Inserters)' \in Nat
               /\ Cardinality(Inserters)' =
                    IF in /\ u \notin Inserters THEN Cardinality(Inserters) + 1
                    ELSE IF ~in /\ u \in Inserters THEN Cardinality(Inserters) - 1
                    ELSE Cardinality(Inserters)
<1> DEFINE in == r.pc \in {"admitted", "read", "numbered"}
<1>1. request'[u] = r /\ \A w \in Users \ {u} : request'[w] = request[w]
  BY DEF Continues
<1>2. Inserters' = IF in THEN Inserters \cup {u} ELSE Inserters \ {u}
  BY <1>1 DEF Inserters
<1>0. Cardinality(Inserters)' \in Nat
  <2>1. Inserters' \subseteq Users
    BY DEF Inserters
  <2>2. QED  BY <2>1, VersionsConstants, FS_Subset, FS_CardinalityType
<1>3. CASE in
  <2>1. Inserters' = Inserters \cup {u}
    BY <1>2, <1>3
  <2>2. QED  BY <1>0, <1>3, <2>1, InsertersFinite, FS_AddElement
<1>4. CASE ~in
  <2>1. Inserters' = Inserters \ {u}
    BY <1>2, <1>4
  <2>2. QED  BY <1>0, <1>4, <2>1, InsertersFinite, FS_RemoveElement
<1>5. QED  BY <1>3, <1>4

\* The next number is one more than that of some version, or the first.
LEMMA NextIsSmall ==
    ASSUME OrderInv, CollectionTypes
    PROVE  NextVersionNumber \in 1 .. inserted + 2
<1>0. inserted \in Nat /\ \A v \in versions : v.number \in Nat /\ v.id \in Nat /\ v.id <= inserted
  BY DEF OrderInv, Types, Collection
<1>1. CASE versions = {}
  BY <1>0, <1>1 DEF NextVersionNumber, Numbers
<1>2. CASE versions # {}
  <2>1. PICK v \in versions : \A w \in versions : w.number <= v.number
    BY <1>0, <1>2, HighestVersion DEF OrderInv, Collection
  <2>2. v.number \in Numbers /\ \A n \in Numbers : v.number >= n
    BY <2>1 DEF Numbers
  <2>3. Max(Numbers) \in Numbers
    BY <2>2 DEF Max
  <2>4. PICK w \in versions : Max(Numbers) = w.number
    BY <2>3 DEF Numbers
  <2>5. NextVersionNumber = w.number + 1
    BY <2>2, <2>4 DEF NextVersionNumber
  <2>6. w.number <= w.id + 1
    BY DEF CollectionTypes
  <2>7. QED  BY <1>0, <2>5, <2>6
<1>3. QED  BY <1>1, <1>2

\* A held number fits the version that will have it.
LEMMA HeldFits ==
    ASSUME OrderInv, TypeInv, NEW h, h.number \in 1 .. h.asof + 2, h.asof \in Nat,
           h.asof <= inserted, inserted < MaxVersions
    PROVE  h.number \in VersionNumbers /\ h.number <= (inserted + 1) + 1 /\ inserted + 1 \in Ids
BY VersionsConstants DEF TypeInv, CollectionTypes, VersionNumbers, Ids

\* A version is inserted with a number that fits.
LEMMA InsertTypes ==
    ASSUME OrderInv, TypeInv, NEW h, h.number \in 1 .. h.asof + 2, h.asof \in Ids \cup {0},
           h.asof <= inserted, inserted < MaxVersions, NEW t \in Text, NEW b \in BOOLEAN,
           Insert(h.number, t, b, h.asof), pruned' = pruned
    PROVE  CollectionTypes' /\ inserted' = inserted + 1
<1> DEFINE n == h.number
           s == h.asof
           new == [id |-> inserted + 1, number |-> n, text |-> t, auto |-> b, asof |-> s]
<1>0. s \in Nat
  BY VersionsConstants DEF Ids
<1>1. n \in VersionNumbers /\ n <= (inserted + 1) + 1 /\ inserted + 1 \in Ids
  BY <1>0, HeldFits
<1>2. /\ inserted' = inserted + 1 /\ versions' = versions \cup {new}
      /\ autoSaved' \subseteq autoSaved \cup {inserted + 1} /\ autoSaved \subseteq autoSaved'
  BY DEF Insert
<1> HIDE DEF n, s
<1>3. new \in Version /\ new.number = n /\ new.id = inserted + 1
  BY <1>1 DEF Version, s
<1> HIDE DEF new
<1>4. QED  BY <1>1, <1>2, <1>3 DEF TypeInv, CollectionTypes

\* The bounds of the steps that change neither requests nor what can insert.
LEMMA PersistTypes ==
    ASSUME OrderInv, TypeInv, PersistStep \/ PersistFails
    PROVE  TypeInv'
<1> USE DEF TypeInv
<1>0. persist \in PersistState /\ request' = request /\ Cardinality(Inserters)' = Cardinality(Inserters)
  BY DEF StepTypes, PersistStep, PersistBegins, PersistStores, PersistNumbers, PersistInserts,
         PersistPrunes, PersistFails, Inserters, texts
<1>1. NoPersist \in PersistState /\ NoPersist.pc = "idle"
  BY DEF NoPersist, PersistState, Text
<1>2. ASSUME NEW p \in PersistState, persist' = p, p.pc # "numbered", RoomTypes',
             UNCHANGED <<versions, inserted, pruned, autoSaved>>
      PROVE  TypeInv'
  <2>1. CollectionTypes'
    BY <1>2 DEF CollectionTypes
  <2>2. StepTypes'
    BY <1>0, <1>2 DEF StepTypes, Small
  <2>3. Budget'
    BY <1>0, <1>2, VersionsConstants, InsertersFinite DEF Budget, CollectionTypes, Ids
  <2>4. QED  BY <1>2, <2>1, <2>2, <2>3
<1>3. CASE PersistBegins
  <2> DEFINE p == [NoPersist EXCEPT !.pc = "encoded", !.text = live]
  <2>1. p \in PersistState /\ p.pc = "encoded"
    BY <1>1 DEF PersistState, RoomTypes
  <2>2. persist' = p /\ UNCHANGED <<versions, inserted, pruned, autoSaved>> /\ RoomTypes'
    BY <1>3 DEF PersistBegins, history, RoomTypes
  <2> HIDE DEF p
  <2>3. QED  BY <1>2, <2>1, <2>2
<1>4. CASE PersistStores
  <2> DEFINE p == [persist EXCEPT !.pc = "stored"]
  <2>1. p \in PersistState /\ p.pc = "stored" /\ persist.text \in Text
    BY <1>0 DEF PersistState
  <2>2. persist' = p /\ UNCHANGED <<versions, inserted, pruned, autoSaved>>
    BY <1>4 DEF PersistStores, history
  <2>3. RoomTypes'
    BY <1>4, <2>1 DEF PersistStores, history, RoomTypes
  <2> HIDE DEF p
  <2>4. QED  BY <1>2, <2>1, <2>2, <2>3
<1>5. CASE PersistNumbers
  <2>0. UNCHANGED <<versions, inserted, pruned, autoSaved>> /\ RoomTypes' /\ persist.pc = "stored"
    BY <1>5 DEF PersistNumbers, history, texts, RoomTypes
  <2>1. CASE persist' = NoPersist
    BY <1>1, <1>2, <2>0, <2>1
  <2>2. CASE MayNumber /\ persist' = [persist EXCEPT !.pc = "numbered",
                                        !.number = NextVersionNumber, !.asof = inserted]
    <3> DEFINE p == [persist EXCEPT !.pc = "numbered", !.number = NextVersionNumber,
                                    !.asof = inserted]
    <3>1. /\ inserted + Cardinality(Inserters) + 1 <= MaxVersions
          /\ inserted \in Ids /\ inserted < MaxVersions
      BY <2>0, <2>2, VersionsConstants, InsertersFinite
         DEF MayNumber, Inserters, CollectionTypes, Ids
    <3>2. NextVersionNumber \in 1 .. inserted + 2 /\ NextVersionNumber \in VersionNumbers
      BY <3>1, NextIsSmall, VersionsConstants DEF VersionNumbers, Ids
    <3>3. /\ p \in PersistState /\ p.pc = "numbered" /\ p.number = NextVersionNumber
          /\ p.asof = inserted
      BY <1>0, <3>1, <3>2 DEF PersistState
    <3>4. persist' = p
      BY <2>2
    <3> HIDE DEF p
    <3>5. StepTypes'
      BY <1>0, <2>0, <3>2, <3>3, <3>4 DEF StepTypes, Small
    <3>6. Budget'
      BY <1>0, <2>0, <3>1, <3>3, <3>4 DEF Budget
    <3>7. CollectionTypes'
      BY <2>0 DEF CollectionTypes
    <3>8. QED  BY <2>0, <3>5, <3>6, <3>7
  <2>3. QED  BY <1>5, <2>1, <2>2 DEF PersistNumbers
<1>6. CASE PersistInserts /\ ~Insertable(persist.text)
  <2>1. persist' = NoPersist /\ UNCHANGED <<versions, inserted, pruned, autoSaved>> /\ RoomTypes'
    BY <1>6 DEF PersistInserts, PersistRetries, RoomTypes
  <2>2. QED  BY <1>1, <1>2, <2>1
<1>7. CASE PersistInserts /\ Insertable(persist.text)
  <2>1. /\ persist.pc = "numbered" /\ persist' = [persist EXCEPT !.pc = "inserted"]
        /\ Insert(persist.number, persist.text, TRUE, persist.asof)
        /\ pruned' = pruned /\ RoomTypes'
    BY <1>7 DEF PersistInserts, RoomTypes
  <2>2. /\ persist.number \in 1 .. persist.asof + 2 /\ persist.asof \in Ids \cup {0}
        /\ persist.asof <= inserted /\ persist.text \in Text
    BY <1>0, <2>1 DEF StepTypes, Small, OrderInv, HeldAhead, Ahead, PersistState
  <2>3. inserted + Cardinality(Inserters) + 1 <= MaxVersions /\ inserted < MaxVersions
    BY <2>1, VersionsConstants, InsertersFinite DEF Budget, CollectionTypes, Ids
  <2>4. CollectionTypes' /\ inserted' = inserted + 1
    BY <2>1, <2>2, <2>3, InsertTypes
  <2>5. persist' \in PersistState /\ persist'.pc = "inserted"
    BY <1>0, <2>1 DEF PersistState
  <2>6. StepTypes'
    BY <1>0, <2>5 DEF StepTypes, Small
  <2>7. Budget'
    BY <1>0, <2>3, <2>4, <2>5, VersionsConstants, InsertersFinite DEF Budget, CollectionTypes, Ids
  <2>8. QED  BY <2>1, <2>4, <2>6, <2>7
<1>8. CASE PersistPrunes
  <2>1. /\ persist' = NoPersist /\ versions' = versions \ Expired
        /\ pruned' = pruned \cup {v.id : v \in Expired}
        /\ UNCHANGED <<inserted, autoSaved>> /\ RoomTypes'
    BY <1>8 DEF PersistPrunes, texts, RoomTypes
  <2>2. \A v \in Expired : v.id \in autoSaved
    BY DEF Expired, OrderInv, Recorded
  <2>3. CollectionTypes'
    BY <2>1, <2>2 DEF CollectionTypes
  <2>4. StepTypes'
    BY <1>0, <1>1, <2>1 DEF StepTypes, Small
  <2>5. Budget'
    BY <1>0, <1>1, <2>1, VersionsConstants, InsertersFinite DEF Budget, CollectionTypes, Ids
  <2>6. QED  BY <2>1, <2>3, <2>4, <2>5
<1>9. CASE PersistFails
  <2>1. persist' = NoPersist /\ UNCHANGED <<versions, inserted, pruned, autoSaved>> /\ RoomTypes'
    BY <1>9, VersionsConstants DEF PersistFails, PersistRetries, history, RoomTypes
  <2>2. QED  BY <1>1, <1>2, <2>1
<1>10. QED  BY <1>3, <1>4, <1>5, <1>6, <1>7, <1>8, <1>9 DEF PersistStep

LEMMA TypingTypes ==
    ASSUME OrderInv, TypeInv, Type \/ Clear \/ Crash
    PROVE  TypeInv'
<1> USE DEF TypeInv
<1>0. /\ UNCHANGED <<versions, inserted, autoSaved, pruned>> /\ CollectionTypes'
      /\ MaxEdits \in Nat /\ MaxFaults \in Nat /\ Cardinality(Inserters) \in Nat
  BY VersionsConstants, InsertersFinite DEF Type, Clear, Crash, CollectionTypes
<1>1. CASE Type \/ Clear
  <2>1. UNCHANGED <<persist, request, inserted>>
    BY <1>1 DEF Type, Clear
  <2>2. StepTypes' /\ Budget'
    BY <2>1 DEF StepTypes, Small, Budget, Inserters
  <2>3. RoomTypes'
    <3>1. CASE Type
      <4>1. typed' \in Edits /\ live' \in Text /\ excused' \in Text
        BY <1>0, <3>1 DEF Type, RoomTypes, Edits, Text
      <4>2. due' = TRUE /\ UNCHANGED <<stored, guard, faults, half>>
        BY <3>1 DEF Type
      <4>3. QED  BY <4>1, <4>2 DEF RoomTypes
    <3>2. CASE Clear
      BY <3>2 DEF Clear, RoomTypes, Text
    <3>3. QED  BY <1>1, <3>1, <3>2
  <2>4. QED  BY <1>0, <2>2, <2>3
<1>2. CASE Crash
  <2>1. /\ persist' = NoPersist /\ request' = [u \in Users |-> NoRequest]
        /\ live' = stored /\ due' = FALSE /\ excused' = excused \cup (live \ stored)
        /\ faults < MaxFaults /\ faults' = faults + 1
        /\ UNCHANGED <<typed, stored, inserted, guard, half>>
    BY <1>2 DEF Crash
  <2>2. RoomTypes'
    <3>1. faults' \in 0 .. MaxFaults /\ excused' \in Text /\ live' \in Text
      BY <1>0, <2>1 DEF RoomTypes, Text
    <3>2. QED  BY <2>1, <3>1 DEF RoomTypes
  <2>3. /\ NoPersist \in PersistState /\ NoPersist.pc = "idle"
        /\ NoRequest \in RequestState /\ NoRequest.pc = "idle"
    BY VersionsConstants DEF NoPersist, PersistState, NoRequest, RequestState, Text
  <2>4. StepTypes'
    BY <2>1, <2>3 DEF StepTypes, Small
  <2>5. Inserters' = {}
    BY <2>1, <2>3 DEF Inserters
  <2>6. Budget'
    <3>1. Cardinality(Inserters)' = 0
      BY <2>5, FS_EmptySet
    <3>2. inserted \in 1 .. MaxVersions
      BY DEF CollectionTypes, Ids
    <3>3. QED  BY <2>1, <2>3, <3>1, <3>2, VersionsConstants DEF Budget
  <2>7. QED  BY <1>0, <2>2, <2>4, <2>6
<1>3. QED  BY <1>1, <1>2

\* A request goes on with r, inserting nothing.
LEMMA RequestTypes ==
    ASSUME OrderInv, TypeInv, NEW u \in Users, NEW r \in RequestState, Continues(u, r),
           Small(r), RoomTypes', UNCHANGED <<persist, versions, inserted, pruned, autoSaved>>,
           \/ r.pc \notin {"admitted", "read", "numbered"} \/ u \in Inserters \/ MayNumber
    PROVE  TypeInv'
<1> USE DEF TypeInv
<1>1. request \in [Users -> RequestState] /\ inserted \in 1 .. MaxVersions
  BY DEF StepTypes, CollectionTypes, Ids
<1>2. request'[u] = r /\ \A w \in Users \ {u} : request'[w] = request[w]
  BY <1>1 DEF Continues
<1>3. StepTypes'
  <2>1. request' \in [Users -> RequestState]
    BY <1>1 DEF Continues
  <2>2. QED  BY <1>2, <2>1 DEF StepTypes, Small
<1>4. Budget'
  <2>1. PICK k \in Nat : k = Cardinality(Inserters)
    BY InsertersFinite
  <2>2. PICK k2 \in Nat : k2 = Cardinality(Inserters)'
    BY <1>1, InsertersMove
  <2>3. PICK m \in Nat : m = IF persist.pc = "numbered" THEN 1 ELSE 0
    OBVIOUS
  <2>4. inserted + k + m <= MaxVersions /\ (MayNumber => inserted + k + m < MaxVersions)
    BY <2>1, <2>3 DEF Budget, MayNumber, Inserters
  <2>5. k2 <= k \/ (k2 = k + 1 /\ u \notin Inserters
                     /\ r.pc \in {"admitted", "read", "numbered"})
    BY <1>1, <2>1, <2>2, InsertersMove
  <2>6. k2 <= k \/ (k2 = k + 1 /\ inserted + k + m < MaxVersions)
    BY <2>4, <2>5
  <2>7. inserted + k2 + m <= MaxVersions
    BY <1>1, <2>1, <2>2, <2>3, <2>4, <2>6, VersionsConstants
  <2>8. QED  BY <2>2, <2>3, <2>7 DEF Budget
<1>5. CollectionTypes'
  BY DEF CollectionTypes
<1>6. QED  BY <1>3, <1>4, <1>5

LEMMA RequestsTypes ==
    ASSUME OrderInv, TypeInv, NEW u \in Users,
           \/ PublishBegins(u) \/ PublishReads(u) \/ RequestNumbers(u)
           \/ RestoreSaves(u) \/ RestoreReplaces(u) \/ RestoreStores(u) \/ RequestFails(u)
           \/ \E v \in Listed : RestoreBegins(u, v)
    PROVE  TypeInv'
<1> USE DEF texts, history
<1>0. /\ request[u] \in RequestState /\ request[u].doc \in Text /\ request[u].text \in Text
      /\ NoRequest \in RequestState /\ NoRequest.pc = "idle"
      /\ stored \in Text /\ live \in Text /\ inserted \in Ids
  BY VersionsConstants DEF TypeInv, StepTypes, RoomTypes, CollectionTypes, NoRequest,
     RequestState, Text
<1>1. UNCHANGED <<persist, versions, inserted, pruned, autoSaved>>
  BY DEF PublishBegins, PublishReads, RequestNumbers, RestoreSaves, RestoreReplaces,
         RestoreStores, RequestFails, RestoreBegins
<1>2. ASSUME Ends(u), RoomTypes' PROVE TypeInv'
  BY <1>0, <1>1, <1>2, RequestTypes DEF Ends, Small
<1>3. CASE PublishBegins(u)
  <2> DEFINE r == [NoRequest EXCEPT !.pc = "admitted", !.op = "publish"]
  <2>1. r \in RequestState /\ r.pc = "admitted"
    BY <1>0 DEF RequestState
  <2>2. Continues(u, r) /\ MayNumber
    BY <1>3 DEF PublishBegins, Asks
  <2>3. RoomTypes'
    BY <1>3 DEF PublishBegins, TypeInv, RoomTypes
  <2> HIDE DEF r
  <2>4. QED  BY <1>1, <2>1, <2>2, <2>3, RequestTypes DEF Small
<1>4. CASE PublishReads(u)
  <2> DEFINE r == [request[u] EXCEPT !.pc = "read", !.doc = stored]
  <2>1. r \in RequestState /\ r.pc = "read"
    BY <1>0 DEF RequestState
  <2>2. Continues(u, r) /\ u \in Inserters
    BY <1>4 DEF PublishReads, Inserters
  <2>3. RoomTypes'
    BY <1>4 DEF PublishReads, TypeInv, RoomTypes
  <2> HIDE DEF r
  <2>4. QED  BY <1>1, <2>1, <2>2, <2>3, RequestTypes DEF Small
<1>5. CASE RequestNumbers(u)
  <2> DEFINE r == [request[u] EXCEPT !.pc = "numbered", !.number = NextVersionNumber,
                                     !.asof = inserted]
  <2>1. u \in Inserters
    BY <1>5 DEF RequestNumbers, Inserters
  <2>2. Cardinality(Inserters) >= 1
    BY <2>1, InsertersFinite, FS_EmptySet
  <2>3. inserted + 1 <= MaxVersions
    BY <1>0, <2>2, InsertersFinite, VersionsConstants DEF TypeInv, Budget, Ids
  <2>4. NextVersionNumber \in 1 .. inserted + 2 /\ NextVersionNumber \in VersionNumbers
    BY <1>0, <2>3, NextIsSmall, VersionsConstants DEF TypeInv, VersionNumbers, Ids
  <2>5. /\ r \in RequestState /\ r.pc = "numbered" /\ r.number = NextVersionNumber
        /\ r.asof = inserted
    BY <1>0, <2>4 DEF RequestState
  <2>6. Continues(u, r)
    BY <1>5 DEF RequestNumbers
  <2>7. RoomTypes'
    BY <1>5 DEF RequestNumbers, TypeInv, RoomTypes
  <2> HIDE DEF r
  <2>8. Small(r)
    BY <2>4, <2>5 DEF Small
  <2>9. QED  BY <1>1, <2>1, <2>5, <2>6, <2>7, <2>8, RequestTypes
<1>6. CASE RestoreSaves(u)
  <2> DEFINE r == [request[u] EXCEPT !.pc = "saved"]
  <2>1. r \in RequestState /\ r.pc = "saved"
    BY <1>0 DEF RequestState
  <2>2. Continues(u, r)
    BY <1>6 DEF RestoreSaves
  <2>3. RoomTypes'
    BY <1>0, <1>6 DEF RestoreSaves, TypeInv, RoomTypes
  <2> HIDE DEF r
  <2>4. QED  BY <1>1, <2>1, <2>2, <2>3, RequestTypes DEF Small
<1>7. CASE RestoreReplaces(u)
  <2>1. RoomTypes'
    BY <1>0, <1>7 DEF RestoreReplaces, TypeInv, RoomTypes
  <2>2. CASE Ends(u)
    BY <1>2, <2>1, <2>2
  <2>3. CASE Continues(u, [request[u] EXCEPT !.pc = "replaced"])
    <3> DEFINE r == [request[u] EXCEPT !.pc = "replaced"]
    <3>1. r \in RequestState /\ r.pc = "replaced" /\ Continues(u, r)
      BY <1>0, <2>3 DEF RequestState
    <3> HIDE DEF r
    <3>2. QED  BY <1>1, <2>1, <3>1, RequestTypes DEF Small
  <2>4. QED  BY <1>7, <2>2, <2>3 DEF RestoreReplaces
<1>8. CASE RestoreStores(u)
  <2>1. RoomTypes'
    BY <1>0, <1>8 DEF RestoreStores, TypeInv, RoomTypes
  <2>2. QED  BY <1>2, <1>8, <2>1 DEF RestoreStores
<1>9. CASE RequestFails(u)
  <2>1. RoomTypes'
    <3>1. faults' \in 0 .. MaxFaults /\ half' \in BOOLEAN
      BY <1>9, VersionsConstants DEF RequestFails, TypeInv, RoomTypes
    <3>2. QED  BY <1>9, <3>1 DEF RequestFails, TypeInv, RoomTypes
  <2>2. QED  BY <1>2, <1>9, <2>1 DEF RequestFails
<1>10. CASE \E v \in Listed : RestoreBegins(u, v)
  <2>1. PICK v \in versions : RestoreBegins(u, v)
    BY <1>10 DEF Listed
  <2>2. v.text \in Text /\ v.id \in 0 .. MaxVersions
    BY VersionsConstants DEF TypeInv, CollectionTypes, Version, Ids
  <2> DEFINE r == [NoRequest EXCEPT !.pc = "read", !.op = "restore",
                                    !.doc = stored, !.text = v.text, !.from = v.id]
  <2>3. r \in RequestState /\ r.pc = "read"
    BY <1>0, <2>2 DEF RequestState
  <2>4. Continues(u, r) /\ MayNumber
    BY <2>1 DEF RestoreBegins, Asks
  <2>5. RoomTypes'
    <3>1. excused' \in Text
      BY <1>0, <2>1 DEF RestoreBegins, TypeInv, RoomTypes, Text
    <3>2. QED  BY <2>1, <3>1 DEF RestoreBegins, TypeInv, RoomTypes
  <2> HIDE DEF r
  <2>6. QED  BY <1>1, <2>3, <2>4, <2>5, RequestTypes DEF Small
<1>11. QED  BY <1>3, <1>4, <1>5, <1>6, <1>7, <1>8, <1>9, <1>10

LEMMA IdleIsTyped ==
    /\ NoPersist \in PersistState /\ NoPersist.pc = "idle"
    /\ NoRequest \in RequestState /\ NoRequest.pc = "idle"
<1>1. NoPersist \in PersistState /\ NoPersist.pc = "idle"
  BY DEF NoPersist, PersistState, Text
<1>2. {} \in Text /\ 0 \in Ids \cup {0}
  BY DEF Text
<1>3. NoRequest \in RequestState /\ NoRequest.pc = "idle"
  BY <1>2, VersionsConstants DEF NoRequest, RequestState, Ids
<1>4. QED  BY <1>1, <1>3

\* A request inserts what it was numbered for, or has nothing to insert.
LEMMA PublishedTypes ==
    ASSUME OrderInv, TypeInv, NEW u \in Users, PublishInserts(u) \/ RestoreBacksUp(u)
    PROVE  TypeInv'
<1> USE DEF TypeInv
<1>0. /\ request \in [Users -> RequestState] /\ request[u] \in RequestState
      /\ NoRequest \in RequestState /\ NoRequest.pc = "idle"
      /\ request[u].pc = "numbered" /\ u \in Inserters
      /\ persist' = persist /\ pruned' = pruned
  <2>1. request \in [Users -> RequestState] /\ request[u] \in RequestState
    BY DEF StepTypes
  <2>2. NoRequest \in RequestState /\ NoRequest.pc = "idle"
    BY IdleIsTyped
  <2>3. request[u].pc = "numbered" /\ persist' = persist /\ pruned' = pruned
    BY DEF PublishInserts, RestoreBacksUp
  <2>4. QED  BY <2>1, <2>2, <2>3 DEF Inserters
<1>1. RoomTypes'
  BY DEF PublishInserts, RestoreBacksUp, RoomTypes, texts
<1>2. CASE ~Insertable(request[u].doc)
  <2>1. Ends(u) /\ UNCHANGED <<versions, inserted, autoSaved>>
    BY <1>2 DEF PublishInserts, RestoreBacksUp
  <2>2. QED  BY <1>0, <1>1, <2>1, RequestTypes DEF Ends, Small
<1>3. CASE Insertable(request[u].doc)
  <2>1. Insert(request[u].number, request[u].doc, FALSE, request[u].asof)
    BY <1>3 DEF PublishInserts, RestoreBacksUp
  <2>2. PICK r \in RequestState : Continues(u, r) /\ r.pc \in {"idle", "backed"}
    <3>1. CASE Ends(u)
      BY <1>0, <3>1 DEF Ends
    <3>2. CASE Continues(u, [request[u] EXCEPT !.pc = "backed"])
      <4>1. /\ [request[u] EXCEPT !.pc = "backed"] \in RequestState
            /\ [request[u] EXCEPT !.pc = "backed"].pc = "backed"
        BY <1>0 DEF RequestState
      <4>2. QED  BY <3>2, <4>1
    <3>3. QED  BY <1>3, <3>1, <3>2 DEF PublishInserts, RestoreBacksUp
  <2>3. /\ Cardinality(Inserters)' = Cardinality(Inserters) - 1
        /\ Cardinality(Inserters) \in Nat /\ Cardinality(Inserters)' \in Nat
    BY <1>0, <2>2, InsertersMove, InsertersFinite
  <2>4. inserted \in Nat /\ inserted < MaxVersions /\ Cardinality(Inserters) >= 1
    <3>1. inserted \in Nat
      BY DEF CollectionTypes, Ids
    <3>2. QED  BY <2>3, <3>1, VersionsConstants DEF Budget
  <2>5. CollectionTypes' /\ inserted' = inserted + 1
    <3>1. /\ request[u].number \in 1 .. request[u].asof + 2
          /\ request[u].asof \in Ids \cup {0} /\ request[u].asof <= inserted
          /\ request[u].doc \in Text
      BY <1>0 DEF StepTypes, Small, OrderInv, HeldAhead, Ahead, RequestState
    <3>2. QED  BY <1>0, <2>1, <2>4, <3>1, InsertTypes
  <2>6. StepTypes'
    <3>1. request' \in [Users -> RequestState] /\ request'[u] = r
          /\ \A w \in Users \ {u} : request'[w] = request[w]
      BY <1>0, <2>2 DEF Continues
    <3>2. QED  BY <1>0, <2>2, <3>1 DEF StepTypes, Small
  <2>7. Budget'
    BY <1>0, <2>3, <2>4, <2>5, VersionsConstants DEF Budget
  <2>8. QED  BY <1>1, <2>5, <2>6, <2>7
<1>4. QED  BY <1>2, <1>3

\* Every step keeps the types.
LEMMA StepTyped == OrderInv /\ TypeInv /\ [Next]_vars => TypeInv'
<1> SUFFICES ASSUME OrderInv, TypeInv, [Next]_vars PROVE TypeInv'
  OBVIOUS
<1> USE DEF TypeInv, RoomTypes, CollectionTypes, StepTypes, Budget, Small, Inserters
<1>1. CASE \E u \in Users : GuardExpires(u)
  BY <1>1 DEF GuardExpires, texts, history
<1>2. CASE \E v \in Listed : DeleteVersion(v)
  BY <1>2 DEF DeleteVersion, texts, history
<1>3. CASE UNCHANGED vars
  BY <1>3 DEF vars, texts, history
<1>4. QED
  BY <1>1, <1>2, <1>3, PersistTypes, TypingTypes, RequestsTypes, PublishedTypes
     DEF Next, RequestStep

LEMMA InitTyped == Init => TypeInv
<1> SUFFICES ASSUME Init PROVE TypeInv
  OBVIOUS
<1>1. RoomTypes
  <2>1. 0 \in Edits /\ {0} \in Text /\ {} \in Text
    BY VersionsConstants DEF Text, Edits
  <2>2. 0 \in 0 .. MaxFaults
    BY VersionsConstants
  <2>3. live = {0} /\ typed = 0 /\ stored = {0} /\ guard = {} /\ faults = 0 /\ excused = {}
    BY DEF Init
  <2>4. due \in BOOLEAN /\ half \in BOOLEAN
    BY DEF Init
  <2>5. QED  BY <2>1, <2>2, <2>3, <2>4 DEF RoomTypes
<1>2. CollectionTypes
  <2> DEFINE v == [id |-> 1, number |-> 2, text |-> {0}, auto |-> FALSE, asof |-> 0]
  <2>1. versions = {v} /\ inserted = 1 /\ pruned = {} /\ autoSaved = {}
    BY DEF Init
  <2>2. v \in Version /\ v.number = 2 /\ v.id = 1
    BY VersionsConstants DEF Version, Ids, VersionNumbers, Text, Edits
  <2> HIDE DEF v
  <2>3. QED  BY <2>1, <2>2, VersionsConstants DEF CollectionTypes, Ids
<1>3. /\ NoPersist \in PersistState /\ NoPersist.pc = "idle"
      /\ NoRequest \in RequestState /\ NoRequest.pc = "idle"
  BY IdleIsTyped
<1>4. StepTypes
  BY <1>3 DEF Init, StepTypes, Small
<1>5. Budget
  <2>1. Inserters = {}
    BY <1>3 DEF Init, Inserters
  <2>2. Cardinality(Inserters) = 0
    BY <2>1, FS_EmptySet
  <2>3. QED  BY <1>3, <2>2, VersionsConstants DEF Init, Budget
<1>6. QED  BY <1>1, <1>2, <1>4, <1>5 DEF TypeInv

\* Every variable keeps its type; in particular a version is known by its id,
\* and what is pruned was an auto-save.
THEOREM TypesHold == Spec => []TypeOK
<1>1. OrderInv /\ TypeInv => TypeOK
  BY DEF OrderInv, Collection, TypeInv, RoomTypes, CollectionTypes, StepTypes, TypeOK
<1>2. QED
  BY <1>1, InitInOrder, StepInOrder, InitTyped, StepTyped, PTL DEF Spec

=============================================================================
