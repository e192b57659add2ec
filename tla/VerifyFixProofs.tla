-------------------------- MODULE VerifyFixProofs --------------------------
(***************************************************************************)
(* Proofs about VerifyFix, for any callers, runners and labels, any cap,   *)
(* window, cycles and bounds: its types, FixedIsProven and                 *)
(* ResourcesAccountedFor.  The invariant is proved part by part: the quota *)
(* alone (QuotaInv), the sandbox alone (SandboxInv), and what a session    *)
(* knows of both (VerifyTypes, Boxes, Fresh, Stage).                       *)
(***************************************************************************)
EXTENDS VerifyFix, FiniteSetTheorems, SequenceTheorems, TLAPS

(* The quota. *)

(* The callers that Redis has just counted beyond the cap. *)
Refusing == {c \in Callers : At(c, "refusing")}

QuotaTypes ==
  /\ call \in [Callers -> [step : CallStep, tries : 0..MaxTries]]
  /\ tail \in Seq(Callers)
  /\ grants \in 0..Capacity
  /\ daily \in Nat /\ admitted \in Nat
  /\ memory \in 0..Cap
  /\ errors \in 0..MaxErrors

(* The chain holds each queued caller once, and nobody else. *)
Chained ==
  /\ \A i \in 1..Len(tail) : At(tail[i], "queued")
  /\ \A c \in Callers : At(c, "queued") => \E i \in 1..Len(tail) : tail[i] = c
  /\ \A i, j \in 1..Len(tail) : tail[i] = tail[j] => i = j

(* Redis has counted every call it let through and every one that is about *)
(* to take its count back; beyond that it has counted only commands that   *)
(* failed, until it has once answered a count above the cap.               *)
Counted ==
  /\ daily >= admitted + Cardinality(Refusing)
  /\ admitted <= Cap
  /\ daily <= admitted + errors \/ admitted + errors >= Cap

ForCause ==
  \A c \in Callers :
    /\ At(c, "refusing") => admitted + errors >= Cap
    /\ At(c, "refused") => admitted + errors >= Cap \/ memory = Cap

QuotaInv == QuotaTypes /\ Chained /\ Counted /\ ForCause

-----------------------------------------------------------------------------
(* The constants have the types that the arithmetic needs. *)
LEMMA QuotaConstants ==
  /\ Capacity \in Nat /\ Capacity > 0 /\ MaxTries \in Nat /\ MaxTries > 0
  /\ Cap \in Nat /\ MaxErrors \in Nat /\ IsFiniteSet(Callers)
BY QuotaAssumption

(* A chain without repetitions is no longer than there are callers. *)
LEMMA ChainFits ==
  ASSUME QuotaTypes, Chained
  PROVE  Len(tail) <= Cardinality(Callers)
<1>1. Len(tail) \in Nat /\ \A i \in 1..Len(tail) : tail[i] \in Callers
  BY ElementOfSeq, LenProperties DEF QuotaTypes
<1> DEFINE D == 1..Len(tail)
           f == [i \in D |-> tail[i]]
<1>2. f \in Injection(D, Callers)
  BY <1>1 DEF Chained, Injection, IsInjective
<1>3. Cardinality(D) <= Cardinality(Callers)
  <2> HIDE DEF f, D
  <2> QED BY <1>2, FS_Injection, QuotaConstants
<1>4. Cardinality(D) = Len(tail)
  <2> DEFINE n == Len(tail)
  <2>1. n \in Int /\ 1 \in Int /\ n >= 0 /\ D = 1..n
    BY <1>1
  <2> HIDE DEF n, D
  <2>2. Cardinality(1..n) = IF 1 > n THEN 0 ELSE n - 1 + 1
    BY <2>1, FS_Interval
  <2>3. Cardinality(D) = n
    BY <2>1, <2>2
  <2> QED BY <2>3 DEF n
<1> QED BY <1>3, <1>4

(* The callers about to be refused are finitely many. *)
LEMMA RefusingFinite ==
  IsFiniteSet(Refusing) /\ Cardinality(Refusing) \in Nat
BY FS_Subset, FS_CardinalityType, QuotaConstants DEF Refusing

(* One caller moves to a step that is not "refusing". *)
LEMMA RefusingAfter ==
  ASSUME QuotaTypes, NEW c \in Callers,
         NEW r, call' = [call EXCEPT ![c] = r], r.step # "refusing"
  PROVE  Cardinality(Refusing)' =
           Cardinality(Refusing) - IF At(c, "refusing") THEN 1 ELSE 0
<1>1. Refusing' = Refusing \ {c}
  BY DEF QuotaTypes, Refusing, At
<1>2. Cardinality(Refusing \ {c}) =
        IF c \in Refusing THEN Cardinality(Refusing) - 1 ELSE Cardinality(Refusing)
  BY RefusingFinite, FS_RemoveElement
<1>3. c \in Refusing <=> At(c, "refusing")
  BY DEF Refusing
<1> QED BY <1>1, <1>2, <1>3, RefusingFinite

(* A caller that is not in the chain, and does not enter it, moves. *)
LEMMA ChainedBesides ==
  ASSUME QuotaTypes, Chained, NEW c \in Callers, ~At(c, "queued"),
         NEW r, call' = [call EXCEPT ![c] = r], r.step # "queued",
         tail' = tail
  PROVE  Chained'
<1>1. \A i \in 1..Len(tail) : tail[i] \in Callers /\ tail[i] # c
  BY ElementOfSeq DEF QuotaTypes, Chained
<1> QED BY <1>1 DEF Chained, QuotaTypes, At

(* A call joins the chain behind the ones that are in it. *)
LEMMA GenerateKeeps ==
  ASSUME QuotaInv, NEW c \in Callers, ~At(c, "queued"), Generate(c),
         UNCHANGED <<grants, daily, memory, errors, admitted>>
  PROVE  QuotaInv'
<1> USE DEF QuotaInv
<1> DEFINE r == [step |-> "queued", tries |-> 0]
<1>0. r \in [step : CallStep, tries : 0..MaxTries] /\ r.step = "queued"
  BY QuotaConstants DEF CallStep
<1>1. call' = [call EXCEPT ![c] = r] /\ tail' = Append(tail, c)
  BY DEF Generate
<1> HIDE DEF r
<1>2. QuotaTypes'
  BY <1>0, <1>1 DEF QuotaTypes
<1>3. Chained'
  <2>1. /\ Len(tail) \in Nat /\ Len(tail') = Len(tail) + 1
        /\ \A i \in 1..Len(tail) : tail'[i] = tail[i] /\ tail[i] \in Callers /\ tail[i] # c
        /\ tail'[Len(tail) + 1] = c
    BY <1>1, ElementOfSeq, AppendProperties, LenProperties DEF QuotaTypes, Chained
  <2>3. \A i \in 1..Len(tail') : At(tail[i], "queued")'
    BY <1>0, <1>1, <2>1 DEF QuotaTypes, Chained, At
  <2>4. \A d \in Callers : At(d, "queued")' => \E i \in 1..Len(tail') : tail'[i] = d
    <3> SUFFICES ASSUME NEW d \in Callers, At(d, "queued")'
                 PROVE  \E i \in 1..Len(tail') : tail'[i] = d
      OBVIOUS
    <3>1. CASE d = c
      BY <3>1, <2>1
    <3>2. CASE d # c
      <4>1. At(d, "queued")
        BY <3>2, <1>1 DEF QuotaTypes, At
      <4>2. PICK i \in 1..Len(tail) : tail[i] = d
        BY <4>1 DEF Chained
      <4> QED BY <4>2, <2>1
    <3> QED BY <3>1, <3>2
  <2>5. \A i, j \in 1..Len(tail') : tail'[i] = tail'[j] => i = j
    BY <2>1 DEF Chained
  <2> QED BY <2>3, <2>4, <2>5 DEF Chained
<1>4. Counted'
  <2>1. Cardinality(Refusing)' <= Cardinality(Refusing) /\ Cardinality(Refusing)' \in Int
    <3>1. r.step # "refusing"
      BY <1>0
    <3>2. Cardinality(Refusing)' =
            Cardinality(Refusing) - IF At(c, "refusing") THEN 1 ELSE 0
      BY <1>1, <3>1, RefusingAfter
    <3> QED BY <3>2, RefusingFinite
  <2> QED BY <2>1, RefusingFinite, QuotaConstants DEF Counted, QuotaTypes
<1>5. ForCause'
  BY <1>0, <1>1 DEF ForCause, QuotaTypes, At
<1> QED BY <1>2, <1>3, <1>4, <1>5

(* The head leaves the chain and goes on with its slot. *)
LEMMA SlotKeeps ==
  ASSUME QuotaInv, NEW c \in Callers, Slot(c)
  PROVE  QuotaInv'
<1> USE DEF QuotaInv
<1> DEFINE r == [step |-> "reserving", tries |-> 0]
<1>0. r \in [step : CallStep, tries : 0..MaxTries] /\ r.step = "reserving"
  BY QuotaConstants DEF CallStep
<1>1. /\ call' = [call EXCEPT ![c] = r] /\ tail' = Tail(tail) /\ At(c, "queued")
      /\ Head(tail) = c /\ grants < Capacity /\ grants' = grants + 1
      /\ UNCHANGED <<daily, memory, errors, admitted>>
  BY DEF Slot, Go
<1> HIDE DEF r
<1>2. tail # << >> /\ Len(tail) \in Nat /\ \A i \in 1..Len(tail) : tail[i] \in Callers
  BY <1>1, ElementOfSeq, LenProperties, EmptySeq DEF QuotaTypes, Chained
<1>3. /\ Len(tail') = Len(tail) - 1 /\ Len(tail) >= 1 /\ tail[1] = c
      /\ tail' \in Seq(Callers)
      /\ \A i \in 1..Len(tail') : tail'[i] = tail[i + 1]
  BY <1>1, <1>2, HeadTailProperties, LenProperties, EmptySeq DEF QuotaTypes
<1>4. QuotaTypes'
  BY <1>0, <1>1, <1>3, QuotaConstants DEF QuotaTypes
<1>5. Chained'
  <2>1. \A i \in 1..Len(tail') : At(tail[i], "queued")'
    <3> SUFFICES ASSUME NEW i \in 1..Len(tail')
                 PROVE  call'[tail'[i]].step = "queued"
      BY DEF At
    <3>1. i + 1 \in 1..Len(tail) /\ i + 1 # 1
      BY <1>2, <1>3
    <3>2. tail[i + 1] # c /\ tail[i + 1] \in Callers
      BY <1>2, <1>3, <3>1 DEF Chained
    <3> QED BY <1>1, <1>3, <3>1, <3>2 DEF Chained, QuotaTypes, At
  <2>2. \A d \in Callers : At(d, "queued")' => \E i \in 1..Len(tail') : tail'[i] = d
    <3> SUFFICES ASSUME NEW d \in Callers, At(d, "queued")'
                 PROVE  \E i \in 1..Len(tail') : tail'[i] = d
      OBVIOUS
    <3>1. d # c /\ At(d, "queued")
      BY <1>0, <1>1 DEF QuotaTypes, At
    <3>2. PICK i \in 1..Len(tail) : tail[i] = d
      BY <3>1 DEF Chained
    <3>3. i # 1 /\ i - 1 \in 1..Len(tail') /\ (i - 1) + 1 = i
      BY <1>2, <1>3, <3>1, <3>2
    <3> QED BY <1>3, <3>2, <3>3
  <2>3. \A i, j \in 1..Len(tail') : tail'[i] = tail'[j] => i = j
    <3> SUFFICES ASSUME NEW i \in 1..Len(tail'), NEW j \in 1..Len(tail'),
                        tail'[i] = tail'[j]
                 PROVE  i = j
      OBVIOUS
    <3>1. i + 1 \in 1..Len(tail) /\ j + 1 \in 1..Len(tail) /\ tail[i + 1] = tail[j + 1]
      BY <1>2, <1>3
    <3> QED BY <3>1 DEF Chained
  <2> QED BY <2>1, <2>2, <2>3 DEF Chained
<1>6. Counted'
  <2>1. Cardinality(Refusing)' = Cardinality(Refusing) - IF At(c, "refusing") THEN 1 ELSE 0
    <3>1. r.step # "refusing"
      BY <1>0
    <3> QED BY <1>1, <3>1, RefusingAfter
  <2> QED BY <1>1, <2>1, RefusingFinite DEF Counted, QuotaTypes
<1>7. ForCause'
  BY <1>0, <1>1 DEF ForCause, QuotaTypes, At
<1> QED BY <1>4, <1>5, <1>6, <1>7

(* INCR: at most Cap calls are let through, since every call that was is   *)
(* in the counter; and the counter beyond the cap has its causes.          *)
LEMMA ReserveKeeps ==
  ASSUME QuotaInv, NEW c \in Callers, Reserve(c)
  PROVE  QuotaInv'
<1> USE DEF QuotaInv
<1>1. CASE daily + 1 > Cap
  <2> DEFINE r == [step |-> "refusing", tries |-> 0]
  <2>0. r \in [step : CallStep, tries : 0..MaxTries] /\ r.step = "refusing"
    BY QuotaConstants DEF CallStep
  <2>1. /\ call' = [call EXCEPT ![c] = r] /\ At(c, "reserving") /\ daily' = daily + 1
        /\ UNCHANGED <<tail, grants, memory, errors, admitted>>
    BY <1>1 DEF Reserve, Go
  <2> HIDE DEF r
  <2>2. QuotaTypes'
    BY <2>0, <2>1 DEF QuotaTypes
  <2>3. Chained'
    <3>1. r.step # "queued" /\ ~At(c, "queued")
      BY <2>0, <2>1 DEF At
    <3> QED BY <2>1, <3>1, ChainedBesides
  <2>4. Cardinality(Refusing)' = Cardinality(Refusing) + 1
    <3>1. Refusing' = Refusing \cup {c} /\ c \notin Refusing
      BY <2>0, <2>1 DEF QuotaTypes, Refusing, At
    <3> QED BY <3>1, RefusingFinite, FS_AddElement
  <2>5. admitted + errors >= Cap
    BY <1>1, QuotaConstants DEF Counted, QuotaTypes
  <2>6. Counted'
    BY <2>1, <2>4, <2>5, RefusingFinite, QuotaConstants DEF Counted, QuotaTypes
  <2>7. ForCause'
    BY <2>0, <2>1, <2>5 DEF ForCause, QuotaTypes, At
  <2> QED BY <2>2, <2>3, <2>6, <2>7
<1>2. CASE ~(daily + 1 > Cap)
  <2> DEFINE r == [step |-> "sending", tries |-> 0]
  <2>0. r \in [step : CallStep, tries : 0..MaxTries] /\ r.step = "sending"
    BY QuotaConstants DEF CallStep
  <2>1. /\ call' = [call EXCEPT ![c] = r] /\ At(c, "reserving") /\ daily' = daily + 1
        /\ admitted' = admitted + 1
        /\ UNCHANGED <<tail, grants, memory, errors>>
    BY <1>2 DEF Reserve, Go
  <2> HIDE DEF r
  <2>2. r.step # "queued" /\ r.step # "refusing" /\ ~At(c, "queued") /\ ~At(c, "refusing")
    BY <2>0, <2>1 DEF At
  <2>3. QuotaTypes'
    BY <2>0, <2>1 DEF QuotaTypes
  <2>4. Chained'
    BY <2>1, <2>2, ChainedBesides
  <2>5. Cardinality(Refusing)' = Cardinality(Refusing) - IF At(c, "refusing") THEN 1 ELSE 0
    BY <2>1, <2>2, RefusingAfter
  <2>6. Counted'
    BY <1>2, <2>1, <2>2, <2>5, RefusingFinite, QuotaConstants DEF Counted, QuotaTypes
  <2>7. ForCause'
    <3>1. admitted' + errors' >= admitted + errors /\ memory' = memory
      BY <2>1 DEF QuotaTypes
    <3>2. admitted + errors >= Cap => admitted' + errors' >= Cap
      BY <2>1, QuotaConstants DEF QuotaTypes
    <3> QED BY <2>0, <2>1, <3>2 DEF ForCause, QuotaTypes, At
  <2> QED BY <2>3, <2>4, <2>6, <2>7
<1> QED BY <1>1, <1>2

(* The memory counter answers for a command that failed, whether or not    *)
(* Redis has counted the call.                                             *)
LEMMA ReserveInMemoryKeeps ==
  ASSUME QuotaInv, NEW c \in Callers, At(c, "reserving") \/ At(c, "refusing"),
         ReserveInMemory(c), daily' \in {daily, daily + 1},
         daily' = daily \/ ~At(c, "refusing")
  PROVE  QuotaInv'
<1> USE DEF QuotaInv
<1>1. PICK s \in {"refused", "sending"} :
        /\ call' = [call EXCEPT ![c] = [step |-> s, tries |-> 0]]
        /\ s = "refused" => memory = Cap
        /\ memory' \in memory..Cap
        /\ errors' = errors + 1 /\ errors' \in 0..MaxErrors
        /\ UNCHANGED <<tail, grants, admitted>>
  BY QuotaConstants DEF ReserveInMemory, Go, QuotaTypes
<1> DEFINE r == [step |-> s, tries |-> 0]
<1>0. r \in [step : CallStep, tries : 0..MaxTries] /\ r.step = s
  BY <1>1, QuotaConstants DEF CallStep
<1>2. call' = [call EXCEPT ![c] = r]
  BY <1>1
<1> HIDE DEF r
<1>3. r.step # "queued" /\ r.step # "refusing" /\ ~At(c, "queued")
  BY <1>0, <1>1 DEF At
<1>4. QuotaTypes'
  BY <1>0, <1>1, <1>2, QuotaConstants DEF QuotaTypes
<1>5. Chained'
  BY <1>1, <1>2, <1>3, ChainedBesides
<1>6. Cardinality(Refusing)' = Cardinality(Refusing) - IF At(c, "refusing") THEN 1 ELSE 0
  BY <1>2, <1>3, RefusingAfter
<1>7. Counted'
  BY <1>1, <1>6, RefusingFinite, QuotaConstants DEF Counted, QuotaTypes
<1>8. ForCause'
  <2>1. admitted + errors >= Cap => admitted' + errors' >= Cap
    BY <1>1, QuotaConstants DEF QuotaTypes
  <2>2. memory = Cap => memory' = Cap
    BY <1>1, QuotaConstants DEF QuotaTypes
  <2> QED BY <1>0, <1>1, <1>2, <2>1, <2>2 DEF ForCause, QuotaTypes, At
<1> QED BY <1>4, <1>5, <1>7, <1>8

LEMMA ReserveErrsKeeps ==
  ASSUME QuotaInv, NEW c \in Callers, ReserveErrs(c)
  PROVE  QuotaInv'
<1>1. At(c, "reserving") /\ ReserveInMemory(c) /\ daily' \in {daily, daily + 1}
  BY DEF ReserveErrs, QuotaInv, QuotaTypes
<1>2. ~At(c, "refusing")
  BY <1>1 DEF At
<1> QED BY <1>1, <1>2, ReserveInMemoryKeeps

LEMMA GiveBackErrsKeeps ==
  ASSUME QuotaInv, NEW c \in Callers, GiveBackErrs(c)
  PROVE  QuotaInv'
<1>1. At(c, "refusing") /\ ReserveInMemory(c) /\ daily' = daily
  BY DEF GiveBackErrs
<1> QED BY <1>1, ReserveInMemoryKeeps

(* DECR: the count given back is one that the counter holds. *)
LEMMA GiveBackKeeps ==
  ASSUME QuotaInv, NEW c \in Callers, GiveBack(c)
  PROVE  QuotaInv'
<1> USE DEF QuotaInv
<1> DEFINE r == [step |-> "refused", tries |-> 0]
<1>0. r \in [step : CallStep, tries : 0..MaxTries] /\ r.step = "refused"
  BY QuotaConstants DEF CallStep
<1>1. /\ call' = [call EXCEPT ![c] = r] /\ At(c, "refusing") /\ daily' = daily - 1
      /\ UNCHANGED <<tail, grants, memory, errors, admitted>>
  BY DEF GiveBack, Go
<1> HIDE DEF r
<1>2. r.step # "queued" /\ r.step # "refusing" /\ ~At(c, "queued")
  BY <1>0, <1>1 DEF At
<1>3. Cardinality(Refusing)' = Cardinality(Refusing) - IF At(c, "refusing") THEN 1 ELSE 0
  BY <1>1, <1>2, RefusingAfter
<1>4. Cardinality(Refusing) >= 1
  <2>1. c \in Refusing
    BY <1>1 DEF Refusing
  <2>2. Cardinality(Refusing) # 0
    BY <2>1, RefusingFinite, FS_EmptySet
  <2> QED BY <2>2, RefusingFinite
<1>5. daily' \in Nat
  BY <1>1, <1>4, RefusingFinite DEF Counted, QuotaTypes
<1>6. QuotaTypes'
  BY <1>0, <1>1, <1>5 DEF QuotaTypes
<1>7. Chained'
  BY <1>1, <1>2, ChainedBesides
<1>8. Counted'
  BY <1>1, <1>3, <1>4, RefusingFinite, QuotaConstants DEF Counted, QuotaTypes
<1>9. ForCause'
  BY <1>0, <1>1 DEF ForCause, QuotaTypes, At
<1> QED BY <1>6, <1>7, <1>8, <1>9

LEMMA TryKeeps ==
  ASSUME QuotaInv, NEW c \in Callers, Try(c)
  PROVE  QuotaInv'
<1> USE DEF QuotaInv
<1>1. PICK r \in [step : CallStep, tries : 0..MaxTries] :
        /\ call' = [call EXCEPT ![c] = r]
        /\ r.step \in {"ok", "error", "sending"}
  <2>1. ASSUME NEW s \in {"ok", "error"}, Go(c, s)
        PROVE  \E r \in [step : CallStep, tries : 0..MaxTries] :
                 call' = [call EXCEPT ![c] = r] /\ r.step \in {"ok", "error", "sending"}
    <3> DEFINE r == [step |-> s, tries |-> 0]
    <3>1. r \in [step : CallStep, tries : 0..MaxTries] /\ r.step = s
      BY <2>1, QuotaConstants DEF CallStep
    <3>2. call' = [call EXCEPT ![c] = r]
      BY <2>1 DEF Go
    <3> QED BY <3>1, <3>2
  <2>2. CASE call[c].tries + 1 < MaxTries /\ call' = [call EXCEPT ![c].tries = @ + 1]
    <3> DEFINE r == [call[c] EXCEPT !.tries = @ + 1]
    <3>1. r \in [step : CallStep, tries : 0..MaxTries] /\ r.step = "sending"
      BY <2>2, QuotaConstants DEF Try, At, QuotaTypes, CallStep
    <3>2. call' = [call EXCEPT ![c] = r]
      BY <2>2 DEF QuotaTypes
    <3> QED BY <3>1, <3>2
  <2> QED BY <2>1, <2>2 DEF Try
<1>2. At(c, "sending") /\ UNCHANGED <<tail, grants, daily, memory, errors, admitted>>
  BY DEF Try
<1>3. r.step # "queued" /\ r.step # "refusing" /\ ~At(c, "queued") /\ ~At(c, "refusing")
  BY <1>1, <1>2 DEF At
<1>4. QuotaTypes'
  BY <1>1, <1>2 DEF QuotaTypes
<1>5. Chained'
  BY <1>1, <1>2, <1>3, ChainedBesides
<1>6. Cardinality(Refusing)' = Cardinality(Refusing) - IF At(c, "refusing") THEN 1 ELSE 0
  BY <1>1, <1>3, RefusingAfter
<1>7. Counted'
  BY <1>2, <1>3, <1>6, RefusingFinite DEF Counted, QuotaTypes
<1>8. ForCause'
  BY <1>1, <1>2 DEF ForCause, QuotaTypes, At
<1> QED BY <1>4, <1>5, <1>7, <1>8

LEMMA QuotaStepKeeps ==
  ASSUME QuotaInv, NEW c \in Callers, QuotaStep(c)
  PROVE  QuotaInv'
<1>1. CASE WindowSlides(c)
  <2>1. /\ grants' = grants - 1 /\ grants > 0
        /\ UNCHANGED <<call, tail, daily, memory, errors, admitted>>
    BY <1>1 DEF WindowSlides
  <2>2. QuotaTypes'
    BY <2>1, QuotaConstants DEF QuotaInv, QuotaTypes
  <2>3. Chained' /\ Counted' /\ ForCause'
    BY <2>1 DEF QuotaInv, Chained, Counted, ForCause, Refusing, At
  <2> QED BY <2>2, <2>3 DEF QuotaInv
<1> QED BY <1>1, SlotKeeps, ReserveKeeps, ReserveErrsKeeps, GiveBackKeeps,
           GiveBackErrsKeeps, TryKeeps DEF QuotaStep

(* A step of one call: it was under way, and no other call moves. *)
LEMMA QuotaStepMoves ==
  ASSUME QuotaTypes, NEW c \in Callers, QuotaStep(c)
  PROVE  /\ call[c].step \notin {"idle", "ok", "refused", "error"}
         /\ ~At(c, "idle")'
         /\ \A d \in Callers \ {c} : call'[d] = call[d]
<1> USE DEF QuotaTypes
<1>1. CASE Slot(c)
  BY <1>1 DEF Slot, Go, At
<1>2. CASE WindowSlides(c)
  BY <1>2 DEF WindowSlides, At
<1>3. CASE Reserve(c)
  BY <1>3 DEF Reserve, Go, At
<1>4. CASE ReserveErrs(c)
  BY <1>4 DEF ReserveErrs, ReserveInMemory, Go, At
<1>5. CASE GiveBack(c)
  BY <1>5 DEF GiveBack, Go, At
<1>6. CASE GiveBackErrs(c)
  BY <1>6 DEF GiveBackErrs, ReserveInMemory, Go, At
<1>7. CASE Try(c)
  BY <1>7 DEF Try, Go, At
<1> QED BY <1>1, <1>2, <1>3, <1>4, <1>5, <1>6, <1>7 DEF QuotaStep

(* The process dies: nobody is about to be refused, and Redis keeps its    *)
(* count.                                                                  *)
LEMMA QuotaCrashKeeps ==
  ASSUME QuotaInv, QuotaCrash
  PROVE  QuotaInv'
<1> USE DEF QuotaInv
<1>1. /\ call' = [c \in Callers |-> NoCall] /\ tail' = << >> /\ grants' = 0 /\ memory' = 0
      /\ UNCHANGED <<daily, errors, admitted>>
  BY DEF QuotaCrash
<1>2. NoCall \in [step : CallStep, tries : 0..MaxTries] /\ NoCall.step = "idle"
  BY QuotaConstants DEF NoCall, CallStep
<1>3. QuotaTypes'
  BY <1>1, <1>2, QuotaConstants DEF QuotaTypes
<1>4. Chained'
  BY <1>1, <1>2 DEF Chained, At
<1>5. Counted'
  <2>1. Refusing' = {}
    BY <1>1, <1>2 DEF Refusing, At
  <2>2. Cardinality(Refusing)' = 0
    BY <2>1, FS_EmptySet
  <2> QED BY <1>1, <2>2, RefusingFinite DEF Counted, QuotaTypes
<1>6. ForCause'
  BY <1>1, <1>2 DEF ForCause, At
<1> QED BY <1>3, <1>4, <1>5, <1>6

LEMMA QuotaStarts ==
  ASSUME QuotaInit
  PROVE  QuotaInv
<1> USE DEF QuotaInit
<1>2. NoCall \in [step : CallStep, tries : 0..MaxTries] /\ NoCall.step = "idle"
  BY QuotaConstants DEF NoCall, CallStep
<1>3. QuotaTypes
  BY <1>2, QuotaConstants DEF QuotaTypes
<1>4. Chained
  BY <1>2 DEF Chained, At
<1>5. Counted
  <2>1. Refusing = {}
    BY <1>2 DEF Refusing, At
  <2>2. Cardinality(Refusing) = 0
    BY <2>1, FS_EmptySet
  <2> QED BY <2>2, QuotaConstants DEF Counted
<1>6. ForCause
  BY <1>2 DEF ForCause, At
<1> QED BY <1>3, <1>4, <1>5, <1>6 DEF QuotaInv

-----------------------------------------------------------------------------
(* The sandbox. *)

Idle(r) == Doing(r, "idle")

(* What an execution's step says of its container: it holds none before it *)
(* starts, makes one that Docker does not know, waits for a program that   *)
(* has been started, and ends with the answer that the program gave.       *)
Shape(r) ==
  /\ Idle(r) => exec[r] = NoExec
  /\ ~Idle(r) => Box(r) \in Labels
  /\ Doing(r, "creating") => Box(r) \notin alive
  /\ Doing(r, "waiting") => status[Box(r)] # "new"
  /\ exec[r].step \in {"cleaning", "done"} =>
       /\ exec[r].answer # "none"
       /\ exec[r].answer \in {"pass", "fail", "late"} => status[Box(r)] = exec[r].answer

Shapes == \A r \in Runners : Shape(r)

(* No two executions have one container. *)
Apart == \A r, s \in Runners : Box(r) = Box(s) /\ Box(r) \in Labels => r = s

(* Every container is in somebody's hands; while the reaper is at work it  *)
(* may also be on the reaper's list.                                       *)
Owned(l) == \E r \in Runners : Box(r) = l /\ ~Doing(r, "done")

Reaped ==
  /\ reaper = "removing" => \A l \in alive \ stuck : l \in doomed \/ Owned(l)
  /\ reaper = "done" => \A l \in alive \ stuck : Owned(l)

SandboxInv == SandboxTypeOK /\ Shapes /\ Apart /\ Reaped

-----------------------------------------------------------------------------
Over == {"pass", "fail", "late"}

Execs == [step : ExecStep, label : Labels \cup {NoLabel}, answer : Answer]

(* An execution that did not move keeps its shape when its container's     *)
(* program moves on, or ends.                                              *)
LEMMA ShapeBesides ==
  ASSUME NEW s \in Runners, Shape(s), exec'[s] = exec[s],
         SandboxTypeOK, status' \in [Labels -> Status],
         Doing(s, "creating") => Box(s) \notin alive',
         Box(s) \in Labels =>
           \/ status'[Box(s)] = status[Box(s)]
           \/ Runs(Box(s)) /\ status'[Box(s)] # "new"
  PROVE  Shape(s)'
BY DEF Shape, Idle, Doing, Box, Runs, SandboxTypeOK, Status, NoExec

(* Boxes keep their owners when no label changes. *)
LEMMA ApartKept ==
  ASSUME Apart, \A r \in Runners : Box(r)' = Box(r)
  PROVE  Apart'
BY DEF Apart

(* Removing a container ends its program, if it runs. *)
LEMMA RemovedStatus ==
  ASSUME SandboxTypeOK, NEW l \in Labels, Removed(l)
  PROVE  /\ status' \in [Labels -> Status] /\ alive' = alive \ {l}
         /\ \A k \in Labels : \/ status'[k] = status[k]
                              \/ k = l /\ Runs(l) /\ status'[k] \in Over
<1> DEFINE s == IF l \notin alive THEN status[l]
                ELSE CASE status[l] = "up" -> "fail"
                       [] status[l] = "overdue" -> "late"
                       [] OTHER -> status[l]
<1>1. status' = [status EXCEPT ![l] = s] /\ alive' = alive \ {l}
  BY DEF Removed, Becomes
<1>2. s \in Status /\ (s = status[l] \/ (Runs(l) /\ s \in Over))
  <2>1. status[l] \in Status
    BY DEF SandboxTypeOK
  <2>2. CASE l \notin alive
    BY <2>1, <2>2
  <2>3. CASE l \in alive /\ status[l] = "up"
    BY <2>3 DEF Runs, Over, Status
  <2>4. CASE l \in alive /\ status[l] = "overdue"
    BY <2>4 DEF Runs, Over, Status
  <2>5. CASE l \in alive /\ status[l] # "up" /\ status[l] # "overdue"
    BY <2>1, <2>5
  <2> QED BY <2>2, <2>3, <2>4, <2>5
<1> HIDE DEF s
<1> QED BY <1>1, <1>2 DEF SandboxTypeOK

(* A runner begins an execution, in a container nobody has. *)
LEMMA ExecuteKeeps ==
  ASSUME SandboxInv, NEW r \in Runners, NEW l \in Labels, Execute(r, l),
         exec[r].step \in {"idle", "done"},
         l \notin alive, \A s \in Runners : Box(s) # l,
         UNCHANGED <<alive, status, reaper, doomed, stuck, faults>>
  PROVE  SandboxInv'
<1> USE DEF SandboxInv
<1> DEFINE e == [step |-> "creating", label |-> l, answer |-> "none"]
<1>0. e \in Execs /\ e.step = "creating" /\ e.label = l /\ e.answer = "none"
  BY DEF Execs, ExecStep, Answer
<1>1. exec' = [exec EXCEPT ![r] = e]
  BY DEF Execute
<1> HIDE DEF e
<1>2. exec'[r] = e /\ \A s \in Runners \ {r} : exec'[s] = exec[s]
  BY <1>1 DEF SandboxTypeOK
<1>3. SandboxTypeOK'
  BY <1>0, <1>1 DEF SandboxTypeOK, Execs
<1>4. Shapes'
  <2>1. Shape(r)'
    BY <1>0, <1>2 DEF Shape, Idle, Doing, Box
  <2>2. ASSUME NEW s \in Runners \ {r}
        PROVE  Shape(s)'
    <3>1. exec'[s] = exec[s] /\ Shape(s) /\ status' \in [Labels -> Status]
      BY <1>2, <1>3 DEF Shapes, SandboxTypeOK
    <3>2. Doing(s, "creating") => Box(s) \notin alive'
      BY <3>1 DEF Shape
    <3> QED BY <3>1, <3>2, ShapeBesides
  <2> QED BY <2>1, <2>2 DEF Shapes
<1>5. Apart'
  BY <1>0, <1>2 DEF Apart, Box
<1>6. \A k \in alive : Owned(k) => Owned(k)'
  <2> SUFFICES ASSUME NEW k \in alive, NEW s \in Runners, Box(s) = k, ~Doing(s, "done")
               PROVE  Box(s)' = k /\ ~Doing(s, "done")'
    BY DEF Owned
  <2>1. s # r
    <3>1. CASE Doing(r, "idle")
      BY <3>1, SandboxAssumption DEF Shapes, Shape, Idle, NoExec, Box, SandboxTypeOK
    <3>2. CASE Doing(r, "done")
      BY <3>2
    <3> QED BY <3>1, <3>2 DEF Doing
  <2> QED BY <2>1, <1>2 DEF Box, Doing
<1>7. Reaped'
  BY <1>6 DEF Reaped, SandboxTypeOK
<1> QED BY <1>3, <1>4, <1>5, <1>7

(* What a step of the sandbox leaves alone: the labels of the executions,  *)
(* the executions that have not begun or are over, the containers nobody   *)
(* has made, and the result of a program that no execution is waiting for. *)
SandboxFrame ==
  /\ \A r \in Runners : /\ Box(r)' = Box(r) /\ Idle(r)' = Idle(r)
                        /\ exec[r].step \in {"idle", "done"} => exec'[r] = exec[r]
  /\ \A l \in alive' : l \in alive \/ \E r \in Runners : Box(r) = l
  /\ \A l \in Labels :
       \/ status'[l] = status[l] \/ status[l] \notin Over
       \/ \E r \in Runners : Box(r) = l /\ exec[r].step \in {"starting", "waiting"}

(* One execution moves to another step. *)
LEMMA RunnerMoves ==
  ASSUME SandboxInv, NEW r \in Runners, NEW e \in Execs,
         exec' = [exec EXCEPT ![r] = e], e.label = Box(r),
         exec[r].step \notin {"idle", "done"}, e.step # "idle"
  PROVE  /\ exec' \in [Runners -> Execs]
         /\ \A s \in Runners \ {r} : exec'[s] = exec[s] /\ (Box(r) \in Labels => Box(s) # Box(r))
         /\ exec'[r] = e /\ Box(r) \in Labels
         /\ Apart'
         /\ \A s \in Runners : /\ Box(s)' = Box(s) /\ Idle(s)' = Idle(s)
                               /\ exec[s].step \in {"idle", "done"} => exec'[s] = exec[s]
         /\ \A l : Owned(l) => Owned(l)' \/ (l = Box(r) /\ e.step = "done")
<1> USE DEF SandboxInv
<1>1. /\ exec' \in [Runners -> Execs] /\ exec'[r] = e
      /\ \A s \in Runners \ {r} : exec'[s] = exec[s]
  BY DEF SandboxTypeOK, Execs
<1>2. Box(r) \in Labels
  BY DEF Shapes, Shape, Idle, Doing
<1>3. \A s \in Runners \ {r} : Box(s) # Box(r)
  BY <1>2 DEF Apart
<1>4. \A s \in Runners : Box(s)' = Box(s)
  BY <1>1 DEF Box
<1>5. Apart'
  BY <1>4, ApartKept
<1>6. \A s \in Runners : /\ Idle(s)' = Idle(s)
                         /\ exec[s].step \in {"idle", "done"} => exec'[s] = exec[s]
  <2> TAKE s \in Runners
  <2>1. CASE s = r
    BY <1>1, <2>1 DEF Idle, Doing
  <2>2. CASE s # r
    BY <1>1, <2>2 DEF Idle, Doing
  <2> QED BY <2>1, <2>2
<1>7. \A l : Owned(l) => Owned(l)' \/ (l = Box(r) /\ e.step = "done")
  <2> SUFFICES ASSUME NEW l, NEW s \in Runners, Box(s) = l, ~Doing(s, "done"),
                      l # Box(r) \/ e.step # "done"
               PROVE  Box(s)' = l /\ ~Doing(s, "done")'
    BY DEF Owned
  <2>1. CASE s = r
    BY <1>1, <1>4, <2>1 DEF Doing
  <2>2. CASE s # r
    BY <1>1, <1>4, <2>2 DEF Doing
  <2> QED BY <2>1, <2>2
<1> QED BY <1>1, <1>2, <1>3, <1>4, <1>5, <1>6, <1>7

-----------------------------------------------------------------------------
(* Docker makes the container, or refuses. *)
LEMMA CreateKeeps ==
  ASSUME SandboxInv, NEW r \in Runners, Create(r)
  PROVE  SandboxInv' /\ SandboxFrame
<1> USE DEF SandboxInv
<1>0. Doing(r, "creating") /\ UNCHANGED <<status, reaper, doomed, stuck>>
  BY DEF Create
<1>1. PICK e \in Execs :
        /\ exec' = [exec EXCEPT ![r] = e] /\ e.label = Box(r)
        /\ \/ e.step = "starting" /\ alive' = alive \cup {Box(r)} /\ faults' = faults
           \/ e.step = "done" /\ e.answer = "threw" /\ alive' = alive /\ Fault
  <2>1. CASE alive' = alive \cup {Box(r)} /\ To(r, "starting") /\ UNCHANGED faults
    <3> DEFINE e == [exec[r] EXCEPT !.step = "starting"]
    <3>1. e \in Execs /\ e.step = "starting" /\ e.label = Box(r)
      BY DEF SandboxTypeOK, Execs, ExecStep, Box
    <3>2. exec' = [exec EXCEPT ![r] = e]
      BY <2>1 DEF To, SandboxTypeOK
    <3> QED BY <2>1, <3>1, <3>2
  <2>2. CASE /\ Fault /\ UNCHANGED alive
             /\ exec' = [exec EXCEPT ![r].step = "done", ![r].answer = "threw"]
    <3> DEFINE e == [exec[r] EXCEPT !.step = "done", !.answer = "threw"]
    <3>1. e \in Execs /\ e.step = "done" /\ e.answer = "threw" /\ e.label = Box(r)
      BY DEF SandboxTypeOK, Execs, ExecStep, Answer, Box
    <3>2. exec' = [exec EXCEPT ![r] = e]
      BY <2>2 DEF SandboxTypeOK
    <3> QED BY <2>2, <3>1, <3>2
  <2> QED BY <2>1, <2>2 DEF Create
<1>2. exec[r].step \notin {"idle", "done"} /\ e.step # "idle"
  BY <1>0, <1>1 DEF Doing
<1>3. /\ exec' \in [Runners -> Execs]
      /\ \A s \in Runners \ {r} : exec'[s] = exec[s] /\ Box(s) # Box(r)
      /\ exec'[r] = e /\ Box(r) \in Labels
      /\ Apart'
      /\ \A s \in Runners : /\ Box(s)' = Box(s) /\ Idle(s)' = Idle(s)
                            /\ exec[s].step \in {"idle", "done"} => exec'[s] = exec[s]
      /\ \A l : Owned(l) => Owned(l)' \/ (l = Box(r) /\ e.step = "done")
  BY <1>1, <1>2, RunnerMoves
<1>4. SandboxTypeOK'
  BY <1>0, <1>1, <1>3, SandboxAssumption DEF SandboxTypeOK, Execs, Fault
<1>5. Shapes'
  <2>1. Shape(r)'
    BY <1>1, <1>3 DEF Shape, Idle, Doing, Box
  <2>2. ASSUME NEW s \in Runners \ {r}
        PROVE  Shape(s)'
    <3>1. exec'[s] = exec[s] /\ Shape(s) /\ status' \in [Labels -> Status]
      BY <1>3, <1>4 DEF Shapes, SandboxTypeOK
    <3>2. Doing(s, "creating") => Box(s) \notin alive'
      BY <1>1, <1>3, <3>1 DEF Shape
    <3> QED BY <1>0, <3>1, <3>2, ShapeBesides
  <2> QED BY <2>1, <2>2 DEF Shapes
<1>6. \A l \in alive' : l \in alive \/ l = Box(r)
  BY <1>1
<1>7. \A l \in alive' : (l \in alive /\ Owned(l)) \/ l = Box(r) => Owned(l)'
  <2>1. Box(r) \in alive' => Owned(Box(r))'
    <3>1. Box(r) \notin alive
      BY <1>0 DEF Shapes, Shape
    <3>2. Box(r) \in alive' => e.step = "starting"
      BY <1>1, <3>1
    <3>3. Box(r)' = Box(r) /\ exec'[r].step = e.step
      BY <1>3
    <3> QED BY <3>2, <3>3 DEF Owned, Doing
  <2> QED BY <1>3, <2>1
<1>8. Reaped'
  BY <1>0, <1>6, <1>7 DEF Reaped
<1>9. SandboxFrame
  BY <1>0, <1>3, <1>6 DEF SandboxFrame
<1> QED BY <1>3, <1>4, <1>5, <1>8, <1>9

(* attach and start: the program is up, or an error leaves the container   *)
(* to the finally.                                                         *)
LEMMA StartKeeps ==
  ASSUME SandboxInv, NEW r \in Runners, Start(r)
  PROVE  SandboxInv' /\ SandboxFrame
<1> USE DEF SandboxInv
<1>0. Doing(r, "starting") /\ UNCHANGED <<alive, reaper, doomed, stuck>>
  BY DEF Start
<1>1. PICK e \in Execs :
        /\ exec' = [exec EXCEPT ![r] = e] /\ e.label = Box(r)
        /\ \/ e.step = "waiting" /\ status' = [status EXCEPT ![Box(r)] = "up"] /\ faults' = faults
           \/ e.step = "cleaning" /\ e.answer = "threw" /\ status' = status
              /\ (Fault \/ faults' = faults)
  <2>1. CASE status' = [status EXCEPT ![Box(r)] = "up"] /\ To(r, "waiting") /\ UNCHANGED faults
    <3> DEFINE e == [exec[r] EXCEPT !.step = "waiting"]
    <3>1. e \in Execs /\ e.step = "waiting" /\ e.label = Box(r)
      BY DEF SandboxTypeOK, Execs, ExecStep, Box
    <3>2. exec' = [exec EXCEPT ![r] = e]
      BY <2>1 DEF To, SandboxTypeOK
    <3> QED BY <2>1, <3>1, <3>2
  <2>2. CASE Throws(r) /\ UNCHANGED status /\ (Fault \/ UNCHANGED faults)
    <3> DEFINE e == [exec[r] EXCEPT !.step = "cleaning", !.answer = "threw"]
    <3>1. e \in Execs /\ e.step = "cleaning" /\ e.answer = "threw" /\ e.label = Box(r)
      BY DEF SandboxTypeOK, Execs, ExecStep, Answer, Box
    <3>2. exec' = [exec EXCEPT ![r] = e]
      BY <2>2 DEF Throws, SandboxTypeOK
    <3> QED BY <2>2, <3>1, <3>2
  <2> QED BY <2>1, <2>2 DEF Start
<1>2. exec[r].step \notin {"idle", "done"} /\ e.step # "idle"
  BY <1>0, <1>1 DEF Doing
<1>3. /\ exec' \in [Runners -> Execs]
      /\ \A s \in Runners \ {r} : exec'[s] = exec[s] /\ Box(s) # Box(r)
      /\ exec'[r] = e /\ Box(r) \in Labels
      /\ Apart'
      /\ \A s \in Runners : /\ Box(s)' = Box(s) /\ Idle(s)' = Idle(s)
                            /\ exec[s].step \in {"idle", "done"} => exec'[s] = exec[s]
      /\ \A l : Owned(l) => Owned(l)' \/ (l = Box(r) /\ e.step = "done")
  BY <1>1, <1>2, RunnerMoves
<1>4. SandboxTypeOK'
  <2>1. status' \in [Labels -> Status]
    BY <1>1, <1>3 DEF SandboxTypeOK, Status
  <2> QED BY <1>0, <1>1, <1>3, <2>1, SandboxAssumption DEF SandboxTypeOK, Execs, Fault
<1>5. \A l \in Labels : status'[l] = status[l] \/ l = Box(r)
  BY <1>1 DEF SandboxTypeOK
<1>6. Shapes'
  <2>1. Shape(r)'
    BY <1>1, <1>3 DEF Shape, Idle, Doing, Box, SandboxTypeOK
  <2>2. ASSUME NEW s \in Runners \ {r}
        PROVE  Shape(s)'
    <3>1. exec'[s] = exec[s] /\ Shape(s) /\ status' \in [Labels -> Status] /\ Box(s) # Box(r)
      BY <1>3, <1>4 DEF Shapes, SandboxTypeOK
    <3>2. Doing(s, "creating") => Box(s) \notin alive'
      BY <1>0, <3>1 DEF Shape
    <3>3. Box(s) \in Labels => status'[Box(s)] = status[Box(s)]
      BY <1>5, <3>1
    <3> QED BY <3>1, <3>2, <3>3, ShapeBesides
  <2> QED BY <2>1, <2>2 DEF Shapes
<1>7. \A l : Owned(l) => Owned(l)'
  BY <1>1, <1>3
<1>8. Reaped'
  BY <1>0, <1>7 DEF Reaped
<1>9. SandboxFrame
  <2>1. Box(r) = Box(r) /\ exec[r].step \in {"starting", "waiting"}
    BY <1>0 DEF Doing
  <2> QED BY <1>0, <1>3, <1>5, <2>1 DEF SandboxFrame
<1> QED BY <1>3, <1>4, <1>6, <1>8, <1>9

(* The wait is over, with an answer or without; the finally is next. *)
LEMMA WaitEnds ==
  ASSUME SandboxInv, NEW r \in Runners, Doing(r, "waiting"),
         NEW w \in {"pass", "fail", "late", "threw"}, w = "threw" \/ w = status[Box(r)],
         exec' = [exec EXCEPT ![r].step = "cleaning", ![r].answer = w],
         UNCHANGED <<alive, status, reaper, doomed, stuck, faults>>
  PROVE  SandboxInv' /\ SandboxFrame
<1> USE DEF SandboxInv
<1> DEFINE e == [exec[r] EXCEPT !.step = "cleaning", !.answer = w]
<1>1. e \in Execs /\ e.step = "cleaning" /\ e.answer = w /\ e.label = Box(r)
  BY DEF SandboxTypeOK, Execs, ExecStep, Answer, Box
<1>2. exec' = [exec EXCEPT ![r] = e]
  BY DEF SandboxTypeOK
<1> HIDE DEF e
<1>3. exec[r].step \notin {"idle", "done"} /\ e.step # "idle"
  BY <1>1 DEF Doing
<1>4. /\ exec' \in [Runners -> Execs]
      /\ \A s \in Runners \ {r} : exec'[s] = exec[s]
      /\ exec'[r] = e /\ Box(r) \in Labels
      /\ Apart'
      /\ \A s \in Runners : /\ Box(s)' = Box(s) /\ Idle(s)' = Idle(s)
                            /\ exec[s].step \in {"idle", "done"} => exec'[s] = exec[s]
      /\ \A l : Owned(l) => Owned(l)' \/ (l = Box(r) /\ e.step = "done")
  BY <1>1, <1>2, <1>3, RunnerMoves
<1>5. SandboxTypeOK'
  BY <1>4 DEF SandboxTypeOK, Execs
<1>6. Shapes'
  <2>1. Shape(r)'
    BY <1>1, <1>4 DEF Shape, Idle, Doing, Box
  <2>2. ASSUME NEW s \in Runners \ {r}
        PROVE  Shape(s)'
    <3>1. exec'[s] = exec[s] /\ Shape(s)
      BY <1>4 DEF Shapes
    <3> QED BY <3>1 DEF Shape, Idle, Doing, Box
  <2> QED BY <2>1, <2>2 DEF Shapes
<1>7. \A l : Owned(l) => Owned(l)'
  BY <1>1, <1>4
<1>8. Reaped'
  BY <1>7 DEF Reaped
<1>9. SandboxFrame
  BY <1>4 DEF SandboxFrame
<1> QED BY <1>4, <1>5, <1>6, <1>8, <1>9

(* A program that runs, or that an execution waits for, ends or is killed  *)
(* or passes its deadline.                                                 *)
LEMMA StatusMoves ==
  ASSUME SandboxInv, NEW l \in Labels, NEW st \in Status \ {"new"}, Becomes(l, st),
         Runs(l) \/ \E r \in Runners : Box(r) = l /\ Doing(r, "waiting"),
         UNCHANGED <<exec, alive, reaper, doomed, stuck>>,
         Fault \/ UNCHANGED faults
  PROVE  SandboxInv' /\ SandboxFrame
<1> USE DEF SandboxInv
<1>1. /\ status' \in [Labels -> Status] /\ status'[l] = st
      /\ \A k \in Labels \ {l} : status'[k] = status[k]
  BY DEF Becomes, SandboxTypeOK
<1>2. SandboxTypeOK'
  BY <1>1, SandboxAssumption DEF SandboxTypeOK, Fault
<1>3. Shapes'
  <2> SUFFICES ASSUME NEW s \in Runners
               PROVE  Shape(s)'
    BY DEF Shapes
  <2>1. CASE Doing(s, "waiting")
    <3>1. exec'[s] = exec[s] /\ Doing(s, "waiting")' /\ Box(s)' = Box(s) /\ Box(s) \in Labels
      BY <2>1 DEF Shapes, Shape, Idle, Doing, Box
    <3>2. status'[Box(s)] # "new"
      BY <2>1, <1>1, <3>1 DEF Shapes, Shape
    <3> QED BY <3>1, <3>2 DEF Shape, Idle, Doing, Box
  <2>2. CASE ~Doing(s, "waiting")
    <3>1. Box(s) = l => Runs(l)
      BY <2>2 DEF Apart
    <3>2. exec'[s] = exec[s] /\ Shape(s) /\ (Doing(s, "creating") => Box(s) \notin alive')
      BY DEF Shapes, Shape
    <3>3. Box(s) \in Labels => \/ status'[Box(s)] = status[Box(s)]
                               \/ Runs(Box(s)) /\ status'[Box(s)] # "new"
      BY <1>1, <3>1
    <3> QED BY <1>1, <3>2, <3>3, ShapeBesides
  <2> QED BY <2>1, <2>2
<1>4. Apart' /\ Reaped'
  BY DEF Apart, Reaped, Owned, Box, Doing
<1>5. SandboxFrame
  <2>1. Runs(l) => status[l] \notin Over
    BY DEF Runs, Over
  <2>2. \A k \in Labels :
          \/ status'[k] = status[k] \/ status[k] \notin Over
          \/ \E r \in Runners : Box(r) = k /\ exec[r].step \in {"starting", "waiting"}
    BY <1>1, <2>1 DEF Doing
  <2> QED BY <2>2 DEF SandboxFrame, Box, Idle, Doing
<1> QED BY <1>2, <1>3, <1>4, <1>5

LEMMA DeadlineKeeps ==
  ASSUME SandboxInv, NEW r \in Runners, Deadline(r)
  PROVE  SandboxInv' /\ SandboxFrame
<1>1. Box(r) \in Labels
  BY DEF Deadline, Doing, SandboxInv, Shapes, Shape, Idle
<1>2. PICK st \in {"late", "overdue"} : Becomes(Box(r), st) /\ (Fault \/ UNCHANGED faults)
  BY DEF Deadline
<1> QED BY <1>1, <1>2, StatusMoves DEF Deadline, Status

LEMMA ProgramEndsKeeps ==
  ASSUME SandboxInv, NEW l \in Labels, ProgramEnds(l)
  PROVE  SandboxInv' /\ SandboxFrame
<1>1. PICK st \in {"late", "pass", "fail"} : Becomes(l, st)
  BY DEF ProgramEnds
<1> QED BY <1>1, StatusMoves DEF ProgramEnds, Status

LEMMA WaitReturnsKeeps ==
  ASSUME SandboxInv, NEW r \in Runners, WaitReturns(r)
  PROVE  SandboxInv' /\ SandboxFrame
<1>1. Doing(r, "waiting") /\ Box(r) \in Labels
  BY DEF WaitReturns, Doing, SandboxInv, Shapes, Shape, Idle
<1>2. status[Box(r)] \in {"pass", "fail", "late"}
  BY <1>1 DEF WaitReturns, SandboxInv, SandboxTypeOK, Shapes, Shape, Runs, Status
<1> QED BY <1>1, <1>2, WaitEnds DEF WaitReturns

LEMMA GraceKeeps ==
  ASSUME SandboxInv, NEW r \in Runners, Grace(r)
  PROVE  SandboxInv' /\ SandboxFrame
BY WaitEnds DEF Grace, Throws

(* finally: the container is gone, or this process has tried.  *)
LEMMA CleanUpKeeps ==
  ASSUME SandboxInv, NEW r \in Runners, CleanUp(r)
  PROVE  SandboxInv' /\ SandboxFrame
<1> USE DEF SandboxInv
<1>0. Doing(r, "cleaning") /\ To(r, "done") /\ UNCHANGED <<reaper, doomed>>
  BY DEF CleanUp
<1> DEFINE e == [exec[r] EXCEPT !.step = "done"]
<1>1. e \in Execs /\ e.step = "done" /\ e.answer = exec[r].answer /\ e.label = Box(r)
  BY DEF SandboxTypeOK, Execs, ExecStep, Box
<1>2. exec' = [exec EXCEPT ![r] = e]
  BY <1>0 DEF To, SandboxTypeOK
<1> HIDE DEF e
<1>3. exec[r].step \notin {"idle", "done"} /\ e.step # "idle"
  BY <1>0, <1>1 DEF Doing
<1>4. /\ exec' \in [Runners -> Execs]
      /\ \A s \in Runners \ {r} : exec'[s] = exec[s] /\ Box(s) # Box(r)
      /\ exec'[r] = e /\ Box(r) \in Labels
      /\ Apart'
      /\ \A s \in Runners : /\ Box(s)' = Box(s) /\ Idle(s)' = Idle(s)
                            /\ exec[s].step \in {"idle", "done"} => exec'[s] = exec[s]
      /\ \A l : Owned(l) => Owned(l)' \/ (l = Box(r) /\ e.step = "done")
  BY <1>1, <1>2, <1>3, RunnerMoves
<1>5. /\ status' \in [Labels -> Status] /\ alive' \subseteq alive /\ stuck \subseteq stuck'
      /\ stuck' \subseteq Labels /\ (Fault \/ UNCHANGED faults)
      /\ Box(r) \notin alive' \/ Box(r) \in stuck'
      /\ \A k \in Labels : \/ status'[k] = status[k]
                           \/ k = Box(r) /\ Runs(k) /\ status'[k] \in Over
  <2>1. CASE Removed(Box(r)) /\ UNCHANGED <<stuck, faults>>
    <3>1. /\ status' \in [Labels -> Status] /\ alive' = alive \ {Box(r)}
          /\ \A k \in Labels : \/ status'[k] = status[k]
                               \/ k = Box(r) /\ Runs(Box(r)) /\ status'[k] \in Over
      BY <1>4, <2>1, RemovedStatus
    <3> QED BY <2>1, <3>1 DEF SandboxTypeOK
  <2>2. CASE /\ Box(r) \in alive /\ Fault /\ stuck' = stuck \cup {Box(r)}
             /\ UNCHANGED <<alive, status>>
    BY <2>2, <1>4 DEF SandboxTypeOK
  <2> QED BY <2>1, <2>2 DEF CleanUp
<1>6. SandboxTypeOK'
  BY <1>0, <1>4, <1>5, SandboxAssumption DEF SandboxTypeOK, Execs, Fault
<1>7. Shapes'
  <2>1. Shape(r)'
    <3>1. e.answer # "none" /\ (e.answer \in Over => status[Box(r)] = e.answer)
      BY <1>0, <1>1 DEF Shapes, Shape, Doing, Over
    <3>2. e.answer \in Over => status'[Box(r)] = e.answer
      BY <1>4, <1>5, <3>1 DEF Runs, Over
    <3> QED BY <1>1, <1>4, <3>1, <3>2 DEF Shape, Idle, Doing, Box, Over
  <2>2. ASSUME NEW s \in Runners \ {r}
        PROVE  Shape(s)'
    <3>1. exec'[s] = exec[s] /\ Shape(s) /\ Box(s) # Box(r)
      BY <1>4 DEF Shapes
    <3>2. Doing(s, "creating") => Box(s) \notin alive'
      BY <1>5, <3>1 DEF Shape
    <3>3. Box(s) \in Labels => status'[Box(s)] = status[Box(s)]
      BY <1>5, <3>1
    <3> QED BY <1>5, <3>1, <3>2, <3>3, ShapeBesides
  <2> QED BY <2>1, <2>2 DEF Shapes
<1>8. Reaped'
  <2>1. \A l \in alive' \ stuck' : l \in alive \ stuck /\ (Owned(l) => Owned(l)')
    BY <1>4, <1>5
  <2> QED BY <1>0, <2>1 DEF Reaped
<1>9. SandboxFrame
  <2>1. \A k \in Labels : Runs(k) => status[k] \notin Over
    BY DEF Runs, Over
  <2> QED BY <1>4, <1>5, <2>1 DEF SandboxFrame
<1> QED BY <1>4, <1>6, <1>7, <1>8, <1>9

LEMMA SandboxStepKeeps ==
  ASSUME SandboxInv, NEW r \in Runners, SandboxStep(r)
  PROVE  SandboxInv' /\ SandboxFrame
BY CreateKeeps, StartKeeps, DeadlineKeeps, WaitReturnsKeeps, GraceKeeps, CleanUpKeeps
   DEF SandboxStep

(* The reaper lists what Docker holds, or has no Docker to list. *)
LEMMA ReaperListsKeeps ==
  ASSUME SandboxInv, ReaperLists
  PROVE  SandboxInv' /\ SandboxFrame
<1> USE DEF SandboxInv
<1>0. UNCHANGED <<exec, alive, status>>
  BY DEF ReaperLists
<1>1. SandboxTypeOK'
  BY SandboxAssumption DEF SandboxTypeOK, ReaperLists, Fault
<1>2. Shapes' /\ Apart'
  BY <1>0 DEF Shapes, Shape, Apart, Idle, Doing, Box
<1>3. Reaped'
  <2>1. CASE reaper' = "removing" /\ doomed' = alive
    BY <1>0, <2>1 DEF Reaped
  <2>2. CASE reaper' = "done" /\ stuck' = stuck \cup alive
    BY <1>0, <2>2 DEF Reaped
  <2> QED BY <2>1, <2>2 DEF ReaperLists
<1>4. SandboxFrame
  BY <1>0 DEF SandboxFrame, Box, Idle, Doing
<1> QED BY <1>1, <1>2, <1>3, <1>4

(* The reaper removes one container of its list, or tries to; whoever's it *)
(* is.                                                                     *)
LEMMA ReaperRemovesKeeps ==
  ASSUME SandboxInv, ReaperRemoves
  PROVE  SandboxInv' /\ SandboxFrame
<1> USE DEF SandboxInv
<1>0. UNCHANGED <<exec, reaper>> /\ reaper = "removing"
  BY DEF ReaperRemoves
<1>1. PICK l \in doomed :
        /\ doomed' = doomed \ {l}
        /\ \/ Removed(l) /\ UNCHANGED <<stuck, faults>>
           \/ /\ l \in alive /\ Fault /\ stuck' = stuck \cup {l}
              /\ UNCHANGED <<alive, status>>
  BY DEF ReaperRemoves
<1>2. l \in Labels
  BY DEF SandboxTypeOK
<1>3. /\ status' \in [Labels -> Status] /\ alive' \subseteq alive /\ stuck \subseteq stuck'
      /\ stuck' \subseteq Labels /\ (Fault \/ UNCHANGED faults)
      /\ l \notin alive' \/ l \in stuck'
      /\ \A k \in Labels : \/ status'[k] = status[k]
                           \/ k = l /\ Runs(k) /\ status'[k] \in Over
  <2>1. CASE Removed(l) /\ UNCHANGED <<stuck, faults>>
    <3>1. /\ status' \in [Labels -> Status] /\ alive' = alive \ {l}
          /\ \A k \in Labels : \/ status'[k] = status[k]
                               \/ k = l /\ Runs(l) /\ status'[k] \in Over
      BY <1>2, <2>1, RemovedStatus
    <3> QED BY <2>1, <3>1 DEF SandboxTypeOK
  <2>2. CASE /\ l \in alive /\ Fault /\ stuck' = stuck \cup {l}
             /\ UNCHANGED <<alive, status>>
    BY <2>2, <1>2 DEF SandboxTypeOK
  <2> QED BY <1>1, <2>1, <2>2
<1>4. SandboxTypeOK'
  BY <1>0, <1>1, <1>3, SandboxAssumption DEF SandboxTypeOK, Fault
<1>5. Shapes'
  <2> SUFFICES ASSUME NEW s \in Runners
               PROVE  Shape(s)'
    BY DEF Shapes
  <2>1. exec'[s] = exec[s] /\ Shape(s)
    BY <1>0 DEF Shapes
  <2>2. Doing(s, "creating") => Box(s) \notin alive'
    BY <1>3, <2>1 DEF Shape
  <2>3. Box(s) \in Labels => \/ status'[Box(s)] = status[Box(s)]
                             \/ Runs(Box(s)) /\ status'[Box(s)] # "new"
    BY <1>3 DEF Over
  <2> QED BY <1>3, <2>1, <2>2, <2>3, ShapeBesides
<1>6. Apart'
  BY <1>0 DEF Apart, Box
<1>7. Reaped'
  <2>1. \A k \in alive' \ stuck' : k \in alive \ stuck /\ k # l
    BY <1>3
  <2>2. \A k : Owned(k)' <=> Owned(k)
    BY <1>0 DEF Owned, Box, Doing
  <2> QED BY <1>0, <1>1, <2>1, <2>2 DEF Reaped
<1>8. SandboxFrame
  <2>1. \A k \in Labels : Runs(k) => status[k] \notin Over
    BY DEF Runs, Over
  <2> QED BY <1>0, <1>3, <2>1 DEF SandboxFrame, Box, Idle, Doing
<1> QED BY <1>4, <1>5, <1>6, <1>7, <1>8

LEMMA ReaperEndsKeeps ==
  ASSUME SandboxInv, ReaperEnds
  PROVE  SandboxInv' /\ SandboxFrame
<1> USE DEF SandboxInv
<1>0. /\ UNCHANGED <<exec, alive, status, doomed, stuck, faults>>
      /\ reaper = "removing" /\ doomed = {} /\ reaper' = "done"
  BY DEF ReaperEnds
<1>1. SandboxTypeOK'
  BY <1>0 DEF SandboxTypeOK
<1>2. Shapes' /\ Apart'
  BY <1>0 DEF Shapes, Shape, Apart, Idle, Doing, Box
<1>3. Reaped'
  BY <1>0 DEF Reaped, Owned, Box, Doing
<1>4. SandboxFrame
  BY <1>0 DEF SandboxFrame, Box, Idle, Doing
<1> QED BY <1>1, <1>2, <1>3, <1>4

(* The process dies; the next one has listed nothing yet. *)
LEMMA SandboxCrashKeeps ==
  ASSUME SandboxInv, SandboxCrash
  PROVE  SandboxInv'
<1> USE DEF SandboxInv
<1>0. /\ exec' = [r \in Runners |-> NoExec]
      /\ reaper' = "listing" /\ doomed' = {} /\ stuck' = {}
      /\ UNCHANGED <<alive, status, faults>>
  BY DEF SandboxCrash
<1>1. SandboxTypeOK'
  BY <1>0 DEF SandboxTypeOK, NoExec, ExecStep, Answer
<1>2. \A r \in Runners : exec'[r] = NoExec
  BY <1>0
<1>3. Shapes'
  BY <1>2 DEF Shapes, Shape, Idle, Doing, Box, NoExec
<1>4. Apart'
  BY <1>2, SandboxAssumption DEF Apart, Box, NoExec
<1>5. Reaped'
  BY <1>0 DEF Reaped
<1> QED BY <1>1, <1>3, <1>4, <1>5

LEMMA SandboxStarts ==
  ASSUME NEW olds \in SUBSET Labels, SandboxInit(olds)
  PROVE  SandboxInv
<1> USE DEF SandboxInit
<1>1. SandboxTypeOK
  BY SandboxAssumption DEF SandboxTypeOK, NoExec, ExecStep, Answer, Status
<1>2. \A r \in Runners : exec[r] = NoExec
  OBVIOUS
<1>3. Shapes
  BY <1>2 DEF Shapes, Shape, Idle, Doing, Box, NoExec
<1>4. Apart
  BY <1>2, SandboxAssumption DEF Apart, Box, NoExec
<1>5. Reaped
  BY DEF Reaped
<1> QED BY <1>1, <1>3, <1>4, <1>5 DEF SandboxInv

-----------------------------------------------------------------------------
(* The verification. *)

VerifyTypes ==
  /\ session \in [step : {"idle", "asking", "proving", "fixing", "over"},
                  cycle : 0..MaxCycles, test : 0..MaxCycles, outcome : Outcome]
  /\ tested \in [Labels -> 0..MaxCycles]
  /\ panel \in [{v, x} -> {"idle", "busy", "result", "error"}]
  /\ losses \in 0..MaxLosses /\ agentCalls \in 0..MaxMishaps

(* Who may run what: the verification its program and its fixes, the       *)
(* snippet's runner the snippet, and nobody else anything.                 *)
Boxes ==
  /\ Box(v) \in {NoLabel, Original} \cup {Fix(n) : n \in Cycle}
  /\ Box(x) \in {NoLabel, Snippet}
  /\ \A r \in Runners \ {v, x} : Box(r) = NoLabel

(* The programs that have not been run yet have no container. *)
Unused(l) ==
  \/ /\ l = Original
     /\ session.step \in {"idle", "asking"} /\ session.cycle < 2
  \/ /\ l = Snippet
     /\ panel[x] = "idle"
  \/ \E n \in Cycle :
       /\ l = Fix(n)
       /\ \/ n > session.cycle
          \/ n = session.cycle /\ session.step \in {"asking", "proving"}

Fresh == \A l \in Labels : Unused(l) => l \notin alive /\ \A r \in Runners : Box(r) # l

(* The original has been run with the session's test, and did not pass. *)
BugShown ==
  /\ status[Original] \in {"fail", "late"}
  /\ tested[Original] = session.test

(* What each step of the verification knows of its call, its execution and *)
(* the programs it has run.                                                *)
AtRest == At(v, "idle") /\ Idle(v) /\ session.cycle = 0

Asking ==
  /\ session.cycle \in Cycle /\ ~At(v, "idle")
  /\ session.cycle = 1 => Idle(v)
  /\ session.cycle # 1 => Doing(v, "done") /\ BugShown

Proving ==
  /\ session.cycle = 1 /\ At(v, "ok") /\ ~Idle(v)
  /\ Box(v) = Original /\ tested[Original] = session.test

Fixing ==
  /\ session.cycle \in Cycle /\ At(v, "ok") /\ ~Idle(v) /\ BugShown
  /\ Box(v) = Fix(session.cycle) /\ tested[Fix(session.cycle)] = session.test

Ended ==
  /\ exec[v].step \in {"idle", "done"}
  /\ call[v].step \in {"idle", "ok", "refused", "error"}
  /\ session.outcome = "fixed" => session.cycle \in Cycle /\ FixedIsProven

Stage ==
  /\ session.step # "over" => session.outcome = "none"
  /\ panel[v] = "idle" <=> session.step = "idle"
  /\ panel[x] = "idle" => Idle(x)
  /\ session.step = "idle" => AtRest
  /\ session.step = "asking" => Asking
  /\ session.step = "proving" => Proving
  /\ session.step = "fixing" => Fixing
  /\ session.step = "over" => Ended

VerifyInv == QuotaInv /\ SandboxInv /\ VerifyTypes /\ Boxes /\ Fresh /\ Stage

-----------------------------------------------------------------------------
LEMMA VerifyConstants ==
  /\ v \in Runners /\ v \in Callers /\ x \in Runners /\ a \in Callers
  /\ v # x /\ v # a
  /\ MaxCycles \in Nat /\ MaxCycles > 0 /\ MaxLosses \in Nat
  /\ MaxPressed \in Nat /\ MaxMishaps \in Nat
  /\ 1 \in Cycle /\ \A n \in Cycle : n \in Nat /\ n > 0 /\ n <= MaxCycles
BY VerifyAssumption, LabelAssumption DEF Cycle

(* The labels are what their names say, and different. *)
LEMMA LabelsDiffer ==
  /\ Original \in Labels /\ Snippet \in Labels /\ Original # Snippet
  /\ old \in Labels /\ old # Original /\ old # Snippet
  /\ NoLabel \notin Labels
  /\ \A n \in Cycle : /\ Fix(n) \in Labels /\ Fix(n) # Original /\ Fix(n) # Snippet
                      /\ Fix(n) # old
                      /\ \A m \in Cycle : Fix(m) = Fix(n) => m = n
<1>1. VerifyLabels \subseteq Labels /\ v # x
  BY LabelAssumption
<1>2. Original \in Labels /\ Snippet \in Labels /\ old \in Labels
  BY <1>1 DEF VerifyLabels
<1>3. \A n \in Cycle : Fix(n) \in Labels
  BY <1>1 DEF VerifyLabels
<1>4. Original # Snippet
  BY <1>1 DEF Original, Snippet
<1>5. \A n \in Cycle : Fix(n) # Original /\ Fix(n) # Snippet
  BY <1>1, VerifyConstants DEF Original, Snippet, Fix
<1>6. \A n \in Cycle : \A m \in Cycle : Fix(m) = Fix(n) => m = n
  BY DEF Fix
<1>7. old # Original /\ old # Snippet /\ \A n \in Cycle : Fix(n) # old
  BY LabelAssumption
<1> QED BY <1>2, <1>3, <1>4, <1>5, <1>6, <1>7, SandboxAssumption

(* A step after which nothing that was used is unused, and that makes no   *)
(* container but the ones of the executions, changes nothing of who has    *)
(* what.                                                                   *)
LEMMA FreshKept ==
  ASSUME Boxes, Fresh, \A r \in Runners : Box(r)' = Box(r),
         \A l \in alive' : l \in alive \/ \E r \in Runners : Box(r) = l,
         \A l \in Labels : Unused(l)' => Unused(l)
  PROVE  Boxes' /\ Fresh'
<1>1. Boxes'
  BY VerifyConstants DEF Boxes
<1>2. Fresh'
  BY DEF Fresh
<1> QED BY <1>1, <1>2

(* An execution of a program that was unused, and is used from now on.     *)
LEMMA FreshRun ==
  ASSUME SandboxInv, Boxes, Fresh, NEW r \in {v, x}, NEW l \in Labels, Unused(l),
         r = v => l \in {Original} \cup {Fix(n) : n \in Cycle},
         r = x => l = Snippet,
         exec[r].step \in {"idle", "done"}, Execute(r, l),
         UNCHANGED <<alive, status, reaper, doomed, stuck, faults>>,
         \A k \in Labels : Unused(k)' => Unused(k) /\ k # l
  PROVE  /\ SandboxInv' /\ Boxes' /\ Fresh'
         /\ exec'[r].step = "creating" /\ exec'[r].label = l
         /\ \A s \in Runners \ {r} : exec'[s] = exec[s]
<1>0. r \in Runners
  BY VerifyConstants
<1>1. l \notin alive /\ \A s \in Runners : Box(s) # l
  BY DEF Fresh
<1>2. SandboxInv'
  BY <1>0, <1>1, ExecuteKeeps
<1>3. /\ exec'[r].step = "creating" /\ exec'[r].label = l
      /\ \A s \in Runners \ {r} : exec'[s] = exec[s]
  BY <1>0 DEF Execute, SandboxInv, SandboxTypeOK
<1>4. Boxes'
  BY <1>3, VerifyConstants DEF Boxes, Box
<1>5. Fresh'
  BY <1>3 DEF Fresh, Box
<1> QED BY <1>2, <1>3, <1>4, <1>5

(* The controller's answer ends the session, and leaves nothing unused     *)
(* that was not.                                                           *)
LEMMA EndsSession ==
  ASSUME VerifyTypes, NEW o \in Outcome, Ends(o), session.step # "idle",
         panel[v] # "idle", UNCHANGED <<tested, losses, agentCalls>>
  PROVE  /\ VerifyTypes'
         /\ session'.step = "over" /\ session'.outcome = o
         /\ session'.cycle = session.cycle /\ session'.test = session.test
         /\ panel'[v] # "idle" /\ panel'[x] = panel[x]
         /\ \A l : Unused(l)' => Unused(l)
<1>1. /\ session'.step = "over" /\ session'.outcome = o
      /\ session'.cycle = session.cycle /\ session'.test = session.test
      /\ session' \in [step : {"idle", "asking", "proving", "fixing", "over"},
                  cycle : 0..MaxCycles, test : 0..MaxCycles, outcome : Outcome]
  BY DEF Ends, VerifyTypes
<1>2. /\ panel' \in [{v, x} -> {"idle", "busy", "result", "error"}]
      /\ panel'[v] # "idle" /\ panel'[x] = panel[x]
  BY VerifyConstants DEF Ends, VerifyTypes
<1>3. VerifyTypes'
  BY <1>1, <1>2 DEF VerifyTypes
<1>4. \A l : Unused(l)' => Unused(l)
  BY <1>1, <1>2 DEF Unused
<1> QED BY <1>1, <1>2, <1>3, <1>4

-----------------------------------------------------------------------------
LEMMA PressKeeps ==
  ASSUME VerifyInv, Press
  PROVE  VerifyInv'
<1> USE DEF VerifyInv
<1>0. /\ panel[v] = "idle" /\ panel' = [panel EXCEPT ![v] = "busy"]
      /\ session' = [session EXCEPT !.step = "asking", !.cycle = 1]
      /\ Generate(v)
      /\ UNCHANGED <<grants, daily, memory, errors, admitted>>
      /\ UNCHANGED <<sandboxVars, tested, losses, agentCalls>>
  BY DEF Press
<1>1. session.step = "idle" /\ AtRest /\ session.outcome = "none"
  BY <1>0 DEF Stage
<1>2. QuotaInv'
  <2>1. ~At(v, "queued")
    BY <1>1 DEF AtRest, At
  <2> QED BY <1>0, <2>1, GenerateKeeps, VerifyConstants
<1>3. SandboxInv'
  BY <1>0 DEF SandboxInv, SandboxTypeOK, Shapes, Shape, Apart, Reaped, Owned,
              Idle, Doing, Box, sandboxVars
<1>4. /\ session' \in [step : {"idle", "asking", "proving", "fixing", "over"},
                  cycle : 0..MaxCycles, test : 0..MaxCycles, outcome : Outcome]
      /\ session'.step = "asking" /\ session'.cycle = 1 /\ session'.outcome = "none"
  <2>1. 1 \in 0..MaxCycles
    BY VerifyConstants
  <2> QED BY <1>0, <1>1, <2>1 DEF VerifyTypes
<1>5. /\ panel' \in [{v, x} -> {"idle", "busy", "result", "error"}]
      /\ panel'[v] # "idle" /\ panel'[x] = panel[x]
  BY <1>0, VerifyConstants DEF VerifyTypes
<1>6. VerifyTypes'
  BY <1>0, <1>4, <1>5 DEF VerifyTypes
<1>7. Boxes' /\ Fresh'
  <2>1. \A l : Unused(l)' => Unused(l)
    BY <1>1, <1>4, <1>5, VerifyConstants DEF Unused, AtRest
  <2> QED BY <1>0, <2>1, FreshKept DEF Box, sandboxVars
<1>8. Stage'
  <2>1. Asking'
    <3>1. ~At(v, "idle")'
      BY <1>0, VerifyConstants DEF Generate, At, QuotaInv, QuotaTypes
    <3>2. Idle(v)'
      BY <1>0, <1>1 DEF AtRest, Idle, Doing, sandboxVars
    <3> QED BY <1>4, <3>1, <3>2, VerifyConstants DEF Asking
  <2>2. panel'[x] = "idle" => Idle(x)'
    BY <1>0, <1>5 DEF Stage, Idle, Doing, sandboxVars
  <2> QED BY <1>4, <1>5, <2>1, <2>2 DEF Stage
<1> QED BY <1>2, <1>3, <1>6, <1>7, <1>8

(* Nothing of the quota or of the sandbox changes. *)
LEMMA QuotaSame ==
  ASSUME QuotaInv, UNCHANGED quotaVars
  PROVE  QuotaInv'
BY DEF QuotaInv, QuotaTypes, Chained, Counted, ForCause, Refusing, At, quotaVars

LEMMA SandboxSame ==
  ASSUME SandboxInv, UNCHANGED sandboxVars
  PROVE  SandboxInv' /\ \A r : exec'[r] = exec[r]
BY DEF SandboxInv, SandboxTypeOK, Shapes, Shape, Apart, Reaped, Owned, Idle, Doing, Box,
       sandboxVars

(* The test is run: on the original with the first answer, on the cycle's  *)
(* fix with a later one.                                                   *)
LEMMA AnsweredKeeps ==
  ASSUME VerifyInv, Answered
  PROVE  VerifyInv'
<1> USE DEF VerifyInv
<1>0. /\ session.step = "asking" /\ At(v, "ok") /\ Asking /\ session.outcome = "none"
      /\ UNCHANGED quotaVars
      /\ UNCHANGED <<alive, status, reaper, doomed, stuck, faults>>
      /\ UNCHANGED <<panel, losses, agentCalls>>
  BY DEF Answered, Stage
<1>1. QuotaInv'
  BY <1>0, QuotaSame
<1>2. /\ panel[v] # "idle" /\ session.cycle \in Cycle
      /\ session.cycle \in Nat /\ session.test \in 0..MaxCycles
  BY <1>0, VerifyConstants DEF Asking, Stage, VerifyTypes
<1>3. At(v, "ok")'
  BY <1>0 DEF At, quotaVars
<1>4. CASE session.cycle = 1
  <2>1. /\ session' = [session EXCEPT !.step = "proving", !.test = 1]
        /\ Execute(v, Original) /\ tested' = [tested EXCEPT ![Original] = 1]
    BY <1>4 DEF Answered, RunWithTest, TestOf
  <2>2. /\ session' \in [step : {"idle", "asking", "proving", "fixing", "over"},
                  cycle : 0..MaxCycles, test : 0..MaxCycles, outcome : Outcome]
        /\ session'.step = "proving" /\ session'.cycle = 1 /\ session'.test = 1
        /\ session'.outcome = "none"
    BY <1>0, <1>4, <2>1, VerifyConstants DEF VerifyTypes
  <2>3. VerifyTypes' /\ tested'[Original] = 1
    BY <1>0, <2>1, <2>2, LabelsDiffer, VerifyConstants DEF VerifyTypes
  <2>4. Unused(Original)
    BY <1>0, <1>4 DEF Unused
  <2>5. \A k \in Labels : Unused(k)' => Unused(k) /\ k # Original
    BY <1>0, <1>4, <2>2, LabelsDiffer DEF Unused
  <2>6. exec[v].step \in {"idle", "done"}
    BY <1>0, <1>4 DEF Asking, Idle, Doing
  <2>7. /\ SandboxInv' /\ Boxes' /\ Fresh'
        /\ exec'[v].step = "creating" /\ exec'[v].label = Original
        /\ \A s \in Runners \ {v} : exec'[s] = exec[s]
    BY <1>0, <2>1, <2>4, <2>5, <2>6, LabelsDiffer, FreshRun, VerifyConstants
  <2>8. Proving'
    BY <1>3, <2>2, <2>3, <2>7 DEF Proving, Idle, Doing, Box
  <2>9. panel'[x] = "idle" => Idle(x)'
    BY <1>0, <2>7, VerifyConstants DEF Stage, Idle, Doing
  <2>10. Stage'
    BY <1>0, <1>2, <2>2, <2>8, <2>9 DEF Stage
  <2> QED BY <1>1, <2>3, <2>7, <2>10
<1>5. CASE session.cycle # 1
  <2> DEFINE l == Fix(session.cycle)
  <2>0. l \in Labels /\ l # Original /\ l = Fix(session.cycle) /\ l # Snippet
    BY <1>2, LabelsDiffer
  <2>1. /\ session' = [session EXCEPT !.step = "fixing", !.test = session.test]
        /\ Execute(v, l) /\ tested' = [tested EXCEPT ![l] = session.test]
    BY <1>5 DEF Answered, RunWithTest, TestOf
  <2> HIDE DEF l
  <2>2. /\ session' \in [step : {"idle", "asking", "proving", "fixing", "over"},
                  cycle : 0..MaxCycles, test : 0..MaxCycles, outcome : Outcome]
        /\ session'.step = "fixing" /\ session'.cycle = session.cycle
        /\ session'.test = session.test /\ session'.outcome = "none"
    BY <1>0, <1>2, <2>1 DEF VerifyTypes
  <2>3. VerifyTypes' /\ tested'[l] = session.test /\ tested'[Original] = tested[Original]
    BY <1>0, <1>2, <2>0, <2>1, <2>2, LabelsDiffer DEF VerifyTypes
  <2>4. Unused(l)
    BY <1>0, <1>2, <2>0 DEF Unused
  <2>5. \A k \in Labels : Unused(k)' => Unused(k) /\ k # l
    BY <1>0, <1>2, <2>0, <2>2, LabelsDiffer, VerifyConstants DEF Unused
  <2>6. Doing(v, "done") /\ BugShown
    BY <1>0, <1>5 DEF Asking
  <2>7. /\ SandboxInv' /\ Boxes' /\ Fresh'
        /\ exec'[v].step = "creating" /\ exec'[v].label = l
        /\ \A s \in Runners \ {v} : exec'[s] = exec[s]
    <3>1. l \in {Original} \cup {Fix(n) : n \in Cycle}
      BY <1>2, <2>0
    <3> QED BY <1>0, <2>0, <2>1, <2>4, <2>5, <2>6, <3>1, FreshRun, VerifyConstants DEF Doing
  <2>8. Fixing'
    BY <1>0, <1>2, <1>3, <2>0, <2>2, <2>3, <2>6, <2>7 DEF Fixing, BugShown, Idle, Doing, Box, Fix
  <2>9. panel'[x] = "idle" => Idle(x)'
    BY <1>0, <2>7, VerifyConstants DEF Stage, Idle, Doing
  <2>10. Stage'
    BY <1>0, <1>2, <2>2, <2>8, <2>9 DEF Stage
  <2> QED BY <1>1, <2>3, <2>7, <2>10
<1> QED BY <1>4, <1>5

(* The session ends while its call and its execution stand still. *)
LEMMA EndKeeps ==
  ASSUME VerifyInv, NEW o \in Outcome \ {"fixed"}, Ends(o),
         session.step \notin {"idle", "over"},
         exec[v].step \in {"idle", "done"},
         call[v].step \in {"idle", "ok", "refused", "error"},
         UNCHANGED quotaVars, UNCHANGED sandboxVars,
         UNCHANGED <<tested, losses, agentCalls>>
  PROVE  VerifyInv'
<1> USE DEF VerifyInv
<1>1. QuotaInv' /\ SandboxInv' /\ \A r : exec'[r] = exec[r]
  BY QuotaSame, SandboxSame
<1>2. panel[v] # "idle"
  BY DEF Stage
<1>3. /\ VerifyTypes'
      /\ session'.step = "over" /\ session'.outcome = o
      /\ panel'[v] # "idle" /\ panel'[x] = panel[x]
      /\ \A l : Unused(l)' => Unused(l)
  BY <1>2, EndsSession
<1>4. Boxes' /\ Fresh'
  BY <1>1, <1>3, FreshKept DEF Box, sandboxVars
<1>5. Ended'
  BY <1>1, <1>3 DEF Ended, quotaVars
<1>6. Stage'
  BY <1>1, <1>3, <1>5 DEF Stage, Idle, Doing
<1> QED BY <1>1, <1>3, <1>4, <1>6

LEMMA AskFailsKeeps ==
  ASSUME VerifyInv, AskFails
  PROVE  VerifyInv'
<1>1. Asking
  BY DEF AskFails, VerifyInv, Stage
<1>2. exec[v].step \in {"idle", "done"}
  BY <1>1 DEF Asking, Idle, Doing
<1> QED BY <1>2, EndKeeps DEF AskFails, Outcome

LEMMA RunThrowsKeeps ==
  ASSUME VerifyInv, RunThrows
  PROVE  VerifyInv'
<1>1. At(v, "ok") /\ Doing(v, "done")
  BY DEF RunThrows, VerifyInv, Stage, Proving, Fixing
<1> QED BY <1>1, EndKeeps DEF RunThrows, Outcome, At, Doing

(* An execution that is over and did not throw has said what became of its *)
(* program.                                                                *)
LEMMA AnswerIsStatus ==
  ASSUME SandboxInv, Doing(v, "done"), exec[v].answer # "threw"
  PROVE  /\ exec[v].answer \in Over /\ status[Box(v)] = exec[v].answer
         /\ Passed(v) <=> status[Box(v)] = "pass"
<1>1. Shape(v) /\ exec[v].answer \in Answer
  BY VerifyConstants DEF SandboxInv, Shapes, SandboxTypeOK
<1>2. exec[v].answer \in Over
  BY <1>1 DEF Shape, Answer, Over, Doing
<1>3. status[Box(v)] = exec[v].answer
  BY <1>1, <1>2 DEF Shape, Doing, Over
<1> QED BY <1>2, <1>3 DEF Passed

(* The original passed, and there is no bug; or the bug counts as proven,  *)
(* and the first fix runs with the same test.                              *)
LEMMA ProvenKeeps ==
  ASSUME VerifyInv, Proven
  PROVE  VerifyInv'
<1> USE DEF VerifyInv
<1>0. /\ session.step = "proving" /\ Doing(v, "done") /\ exec[v].answer # "threw"
      /\ Proving /\ session.outcome = "none" /\ panel[v] # "idle"
      /\ UNCHANGED quotaVars
      /\ UNCHANGED <<alive, status, reaper, doomed, stuck, faults>>
      /\ UNCHANGED <<losses, agentCalls>>
  BY DEF Proven, Stage
<1>1. CASE Passed(v)
  <2>1. Ends("no_bug_proven") /\ UNCHANGED <<exec, tested>>
    BY <1>1 DEF Proven
  <2>2. UNCHANGED sandboxVars
    BY <1>0, <2>1 DEF sandboxVars
  <2> QED BY <1>0, <2>1, <2>2, EndKeeps DEF Outcome, Proving, At, Doing
<1>2. CASE ~Passed(v)
  <2> DEFINE l == Fix(1)
  <2>0. l \in Labels /\ l # Original /\ l = Fix(1) /\ l # Snippet /\ l \in {Fix(n) : n \in Cycle}
    BY LabelsDiffer, VerifyConstants
  <2>1. /\ session' = [session EXCEPT !.step = "fixing"] /\ UNCHANGED panel
        /\ Execute(v, l) /\ tested' = [tested EXCEPT ![l] = session.test]
    BY <1>2 DEF Proven, RunWithTest
  <2> HIDE DEF l
  <2>2. /\ session' \in [step : {"idle", "asking", "proving", "fixing", "over"},
                  cycle : 0..MaxCycles, test : 0..MaxCycles, outcome : Outcome]
        /\ session'.step = "fixing" /\ session'.cycle = 1
        /\ session'.test = session.test /\ session'.outcome = "none"
    BY <1>0, <2>1 DEF VerifyTypes, Proving
  <2>3. /\ VerifyTypes' /\ tested'[l] = session.test
        /\ tested'[Original] = tested[Original]
    BY <1>0, <2>0, <2>1, <2>2, LabelsDiffer DEF VerifyTypes
  <2>4. Unused(l)
    BY <1>0, <2>0, VerifyConstants DEF Unused, Proving
  <2>5. \A k \in Labels : Unused(k)' => Unused(k) /\ k # l
    BY <1>0, <2>0, <2>1, <2>2, LabelsDiffer, VerifyConstants DEF Unused, Proving
  <2>6. /\ SandboxInv' /\ Boxes' /\ Fresh'
        /\ exec'[v].step = "creating" /\ exec'[v].label = l
        /\ \A s \in Runners \ {v} : exec'[s] = exec[s]
    BY <1>0, <2>0, <2>1, <2>4, <2>5, FreshRun, VerifyConstants DEF Doing
  <2>7. BugShown
    BY <1>0, <1>2, AnswerIsStatus DEF BugShown, Proving, Over
  <2>8. Fixing'
    <3>1. At(v, "ok")'
      BY <1>0 DEF Proving, At, quotaVars
    <3> QED BY <1>0, <2>0, <2>2, <2>3, <2>6, <2>7, <3>1, VerifyConstants
            DEF Fixing, BugShown, Idle, Doing, Box, Fix
  <2>9. panel'[x] = "idle" => Idle(x)'
    BY <2>1, <2>6, VerifyConstants DEF Stage, Idle, Doing
  <2>10. Stage'
    BY <1>0, <2>1, <2>2, <2>8, <2>9 DEF Stage
  <2> QED BY <1>0, <2>3, <2>6, <2>10, QuotaSame
<1> QED BY <1>1, <1>2

(* The fix passed the same test; or it did not, and the model is asked     *)
(* again while cycles are left.                                            *)
LEMMA FixedKeeps ==
  ASSUME VerifyInv, Fixed
  PROVE  VerifyInv'
<1> USE DEF VerifyInv
<1>0. /\ session.step = "fixing" /\ Doing(v, "done") /\ exec[v].answer # "threw"
      /\ Fixing /\ session.outcome = "none" /\ panel[v] # "idle"
      /\ UNCHANGED <<grants, daily, memory, errors, admitted>>
      /\ UNCHANGED sandboxVars
      /\ UNCHANGED <<tested, losses, agentCalls>>
  BY DEF Fixed, Stage
<1>1. SandboxInv' /\ \A r : exec'[r] = exec[r]
  BY <1>0, SandboxSame
<1>2. CASE Passed(v)
  <2>1. Ends("fixed") /\ UNCHANGED <<call, tail>>
    BY <1>2 DEF Fixed
  <2>2. UNCHANGED quotaVars
    BY <1>0, <2>1 DEF quotaVars
  <2>3. /\ VerifyTypes'
        /\ session'.step = "over" /\ session'.outcome = "fixed"
        /\ session'.cycle = session.cycle /\ session'.test = session.test
        /\ panel'[v] # "idle" /\ panel'[x] = panel[x]
        /\ \A l : Unused(l)' => Unused(l)
    BY <1>0, <2>1, EndsSession DEF Outcome
  <2>4. Boxes' /\ Fresh'
    BY <1>0, <1>1, <2>3, FreshKept DEF Box, sandboxVars
  <2>5. Ended'
    <3>1. exec'[v].step = "done" /\ call'[v].step = "ok"
      BY <1>0, <1>1, <2>1 DEF Fixing, At, Doing
    <3>2. status[Fix(session.cycle)] = "pass"
      BY <1>0, <1>2, AnswerIsStatus DEF Fixing
    <3>3. FixedIsProven'
      BY <1>0, <2>3, <3>2 DEF FixedIsProven, Fixing, BugShown, sandboxVars, Fix
    <3> QED BY <1>0, <2>3, <3>1, <3>3 DEF Ended, Fixing
  <2>6. Stage'
    BY <1>1, <2>3, <2>5 DEF Stage, Idle, Doing
  <2> QED BY <1>1, <2>2, <2>3, <2>4, <2>6, QuotaSame
<1>3. CASE ~Passed(v) /\ session.cycle = MaxCycles
  <2>1. Ends("bug_proven_not_fixed") /\ UNCHANGED <<call, tail>>
    BY <1>3 DEF Fixed
  <2>2. UNCHANGED quotaVars
    BY <1>0, <2>1 DEF quotaVars
  <2> QED BY <1>0, <2>1, <2>2, EndKeeps DEF Outcome, Fixing, At, Doing
<1>4. CASE ~Passed(v) /\ session.cycle # MaxCycles
  <2>1. /\ session' = [session EXCEPT !.step = "asking", !.cycle = @ + 1]
        /\ Generate(v) /\ UNCHANGED panel
    BY <1>4 DEF Fixed
  <2>2. /\ session.cycle \in Nat /\ session.cycle >= 1
        /\ session.cycle + 1 \in Cycle /\ session.cycle + 1 \in 0..MaxCycles
    BY <1>0, <1>4, VerifyConstants DEF Fixing, Cycle
  <2>3. /\ session' \in [step : {"idle", "asking", "proving", "fixing", "over"},
                  cycle : 0..MaxCycles, test : 0..MaxCycles, outcome : Outcome]
        /\ session'.step = "asking" /\ session'.cycle = session.cycle + 1
        /\ session'.test = session.test /\ session'.outcome = "none"
    BY <1>0, <2>1, <2>2 DEF VerifyTypes
  <2>4. QuotaInv'
    <3>1. ~At(v, "queued")
      BY <1>0 DEF Fixing, At
    <3> QED BY <1>0, <2>1, <3>1, GenerateKeeps, VerifyConstants
  <2>5. VerifyTypes'
    BY <1>0, <2>1, <2>3 DEF VerifyTypes
  <2>6. Boxes' /\ Fresh'
    <3>1. \A l \in Labels : Unused(l)' => Unused(l)
      BY <1>0, <2>1, <2>2, <2>3, VerifyConstants DEF Unused
    <3> QED BY <1>0, <1>1, <3>1, FreshKept DEF Box, sandboxVars
  <2>7. Asking'
    <3>1. ~At(v, "idle")'
      BY <2>1, VerifyConstants DEF Generate, At, QuotaInv, QuotaTypes
    <3>2. BugShown'
      BY <1>0, <2>3 DEF Fixing, BugShown, sandboxVars
    <3>3. Doing(v, "done")' /\ session'.cycle # 1
      BY <1>0, <1>1, <2>2, <2>3 DEF Doing
    <3> QED BY <2>2, <2>3, <3>1, <3>2, <3>3 DEF Asking
  <2>8. Stage'
    BY <1>0, <1>1, <2>1, <2>3, <2>7 DEF Stage, Idle, Doing
  <2> QED BY <1>1, <2>4, <2>5, <2>6, <2>8
<1> QED BY <1>2, <1>3, <1>4

LEMMA StreamLostKeeps ==
  ASSUME VerifyInv, StreamLost
  PROVE  VerifyInv'
<1> USE DEF VerifyInv
<1>0. /\ panel[v] = "busy" /\ panel' = [panel EXCEPT ![v] = "error"]
      /\ losses < MaxLosses /\ losses' = losses + 1
      /\ UNCHANGED quotaVars /\ UNCHANGED sandboxVars
      /\ UNCHANGED <<session, tested, agentCalls>>
  BY DEF StreamLost, Loss
<1>1. QuotaInv' /\ SandboxInv' /\ \A r : exec'[r] = exec[r]
  BY <1>0, QuotaSame, SandboxSame
<1>2. /\ panel' \in [{v, x} -> {"idle", "busy", "result", "error"}]
      /\ panel'[v] = "error" /\ panel'[x] = panel[x]
  BY <1>0, VerifyConstants DEF VerifyTypes
<1>3. VerifyTypes'
  BY <1>0, <1>2, VerifyConstants DEF VerifyTypes
<1>4. Boxes' /\ Fresh'
  <2>1. \A l : Unused(l)' => Unused(l)
    BY <1>0, <1>2 DEF Unused
  <2> QED BY <1>0, <1>1, <2>1, FreshKept DEF Box, sandboxVars
<1>5. Stage'
  BY <1>0, <1>1, <1>2 DEF Stage, AtRest, Asking, Proving, Fixing, Ended, BugShown,
     FixedIsProven, At, Idle, Doing, Box, quotaVars, sandboxVars
<1> QED BY <1>1, <1>3, <1>4, <1>5

(* What a session knows stays true while its call, its execution and the   *)
(* programs it has run stay what they are.                                 *)
LEMMA SessionKept ==
  ASSUME Boxes, Stage, UNCHANGED <<session, tested>>,
         call'[v] = call[v] \/ (session.step = "asking" /\ ~At(v, "idle")'),
         Box(v)' = Box(v), Idle(v)' = Idle(v),
         exec[v].step \in {"idle", "done"} => exec'[v] = exec[v],
         \A l \in Labels :
           \/ status'[l] = status[l] \/ status[l] \notin Over
           \/ \E r \in Runners : Box(r) = l /\ exec[r].step \in {"starting", "waiting"}
  PROVE  /\ session.step = "idle" => AtRest'
         /\ session.step = "asking" => Asking'
         /\ session.step = "proving" => Proving'
         /\ session.step = "fixing" => Fixing'
         /\ session.step = "over" => Ended'
<1>1. session' = session /\ tested' = tested
  OBVIOUS
<1>2. ASSUME NEW l \in Labels, l # Snippet, status[l] \in Over,
             Box(v) = l => exec[v].step \in {"idle", "done"}
      PROVE  status'[l] = status[l]
  <2>1. ~\E r \in Runners : Box(r) = l /\ exec[r].step \in {"starting", "waiting"}
    BY <1>2, LabelsDiffer DEF Boxes
  <2> QED BY <1>2, <2>1
<1>3. ASSUME BugShown, Box(v) = Original => exec[v].step \in {"idle", "done"}
      PROVE  BugShown'
  <2>1. status'[Original] = status[Original]
    BY <1>2, <1>3, LabelsDiffer DEF BugShown, Over
  <2> QED BY <1>1, <1>3, <2>1 DEF BugShown
<1>4. session.step = "idle" => AtRest'
  BY <1>1 DEF Stage, AtRest, At
<1>5. session.step = "asking" => Asking'
  <2> SUFFICES ASSUME session.step = "asking"
               PROVE  Asking'
    OBVIOUS
  <2>1. Asking
    BY DEF Stage
  <2>2. ~At(v, "idle")'
    BY <2>1 DEF Asking, At
  <2>3. session.cycle # 1 => Doing(v, "done")' /\ BugShown'
    BY <1>3, <2>1 DEF Asking, Doing
  <2> QED BY <1>1, <2>1, <2>2, <2>3 DEF Asking
<1>6. session.step = "proving" => Proving'
  BY <1>1 DEF Stage, Proving, At
<1>7. session.step = "fixing" => Fixing'
  <2> SUFFICES ASSUME session.step = "fixing"
               PROVE  Fixing'
    OBVIOUS
  <2>1. Fixing
    BY DEF Stage
  <2>2. Box(v) # Original
    BY <2>1, LabelsDiffer DEF Fixing
  <2>3. BugShown'
    BY <1>3, <2>1, <2>2 DEF Fixing
  <2>4. Fix(session.cycle)' = Fix(session.cycle)
    BY <1>1 DEF Fix
  <2> QED BY <1>1, <2>1, <2>3, <2>4 DEF Fixing, At
<1>8. session.step = "over" => Ended'
  <2> SUFFICES ASSUME session.step = "over"
               PROVE  Ended'
    OBVIOUS
  <2>1. Ended
    BY DEF Stage
  <2>2. exec'[v] = exec[v] /\ call'[v] = call[v]
    BY <2>1 DEF Ended
  <2>3. session.outcome = "fixed" => session.cycle \in Cycle /\ FixedIsProven'
    <3> SUFFICES ASSUME session.outcome = "fixed"
                 PROVE  session.cycle \in Cycle /\ FixedIsProven'
      OBVIOUS
    <3> DEFINE fix == Fix(session.cycle)
    <3>1. /\ session.cycle \in Cycle /\ status[fix] = "pass"
          /\ tested[fix] = tested[Original] /\ tested[fix] = session.test
          /\ status[Original] \in {"fail", "late"}
      BY <2>1 DEF Ended, FixedIsProven
    <3>2. fix \in Labels /\ fix # Snippet /\ Original \in Labels /\ Original # Snippet
      BY <3>1, LabelsDiffer
    <3>3. status'[fix] = status[fix] /\ status'[Original] = status[Original]
      BY <1>2, <2>1, <3>1, <3>2 DEF Over, Ended
    <3>4. fix' = fix /\ Original' = Original
      BY <1>1 DEF Fix
    <3> QED BY <1>1, <3>1, <3>3, <3>4 DEF FixedIsProven, Fix
  <2> QED BY <1>1, <2>1, <2>2, <2>3 DEF Ended
<1> QED BY <1>4, <1>5, <1>6, <1>7, <1>8

LEMMA RunSnippetKeeps ==
  ASSUME VerifyInv, RunSnippet
  PROVE  VerifyInv'
<1> USE DEF VerifyInv
<1>0. /\ panel[x] = "idle" /\ panel' = [panel EXCEPT ![x] = "busy"]
      /\ Execute(x, Snippet) /\ UNCHANGED quotaVars
      /\ UNCHANGED <<alive, status, reaper, doomed, stuck, faults>>
      /\ UNCHANGED <<session, tested, losses, agentCalls>>
  BY DEF RunSnippet
<1>1. /\ panel' \in [{v, x} -> {"idle", "busy", "result", "error"}]
      /\ panel'[v] = panel[v] /\ panel'[x] = "busy"
  BY <1>0, VerifyConstants DEF VerifyTypes
<1>2. VerifyTypes'
  BY <1>0, <1>1 DEF VerifyTypes
<1>3. /\ SandboxInv' /\ Boxes' /\ Fresh'
      /\ \A s \in Runners \ {x} : exec'[s] = exec[s]
  <2>1. Unused(Snippet)
    BY <1>0 DEF Unused
  <2>2. \A k \in Labels : Unused(k)' => Unused(k) /\ k # Snippet
    BY <1>0, <1>1, LabelsDiffer DEF Unused
  <2>3. exec[x].step \in {"idle", "done"}
    BY <1>0 DEF Stage, Idle, Doing
  <2> QED BY <1>0, <2>1, <2>2, <2>3, LabelsDiffer, FreshRun, VerifyConstants
<1>4. Stage'
  <2>1. exec'[v] = exec[v] /\ call'[v] = call[v]
    BY <1>0, <1>3, VerifyConstants DEF quotaVars
  <2>2. /\ session.step = "idle" => AtRest'
        /\ session.step = "asking" => Asking'
        /\ session.step = "proving" => Proving'
        /\ session.step = "fixing" => Fixing'
        /\ session.step = "over" => Ended'
    <3>1. Box(v)' = Box(v) /\ Idle(v)' = Idle(v)
      BY <2>1 DEF Box, Idle, Doing
    <3> QED BY <1>0, <2>1, <3>1, SessionKept
  <2> QED BY <1>0, <1>1, <2>2 DEF Stage
<1> QED BY <1>0, <1>2, <1>3, <1>4, QuotaSame

LEMMA SnippetAnsweredKeeps ==
  ASSUME VerifyInv, SnippetAnswered
  PROVE  VerifyInv'
<1> USE DEF VerifyInv
<1>0. /\ panel[x] = "busy"
      /\ panel' = [panel EXCEPT ![x] =
                     IF exec[x].answer = "threw" THEN "error" ELSE "result"]
      /\ UNCHANGED quotaVars /\ UNCHANGED sandboxVars
      /\ UNCHANGED <<session, tested, losses, agentCalls>>
  BY DEF SnippetAnswered
<1>1. QuotaInv' /\ SandboxInv' /\ \A r : exec'[r] = exec[r]
  BY <1>0, QuotaSame, SandboxSame
<1>2. /\ panel' \in [{v, x} -> {"idle", "busy", "result", "error"}]
      /\ panel'[v] = panel[v] /\ panel'[x] # "idle"
  BY <1>0, VerifyConstants DEF VerifyTypes
<1>3. VerifyTypes'
  BY <1>0, <1>2 DEF VerifyTypes
<1>4. Boxes' /\ Fresh'
  <2>1. \A l : Unused(l)' => Unused(l)
    BY <1>0, <1>2 DEF Unused
  <2> QED BY <1>0, <1>1, <2>1, FreshKept DEF Box, sandboxVars
<1>5. Stage'
  BY <1>0, <1>1, <1>2 DEF Stage, AtRest, Asking, Proving, Fixing, Ended, BugShown,
     FixedIsProven, At, Idle, Doing, Box, quotaVars, sandboxVars
<1> QED BY <1>1, <1>3, <1>4, <1>5

(* A step of a call that is not the verification's, or is the one it is    *)
(* asking with.                                                            *)
LEMMA CallsMove ==
  ASSUME VerifyInv, QuotaInv', UNCHANGED sandboxVars,
         UNCHANGED <<session, tested, panel, losses>>, agentCalls' \in 0..MaxMishaps,
         call'[v] = call[v] \/ (session.step = "asking" /\ ~At(v, "idle")')
  PROVE  VerifyInv'
<1> USE DEF VerifyInv
<1>1. SandboxInv' /\ \A r : exec'[r] = exec[r]
  BY SandboxSame
<1>2. VerifyTypes'
  BY DEF VerifyTypes
<1>3. Boxes' /\ Fresh'
  <2>1. \A l : Unused(l)' => Unused(l)
    BY DEF Unused
  <2> QED BY <1>1, <2>1, FreshKept DEF Box, sandboxVars
<1>4. Stage'
  <2>1. /\ session.step = "idle" => AtRest'
        /\ session.step = "asking" => Asking'
        /\ session.step = "proving" => Proving'
        /\ session.step = "fixing" => Fixing'
        /\ session.step = "over" => Ended'
    <3>1. status' = status /\ Box(v)' = Box(v) /\ Idle(v)' = Idle(v)
      BY <1>1 DEF Box, Idle, Doing, sandboxVars
    <3> QED BY <1>1, <3>1, SessionKept
  <2> QED BY <1>1, <2>1 DEF Stage, Idle, Doing
<1> QED BY <1>1, <1>2, <1>3, <1>4

LEMMA AgentCallsKeeps ==
  ASSUME VerifyInv, AgentCalls, losses' + faults' + agentCalls' <= MaxMishaps
  PROVE  VerifyInv'
<1>0. /\ At(a, "idle") /\ agentCalls' = agentCalls + 1 /\ Generate(a)
      /\ UNCHANGED <<grants, daily, memory, errors, admitted>>
      /\ UNCHANGED sandboxVars
      /\ UNCHANGED <<session, tested, panel, losses>>
  BY DEF AgentCalls
<1>1. ~At(a, "queued")
  BY <1>0 DEF At
<1>2. QuotaInv'
  BY <1>0, <1>1, GenerateKeeps, VerifyConstants DEF VerifyInv
<1>3. call'[v] = call[v]
  BY <1>0, VerifyConstants DEF Generate, VerifyInv, QuotaInv, QuotaTypes
<1>4. agentCalls' \in 0..MaxMishaps
  BY <1>0, VerifyConstants, SandboxAssumption
     DEF VerifyInv, VerifyTypes, SandboxInv, SandboxTypeOK, sandboxVars
<1> QED BY <1>0, <1>2, <1>3, <1>4, CallsMove

LEMMA QuotaMovesKeeps ==
  ASSUME VerifyInv, QuotaMoves
  PROVE  VerifyInv'
<1>1. PICK c \in Callers : QuotaStep(c)
  BY DEF QuotaMoves
<1>2. UNCHANGED sandboxVars /\ UNCHANGED <<session, tested, panel, losses, agentCalls>>
  BY DEF QuotaMoves
<1>3. QuotaInv'
  BY <1>1, QuotaStepKeeps DEF VerifyInv
<1>4. /\ call[c].step \notin {"idle", "ok", "refused", "error"}
      /\ ~At(c, "idle")'
      /\ \A d \in Callers \ {c} : call'[d] = call[d]
  BY <1>1, QuotaStepMoves DEF VerifyInv, QuotaInv
<1>5. call'[v] = call[v] \/ (session.step = "asking" /\ ~At(v, "idle")')
  <2>1. CASE c = v
    BY <1>4, <2>1 DEF VerifyInv, VerifyTypes, Stage, AtRest, Proving, Fixing, Ended, At
  <2>2. CASE c # v
    BY <1>4, <2>2, VerifyConstants
  <2> QED BY <2>1, <2>2
<1> QED BY <1>2, <1>3, <1>5, CallsMove DEF VerifyInv, VerifyTypes

LEMMA SandboxMovesKeeps ==
  ASSUME VerifyInv, SandboxMoves
  PROVE  VerifyInv'
<1> USE DEF VerifyInv
<1>1. SandboxInv' /\ SandboxFrame
  BY SandboxStepKeeps, ProgramEndsKeeps, ReaperListsKeeps, ReaperRemovesKeeps,
     ReaperEndsKeeps DEF SandboxMoves, Reaps
<1>2. UNCHANGED quotaVars /\ UNCHANGED <<session, tested, panel, losses, agentCalls>>
  BY DEF SandboxMoves
<1>3. VerifyTypes'
  BY <1>2 DEF VerifyTypes
<1>4. Boxes' /\ Fresh'
  <2>1. \A l : Unused(l)' => Unused(l)
    BY <1>2 DEF Unused
  <2> QED BY <1>1, <2>1, FreshKept DEF SandboxFrame
<1>5. Stage'
  <2>1. /\ session.step = "idle" => AtRest'
        /\ session.step = "asking" => Asking'
        /\ session.step = "proving" => Proving'
        /\ session.step = "fixing" => Fixing'
        /\ session.step = "over" => Ended'
    <3>1. call'[v] = call[v]
      BY <1>2 DEF quotaVars
    <3> QED BY <1>1, <1>2, <3>1, SessionKept, VerifyConstants DEF SandboxFrame
  <2>2. Idle(x)' = Idle(x)
    BY <1>1, VerifyConstants DEF SandboxFrame
  <2> QED BY <1>2, <2>1, <2>2 DEF Stage
<1> QED BY <1>1, <1>2, <1>3, <1>4, <1>5, QuotaSame

(* The process is killed: the session is over, and what Docker and the     *)
(* history hold stays.                                                     *)
LEMMA CrashKeeps ==
  ASSUME VerifyInv, Crash
  PROVE  VerifyInv'
<1> USE DEF VerifyInv
<1>0. /\ QuotaCrash /\ SandboxCrash
      /\ losses < MaxLosses /\ losses' = losses + 1
      /\ session' = [session EXCEPT
           !.step = IF @ = "idle" THEN @ ELSE "over",
           !.outcome = IF session.step \in {"idle", "over"} THEN @ ELSE "error"]
      /\ panel' = [p \in {v, x} |-> IF panel[p] = "busy" THEN "error" ELSE panel[p]]
      /\ UNCHANGED <<tested, agentCalls>>
  BY DEF Crash, Loss
<1>1. QuotaInv' /\ SandboxInv'
  BY <1>0, QuotaCrashKeeps, SandboxCrashKeeps
<1>2. /\ session' \in [step : {"idle", "asking", "proving", "fixing", "over"},
                  cycle : 0..MaxCycles, test : 0..MaxCycles, outcome : Outcome]
      /\ session.step = "idle" => session'.step = "idle"
      /\ session.step # "idle" => session'.step = "over"
      /\ session.step \in {"idle", "over"} => session'.outcome = session.outcome
      /\ session.step \notin {"idle", "over"} => session'.outcome = "error"
      /\ session'.cycle = session.cycle /\ session'.test = session.test
  BY <1>0 DEF VerifyTypes, Outcome
<1>3. /\ panel' \in [{v, x} -> {"idle", "busy", "result", "error"}]
      /\ panel'[v] = "idle" <=> panel[v] = "idle"
      /\ panel'[x] = "idle" <=> panel[x] = "idle"
  BY <1>0, VerifyConstants DEF VerifyTypes
<1>4. VerifyTypes'
  BY <1>0, <1>2, <1>3, VerifyConstants DEF VerifyTypes
<1>5. /\ \A r \in Runners : exec'[r] = NoExec
      /\ exec'[v].step = "idle" /\ Idle(v)' /\ Idle(x)' /\ At(v, "idle")'
      /\ alive' = alive /\ status' = status
  BY <1>0, VerifyConstants
     DEF SandboxCrash, QuotaCrash, NoExec, NoCall, Idle, Doing, At
<1>6. Boxes'
  BY <1>5, VerifyConstants DEF Boxes, Box, NoExec
<1>7. Fresh'
  <2>1. \A l : Unused(l)' => Unused(l)
    BY <1>2, <1>3 DEF Unused
  <2>2. \A r \in Runners : \A l \in Labels : exec'[r].label # l
    BY <1>5, LabelsDiffer DEF NoExec
  <2> QED BY <1>5, <2>1, <2>2 DEF Fresh, Box
<1>8. Stage'
  <2>1. session'.step = "idle" => AtRest'
    BY <1>2, <1>5 DEF AtRest, Stage
  <2>2. session'.step = "over" => Ended'
    <3> SUFFICES ASSUME session'.step = "over"
                 PROVE  Ended'
      OBVIOUS
    <3>1. exec'[v].step = "idle" /\ call'[v].step = "idle"
      BY <1>5 DEF At
    <3>2. session'.outcome = "fixed" =>
            session'.cycle \in Cycle /\ FixedIsProven'
      <4> SUFFICES ASSUME session'.outcome = "fixed"
                   PROVE  session'.cycle \in Cycle /\ FixedIsProven'
        OBVIOUS
      <4>1. session.step = "over" /\ session.outcome = "fixed"
        BY <1>2
      <4>2. session.cycle \in Cycle /\ FixedIsProven
        BY <4>1 DEF Stage, Ended
      <4> QED BY <1>0, <1>2, <1>5, <4>1, <4>2 DEF FixedIsProven, Fix
    <3> QED BY <3>1, <3>2 DEF Ended
  <2>3. session'.step \in {"idle", "over"}
    BY <1>2
  <2>4. session'.step # "over" => session'.outcome = "none"
    BY <1>2 DEF Stage
  <2>5. panel'[v] = "idle" <=> session'.step = "idle"
    BY <1>2, <1>3 DEF Stage
  <2> QED BY <1>5, <2>1, <2>2, <2>3, <2>4, <2>5 DEF Stage
<1> QED BY <1>1, <1>4, <1>6, <1>7, <1>8

-----------------------------------------------------------------------------
LEMMA VerifyStarts ==
  ASSUME Init
  PROVE  VerifyInv
<1>1. QuotaInv
  BY QuotaStarts DEF Init
<1>2. SandboxInv
  BY SandboxStarts, LabelsDiffer DEF Init
<1>3. VerifyTypes
  BY VerifyConstants DEF Init, VerifyTypes, Outcome
<1>4. \A r \in Runners : exec[r] = NoExec
  BY DEF Init, SandboxInit
<1>5. Boxes
  BY <1>4, VerifyConstants DEF Boxes, Box, NoExec
<1>6. Fresh
  <2>1. \A l \in alive : l = old
    BY DEF Init, SandboxInit
  <2>2. ~Unused(old)
    BY LabelsDiffer DEF Unused
  <2> QED BY <1>4, <2>1, <2>2, LabelsDiffer DEF Fresh, Box, NoExec
<1>7. Stage
  BY <1>4, VerifyConstants DEF Init, QuotaInit, Stage, AtRest, At, Idle, Doing, NoExec, NoCall
<1> QED BY <1>1, <1>2, <1>3, <1>5, <1>6, <1>7 DEF VerifyInv

LEMMA VerifyStepKeeps ==
  ASSUME VerifyInv, [Next]_vars
  PROVE  VerifyInv'
<1>1. CASE UNCHANGED vars
  <2>1. QuotaInv'
    BY <1>1, QuotaSame DEF vars, VerifyInv
  <2> QED BY <1>1, <2>1, CallsMove DEF vars, quotaVars, VerifyInv, VerifyTypes
<1>2. CASE Next
  BY <1>2, PressKeeps, AnsweredKeeps, AskFailsKeeps, ProvenKeeps, FixedKeeps,
     RunThrowsKeeps, StreamLostKeeps, RunSnippetKeeps, SnippetAnsweredKeeps,
     AgentCallsKeeps, QuotaMovesKeeps, SandboxMovesKeeps, CrashKeeps
     DEF Next, VerifyStep
<1> QED BY <1>1, <1>2

LEMMA VerifyInvariant == Spec => []VerifyInv
BY VerifyStarts, VerifyStepKeeps, PTL DEF Spec

(* Every variable of a verification, of the quota and of the sandbox keeps *)
(* its type; in particular the chain of the quota never holds a caller     *)
(* twice, so it is no longer than there are callers, and the day's counter *)
(* is never negative.                                                      *)
THEOREM TypesHold == Spec => []TypeOK
<1>1. VerifyInv => TypeOK
  <2> SUFFICES ASSUME VerifyInv
               PROVE  TypeOK
    OBVIOUS
  <2>1. QuotaTypeOK
    BY ChainFits DEF VerifyInv, QuotaInv, QuotaTypes, QuotaTypeOK
  <2> QED BY <2>1 DEF VerifyInv, SandboxInv, VerifyTypes, TypeOK
<1> QED BY <1>1, VerifyInvariant, PTL

(* verify-fix.service.js: a fix is reported as verified only if its        *)
(* container exited 0 with the test that the original had not passed.      *)
THEOREM FixesAreProven == Spec => []FixedIsProven
<1>1. VerifyInv => FixedIsProven
  <2> SUFFICES ASSUME VerifyInv, session.outcome = "fixed"
               PROVE  FixedIsProven
    BY DEF FixedIsProven
  <2>1. session.step = "over"
    BY DEF VerifyInv, Stage
  <2> QED BY <2>1 DEF VerifyInv, Stage, Ended
<1> QED BY <1>1, VerifyInvariant, PTL

(* limiter.js, executor.js and reaper.js: Redis lets Cap calls through in  *)
(* a day and refuses none without a cause, and after the reaper every      *)
(* container is in the hands of an execution or could not be removed.      *)
THEOREM ResourcesAreAccountedFor == Spec => []ResourcesAccountedFor
<1>1. VerifyInv => ResourcesAccountedFor
  <2> SUFFICES ASSUME VerifyInv
               PROVE  ResourcesAccountedFor
    OBVIOUS
  <2>1. WithinDailyCap
    BY DEF VerifyInv, QuotaInv, Counted, ForCause, WithinDailyCap
  <2>2. ContainersAreOwned
    BY DEF VerifyInv, SandboxInv, Reaped, Owned, ContainersAreOwned
  <2> QED BY <2>1, <2>2 DEF ResourcesAccountedFor
<1> QED BY <1>1, VerifyInvariant, PTL
=============================================================================
