---------------------------- MODULE EditorProofs ----------------------------
(***************************************************************************)
(* Theorems about the page on which a document is edited (Editor.jsx): the *)
(* document it shares, in Collab, for any number of browsers, updates,     *)
(* lost connections and changes of the visibility; and its review panel,   *)
(* in Review, for any number of reviews, models, fragments and failures.   *)
(* The two share no variable.                                              *)
(***************************************************************************)
EXTENDS Collab, Review, SequenceTheorems, TLAPS

(* -------------------- Collab: packets and queues ------------------------ *)

\* The updates that a queue of packets carries.
Carried(s) == UNION {p.data : p \in Range(s)}

LEMMA MsgType ==
    ASSUME NEW S \in SUBSET Updates,
           NEW e \in {"join", "leave", "vector", "update", "full", "public", "private",
                      "kicked"}
    PROVE  /\ Msg(e, S) \in Packet /\ Msg(e, S).event = e /\ Msg(e, S).data = S
BY DEF Msg, Packet

\* One packet, or two.
LEMMA OnePacket ==
    ASSUME NEW p \in Packet
    PROVE  <<p>> \in Seq(Packet) /\ Range(<<p>>) = {p}
BY DEF Range

LEMMA TwoPackets ==
    ASSUME NEW p \in Packet, NEW q \in Packet
    PROVE  <<p, q>> \in Seq(Packet) /\ Range(<<p, q>>) = {p, q}
BY DEF Range

\* Taking the first packet off a queue.
LEMMA FirstPacket ==
    ASSUME NEW s \in Seq(Packet), s # <<>>
    PROVE  /\ Head(s) \in Packet /\ Tail(s) \in Seq(Packet)
           /\ Range(s) = {Head(s)} \cup Range(Tail(s))
           /\ Carried(s) = Head(s).data \cup Carried(Tail(s))
<1>1. /\ Head(s) \in Packet /\ Tail(s) \in Seq(Packet) /\ Head(s) = s[1]
      /\ Len(s) \in Nat \ {0} /\ Len(Tail(s)) = Len(s) - 1
      /\ \A i \in 1 .. Len(Tail(s)) : Tail(s)[i] = s[i + 1]
  BY HeadTailProperties, EmptySeq
<1>2. Range(s) = {s[i] : i \in 1 .. Len(s)}
      /\ Range(Tail(s)) = {Tail(s)[i] : i \in 1 .. Len(Tail(s))}
  BY <1>1, RangeEquality
<1>3. ASSUME NEW p \in Range(s) PROVE p \in {Head(s)} \cup Range(Tail(s))
  <2>1. PICK i \in 1 .. Len(s) : p = s[i]
    BY <1>2
  <2>2. CASE i = 1
    BY <1>1, <2>1, <2>2
  <2>3. CASE i # 1
    <3>1. i - 1 \in 1 .. Len(Tail(s)) /\ Tail(s)[i - 1] = s[i]
      BY <1>1, <2>1, <2>3
    <3>2. QED  BY <1>2, <2>1, <3>1
  <2>4. QED  BY <2>2, <2>3
<1>4. {Head(s)} \cup Range(Tail(s)) \subseteq Range(s)
  BY <1>1, <1>2
<1>5. QED  BY <1>1, <1>3, <1>4 DEF Carried

\* Putting packets behind a queue.
LEMMA MorePackets ==
    ASSUME NEW s \in Seq(Packet), NEW t \in Seq(Packet)
    PROVE  /\ s \o t \in Seq(Packet) /\ Range(s \o t) = Range(s) \cup Range(t)
           /\ Carried(s \o t) = Carried(s) \cup Carried(t)
BY ConcatProperties, RangeConcatenation DEF Carried

(* ---------------- Collab: what the server will be asked ----------------- *)

\* A queue asks for what a replica of these updates lacks.
Seeks(s, held) ==
    \E i \in 1 .. Len(s) : s[i].event = "vector" /\ s[i].data \subseteq held

\* Behind every update that the replica does not hold, the queue asks so.
Caught(s, held) ==
    \A i \in 1 .. Len(s) :
        s[i].event = "update" =>
            \/ s[i].data \subseteq held
            \/ \E j \in i + 1 .. Len(s) : s[j].event = "vector" /\ s[j].data \subseteq held

\* A replica that grows, and a queue that grows by nothing the replica lacks.
LEMMA QueueGrows ==
    ASSUME NEW s \in Seq(Packet), NEW t \in Seq(Packet), NEW held, NEW more, held \subseteq more,
           \A i \in 1 .. Len(t) : t[i].event = "update" => t[i].data \subseteq more
    PROVE  /\ Seeks(s, held) => Seeks(s \o t, more)
           /\ Caught(s, held) => Caught(s \o t, more)
<1>1. /\ s \o t \in Seq(Packet) /\ Len(s \o t) = Len(s) + Len(t)
      /\ Len(s) \in Nat /\ Len(t) \in Nat
      /\ \A i \in 1 .. Len(s) : (s \o t)[i] = s[i]
      /\ \A i \in Len(s) + 1 .. Len(s) + Len(t) : (s \o t)[i] = t[i - Len(s)]
  BY ConcatProperties, LenProperties
<1>2. ASSUME Seeks(s, held) PROVE Seeks(s \o t, more)
  <2>1. PICK i \in 1 .. Len(s) : s[i].event = "vector" /\ s[i].data \subseteq held
    BY <1>2 DEF Seeks
  <2>2. i \in 1 .. Len(s \o t) /\ (s \o t)[i] = s[i]
    BY <1>1
  <2>3. QED  BY <2>1, <2>2 DEF Seeks
<1>3. ASSUME Caught(s, held), NEW i \in 1 .. Len(s \o t), (s \o t)[i].event = "update",
             ~((s \o t)[i].data \subseteq more)
      PROVE  \E j \in i + 1 .. Len(s \o t) :
                (s \o t)[j].event = "vector" /\ (s \o t)[j].data \subseteq more
  <2>1. CASE i \in 1 .. Len(s)
    <3>1. (s \o t)[i] = s[i]
      BY <1>1, <2>1
    <3>2. PICK j \in i + 1 .. Len(s) : s[j].event = "vector" /\ s[j].data \subseteq held
      BY <1>3, <2>1, <3>1 DEF Caught
    <3>3. j \in i + 1 .. Len(s \o t) /\ j \in 1 .. Len(s)
      BY <1>1, <2>1
    <3>4. (s \o t)[j] = s[j]
      BY <1>1, <3>3
    <3>5. QED  BY <3>2, <3>3, <3>4
  <2>2. CASE i \notin 1 .. Len(s)
    <3>1. i \in Len(s) + 1 .. Len(s) + Len(t) /\ i - Len(s) \in 1 .. Len(t)
      BY <1>1, <2>2
    <3>2. (s \o t)[i] = t[i - Len(s)]
      BY <1>1, <3>1
    <3>3. QED  BY <1>3, <3>1, <3>2
  <2>3. QED  BY <2>1, <2>2
<1>4. QED  BY <1>2, <1>3 DEF Caught

\* A queue that ends with the question.
LEMMA QueueAsks ==
    ASSUME NEW s \in Seq(Packet), NEW v \in Packet, NEW held,
           v.event = "vector", v.data \subseteq held
    PROVE  Seeks(s \o <<v>>, held) /\ Caught(s \o <<v>>, held)
<1>1. /\ Len(s \o <<v>>) = Len(s) + 1 /\ Len(s) \in Nat /\ (s \o <<v>>)[Len(s) + 1] = v
  <2>1. <<v>> \in Seq(Packet) /\ Len(<<v>>) = 1 /\ <<v>>[1] = v
    OBVIOUS
  <2>2. Len(s) \in Nat
    BY LenProperties
  <2> DEFINE t == <<v>>
  <2> HIDE DEF t
  <2>3. t \in Seq(Packet) /\ Len(t) = 1 /\ t[1] = v
    BY <2>1 DEF t
  <2>4. Len(s \o t) = Len(s) + Len(t)
        /\ \A i \in Len(s) + 1 .. Len(s) + Len(t) : (s \o t)[i] = t[i - Len(s)]
    BY <2>3, ConcatProperties
  <2>5. Len(s) + 1 \in Len(s) + 1 .. Len(s) + Len(t) /\ (Len(s) + 1) - Len(s) = 1
    BY <2>2, <2>3
  <2>6. (s \o t)[Len(s) + 1] = v
    BY <2>3, <2>4, <2>5
  <2>7. QED  BY <2>2, <2>3, <2>4, <2>6 DEF t
<1>2. Len(s) + 1 \in 1 .. Len(s \o <<v>>)
  BY <1>1
<1>3. Seeks(s \o <<v>>, held)
  BY <1>1, <1>2 DEF Seeks
<1>4. ASSUME NEW i \in 1 .. Len(s \o <<v>>), (s \o <<v>>)[i].event = "update"
      PROVE  \E j \in i + 1 .. Len(s \o <<v>>) :
                (s \o <<v>>)[j].event = "vector" /\ (s \o <<v>>)[j].data \subseteq held
  <2>1. i # Len(s) + 1
    BY <1>1, <1>4
  <2>2. Len(s) + 1 \in i + 1 .. Len(s \o <<v>>)
    BY <1>1, <2>1
  <2>3. QED  BY <1>1, <2>2
<1>5. QED  BY <1>3, <1>4 DEF Caught

\* The first packet of a queue is handled.
LEMMA QueueShrinks ==
    ASSUME NEW s \in Seq(Packet), s # <<>>, NEW held
    PROVE  /\ Seeks(s, held) => \/ Seeks(Tail(s), held)
                                \/ Head(s).event = "vector" /\ Head(s).data \subseteq held
           /\ Caught(s, held) =>
                 /\ Caught(Tail(s), held)
                 /\ Head(s).event = "update" =>
                       Head(s).data \subseteq held \/ Seeks(Tail(s), held)
<1>1. /\ Head(s) = s[1] /\ Len(s) \in Nat \ {0} /\ Len(Tail(s)) = Len(s) - 1
      /\ \A i \in 1 .. Len(Tail(s)) : Tail(s)[i] = s[i + 1]
  BY HeadTailProperties, EmptySeq
<1>2. \A i \in 2 .. Len(s) : i - 1 \in 1 .. Len(Tail(s)) /\ Tail(s)[i - 1] = s[i]
  <2> SUFFICES ASSUME NEW i \in 2 .. Len(s)
               PROVE  i - 1 \in 1 .. Len(Tail(s)) /\ Tail(s)[i - 1] = s[i]
    OBVIOUS
  <2>1. i - 1 \in 1 .. Len(Tail(s)) /\ (i - 1) + 1 = i
    BY <1>1
  <2>2. QED  BY <1>1, <2>1
<1>3. ASSUME Seeks(s, held)
      PROVE  \/ Seeks(Tail(s), held)
             \/ Head(s).event = "vector" /\ Head(s).data \subseteq held
  <2>1. PICK i \in 1 .. Len(s) : s[i].event = "vector" /\ s[i].data \subseteq held
    BY <1>3 DEF Seeks
  <2>2. CASE i = 1
    BY <1>1, <2>1, <2>2
  <2>3. CASE i # 1
    <3>1. i \in 2 .. Len(s)
      BY <1>1, <2>3
    <3>2. QED  BY <1>2, <2>1, <3>1 DEF Seeks
  <2>4. QED  BY <2>2, <2>3
<1>4. ASSUME Caught(s, held), Head(s).event = "update", ~(Head(s).data \subseteq held)
      PROVE  Seeks(Tail(s), held)
  <2>1. 1 \in 1 .. Len(s)
    BY <1>1
  <2>2. PICK j \in 1 + 1 .. Len(s) : s[j].event = "vector" /\ s[j].data \subseteq held
    BY <1>1, <1>4, <2>1 DEF Caught
  <2>3. j \in 2 .. Len(s)
    OBVIOUS
  <2>4. QED  BY <1>2, <2>2, <2>3 DEF Seeks
<1>5. ASSUME Caught(s, held), NEW i \in 1 .. Len(Tail(s)), Tail(s)[i].event = "update",
             ~(Tail(s)[i].data \subseteq held)
      PROVE  \E j \in i + 1 .. Len(Tail(s)) :
                Tail(s)[j].event = "vector" /\ Tail(s)[j].data \subseteq held
  <2>1. i + 1 \in 1 .. Len(s) /\ Tail(s)[i] = s[i + 1]
    BY <1>1
  <2>2. PICK j \in (i + 1) + 1 .. Len(s) : s[j].event = "vector" /\ s[j].data \subseteq held
    BY <1>5, <2>1 DEF Caught
  <2>3. j \in 2 .. Len(s) /\ j - 1 \in i + 1 .. Len(Tail(s))
    BY <1>1, <2>1
  <2>4. Tail(s)[j - 1] = s[j]
    BY <1>2, <2>3
  <2>5. QED  BY <2>2, <2>3, <2>4
<1>6. Caught(s, held) => Caught(Tail(s), held)
  BY <1>5 DEF Caught
<1>7. QED  BY <1>3, <1>4, <1>6

(* ------------------------------- Invariant ------------------------------ *)

\* Only a connected socket has packets travelling or a handler running.
Wired ==
    \A c \in Clients : up[c] # <<>> \/ joining[c].pc # "idle" => c \in online

\* An editor's replica lacks what was sent before it was built, and asks for it.
Rebuilt == \A c \in Clients : page[c] = "open" => Caught(up[c], doc[c])

\* Announcements carry no updates.
PlainPackets ==
    \A c \in Clients : \A p \in Range(down[c]) :
        p.event \notin {"full", "update"} => p.data = {}

\* A secure update was typed by one client, which is a member.
SecureMembers ==
    \A u \in secure : \E c \in joined : author[u] = {c}

\* Once a document is known to be private, the members and the joins past
\* canAccess that have no access are late.
LateJoins ==
    ~isPublic /\ FALSE \notin announcing =>
        \A c \in Clients : c \in joined \/ joining[c].pc = "checked" => c \in Allowed \cup late

CollabInv ==
    /\ TypeOK /\ Wired /\ Rebuilt /\ PlainPackets /\ SecureMembers
    /\ LateJoins /\ MembersLoseNothing

\* What is coming, and what has yet to arrive, in terms of packets.
LEMMA ComingCarried ==
    ASSUME TypeOK, NEW c \in Clients
    PROVE  Coming(c) = joining[c].state \cup Carried(down[c])
<1>1. down[c] \in Seq(Packet)
  BY DEF TypeOK
<1>2. Range(down[c]) = {down[c][i] : i \in 1 .. Len(down[c])}
  BY <1>1, RangeEquality
<1>3. {down[c][i].data : i \in 1 .. Len(down[c])} = {p.data : p \in Range(down[c])}
  BY <1>2
<1>4. QED  BY <1>3 DEF Coming, Carried

LEMMA ArrivingInRange ==
    ASSUME TypeOK, NEW c \in Clients, NEW p
    PROVE  (\E i \in 1 .. Len(up[c]) : up[c][i] = p) <=> p \in Range(up[c])
<1>1. up[c] \in Seq(Packet)
  BY DEF TypeOK
<1>2. Range(up[c]) = {up[c][i] : i \in 1 .. Len(up[c])}
  BY <1>1, RangeEquality
<1>3. QED  BY <1>2

Gapless ==
    \A c \in joined : page[c] = "open" /\ joining[c].pc # "member" =>
        \/ room \subseteq doc[c] \cup joining[c].state \cup Carried(down[c])
        \/ Seeks(up[c], doc[c])

Arriving ==
    \A c \in Clients, u \in secure :
        author[u] = {c} /\ u \notin room => Msg("update", {u}) \in Range(up[c])

LEMMA LossNow == ASSUME TypeOK PROVE MembersLoseNothing <=> Gapless /\ Arriving
<1>1. \A c \in joined : c \in Clients
  BY DEF TypeOK
<1>2. NoGap <=> Gapless
  BY <1>1, ComingCarried DEF NoGap, Gapless, Asked, Seeks
<1>3. TypedOnMemberArrives <=> Arriving
  BY ArrivingInRange DEF TypedOnMemberArrives, Arriving
<1>4. QED  BY <1>2, <1>3 DEF MembersLoseNothing

LEMMA LossNext == ASSUME TypeOK' PROVE MembersLoseNothing' <=> Gapless' /\ Arriving'
<1>1. \A c \in joined' : c \in Clients
  BY DEF TypeOK
<1>2. \A c \in Clients : Coming(c)' = (joining[c].state \cup Carried(down[c]))'
  <2> SUFFICES ASSUME NEW c \in Clients PROVE Coming(c)' = (joining[c].state \cup Carried(down[c]))'
    OBVIOUS
  <2>1. (down')[c] \in Seq(Packet)
    BY DEF TypeOK
  <2>2. Range((down')[c]) = {(down')[c][i] : i \in 1 .. Len((down')[c])}
    BY <2>1, RangeEquality
  <2>3. QED  BY <2>2 DEF Coming, Carried
<1>3. \A c \in Clients : \A p : (\E i \in 1 .. Len((up')[c]) : (up')[c][i] = p) <=> p \in Range((up')[c])
  <2> SUFFICES ASSUME NEW c \in Clients, NEW p
               PROVE  (\E i \in 1 .. Len((up')[c]) : (up')[c][i] = p) <=> p \in Range((up')[c])
    OBVIOUS
  <2>1. (up')[c] \in Seq(Packet)
    BY DEF TypeOK
  <2>2. Range((up')[c]) = {(up')[c][i] : i \in 1 .. Len((up')[c])}
    BY <2>1, RangeEquality
  <2>3. QED  BY <2>2
<1>4. \A c \in Clients : Asked(c)' <=> Seeks(up[c], doc[c])'
  BY DEF Asked, Seeks
<1>5. NoGap' <=> Gapless'
  BY <1>1, <1>2, <1>4 DEF NoGap, Gapless
<1>6. TypedOnMemberArrives' <=> Arriving'
  BY <1>3 DEF TypedOnMemberArrives, Arriving
<1>7. QED  BY <1>5, <1>6 DEF MembersLoseNothing

LEMMA InvInit == Init => CollabInv
<1> SUFFICES ASSUME Init PROVE CollabInv
  OBVIOUS
<1> USE DEF Init
<1>1. TypeOK
  BY ClientsAssumption, BoundsAssumption DEF TypeOK, JoinState, Idle, Updates
<1>2. Range(<<>>) = {} /\ Len(<<>>) = 0
  BY DEF Range
<1>3. Wired /\ Rebuilt
  BY <1>2, ClientsAssumption DEF Wired, Rebuilt, Caught, Idle
<1>4. PlainPackets /\ SecureMembers
  BY <1>2 DEF PlainPackets, SecureMembers
<1>5. LateJoins
  BY DEF LateJoins, Idle
<1>6. Gapless /\ Arriving
  BY DEF Gapless, Arriving
<1>7. QED  BY <1>1, <1>3, <1>4, <1>5, <1>6, LossNow DEF CollabInv

(* ----------------------- What the operators change ---------------------- *)

\* Emitting puts the packets behind those that travel, or into the buffer.
LEMMA Emitted ==
    ASSUME TypeOK, NEW c \in Clients, NEW packets \in Seq(Packet), Emit(c, packets)
    PROVE  /\ up' \in [Clients -> Seq(Packet)] /\ buffer' \in [Clients -> Seq(Packet)]
           /\ \A d \in Clients \ {c} : up'[d] = up[d] /\ buffer'[d] = buffer[d]
           /\ Range(up[c]) \subseteq Range(up'[c])
           /\ c \in online => up'[c] = up[c] \o packets /\ Range(packets) \subseteq Range(up'[c])
           /\ c \notin online => up' = up
<1>1. /\ up[c] \in Seq(Packet) /\ buffer[c] \in Seq(Packet)
      /\ up \in [Clients -> Seq(Packet)] /\ buffer \in [Clients -> Seq(Packet)]
  BY DEF TypeOK
<1>2. /\ up[c] \o packets \in Seq(Packet) /\ buffer[c] \o packets \in Seq(Packet)
      /\ Range(up[c] \o packets) = Range(up[c]) \cup Range(packets)
  BY <1>1, MorePackets
<1>3. CASE c \in online
  BY <1>1, <1>2, <1>3 DEF Emit
<1>4. CASE c \notin online
  BY <1>1, <1>2, <1>4 DEF Emit
<1>5. QED  BY <1>3, <1>4

\* What the server will be asked, when what is emitted is held by the replica.
LEMMA EmittedAsks ==
    ASSUME TypeOK, NEW c \in Clients, NEW packets \in Seq(Packet), Emit(c, packets),
           doc[c] \subseteq doc'[c],
           \A i \in 1 .. Len(packets) :
              packets[i].event = "update" => packets[i].data \subseteq doc'[c]
    PROVE  /\ Seeks(up[c], doc[c]) => Seeks(up'[c], doc'[c])
           /\ Caught(up[c], doc[c]) => Caught(up'[c], doc'[c])
<1>1. up[c] \in Seq(Packet)
  BY DEF TypeOK
<1>2. CASE c \in online
  <2>1. up'[c] = up[c] \o packets
    BY <1>2, Emitted
  <2>2. /\ Seeks(up[c], doc[c]) => Seeks(up[c] \o packets, doc'[c])
        /\ Caught(up[c], doc[c]) => Caught(up[c] \o packets, doc'[c])
    BY <1>1, QueueGrows
  <2>3. QED  BY <2>1, <2>2
<1>3. CASE c \notin online
  <2>1. up'[c] = up[c]
    BY <1>3, Emitted
  <2>2. QED  BY <2>1 DEF Seeks, Caught
<1>4. QED  BY <1>2, <1>3

\* Sending puts the packets behind those that travel to the targets.
LEMMA SentShape ==
    ASSUME TypeOK, NEW targets, NEW packets \in Seq(Packet)
    PROVE  /\ Sent(targets, packets) \in [Clients -> Seq(Packet)]
           /\ \A d \in Clients :
                 /\ Carried(down[d]) \subseteq Carried(Sent(targets, packets)[d])
                 /\ Range(Sent(targets, packets)[d]) \subseteq Range(down[d]) \cup Range(packets)
                 /\ d \in targets \cap online =>
                       Carried(packets) \subseteq Carried(Sent(targets, packets)[d])
<1>1. ASSUME NEW d \in Clients
      PROVE  /\ down[d] \in Seq(Packet) /\ down[d] \o packets \in Seq(Packet)
             /\ Range(down[d] \o packets) = Range(down[d]) \cup Range(packets)
             /\ Carried(down[d] \o packets) = Carried(down[d]) \cup Carried(packets)
  BY MorePackets DEF TypeOK
<1>2. QED  BY <1>1 DEF Sent

\* Taking a packet that arrived.
LEMMA TakenShape ==
    ASSUME TypeOK, NEW c \in Clients, NEW events, Taken(c, events)
    PROVE  /\ down' \in [Clients -> Seq(Packet)]
           /\ \A d \in Clients \ {c} : down'[d] = down[d]
           /\ Range(down'[c]) \subseteq Range(down[c])
           /\ Head(down[c]) \in Packet /\ Head(down[c]) \in Range(down[c])
           /\ Head(down[c]).event \in events
           /\ Carried(down[c]) = Head(down[c]).data \cup Carried(down'[c])
<1>1. down[c] \in Seq(Packet) /\ down[c] # <<>> /\ down \in [Clients -> Seq(Packet)]
  BY DEF TypeOK, Taken
<1>2. QED  BY <1>1, FirstPacket DEF Taken

LEMMA HandlesShape ==
    ASSUME TypeOK, NEW c \in Clients, NEW event, Handles(c, event)
    PROVE  /\ up' \in [Clients -> Seq(Packet)] /\ up[c] # <<>>
           /\ \A d \in Clients \ {c} : up'[d] = up[d]
           /\ Range(up[c]) = {Head(up[c])} \cup Range(up'[c])
           /\ Head(up[c]) \in Packet /\ Head(up[c]).event = event
<1>1. up[c] \in Seq(Packet) /\ up[c] # <<>> /\ up \in [Clients -> Seq(Packet)]
  BY DEF TypeOK, Handles
<1>2. QED  BY <1>1, FirstPacket DEF Handles

\* What the server will still be asked, once it has handled a packet.
LEMMA HandlesAsks ==
    ASSUME TypeOK, NEW c \in Clients, NEW event, Handles(c, event), UNCHANGED doc
    PROVE  /\ \A d \in Clients : Caught(up[d], doc[d]) => Caught(up'[d], doc'[d])
           /\ \A d \in Clients : Seeks(up[d], doc[d]) =>
                 \/ Seeks(up'[d], doc'[d])
                 \/ d = c /\ event = "vector" /\ Head(up[c]).data \subseteq doc[c]
           /\ event = "update" /\ Caught(up[c], doc[c]) =>
                 Head(up[c]).data \subseteq doc[c] \/ Seeks(up'[c], doc'[c])
<1>1. /\ up[c] \in Seq(Packet) /\ up[c] # <<>> /\ up'[c] = Tail(up[c])
      /\ Head(up[c]).event = event
  BY DEF TypeOK, Handles
<1>2. \A d \in Clients \ {c} : up'[d] = up[d]
  BY HandlesShape
<1>3. /\ Caught(up[c], doc[c]) =>
            /\ Caught(up'[c], doc[c])
            /\ Head(up[c]).event = "update" => Head(up[c]).data \subseteq doc[c] \/ Seeks(up'[c], doc[c])
      /\ Seeks(up[c], doc[c]) =>
            Seeks(up'[c], doc[c]) \/ (Head(up[c]).event = "vector" /\ Head(up[c]).data \subseteq doc[c])
  BY <1>1, QueueShrinks
<1>4. ASSUME NEW d \in Clients \ {c}
      PROVE  /\ Caught(up[d], doc[d]) => Caught(up'[d], doc'[d])
             /\ Seeks(up[d], doc[d]) => Seeks(up'[d], doc'[d])
  BY <1>2 DEF Caught, Seeks
<1>5. QED  BY <1>1, <1>3, <1>4

(* ---------------------------- What steps keep --------------------------- *)

\* Of the packets on the way to the server only handled ones go.
LEMMA SecureKept ==
    ASSUME CollabInv, UNCHANGED <<author, secure>>, joined \subseteq joined',
           room \subseteq room',
           \A c \in joined : \A p \in Range(up[c]) :
              p.event = "update" => p \in Range(up'[c]) \/ p.data \subseteq room'
    PROVE  SecureMembers' /\ Arriving'
<1>1. SecureMembers'
  BY DEF CollabInv, SecureMembers
<1>2. ASSUME NEW c \in Clients, NEW u \in secure, author[u] = {c}, u \notin room'
      PROVE  Msg("update", {u}) \in Range(up'[c])
  <2>1. c \in joined
    BY <1>2 DEF CollabInv, SecureMembers
  <2>2. Msg("update", {u}) \in Range(up[c])
    BY <1>2, LossNow DEF CollabInv, Arriving
  <2>3. QED  BY <1>2, <2>1, <2>2 DEF Msg
<1>3. QED  BY <1>1, <1>2 DEF Arriving

\* A client that stops being a member takes the updates it typed along.
LEMMA SecureForgets ==
    ASSUME CollabInv, UNCHANGED author, room \subseteq room',
           NEW gone \in SUBSET Clients, joined' = joined \ gone,
           secure' = secure \ UNION {Typed(c) : c \in gone},
           \A c \in joined \ gone : \A p \in Range(up[c]) :
              p.event = "update" => p \in Range(up'[c])
    PROVE  SecureMembers' /\ Arriving'
<1>1. ASSUME NEW u \in secure'
      PROVE  u \in Updates /\ \E c \in joined' : author[u] = {c}
  <2>1. u \in secure /\ u \in Updates
    BY <1>1 DEF CollabInv, TypeOK
  <2>2. PICK c \in joined : author[u] = {c}
    BY <2>1 DEF CollabInv, SecureMembers
  <2>3. c \in gone => u \in Typed(c)
    BY <2>1, <2>2 DEF Typed
  <2>4. QED  BY <1>1, <2>1, <2>2, <2>3
<1>2. SecureMembers'
  BY <1>1 DEF SecureMembers
<1>3. ASSUME NEW c \in Clients, NEW u \in secure', author[u] = {c}, u \notin room'
      PROVE  Msg("update", {u}) \in Range(up'[c])
  <2>1. c \in joined \ gone
    BY <1>1, <1>3
  <2>2. Msg("update", {u}) \in Range(up[c])
    BY <1>3, LossNow DEF CollabInv, Arriving
  <2>3. QED  BY <2>1, <2>2 DEF Msg
<1>4. QED  BY <1>2, <1>3 DEF Arriving

\* An editor that stays asks for what it lacked, if the server was to be asked.
LEMMA RebuiltKept ==
    ASSUME CollabInv,
           \A c \in Clients : page'[c] = "open" =>
              \/ Caught(up'[c], doc'[c])
              \/ page[c] = "open" /\ (Caught(up[c], doc[c]) => Caught(up'[c], doc'[c]))
    PROVE  Rebuilt'
BY DEF CollabInv, Rebuilt

\* The editor of a member keeps what it holds, what is coming to it and what
\* the server will be asked for it.
LEMMA GapKept ==
    ASSUME CollabInv, UNCHANGED room, joined' \subseteq joined,
           \A c \in joined' : page'[c] = "open" =>
              \/ Seeks(up'[c], doc'[c])
              \/ /\ page[c] = "open"
                 /\ joining'[c].pc # "member" => joining[c].pc # "member"
                 /\ doc[c] \cup joining[c].state \cup Carried(down[c])
                       \subseteq doc'[c] \cup joining'[c].state \cup Carried(down'[c])
                 /\ Seeks(up[c], doc[c]) => Seeks(up'[c], doc'[c])
    PROVE  Gapless'
<1> SUFFICES ASSUME NEW c \in joined', page'[c] = "open", joining'[c].pc # "member",
                    ~Seeks(up'[c], doc'[c])
             PROVE  room' \subseteq doc'[c] \cup joining'[c].state \cup Carried(down'[c])
  BY DEF Gapless
<1>1. c \in joined /\ page[c] = "open" /\ joining[c].pc # "member" /\ ~Seeks(up[c], doc[c])
      /\ doc[c] \cup joining[c].state \cup Carried(down[c])
            \subseteq doc'[c] \cup joining'[c].state \cup Carried(down'[c])
  OBVIOUS
<1>2. room \subseteq doc[c] \cup joining[c].state \cup Carried(down[c])
  BY <1>1, LossNow DEF CollabInv, Gapless
<1>3. QED  BY <1>1, <1>2

\* No join gets past canAccess.
LEMMA LateKept ==
    ASSUME CollabInv, UNCHANGED <<isPublic, announcing, late>>, joined' \subseteq joined,
           \A c \in Clients : joining'[c].pc = "checked" => joining[c].pc = "checked"
    PROVE  LateJoins'
BY DEF CollabInv, LateJoins

\* Packets on the way to the browsers were there or carry what they may.
LEMMA PlainKept ==
    ASSUME CollabInv,
           \A c \in Clients : \A p \in Range(down'[c]) :
              p \in Range(down[c]) \/ p.event \in {"full", "update"} \/ p.data = {}
    PROVE  PlainPackets'
BY DEF CollabInv, PlainPackets

(* ------------------------------ The browser ----------------------------- *)

LEMMA VectorShape ==
    ASSUME TypeOK, NEW c \in Clients
    PROVE  /\ Vector(c) \in Packet /\ Vector(c).event = "vector"
           /\ Vector(c).data \subseteq doc[c]
<1>1. Visible(doc[c]) \in SUBSET Updates /\ Visible(doc[c]) \subseteq doc[c]
  BY DEF TypeOK, Visible
<1>2. QED  BY <1>1, MsgType DEF Vector

\* The queue of packets an effect emits: the editor's, the page's, or both.
LEMMA GreetingShape ==
    ASSUME TypeOK, NEW c \in Clients
    PROVE  /\ Greeting(c) \in Seq(Packet) /\ <<Vector(c), Join>> \in Seq(Packet)
           /\ \A i \in 1 .. Len(<<Vector(c), Join>>) : <<Vector(c), Join>>[i].event # "update"
<1>1. Join \in Packet /\ Join.event = "join"
  BY MsgType DEF Join
<1>2. Vector(c) \in Packet /\ Vector(c).event = "vector"
  BY VectorShape
<1>3. <<Vector(c), Join>> \in Seq(Packet) /\ <<Join>> \in Seq(Packet)
  BY <1>1, <1>2
<1>4. \A i \in 1 .. Len(<<Vector(c), Join>>) :
         <<Vector(c), Join>>[i] \in {Vector(c), Join}
  OBVIOUS
<1>5. QED  BY <1>1, <1>2, <1>3, <1>4 DEF Greeting

\* A page that loses its editor, if it had one; of what travels to the server
\* nothing goes, and what travels to the browsers keeps what it carries.
LEMMA UnmountedKeeps ==
    ASSUME CollabInv, NEW c \in Clients, page'[c] # "open",
           page' \in [Clients -> {"new", "loading", "open", "failed", "closed"}],
           doc' = [doc EXCEPT ![c] = {}], own' = [own EXCEPT ![c] = {}],
           \A d \in Clients \ {c} : page'[d] = page[d],
           up' \in [Clients -> Seq(Packet)], buffer' \in [Clients -> Seq(Packet)],
           \A d \in Clients \ {c} : up'[d] = up[d],
           Range(up[c]) \subseteq Range(up'[c]), c \notin online => up' = up,
           checking' \in [Clients -> Nat], loads' \in [Clients -> Nat], patched' \in Nat,
           UNCHANGED <<network, handlers, text, access, secure>>,
           down' \in [Clients -> Seq(Packet)],
           \A d \in Clients : /\ Range(down'[d]) \subseteq Range(down[d])
                              /\ Carried(down'[d]) = Carried(down[d])
    PROVE  CollabInv'
<1> USE DEF CollabInv, network, handlers, text, access
<1>1. /\ doc'[c] = {} /\ own'[c] = {}
      /\ \A d \in Clients \ {c} : doc'[d] = doc[d] /\ own'[d] = own[d]
      /\ doc' \in [Clients -> SUBSET Updates] /\ own' \in [Clients -> SUBSET Updates]
  BY DEF TypeOK
<1>2. TypeOK'
  BY <1>1 DEF TypeOK
<1>3. Wired'
  BY DEF Wired
<1>4. Rebuilt'
  BY <1>1, RebuiltKept
<1>5. PlainPackets' /\ LateJoins'
  BY PlainKept, LateKept
<1>6. SecureMembers' /\ Arriving'
  BY SecureKept DEF TypeOK
<1>7. Gapless'
  BY <1>1, GapKept DEF TypeOK
<1>8. QED  BY <1>2, <1>3, <1>4, <1>5, <1>6, <1>7, LossNext

\* The pages stay as they are, while only what travels to them and their
\* requests change.
LEMMA StaysKeeps ==
    ASSUME CollabInv, NEW c \in Clients, UNCHANGED view,
           UNCHANGED <<up, buffer, network, handlers, text, access, secure>>,
           checking' \in [Clients -> Nat], loads' \in [Clients -> Nat], patched' \in Nat,
           down' \in [Clients -> Seq(Packet)],
           \A d \in Clients : /\ Range(down'[d]) \subseteq Range(down[d])
                              /\ Carried(down'[d]) = Carried(down[d])
    PROVE  CollabInv'
<1> USE DEF CollabInv, view, network, handlers, text, access
<1>1. TypeOK' /\ Wired'
  BY DEF TypeOK, Wired
<1>2. Rebuilt'
  BY RebuiltKept
<1>3. PlainPackets' /\ LateJoins'
  BY PlainKept, LateKept
<1>4. SecureMembers' /\ Arriving'
  BY SecureKept
<1>5. Gapless'
  BY GapKept DEF TypeOK
<1>6. QED  BY <1>1, <1>2, <1>3, <1>4, <1>5, LossNext

LEMMA OpenKeeps ==
    ASSUME CollabInv, NEW c \in Clients, Open(c)
    PROVE  CollabInv'
<1> USE DEF CollabInv, handlers, network, text, access
<1>1. /\ page[c] = "new" /\ page' = [page EXCEPT ![c] = "loading"]
      /\ loads' = [loads EXCEPT ![c] = @ + 1] /\ Emit(c, <<Vector(c), Join>>)
      /\ UNCHANGED <<doc, own, checking, patched, network, down, handlers, text, access, secure>>
  BY DEF Open
<1>2. <<Vector(c), Join>> \in Seq(Packet)
  BY GreetingShape
<1> DEFINE s == <<Vector(c), Join>>
<1> HIDE DEF s
<1>3. /\ up' \in [Clients -> Seq(Packet)] /\ buffer' \in [Clients -> Seq(Packet)]
      /\ \A d \in Clients \ {c} : up'[d] = up[d]
      /\ Range(up[c]) \subseteq Range(up'[c]) /\ (c \notin online => up' = up)
  <2>1. s \in Seq(Packet) /\ Emit(c, s)
    BY <1>1, <1>2 DEF s
  <2>2. QED  BY <2>1, Emitted
<1>4. /\ page' \in [Clients -> {"new", "loading", "open", "failed", "closed"}]
      /\ page'[c] # "open" /\ \A d \in Clients \ {c} : page'[d] = page[d]
      /\ checking' \in [Clients -> Nat] /\ loads' \in [Clients -> Nat] /\ patched' \in Nat
      /\ down' \in [Clients -> Seq(Packet)]
  BY <1>1 DEF TypeOK
<1>5. doc' = [doc EXCEPT ![c] = {}] /\ own' = [own EXCEPT ![c] = {}]
  <2>1. /\ doc \in [Clients -> SUBSET Updates] /\ own \in [Clients -> SUBSET Updates]
        /\ own[c] \subseteq doc[c] /\ doc[c] = {}
    BY <1>1 DEF TypeOK
  <2>2. QED  BY <1>1, <2>1
<1>6. QED  BY <1>1, <1>3, <1>4, <1>5, UnmountedKeeps

\* The answer of a fetch brings the editor, whose first packet asks for all.
LEMMA LoadedKeeps ==
    ASSUME CollabInv, NEW c \in Clients, Loaded(c)
    PROVE  CollabInv'
<1> USE DEF CollabInv, handlers, network, text, access
<1>1. /\ loads' = [loads EXCEPT ![c] = @ - 1] /\ loads[c] > 0
      /\ UNCHANGED <<checking, patched, network, down, handlers, text, access, secure>>
      /\ IF page[c] = "loading" THEN Mounts(c) ELSE UNCHANGED <<view, up, buffer>>
  BY DEF Loaded
<1>2. loads' \in [Clients -> Nat] /\ checking' \in [Clients -> Nat] /\ patched' \in Nat
      /\ down' \in [Clients -> Seq(Packet)]
  BY <1>1 DEF TypeOK
<1>3. CASE page[c] # "loading"
  <2>1. UNCHANGED <<view, up, buffer>>
    BY <1>1, <1>3
  <2>2. QED  BY <1>1, <1>2, <2>1, StaysKeeps
<1>4. CASE page[c] = "loading"
  <2>1. /\ page' = [page EXCEPT ![c] = "open"] /\ UNCHANGED <<doc, own>>
        /\ Emit(c, <<Vector(c)>>)
    BY <1>1, <1>4 DEF Mounts
  <2>2. /\ Vector(c) \in Packet /\ Vector(c).event = "vector" /\ Vector(c).data \subseteq doc[c]
        /\ <<Vector(c)>> \in Seq(Packet)
    BY VectorShape, OnePacket
  <2>3. /\ up' \in [Clients -> Seq(Packet)] /\ buffer' \in [Clients -> Seq(Packet)]
        /\ \A d \in Clients \ {c} : up'[d] = up[d]
        /\ Range(up[c]) \subseteq Range(up'[c]) /\ (c \notin online => up' = up)
        /\ c \in online => up'[c] = up[c] \o <<Vector(c)>>
    BY <2>1, <2>2, Emitted
  <2>4. c \in online => Seeks(up'[c], doc'[c]) /\ Caught(up'[c], doc'[c])
    <3>1. up[c] \in Seq(Packet)
      BY DEF TypeOK
    <3>2. Seeks(up[c] \o <<Vector(c)>>, doc[c]) /\ Caught(up[c] \o <<Vector(c)>>, doc[c])
      BY <2>2, <3>1, QueueAsks
    <3>3. QED  BY <2>1, <2>3, <3>2
  <2>5. c \notin online => Caught(up'[c], doc'[c])
    <3>1. c \notin online => up'[c] = <<>>
      BY <2>3 DEF Wired
    <3>2. QED  BY <3>1 DEF Caught
  <2>6. /\ page' \in [Clients -> {"new", "loading", "open", "failed", "closed"}]
        /\ page'[c] = "open" /\ \A d \in Clients \ {c} : page'[d] = page[d]
    BY <2>1 DEF TypeOK
  <2>7. TypeOK'
    BY <1>1, <1>2, <2>1, <2>3, <2>6 DEF TypeOK
  <2>8. Wired'
    BY <1>1, <2>3 DEF Wired
  <2>9. Rebuilt'
    BY <2>1, <2>3, <2>4, <2>5, <2>6, RebuiltKept
  <2>10. PlainPackets' /\ LateJoins'
    BY <1>1, PlainKept, LateKept
  <2>11. SecureMembers' /\ Arriving'
    BY <1>1, <2>3, SecureKept DEF TypeOK
  <2>12. Gapless'
    <3>1. room' = room /\ joined' = joined /\ joining' = joining /\ down' = down /\ doc' = doc
      BY <1>1, <2>1
    <3>2. c \in joined => Seeks(up'[c], doc'[c])
      BY <2>4 DEF TypeOK
    <3>3. \A d \in joined \ {c} : page'[d] = page[d] /\ up'[d] = up[d]
      BY <2>3, <2>6 DEF TypeOK
    <3>4. QED  BY <3>1, <3>2, <3>3, GapKept
  <2>13. QED  BY <2>7, <2>8, <2>9, <2>10, <2>11, <2>12, LossNext
<1>5. QED  BY <1>3, <1>4

\* The page gives its editor up, or, where it must, stays as it is.
LEMMA UnmountsShape ==
    ASSUME TypeOK, NEW c \in Clients, NEW p \in {"loading", "failed", "closed"}, Unmounts(c, p)
    PROVE  /\ page' \in [Clients -> {"new", "loading", "open", "failed", "closed"}]
           /\ page'[c] # "open" /\ \A d \in Clients \ {c} : page'[d] = page[d]
           /\ doc' = [doc EXCEPT ![c] = {}] /\ own' = [own EXCEPT ![c] = {}]
BY DEF TypeOK, Unmounts

LEMMA LoadFailsKeeps ==
    ASSUME CollabInv, NEW c \in Clients, LoadFails(c)
    PROVE  CollabInv'
<1>1. /\ UNCHANGED <<up, buffer, checking, patched, network, down, handlers, text, access, secure>>
      /\ Unmounts(c, "failed") \/ UNCHANGED view
  BY DEF LoadFails
<1>2. /\ TypeOK /\ loads' \in [Clients -> Nat] /\ checking' \in [Clients -> Nat] /\ patched' \in Nat
      /\ down' \in [Clients -> Seq(Packet)]
      /\ up' \in [Clients -> Seq(Packet)] /\ buffer' \in [Clients -> Seq(Packet)]
  BY <1>1 DEF LoadFails, CollabInv, TypeOK
<1>3. CASE UNCHANGED view
  BY <1>1, <1>2, <1>3, StaysKeeps
<1>4. CASE Unmounts(c, "failed")
  <2>1. /\ page' \in [Clients -> {"new", "loading", "open", "failed", "closed"}]
        /\ page'[c] # "open" /\ \A d \in Clients \ {c} : page'[d] = page[d]
        /\ doc' = [doc EXCEPT ![c] = {}] /\ own' = [own EXCEPT ![c] = {}]
    BY <1>2, <1>4, UnmountsShape
  <2>2. QED  BY <1>1, <1>2, <2>1, UnmountedKeeps
<1>5. QED  BY <1>1, <1>3, <1>4

\* A page that fetches the document again.
LEMMA RefreshKeeps ==
    ASSUME CollabInv, NEW c \in Clients, Refresh(c) \/ UNCHANGED <<view, loads>>,
           UNCHANGED <<up, buffer, network, handlers, text, access, secure>>,
           checking' \in [Clients -> Nat], patched' \in Nat,
           down' \in [Clients -> Seq(Packet)],
           \A d \in Clients : /\ Range(down'[d]) \subseteq Range(down[d])
                              /\ Carried(down'[d]) = Carried(down[d])
    PROVE  CollabInv'
<1>1. /\ TypeOK /\ loads \in [Clients -> Nat]
      /\ up' \in [Clients -> Seq(Packet)] /\ buffer' \in [Clients -> Seq(Packet)]
  BY DEF CollabInv, TypeOK
<1>2. CASE UNCHANGED <<view, loads>>
  BY <1>1, <1>2, StaysKeeps
<1>3. CASE Unmounts(c, "loading") /\ loads' = [loads EXCEPT ![c] = @ + 1]
  <2>1. /\ page' \in [Clients -> {"new", "loading", "open", "failed", "closed"}]
        /\ page'[c] # "open" /\ \A d \in Clients \ {c} : page'[d] = page[d]
        /\ doc' = [doc EXCEPT ![c] = {}] /\ own' = [own EXCEPT ![c] = {}]
    BY <1>1, <1>3, UnmountsShape
  <2>2. loads' \in [Clients -> Nat]
    BY <1>1, <1>3
  <2>3. QED  BY <1>1, <2>1, <2>2, UnmountedKeeps
<1>4. QED  BY <1>2, <1>3 DEF Refresh

\* A page that leaves.
LEMMA LeavingKeeps ==
    ASSUME CollabInv, NEW c \in Clients, LeavePage(c),
           UNCHANGED <<network, handlers, text, access, secure>>,
           checking' \in [Clients -> Nat], loads' \in [Clients -> Nat], patched' \in Nat,
           down' \in [Clients -> Seq(Packet)],
           \A d \in Clients : /\ Range(down'[d]) \subseteq Range(down[d])
                              /\ Carried(down'[d]) = Carried(down[d])
    PROVE  CollabInv'
<1>1. TypeOK /\ Unmounts(c, "closed") /\ Emit(c, <<Msg("leave", {})>>)
  BY DEF CollabInv, LeavePage
<1>2. /\ page' \in [Clients -> {"new", "loading", "open", "failed", "closed"}]
      /\ page'[c] # "open" /\ \A d \in Clients \ {c} : page'[d] = page[d]
      /\ doc' = [doc EXCEPT ![c] = {}] /\ own' = [own EXCEPT ![c] = {}]
  BY <1>1, UnmountsShape
<1>3. <<Msg("leave", {})>> \in Seq(Packet)
  BY MsgType, OnePacket
<1>4. /\ up' \in [Clients -> Seq(Packet)] /\ buffer' \in [Clients -> Seq(Packet)]
      /\ \A d \in Clients \ {c} : up'[d] = up[d]
      /\ Range(up[c]) \subseteq Range(up'[c]) /\ (c \notin online => up' = up)
  BY <1>1, <1>3, Emitted
<1>5. QED  BY <1>2, <1>4, UnmountedKeeps

LEMMA CloseKeeps ==
    ASSUME CollabInv, NEW c \in Clients, Close(c)
    PROVE  CollabInv'
<1>1. /\ LeavePage(c) /\ UNCHANGED <<requests, network, down, handlers, text, access, secure>>
  BY DEF Close
<1>2. /\ checking' \in [Clients -> Nat] /\ loads' \in [Clients -> Nat] /\ patched' \in Nat
      /\ down' \in [Clients -> Seq(Packet)]
  BY <1>1 DEF CollabInv, TypeOK, requests
<1>3. QED  BY <1>1, <1>2, LeavingKeeps

LEMMA AccessAnsweredKeeps ==
    ASSUME CollabInv, NEW c \in Clients, AccessAnswered(c)
    PROVE  CollabInv'
<1>1. /\ checking[c] > 0 /\ checking' = [checking EXCEPT ![c] = @ - 1]
      /\ UNCHANGED <<patched, network, down, handlers, text, access, secure>>
      /\ \/ Refresh(c) /\ UNCHANGED <<up, buffer>>
         \/ LeavePage(c) /\ UNCHANGED loads
  BY DEF AccessAnswered
<1>2. checking' \in [Clients -> Nat] /\ patched' \in Nat /\ down' \in [Clients -> Seq(Packet)]
      /\ loads \in [Clients -> Nat]
  BY <1>1 DEF CollabInv, TypeOK
<1>3. CASE Refresh(c) /\ UNCHANGED <<up, buffer>>
  BY <1>1, <1>2, <1>3, RefreshKeeps
<1>4. CASE LeavePage(c) /\ UNCHANGED loads
  BY <1>1, <1>2, <1>4, LeavingKeeps
<1>5. QED  BY <1>1, <1>3, <1>4

LEMMA ToggleAnsweredKeeps ==
    ASSUME CollabInv, ToggleAnswered
    PROVE  CollabInv'
<1>1. /\ patched > 0 /\ patched' = patched - 1
      /\ Refresh(Owner) \/ UNCHANGED <<view, loads>>
      /\ UNCHANGED <<buffer, checking, network, up, down, handlers, text, access, secure>>
  BY DEF ToggleAnswered
<1>2. checking' \in [Clients -> Nat] /\ patched' \in Nat /\ down' \in [Clients -> Seq(Packet)]
  BY <1>1 DEF CollabInv, TypeOK
<1>3. Owner \in Clients
  BY ClientsAssumption
<1>4. QED  BY <1>1, <1>2, <1>3, RefreshKeeps

\* An announcement that arrives carries nothing away.
LEMMA PlainTaken ==
    ASSUME CollabInv, NEW c \in Clients, NEW events, Taken(c, events),
           {"full", "update"} \cap events = {}
    PROVE  /\ down' \in [Clients -> Seq(Packet)]
           /\ \A d \in Clients : /\ Range(down'[d]) \subseteq Range(down[d])
                                 /\ Carried(down'[d]) = Carried(down[d])
<1>1. TypeOK /\ PlainPackets
  BY DEF CollabInv
<1>2. /\ down' \in [Clients -> Seq(Packet)]
      /\ \A d \in Clients \ {c} : down'[d] = down[d]
      /\ Range(down'[c]) \subseteq Range(down[c])
      /\ Head(down[c]) \in Range(down[c]) /\ Head(down[c]).event \in events
      /\ Carried(down[c]) = Head(down[c]).data \cup Carried(down'[c])
  BY <1>1, TakenShape
<1>3. Head(down[c]).data = {}
  BY <1>1, <1>2 DEF PlainPackets
<1>4. QED  BY <1>2, <1>3

LEMMA ReceivePublicKeeps ==
    ASSUME CollabInv, NEW c \in Clients, ReceivePublic(c)
    PROVE  CollabInv'
<1>1. /\ Taken(c, {"public"}) /\ Refresh(c)
      /\ UNCHANGED <<buffer, checking, patched, network, up, handlers, text, access, secure>>
  BY DEF ReceivePublic
<1>2. /\ down' \in [Clients -> Seq(Packet)]
      /\ \A d \in Clients : /\ Range(down'[d]) \subseteq Range(down[d])
                            /\ Carried(down'[d]) = Carried(down[d])
  BY <1>1, PlainTaken
<1>3. checking' \in [Clients -> Nat] /\ patched' \in Nat
  BY <1>1 DEF CollabInv, TypeOK
<1>4. QED  BY <1>1, <1>2, <1>3, RefreshKeeps

LEMMA ReceivePrivateKeeps ==
    ASSUME CollabInv, NEW c \in Clients, ReceivePrivate(c)
    PROVE  CollabInv'
<1>1. /\ Taken(c, {"private"})
      /\ checking' = IF Present(c) THEN [checking EXCEPT ![c] = @ + 1] ELSE checking
      /\ UNCHANGED <<view, buffer, loads, patched, network, up, handlers, text, access, secure>>
  BY DEF ReceivePrivate
<1>2. /\ down' \in [Clients -> Seq(Packet)]
      /\ \A d \in Clients : /\ Range(down'[d]) \subseteq Range(down[d])
                            /\ Carried(down'[d]) = Carried(down[d])
  BY <1>1, PlainTaken
<1>3. checking' \in [Clients -> Nat] /\ loads' \in [Clients -> Nat] /\ patched' \in Nat
  BY <1>1 DEF CollabInv, TypeOK
<1>4. QED  BY <1>1, <1>2, <1>3, StaysKeeps

LEMMA ReceiveKickedKeeps ==
    ASSUME CollabInv, NEW c \in Clients, ReceiveKicked(c)
    PROVE  CollabInv'
<1>1. /\ Taken(c, {"kicked"})
      /\ LeavePage(c) \/ UNCHANGED <<view, up, buffer>>
      /\ UNCHANGED <<requests, network, handlers, text, access, secure>>
  BY DEF ReceiveKicked
<1>2. /\ down' \in [Clients -> Seq(Packet)]
      /\ \A d \in Clients : /\ Range(down'[d]) \subseteq Range(down[d])
                            /\ Carried(down'[d]) = Carried(down[d])
  BY <1>1, PlainTaken
<1>3. checking' \in [Clients -> Nat] /\ loads' \in [Clients -> Nat] /\ patched' \in Nat
  BY <1>1 DEF CollabInv, TypeOK, requests
<1>4. CASE LeavePage(c)
  BY <1>1, <1>2, <1>3, <1>4, LeavingKeeps
<1>5. CASE UNCHANGED <<view, up, buffer>>
  BY <1>1, <1>2, <1>3, <1>5, StaysKeeps
<1>6. QED  BY <1>1, <1>4, <1>5

LEMMA TypeKeeps ==
    ASSUME CollabInv, NEW c \in Clients, NEW u \in Updates, Type(c, u)
    PROVE  CollabInv'
<1> USE DEF CollabInv
<1> DEFINE m == Msg("update", {u})
           s == <<m>>
<1>1. s \in Seq(Packet) /\ Range(s) = {m} /\ m.data = {u} /\ Len(s) = 1 /\ s[1] = m
  BY MsgType, OnePacket
<1>2. /\ Emit(c, s) /\ page[c] = "open" /\ author[u] = {}
      /\ UNCHANGED <<page, requests, network, down, handlers, room, access>>
      /\ doc' = [doc EXCEPT ![c] = @ \cup {u}] /\ own' = [own EXCEPT ![c] = @ \cup {u}]
      /\ author' = [author EXCEPT ![u] = {c}] /\ after' = [after EXCEPT ![u] = own[c]]
      /\ secure' = IF c \in joined THEN secure \cup {u} ELSE secure
  BY DEF Type
<1> HIDE DEF m, s
<1> USE DEF requests, network, handlers, access
<1>3. /\ up' \in [Clients -> Seq(Packet)] /\ buffer' \in [Clients -> Seq(Packet)]
      /\ \A d \in Clients \ {c} : up'[d] = up[d]
      /\ Range(up[c]) \subseteq Range(up'[c])
      /\ c \in online => m \in Range(up'[c])
      /\ c \notin online => up' = up
  BY <1>1, <1>2, Emitted
<1>4. /\ doc' \in [Clients -> SUBSET Updates] /\ own' \in [Clients -> SUBSET Updates]
      /\ doc'[c] = doc[c] \cup {u} /\ own'[c] = own[c] \cup {u}
      /\ \A d \in Clients \ {c} : doc'[d] = doc[d] /\ own'[d] = own[d]
  BY <1>2 DEF TypeOK
<1>5. /\ author' \in [Updates -> SUBSET Clients] /\ author'[u] = {c}
      /\ \A v \in Updates \ {u} : author'[v] = author[v]
      /\ after' \in [Updates -> SUBSET Updates]
  BY <1>2 DEF TypeOK
<1>6. TypeOK'
  <2>1. \A d \in Clients : own'[d] \subseteq doc'[d] /\ (page'[d] # "open" => doc'[d] = {})
    BY <1>2, <1>4 DEF TypeOK
  <2>2. secure' \subseteq Updates
    BY <1>2 DEF TypeOK
  <2>3. QED  BY <1>2, <1>3, <1>4, <1>5, <2>1, <2>2 DEF TypeOK
<1>7. Wired'
  BY <1>2, <1>3 DEF Wired
<1>8. /\ Seeks(up[c], doc[c]) => Seeks(up'[c], doc'[c])
      /\ Caught(up[c], doc[c]) => Caught(up'[c], doc'[c])
  <2>1. \A i \in 1 .. Len(s) : s[i].event = "update" => s[i].data \subseteq doc'[c]
    BY <1>1, <1>4
  <2>2. QED  BY <1>1, <1>2, <1>4, <2>1, EmittedAsks
<1>9. Rebuilt'
  BY <1>2, <1>3, <1>4, <1>8, RebuiltKept
<1>10. PlainPackets' /\ LateJoins'
  BY <1>2, PlainKept, LateKept
<1>11. \A v \in secure : v \in Updates /\ v # u
  BY <1>2 DEF TypeOK, SecureMembers
<1>12. SecureMembers'
  BY <1>2, <1>5, <1>11 DEF SecureMembers
<1>13. Arriving'
  <2> SUFFICES ASSUME NEW d \in Clients, NEW v \in secure', author'[v] = {d}, v \notin room'
               PROVE  Msg("update", {v}) \in Range(up'[d])
    BY DEF Arriving
  <2>1. CASE v = u /\ v \notin secure
    BY <1>2, <1>3, <1>5, <2>1 DEF m, TypeOK
  <2>2. CASE v \in secure
    <3>1. author[v] = {d} /\ v \notin room
      BY <1>2, <1>5, <1>11, <2>2
    <3>2. Msg("update", {v}) \in Range(up[d])
      BY <2>2, <3>1, LossNow DEF Arriving
    <3>3. QED  BY <1>3, <3>2
  <2>3. QED  BY <1>2, <2>1, <2>2
<1>14. Gapless'
  BY <1>2, <1>3, <1>4, <1>8, GapKept DEF TypeOK
<1>15. QED  BY <1>6, <1>7, <1>9, <1>10, <1>12, <1>13, <1>14, LossNext

LEMMA ConnectKeeps ==
    ASSUME CollabInv, NEW c \in Clients, Connect(c)
    PROVE  CollabInv'
<1> USE DEF CollabInv, view, requests, handlers, text, access
<1>1. /\ c \notin online /\ online' = online \cup {c} /\ buffer' = [buffer EXCEPT ![c] = <<>>]
      /\ up' = [up EXCEPT ![c] = IF page[c] = "open" THEN Append(buffer[c], Vector(c))
                                                     ELSE buffer[c]]
      /\ UNCHANGED <<view, requests, drops, down, handlers, text, access, secure>>
  BY DEF Connect
<1>2. Vector(c) \in Packet /\ Vector(c).event = "vector" /\ Vector(c).data \subseteq doc[c]
  BY VectorShape
<1>3. /\ buffer[c] \in Seq(Packet) /\ Append(buffer[c], Vector(c)) \in Seq(Packet)
      /\ Append(buffer[c], Vector(c)) = buffer[c] \o <<Vector(c)>>
  BY <1>2, AppendIsConcat DEF TypeOK
<1>4. /\ up' \in [Clients -> Seq(Packet)] /\ buffer' \in [Clients -> Seq(Packet)]
      /\ \A d \in Clients \ {c} : up'[d] = up[d]
      /\ page[c] = "open" => up'[c] = buffer[c] \o <<Vector(c)>>
  BY <1>1, <1>3 DEF TypeOK
<1>5. page[c] = "open" => Caught(up'[c], doc'[c])
  <2>1. Caught(buffer[c] \o <<Vector(c)>>, doc[c])
    BY <1>2, <1>3, QueueAsks
  <2>2. QED  BY <1>1, <1>4, <2>1
<1>6. TypeOK'
  BY <1>1, <1>4 DEF TypeOK
<1>7. Wired'
  BY <1>1, <1>4 DEF Wired
<1>8. Rebuilt'
  BY <1>1, <1>4, <1>5, RebuiltKept
<1>9. PlainPackets' /\ LateJoins'
  BY <1>1, PlainKept, LateKept
<1>10. \A d \in joined : d # c /\ up'[d] = up[d]
  BY <1>1, <1>4 DEF TypeOK
<1>11. SecureMembers' /\ Arriving'
  BY <1>1, <1>10, SecureKept
<1>12. Gapless'
  BY <1>1, <1>10, GapKept
<1>13. QED  BY <1>6, <1>7, <1>8, <1>9, <1>11, <1>12, LossNext

\* What a lost connection does to everything but the buffer.
LEMMA UnlinkedKeeps ==
    ASSUME CollabInv, NEW c \in Clients, Unlinked(c),
           UNCHANGED <<view, requests, text, isPublic, announcing, toggles>>,
           buffer' \in [Clients -> Seq(Packet)]
    PROVE  CollabInv'
<1> USE DEF CollabInv, Unlinked, text, view, requests
<1>1. /\ up' \in [Clients -> Seq(Packet)] /\ down' \in [Clients -> Seq(Packet)]
      /\ joining' \in [Clients -> JoinState]
      /\ \A d \in Clients \ {c} : /\ up'[d] = up[d] /\ down'[d] = down[d]
                                  /\ joining'[d] = joining[d]
      /\ up'[c] = <<>> /\ down'[c] = <<>> /\ joining'[c] = Idle /\ Idle.pc = "idle"
  BY DEF TypeOK, Idle, JoinState
<1>2. Range(down'[c]) = {} /\ Caught(up'[c], doc'[c])
  BY <1>1 DEF Range, Caught
<1>3. TypeOK'
  BY <1>1, BoundsAssumption DEF TypeOK
<1>4. Wired'
  BY <1>1 DEF Wired
<1>5. Rebuilt'
  BY <1>1, <1>2, RebuiltKept
<1>6. PlainPackets'
  BY <1>1, <1>2, PlainKept
<1>7. LateJoins'
  BY <1>1 DEF LateJoins
<1>8. SecureMembers' /\ Arriving'
  <2>1. /\ {c} \in SUBSET Clients /\ joined' = joined \ {c}
        /\ secure' = secure \ UNION {Typed(d) : d \in {c}}
    OBVIOUS
  <2>2. \A d \in joined \ {c} : \A p \in Range(up[d]) : p \in Range(up'[d])
    BY <1>1 DEF TypeOK
  <2>3. QED  BY <2>1, <2>2, SecureForgets
<1>9. Gapless'
  BY <1>1, GapKept DEF TypeOK
<1>10. QED  BY <1>3, <1>4, <1>5, <1>6, <1>7, <1>8, <1>9, LossNext

LEMMA LinkDropsKeeps ==
    ASSUME CollabInv, NEW c \in Clients, LinkDrops(c)
    PROVE  CollabInv'
<1>1. UNCHANGED <<view, requests, text, isPublic, announcing, toggles>> /\ Unlinked(c)
      /\ buffer' \in [Clients -> Seq(Packet)]
  BY DEF LinkDrops, browser, CollabInv, TypeOK
<1>2. QED  BY <1>1, UnlinkedKeeps

LEMMA TokenChangesKeeps ==
    ASSUME CollabInv, NEW c \in Clients, TokenChanges(c)
    PROVE  CollabInv'
<1>1. /\ Unlinked(c) /\ UNCHANGED <<view, requests, text, isPublic, announcing, toggles>>
      /\ buffer' = [buffer EXCEPT ![c] = IF Present(c) THEN Greeting(c) ELSE <<>>]
  BY DEF TokenChanges
<1>2. Greeting(c) \in Seq(Packet)
  BY GreetingShape DEF CollabInv
<1>3. <<>> \in Seq(Packet)
  OBVIOUS
<1>4. buffer' \in [Clients -> Seq(Packet)]
  BY <1>1, <1>2, <1>3 DEF CollabInv, TypeOK
<1>5. QED  BY <1>1, <1>4, UnlinkedKeeps

LEMMA ReceiveUpdateKeeps ==
    ASSUME CollabInv, NEW c \in Clients, ReceiveUpdate(c)
    PROVE  CollabInv'
<1> USE DEF CollabInv
<1>1. /\ down' \in [Clients -> Seq(Packet)]
      /\ \A d \in Clients \ {c} : down'[d] = down[d]
      /\ Range(down'[c]) \subseteq Range(down[c])
      /\ Head(down[c]) \in Packet
      /\ Carried(down[c]) = Head(down[c]).data \cup Carried(down'[c])
  BY TakenShape DEF ReceiveUpdate
<1>2. /\ UNCHANGED <<page, own, buffer, requests, network, up, handlers, text, access, secure>>
      /\ doc' = [doc EXCEPT ![c] = IF page[c] = "open" THEN @ \cup Head(down[c]).data ELSE @]
  BY DEF ReceiveUpdate
<1> USE DEF requests, network, handlers, text, access
<1>3. /\ doc' \in [Clients -> SUBSET Updates] /\ \A d \in Clients : doc[d] \subseteq doc'[d]
      /\ page[c] = "open" => Head(down[c]).data \subseteq doc'[c]
      /\ \A d \in Clients : page[d] # "open" => doc'[d] = doc[d]
  BY <1>1, <1>2 DEF TypeOK, Packet
<1>4. TypeOK'
  <2>1. \A d \in Clients : own'[d] \subseteq doc'[d] /\ (page'[d] # "open" => doc'[d] = {})
    BY <1>2, <1>3 DEF TypeOK
  <2>2. QED  BY <1>1, <1>2, <1>3, <2>1 DEF TypeOK
<1>5. Wired'
  BY <1>2 DEF Wired
<1>6. \A d \in Clients : /\ Seeks(up[d], doc[d]) => Seeks(up'[d], doc'[d])
                         /\ Caught(up[d], doc[d]) => Caught(up'[d], doc'[d])
  <2> SUFFICES ASSUME NEW d \in Clients
               PROVE  /\ Seeks(up[d], doc[d]) => Seeks(up[d], doc'[d])
                      /\ Caught(up[d], doc[d]) => Caught(up[d], doc'[d])
    BY <1>2
  <2>1. doc[d] \subseteq doc'[d]
    BY <1>3
  <2>2. QED  BY <2>1 DEF Seeks, Caught
<1>7. Rebuilt'
  BY <1>2, <1>6, RebuiltKept
<1>8. PlainPackets' /\ LateJoins'
  BY <1>1, <1>2, PlainKept, LateKept
<1>9. SecureMembers' /\ Arriving'
  BY <1>2, SecureKept
<1>10. Gapless'
  <2>1. \A d \in joined : d \in Clients
    BY DEF TypeOK
  <2>2. \A d \in joined : page[d] = "open" =>
           doc[d] \cup Carried(down[d]) \subseteq doc'[d] \cup Carried(down'[d])
    BY <1>1, <1>3, <2>1
  <2>3. QED  BY <1>2, <1>6, <2>1, <2>2, GapKept
<1>11. QED  BY <1>4, <1>5, <1>7, <1>8, <1>9, <1>10, LossNext

(* ------------------------------ The server ------------------------------ *)

LEMMA JoinHandled ==
    ASSUME CollabInv, NEW c \in Clients, HandleJoin(c)
    PROVE  CollabInv'
<1> USE DEF CollabInv
<1>1. /\ up' \in [Clients -> Seq(Packet)] /\ up[c] # <<>>
      /\ \A d \in Clients \ {c} : up'[d] = up[d]
      /\ Range(up[c]) = {Head(up[c])} \cup Range(up'[c])
      /\ Head(up[c]).event = "join"
  BY HandlesShape DEF HandleJoin
<1>2. /\ UNCHANGED <<browser, network, down, joined, text, access, secure>>
      /\ joining[c].pc = "idle"
      /\ joining' = IF CanAccess(c) THEN [joining EXCEPT ![c].pc = "checked"] ELSE joining
  BY DEF HandleJoin
<1> USE DEF browser, view, requests, network, text, access
<1>3. \A d \in Clients : /\ Seeks(up[d], doc[d]) => Seeks(up'[d], doc'[d])
                         /\ Caught(up[d], doc[d]) => Caught(up'[d], doc'[d])
  BY <1>2, HandlesAsks DEF HandleJoin
<1>4. /\ joining' \in [Clients -> JoinState]
      /\ \A d \in Clients : joining'[d].state = joining[d].state
      /\ \A d \in Clients \ {c} : joining'[d] = joining[d]
      /\ joining'[c].pc \in {"idle", "checked"}
      /\ joining'[c].pc = "checked" => CanAccess(c)
  BY <1>2 DEF TypeOK, JoinState
<1>5. TypeOK'
  BY <1>1, <1>2, <1>4 DEF TypeOK
<1>6. Wired'
  BY <1>1, <1>2, <1>4 DEF Wired
<1>7. Rebuilt'
  BY <1>2, <1>3, RebuiltKept
<1>8. PlainPackets'
  BY <1>2, PlainKept
<1>9. LateJoins'
  BY <1>2, <1>4 DEF LateJoins, CanAccess
<1>10. SecureMembers' /\ Arriving'
  BY <1>1, <1>2, SecureKept DEF TypeOK
<1>11. Gapless'
  BY <1>2, <1>4, <1>3, GapKept DEF TypeOK
<1>12. QED  BY <1>5, <1>6, <1>7, <1>8, <1>9, <1>10, <1>11, LossNext

LEMMA LeaveHandled ==
    ASSUME CollabInv, NEW c \in Clients, HandleLeave(c)
    PROVE  CollabInv'
<1> USE DEF CollabInv
<1>1. /\ up' \in [Clients -> Seq(Packet)] /\ up[c] # <<>>
      /\ \A d \in Clients \ {c} : up'[d] = up[d]
      /\ Range(up[c]) = {Head(up[c])} \cup Range(up'[c])
      /\ Head(up[c]).event = "leave"
  BY HandlesShape DEF HandleLeave
<1>2. /\ UNCHANGED <<browser, network, down, joining, text, access>>
      /\ joined' = joined \ {c}
      /\ secure' = IF c \in joined THEN secure \ Typed(c) ELSE secure
  BY DEF HandleLeave
<1> USE DEF browser, view, requests, network, text, access
<1>3. \A d \in Clients : /\ Seeks(up[d], doc[d]) => Seeks(up'[d], doc'[d])
                         /\ Caught(up[d], doc[d]) => Caught(up'[d], doc'[d])
  BY <1>2, HandlesAsks DEF HandleLeave
<1>4. TypeOK'
  BY <1>1, <1>2 DEF TypeOK
<1>5. Wired'
  BY <1>1, <1>2 DEF Wired
<1>6. Rebuilt'
  BY <1>2, <1>3, RebuiltKept
<1>7. PlainPackets' /\ LateJoins'
  BY <1>2, PlainKept, LateKept
<1>8. \A d \in joined \ {c} : \A p \in Range(up[d]) : p \in Range(up'[d])
  BY <1>1 DEF TypeOK
<1>9. SecureMembers' /\ Arriving'
  <2>1. CASE c \in joined
    <3>1. {c} \in SUBSET Clients /\ secure' = secure \ UNION {Typed(d) : d \in {c}}
      BY <1>2, <2>1
    <3>2. QED  BY <1>2, <1>8, <3>1, SecureForgets
  <2>2. CASE c \notin joined
    BY <1>2, <1>8, <2>2, SecureKept
  <2>3. QED  BY <2>1, <2>2
<1>10. Gapless'
  BY <1>2, <1>3, GapKept DEF TypeOK
<1>11. QED  BY <1>4, <1>5, <1>6, <1>7, <1>9, <1>10, LossNext

\* One packet sent: an update, or one that carries nothing.
LEMMA OneSent ==
    ASSUME TypeOK, NEW targets, NEW p \in Packet, down' = Sent(targets, <<p>>),
           p.event \in {"full", "update"} \/ p.data = {}
    PROVE  /\ down' \in [Clients -> Seq(Packet)]
           /\ \A d \in Clients : Carried(down[d]) \subseteq Carried(down'[d])
           /\ \A d \in Clients :
                 d \in targets /\ d \in online => p.data \subseteq Carried(down'[d])
           /\ \A d \in Clients : \A q \in Range(down'[d]) :
                 q \in Range(down[d]) \/ q.event \in {"full", "update"} \/ q.data = {}
<1>1. <<p>> \in Seq(Packet) /\ Range(<<p>>) = {p} /\ Carried(<<p>>) = p.data
  BY OnePacket DEF Carried
<1> DEFINE s == <<p>>
           f == Sent(targets, s)
<1> HIDE DEF s
<1>2. /\ f \in [Clients -> Seq(Packet)]
      /\ \A d \in Clients :
            /\ Carried(down[d]) \subseteq Carried(f[d])
            /\ Range(f[d]) \subseteq Range(down[d]) \cup Range(s)
            /\ d \in targets \cap online => Carried(s) \subseteq Carried(f[d])
  BY <1>1, SentShape DEF s
<1>3. down' = f /\ Range(s) = {p} /\ Carried(s) = p.data
  BY <1>1 DEF s
<1> HIDE DEF f
<1>4. QED  BY <1>2, <1>3

LEMMA VectorHandled ==
    ASSUME CollabInv, NEW c \in Clients, HandleVector(c)
    PROVE  CollabInv'
<1> USE DEF CollabInv
<1>1. /\ up' \in [Clients -> Seq(Packet)] /\ up[c] # <<>>
      /\ \A d \in Clients \ {c} : up'[d] = up[d]
      /\ Range(up[c]) = {Head(up[c])} \cup Range(up'[c])
      /\ Head(up[c]).event = "vector"
  BY HandlesShape DEF HandleVector
<1>2. /\ down' \in [Clients -> Seq(Packet)]
      /\ \A d \in Clients : Carried(down[d]) \subseteq Carried(down'[d])
      /\ \A d \in Clients : \A p \in Range(down'[d]) :
            p \in Range(down[d]) \/ p.event \in {"full", "update"} \/ p.data = {}
      /\ c \in joined => room \ Head(up[c]).data \subseteq Carried(down'[c])
  <2> DEFINE m == Msg("update", room \ Head(up[c]).data)
  <2>1. CASE c \in joined
    <3>1. room \ Head(up[c]).data \in SUBSET Updates
      BY DEF TypeOK
    <3>2. m \in Packet /\ m.event = "update" /\ m.data = room \ Head(up[c]).data
      BY <3>1, MsgType
    <3>3. down' = Sent({c}, <<m>>)
      BY <2>1 DEF HandleVector
    <3>4. c \in online
      BY <2>1 DEF TypeOK
    <3> HIDE DEF m
    <3>5. QED  BY <3>2, <3>3, <3>4, OneSent
  <2>2. CASE c \notin joined
    BY <2>2 DEF HandleVector, TypeOK
  <2>3. QED  BY <2>1, <2>2
<1>3. UNCHANGED <<browser, network, handlers, text, access, secure>>
  BY DEF HandleVector
<1> USE DEF browser, view, requests, network, handlers, text, access
<1>4. /\ \A d \in Clients : Caught(up[d], doc[d]) => Caught(up'[d], doc'[d])
      /\ \A d \in Clients \ {c} : Seeks(up[d], doc[d]) => Seeks(up'[d], doc'[d])
      /\ Seeks(up[c], doc[c]) => Seeks(up'[c], doc'[c]) \/ Head(up[c]).data \subseteq doc[c]
  <2>1. UNCHANGED doc /\ Handles(c, "vector")
    BY <1>3 DEF HandleVector
  <2>2. QED  BY <2>1, HandlesAsks
<1>5. TypeOK'
  BY <1>1, <1>2, <1>3 DEF TypeOK
<1>6. Wired'
  BY <1>1, <1>3 DEF Wired
<1>7. Rebuilt'
  BY <1>3, <1>4, RebuiltKept
<1>8. PlainPackets' /\ LateJoins'
  BY <1>2, <1>3, PlainKept, LateKept
<1>9. SecureMembers' /\ Arriving'
  BY <1>1, <1>3, SecureKept DEF TypeOK
<1>10. Gapless'
  <2> SUFFICES ASSUME NEW d \in joined, page[d] = "open", joining[d].pc # "member",
                      ~Seeks(up'[d], doc'[d])
               PROVE  room \subseteq doc[d] \cup joining[d].state \cup Carried(down'[d])
    BY <1>3 DEF Gapless
  <2>1. d \in Clients
    BY DEF TypeOK
  <2>2. CASE Seeks(up[d], doc[d])
    <3>1. d = c
      BY <1>4, <2>1, <2>2
    <3>2. Head(up[c]).data \subseteq doc[c]
      BY <1>4, <2>2, <3>1
    <3>3. QED  BY <1>2, <3>1, <3>2
  <2>3. CASE ~Seeks(up[d], doc[d])
    <3>1. room \subseteq doc[d] \cup joining[d].state \cup Carried(down[d])
      BY <2>3, LossNow DEF Gapless
    <3>2. QED  BY <1>2, <2>1, <3>1
  <2>4. QED  BY <2>2, <2>3
<1>11. QED  BY <1>5, <1>6, <1>7, <1>8, <1>9, <1>10, LossNext

\* An update of a member reaches the live document and every other member.
LEMMA UpdateHandled ==
    ASSUME CollabInv, NEW c \in Clients, HandleUpdate(c)
    PROVE  CollabInv'
<1> USE DEF CollabInv
<1> DEFINE m == Head(up[c])
<1>1. /\ up' \in [Clients -> Seq(Packet)] /\ up[c] # <<>>
      /\ \A d \in Clients \ {c} : up'[d] = up[d]
      /\ Range(up[c]) = {m} \cup Range(up'[c])
      /\ m \in Packet /\ m.event = "update"
  BY HandlesShape DEF HandleUpdate
<1>2. /\ UNCHANGED <<browser, network, handlers, author, after, access, secure>>
      /\ \/ c \in joined /\ room' = room \cup m.data /\ down' = Sent(joined \ {c}, <<m>>)
         \/ c \notin joined /\ UNCHANGED <<room, down>>
  BY DEF HandleUpdate
<1>3. /\ m.data \subseteq Updates
      /\ \A d \in Clients : Caught(up[d], doc[d]) => Caught(up'[d], doc'[d])
      /\ \A d \in Clients : Seeks(up[d], doc[d]) => Seeks(up'[d], doc'[d])
      /\ page[c] = "open" => m.data \subseteq doc[c] \/ Seeks(up'[c], doc'[c])
  <2>1. UNCHANGED doc /\ Handles(c, "update")
    BY <1>2 DEF HandleUpdate, browser, view
  <2>2. page[c] = "open" => Caught(up[c], doc[c])
    BY DEF Rebuilt
  <2>3. m.data \subseteq Updates
    BY <1>1 DEF Packet
  <2>4. QED  BY <2>1, <2>2, <2>3, HandlesAsks
<1> HIDE DEF m
<1>4. /\ down' \in [Clients -> Seq(Packet)]
      /\ \A d \in Clients : /\ Carried(down[d]) \subseteq Carried(down'[d])
                            /\ c \in joined /\ d \in joined \ {c} => m.data \subseteq Carried(down'[d])
      /\ \A d \in Clients : \A p \in Range(down'[d]) :
            p \in Range(down[d]) \/ p.event \in {"full", "update"} \/ p.data = {}
  <2>1. CASE c \in joined
    <3>1. joined \subseteq online /\ down' = Sent(joined \ {c}, <<m>>)
      BY <1>2, <2>1 DEF TypeOK
    <3>2. QED  BY <1>1, <3>1, OneSent
  <2>2. CASE c \notin joined
    BY <1>2, <2>2 DEF TypeOK
  <2>3. QED  BY <2>1, <2>2
<1> USE DEF browser, view, requests, network, handlers, access
<1>5. TypeOK'
  <2>1. room' \subseteq Updates
    BY <1>2, <1>3 DEF TypeOK
  <2>2. QED  BY <1>1, <1>2, <1>4, <2>1 DEF TypeOK
<1>6. Wired'
  BY <1>1, <1>2 DEF Wired
<1>7. Rebuilt'
  BY <1>2, <1>3, RebuiltKept
<1>8. PlainPackets' /\ LateJoins'
  BY <1>2, <1>4, PlainKept, LateKept
<1>9. SecureMembers' /\ Arriving'
  BY <1>1, <1>2, SecureKept DEF TypeOK
<1>10. Gapless'
  <2> SUFFICES ASSUME NEW d \in joined, page[d] = "open", joining[d].pc # "member",
                      ~Seeks(up'[d], doc'[d])
               PROVE  room' \subseteq doc[d] \cup joining[d].state \cup Carried(down'[d])
    BY <1>2 DEF Gapless
  <2>1. d \in Clients
    BY DEF TypeOK
  <2>2. room \subseteq doc[d] \cup joining[d].state \cup Carried(down[d])
    BY <1>3, <2>1, LossNow DEF Gapless
  <2>3. CASE c \in joined
    BY <1>2, <1>3, <1>4, <2>1, <2>2, <2>3
  <2>4. CASE c \notin joined
    BY <1>2, <1>4, <2>2, <2>4
  <2>5. QED  BY <2>3, <2>4
<1>11. QED  BY <1>5, <1>6, <1>7, <1>8, <1>9, <1>10, LossNext

LEMMA JoinEnteredKeeps ==
    ASSUME CollabInv, NEW c \in Clients, JoinEntered(c)
    PROVE  CollabInv'
<1> USE DEF CollabInv, JoinEntered, browser, view, requests, network, text, access
<1>1. /\ joining' \in [Clients -> JoinState] /\ joining'[c].pc = "member"
      /\ \A d \in Clients \ {c} : joining'[d] = joining[d]
  BY DEF TypeOK, JoinState
<1>2. TypeOK'
  BY <1>1 DEF TypeOK, Wired
<1>3. Wired'
  BY <1>1 DEF Wired
<1>4. Rebuilt' /\ PlainPackets'
  BY RebuiltKept, PlainKept
<1>5. LateJoins'
  BY <1>1 DEF LateJoins
<1>6. SecureMembers' /\ Arriving'
  BY SecureKept
<1>7. Gapless'
  <2> SUFFICES ASSUME NEW d \in joined', page[d] = "open", joining'[d].pc # "member",
                      ~Seeks(up[d], doc[d])
               PROVE  room \subseteq doc[d] \cup joining'[d].state \cup Carried(down[d])
    BY DEF Gapless
  <2>1. d \in joined /\ d # c /\ d \in Clients
    BY <1>1, <1>2 DEF TypeOK
  <2>2. QED  BY <1>1, <2>1, LossNow DEF Gapless
<1>8. QED  BY <1>2, <1>3, <1>4, <1>5, <1>6, <1>7, LossNext

\* The state is encoded when the socket is a member: it lacks nothing.
LEMMA JoinEncodedKeeps ==
    ASSUME CollabInv, NEW c \in Clients, JoinEncoded(c)
    PROVE  CollabInv'
<1> USE DEF CollabInv, JoinEncoded, browser, view, requests, network, text, access
<1>1. /\ joining' \in [Clients -> JoinState] /\ joining'[c] = [pc |-> "encoded", state |-> room]
      /\ \A d \in Clients \ {c} : joining'[d] = joining[d]
  BY DEF TypeOK, JoinState
<1>2. TypeOK'
  BY <1>1 DEF TypeOK
<1>3. Wired'
  BY <1>1 DEF Wired
<1>4. Rebuilt' /\ PlainPackets'
  BY RebuiltKept, PlainKept
<1>5. LateJoins'
  BY <1>1, LateKept
<1>6. SecureMembers' /\ Arriving'
  BY SecureKept
<1>7. Gapless'
  <2> SUFFICES ASSUME NEW d \in joined, page[d] = "open", joining'[d].pc # "member",
                      ~Seeks(up[d], doc[d])
               PROVE  room \subseteq doc[d] \cup joining'[d].state \cup Carried(down[d])
    BY DEF Gapless
  <2>1. CASE d = c
    BY <1>1, <2>1
  <2>2. CASE d # c
    BY <1>1, <2>2, LossNow DEF Gapless, TypeOK
  <2>3. QED  BY <2>1, <2>2
<1>8. QED  BY <1>2, <1>3, <1>4, <1>5, <1>6, <1>7, LossNext

\* The encoded state moves from the handler to the connection.
LEMMA JoinAnsweredKeeps ==
    ASSUME CollabInv, NEW c \in Clients, JoinAnswered(c)
    PROVE  CollabInv'
<1> USE DEF CollabInv
<1> DEFINE m == Msg("full", joining[c].state)
<1>1. m \in Packet /\ m.event = "full" /\ m.data = joining[c].state
  <2>1. joining[c].state \in SUBSET Updates
    BY DEF TypeOK, JoinState
  <2>2. QED  BY <2>1, MsgType
<1>2. /\ UNCHANGED <<browser, network, up, joined, text, access, secure>>
      /\ joining[c].pc = "encoded" /\ joining' = [joining EXCEPT ![c] = Idle]
      /\ down' = Sent({c}, <<m>>)
  BY DEF JoinAnswered
<1> HIDE DEF m
<1>3. /\ joining' \in [Clients -> JoinState] /\ joining'[c].pc = "idle"
      /\ \A d \in Clients \ {c} : joining'[d] = joining[d]
  BY <1>2 DEF TypeOK, JoinState, Idle
<1>4. /\ down' \in [Clients -> Seq(Packet)]
      /\ \A d \in Clients : Carried(down[d]) \subseteq Carried(down'[d])
      /\ joining[c].state \subseteq Carried(down'[c])
      /\ \A d \in Clients : \A p \in Range(down'[d]) :
            p \in Range(down[d]) \/ p.event \in {"full", "update"} \/ p.data = {}
  <2>1. c \in online
    BY <1>2 DEF Wired
  <2>2. QED  BY <1>1, <1>2, <2>1, OneSent
<1> USE DEF browser, view, requests, network, text, access
<1>5. TypeOK'
  BY <1>2, <1>3, <1>4 DEF TypeOK
<1>6. Wired'
  BY <1>2, <1>3 DEF Wired
<1>7. Rebuilt' /\ PlainPackets'
  BY <1>2, <1>4, RebuiltKept, PlainKept
<1>8. LateJoins'
  BY <1>2, <1>3, LateKept
<1>9. SecureMembers' /\ Arriving'
  BY <1>2, SecureKept
<1>10. Gapless'
  BY <1>2, <1>3, <1>4, GapKept DEF TypeOK
<1>11. QED  BY <1>5, <1>6, <1>7, <1>8, <1>9, <1>10, LossNext

LEMMA SaveVisibilityKeeps ==
    ASSUME CollabInv, NEW v \in BOOLEAN, SaveVisibility(v)
    PROVE  CollabInv'
<1> USE DEF CollabInv, SaveVisibility, browser, view, requests, network, handlers, text
<1>1. TypeOK'
  BY BoundsAssumption DEF TypeOK
<1>2. Wired' /\ Rebuilt' /\ PlainPackets'
  BY RebuiltKept, PlainKept DEF Wired
<1>3. LateJoins'
  BY DEF LateJoins, TypeOK
<1>4. SecureMembers' /\ Arriving'
  BY SecureKept
<1>5. Gapless'
  BY GapKept
<1>6. QED  BY <1>1, <1>2, <1>3, <1>4, <1>5, LossNext

\* The announcement goes to the members; strangers are put out and forgotten.
LEMMA AnnounceKeeps ==
    ASSUME CollabInv, NEW v \in BOOLEAN, Announce(v)
    PROVE  CollabInv'
<1> USE DEF CollabInv
<1> DEFINE gone == IF v THEN {} ELSE Strangers
<1>1. /\ announcing' = announcing \ {v} /\ joined' = joined \ gone
      /\ secure' = secure \ UNION {Typed(c) : c \in gone}
      /\ late' = IF v THEN late ELSE {c \in Clients : joining[c].pc = "checked"}
      /\ patched' = patched + 1
      /\ UNCHANGED <<view, buffer, checking, loads, network, up, joining, text, isPublic, toggles>>
  BY DEF Announce
<1>2. gone \in SUBSET Clients
  BY DEF Strangers, TypeOK
<1>3. /\ down' \in [Clients -> Seq(Packet)]
      /\ \A d \in Clients : Carried(down[d]) \subseteq Carried(down'[d])
      /\ \A d \in Clients : \A p \in Range(down'[d]) :
            p \in Range(down[d]) \/ p.event \in {"full", "update"} \/ p.data = {}
  <2> DEFINE pub == Msg("public", {})
             priv == Msg("private", {})
             kick == Msg("kicked", {})
  <2>1. /\ pub \in Packet /\ pub.data = {} /\ priv \in Packet /\ priv.data = {}
        /\ kick \in Packet /\ kick.data = {}
    BY MsgType
  <2>2. /\ v => down' = Sent(joined, <<pub>>)
        /\ ~v => down' = [c \in Clients |-> IF c \in Strangers
                                           THEN Sent({c}, <<priv, kick>>)[c]
                                           ELSE Sent(joined, <<priv>>)[c]]
    BY DEF Announce
  <2> HIDE DEF pub, priv, kick
  <2>3. CASE v
    BY <2>1, <2>2, <2>3, OneSent
  <2>4. CASE ~v
    <3> DEFINE one == <<priv>>
               two == <<priv, kick>>
               toStrangers(c) == Sent({c}, two)
               toMembers == Sent(joined, one)
    <3>1. /\ one \in Seq(Packet) /\ Range(one) = {priv}
          /\ two \in Seq(Packet) /\ Range(two) = {priv, kick}
      BY <2>1, OnePacket, TwoPackets
    <3> HIDE DEF one, two
    <3>2. /\ toMembers \in [Clients -> Seq(Packet)]
          /\ \A d \in Clients : /\ Carried(down[d]) \subseteq Carried(toMembers[d])
                                /\ Range(toMembers[d]) \subseteq Range(down[d]) \cup {priv}
      BY <3>1, SentShape
    <3>3. ASSUME NEW c \in Clients
          PROVE  /\ toStrangers(c) \in [Clients -> Seq(Packet)]
                 /\ \A d \in Clients :
                       /\ Carried(down[d]) \subseteq Carried(toStrangers(c)[d])
                       /\ Range(toStrangers(c)[d]) \subseteq Range(down[d]) \cup {priv, kick}
      BY <3>1, SentShape
    <3>4. \A d \in Clients :
             down'[d] = IF d \in Strangers THEN toStrangers(d)[d] ELSE toMembers[d]
      BY <2>2, <2>4 DEF one, two
    <3> HIDE DEF toStrangers, toMembers
    <3>5. ASSUME NEW d \in Clients
          PROVE  /\ down'[d] \in Seq(Packet) /\ Carried(down[d]) \subseteq Carried(down'[d])
                 /\ Range(down'[d]) \subseteq Range(down[d]) \cup {priv, kick}
      BY <3>2, <3>3, <3>4
    <3>6. down' \in [Clients -> Seq(Packet)]
      BY <2>2, <2>4, <3>5
    <3>7. QED  BY <2>1, <3>5, <3>6
  <2>5. QED  BY <2>3, <2>4
<1> HIDE DEF gone
<1> USE DEF view, network, text
<1>4. TypeOK'
  BY <1>1, <1>2, <1>3 DEF TypeOK
<1>5. Wired'
  BY <1>1 DEF Wired
<1>6. Rebuilt' /\ PlainPackets'
  BY <1>1, <1>3, RebuiltKept, PlainKept
<1>7. LateJoins'
  BY <1>1 DEF LateJoins, gone, Strangers
<1>8. SecureMembers' /\ Arriving'
  BY <1>1, <1>2, SecureForgets
<1>9. Gapless'
  BY <1>1, <1>3, GapKept DEF TypeOK
<1>10. QED  BY <1>4, <1>5, <1>6, <1>7, <1>8, <1>9, LossNext

LEMMA StutterKeeps ==
    ASSUME CollabInv, UNCHANGED vars
    PROVE  CollabInv'
<1> USE DEF CollabInv, vars, browser, view, requests, network, handlers, text, access
<1>1. TypeOK' /\ Wired' /\ LateJoins'
  BY DEF TypeOK, Wired, LateJoins
<1>2. Rebuilt' /\ PlainPackets' /\ SecureMembers' /\ Arriving' /\ Gapless'
  BY RebuiltKept, PlainKept, SecureKept, GapKept
<1>3. QED  BY <1>1, <1>2, LossNext

LEMMA InvNext == CollabInv /\ [Next]_vars => CollabInv'
<1> SUFFICES ASSUME CollabInv, [Next]_vars PROVE CollabInv'
  OBVIOUS
<1>1. ASSUME NEW c \in Clients,
             Open(c) \/ Close(c) \/ Connect(c) \/ LinkDrops(c) \/ TokenChanges(c)
               \/ LoadAnswered(c) \/ AccessAnswered(c)
      PROVE  CollabInv'
  BY <1>1, OpenKeeps, CloseKeeps, ConnectKeeps, LinkDropsKeeps, TokenChangesKeeps,
     LoadedKeeps, LoadFailsKeeps, AccessAnsweredKeeps DEF LoadAnswered
<1>2. ASSUME NEW c \in Clients, Receive(c)
      PROVE  CollabInv'
  BY <1>2, ReceiveUpdateKeeps, ReceivePublicKeeps, ReceivePrivateKeeps, ReceiveKickedKeeps
     DEF Receive
<1>3. ASSUME NEW c \in Clients, Handle(c) \/ JoinStep(c)
      PROVE  CollabInv'
  BY <1>3, JoinHandled, LeaveHandled, VectorHandled, UpdateHandled, JoinEnteredKeeps,
     JoinEncodedKeeps, JoinAnsweredKeeps DEF Handle, JoinStep
<1>4. QED  BY <1>1, <1>3, <1>2, TypeKeeps, ToggleAnsweredKeeps, SaveVisibilityKeeps, AnnounceKeeps,
     StutterKeeps DEF Next

LEMMA InvAlways == Spec => []CollabInv
<1>1. QED  BY InvInit, InvNext, PTL DEF Spec

(* ------------------------------- Theorems ------------------------------- *)

(* Type correctness; a member of the room is connected.                    *)
THEOREM TypesHold == Spec => []TypeOK
<1>1. CollabInv => TypeOK
  BY DEF CollabInv
<1>2. QED  BY <1>1, InvAlways, PTL

(* The editor of a member lacks nothing that is not on its way, about to   *)
(* be encoded or about to be asked for, however often the page destroys it *)
(* and builds it anew; and what is typed on a member connection arrives,   *)
(* for as long as the membership lasts.                                    *)
THEOREM NothingMissed == Spec => []MembersLoseNothing
<1>1. CollabInv => MembersLoseNothing
  BY DEF CollabInv
<1>2. QED  BY <1>1, InvAlways, PTL

(* After the announcement of a private document only joins that had passed *)
(* canAccess before it can make a stranger a member.                       *)
THEOREM StrangersAreLate == Spec => []StrangersWereLate
<1>1. CollabInv => StrangersWereLate
  BY DEF CollabInv, TypeOK, LateJoins, StrangersWereLate, Strangers
<1>2. QED  BY <1>1, InvAlways, PTL

(* ------------------- Review: what a stream carries ---------------------- *)

\* What streamReview knows of a review's source at each of its awaits.
CallInv(s) ==
    /\ s.notice <=> s.from = "canned"
    /\ s.from # "remark"
    /\ s.sent > 0 => s.from # "none"
    /\ s.from = "live" => s.sent > 0
    /\ s.pc \in {"new", "loading", "store", "embed", "collection", "query", "asking"}
          => s.from = "none" /\ s.sent = 0
    /\ s.pc = "streaming" => s.from \in {"none", "live"}
    /\ s.pc = "canned" => s.from = "canned"

\* A stream that nobody reads is empty, and one not opened is untouched.
Wiring(r) ==
    /\ server[r].pc = "new" <=> r > started
    /\ reader[r].open => r <= started /\ r \notin closed
    /\ ~reader[r].open => net[r] = <<>>
    /\ r \in closed => r <= started
    /\ r > started => reader[r].part = "none"

Kept == \A h \in saved : server[h.review].pc \in {"finishing", "ended"} /\ h = Row(h.review)

\* The script of a stream, of which it carries every line in this order: the
\* notice if there is one, the fragments sent, and the last event with the end.
Script ==
    [notice : BOOLEAN, from : Sources \cup {"none"}, sent : 0 .. NumTokens,
     last : {"none", "done", "error"}]
ScriptOf(r, last) ==
    [notice |-> server[r].notice, from |-> server[r].from, sent |-> server[r].sent,
     last |-> last]
Blank == [notice |-> FALSE, from |-> "none", sent |-> 0, last |-> "none"]
Remark == [notice |-> FALSE, from |-> "remark", sent |-> 1, last |-> "done"]
Refusal == [notice |-> FALSE, from |-> "none", sent |-> 0, last |-> "error"]

\* The script that a call has followed so far.
Follows(r, s) ==
    IF server[r].pc # "ended" THEN s = ScriptOf(r, "none")
    ELSE \/ s = ScriptOf(r, "done")
         \/ server[r].sent = 0 /\ ~server[r].notice /\ s \in {Remark, Refusal}

Ahead(s) == IF s.notice THEN 2 ELSE 0
Length(s) == Ahead(s) + s.sent + (IF s.last = "none" THEN 0 ELSE 3)

LineAt(s, j) ==
    IF j <= Ahead(s)
    THEN IF j = 1 THEN [line |-> "event", name |-> "notice"] ELSE [line |-> "data"]
    ELSE IF j <= Ahead(s) + s.sent
    THEN [line |-> "text", from |-> s.from, index |-> j - Ahead(s)]
    ELSE IF j = Ahead(s) + s.sent + 1 THEN [line |-> "event", name |-> s.last]
    ELSE IF j = Ahead(s) + s.sent + 2 THEN [line |-> "data"] ELSE [line |-> "end"]

\* Of the first p lines: the fragments, and the event whose data has not come.
Fragments(s, p) ==
    IF p <= Ahead(s) THEN 0 ELSE IF p <= Ahead(s) + s.sent THEN p - Ahead(s) ELSE s.sent
Name(s, p) ==
    IF s.notice /\ p = 1 THEN "notice"
    ELSE IF s.last # "none" /\ p = Ahead(s) + s.sent + 1 THEN s.last ELSE "none"

\* The browser has read p lines of the script and not its last event, and the
\* stream carries the others.
Delivered(r, s, p) ==
    /\ p < Length(s) + 1 /\ (s.last = "none" \/ p < Ahead(s) + s.sent + 2)
    /\ Len(net[r]) = Length(s) - p
    /\ \A i \in 1 .. Len(net[r]) : net[r][i] = LineAt(s, p + i)
    /\ reader[r].part = Name(s, p)
    /\ Len(panel.text) = Fragments(s, p)
    /\ \A i \in 1 .. Len(panel.text) :
          panel.text[i] = [review |-> r, from |-> s.from, index |-> i]
    /\ s.notice /\ p >= 2 => panel.notice

\* A panel that loads follows the script of the newest review.
Following ==
    panel.loading =>
       /\ started # 0 /\ reader[started].open
       /\ ~unlocked => \E s \in Script, p \in Nat :
                           Follows(started, s) /\ Delivered(started, s, p)

\* Every other stream that is still read has only its end left.
Ending(r) == net[r] = End /\ server[r].pc = "ended" /\ reader[r].part = "none"
Trailing ==
    ~unlocked => \A r \in Reviews : reader[r].open => (r = started /\ panel.loading) \/ Ending(r)

\* What the panel shows, also when nothing is read any more.
Shown ==
    ~unlocked /\ panel.text # <<>> =>
        /\ started # 0
        /\ \A i \in 1 .. Len(panel.text) :
              panel.text[i] = [review |-> started, from |-> panel.text[1].from, index |-> i]
        /\ panel.text[1].from = "canned" => panel.notice
        /\ \/ /\ panel.text[1].from = server[started].from
              /\ Len(panel.text) <= server[started].sent
           \/ /\ panel.text[1].from = "remark"
              /\ server[started].pc = "ended" /\ server[started].sent = 0

ReviewInv ==
    /\ ReviewTypeOK /\ (\A r \in Reviews : CallInv(server[r]) /\ Wiring(r))
    /\ Kept /\ Following /\ Trailing /\ Shown

(* -------------------------- Lines and scripts --------------------------- *)

LEMMA LinesAreLines ==
    ASSUME NEW name \in Events, NEW from \in Sources, NEW i \in 1 .. NumTokens
    PROVE  /\ Said(name) \in Seq(Line) /\ Text(from, i) \in Seq(Line) /\ End \in Seq(Line)
           /\ Len(Said(name)) = 2 /\ Len(Text(from, i)) = 1 /\ Len(End) = 1
           /\ Said(name)[1] = [line |-> "event", name |-> name] /\ Said(name)[2] = [line |-> "data"]
           /\ Text(from, i)[1] = [line |-> "text", from |-> from, index |-> i]
           /\ End[1] = [line |-> "end"]
<1>1. /\ [line |-> "event", name |-> name] \in Line /\ [line |-> "data"] \in Line
      /\ [line |-> "text", from |-> from, index |-> i] \in Line /\ [line |-> "end"] \in Line
  BY DEF Line
<1>2. QED  BY <1>1 DEF Said, Text, End

LEMMA Joined ==
    ASSUME NEW s \in Seq(Line), NEW t \in Seq(Line)
    PROVE  /\ s \o t \in Seq(Line) /\ Len(s \o t) = Len(s) + Len(t)
           /\ \A i \in 1 .. Len(s) : (s \o t)[i] = s[i]
           /\ \A i \in 1 .. Len(t) : (s \o t)[Len(s) + i] = t[i]
OBVIOUS

\* What a write leaves: nothing for a browser that has gone.
LEMMA Written ==
    ASSUME ReviewTypeOK, NEW r \in Reviews, Wiring(r), NEW lines \in Seq(Line), Write(r, lines)
    PROVE  /\ net' \in [Reviews -> Seq(Line)]
           /\ \A q \in Reviews \ {r} : net'[q] = net[q]
           /\ reader[r].open => net'[r] = net[r] \o lines
           /\ ~reader[r].open => net'[r] = net[r]
<1>1. net[r] \in Seq(Line) /\ net[r] \o lines \in Seq(Line)
  BY Joined DEF ReviewTypeOK
<1>2. QED  BY <1>1 DEF ReviewTypeOK, Wiring, Write

\* A script that goes on where another one ended.
Extends(s, t, lines) ==
    /\ Length(t) = Length(s) + Len(lines)
    /\ \A j \in 1 .. Length(s) : LineAt(t, j) = LineAt(s, j)
    /\ \A i \in 1 .. Len(lines) : LineAt(t, Length(s) + i) = lines[i]
    /\ \A p \in 0 .. Length(s) : Fragments(t, p) = Fragments(s, p) /\ Name(t, p) = Name(s, p)
    /\ s.sent > 0 => t.from = s.from
    /\ t.notice => s.notice \/ Length(s) = 0
    /\ Length(s) <= Ahead(t) + t.sent

LEMMA ScriptNumbers ==
    ASSUME NEW s \in Script
    PROVE  /\ Ahead(s) \in {0, 2} /\ Length(s) \in Nat /\ s.sent \in Nat
           /\ \A p \in Nat : Fragments(s, p) \in Nat /\ Fragments(s, p) <= s.sent
BY ReviewAssumption DEF Script, Ahead, Length, Fragments

LEMMA DeliveredExtends ==
    ASSUME ReviewTypeOK, NEW r \in Reviews, NEW s \in Script, NEW t \in Script, NEW p \in Nat,
           NEW lines \in Seq(Line), Extends(s, t, lines), s.last = "none",
           Delivered(r, s, p), net'[r] = net[r] \o lines, UNCHANGED <<panel, reader>>
    PROVE  Delivered(r, t, p)'
<1>1. net[r] \in Seq(Line) /\ panel.text \in Seq(Fragment)
  BY DEF ReviewTypeOK
<1>2. /\ Len(net[r]) \in Nat /\ Len(lines) \in Nat /\ Length(s) \in Nat /\ Length(t) \in Nat
      /\ Len(net[r]) = Length(s) - p /\ Length(t) = Length(s) + Len(lines) /\ p \in 0 .. Length(s)
      /\ Ahead(t) \in Nat /\ t.sent \in Nat
  <2>1. /\ Len(net[r]) \in Nat /\ Len(lines) \in Nat /\ Length(s) \in Nat /\ Length(t) \in Nat
        /\ Ahead(t) \in Nat /\ t.sent \in Nat
    <3>1. Len(net[r]) \in Nat /\ Len(lines) \in Nat
      BY <1>1
    <3>2. Length(s) \in Nat /\ Length(t) \in Nat
      BY ScriptNumbers
    <3>3. Ahead(t) \in {0, 2} /\ t.sent \in Nat
      BY ScriptNumbers
    <3>4. QED  BY <3>1, <3>2, <3>3
  <2>2. Len(net[r]) = Length(s) - p /\ Length(t) = Length(s) + Len(lines)
    BY DEF Delivered, Extends
  <2>3. p \in 0 .. Length(s)
    BY <2>1, <2>2
  <2>4. QED  BY <2>1, <2>2, <2>3
<1>3. Len(net'[r]) = Length(t) - p
  <2>1. Len(net'[r]) = Len(net[r]) + Len(lines)
    BY <1>1, Joined
  <2>2. QED  BY <2>1, <1>2
<1>4. ASSUME NEW i \in 1 .. Len(net'[r]) PROVE net'[r][i] = LineAt(t, p + i)
  <2>1. CASE i <= Len(net[r])
    <3>1. i \in 1 .. Len(net[r]) /\ p + i \in 1 .. Length(s)
      BY <1>2, <1>3, <2>1
    <3>2. net'[r][i] = net[r][i]
      BY <3>1, <1>1, Joined
    <3>3. QED  BY <3>1, <3>2 DEF Delivered, Extends
  <2>2. CASE i > Len(net[r])
    <3> DEFINE k == i - Len(net[r])
    <3>0. Len(net'[r]) = Len(net[r]) + Len(lines) /\ i \in Nat
      BY <1>2, <1>3
    <3>1. k \in 1 .. Len(lines) /\ i = Len(net[r]) + k /\ p + i = Length(s) + k
      <4>1. k \in 1 .. Len(lines)
        BY <1>2, <3>0, <2>2
      <4>2. i = Len(net[r]) + k
        BY <1>2, <3>0
      <4>3. p + i = Length(s) + k
        BY <1>2, <3>0
      <4>4. QED  BY <4>1, <4>2, <4>3
    <3>2. net'[r][i] = lines[k]
      BY <3>1, <1>1, Joined
    <3>3. LineAt(t, Length(s) + k) = lines[k]
      BY <3>1 DEF Extends
    <3>4. QED  BY <3>1, <3>2, <3>3
  <2>3. QED  BY <2>1, <2>2, <1>2, <1>3
<1>5. reader'[r].part = Name(t, p) /\ Len(panel'.text) = Fragments(t, p)
  BY <1>2 DEF Delivered, Extends
<1>6. \A i \in 1 .. Len(panel'.text) : panel'.text[i] = [review |-> r, from |-> t.from, index |-> i]
  <2>1. /\ Len(panel.text) \in Nat /\ s.sent \in Nat
        /\ Fragments(s, p) \in Nat /\ Fragments(s, p) <= s.sent
    <3>1. \A q \in Nat : Fragments(s, q) \in Nat /\ Fragments(s, q) <= s.sent
      BY ScriptNumbers
    <3>2. s.sent \in Nat
      BY ScriptNumbers
    <3>3. Len(panel.text) \in Nat
      BY <1>1
    <3>4. Fragments(s, p) \in Nat /\ Fragments(s, p) <= s.sent
      BY <3>1
    <3>5. QED  BY <3>2, <3>3, <3>4
  <2>2. Len(panel.text) = Fragments(s, p)
    BY DEF Delivered
  <2>3. Len(panel.text) > 0 => s.sent > 0
    BY <2>1, <2>2
  <2>4. QED  BY <2>1, <2>3 DEF Delivered, Extends
<1>7. t.notice /\ p >= 2 => panel'.notice
  BY <1>2 DEF Delivered, Extends
<1>8. p < Length(t) + 1 /\ (t.last = "none" \/ p < Ahead(t) + t.sent + 2)
  BY <1>2 DEF Extends
<1>9. QED  BY <1>3, <1>4, <1>5, <1>6, <1>7, <1>8 DEF Delivered

LEMMA ExtendsNothing ==
    ASSUME NEW s \in Script, s.last = "none"
    PROVE  Extends(s, s, <<>>)
BY ScriptNumbers DEF Extends, Length

LEMMA ExtendsNotice ==
    ASSUME NEW t \in Script, t.notice, t.sent = 0, t.last = "none"
    PROVE  Extends(Blank, t, Said("notice"))
BY DEF Extends, Blank, Length, LineAt, Fragments, Name, Ahead, Said, Script

LEMMA ExtendsText ==
    ASSUME NEW s \in Script, NEW t \in Script, s.last = "none", t.last = "none",
           s.sent > 0 => t.from = s.from, t.notice = s.notice, t.sent = s.sent + 1
    PROVE  Extends(s, t, Text(t.from, t.sent))
<1>1. s.sent \in Nat /\ Ahead(s) \in {0, 2} /\ Ahead(t) = Ahead(s)
  BY DEF Script, Ahead
<1>2. Length(s) = Ahead(s) + s.sent /\ Length(t) = Length(s) + 1
  BY <1>1 DEF Length
<1>3. Len(Text(t.from, t.sent)) = 1
      /\ Text(t.from, t.sent)[1] = [line |-> "text", from |-> t.from, index |-> t.sent]
  BY DEF Text
<1>4. \A j \in 1 .. Length(s) : LineAt(t, j) = LineAt(s, j)
  BY <1>1, <1>2 DEF LineAt
<1>5. \A i \in 1 .. Len(Text(t.from, t.sent)) :
          LineAt(t, Length(s) + i) = Text(t.from, t.sent)[i]
  BY <1>1, <1>2, <1>3 DEF LineAt
<1>6. \A p \in 0 .. Length(s) : Fragments(t, p) = Fragments(s, p) /\ Name(t, p) = Name(s, p)
  BY <1>1, <1>2 DEF Fragments, Name
<1>7. QED  BY <1>1, <1>2, <1>3, <1>4, <1>5, <1>6 DEF Extends

LEMMA LastLines ==
    ASSUME NEW name \in Events
    PROVE  /\ Said(name) \o End \in Seq(Line) /\ Len(Said(name) \o End) = 3
           /\ (Said(name) \o End)[1] = [line |-> "event", name |-> name]
           /\ (Said(name) \o End)[2] = [line |-> "data"]
           /\ (Said(name) \o End)[3] = [line |-> "end"]
<1>1. 1 \in 1 .. NumTokens /\ "live" \in Sources
  BY ReviewAssumption DEF Sources
<1>2. Said(name) \in Seq(Line) /\ End \in Seq(Line)
  BY <1>1, LinesAreLines
<1>3. QED  BY <1>2 DEF Said, End

LEMMA ExtendsEnd ==
    ASSUME NEW s \in Script, NEW t \in Script, s.last = "none", t.last \in Events,
           t.from = s.from, t.notice = s.notice, t.sent = s.sent
    PROVE  Extends(s, t, Said(t.last) \o End)
<1>1. s.sent \in Nat /\ Ahead(s) \in {0, 2} /\ Ahead(t) = Ahead(s) /\ t.last # "none"
  BY DEF Script, Ahead, Events
<1>2. Length(s) = Ahead(s) + s.sent /\ Length(t) = Length(s) + 3
  BY <1>1 DEF Length
<1>3. \A j \in 1 .. Length(s) : LineAt(t, j) = LineAt(s, j)
  BY <1>1, <1>2 DEF LineAt
<1>4. \A i \in 1 .. 3 : LineAt(t, Length(s) + i) = (Said(t.last) \o End)[i]
  <2>1. LineAt(t, Length(s) + 1) = [line |-> "event", name |-> t.last]
    BY <1>1, <1>2 DEF LineAt
  <2>2. LineAt(t, Length(s) + 2) = [line |-> "data"]
    BY <1>1, <1>2 DEF LineAt
  <2>3. LineAt(t, Length(s) + 3) = [line |-> "end"]
    BY <1>1, <1>2 DEF LineAt
  <2>4. QED  BY <2>1, <2>2, <2>3, LastLines
<1>5. \A p \in 0 .. Length(s) : Fragments(t, p) = Fragments(s, p) /\ Name(t, p) = Name(s, p)
  BY <1>1, <1>2 DEF Fragments, Name
<1>6. Len(Said(t.last) \o End) = 3
  BY LastLines
<1>7. \A i \in 1 .. Len(Said(t.last) \o End) : LineAt(t, Length(s) + i) = (Said(t.last) \o End)[i]
  BY <1>4, <1>6
<1>8. Length(t) = Length(s) + Len(Said(t.last) \o End) /\ Length(s) <= Ahead(t) + t.sent
  BY <1>1, <1>2, <1>6
<1>9. QED  BY <1>1, <1>3, <1>5, <1>7, <1>8 DEF Extends

LEMMA ExtendsRemark == Extends(Blank, Remark, Text("remark", 1) \o Said("done") \o End)
BY DEF Extends, Blank, Remark, Length, LineAt, Fragments, Name, Ahead, Said, Text, End

LEMMA RemarkLines == Text("remark", 1) \o Said("done") \o End \in Seq(Line)
<1>1. 1 \in 1 .. NumTokens
  BY ReviewAssumption
<1>2. /\ Text("remark", 1) \in Seq(Line) /\ Said("done") \in Seq(Line) /\ End \in Seq(Line)
  BY <1>1, LinesAreLines DEF Sources, Events
<1>3. QED  BY <1>2

(* ------------------------------ The server ------------------------------ *)

LEMMA CallFacts ==
    ASSUME NEW call \in Call
    PROVE  /\ call.pc \in Phases /\ call.model \in 1 .. NumModels
           /\ call.from \in Sources \cup {"none"} /\ call.sent \in 0 .. NumTokens
           /\ call.notice \in BOOLEAN
BY DEF Call

LEMMA ScriptsAre ==
    ASSUME ReviewTypeOK, NEW r \in Reviews, NEW last \in {"none", "done", "error"}
    PROVE  /\ ScriptOf(r, last) \in Script /\ Remark \in Script /\ Refusal \in Script
           /\ ScriptOf(r, last).from = server[r].from /\ ScriptOf(r, last).sent = server[r].sent
           /\ ScriptOf(r, last).notice = server[r].notice /\ ScriptOf(r, last).last = last
<1>1. server[r] \in Call
  BY DEF ReviewTypeOK
<1>2. /\ server[r].from \in Sources \cup {"none"} /\ server[r].sent \in 0 .. NumTokens
      /\ server[r].notice \in BOOLEAN
  BY <1>1, CallFacts
<1>3. Remark \in Script /\ Refusal \in Script
  BY ReviewAssumption DEF Script, Remark, Refusal, Sources
<1>4. QED  BY <1>2, <1>3 DEF ScriptOf, Script

\* What a step of streamReview keeps, whatever it writes.
LEMMA ServerKeeps ==
    ASSUME ReviewInv, NEW r \in Reviews, NEW call \in Call, NEW lines \in Seq(Line),
           Becomes(r, call), Write(r, lines), UNCHANGED <<panelVars, closed>>,
           server[r].pc \notin {"new", "ended"}, call.pc # "new", CallInv(call),
           saved' \subseteq SavedReview, vectorStore' \in BOOLEAN, Kept',
           server[r].sent > 0 => call.from = server[r].from, server[r].sent <= call.sent,
           reader[r].open =>
               \E t \in Script : Follows(r, t)' /\ Extends(ScriptOf(r, "none"), t, lines)
    PROVE  ReviewInv'
<1> USE DEF ReviewInv
<1>1. UNCHANGED <<started, panel, reader, unlocked, closed>>
  BY DEF panelVars
<1>2. /\ net' \in [Reviews -> Seq(Line)] /\ \A q \in Reviews \ {r} : net'[q] = net[q]
      /\ reader[r].open => net'[r] = net[r] \o lines
      /\ ~reader[r].open => net'[r] = net[r]
  BY Written
<1>3. /\ server' \in [Reviews -> Call] /\ server'[r] = call
      /\ \A q \in Reviews \ {r} : server'[q] = server[q]
  BY DEF ReviewTypeOK, Becomes
<1>4. ReviewTypeOK'
  BY <1>1, <1>2, <1>3 DEF ReviewTypeOK
<1>5. ASSUME NEW q \in Reviews PROVE (CallInv(server[q]) /\ Wiring(q))'
  <2>1. CASE q = r
    BY <1>1, <1>2, <1>3, <2>1 DEF Wiring, CallInv
  <2>2. CASE q # r
    BY <1>1, <1>2, <1>3, <2>2 DEF Wiring, CallInv
  <2>3. QED  BY <2>1, <2>2
<1>6. Following'
  <2> SUFFICES ASSUME panel.loading, ~unlocked, started # 0, reader[started].open
               PROVE  \E s \in Script, p \in Nat :
                          Follows(started, s)' /\ Delivered(started, s, p)'
    BY <1>1 DEF Following
  <2>1. started \in Reviews
    BY DEF ReviewTypeOK, Reviews
  <2>2. PICK s \in Script, p \in Nat : Follows(started, s) /\ Delivered(started, s, p)
    BY DEF Following
  <2>3. CASE started # r
    <3>1. server'[started] = server[started] /\ net'[started] = net[started]
      BY <1>2, <1>3, <2>1, <2>3
    <3>2. Follows(started, s)'
      BY <1>1, <2>2, <3>1 DEF Follows, ScriptOf
    <3>3. Delivered(started, s, p)'
      BY <1>1, <2>2, <3>1 DEF Delivered
    <3>4. QED  BY <3>2, <3>3
  <2>4. CASE started = r
    <3>1. PICK t \in Script : Follows(r, t)' /\ Extends(ScriptOf(r, "none"), t, lines)
      BY <2>4
    <3>2. s = ScriptOf(r, "none") /\ s.last = "none"
      BY <2>2, <2>4, ScriptsAre DEF Follows
    <3>3. Delivered(r, t, p)'
      BY <1>1, <1>2, <2>2, <2>4, <3>1, <3>2, DeliveredExtends
    <3>4. QED  BY <1>1, <2>4, <3>1, <3>3
  <2>5. QED  BY <2>3, <2>4
<1>7. Trailing'
  BY <1>1, <1>2, <1>3 DEF Trailing, Ending
<1>8. Shown'
  <2> SUFFICES ASSUME ~unlocked, panel.text # <<>> PROVE Shown'
    BY <1>1 DEF Shown
  <2>1. started \in Reviews
    BY DEF ReviewTypeOK, Reviews, Shown
  <2>2. CASE started # r
    BY <1>1, <1>3, <2>1, <2>2 DEF Shown
  <2>3. CASE started = r
    <3>1. panel.text[1].from = server[r].from /\ Len(panel.text) <= server[r].sent
      BY <2>3 DEF Shown
    <3>2. /\ Len(panel.text) \in Nat /\ Len(panel.text) > 0
          /\ server[r].sent \in Nat /\ call.sent \in Nat
      BY <2>1, CallFacts DEF ReviewTypeOK
    <3>3. server[r].sent > 0 /\ Len(panel.text) <= call.sent
      BY <3>1, <3>2
    <3>4. panel.text[1].from = call.from
      BY <3>1, <3>3
    <3>5. QED  BY <1>1, <1>3, <2>3, <3>3, <3>4 DEF Shown
  <2>4. QED  BY <2>2, <2>3
<1>9. QED  BY <1>4, <1>5, <1>6, <1>7, <1>8

\* A step that writes nothing.
LEMMA Unwritten ==
    ASSUME ReviewTypeOK, NEW r \in Reviews, UNCHANGED net
    PROVE  Write(r, <<>>) /\ <<>> \in Seq(Line)
<1>1. net[r] \in Seq(Line) /\ net \in [Reviews -> Seq(Line)]
  BY DEF ReviewTypeOK
<1>2. net[r] \o <<>> = net[r]
  BY <1>1
<1>3. net = [net EXCEPT ![r] = net[r]]
  BY <1>1
<1>4. QED  BY <1>2, <1>3 DEF Write

\* The history and a step that does not write it.
LEMMA KeptKeeps ==
    ASSUME ReviewInv, NEW r \in Reviews, NEW call \in Call, Becomes(r, call), UNCHANGED saved,
           server[r].pc # "ended",
           server[r].pc = "finishing" =>
               /\ call.pc = "ended" /\ call.from = server[r].from
               /\ call.sent = server[r].sent /\ call.notice = server[r].notice
    PROVE  Kept'
<1>1. /\ server' \in [Reviews -> Call] /\ server'[r] = call
      /\ \A q \in Reviews \ {r} : server'[q] = server[q]
  BY DEF ReviewInv, ReviewTypeOK, Becomes
<1>2. \A h \in saved : h.review \in Reviews
  BY DEF ReviewInv, ReviewTypeOK, SavedReview
<1>3. SUFFICES ASSUME NEW h \in saved
               PROVE  server'[h.review].pc \in {"finishing", "ended"} /\ h = Row(h.review)'
  BY DEF Kept
<1>4. server[h.review].pc \in {"finishing", "ended"} /\ h = Row(h.review)
  BY DEF ReviewInv, Kept
<1>5. CASE h.review = r
  BY <1>1, <1>4, <1>5 DEF Row
<1>6. CASE h.review # r
  BY <1>1, <1>2, <1>4, <1>6 DEF Row
<1>7. QED  BY <1>5, <1>6

\* A step that writes neither a line nor the history, and says nothing new.
LEMMA QuietKeeps ==
    ASSUME ReviewInv, NEW r \in Reviews, NEW call \in Call, Becomes(r, call),
           UNCHANGED <<panelVars, net, closed, saved>>, vectorStore' \in BOOLEAN,
           server[r].pc \notin {"new", "ended", "finishing"}, call.pc # "new", CallInv(call),
           call.from = server[r].from, call.sent = server[r].sent,
           call.notice = server[r].notice, call.pc = "ended" => ~reader[r].open
    PROVE  ReviewInv'
<1>1. Kept'
  BY KeptKeeps
<1>2. ReviewTypeOK /\ saved' \subseteq SavedReview
  BY DEF ReviewInv, ReviewTypeOK
<1>3. Write(r, <<>>) /\ <<>> \in Seq(Line)
  BY <1>2, Unwritten
<1>4. server'[r] = call
  BY <1>2 DEF ReviewTypeOK, Becomes
<1>5. ASSUME reader[r].open
      PROVE  \E t \in Script : Follows(r, t)' /\ Extends(ScriptOf(r, "none"), t, <<>>)
  <2>1. PICK s \in Script : s = ScriptOf(r, "none") /\ s.last = "none"
    BY <1>2, ScriptsAre
  <2>2. Follows(r, s)'
    BY <1>4, <1>5, <2>1 DEF Follows, ScriptOf
  <2>3. Extends(s, s, <<>>)
    BY <2>1, ExtendsNothing
  <2>4. QED  BY <2>1, <2>2, <2>3
<1>6. server[r].sent <= call.sent
  BY <1>2, CallFacts DEF ReviewTypeOK
<1>7. UNCHANGED <<panelVars, closed>>
  OBVIOUS
<1>8. QED  BY <1>1, <1>2, <1>3, <1>5, <1>6, <1>7, ServerKeeps

\* A call that has moved on.
LEMMA Moved ==
    ASSUME NEW call \in Call, NEW pc \in Phases
    PROVE  /\ [call EXCEPT !.pc = pc] \in Call /\ [call EXCEPT !.pc = pc].pc = pc
           /\ [call EXCEPT !.pc = pc].from = call.from /\ [call EXCEPT !.pc = pc].sent = call.sent
           /\ [call EXCEPT !.pc = pc].notice = call.notice
BY DEF Call

LEMMA MovesKeep ==
    ASSUME ReviewInv, NEW r \in Reviews, NEW pc \in Phases \ {"new"},
           Becomes(r, [server[r] EXCEPT !.pc = pc]),
           UNCHANGED <<panelVars, net, closed, saved>>, vectorStore' \in BOOLEAN,
           server[r].pc \notin {"new", "ended", "finishing"},
           pc = "streaming" => server[r].pc = "asking",
           pc \in {"loading", "store", "embed", "collection", "query", "asking"} =>
               server[r].pc \in {"loading", "store", "embed", "collection", "query", "asking"},
           pc # "canned", pc = "ended" => ~reader[r].open
    PROVE  ReviewInv'
<1>1. server[r] \in Call /\ CallInv(server[r])
  BY DEF ReviewInv, ReviewTypeOK
<1> DEFINE call == [server[r] EXCEPT !.pc = pc]
<1>2. /\ call \in Call /\ call.pc = pc /\ call.from = server[r].from
      /\ call.sent = server[r].sent /\ call.notice = server[r].notice
  BY <1>1, Moved
<1>3. CallInv(call)
  BY <1>1, <1>2 DEF CallInv
<1>4. Becomes(r, call)
  OBVIOUS
<1> HIDE DEF call
<1>5. QED  BY <1>2, <1>3, <1>4, QuietKeeps

LEMMA SettledKeeps ==
    ASSUME ReviewInv, NEW r \in Reviews, Settled(r),
           server[r].pc \in {"asking", "streaming", "canned"},
           UNCHANGED <<panelVars, net, closed, vectorStore, saved>>
    PROVE  ReviewInv'
<1> DEFINE pc == IF r \in closed THEN "ended" ELSE "saving"
<1>1. pc \in Phases \ {"new"} /\ pc \in {"ended", "saving"}
  BY DEF Phases
<1>2. pc = "ended" => ~reader[r].open
  BY DEF ReviewInv, Wiring
<1>3. vectorStore' \in BOOLEAN /\ UNCHANGED <<panelVars, net, closed, saved>>
  BY DEF ReviewInv, ReviewTypeOK
<1>4. Becomes(r, [server[r] EXCEPT !.pc = pc])
  BY DEF Settled
<1> HIDE DEF pc
<1>5. QED  BY <1>1, <1>2, <1>3, <1>4, MovesKeep

\* Before the first fragment the stream is empty.
LEMMA BlankBefore ==
    ASSUME ReviewInv, NEW r \in Reviews, server[r].sent = 0,
           server[r].pc \in {"loading", "store", "asking", "streaming"}
    PROVE  /\ server[r].from = "none" /\ server[r].notice = FALSE
           /\ ScriptOf(r, "none") = Blank
<1>1. CallInv(server[r]) /\ server[r] \in Call
  BY DEF ReviewInv, ReviewTypeOK
<1>2. server[r].from = "none" /\ server[r].notice = FALSE
  BY <1>1, CallFacts DEF CallInv
<1>3. QED  BY <1>2 DEF ScriptOf, Blank

LEMMA GiveUpKeeps ==
    ASSUME ReviewInv, NEW r \in Reviews, GiveUp(r), server[r].pc \in {"asking", "streaming"},
           UNCHANGED <<panelVars, closed, vectorStore, saved>>
    PROVE  ReviewInv'
<1>1. server[r] \in Call /\ server[r].sent \in 0 .. NumTokens /\ ReviewTypeOK
  BY CallFacts DEF ReviewInv, ReviewTypeOK
<1>2. CASE server[r].sent > 0
  BY <1>2, SettledKeeps DEF GiveUp
<1>3. CASE server[r].sent = 0
  <2> DEFINE call == [server[r] EXCEPT !.pc = "canned", !.from = "canned", !.notice = TRUE]
  <2>1. /\ call \in Call /\ call.pc = "canned" /\ call.from = "canned" /\ call.notice
        /\ call.sent = 0
    BY <1>1, <1>3 DEF Call, Phases, Sources
  <2>2. Becomes(r, call) /\ Write(r, Said("notice"))
    BY <1>3 DEF GiveUp
  <2> HIDE DEF call
  <2>3. CallInv(call)
    BY <2>1 DEF CallInv
  <2>4. server'[r] = call
    BY <1>1, <2>2 DEF ReviewTypeOK, Becomes
  <2>5. Said("notice") \in Seq(Line)
    BY ReviewAssumption, LinesAreLines DEF Sources, Events, Said, Line
  <2>6. \E t \in Script : Follows(r, t)' /\ Extends(ScriptOf(r, "none"), t, Said("notice"))
    <3> DEFINE t == [notice |-> TRUE, from |-> "canned", sent |-> 0, last |-> "none"]
    <3>1. t \in Script /\ t.notice /\ t.sent = 0 /\ t.last = "none"
      BY ReviewAssumption DEF Script, Sources
    <3>2. Follows(r, t)'
      BY <2>1, <2>4 DEF Follows, ScriptOf
    <3> HIDE DEF t
    <3>3. Extends(Blank, t, Said("notice"))
      BY <3>1, ExtendsNotice
    <3>4. ScriptOf(r, "none") = Blank
      BY <1>3, BlankBefore
    <3>5. QED  BY <3>1, <3>2, <3>3, <3>4
  <2>7. Kept'
    BY <2>2, <2>1, KeptKeeps
  <2>8. saved' \subseteq SavedReview /\ vectorStore' \in BOOLEAN
    BY <1>1 DEF ReviewTypeOK
  <2>9. UNCHANGED <<panelVars, closed>> /\ server[r].pc \notin {"new", "ended"} /\ call.pc # "new"
        /\ server[r].sent <= call.sent /\ ~(server[r].sent > 0)
    BY <1>3, <2>1
  <2>10. QED  BY <2>1, <2>2, <2>3, <2>5, <2>6, <2>7, <2>8, <2>9, ServerKeeps
<1>4. QED  BY <1>1, <1>2, <1>3

\* A call that ends and writes its last lines.
LEMMA EndsKeep ==
    ASSUME ReviewInv, NEW r \in Reviews, Becomes(r, [server[r] EXCEPT !.pc = "ended"]),
           NEW lines \in Seq(Line), Write(r, lines), NEW t \in Script,
           Extends(ScriptOf(r, "none"), t, lines), server[r].pc \in {"loading", "finishing"},
           \/ t = ScriptOf(r, "done")
           \/ server[r].sent = 0 /\ ~server[r].notice /\ t \in {Remark, Refusal},
           UNCHANGED <<panelVars, closed, vectorStore, saved>>
    PROVE  ReviewInv'
<1> DEFINE call == [server[r] EXCEPT !.pc = "ended"]
<1>1. server[r] \in Call /\ CallInv(server[r]) /\ ReviewTypeOK
  BY DEF ReviewInv, ReviewTypeOK
<1>2. /\ call \in Call /\ call.pc = "ended" /\ call.from = server[r].from
      /\ call.sent = server[r].sent /\ call.notice = server[r].notice
  BY <1>1, Moved DEF Phases
<1>3. Becomes(r, call)
  OBVIOUS
<1> HIDE DEF call
<1>4. CallInv(call)
  BY <1>1, <1>2 DEF CallInv
<1>5. server'[r] = call
  BY <1>1, <1>3 DEF ReviewTypeOK, Becomes
<1>6. Follows(r, t)'
  BY <1>2, <1>5 DEF Follows, ScriptOf
<1>7. Kept'
  BY <1>2, <1>3, KeptKeeps
<1>8. saved' \subseteq SavedReview /\ vectorStore' \in BOOLEAN /\ server[r].sent <= call.sent
  BY <1>1, <1>2, CallFacts DEF ReviewTypeOK
<1>9. UNCHANGED <<panelVars, closed>> /\ server[r].pc \notin {"new", "ended"} /\ call.pc # "new"
  BY <1>2
<1>10. QED  BY <1>2, <1>3, <1>4, <1>6, <1>7, <1>8, <1>9, ServerKeeps

LEMMA LoadCodeKeeps ==
    ASSUME ReviewInv, NEW r \in Reviews, LoadCode(r)
    PROVE  ReviewInv'
<1>1. /\ server[r].pc = "loading" /\ CallInv(server[r]) /\ ReviewTypeOK
      /\ UNCHANGED <<panelVars, closed, vectorStore, saved>>
  BY DEF ReviewInv, LoadCode
<1>2. server[r].sent = 0 /\ ~server[r].notice /\ ScriptOf(r, "none") = Blank
  BY <1>1, BlankBefore DEF CallInv
<1>3. Remark \in Script /\ Refusal \in Script
  BY <1>1, ScriptsAre
<1>4. CASE Write(r, Said("error") \o End) /\ Becomes(r, [server[r] EXCEPT !.pc = "ended"])
  <2>1. Said("error") \o End \in Seq(Line)
    BY LastLines DEF Events
  <2>2. Blank \in Script
    BY <1>1, <1>2, ScriptsAre
  <2>3. /\ Blank.last = "none" /\ Refusal.last = "error" /\ Refusal.last \in Events
        /\ Refusal.from = Blank.from /\ Refusal.notice = Blank.notice /\ Refusal.sent = Blank.sent
    BY DEF Blank, Refusal, Events
  <2>4. Extends(Blank, Refusal, Said(Refusal.last) \o End)
    BY <1>3, <2>2, <2>3, ExtendsEnd
  <2>5. Extends(ScriptOf(r, "none"), Refusal, Said("error") \o End)
    BY <1>2, <2>3, <2>4
  <2>6. QED  BY <1>1, <1>2, <1>3, <1>4, <2>1, <2>5, EndsKeep
<1>5. CASE /\ Write(r, Text("remark", 1) \o Said("done") \o End)
           /\ Becomes(r, [server[r] EXCEPT !.pc = "ended"])
  BY <1>1, <1>2, <1>3, <1>5, RemarkLines, ExtendsRemark, EndsKeep
<1>6. CASE UNCHANGED net /\ Becomes(r, [server[r] EXCEPT !.pc = "store"])
  <2>1. vectorStore' \in BOOLEAN /\ UNCHANGED <<panelVars, net, closed, saved>>
        /\ "store" \in Phases \ {"new"}
    BY <1>1, <1>6 DEF ReviewTypeOK, Phases
  <2>2. QED  BY <1>1, <1>6, <2>1, MovesKeep
<1>7. QED  BY <1>4, <1>5, <1>6 DEF LoadCode

LEMMA FindStoreKeeps ==
    ASSUME ReviewInv, NEW r \in Reviews, FindStore(r)
    PROVE  ReviewInv'
<1>1. server[r].pc = "store" /\ UNCHANGED <<panelVars, net, closed, saved>>
  BY DEF FindStore
<1>2. PICK pc \in {"embed", "asking"} : Becomes(r, [server[r] EXCEPT !.pc = pc])
  BY DEF FindStore
<1>3. vectorStore' \in BOOLEAN /\ pc \in Phases \ {"new"}
  BY DEF ReviewInv, ReviewTypeOK, FindStore, Phases
<1>4. QED  BY <1>1, <1>2, <1>3, MovesKeep

LEMMA RetrieveKeeps ==
    ASSUME ReviewInv, NEW r \in Reviews, Retrieve(r)
    PROVE  ReviewInv'
<1>1. server[r].pc \in {"embed", "collection", "query"}
      /\ UNCHANGED <<panelVars, net, closed, vectorStore, saved>>
  BY DEF Retrieve, After
<1>2. PICK pc \in {"collection", "query", "asking"} : Becomes(r, [server[r] EXCEPT !.pc = pc])
  BY DEF Retrieve, After
<1>3. /\ vectorStore' \in BOOLEAN /\ pc \in Phases \ {"new"}
      /\ UNCHANGED <<panelVars, net, closed, saved>>
  BY <1>1 DEF ReviewInv, ReviewTypeOK, Phases
<1>4. QED  BY <1>1, <1>2, <1>3, MovesKeep

LEMMA AskKeeps ==
    ASSUME ReviewInv, NEW r \in Reviews, Ask(r)
    PROVE  ReviewInv'
<1>1. /\ server[r].pc = "asking" /\ UNCHANGED <<panelVars, closed, vectorStore, saved>>
      /\ server[r] \in Call /\ CallInv(server[r]) /\ ReviewTypeOK
  BY DEF Ask, ReviewInv, ReviewTypeOK
<1>2. vectorStore' \in BOOLEAN
  BY <1>1 DEF ReviewTypeOK
<1>3. CASE Becomes(r, [server[r] EXCEPT !.pc = "streaming"]) /\ UNCHANGED net
  <2>1. "streaming" \in Phases \ {"new"} /\ UNCHANGED <<panelVars, net, closed, saved>>
    BY <1>1, <1>3 DEF Phases
  <2>2. QED  BY <1>1, <1>2, <1>3, <2>1, MovesKeep
<1>4. CASE /\ server[r].model < NumModels
           /\ Becomes(r, [server[r] EXCEPT !.model = @ + 1]) /\ UNCHANGED net
  <2> DEFINE call == [server[r] EXCEPT !.model = @ + 1]
  <2>1. /\ call \in Call /\ call.pc = "asking" /\ call.from = server[r].from
        /\ call.sent = server[r].sent /\ call.notice = server[r].notice
    BY <1>1, <1>4, ReviewAssumption DEF Call
  <2>2. Becomes(r, call) /\ UNCHANGED <<panelVars, net, closed, saved>>
    BY <1>1, <1>4
  <2> HIDE DEF call
  <2>3. CallInv(call)
    BY <1>1, <2>1 DEF CallInv
  <2>4. QED  BY <1>1, <1>2, <2>1, <2>2, <2>3, QuietKeeps
<1>5. CASE GiveUp(r)
  BY <1>1, <1>5, GiveUpKeeps
<1>6. QED  BY <1>3, <1>4, <1>5 DEF Ask

\* A fragment of the text is sent.
LEMMA FragmentKeeps ==
    ASSUME ReviewInv, NEW r \in Reviews, server[r].pc \in {"streaming", "canned"},
           server[r].sent < NumTokens, NEW call \in Call, Becomes(r, call),
           call.pc = server[r].pc, call.sent = server[r].sent + 1,
           call.notice = server[r].notice, call.from \in {"live", "canned"},
           server[r].sent > 0 => call.from = server[r].from, CallInv(call),
           Write(r, Text(call.from, server[r].sent + 1)),
           UNCHANGED <<panelVars, closed, vectorStore, saved>>
    PROVE  ReviewInv'
<1>1. server[r] \in Call /\ server[r].sent \in 0 .. NumTokens /\ ReviewTypeOK
  BY CallFacts DEF ReviewInv, ReviewTypeOK
<1>2. server'[r] = call
  BY <1>1 DEF ReviewTypeOK, Becomes
<1>3. call.sent \in 1 .. NumTokens /\ call.from \in Sources /\ NumTokens \in Nat
  BY <1>1, ReviewAssumption DEF Sources
<1>4. Text(call.from, call.sent) \in Seq(Line)
  BY <1>3, LinesAreLines DEF Events
<1>5. \E t \in Script : /\ Follows(r, t)'
                        /\ Extends(ScriptOf(r, "none"), t, Text(call.from, call.sent))
  <2> DEFINE t == [notice |-> call.notice, from |-> call.from, sent |-> call.sent, last |-> "none"]
  <2>1. /\ t \in Script /\ t.notice = call.notice /\ t.from = call.from /\ t.sent = call.sent
        /\ t.last = "none"
    BY CallFacts DEF Script
  <2>2. Follows(r, t)'
    BY <1>2 DEF Follows, ScriptOf
  <2> HIDE DEF t
  <2>3. PICK s \in Script : /\ s = ScriptOf(r, "none") /\ s.last = "none"
                            /\ s.notice = server[r].notice /\ s.sent = server[r].sent
                            /\ s.from = server[r].from
    BY <1>1, ScriptsAre
  <2>4. Extends(s, t, Text(t.from, t.sent))
    BY <2>1, <2>3, ExtendsText
  <2>5. QED  BY <2>1, <2>2, <2>3, <2>4
<1>6. Kept'
  BY <1>1, KeptKeeps
<1>7. saved' \subseteq SavedReview /\ vectorStore' \in BOOLEAN /\ UNCHANGED <<panelVars, closed>>
  BY <1>1 DEF ReviewTypeOK
<1>8. /\ server[r].pc \notin {"new", "ended"} /\ call.pc # "new" /\ server[r].sent <= call.sent
      /\ Write(r, Text(call.from, call.sent))
  BY <1>1
<1>9. QED  BY <1>4, <1>5, <1>6, <1>7, <1>8, ServerKeeps

LEMMA TokenKeeps ==
    ASSUME ReviewInv, NEW r \in Reviews, Token(r)
    PROVE  ReviewInv'
<1>1. /\ server[r].pc = "streaming" /\ server[r].sent < NumTokens
      /\ UNCHANGED <<panelVars, closed, vectorStore, saved>>
      /\ server[r] \in Call /\ CallInv(server[r]) /\ ReviewTypeOK
      /\ server[r].sent \in 0 .. NumTokens
  BY CallFacts DEF Token, ReviewInv, ReviewTypeOK
<1>2. CASE r \in closed
  <2>1. Becomes(r, [server[r] EXCEPT !.pc = "ended"]) /\ UNCHANGED <<panelVars, net, closed, saved>>
    BY <1>2 DEF Token
  <2>2. ~reader[r].open /\ vectorStore' \in BOOLEAN /\ "ended" \in Phases \ {"new"}
    BY <1>1, <1>2 DEF ReviewInv, Wiring, ReviewTypeOK, Phases
  <2>3. QED  BY <1>1, <2>1, <2>2, MovesKeep
<1>3. CASE r \notin closed
  <2> DEFINE call == [server[r] EXCEPT !.sent = @ + 1, !.from = "live"]
  <2>1. /\ call \in Call /\ call.pc = "streaming" /\ call.from = "live"
        /\ call.sent = server[r].sent + 1 /\ call.notice = server[r].notice
    <3>1. server[r].sent + 1 \in 0 .. NumTokens /\ "live" \in Sources \cup {"none"}
      BY <1>1, ReviewAssumption DEF Sources
    <3>2. server[r] \in Call /\ server[r].pc = "streaming"
      BY <1>1
    <3>3. QED  BY <3>1, <3>2 DEF Call
  <2>2. Becomes(r, call) /\ Write(r, Text("live", server[r].sent + 1))
    BY <1>3 DEF Token
  <2> HIDE DEF call
  <2>3. server[r].sent > 0 => server[r].from = "live"
    BY <1>1 DEF CallInv
  <2>4. CallInv(call)
    BY <1>1, <2>1 DEF CallInv
  <2>5. QED  BY <1>1, <2>1, <2>2, <2>3, <2>4, FragmentKeeps
<1>4. QED  BY <1>2, <1>3

LEMMA CannedWordKeeps ==
    ASSUME ReviewInv, NEW r \in Reviews, CannedWord(r)
    PROVE  ReviewInv'
<1>1. /\ server[r].pc = "canned" /\ UNCHANGED <<panelVars, closed, vectorStore, saved>>
      /\ server[r] \in Call /\ CallInv(server[r]) /\ ReviewTypeOK
      /\ server[r].sent \in 0 .. NumTokens
  BY CallFacts DEF CannedWord, ReviewInv, ReviewTypeOK
<1>2. CASE r \in closed \/ server[r].sent = NumTokens
  BY <1>1, <1>2, SettledKeeps DEF CannedWord
<1>3. CASE ~(r \in closed \/ server[r].sent = NumTokens)
  <2> DEFINE call == [server[r] EXCEPT !.sent = @ + 1]
  <2>1. server[r].sent < NumTokens
    BY <1>1, <1>3, ReviewAssumption
  <2>2. /\ call \in Call /\ call.pc = "canned" /\ call.from = server[r].from
        /\ call.sent = server[r].sent + 1 /\ call.notice = server[r].notice
    BY <1>1, <2>1, ReviewAssumption DEF Call
  <2>3. Becomes(r, call) /\ Write(r, Text("canned", server[r].sent + 1))
    BY <1>3 DEF CannedWord
  <2> HIDE DEF call
  <2>4. server[r].from = "canned"
    BY <1>1 DEF CallInv
  <2>5. CallInv(call)
    BY <1>1, <2>2, <2>4 DEF CallInv
  <2>6. QED  BY <1>1, <2>1, <2>2, <2>3, <2>4, <2>5, FragmentKeeps
<1>4. QED  BY <1>2, <1>3

LEMMA StreamEndsKeeps ==
    ASSUME ReviewInv, NEW r \in Reviews, StreamEnds(r)
    PROVE  ReviewInv'
BY SettledKeeps, GiveUpKeeps DEF StreamEnds

LEMMA TimeoutKeeps ==
    ASSUME ReviewInv, NEW r \in Reviews, FirstTokenTimeout(r)
    PROVE  ReviewInv'
BY GiveUpKeeps DEF FirstTokenTimeout

LEMMA SaveKeeps ==
    ASSUME ReviewInv, NEW r \in Reviews, Save(r)
    PROVE  ReviewInv'
<1>1. /\ server[r].pc = "saving" /\ UNCHANGED <<panelVars, net, closed, vectorStore>>
      /\ server[r] \in Call /\ CallInv(server[r]) /\ ReviewTypeOK
      /\ server[r].sent \in 0 .. NumTokens
  BY CallFacts DEF Save, ReviewInv, ReviewTypeOK
<1> DEFINE call == [server[r] EXCEPT !.pc = "finishing"]
<1>2. /\ call \in Call /\ call.pc = "finishing" /\ call.from = server[r].from
      /\ call.sent = server[r].sent /\ call.notice = server[r].notice
  BY <1>1, Moved DEF Phases
<1>3. Becomes(r, call)
  BY DEF Save
<1> HIDE DEF call
<1>4. CallInv(call)
  BY <1>1, <1>2 DEF CallInv
<1>5. /\ server' \in [Reviews -> Call] /\ server'[r] = call
      /\ \A q \in Reviews \ {r} : server'[q] = server[q]
  BY <1>1, <1>2, <1>3 DEF ReviewTypeOK, Becomes
<1>6. \A h \in saved : h.review \in Reviews \ {r} /\ server[h.review].pc \in {"finishing", "ended"}
                       /\ h = Row(h.review)
  BY <1>1 DEF ReviewInv, ReviewTypeOK, SavedReview, Kept
<1>7. \A h \in saved : server'[h.review].pc \in {"finishing", "ended"} /\ h = Row(h.review)'
  BY <1>5, <1>6 DEF Row
<1>8. Row(r).review = r /\ Row(r) = Row(r)'
  BY <1>2, <1>5 DEF Row
<1>9. Kept'
  BY <1>2, <1>5, <1>7, <1>8 DEF Kept, Save
<1>10. server[r].sent > 0 => Row(r) \in SavedReview
  BY <1>1, CallFacts DEF Row, SavedReview, CallInv
<1>11. saved' \subseteq SavedReview /\ vectorStore' \in BOOLEAN
  BY <1>1, <1>10 DEF Save, ReviewTypeOK
<1>12. Write(r, <<>>) /\ <<>> \in Seq(Line)
  BY <1>1, Unwritten
<1>13. reader[r].open =>
           \E t \in Script : Follows(r, t)' /\ Extends(ScriptOf(r, "none"), t, <<>>)
  <2>1. PICK s \in Script : s = ScriptOf(r, "none") /\ s.last = "none"
    BY <1>1, ScriptsAre
  <2>2. Follows(r, s)'
    BY <1>2, <1>5, <2>1 DEF Follows, ScriptOf
  <2>3. QED  BY <2>1, <2>2, ExtendsNothing
<1>14. /\ UNCHANGED <<panelVars, closed>> /\ server[r].pc \notin {"new", "ended"}
       /\ call.pc # "new" /\ server[r].sent <= call.sent
  BY <1>1, <1>2
<1>15. QED  BY <1>2, <1>3, <1>4, <1>9, <1>11, <1>12, <1>13, <1>14, ServerKeeps

LEMMA FinishKeeps ==
    ASSUME ReviewInv, NEW r \in Reviews, Finish(r)
    PROVE  ReviewInv'
<1>1. /\ server[r].pc = "finishing" /\ ReviewTypeOK
      /\ UNCHANGED <<panelVars, closed, vectorStore, saved>>
      /\ Write(r, Said("done") \o End) /\ Becomes(r, [server[r] EXCEPT !.pc = "ended"])
  BY DEF ReviewInv, Finish
<1>2. PICK s \in Script : /\ s = ScriptOf(r, "none") /\ s.last = "none"
                          /\ s.notice = server[r].notice /\ s.sent = server[r].sent
                          /\ s.from = server[r].from
  BY <1>1, ScriptsAre
<1>3. PICK t \in Script : /\ t = ScriptOf(r, "done") /\ t.last = "done"
                          /\ t.notice = server[r].notice /\ t.sent = server[r].sent
                          /\ t.from = server[r].from
  BY <1>1, ScriptsAre
<1>4. "done" \in Events /\ Said("done") \o End \in Seq(Line)
  BY LastLines DEF Events
<1>5. Extends(s, t, Said("done") \o End)
  BY <1>2, <1>3, <1>4, ExtendsEnd
<1>6. QED  BY <1>1, <1>2, <1>3, <1>4, <1>5, EndsKeep

(* ----------------------------- The browser ------------------------------ *)

LEMMA ClosesKeeps ==
    ASSUME ReviewInv, NEW r \in Reviews, Closes(r)
    PROVE  ReviewInv'
<1> USE DEF ReviewInv
<1>1. /\ closed' = closed \cup {r} /\ server[r].pc # "new" /\ ~reader[r].open
      /\ UNCHANGED <<started, panel, reader, unlocked, net, server, vectorStore, saved>>
  BY DEF Closes, panelVars
<1>2. ReviewTypeOK'
  BY <1>1 DEF ReviewTypeOK
<1>3. ASSUME NEW q \in Reviews PROVE (CallInv(server[q]) /\ Wiring(q))'
  <2>1. r <= started
    BY <1>1 DEF Wiring, ReviewTypeOK, Reviews
  <2>2. CallInv(server[q])'
    BY <1>1 DEF CallInv
  <2>3. Wiring(q)'
    BY <1>1, <2>1 DEF Wiring
  <2>4. QED  BY <2>2, <2>3
<1>4. Kept'
  BY <1>1 DEF Kept, Row
<1>5. Following'
  BY <1>1 DEF Following, Follows, Delivered, ScriptOf
<1>6. Trailing' /\ Shown'
  BY <1>1 DEF Trailing, Ending, Shown
<1>7. QED  BY <1>2, <1>3, <1>4, <1>5, <1>6

LEMMA ReviewStutters ==
    ASSUME ReviewInv, UNCHANGED reviewVars
    PROVE  ReviewInv'
<1> USE DEF ReviewInv
<1>1. UNCHANGED <<started, panel, reader, unlocked, net, server, closed, vectorStore, saved>>
  BY DEF reviewVars, panelVars
<1>2. ReviewTypeOK' /\ Kept' /\ \A q \in Reviews : (CallInv(server[q]) /\ Wiring(q))'
  BY <1>1 DEF ReviewTypeOK, Kept, Row, CallInv, Wiring
<1>3. Following'
  BY <1>1 DEF Following, Follows, Delivered, ScriptOf
<1>4. Trailing' /\ Shown'
  BY <1>1 DEF Trailing, Ending, Shown
<1>5. QED  BY <1>2, <1>3, <1>4

\* Of a panel's record, what assignments to its fields leave.
LEMMA PanelFacts ==
    ASSUME ReviewTypeOK
    PROVE  /\ panel.text \in Seq(Fragment) /\ panel.notice \in BOOLEAN
           /\ panel.error \in BOOLEAN /\ panel.loading \in BOOLEAN
           /\ \A r \in Reviews : /\ reader[r].open \in BOOLEAN
                                 /\ reader[r].part \in Events \cup {"none"}
                                 /\ net[r] \in Seq(Line)
BY DEF ReviewTypeOK

\* A loop that ends: it leaves the text and the notice, and if it was not the
\* newest review's while that one loads, the panel is not loading.
LEMMA LoopEnds ==
    ASSUME ReviewInv, NEW r \in Reviews, reader[r].open, NEW error \in BOOLEAN,
           reader' = [reader EXCEPT ![r].open = FALSE], net' = [net EXCEPT ![r] = <<>>],
           panel' = [panel EXCEPT !.error = error, !.loading = FALSE],
           unlocked' \in BOOLEAN, ~unlocked' => ~unlocked /\ (r = started \/ ~panel.loading),
           UNCHANGED <<started, server, closed, vectorStore, saved>>
    PROVE  ReviewInv'
<1> USE DEF ReviewInv
<1>1. /\ panel'.text = panel.text /\ panel'.notice = panel.notice /\ panel'.loading = FALSE
      /\ panel' \in [text : Seq(Fragment), notice : BOOLEAN, error : BOOLEAN, loading : BOOLEAN]
  BY DEF ReviewTypeOK
<1>2. /\ reader' \in [Reviews -> [open : BOOLEAN, part : Events \cup {"none"}]]
      /\ ~reader'[r].open /\ \A q \in Reviews \ {r} : reader'[q] = reader[q]
  BY DEF ReviewTypeOK
<1>3. /\ net' \in [Reviews -> Seq(Line)] /\ net'[r] = <<>>
      /\ \A q \in Reviews \ {r} : net'[q] = net[q]
  BY DEF ReviewTypeOK
<1>4. ReviewTypeOK'
  BY <1>1, <1>2, <1>3 DEF ReviewTypeOK
<1>5. ASSUME NEW q \in Reviews PROVE (CallInv(server[q]) /\ Wiring(q))'
  <2>1. CASE q = r
    BY <1>2, <1>3, <2>1 DEF CallInv, Wiring
  <2>2. CASE q # r
    BY <1>2, <1>3, <2>2 DEF CallInv, Wiring
  <2>3. QED  BY <2>1, <2>2
<1>6. Kept' /\ Following'
  BY <1>1 DEF Kept, Row, Following
<1>7. Trailing'
  <2> SUFFICES ASSUME ~unlocked', NEW q \in Reviews, reader'[q].open PROVE Ending(q)'
    BY DEF Trailing
  <2>1. q # r /\ reader[q].open /\ ~unlocked /\ (r = started \/ ~panel.loading)
    BY <1>2
  <2>2. ~(q = started /\ panel.loading)
    BY <2>1
  <2>3. Ending(q)
    BY <2>1, <2>2 DEF Trailing
  <2>4. QED  BY <1>2, <1>3, <2>1, <2>3 DEF Ending
<1>8. Shown'
  BY <1>1 DEF Shown
<1>9. QED  BY <1>4, <1>5, <1>6, <1>7, <1>8

LEMMA ReadEndKeeps ==
    ASSUME ReviewInv, NEW r \in Reviews, ReadEnd(r)
    PROVE  ReviewInv'
<1>1. /\ ReviewTypeOK /\ panel.error \in BOOLEAN /\ unlocked \in BOOLEAN
      /\ r <= started /\ panel.loading \in BOOLEAN /\ started \in Nat /\ r \in Nat
  BY DEF ReviewInv, ReviewTypeOK, Wiring, ReadEnd, Reviews
<1>2. panel' = [panel EXCEPT !.error = panel.error, !.loading = FALSE]
  BY DEF ReadEnd, ReviewInv, ReviewTypeOK
<1>3. unlocked' \in BOOLEAN /\ (~unlocked' => ~unlocked /\ (r = started \/ ~panel.loading))
  BY <1>1 DEF ReadEnd, Unlocks
<1>4. QED  BY <1>1, <1>2, <1>3, LoopEnds DEF ReadEnd

LEMMA LinkFailsKeeps ==
    ASSUME ReviewInv, NEW r \in Reviews, LinkFails(r)
    PROVE  ReviewInv'
<1>1. /\ ReviewTypeOK /\ unlocked \in BOOLEAN
      /\ r <= started /\ panel.loading \in BOOLEAN /\ started \in Nat /\ r \in Nat
  BY DEF ReviewInv, ReviewTypeOK, Wiring, LinkFails, Reviews
<1>2. unlocked' \in BOOLEAN /\ (~unlocked' => ~unlocked /\ (r = started \/ ~panel.loading))
  BY <1>1 DEF LinkFails, Unlocks
<1>3. QED  BY <1>1, <1>2, LoopEnds DEF LinkFails

LEMMA StopKeeps ==
    ASSUME ReviewInv, Stop
    PROVE  ReviewInv'
<1>1. panel.loading /\ started # 0 /\ started \in Reviews /\ panel.error \in BOOLEAN
      /\ unlocked \in BOOLEAN
  BY DEF Stop, ReviewInv, ReviewTypeOK, Reviews, Following
<1>2. panel' = [panel EXCEPT !.error = panel.error, !.loading = FALSE]
  BY DEF Stop, ReviewInv, ReviewTypeOK
<1>3. unlocked' \in BOOLEAN /\ (~unlocked' => ~unlocked)
  BY <1>1 DEF Stop
<1>4. QED  BY <1>1, <1>2, <1>3, LoopEnds DEF Stop

LEMMA StartKeeps ==
    ASSUME ReviewInv, Start
    PROVE  ReviewInv'
<1> USE DEF ReviewInv
<1>0. started \in Nat /\ started + 1 \in Reviews
  BY ReviewAssumption DEF Start, ReviewTypeOK, Reviews
<1>1. PICK n \in Reviews : n = started + 1 /\ started \in Nat /\ started < n /\ n # 0 /\ n \in Nat
  BY <1>0
<1>2. /\ server[n].pc = "new" /\ ~reader[n].open /\ net[n] = <<>> /\ n \notin closed
      /\ reader[n].part = "none" /\ server[n] \in Call
  BY <1>1 DEF Wiring, ReviewTypeOK
<1>3. /\ server[n].from = "none" /\ server[n].sent = 0 /\ server[n].notice = FALSE
  BY <1>1, <1>2, CallFacts DEF CallInv
<1>4. /\ started' = n /\ ~panel.loading
      /\ UNCHANGED <<net, closed, vectorStore, saved, unlocked>>
      /\ panel' = [text |-> <<>>, notice |-> FALSE, error |-> FALSE, loading |-> TRUE]
  BY <1>1 DEF Start, Cleared
<1>5. /\ server' \in [Reviews -> Call] /\ server'[n] = [server[n] EXCEPT !.pc = "loading"]
      /\ \A q \in Reviews \ {n} : server'[q] = server[q]
  <2>1. server' = [server EXCEPT ![n] = [server[n] EXCEPT !.pc = "loading"]]
    BY <1>1 DEF Start
  <2>2. [server[n] EXCEPT !.pc = "loading"] \in Call
    BY <1>2, Moved DEF Phases
  <2>3. QED  BY <2>1, <2>2 DEF ReviewTypeOK
<1>6. /\ server'[n].pc = "loading" /\ server'[n].from = "none" /\ server'[n].sent = 0
      /\ server'[n].notice = FALSE
  BY <1>2, <1>3, <1>5, Moved DEF Phases
<1>7. /\ reader' \in [Reviews -> [open : BOOLEAN, part : Events \cup {"none"}]]
      /\ reader'[n].open /\ reader'[n].part = "none"
      /\ \A q \in Reviews \ {n} : reader'[q] = reader[q]
  BY <1>1, <1>2 DEF Start, ReviewTypeOK
<1>8. ReviewTypeOK'
  <2>1. panel' \in [text : Seq(Fragment), notice : BOOLEAN, error : BOOLEAN, loading : BOOLEAN]
    BY <1>4
  <2>2. started' \in 0 .. MaxReviews
    BY <1>1, <1>4, ReviewAssumption DEF Reviews
  <2>3. QED  BY <1>4, <1>5, <1>7, <2>1, <2>2 DEF ReviewTypeOK
<1>9. ASSUME NEW q \in Reviews PROVE (CallInv(server[q]) /\ Wiring(q))'
  <2>1. CASE q = n
    <3>1. CallInv(server[q])'
      BY <1>6, <2>1 DEF CallInv
    <3>2. q <= started' /\ ~(q > started')
      BY <1>1, <1>4, <2>1
    <3>3. Wiring(q)'
      BY <1>2, <1>4, <1>6, <1>7, <2>1, <3>2 DEF Wiring
    <3>4. QED  BY <3>1, <3>3
  <2>2. CASE q # n
    <3>1. q > n <=> q > started
      BY <1>1, <2>2 DEF Reviews
    <3>2. q <= n <=> q <= started
      BY <1>1, <2>2 DEF Reviews
    <3>3. CallInv(server[q])'
      BY <1>5, <2>2 DEF CallInv
    <3>4. Wiring(q)'
      BY <1>4, <1>5, <1>7, <2>2, <3>1, <3>2 DEF Wiring
    <3>5. QED  BY <3>3, <3>4
  <2>3. QED  BY <2>1, <2>2
<1>10. Kept'
  <2>1. \A h \in saved : h.review \in Reviews \ {n}
    BY <1>2 DEF Kept, ReviewTypeOK, SavedReview
  <2>2. QED  BY <1>4, <1>5, <2>1 DEF Kept, Row
<1>11. Following'
  <2>1. Blank \in Script /\ Length(Blank) = 0 /\ Ahead(Blank) = 0 /\ Blank.last = "none"
        /\ Fragments(Blank, 0) = 0 /\ Name(Blank, 0) = "none" /\ ~Blank.notice
    BY ReviewAssumption DEF Blank, Script, Length, Ahead, Fragments, Name
  <2>2. Follows(n, Blank)'
    BY <1>6 DEF Follows, ScriptOf, Blank
  <2>3. Delivered(n, Blank, 0)'
    BY <1>2, <1>4, <1>7, <2>1 DEF Delivered
  <2>4. QED  BY <1>1, <1>4, <1>7, <2>1, <2>2, <2>3 DEF Following
<1>12. Trailing'
  <2> SUFFICES ASSUME ~unlocked, NEW q \in Reviews, q # n, reader[q].open PROVE Ending(q)'
    BY <1>4, <1>7 DEF Trailing
  <2>1. Ending(q)
    BY <1>4 DEF Trailing
  <2>2. QED  BY <1>4, <1>5, <1>7, <2>1 DEF Ending
<1>13. Shown'
  BY <1>4 DEF Shown
<1>14. QED  BY <1>8, <1>9, <1>10, <1>11, <1>12, <1>13

LEMMA TailFacts ==
    ASSUME NEW s \in Seq(Line), s # <<>>
    PROVE  /\ Tail(s) \in Seq(Line) /\ Len(Tail(s)) = Len(s) - 1 /\ Len(s) \in Nat \ {0}
           /\ Head(s) = s[1] /\ Head(s) \in Line
           /\ \A i \in 1 .. Len(Tail(s)) : Tail(s)[i] = s[i + 1]
OBVIOUS

LEMMA LineFacts ==
    ASSUME NEW line \in Line
    PROVE  /\ line.line \in {"text", "event", "data", "end"}
           /\ line.line = "text" => line.from \in Sources /\ line.index \in 1 .. NumTokens
           /\ line.line = "event" => line.name \in Events
BY DEF Line

\* What the browser does with a line, whichever it is.
LEMMA ReadTypes ==
    ASSUME ReviewTypeOK, NEW r \in Reviews, ReadLine(r)
    PROVE  /\ ReviewTypeOK' /\ net'[r] = Tail(net[r])
           /\ \A q \in Reviews : reader'[q].open = reader[q].open
           /\ \A q \in Reviews \ {r} : net'[q] = net[q] /\ reader'[q] = reader[q]
           /\ panel'.loading => panel.loading
<1> DEFINE line == Head(net[r])
<1>1. /\ net[r] \in Seq(Line) /\ net[r] # <<>> /\ line \in Line /\ Tail(net[r]) \in Seq(Line)
  BY TailFacts DEF ReviewTypeOK, ReadLine
<1>2. /\ net' \in [Reviews -> Seq(Line)] /\ net'[r] = Tail(net[r])
      /\ \A q \in Reviews \ {r} : net'[q] = net[q]
  BY <1>1 DEF ReviewTypeOK, ReadLine
<1>3. UNCHANGED <<started, server, closed, vectorStore, saved, unlocked>>
  BY DEF ReadLine
<1>4. \/ line.line = "text" /\ OnText(r, line)
      \/ line.line = "event" /\ OnName(r, line.name)
      \/ line.line = "data" /\ OnData(r, reader[r].part)
  BY DEF ReadLine
<1> HIDE DEF line
<1> DEFINE Panel == [text : Seq(Fragment), notice : BOOLEAN, error : BOOLEAN, loading : BOOLEAN]
           Loops == [Reviews -> [open : BOOLEAN, part : Events \cup {"none"}]]
<1>5. /\ panel' \in Panel /\ reader' \in Loops
      /\ panel'.loading => panel.loading
      /\ \A q \in Reviews : reader'[q].open = reader[q].open
      /\ \A q \in Reviews \ {r} : reader'[q] = reader[q]
  <2>0. panel \in Panel /\ reader \in Loops
    BY DEF ReviewTypeOK
  <2>1. CASE line.line = "text" /\ OnText(r, line)
    <3>1. [review |-> r, from |-> line.from, index |-> line.index] \in Fragment
      BY <1>1, <2>1, LineFacts DEF Fragment
    <3>2. Append(panel.text, [review |-> r, from |-> line.from, index |-> line.index])
              \in Seq(Fragment)
      BY <2>0, <3>1
    <3>3. QED  BY <2>0, <2>1, <3>2 DEF OnText
  <2>2. CASE line.line = "event" /\ OnName(r, line.name)
    BY <1>1, <2>0, <2>2, LineFacts DEF OnName
  <2>3. CASE line.line = "data" /\ OnData(r, reader[r].part)
    BY <2>0, <2>3 DEF OnData
  <2>4. QED  BY <1>4, <2>1, <2>2, <2>3
<1>6. ReviewTypeOK'
  <2>1. panel' \in [text : Seq(Fragment), notice : BOOLEAN, error : BOOLEAN, loading : BOOLEAN]
    BY <1>5
  <2>2. reader' \in [Reviews -> [open : BOOLEAN, part : Events \cup {"none"}]]
    BY <1>5
  <2>3. QED  BY <1>2, <1>3, <2>1, <2>2 DEF ReviewTypeOK
<1>7. QED  BY <1>2, <1>5, <1>6

\* The lines a stream of a script has.
LEMMA ScriptLines ==
    ASSUME NEW s \in Script, NEW j \in 1 .. Length(s)
    PROVE  /\ LineAt(s, j).line = "text" =>
                  /\ Ahead(s) < j /\ j <= Ahead(s) + s.sent
                  /\ LineAt(s, j).from = s.from /\ LineAt(s, j).index = j - Ahead(s)
           /\ LineAt(s, j).line = "event" =>
                  \/ j = 1 /\ s.notice /\ LineAt(s, j).name = "notice"
                  \/ /\ j = Ahead(s) + s.sent + 1 /\ s.last # "none"
                     /\ LineAt(s, j).name = s.last
           /\ LineAt(s, j).line = "data" =>
                  \/ j = 2 /\ s.notice
                  \/ j = Ahead(s) + s.sent + 2 /\ s.last # "none"
<1>1. /\ s.sent \in Nat /\ Ahead(s) \in {0, 2} /\ (s.notice <=> Ahead(s) = 2)
      /\ s.notice \in BOOLEAN
  BY DEF Script, Ahead
<1>2. Length(s) = Ahead(s) + s.sent + (IF s.last = "none" THEN 0 ELSE 3)
  BY DEF Length
<1>3. j \in Nat /\ 1 <= j /\ j <= Length(s)
  BY <1>1, <1>2
<1>4. CASE j <= Ahead(s)
  BY <1>1, <1>3, <1>4 DEF LineAt
<1>5. CASE Ahead(s) < j /\ j <= Ahead(s) + s.sent
  BY <1>1, <1>3, <1>5 DEF LineAt
<1>6. CASE Ahead(s) + s.sent < j
  BY <1>1, <1>2, <1>3, <1>6 DEF LineAt
<1>7. QED  BY <1>1, <1>3, <1>4, <1>5, <1>6

\* The browser reads the next line of a script.
LEMMA DeliversNext ==
    ASSUME ReviewTypeOK, NEW r \in Reviews, NEW s \in Script, NEW p \in Nat,
           Delivered(r, s, p), ReadLine(r), panel'.loading
    PROVE  Delivered(r, s, p + 1)'
<1> DEFINE line == Head(net[r])
<1>1. /\ net[r] \in Seq(Line) /\ net[r] # <<>> /\ line \in Line
      /\ net'[r] = Tail(net[r]) /\ panel.text \in Seq(Fragment)
      /\ reader \in [Reviews -> [open : BOOLEAN, part : Events \cup {"none"}]]
  BY TailFacts, ReadTypes DEF ReviewTypeOK, ReadLine
<1>2. /\ Len(net[r]) \in Nat \ {0} /\ Len(net'[r]) = Len(net[r]) - 1 /\ line = net[r][1]
      /\ \A i \in 1 .. Len(net'[r]) : net'[r][i] = net[r][i + 1]
  BY <1>1, TailFacts
<1>3. /\ Length(s) \in Nat /\ Len(net[r]) = Length(s) - p
      /\ \A i \in 1 .. Len(net[r]) : net[r][i] = LineAt(s, p + i)
  BY ScriptNumbers DEF Delivered
<1>4. /\ Len(net'[r]) = Length(s) - (p + 1) /\ p + 1 \in 1 .. Length(s) /\ p + 1 \in Nat
      /\ 1 \in 1 .. Len(net[r])
  BY <1>2, <1>3
<1>5. line = LineAt(s, p + 1)
  BY <1>2, <1>3, <1>4
<1>6. ASSUME NEW i \in 1 .. Len(net'[r]) PROVE net'[r][i] = LineAt(s, (p + 1) + i)
  <2>1. i + 1 \in 1 .. Len(net[r]) /\ i \in Nat /\ (p + 1) + i = p + (i + 1)
    BY <1>2
  <2>2. QED  BY <1>2, <1>3, <2>1
<1>7. /\ s.sent \in Nat /\ Ahead(s) \in {0, 2} /\ (s.notice <=> Ahead(s) = 2) /\ s.notice \in BOOLEAN
      /\ s.last \in {"none", "done", "error"}
  BY DEF Script, Ahead
<1>8. \/ line.line = "text" /\ OnText(r, line)
      \/ line.line = "event" /\ OnName(r, line.name)
      \/ line.line = "data" /\ OnData(r, reader[r].part)
  BY DEF ReadLine
<1> HIDE DEF line
<1>9. /\ reader[r].part = Name(s, p) /\ Len(panel.text) = Fragments(s, p)
      /\ \A i \in 1 .. Len(panel.text) : panel.text[i] = [review |-> r, from |-> s.from, index |-> i]
      /\ s.notice /\ p >= 2 => panel.notice
  BY DEF Delivered
<1>10. Len(panel.text) \in Nat
  BY <1>1
<1> DEFINE Told ==
       /\ reader'[r].part = Name(s, p + 1) /\ Len(panel'.text) = Fragments(s, p + 1)
       /\ \A i \in 1 .. Len(panel'.text) :
             panel'.text[i] = [review |-> r, from |-> s.from, index |-> i]
       /\ s.notice /\ p + 1 >= 2 => panel'.notice
       /\ s.last = "none" \/ p + 1 < Ahead(s) + s.sent + 2
<1>11. ASSUME line.line = "text" /\ OnText(r, line)
       PROVE  Told
  <2> DEFINE f == [review |-> r, from |-> line.from, index |-> line.index]
  <2>0. PICK j \in 1 .. Length(s) : j = p + 1 /\ line = LineAt(s, j)
    BY <1>4, <1>5
  <2>1. /\ Ahead(s) < j /\ j <= Ahead(s) + s.sent /\ j = p + 1
        /\ line.from = s.from /\ line.index = j - Ahead(s)
    BY <1>11, <2>0, ScriptLines
  <2>2. Fragments(s, p) = p - Ahead(s) /\ Fragments(s, p + 1) = p + 1 - Ahead(s)
    BY <1>7, <2>1 DEF Fragments
  <2>3. /\ Name(s, p) = "none" /\ Name(s, p + 1) = "none"
    BY <1>7, <2>1 DEF Name
  <2>4. /\ panel'.text = Append(panel.text, f) /\ panel'.notice = panel.notice /\ reader' = reader
    BY <1>1, <1>11 DEF OnText, ReviewTypeOK
  <2>5. f \in Fragment
    BY <1>1, <1>11, LineFacts DEF Fragment
  <2>6. f = [review |-> r, from |-> s.from, index |-> Len(panel.text) + 1]
    BY <1>7, <1>9, <2>1, <2>2
  <2> HIDE DEF f
  <2>7. /\ Len(panel'.text) = Len(panel.text) + 1 /\ panel'.text[Len(panel.text) + 1] = f
        /\ \A i \in 1 .. Len(panel.text) : panel'.text[i] = panel.text[i]
    BY <1>1, <2>4, <2>5
  <2>8. \A i \in 1 .. Len(panel'.text) :
            panel'.text[i] = [review |-> r, from |-> s.from, index |-> i]
    <3> SUFFICES ASSUME NEW i \in 1 .. Len(panel'.text)
                 PROVE  panel'.text[i] = [review |-> r, from |-> s.from, index |-> i]
      OBVIOUS
    <3>1. CASE i = Len(panel.text) + 1
      BY <2>6, <2>7, <3>1
    <3>2. CASE i # Len(panel.text) + 1
      <4>1. i \in 1 .. Len(panel.text)
        BY <1>10, <2>7, <3>2
      <4>2. QED  BY <1>9, <2>7, <4>1
    <3>3. QED  BY <3>1, <3>2
  <2>9. s.notice /\ p + 1 >= 2 => panel'.notice
    BY <1>7, <1>9, <2>1, <2>4
  <2>10. Len(panel'.text) = Fragments(s, p + 1)
    BY <1>7, <1>9, <2>2, <2>7
  <2>11. p + 1 < Ahead(s) + s.sent + 2
    BY <1>7, <2>1
  <2>12. QED  BY <1>9, <2>3, <2>4, <2>8, <2>9, <2>10, <2>11
<1>12. ASSUME line.line = "event" /\ OnName(r, line.name)
       PROVE  Told
  <2>1. panel' = panel /\ reader'[r].part = line.name
    BY <1>1, <1>12 DEF OnName
  <2>2. \/ p = 0 /\ s.notice /\ line.name = "notice"
        \/ p = Ahead(s) + s.sent /\ s.last # "none" /\ line.name = s.last
    BY <1>4, <1>5, <1>7, <1>12, ScriptLines
  <2>3. Name(s, p + 1) = line.name
    BY <1>7, <2>2 DEF Name
  <2>4. Fragments(s, p + 1) = Fragments(s, p)
    BY <1>7, <2>2 DEF Fragments
  <2>5. s.notice /\ p + 1 >= 2 => panel'.notice
    BY <1>7, <1>9, <2>1, <2>2
  <2>6. p + 1 < Ahead(s) + s.sent + 2
    BY <1>7, <2>2
  <2>7. QED  BY <1>9, <2>1, <2>3, <2>4, <2>5, <2>6
<1>13. ASSUME line.line = "data" /\ OnData(r, reader[r].part)
       PROVE  Told
  <2>1. /\ panel'.text = panel.text /\ reader'[r].part = "none"
        /\ panel'.notice = (panel.notice \/ reader[r].part = "notice")
        /\ panel'.loading => reader[r].part \notin {"done", "error"}
    BY <1>1, <1>13 DEF OnData, ReviewTypeOK
  <2>2. \/ p = 1 /\ s.notice
        \/ p = Ahead(s) + s.sent + 1 /\ s.last # "none"
    BY <1>4, <1>5, <1>7, <1>13, ScriptLines
  <2>3. p = 1 /\ s.notice
    <3>1. ASSUME p = Ahead(s) + s.sent + 1, s.last # "none" PROVE Name(s, p) = s.last
      BY <1>7, <3>1 DEF Name
    <3>2. QED  BY <1>7, <1>9, <2>1, <2>2, <3>1
  <2>4. Name(s, p) = "notice" /\ Name(s, p + 1) = "none"
    BY <1>7, <2>3 DEF Name
  <2>5. Fragments(s, p + 1) = Fragments(s, p)
    BY <1>7, <2>3 DEF Fragments
  <2>6. panel'.notice
    BY <1>9, <2>1, <2>4
  <2>7. p + 1 < Ahead(s) + s.sent + 2
    BY <1>7, <2>3
  <2>8. QED  BY <1>9, <2>1, <2>4, <2>5, <2>6, <2>7
<1>14. Told
  BY <1>8, <1>11, <1>12, <1>13
<1>15. p + 1 < Length(s) + 1
  BY <1>3, <1>4
<1>16. QED  BY <1>4, <1>6, <1>14, <1>15 DEF Delivered

\* When a line ends the loading, the stream has only its end left.
LEMMA LastRead ==
    ASSUME ReviewInv, NEW r \in Reviews, NEW s \in Script, NEW p \in Nat,
           Follows(r, s), Delivered(r, s, p), ReadLine(r), panel.loading, ~panel'.loading
    PROVE  Ending(r)'
<1> DEFINE line == Head(net[r])
<1>1. /\ net[r] \in Seq(Line) /\ net[r] # <<>> /\ line \in Line
      /\ net'[r] = Tail(net[r]) /\ UNCHANGED server
      /\ reader \in [Reviews -> [open : BOOLEAN, part : Events \cup {"none"}]]
      /\ panel \in [text : Seq(Fragment), notice : BOOLEAN, error : BOOLEAN, loading : BOOLEAN]
  BY TailFacts, ReadTypes DEF ReviewInv, ReviewTypeOK, ReadLine
<1>2. /\ Len(net[r]) \in Nat \ {0} /\ Len(net'[r]) = Len(net[r]) - 1 /\ line = net[r][1]
      /\ \A i \in 1 .. Len(net'[r]) : net'[r][i] = net[r][i + 1]
      /\ net'[r] \in Seq(Line)
  BY <1>1, TailFacts
<1>3. /\ Length(s) \in Nat /\ Len(net[r]) = Length(s) - p /\ reader[r].part = Name(s, p)
      /\ \A i \in 1 .. Len(net[r]) : net[r][i] = LineAt(s, p + i)
  BY ScriptNumbers DEF Delivered
<1>4. /\ s.sent \in Nat /\ Ahead(s) \in {0, 2} /\ (s.notice <=> Ahead(s) = 2) /\ s.notice \in BOOLEAN
      /\ s.last \in {"none", "done", "error"}
  BY DEF Script, Ahead
<1>5. /\ line.line = "data" /\ OnData(r, reader[r].part)
  <2>1. \/ line.line = "text" /\ OnText(r, line)
        \/ line.line = "event" /\ OnName(r, line.name)
        \/ line.line = "data" /\ OnData(r, reader[r].part)
    BY DEF ReadLine
  <2> HIDE DEF line
  <2>2. ~OnText(r, line) /\ ~OnName(r, line.name)
    BY <1>1 DEF OnText, OnName
  <2>3. QED  BY <2>1, <2>2
<1>6. PICK j \in 1 .. Length(s) : j = p + 1 /\ line = LineAt(s, j)
  <2>1. p + 1 \in 1 .. Length(s) /\ 1 \in 1 .. Len(net[r])
    BY <1>2, <1>3
  <2>2. QED  BY <1>2, <1>3, <2>1
<1> HIDE DEF line
<1>7. reader[r].part \in {"done", "error"} /\ reader'[r].part = "none"
  BY <1>1, <1>5 DEF OnData
<1>8. j = Ahead(s) + s.sent + 2 /\ s.last # "none"
  <2>1. \/ j = 2 /\ s.notice
        \/ j = Ahead(s) + s.sent + 2 /\ s.last # "none"
    BY <1>5, <1>6, ScriptLines
  <2>2. ASSUME j = 2, s.notice PROVE FALSE
    <3>1. Name(s, p) = "notice"
      BY <1>6, <2>2 DEF Name
    <3>2. QED  BY <1>3, <1>7, <3>1
  <2>3. QED  BY <2>1, <2>2
<1>9. Length(s) = p + 2
  BY <1>4, <1>6, <1>8 DEF Length
<1>10. Len(net'[r]) = 1 /\ net'[r][1] = LineAt(s, p + 2)
  <2>1. Len(net[r]) = 2 /\ 2 \in 1 .. Len(net[r])
    BY <1>3, <1>9
  <2>2. net[r][2] = LineAt(s, p + 2)
    BY <1>3, <2>1
  <2>3. Len(net'[r]) = 1
    BY <1>2, <2>1
  <2>4. net'[r][1] = net[r][2]
    BY <1>2, <2>3
  <2>5. QED  BY <2>2, <2>3, <2>4
<1>11. LineAt(s, p + 2) = [line |-> "end"]
  BY <1>4, <1>6, <1>8 DEF LineAt
<1>12. net'[r] = End
  BY <1>2, <1>10, <1>11 DEF End
<1>13. server[r].pc = "ended"
  BY <1>8 DEF Follows, ScriptOf
<1>14. QED  BY <1>1, <1>7, <1>12, <1>13 DEF Ending

\* What is shown of the review that is read.
LEMMA ShownStays ==
    ASSUME ReviewInv, NEW r \in Reviews, r = started, ~unlocked, panel.loading,
           NEW s \in Script, NEW p \in Nat, Follows(r, s), Delivered(r, s, p), ReadLine(r)
    PROVE  Shown'
<1> DEFINE line == Head(net[r])
<1>1. /\ net[r] \in Seq(Line) /\ net[r] # <<>> /\ line \in Line
      /\ UNCHANGED <<server, started, unlocked>>
      /\ panel \in [text : Seq(Fragment), notice : BOOLEAN, error : BOOLEAN, loading : BOOLEAN]
      /\ panel' \in [text : Seq(Fragment), notice : BOOLEAN, error : BOOLEAN, loading : BOOLEAN]
  BY TailFacts, ReadTypes DEF ReviewInv, ReviewTypeOK, ReadLine
<1>2. \/ line.line = "text" /\ OnText(r, line)
      \/ panel'.text = panel.text /\ (panel.notice => panel'.notice)
  BY <1>1 DEF ReadLine, OnName, OnData
<1>3. CASE panel'.text = panel.text /\ (panel.notice => panel'.notice)
  BY <1>1, <1>3 DEF ReviewInv, Shown
<1>4. CASE line.line = "text" /\ OnText(r, line)
  <2>1. panel'.loading
    BY <1>1, <1>4 DEF OnText
  <2>2. PICK q \in Nat : q = p + 1 /\ Delivered(r, s, q)'
    BY <2>1, DeliversNext DEF ReviewInv
  <2>3. /\ Len(panel'.text) = Fragments(s, q) /\ (s.notice /\ q >= 2 => panel'.notice)
        /\ \A i \in 1 .. Len(panel'.text) :
              panel'.text[i] = [review |-> r, from |-> s.from, index |-> i]
    BY <2>2 DEF Delivered
  <2>4. Fragments(s, q) \in Nat /\ Fragments(s, q) <= s.sent /\ s.sent \in Nat
    BY ScriptNumbers
  <2>5. SUFFICES ASSUME panel'.text # <<>> PROVE Shown'
    BY DEF Shown
  <2>6. Len(panel'.text) > 0 /\ Len(panel'.text) \in Nat
    BY <1>1, <2>5
  <2>7. panel'.text[1].from = s.from
    <3>1. 1 \in 1 .. Len(panel'.text)
      BY <2>6
    <3>2. panel'.text[1] = [review |-> r, from |-> s.from, index |-> 1]
      BY <2>3, <3>1
    <3>3. QED  BY <3>2
  <2>8. s.notice => panel'.notice
    <3>1. s.notice => q > 2
      BY <2>3, <2>6 DEF Fragments, Ahead
    <3>2. QED  BY <2>3, <3>1
  <2>9. \/ s = ScriptOf(r, "none") \/ s = ScriptOf(r, "done")
        \/ server[r].pc = "ended" /\ server[r].sent = 0 /\ s = Remark
    <3>1. s # Refusal
      BY <2>3, <2>4, <2>6 DEF Refusal
    <3>2. QED  BY <3>1 DEF Follows
  <2>10. CASE s = ScriptOf(r, "none") \/ s = ScriptOf(r, "done")
    <3>1. s.from = server[r].from /\ s.sent = server[r].sent /\ s.notice = server[r].notice
      BY <2>10 DEF ScriptOf
    <3>2. s.from = "canned" => s.notice
      BY <3>1 DEF ReviewInv, CallInv
    <3>3. Len(panel'.text) <= server[r].sent
      BY <2>3, <2>4, <3>1
    <3>4. started # 0
      BY DEF Reviews
    <3>5. QED  BY <1>1, <2>3, <2>7, <2>8, <3>1, <3>2, <3>3, <3>4 DEF Shown
  <2>11. CASE server[r].pc = "ended" /\ server[r].sent = 0 /\ s = Remark
    <3>1. s.from = "remark" /\ started # 0
      BY <2>11 DEF Remark, Reviews
    <3>2. QED  BY <1>1, <2>3, <2>7, <2>11, <3>1 DEF Shown
  <2>12. QED  BY <2>9, <2>10, <2>11
<1>5. QED  BY <1>2, <1>3, <1>4

LEMMA ReadLineKeeps ==
    ASSUME ReviewInv, NEW r \in Reviews, ReadLine(r)
    PROVE  ReviewInv'
<1> USE DEF ReviewInv
<1>1. /\ ReviewTypeOK' /\ net'[r] = Tail(net[r])
      /\ \A q \in Reviews : reader'[q].open = reader[q].open
      /\ \A q \in Reviews \ {r} : net'[q] = net[q] /\ reader'[q] = reader[q]
  BY ReadTypes
<1>2. panel'.loading => panel.loading
  BY ReadTypes
<1>3. /\ UNCHANGED <<started, server, closed, vectorStore, saved, unlocked>>
      /\ reader[r].open /\ net[r] # <<>> /\ net[r] \in Seq(Line)
  BY DEF ReadLine, ReviewTypeOK
<1>4. ASSUME NEW q \in Reviews PROVE (CallInv(server[q]) /\ Wiring(q))'
  <2>1. CallInv(server[q])'
    BY <1>3 DEF CallInv
  <2>2. ~(r > started)
    BY <1>3 DEF Wiring, ReviewTypeOK, Reviews
  <2>3. Wiring(q)'
    BY <1>1, <1>3, <2>2 DEF Wiring
  <2>4. QED  BY <2>1, <2>3
<1>5. Kept'
  BY <1>3 DEF Kept, Row
<1>6. CASE unlocked
  <2>1. Following'
    BY <1>1, <1>2, <1>3, <1>6 DEF Following, ReviewTypeOK, Reviews
  <2>2. Trailing' /\ Shown'
    BY <1>3, <1>6 DEF Trailing, Shown
  <2>3. QED  BY <1>1, <1>4, <1>5, <2>1, <2>2
<1>7. CASE ~unlocked
  <2>1. r = started /\ panel.loading /\ started # 0
    <3>1. ~Ending(r)
      BY DEF Ending, End, ReadLine
    <3>2. QED  BY <1>3, <1>7, <3>1 DEF Trailing, Following
  <2>2. PICK s \in Script, p \in Nat : Follows(r, s) /\ Delivered(r, s, p)
    BY <1>7, <2>1 DEF Following
  <2>3. Following'
    <3> SUFFICES ASSUME panel'.loading PROVE Following'
      BY DEF Following
    <3>1. Delivered(r, s, p + 1)'
      BY <2>2, DeliversNext
    <3>2. Follows(r, s)'
      BY <1>3, <2>2 DEF Follows, ScriptOf
    <3>3. p + 1 \in Nat
      OBVIOUS
    <3>4. QED  BY <1>1, <1>3, <2>1, <3>1, <3>2, <3>3 DEF Following
  <2>4. Trailing'
    <3> SUFFICES ASSUME NEW q \in Reviews, reader'[q].open
                 PROVE  (q = started /\ panel'.loading) \/ Ending(q)'
      BY <1>3 DEF Trailing
    <3>1. CASE q # r
      BY <1>1, <1>3, <1>7, <2>1, <3>1 DEF Trailing, Ending
    <3>2. CASE q = r /\ ~panel'.loading
      BY <1>1, <1>3, <2>1, <2>2, <3>2, LastRead DEF Ending
    <3>3. QED  BY <2>1, <3>1, <3>2
  <2>5. Shown'
    BY <1>1, <1>3, <1>7, <2>1, <2>2, ShownStays
  <2>6. QED  BY <1>1, <1>4, <1>5, <2>3, <2>4, <2>5
<1>8. QED  BY <1>6, <1>7

(* ------------------- The invariant, and the theorems -------------------- *)

LEMMA ReviewStart == ReviewInit => ReviewInv
<1> SUFFICES ASSUME ReviewInit PROVE ReviewInv
  OBVIOUS
<1> DEFINE call == [pc |-> "new", model |-> 1, from |-> "none", sent |-> 0, notice |-> FALSE]
<1>1. /\ started = 0 /\ panel = Cleared /\ unlocked = FALSE /\ closed = {} /\ saved = {}
      /\ vectorStore = FALSE
      /\ \A r \in Reviews : /\ ~reader[r].open /\ reader[r].part = "none" /\ net[r] = <<>>
                            /\ server[r] = call
  BY DEF ReviewInit
<1>2. call \in Call /\ CallInv(call) /\ call.pc = "new"
  BY ReviewAssumption DEF Call, CallInv, Phases, Sources
<1>3. panel.text = <<>> /\ ~panel.loading
  BY <1>1 DEF Cleared
<1>4. ReviewTypeOK
  <2>1. panel \in [text : Seq(Fragment), notice : BOOLEAN, error : BOOLEAN, loading : BOOLEAN]
    BY <1>1 DEF Cleared
  <2>2. server \in [Reviews -> Call]
    BY <1>2 DEF ReviewInit
  <2>3. net \in [Reviews -> Seq(Line)] /\ started \in 0 .. MaxReviews
        /\ reader \in [Reviews -> [open : BOOLEAN, part : Events \cup {"none"}]]
    BY ReviewAssumption DEF ReviewInit
  <2>4. QED  BY <1>1, <2>1, <2>2, <2>3 DEF ReviewTypeOK
<1> HIDE DEF call
<1>5. ASSUME NEW r \in Reviews PROVE CallInv(server[r]) /\ Wiring(r)
  BY <1>1, <1>2 DEF Wiring, Reviews
<1>6. Kept /\ Following /\ Trailing /\ Shown
  BY <1>1, <1>3 DEF Kept, Following, Trailing, Shown
<1>7. QED  BY <1>4, <1>5, <1>6 DEF ReviewInv

LEMMA ReviewNextKeeps == ReviewInv /\ [ReviewNext]_reviewVars => ReviewInv'
<1> SUFFICES ASSUME ReviewInv, [ReviewNext]_reviewVars PROVE ReviewInv'
  OBVIOUS
<1>1. ASSUME NEW r \in Reviews, ServerStep(r) PROVE ReviewInv'
  BY <1>1, LoadCodeKeeps, FindStoreKeeps, RetrieveKeeps, AskKeeps, TimeoutKeeps, TokenKeeps,
     StreamEndsKeeps, CannedWordKeeps, SaveKeeps, FinishKeeps DEF ServerStep
<1>2. ASSUME NEW r \in Reviews, Read(r) \/ LinkFails(r) \/ Closes(r) PROVE ReviewInv'
  BY <1>2, ReadLineKeeps, ReadEndKeeps, LinkFailsKeeps, ClosesKeeps DEF Read
<1>3. QED  BY <1>1, <1>2, StartKeeps, StopKeeps, ReviewStutters DEF ReviewNext

LEMMA ReviewAlways == ReviewSpec => []ReviewInv
BY ReviewStart, ReviewNextKeeps, PTL DEF ReviewSpec

(* Type correctness of the panel, the streams, the calls and the history.  *)
THEOREM ReviewTypesHold == ReviewSpec => []ReviewTypeOK
<1>1. ReviewInv => ReviewTypeOK
  BY DEF ReviewInv
<1>2. QED  BY <1>1, ReviewAlways, PTL

(* useReview.js shows one review from its beginning, the canned one with   *)
(* its notice, and the history keeps what was sent; unless the loop of a   *)
(* finished review has reset the loading flag of a newer one.              *)
THEOREM PanelsAreHonest == ReviewSpec => []PanelIsHonest
<1>1. ReviewInv => PanelIsHonest
  <2> SUFFICES ASSUME ReviewInv PROVE PanelIsHonest
    OBVIOUS
  <2>1. panel.text \in Seq(Fragment) /\ Shown
    BY DEF ReviewInv, ReviewTypeOK
  <2>2. FallbackIsFlagged /\ OneReviewShown
    <3> SUFFICES ASSUME ~unlocked, NEW i \in 1 .. Len(panel.text)
                 PROVE  /\ panel.text[i] = [review |-> started, from |-> panel.text[1].from,
                                            index |-> i]
                        /\ panel.text[i].from = "canned" => panel.notice
      BY DEF FallbackIsFlagged, OneReviewShown
    <3>1. panel.text # <<>>
      BY <2>1
    <3>2. QED  BY <2>1, <3>1 DEF Shown
  <2>3. HistoryIsWhatWasSent
    <3> SUFFICES ASSUME NEW h \in saved
                 PROVE  /\ h.notice <=> h.from = "canned"
                        /\ \A i \in 1 .. Len(panel.text) :
                              panel.text[i].review = h.review /\ ~unlocked =>
                                  panel.text[i].from = h.from /\ i <= h.sent
      BY DEF HistoryIsWhatWasSent
    <3>1. /\ h.review \in Reviews /\ h.sent \in 1 .. NumTokens /\ h = Row(h.review)
          /\ CallInv(server[h.review])
      BY DEF ReviewInv, ReviewTypeOK, SavedReview, Kept
    <3>2. /\ h.from = server[h.review].from /\ h.sent = server[h.review].sent
          /\ h.notice = server[h.review].notice
      BY <3>1 DEF Row
    <3>3. h.notice <=> h.from = "canned"
      BY <3>1, <3>2 DEF CallInv
    <3>4. ASSUME NEW i \in 1 .. Len(panel.text), panel.text[i].review = h.review, ~unlocked
          PROVE  panel.text[i].from = h.from /\ i <= h.sent
      <4>1. panel.text # <<>> /\ Len(panel.text) \in Nat /\ h.sent \in Nat
        BY <2>1, <3>1
      <4>2. panel.text[i] = [review |-> started, from |-> panel.text[1].from, index |-> i]
        BY <2>1, <3>4, <4>1 DEF Shown
      <4>3. h.review = started /\ panel.text[i].from = panel.text[1].from
        BY <3>4, <4>2
      <4>4. /\ panel.text[1].from = server[started].from
            /\ Len(panel.text) <= server[started].sent
        BY <2>1, <3>1, <3>2, <3>4, <4>1, <4>3 DEF Shown
      <4>5. QED  BY <3>2, <4>1, <4>3, <4>4
    <3>5. QED  BY <3>3, <3>4
  <2>4. QED  BY <2>2, <2>3 DEF PanelIsHonest
<1>2. QED  BY <1>1, ReviewAlways, PTL
=============================================================================
