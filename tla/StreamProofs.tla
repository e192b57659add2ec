---------------------------- MODULE StreamProofs ----------------------------
(***************************************************************************)
(* Theorems about Stream, for any number of streams, instances, events and *)
(* losses: types, the shared subscription, the order in which viewers are  *)
(* shown events, and that they miss none.                                  *)
(***************************************************************************)
EXTENDS Stream, FiniteSetTheorems, SequenceTheorems, TLAPS

(* ----------------------------- Type correctness ------------------------- *)

\* Only a stream that has subscribed and not ended is registered.
Sound == {r \in StreamState : r.attached => r.pc = "live"}

\* The types, what keeps the numbers of events in their ranges, and that only
\* streams at work are registered.
TypeInv ==
    /\ TypeOK
    /\ last # 0 => over
    /\ Len(toRedis) <= sent
    /\ \A s \in Streams : stream[s] \in Sound

\* cleanup keeps the types.
LEMMA ClosedType == ASSUME NEW r \in Sound PROVE Closed(r) \in Sound
BY DEF Closed, StreamState, Sound

\* Closing leaves a stream that is not at work unregistered.
LEMMA ClosedClears ==
    ASSUME NEW r \in Sound, r.pc # "live"
    PROVE  ~Closed(r).attached
BY DEF Closed, StreamState, Sound

\* Handing an event to one stream keeps the types,
LEMMA HandedType ==
    ASSUME NEW r \in Sound, NEW e \in Events, NEW ends
    PROVE  Handed(r, e, ends) \in Sound
<1>1. Remembered(r.seen, e) \in SUBSET Events
  BY DEF Remembered, StreamState, Sound
<1>2. [r EXCEPT !.seen = Remembered(@, e)] \in Sound
  BY <1>1 DEF StreamState, Sound
<1>3. QED  BY <1>2, ClosedType DEF Handed

\* ... registering and unregistering handlers does,
LEMMA StreamingType ==
    ASSUME TypeInv, NEW st \in [Streams -> Sound], Streaming(st)
    PROVE  /\ stream' \in [Streams -> Sound]
           /\ commands' \in [Instances -> Seq({"sub", "unsub"})]
<1>1. ASSUME NEW i \in Instances PROVE CommandsAfter(i, st) \in Seq({"sub", "unsub"})
  BY DEF CommandsAfter, TypeInv, TypeOK
<1>2. QED  BY <1>1 DEF Streaming

\* ... handing an event to several streams does,
LEMMA HandToType ==
    ASSUME TypeInv, NEW S, NEW e \in Events, NEW ends, HandTo(S, e, ends)
    PROVE  /\ stream' \in [Streams -> Sound]
           /\ commands' \in [Instances -> Seq({"sub", "unsub"})]
           /\ frames' \in [Streams -> Seq(Events)]
<1> DEFINE st == [s \in Streams |->
                     IF s \in S THEN Handed(stream[s], e, ends) ELSE stream[s]]
<1>1. st \in [Streams -> Sound]
  BY HandedType DEF TypeInv
<1>2. Streaming(st)
  BY DEF HandTo
<1>3. frames' \in [Streams -> Seq(Events)]
  BY DEF HandTo, TypeInv, TypeOK
<1> HIDE DEF st
<1>4. QED  BY <1>1, <1>2, <1>3, StreamingType

\* ... and publish does, numbering events in order.
LEMMA PublishType ==
    ASSUME TypeInv, NEW ends \in BOOLEAN, Publish(ends), ~ends => last = 0
    PROVE  /\ stream' \in [Streams -> Sound]
           /\ commands' \in [Instances -> Seq({"sub", "unsub"})]
           /\ frames' \in [Streams -> Seq(Events)]
           /\ sent' \in 0 .. MaxEvents /\ sent' = sent + 1 /\ last' \in {0, sent'}
           /\ toRedis' \in Seq(Events) /\ Len(toRedis') <= sent'
           /\ last' # 0 => ends
<1>1. sent + 1 \in Events /\ sent' = sent + 1
  BY BoundsAssumption DEF Publish, TypeInv, TypeOK, Events
<1>2. HandTo(LocalListeners, sent + 1, ends)
  BY DEF Publish
<1>3. toRedis' \in Seq(Events) /\ Len(toRedis') <= sent'
  BY <1>1 DEF Publish, TypeInv, TypeOK
<1>4. sent' \in 0 .. MaxEvents /\ last' \in {0, sent'} /\ (last' # 0 => ends)
  BY <1>1, BoundsAssumption DEF Publish, TypeInv, TypeOK, Events
<1>5. QED  BY <1>1, <1>2, <1>3, <1>4, HandToType

\* Streams not yet opened are well typed.
LEMMA TypeInit == Init => TypeInv
<1> SUFFICES ASSUME Init PROVE TypeInv
  OBVIOUS
<1>1. /\ stream \in [Streams -> StreamState]
      /\ \A s \in Streams : stream[s] \in Sound
  BY DEF Init, StreamState, Sound
<1>2. frames \in [Streams -> Seq(Events)] /\ inbox \in [Instances -> Seq(Events)]
        /\ commands \in [Instances -> Seq({"sub", "unsub"})]
  BY DEF Init
<1>3. toRedis \in Seq(Events) /\ Len(toRedis) <= sent
  BY DEF Init
<1>4. from \in [Streams -> 0 .. MaxEvents + 1] /\ lost \in 0 .. MaxLost
         /\ sent \in 0 .. MaxEvents
  BY BoundsAssumption DEF Init
<1>5. QED
  BY <1>1, <1>2, <1>3, <1>4, PlacesAssumption DEF Init, TypeInv, TypeOK

\* Every step keeps the types.
LEMMA TypeStep == TypeInv /\ [Next]_vars => TypeInv'
<1> SUFFICES ASSUME TypeInv, [Next]_vars PROVE TypeInv'
  OBVIOUS
<1>t. TypeOK
  BY DEF TypeInv
<1>s. ASSUME NEW s \in Streams PROVE stream[s] \in Sound
  BY DEF TypeInv
<1>f. Sound \subseteq StreamState
  BY DEF Sound
<1>1. CASE Progress
  <2>1. Publish(FALSE) /\ last = 0
    BY <1>1 DEF Progress, TypeInv
  <2>2. QED  BY <1>1, <2>1, PublishType, <1>f DEF Progress, TypeInv, TypeOK
<1>2. CASE Finish
  BY <1>2 DEF Finish, TypeInv, TypeOK
<1>3. CASE Done
  BY <1>3, PublishType, <1>f DEF Done, TypeInv, TypeOK
<1>4. CASE FanOut
  <2>1. Head(toRedis) \in Events /\ Tail(toRedis) \in Seq(Events)
           /\ Len(Tail(toRedis)) <= sent
    BY <1>4 DEF FanOut, TypeInv, TypeOK
  <2>2. toRedis' = Tail(toRedis)
    BY <1>4 DEF FanOut, Forgotten
  <2>3. inbox' \in [Instances -> Seq(Events)]
    <3>1. \A i \in Instances : Append(inbox[i], Head(toRedis)) \in Seq(Events)
      BY <2>1, <1>t DEF TypeOK
    <3>2. QED  BY <1>4, <3>1, <1>t DEF FanOut, TypeOK
  <2>4. lost' \in 0 .. MaxLost
    BY <1>4, BoundsAssumption DEF FanOut, Loses, TypeInv, TypeOK
  <2>5. QED  BY <1>4, <2>1, <2>2, <2>3, <2>4 DEF FanOut, TypeInv, TypeOK
<1>5. ASSUME NEW s \in Streams, Open(s) \/ Find(s) PROVE TypeInv'
  <2>1. /\ [stream[s] EXCEPT !.pc = "find"] \in Sound
        /\ [stream[s] EXCEPT !.pc = "reply", !.over = over] \in Sound
    BY <1>s, <1>t, <1>5 DEF StreamState, Sound, TypeOK, Open, Find
  <2>2. stream' \in [Streams -> Sound]
    BY <1>5, <2>1, <1>t DEF Open, Find, TypeInv, TypeOK
  <2>3. QED  BY <1>5, <2>2, <1>f DEF Open, Find, TypeInv, TypeOK
<1>6. ASSUME NEW s \in Streams, ReplayAll(s) PROVE TypeInv'
  <2>1. [Closed(stream[s]) EXCEPT !.pc = "ended"] \in Sound
    BY <1>s, <1>6, ClosedType, ClosedClears DEF StreamState, Sound, ReplayAll
  <2>2. stream' \in [Streams -> Sound]
    BY <1>6, <2>1, <1>t DEF ReplayAll, TypeInv, TypeOK
  <2>3. QED  BY <1>6, <2>2, <1>f DEF ReplayAll, TypeInv, TypeOK
<1>7. ASSUME NEW s \in Streams, Subscribe(s) PROVE TypeInv'
  <2> DEFINE st == [stream EXCEPT ![s].pc = "live", ![s].attached = TRUE,
                                  ![s].heartbeat = TRUE]
  <2>1. st \in [Streams -> Sound]
    <3>1. [stream[s] EXCEPT !.pc = "live", !.attached = TRUE, !.heartbeat = TRUE]
             \in Sound
      BY <1>s DEF Sound, StreamState
    <3>2. st = [stream EXCEPT ![s] = [stream[s] EXCEPT !.pc = "live", !.attached = TRUE,
                                                       !.heartbeat = TRUE]]
      BY <1>t DEF TypeOK
    <3>3. QED  BY <3>1, <3>2, <1>t DEF TypeInv, TypeOK
  <2>2. Streaming(st)
    BY <1>7 DEF Subscribe
  <2>3. DueNow(s) \in 0 .. MaxEvents + 1
    BY BoundsAssumption DEF DueNow, Handled, TypeInv, TypeOK
  <2>4. from' \in [Streams -> 0 .. MaxEvents + 1]
    BY <1>7, <2>3 DEF Subscribe, TypeInv, TypeOK
  <2> HIDE DEF st
  <2>5. QED  BY <1>7, <1>t, <2>1, <2>2, <2>4, StreamingType, <1>f DEF Subscribe, TypeInv, TypeOK
<1>8. ASSUME NEW s \in Streams, HangUp(s) PROVE TypeInv'
  <2> DEFINE st == [stream EXCEPT ![s] = Closed(@)]
  <2>1. st \in [Streams -> Sound]
    BY <1>s, <1>t, ClosedType DEF TypeInv, TypeOK
  <2>2. Streaming(st)
    BY <1>8 DEF HangUp
  <2> HIDE DEF st
  <2>3. QED  BY <1>8, <1>t, <2>1, <2>2, StreamingType, <1>f DEF HangUp, TypeInv, TypeOK
<1>9. ASSUME NEW i \in Instances, Command(i) PROVE TypeInv'
  <2>1. commands' \in [Instances -> Seq({"sub", "unsub"})]
    BY <1>9 DEF Command, TypeInv, TypeOK
  <2>2. Handled + 1 \in 0 .. MaxEvents + 1
    BY BoundsAssumption DEF Handled, TypeInv, TypeOK
  <2>3. from' \in [Streams -> 0 .. MaxEvents + 1]
    BY <1>9, <2>2 DEF Command, TypeInv, TypeOK
  <2>4. lost' \in 0 .. MaxLost
    BY <1>9, BoundsAssumption DEF Command, Loses, TypeInv, TypeOK
  <2>5. QED  BY <1>9, <2>1, <2>3, <2>4 DEF Command, TypeInv, TypeOK
<1>10. ASSUME NEW i \in Instances, Deliver(i) PROVE TypeInv'
  <2>1. Head(inbox[i]) \in Events /\ inbox' \in [Instances -> Seq(Events)]
    BY <1>10 DEF Deliver, TypeInv, TypeOK
  <2>2. HandTo(Handlers(i, stream), Head(inbox[i]), Head(inbox[i]) = last)
    BY <1>10 DEF Deliver
  <2>3. QED  BY <1>10, <1>t, <2>1, <2>2, HandToType, <1>f DEF Deliver, TypeInv, TypeOK
<1>11. CASE UNCHANGED vars
  BY <1>11 DEF vars, TypeInv, TypeOK
<1>12. QED
  BY <1>1, <1>2, <1>3, <1>4, <1>5, <1>6, <1>7, <1>8, <1>9, <1>10, <1>11 DEF Next

\* Every reachable state of the streams, the event bus and the channel is well
\* typed, whatever the number of viewers, instances, events and losses.
THEOREM TypeCorrect == Spec => []TypeOK
<1>1. Spec => []TypeInv
  BY TypeInit, TypeStep, PTL DEF Spec
<1>2. TypeInv => TypeOK
  BY DEF TypeInv
<1>3. QED  BY <1>1, <1>2, PTL

(* ------------------------- The shared subscription ---------------------- *)

\* What an instance's commands leave its subscription at.
Intent(i) == IF commands[i] = <<>> THEN i \in subscribed
             ELSE commands[i][Len(commands[i])] = "sub"

Matches == \A i \in Instances : Handlers(i, stream) # {} <=> Intent(i)

\* SubscriptionMatches in the terms of this section.
LEMMA MatchesDef == SubscriptionMatches <=> (redisOn /\ lost = 0 => Matches)
BY DEF SubscriptionMatches, Matches, Intent

\* Coming and going streams leave the right command behind.
LEMMA StreamingMatches ==
    ASSUME TypeOK, Matches, redisOn, NEW st, Streaming(st),
           UNCHANGED <<redisOn, at, subscribed>>
    PROVE  Matches'
<1> SUFFICES ASSUME NEW i \in Instances PROVE (Handlers(i, stream) # {})' <=> Intent(i)'
  BY DEF Matches, Handlers
<1>1. stream' = st /\ commands'[i] = CommandsAfter(i, st)
  BY DEF Streaming
<1>2. Handlers(i, stream)' = Handlers(i, st)
  BY <1>1 DEF Handlers
<1>3. CASE Handlers(i, stream) = {} <=> Handlers(i, st) = {}
  BY <1>1, <1>2, <1>3 DEF CommandsAfter, Matches, Intent
<1>4. CASE ~(Handlers(i, stream) = {} <=> Handlers(i, st) = {})
  <2> DEFINE c == IF Handlers(i, st) = {} THEN "unsub" ELSE "sub"
  <2>1. commands'[i] = Append(commands[i], c)
    BY <1>1, <1>4 DEF CommandsAfter
  <2>2. commands[i] \in Seq({"sub", "unsub"}) /\ c \in {"sub", "unsub"}
    BY DEF TypeOK
  <2>3. commands'[i] # <<>> /\ commands'[i][Len(commands'[i])] = c
    BY <2>1, <2>2
  <2>4. QED  BY <1>2, <1>4, <2>3 DEF Intent
<1>5. QED  BY <1>3, <1>4

\* Streams that come and go elsewhere in their code leave the handlers alone.
LEMMA SameHandlers ==
    ASSUME Matches, UNCHANGED <<at, commands, subscribed>>,
           \A s \in Streams : stream'[s].attached = stream[s].attached
    PROVE  Matches'
BY DEF Matches, Handlers, Intent

\* Taking the first of several commands leaves the last one last.
LEMMA TailLast ==
    ASSUME NEW T, NEW q \in Seq(T), q # <<>>, Len(q) # 1
    PROVE  Tail(q) # <<>> /\ Tail(q)[Len(Tail(q))] = q[Len(q)]
<1>1. Len(q) \in Nat /\ Len(q) # 0 /\ Len(q) # 1
  BY EmptySeq
<1>2. \A n \in Nat : n # 0 /\ n # 1 =>
          n - 1 # 0 /\ n - 1 \in 1 .. n - 1 /\ (n - 1) + 1 = n
  OBVIOUS
<1>3. /\ Tail(q) \in Seq(T) /\ Len(Tail(q)) = Len(q) - 1
      /\ \A k \in 1 .. Len(Tail(q)) : Tail(q)[k] = q[k + 1]
  BY HeadTailProperties
<1>4. Tail(q)[Len(Tail(q))] = q[Len(q)]
  BY <1>1, <1>2, <1>3, Zenon
<1>5. Tail(q) # <<>>
  BY <1>1, <1>2, <1>3, EmptySeq, Zenon
<1>6. QED  BY <1>4, <1>5

\* A command that Redis handles leaves the intent as it was.
LEMMA CommandMatches ==
    ASSUME TypeOK, Matches, NEW i \in Instances, Command(i), lost' = lost
    PROVE  Matches'
<1>1. /\ commands[i] # <<>> /\ commands' = [commands EXCEPT ![i] = Tail(@)]
      /\ subscribed' = IF Head(commands[i]) = "sub" THEN subscribed \cup {i}
                                                    ELSE subscribed \ {i}
      /\ stream' = stream /\ at' = at
  BY DEF Command, Loses, TypeOK
<1>2. ASSUME NEW j \in Instances PROVE Intent(j)' <=> Intent(j)
  <2>1. CASE j # i
    BY <1>1, <2>1 DEF Intent, TypeOK
  <2>2. CASE j = i /\ Len(commands[i]) = 1
    <3>1. commands'[i] = <<>> /\ commands[i][Len(commands[i])] = Head(commands[i])
      BY <1>1, <2>2 DEF TypeOK
    <3>2. QED  BY <1>1, <2>2, <3>1 DEF Intent
  <2>3. CASE j = i /\ Len(commands[i]) # 1
    <3>1. /\ commands'[i] # <<>>
          /\ commands'[i][Len(commands'[i])] = commands[i][Len(commands[i])]
      <4>1. commands[i] \in Seq({"sub", "unsub"})
        BY DEF TypeOK
      <4>2. commands'[i] = Tail(commands[i])
        BY <1>1 DEF TypeOK
      <4>3. QED  BY <1>1, <2>3, <4>1, <4>2, TailLast
    <3>2. QED  BY <1>1, <2>3, <3>1 DEF Intent
  <2>4. QED  BY <2>1, <2>2, <2>3
<1>3. QED  BY <1>1, <1>2 DEF Matches, Handlers

\* Every step keeps subscriptions and viewers matched.
LEMMA MatchesStep == TypeInv /\ SubscriptionMatches /\ [Next]_vars => SubscriptionMatches'
<1> SUFFICES ASSUME TypeInv, SubscriptionMatches, [Next]_vars, redisOn', lost' = 0
             PROVE  Matches'
  BY DEF SubscriptionMatches, Matches, Intent
<1>t. TypeOK
  BY DEF TypeInv
<1>0. redisOn /\ redisOn' = redisOn /\ at' = at
  BY DEF Next, vars, Progress, Finish, Done, FanOut, Open, Find, ReplayAll, Subscribe,
         HangUp, Command, Deliver
<1>l. lost = 0 /\ lost' = lost
  <2>1. lost' \in {lost, lost + 1}
    BY DEF Next, vars, Progress, Finish, Done, FanOut, Open, Find, ReplayAll, Subscribe,
           HangUp, Command, Deliver, Loses
  <2>2. QED  BY <2>1, <1>t DEF TypeOK
<1>m. Matches
  BY <1>0, <1>l, MatchesDef
<1>s. ASSUME NEW st, Streaming(st), subscribed' = subscribed PROVE Matches'
  BY <1>s, <1>t, <1>m, <1>0, StreamingMatches
<1>1. CASE Progress \/ Done
  BY <1>1, <1>s DEF Progress, Done, Publish, HandTo
<1>2. CASE Finish \/ FanOut \/ UNCHANGED vars
  BY <1>2, <1>m, <1>0, SameHandlers DEF Finish, FanOut, vars
<1>3. ASSUME NEW s \in Streams, Open(s) \/ Find(s) PROVE Matches'
  <2>1. \A x \in Streams : stream'[x].attached = stream[x].attached
    <3>1. stream[s] \in StreamState
      BY <1>t DEF TypeOK
    <3>2. stream'[s].attached = stream[s].attached
      <4>1. stream'[s] \in {[stream[s] EXCEPT !.pc = "find"],
                            [stream[s] EXCEPT !.pc = "reply", !.over = over]}
        BY <1>3, <1>t DEF Open, Find, TypeOK
      <4>2. QED  BY <3>1, <4>1 DEF StreamState
    <3>3. \A x \in Streams \ {s} : stream'[x] = stream[x]
      BY <1>3, <1>t DEF Open, Find, TypeOK
    <3>4. QED  BY <3>2, <3>3
  <2>2. QED  BY <1>3, <2>1, <1>m, <1>0, SameHandlers DEF Open, Find
<1>4. ASSUME NEW s \in Streams, ReplayAll(s) PROVE Matches'
  <2>1. stream[s] \in Sound /\ stream[s].pc # "live"
    BY <1>4 DEF ReplayAll, TypeInv
  <2>2. ~stream[s].attached /\ ~Closed(stream[s]).attached
           /\ Closed(stream[s]) \in Sound
    BY <2>1, ClosedType, ClosedClears DEF Sound
  <2>3. ~[Closed(stream[s]) EXCEPT !.pc = "ended"].attached
    BY <2>2 DEF Sound, StreamState
  <2>4. \A x \in Streams : stream'[x].attached = stream[x].attached
    <3>1. stream'[s] = [Closed(stream[s]) EXCEPT !.pc = "ended"]
      BY <1>4, <1>t DEF ReplayAll, TypeOK
    <3>2. \A x \in Streams \ {s} : stream'[x] = stream[x]
      BY <1>4, <1>t DEF ReplayAll, TypeOK
    <3>3. stream[s].attached \in BOOLEAN /\ stream'[s].attached \in BOOLEAN
      BY <2>1, <2>2, <3>1 DEF Sound, StreamState
    <3>4. QED  BY <2>2, <2>3, <3>1, <3>2, <3>3
  <2>5. QED  BY <1>4, <2>4, <1>m, <1>0, SameHandlers DEF ReplayAll
<1>5. ASSUME NEW s \in Streams, Subscribe(s) \/ HangUp(s) PROVE Matches'
  BY <1>5, <1>s DEF Subscribe, HangUp
<1>6. ASSUME NEW i \in Instances, Command(i) PROVE Matches'
  BY <1>6, <1>t, <1>m, <1>l, CommandMatches
<1>7. ASSUME NEW i \in Instances, Deliver(i) PROVE Matches'
  BY <1>7, <1>s DEF Deliver, HandTo
<1>8. QED  BY <1>1, <1>2, <1>3, <1>4, <1>5, <1>6, <1>7 DEF Next

\* subscribe and its unsubscribe function keep the one Redis subscription of an
\* instance alive exactly while a viewer needs it, however many come and go.
THEOREM SubscriptionsMatch == Spec => []SubscriptionMatches
<1>1. Init => SubscriptionMatches
  <2> SUFFICES ASSUME Init PROVE Matches
    BY MatchesDef
  <2>1. \A s \in Streams : ~stream[s].attached
    BY DEF Init
  <2>2. QED  BY <2>1 DEF Init, Matches, Handlers, Intent
<1>2. QED  BY <1>1, TypeInit, TypeStep, MatchesStep, PTL DEF Spec

(* --------------------------- The paths of an event ---------------------- *)

\* What being handed an event does to one stream.
LEMMA HandedEffect ==
    ASSUME TypeInv, NEW r \in Sound, NEW e \in Events, NEW ends \in BOOLEAN
    PROVE  LET q == Handed(r, e, ends) IN
           /\ q.seen = r.seen \cup {e}
           /\ r.closed => q.closed
           /\ q.attached => r.attached
           /\ Fresh(r, e) /\ ends => q.closed
<1>1. ~(Cardinality(r.seen \cup {e}) > SeenLimit)
  <2>1. r.seen \cup {e} \subseteq 1 .. MaxEvents
    BY DEF Sound, StreamState, Events
  <2>2. IsFiniteSet(1 .. MaxEvents) /\ Cardinality(1 .. MaxEvents) = MaxEvents
    BY BoundsAssumption, FS_Interval
  <2>3. Cardinality(r.seen \cup {e}) <= MaxEvents /\ Cardinality(r.seen \cup {e}) \in Nat
    BY <2>1, <2>2, FS_Subset, FS_CardinalityType
  <2>4. QED  BY <2>3, BoundsAssumption
<1>2. Remembered(r.seen, e) = r.seen \cup {e}
  BY <1>1 DEF Remembered
<1>3. CASE ~Fresh(r, e)
  BY <1>3 DEF Handed, Fresh
<1>4. CASE Fresh(r, e)
  BY <1>2, <1>4 DEF Handed, Closed, Sound, StreamState
<1>5. QED  BY <1>3, <1>4

\* What handing event e to the streams S does to stream s.
Effect(S, e, ends, s) ==
    /\ s \notin S => stream'[s] = stream[s] /\ frames'[s] = frames[s]
    /\ s \in S => stream'[s].seen = stream[s].seen \cup {e}
    /\ stream[s].closed => stream'[s].closed
    /\ stream'[s].attached => stream[s].attached
    /\ IF s \in S /\ e \notin stream[s].seen /\ ~stream[s].closed
       THEN frames'[s] = Append(frames[s], e) /\ (ends => stream'[s].closed)
       ELSE frames'[s] = frames[s]

\* HandTo has that effect on every stream.
LEMMA HandToEffect ==
    ASSUME TypeInv, NEW S \in SUBSET Streams, NEW e \in Events, NEW ends \in BOOLEAN,
           HandTo(S, e, ends), NEW s \in Streams
    PROVE  Effect(S, e, ends, s)
<1>1. stream[s] \in Sound
  BY DEF TypeInv
<1>2. stream'[s] = IF s \in S THEN Handed(stream[s], e, ends) ELSE stream[s]
  BY DEF HandTo, Streaming
<1>3. frames'[s] = IF s \in S /\ Fresh(stream[s], e) /\ ~stream[s].closed
                   THEN Append(frames[s], e) ELSE frames[s]
  BY DEF HandTo
<1>4. QED  BY <1>1, <1>2, <1>3, HandedEffect DEF Fresh, Effect

\* An instance that keeps a viewer sends Redis nothing.
LEMMA NoCommand ==
    ASSUME NEW st, Streaming(st), NEW i \in Instances,
           (\E s \in Streams : at[s] = i /\ stream[s].attached /\ st[s].attached) \/ ~redisOn
              \/ \A s \in Streams : at[s] = i => (st[s].attached <=> stream[s].attached)
    PROVE  commands'[i] = commands[i]
<1>1. commands'[i] = CommandsAfter(i, st)
  BY DEF Streaming
<1>2. QED  BY <1>1 DEF CommandsAfter, Handlers

Increasing(q) == \A j, k \in DOMAIN q : j < k => q[j] < q[k]

Offline ==
    ~redisOn => toRedis = <<>> /\ subscribed = {} /\ \A i \in Instances : commands[i] = <<>>

\* Redis has handled a prefix of what was published; the rest waits in order.
QueueExact == \A k \in DOMAIN toRedis : toRedis[k] = Handled + k

InboxOrdered ==
    \A i \in Instances :
        Increasing(inbox[i]) /\ \A k \in DOMAIN inbox[i] : inbox[i][k] <= Handled

FramesOrdered ==
    \A s \in Streams : at[s] # Worker =>
        /\ Increasing(frames[s])
        /\ \A j \in DOMAIN frames[s] :
              /\ frames[s][j] <= Handled
              /\ \A k \in DOMAIN inbox[at[s]] : frames[s][j] < inbox[at[s]][k]

\* The de-duplication set of an open stream is what it was shown.
MemoryExact ==
    \A s \in Streams :
        /\ Elements(frames[s]) \subseteq stream[s].seen
        /\ ~stream[s].closed => stream[s].seen \subseteq Elements(frames[s])
        /\ Elements(frames[s]) \subseteq 1 .. sent
        /\ last # 0 /\ last \in Elements(frames[s]) => stream[s].closed

Paths == TypeInv /\ Offline /\ QueueExact /\ InboxOrdered /\ FramesOrdered /\ MemoryExact

\* An element of a sequence of events is an event.
LEMMA ElementType ==
    ASSUME NEW q \in Seq(Events), NEW k \in DOMAIN q
    PROVE  q[k] \in Events /\ q[k] \in Nat
<1>1. q[k] \in Events
  OBVIOUS
<1>2. QED  BY <1>1, BoundsAssumption DEF Events

\* An appended sequence, element by element.
LEMMA AppendElements ==
    ASSUME NEW q \in Seq(Events), NEW e \in Events
    PROVE  /\ Elements(Append(q, e)) = Elements(q) \cup {e}
           /\ DOMAIN Append(q, e) = DOMAIN q \cup {Len(q) + 1}
           /\ \A k \in DOMAIN q : k <= Len(q) /\ Append(q, e)[k] = q[k]
           /\ Append(q, e)[Len(q) + 1] = e
<1>1. /\ DOMAIN Append(q, e) = DOMAIN q \cup {Len(q) + 1}
      /\ \A k \in DOMAIN q : k <= Len(q) /\ Append(q, e)[k] = q[k]
      /\ Append(q, e)[Len(q) + 1] = e
  OBVIOUS
<1>2. QED  BY <1>1 DEF Elements

\* The tail of a sequence, element by element.
LEMMA TailElements ==
    ASSUME NEW q \in Seq(Events), q # <<>>
    PROVE  /\ Len(Tail(q)) = Len(q) - 1 /\ Tail(q) \in Seq(Events)
           /\ \A k \in DOMAIN Tail(q) : k + 1 \in DOMAIN q /\ Tail(q)[k] = q[k + 1]
           /\ 1 \in DOMAIN q /\ Head(q) = q[1]
           /\ Elements(q) = Elements(Tail(q)) \cup {Head(q)}
<1>1. /\ Len(Tail(q)) = Len(q) - 1 /\ Tail(q) \in Seq(Events)
      /\ \A k \in DOMAIN Tail(q) : k + 1 \in DOMAIN q /\ Tail(q)[k] = q[k + 1]
      /\ 1 \in DOMAIN q /\ Head(q) = q[1]
  OBVIOUS
<1>2. ASSUME NEW k \in DOMAIN q, k # 1 PROVE k - 1 \in DOMAIN Tail(q) /\ Tail(q)[k - 1] = q[k]
  BY <1>1, <1>2
<1>3. ASSUME NEW x \in Elements(q) PROVE x \in Elements(Tail(q)) \cup {Head(q)}
  <2>1. PICK k \in DOMAIN q : q[k] = x
    BY <1>3 DEF Elements
  <2>2. CASE k = 1
    BY <2>1, <2>2, <1>1
  <2>3. CASE k # 1
    BY <2>1, <2>3, <1>2 DEF Elements
  <2>4. QED  BY <2>2, <2>3
<1>4. ASSUME NEW x \in Elements(Tail(q)) \cup {Head(q)} PROVE x \in Elements(q)
  BY <1>1, <1>4 DEF Elements
<1>5. QED  BY <1>1, <1>3, <1>4

\* The order survives when the next event reaches the inbox of an instance or
\* a viewer takes the first event of its inbox.
LEMMA IncreasingAppend ==
    ASSUME NEW q \in Seq(Events), NEW e \in Events, Increasing(q),
           \A k \in DOMAIN q : q[k] < e
    PROVE  Increasing(Append(q, e))
BY AppendElements DEF Increasing

\* ... or leaves it: what follows is larger.
LEMMA IncreasingTail ==
    ASSUME NEW q \in Seq(Events), q # <<>>, Increasing(q)
    PROVE  /\ Increasing(Tail(q))
           /\ \A k \in DOMAIN Tail(q) : Head(q) < Tail(q)[k]
BY TailElements DEF Increasing

\* Redis has handled no more than was published.
LEMMA HandledType == TypeInv => Handled \in Nat /\ Handled <= sent
BY DEF TypeInv, TypeOK, Handled

\* Event e is handed to the streams S, locally when it is published or later
\* when it comes out of an inbox.
LEMMA HandToMemory ==
    ASSUME Paths, NEW S \in SUBSET Streams, NEW e \in Events, NEW ends \in BOOLEAN,
           HandTo(S, e, ends), sent' \in Nat, sent <= sent', e <= sent', e = last' => ends,
           last' = last \/ (last = 0 /\ last' = e /\ e = sent + 1)
    PROVE  MemoryExact'
<1> SUFFICES ASSUME NEW s \in Streams
             PROVE  /\ Elements(frames'[s]) \subseteq stream'[s].seen
                    /\ ~stream'[s].closed => stream'[s].seen \subseteq Elements(frames'[s])
                    /\ Elements(frames'[s]) \subseteq 1 .. sent'
                    /\ last' # 0 /\ last' \in Elements(frames'[s]) => stream'[s].closed
  BY DEF MemoryExact, Elements
<1>t. TypeInv
  BY DEF Paths
<1>0. Effect(S, e, ends, s)
  BY <1>t, HandToEffect
<1>1. /\ s \notin S => stream'[s] = stream[s] /\ frames'[s] = frames[s]
      /\ s \in S => stream'[s].seen = stream[s].seen \cup {e}
      /\ stream[s].closed => stream'[s].closed
      /\ IF s \in S /\ e \notin stream[s].seen /\ ~stream[s].closed
         THEN frames'[s] = Append(frames[s], e) /\ (ends => stream'[s].closed)
         ELSE frames'[s] = frames[s]
  BY <1>0 DEF Effect
<1>2. /\ Elements(frames[s]) \subseteq stream[s].seen
      /\ ~stream[s].closed => stream[s].seen \subseteq Elements(frames[s])
      /\ Elements(frames[s]) \subseteq 1 .. sent
      /\ last # 0 /\ last \in Elements(frames[s]) => stream[s].closed
  BY DEF Paths, MemoryExact
<1>3. 1 .. sent \subseteq 1 .. sent' /\ e \in 1 .. sent' /\ sent + 1 \notin 1 .. sent
  BY DEF Events, Paths, TypeInv, TypeOK
<1>4. frames[s] \in Seq(Events)
  BY DEF Paths, TypeInv, TypeOK
<1>5. CASE s \in S /\ e \notin stream[s].seen /\ ~stream[s].closed
  <2>1. Elements(frames'[s]) = Elements(frames[s]) \cup {e}
    <3>1. frames'[s] = Append(frames[s], e)
      BY <1>1, <1>5
    <3>2. QED  BY <1>4, <3>1, AppendElements
  <2>2. QED  BY <1>1, <1>2, <1>3, <1>5, <2>1
<1>6. CASE ~(s \in S /\ e \notin stream[s].seen /\ ~stream[s].closed)
  <2>1. frames'[s] = frames[s]
    BY <1>1, <1>6
  <2>2. Elements(frames'[s]) \subseteq stream'[s].seen
    BY <1>1, <1>2, <2>1
  <2>3. ~stream'[s].closed => stream'[s].seen \subseteq Elements(frames'[s])
    BY <1>1, <1>2, <1>6, <2>1
  <2>4. last' # 0 /\ last' \in Elements(frames'[s]) => stream'[s].closed
    BY <1>1, <1>2, <1>3, <2>1
  <2>5. QED  BY <1>2, <1>3, <2>1, <2>2, <2>3, <2>4
<1>7. QED  BY <1>5, <1>6

\* Steps that only change the state of streams, and close some.
LEMMA MemoryKept ==
    ASSUME Paths, UNCHANGED <<frames, sent, last>>,
           \A s \in Streams : /\ stream'[s].seen = stream[s].seen
                              /\ stream[s].closed => stream'[s].closed
    PROVE  MemoryExact'
<1>1. /\ frames' = frames /\ sent' = sent /\ last' = last
      /\ \A s \in Streams : /\ stream'[s].seen = stream[s].seen
                            /\ stream[s].closed => stream'[s].closed
  OBVIOUS
<1>2. MemoryExact
  BY DEF Paths
<1>3. ASSUME NEW s \in Streams
      PROVE  /\ Elements(frames'[s]) \subseteq stream'[s].seen
             /\ ~stream'[s].closed => stream'[s].seen \subseteq Elements(frames'[s])
             /\ Elements(frames'[s]) \subseteq 1 .. sent'
             /\ last' # 0 /\ last' \in Elements(frames'[s]) => stream'[s].closed
  BY <1>1, <1>2 DEF MemoryExact
<1>4. QED  BY <1>3 DEF MemoryExact, Elements

\* publish keeps every event on its path: shown locally, queued for Redis.
LEMMA PublishPaths ==
    ASSUME Paths, TypeInv', NEW ends \in BOOLEAN, Publish(ends), last = 0,
           UNCHANGED <<redisOn, at, subscribed, inbox>>
    PROVE  Paths'
<1>t. TypeInv /\ TypeOK /\ Handled \in Nat
  BY HandledType DEF Paths, TypeInv
<1>e. sent + 1 \in Events /\ sent' = sent + 1
  BY <1>t, BoundsAssumption DEF Publish, TypeOK, Events
<1>S. LocalListeners \in SUBSET Streams /\ \A s \in LocalListeners : at[s] = Worker
  BY DEF LocalListeners, Handlers
<1>h. HandTo(LocalListeners, sent + 1, ends)
  BY DEF Publish
<1>q. IF redisOn THEN toRedis' = Append(toRedis, sent + 1) ELSE toRedis' = toRedis
  BY DEF Publish
<1>1. Handled' = IF redisOn THEN Handled ELSE Handled + 1
  BY <1>t, <1>e, <1>q DEF Handled, TypeOK
<1>2. Offline'
  <2>1. ~redisOn => \A i \in Instances : commands'[i] = commands[i]
    BY <1>h, NoCommand DEF HandTo
  <2>2. QED  BY <2>1, <1>q DEF Paths, Offline
<1>3. QueueExact'
  <2>1. CASE redisOn
    <3>1. /\ DOMAIN toRedis' = DOMAIN toRedis \cup {Len(toRedis) + 1}
          /\ \A k \in DOMAIN toRedis : k <= Len(toRedis) /\ toRedis'[k] = toRedis[k]
          /\ toRedis'[Len(toRedis) + 1] = sent + 1
      BY <1>t, <1>e, <1>q, <2>1, AppendElements DEF TypeOK
    <3>2. Handled + (Len(toRedis) + 1) = sent + 1
      BY <1>t DEF Handled, TypeOK
    <3>3. QED  BY <1>1, <2>1, <3>1, <3>2 DEF Paths, QueueExact
  <2>2. CASE ~redisOn
    BY <1>q, <2>2 DEF Paths, QueueExact, Offline
  <2>3. QED  BY <2>1, <2>2
<1>4. Handled <= Handled' /\ Handled' \in Nat
  BY <1>1, <1>t
<1>5. InboxOrdered'
  <2>1. ASSUME NEW i \in Instances, NEW k \in DOMAIN inbox[i] PROVE inbox[i][k] <= Handled'
    <3>1. inbox[i] \in Seq(Events)
      BY <1>t DEF TypeOK
    <3>2. inbox[i][k] \in Nat /\ inbox[i][k] <= Handled
      BY <3>1, <2>1, ElementType DEF Paths, InboxOrdered
    <3>3. QED  BY <3>2, <1>4, <1>t
  <2>2. QED  BY <2>1 DEF Paths, InboxOrdered
<1>6. FramesOrdered'
  <2>1. ASSUME NEW s \in Streams, at[s] # Worker PROVE frames'[s] = frames[s]
    <3>1. s \notin LocalListeners
      BY <1>S, <2>1
    <3>2. Effect(LocalListeners, sent + 1, ends, s)
      BY <1>S, <1>h, <1>e, <1>t, HandToEffect
    <3>3. QED  BY <3>1, <3>2 DEF Effect
  <2>2. ASSUME NEW s \in Streams, at[s] # Worker, NEW j \in DOMAIN frames[s]
        PROVE frames[s][j] <= Handled'
    <3>1. frames[s] \in Seq(Events)
      BY <1>t DEF TypeOK
    <3>2. frames[s][j] \in Nat /\ frames[s][j] <= Handled
      BY <3>1, <2>2, ElementType DEF Paths, FramesOrdered
    <3>3. QED  BY <3>2, <1>4, <1>t
  <2>3. QED  BY <2>1, <2>2 DEF Paths, FramesOrdered
<1>7. MemoryExact'
  <2>1. last' = last \/ (last = 0 /\ last' = sent + 1)
    BY DEF Publish
  <2>2. sent + 1 = last' => ends
    BY <1>t DEF Publish, TypeOK
  <2>3. sent \in Nat /\ sent <= sent + 1
    BY <1>t DEF TypeOK
  <2>4. QED  BY <1>S, <1>h, <1>e, <2>1, <2>2, <2>3, HandToMemory
<1>8. QED  BY <1>2, <1>3, <1>5, <1>6, <1>7 DEF Paths

\* A lost publication and one that is fanned out both leave the queue.
LEMMA FanOutPaths == ASSUME Paths, FanOut PROVE Paths'
<1>t. TypeInv /\ TypeOK /\ Handled \in Nat /\ toRedis \in Seq(Events) /\ toRedis # <<>>
  BY HandledType DEF Paths, TypeInv, TypeOK, FanOut
<1>q. toRedis' = Tail(toRedis) /\ Head(toRedis) = Handled + 1 /\ Handled + 1 \in Events
  <2>1. 1 \in DOMAIN toRedis /\ Head(toRedis) = toRedis[1] /\ Head(toRedis) \in Events
    BY <1>t, TailElements
  <2>2. QED  BY <2>1 DEF FanOut, Forgotten, Paths, QueueExact
<1>1. Handled' = Handled + 1 /\ sent' = sent /\ UNCHANGED <<redisOn, at, stream, frames,
                                                          commands, subscribed, last>>
  BY <1>t, <1>q DEF Handled, FanOut, TypeOK
<1>2. Offline'
  BY <1>1, <1>t DEF Paths, Offline
<1>3. QueueExact'
  BY <1>1, <1>t, <1>q, TailElements DEF Paths, QueueExact
<1>4. ASSUME NEW i \in Instances PROVE inbox'[i] \in {inbox[i], Append(inbox[i], Handled + 1)}
  BY <1>q DEF FanOut
<1>5. ASSUME NEW i \in Instances
      PROVE  /\ inbox[i] \in Seq(Events) /\ Increasing(inbox[i])
             /\ \A k \in DOMAIN inbox[i] :
                   inbox[i][k] \in Nat /\ inbox[i][k] < Handled + 1 /\ inbox[i][k] <= Handled + 1
  <2>1. inbox[i] \in Seq(Events)
    BY <1>t DEF TypeOK
  <2>2. \A k \in DOMAIN inbox[i] : inbox[i][k] <= Handled
    BY DEF Paths, InboxOrdered
  <2>3. QED  BY <2>1, <2>2, <1>t, ElementType DEF Paths, InboxOrdered
<1>6. InboxOrdered'
  <2>1. ASSUME NEW i \in Instances
        PROVE Increasing(inbox'[i]) /\ \A k \in DOMAIN inbox'[i] : inbox'[i][k] <= Handled + 1
    <3>1. CASE inbox'[i] = inbox[i]
      BY <3>1, <1>5
    <3>2. CASE inbox'[i] = Append(inbox[i], Handled + 1)
      <4>1. Increasing(inbox'[i])
        BY <3>2, <1>5, <1>q, IncreasingAppend
      <4>2. Handled + 1 <= Handled + 1
        BY <1>t
      <4>3. QED  BY <4>1, <4>2, <3>2, <1>5, <1>q, AppendElements
    <3>3. QED  BY <3>1, <3>2, <1>4
  <2>2. QED  BY <2>1, <1>1 DEF InboxOrdered, Increasing
<1>7. FramesOrdered'
  <2>1. ASSUME NEW s \in Streams, at[s] # Worker, NEW j \in DOMAIN frames[s]
        PROVE  /\ frames[s][j] <= Handled + 1
               /\ \A k \in DOMAIN inbox'[at[s]] : frames[s][j] < inbox'[at[s]][k]
    <3>1. at[s] \in Instances /\ frames[s] \in Seq(Events)
      BY <1>t DEF TypeOK
    <3>2. frames[s][j] \in Nat /\ frames[s][j] <= Handled
      BY <2>1, <3>1, ElementType DEF Paths, FramesOrdered
    <3>3. frames[s][j] < Handled + 1 /\ frames[s][j] <= Handled + 1
      BY <3>2, <1>t
    <3>4. \A k \in DOMAIN inbox[at[s]] : frames[s][j] < inbox[at[s]][k]
      BY <2>1 DEF Paths, FramesOrdered
    <3>5. CASE inbox'[at[s]] = inbox[at[s]]
      BY <3>3, <3>4, <3>5
    <3>6. CASE inbox'[at[s]] = Append(inbox[at[s]], Handled + 1)
      BY <3>1, <3>3, <3>4, <3>6, <1>5, <1>q, AppendElements
    <3>7. QED  BY <3>1, <3>5, <3>6, <1>4
  <2>2. QED  BY <2>1, <1>1 DEF Paths, FramesOrdered, Increasing
<1>8. MemoryExact'
  BY <1>1, MemoryKept
<1>9. QED  BY <1>2, <1>3, <1>6, <1>7, <1>8, <1>t, TypeStep DEF Paths, Next

\* The message handler shows its viewers the first event of the inbox.
LEMMA DeliverPaths == ASSUME Paths, NEW i \in Instances, Deliver(i) PROVE Paths'
<1> DEFINE e == Head(inbox[i])
           H == Handlers(i, stream)
<1>t. TypeInv /\ TypeOK /\ Handled \in Nat /\ Handled <= sent /\ sent \in Nat
  BY HandledType DEF Paths, TypeInv, TypeOK
<1>i. inbox[i] \in Seq(Events) /\ inbox[i] # <<>> /\ inbox' = [inbox EXCEPT ![i] = Tail(@)]
  BY <1>t DEF Deliver, TypeOK
<1>e. e \in Events /\ e \in Nat /\ e <= Handled /\ e <= sent
  <2>1. 1 \in DOMAIN inbox[i] /\ e = inbox[i][1]
    BY <1>i, TailElements
  <2>2. e \in Events /\ e \in Nat
    BY <1>i, <2>1, ElementType
  <2>3. e <= Handled
    BY <2>1 DEF Paths, InboxOrdered
  <2>4. QED  BY <2>2, <2>3, <1>t
<1>h. HandTo(H, e, e = last)
  BY DEF Deliver
<1>H. H \in SUBSET Streams /\ \A s \in H : at[s] = i
  BY DEF Handlers
<1>u. UNCHANGED <<redisOn, sent, last, at, toRedis, subscribed>>
  BY DEF Deliver
<1>1. Handled' = Handled
  BY <1>u DEF Handled
<1> HIDE DEF e, H
<1>2. Offline'
  <2>1. ~redisOn => \A x \in Instances : commands'[x] = commands[x]
    BY <1>h, NoCommand DEF HandTo
  <2>2. QED  BY <2>1, <1>u DEF Paths, Offline
<1>3. QueueExact'
  BY <1>1, <1>u DEF Paths, QueueExact
<1>4. ASSUME NEW x \in Instances
      PROVE  /\ Increasing(inbox'[x])
             /\ \A k \in DOMAIN inbox'[x] :
                   \E j \in DOMAIN inbox[x] : inbox'[x][k] = inbox[x][j]
  <2>0. Increasing(inbox[x])
    BY DEF Paths, InboxOrdered
  <2>1. CASE x # i
    BY <2>0, <2>1, <1>t, <1>i DEF TypeOK
  <2>2. CASE x = i
    <3>1. inbox'[x] = Tail(inbox[x])
      BY <2>2, <1>t, <1>i DEF TypeOK
    <3>2. QED  BY <2>0, <2>2, <3>1, <1>i, IncreasingTail, TailElements
  <2>3. QED  BY <2>1, <2>2
<1>5. InboxOrdered'
  <2>1. \A x \in Instances : \A k \in DOMAIN inbox'[x] : inbox'[x][k] <= Handled
    BY <1>4 DEF Paths, InboxOrdered
  <2>2. QED  BY <1>1, <1>4, <2>1 DEF InboxOrdered, Increasing
<1>6. FramesOrdered'
  <2>1. ASSUME NEW s \in Streams, at[s] # Worker
        PROVE  /\ Increasing(frames'[s])
               /\ \A j \in DOMAIN frames'[s] :
                     /\ frames'[s][j] <= Handled
                     /\ \A k \in DOMAIN inbox'[at[s]] : frames'[s][j] < inbox'[at[s]][k]
    <3>1. frames[s] \in Seq(Events) /\ at[s] \in Instances
      BY <1>t DEF TypeOK
    <3>2. /\ Increasing(frames[s])
          /\ \A j \in DOMAIN frames[s] :
                /\ frames[s][j] <= Handled
                /\ \A k \in DOMAIN inbox[at[s]] : frames[s][j] < inbox[at[s]][k]
      BY <2>1 DEF Paths, FramesOrdered
    <3>3. \A j \in DOMAIN frames[s] : \A k \in DOMAIN inbox'[at[s]] :
             frames[s][j] < inbox'[at[s]][k]
      BY <3>1, <3>2, <1>4
    <3>4. Effect(H, e, e = last, s)
      BY <1>t, <1>H, <1>e, <1>h, HandToEffect
    <3>5. CASE frames'[s] = frames[s]
      BY <3>2, <3>3, <3>5
    <3>6. CASE frames'[s] # frames[s]
      <4>1. s \in H /\ frames'[s] = Append(frames[s], e)
        BY <3>4, <3>6 DEF Effect
      <4>2. at[s] = i /\ inbox'[i] = Tail(inbox[i])
        BY <4>1, <1>H, <1>i, <1>t DEF TypeOK
      <4>3. \A k \in DOMAIN inbox'[i] : e < inbox'[i][k]
        <5>1. Increasing(inbox[i])
          BY DEF Paths, InboxOrdered
        <5>2. QED  BY <5>1, <4>2, <1>i, IncreasingTail DEF e
      <4>4. \A j \in DOMAIN frames[s] : frames[s][j] < e
        <5>1. 1 \in DOMAIN inbox[i] /\ e = inbox[i][1]
          BY <1>i, TailElements DEF e
        <5>2. QED  BY <5>1, <4>2, <3>2
      <4>5. Increasing(frames'[s])
        BY <4>1, <4>4, <3>1, <3>2, <1>e, IncreasingAppend
      <4>6. QED  BY <4>1, <4>2, <4>3, <4>5, <3>1, <3>2, <3>3, <1>e, AppendElements
    <3>7. QED  BY <3>5, <3>6
  <2>2. QED  BY <2>1, <1>1, <1>u DEF FramesOrdered, Increasing
<1>7. MemoryExact'
  <2>1. sent' \in Nat /\ sent <= sent' /\ e <= sent' /\ last' = last
    BY <1>t, <1>e, <1>u
  <2>2. (e = last) \in BOOLEAN /\ (e = last' => e = last)
    BY <2>1
  <2>3. QED  BY <1>H, <1>e, <1>h, <2>1, <2>2, HandToMemory
<1>8. QED  BY <1>2, <1>3, <1>5, <1>6, <1>7, <1>t, TypeStep DEF Paths, Next

\* What the steps of streamRun itself leave of a stream.
LEMMA StreamRunKeeps ==
    ASSUME TypeInv, NEW x \in Streams,
           Open(x) \/ Find(x) \/ ReplayAll(x) \/ Subscribe(x) \/ HangUp(x)
    PROVE  \A s \in Streams :
              /\ stream'[s].seen = stream[s].seen
              /\ stream[s].closed => stream'[s].closed
              /\ s # x \/ ~Subscribe(x) => (stream'[s].attached => stream[s].attached)
<1>t. TypeOK /\ stream[x] \in Sound
  BY DEF TypeInv
<1>1. \A s \in Streams \ {x} : stream'[s] = stream[s]
  BY <1>t DEF Open, Find, ReplayAll, Subscribe, HangUp, Streaming, TypeOK
<1>2. CASE Open(x) \/ Find(x)
  <2>1. stream'[x] \in {[stream[x] EXCEPT !.pc = "find"],
                        [stream[x] EXCEPT !.pc = "reply", !.over = over]}
    BY <1>2, <1>t DEF Open, Find, TypeOK
  <2>2. QED  BY <1>1, <2>1, <1>t DEF Sound, StreamState
<1>3. CASE ReplayAll(x) \/ HangUp(x)
  <2>1. stream'[x] \in {[Closed(stream[x]) EXCEPT !.pc = "ended"], Closed(stream[x])}
    BY <1>3, <1>t DEF ReplayAll, HangUp, Streaming, TypeOK
  <2>2. QED  BY <1>1, <2>1, <1>t DEF Sound, StreamState, Closed
<1>4. CASE Subscribe(x)
  <2>1. stream'[x] = [stream[x] EXCEPT !.pc = "live", !.attached = TRUE, !.heartbeat = TRUE]
    BY <1>4, <1>t DEF Subscribe, Streaming, TypeOK
  <2>2. QED  BY <1>1, <1>4, <2>1, <1>t DEF Sound, StreamState
<1>5. QED  BY <1>2, <1>3, <1>4

\* Streams that come and go change no path of an event,
LEMMA StreamRunPaths ==
    ASSUME Paths, NEW x \in Streams,
           Open(x) \/ Find(x) \/ ReplayAll(x) \/ Subscribe(x) \/ HangUp(x)
    PROVE  Paths'
<1>t. TypeInv
  BY DEF Paths
<1>u. UNCHANGED <<redisOn, sent, last, at, frames, toRedis, subscribed, inbox>>
  BY DEF Open, Find, ReplayAll, Subscribe, HangUp
<1>1. ~redisOn => \A i \in Instances : commands'[i] = commands[i]
  BY NoCommand DEF Open, Find, ReplayAll, Subscribe, HangUp
<1>2. Offline' /\ QueueExact' /\ InboxOrdered' /\ FramesOrdered'
  BY <1>1, <1>u DEF Paths, Offline, QueueExact, Handled, InboxOrdered, FramesOrdered, Increasing
<1>3. MemoryExact'
  BY <1>t, <1>u, StreamRunKeeps, MemoryKept
<1>4. TypeInv'
  BY <1>t, TypeStep DEF Next
<1>5. QED  BY <1>2, <1>3, <1>4 DEF Paths

\* ... nor do Redis's SUBSCRIBE and UNSUBSCRIBE.
LEMMA CommandPaths == ASSUME Paths, NEW i \in Instances, Command(i) PROVE Paths'
<1>t. TypeInv
  BY DEF Paths
<1>u. UNCHANGED <<redisOn, sent, last, at, stream, frames, toRedis, inbox>>
  BY DEF Command
<1>1. redisOn
  BY DEF Command, Paths, Offline
<1>2. Offline' /\ QueueExact' /\ InboxOrdered' /\ FramesOrdered'
  BY <1>1, <1>u DEF Paths, Offline, QueueExact, Handled, InboxOrdered, FramesOrdered, Increasing
<1>3. MemoryExact'
  BY <1>u, MemoryKept
<1>4. TypeInv'
  BY <1>t, TypeStep DEF Next
<1>5. QED  BY <1>2, <1>3, <1>4 DEF Paths

\* Before the first event there is nothing on the way.
LEMMA PathsInit == Init => Paths
<1> SUFFICES ASSUME Init PROVE Paths
  OBVIOUS
<1>1. TypeInv
  BY TypeInit
<1>2. /\ toRedis = <<>> /\ sent = 0 /\ last = 0 /\ subscribed = {}
      /\ \A i \in Instances : commands[i] = <<>> /\ inbox[i] = <<>>
      /\ \A s \in Streams : frames[s] = <<>> /\ stream[s].seen = {}
  BY DEF Init
<1>3. MemoryExact
  BY <1>2 DEF MemoryExact, Elements
<1>4. QED
  BY <1>1, <1>2, <1>3 DEF Paths, Offline, QueueExact, InboxOrdered, FramesOrdered, Increasing

\* Every step keeps every event on its path.
LEMMA PathsStep == Paths /\ [Next]_vars => Paths'
<1> SUFFICES ASSUME Paths, [Next]_vars PROVE Paths'
  OBVIOUS
<1>t. TypeInv /\ TypeInv'
  BY TypeStep DEF Paths
<1>1. CASE Progress
  BY <1>1, <1>t, PublishPaths DEF Progress, TypeInv
<1>2. CASE Done
  BY <1>2, <1>t, PublishPaths DEF Done
<1>3. CASE Finish \/ UNCHANGED vars
  <2>1. UNCHANGED <<redisOn, sent, last, at, stream, frames, toRedis, commands,
                    subscribed, inbox>>
    BY <1>3 DEF Finish, vars
  <2>2. Offline' /\ QueueExact' /\ InboxOrdered' /\ FramesOrdered'
    BY <2>1 DEF Paths, Offline, QueueExact, Handled, InboxOrdered, FramesOrdered, Increasing
  <2>3. MemoryExact'
    BY <2>1, MemoryKept
  <2>4. QED  BY <1>t, <2>2, <2>3 DEF Paths
<1>4. CASE FanOut
  BY <1>4, FanOutPaths
<1>5. CASE \E x \in Streams : Open(x) \/ Find(x) \/ ReplayAll(x) \/ Subscribe(x) \/ HangUp(x)
  BY <1>5, StreamRunPaths
<1>6. CASE \E i \in Instances : Command(i) \/ Deliver(i)
  BY <1>6, CommandPaths, DeliverPaths
<1>7. QED  BY <1>1, <1>2, <1>3, <1>4, <1>5, <1>6 DEF Next

\* So events are always on their paths.
LEMMA PathsCorrect == Spec => []Paths
BY PathsInit, PathsStep, PTL DEF Spec

\* Viewers whom pub/sub reaches through Redis alone are shown events in the
\* order of publish, whatever is lost.
THEOREM RemoteViewersInOrder == Spec => []RemoteInOrder
<1>1. Paths => RemoteInOrder
  BY DEF Paths, FramesOrdered, Increasing, RemoteInOrder
<1>2. QED  BY <1>1, PathsCorrect, PTL

(* ------------------------------- The feed ------------------------------- *)

\* A step hands an event to no stream, or an event to the streams of one
\* instance; either way every viewer is shown one event more, or none.
LEMMA HandToShows ==
    ASSUME Paths, TypeInv', NEW S \in SUBSET Streams, NEW e \in Events, NEW ends \in BOOLEAN,
           HandTo(S, e, ends), e \in 1 .. sent', NEW s \in Streams
    PROVE  Feed!Show(s)
<1>t. TypeInv
  BY DEF Paths
<1>1. Effect(S, e, ends, s)
  BY <1>t, HandToEffect
<1>2. CASE frames'[s] = frames[s]
  BY <1>2 DEF Feed!Show
<1>3. CASE frames'[s] # frames[s]
  <2>1. e \notin stream[s].seen /\ ~stream[s].closed /\ frames'[s] = Append(frames[s], e)
    BY <1>1, <1>3 DEF Effect
  <2>2. Elements(frames[s]) \subseteq stream[s].seen
           /\ (last # 0 /\ last \in Elements(frames[s]) => stream[s].closed)
    BY DEF Paths, MemoryExact
  <2>3. Feed!Shown(s) = Elements(frames[s])
    BY DEF Feed!Shown, Elements
  <2>4. QED  BY <2>1, <2>2, <2>3 DEF Feed!Show
<1>4. QED  BY <1>2, <1>3

\* Every step is a step of RunFeed, or changes nothing it speaks of.
LEMMA FeedStep == Paths /\ [Next]_vars => [Feed!Next]_<<sent, last, frames>>
<1> SUFFICES ASSUME Paths, [Next]_vars, ~UNCHANGED <<sent, last, frames>> PROVE Feed!Next
  OBVIOUS
<1>t. TypeInv /\ TypeInv' /\ TypeOK
  BY TypeStep DEF Paths, TypeInv
<1>f. frames' \in [Streams -> Seq(Nat)]
  <2>1. frames' \in [Streams -> Seq(Events)]
    BY <1>t DEF TypeInv, TypeOK, Events
  <2>2. ASSUME NEW s \in Streams PROVE frames'[s] \in Seq(Nat)
    <3>1. frames'[s] \in Seq(Events)
      BY <2>1
    <3>2. \A k \in 1 .. Len(frames'[s]) : frames'[s][k] \in Nat
      BY <3>1, ElementType
    <3>3. QED  BY <3>1, <3>2
  <2>3. QED  BY <2>1, <2>2
<1>1. ASSUME NEW ends \in BOOLEAN, Publish(ends), last = 0 PROVE Feed!Next
  <2>1. sent + 1 \in Events /\ sent' = sent + 1 /\ sent + 1 \in 1 .. sent'
    BY <1>1, <1>t, BoundsAssumption DEF Publish, TypeOK, Events
  <2>2. LocalListeners \in SUBSET Streams /\ HandTo(LocalListeners, sent + 1, ends)
    BY <1>1 DEF Publish, LocalListeners, Handlers
  <2>3. \A s \in Streams : Feed!Show(s)
    BY <1>t, <2>1, <2>2, HandToShows
  <2>4. last' = last \/ (last = 0 /\ sent' = sent + 1 /\ last' = sent')
    BY <1>1, <2>1 DEF Publish
  <2>5. QED  BY <1>f, <2>1, <2>3, <2>4 DEF Feed!Next
<1>2. CASE Progress \/ Done
  BY <1>1, <1>2, <1>t DEF Progress, Done, TypeInv
<1>3. ASSUME NEW i \in Instances, Deliver(i) PROVE Feed!Next
  <2> DEFINE e == Head(inbox[i])
  <2>1. sent' = sent /\ last' = last
    BY <1>3 DEF Deliver
  <2>2. e \in Events /\ e \in 1 .. sent'
    <3>1. inbox[i] \in Seq(Events) /\ inbox[i] # <<>>
      BY <1>3, <1>t DEF Deliver, TypeOK
    <3>2. 1 \in DOMAIN inbox[i] /\ e = inbox[i][1]
      BY <3>1, TailElements
    <3>3. e \in Events /\ e \in Nat /\ e <= Handled
      BY <3>1, <3>2, ElementType DEF Paths, InboxOrdered
    <3>4. Handled \in Nat /\ Handled <= sent /\ sent \in Nat
      BY <1>t, HandledType DEF TypeOK
    <3>5. QED  BY <3>3, <3>4, <2>1 DEF Events
  <2>3. Handlers(i, stream) \in SUBSET Streams /\ HandTo(Handlers(i, stream), e, e = last)
    BY <1>3 DEF Deliver, Handlers
  <2> HIDE DEF e
  <2>4. \A s \in Streams : Feed!Show(s)
    BY <1>t, <2>2, <2>3, HandToShows
  <2>5. QED  BY <1>f, <2>1, <2>4 DEF Feed!Next
<1>4. QED
  BY <1>2, <1>3 DEF Next, vars, Finish, FanOut, Open, Find, ReplayAll, Subscribe, HangUp, Command

\* The two paths of the event bus, with de-duplication and teardown, implement
\* RunFeed: no viewer is shown an event twice, or anything after "done".
THEOREM Refinement == Spec => ImplementsRunFeed
<1>1. Init => Feed!Init
  BY DEF Init, Feed!Init
<1>2. QED  BY <1>1, FeedStep, PathsCorrect, PTL DEF Spec, ImplementsRunFeed, Feed!Spec

(* --------------------------- What viewers are due ----------------------- *)

\* A viewer on the worker's instance has been shown what it is due.
LocalDue ==
    \A s \in Streams : at[s] = Worker /\ stream[s].attached =>
        /\ from[s] # 0
        /\ ~stream[s].closed => from[s] .. sent \subseteq Elements(frames[s])

\* Elsewhere, unless something was lost, the instance of a viewer that is due
\* events is subscribed and stays so, and what Redis has handled of them has
\* been shown or waits in the inbox.
RemoteDue ==
    \A s \in Streams :
        lost = 0 /\ at[s] # Worker /\ stream[s].attached /\ from[s] # 0 =>
            /\ at[s] \in subscribed /\ commands[at[s]] = <<>>
            /\ ~stream[s].closed =>
                  from[s] .. Handled \subseteq Elements(frames[s]) \cup Elements(inbox[at[s]])

DueInv == Paths /\ SubscriptionMatches /\ LocalDue /\ RemoteDue

\* The events that Redis has not handled wait in its queue.
LEMMA QueueHoldsRest ==
    ASSUME TypeInv, QueueExact, NEW e \in Nat, e <= sent, ~(e <= Handled)
    PROVE  e \in Elements(toRedis)
<1>1. /\ e - Handled \in DOMAIN toRedis /\ Handled + (e - Handled) = e
      /\ Handled \in Nat
  BY DEF TypeInv, TypeOK, Handled
<1>2. toRedis[e - Handled] = e
  BY <1>1 DEF QueueExact
<1>3. QED  BY <1>1, <1>2 DEF Elements

\* What is due and not shown is in the inbox or in Redis's queue.
LEMMA DueSuffices == DueInv => NothingMissed
<1> SUFFICES ASSUME DueInv, NEW s \in Streams, stream[s].attached, ~stream[s].closed,
                    from[s] # 0, at[s] = Worker \/ lost = 0, NEW e \in from[s] .. sent
             PROVE  \/ e \in Elements(frames[s])
                    \/ at[s] # Worker /\ e \in Elements(inbox[at[s]]) \cup Elements(toRedis)
  BY DEF NothingMissed
<1>t. TypeInv /\ QueueExact /\ from[s] \in Nat /\ sent \in Nat /\ Handled \in Nat
  BY HandledType DEF DueInv, Paths, TypeInv, TypeOK
<1>1. CASE at[s] = Worker
  BY <1>1 DEF DueInv, LocalDue
<1>2. CASE at[s] # Worker /\ e <= Handled
  <2>1. e \in from[s] .. Handled
    BY <1>2, <1>t
  <2>2. QED  BY <2>1, <1>2 DEF DueInv, RemoteDue
<1>3. CASE at[s] # Worker /\ ~(e <= Handled)
  <2>1. e \in Nat /\ e <= sent
    BY <1>t
  <2>2. QED  BY <1>3, <1>t, <2>1, QueueHoldsRest
<1>4. QED  BY <1>1, <1>2, <1>3

\* A stream at work keeps its instance from sending Redis anything.
LEMMA CommandKept ==
    ASSUME NEW st, Streaming(st), NEW s \in Streams, at[s] \in Instances,
           stream[s].attached, st[s].attached
    PROVE  commands'[at[s]] = commands[at[s]]
BY NoCommand

\* publish shows local viewers the event; the others wait for Redis.
LEMMA PublishDue ==
    ASSUME DueInv, NEW ends \in BOOLEAN, Publish(ends), last = 0,
           UNCHANGED <<redisOn, at, subscribed, inbox, from, lost>>
    PROVE  LocalDue' /\ RemoteDue'
<1>t. Paths /\ TypeInv /\ TypeOK /\ Handled \in Nat
  BY HandledType DEF DueInv, Paths, TypeInv
<1>e. sent + 1 \in Events /\ sent' = sent + 1 /\ sent \in Nat
  BY <1>t, BoundsAssumption DEF Publish, TypeOK, Events
<1>S. LocalListeners = {s \in Streams : at[s] = Worker /\ stream[s].attached}
  BY DEF LocalListeners, Handlers
<1>h. HandTo(LocalListeners, sent + 1, ends)
  BY DEF Publish
<1>E. ASSUME NEW s \in Streams PROVE Effect(LocalListeners, sent + 1, ends, s)
  <2>1. LocalListeners \in SUBSET Streams
    BY <1>S
  <2>2. QED  BY <2>1, <1>t, <1>e, <1>h, HandToEffect
<1>1. LocalDue'
  <2> SUFFICES ASSUME NEW s \in Streams, at[s] = Worker, stream'[s].attached
               PROVE  /\ from[s] # 0
                      /\ ~stream'[s].closed => from[s] .. sent' \subseteq Elements(frames'[s])
    BY DEF LocalDue, Elements
  <2>1. stream[s].attached /\ from[s] # 0 /\ s \in LocalListeners /\ from[s] \in Nat
    BY <1>E, <1>S, <1>t DEF Effect, DueInv, LocalDue, TypeOK
  <2>2. ASSUME ~stream'[s].closed
        PROVE  from[s] .. sent' \subseteq Elements(frames'[s])
    <3>1. ~stream[s].closed
      BY <1>E, <2>2 DEF Effect
    <3>2. /\ from[s] .. sent \subseteq Elements(frames[s])
          /\ stream[s].seen \subseteq Elements(frames[s]) /\ Elements(frames[s]) \subseteq 1 .. sent
      BY <2>1, <3>1, <1>t DEF DueInv, LocalDue, Paths, MemoryExact
    <3>3. sent + 1 \notin stream[s].seen
      BY <3>2, <1>e
    <3>4. frames'[s] = Append(frames[s], sent + 1)
      BY <1>E, <2>1, <3>1, <3>3 DEF Effect
    <3>5. frames[s] \in Seq(Events)
      BY <1>t DEF TypeOK
    <3>6. Elements(frames'[s]) = Elements(frames[s]) \cup {sent + 1}
      BY <1>e, <3>4, <3>5, AppendElements
    <3>7. from[s] .. sent' \subseteq (from[s] .. sent) \cup {sent + 1}
      BY <1>e, <2>1
    <3>8. QED  BY <3>2, <3>6, <3>7
  <2>3. QED  BY <2>1, <2>2
<1>2. RemoteDue'
  <2> SUFFICES ASSUME NEW s \in Streams, lost = 0, at[s] # Worker, stream'[s].attached,
                      from[s] # 0
               PROVE  /\ at[s] \in subscribed /\ commands'[at[s]] = <<>>
                      /\ ~stream'[s].closed =>
                            from[s] .. Handled' \subseteq Elements(frames'[s])
                                                     \cup Elements(inbox[at[s]])
    BY DEF RemoteDue, Elements
  <2>1. stream'[s] = stream[s] /\ frames'[s] = frames[s]
    BY <1>E, <1>S DEF Effect
  <2>2. at[s] \in subscribed /\ commands[at[s]] = <<>>
           /\ (~stream[s].closed =>
                  from[s] .. Handled \subseteq Elements(frames[s]) \cup Elements(inbox[at[s]]))
    BY <2>1 DEF DueInv, RemoteDue
  <2>3. commands'[at[s]] = commands[at[s]]
    <3>1. at[s] \in Instances
      BY <1>t DEF TypeOK
    <3>2. QED  BY <1>h, <2>1, <3>1, CommandKept DEF HandTo, Streaming
  <2>4. Handled' = Handled
    <3>1. redisOn
      BY <2>2, <1>t DEF Paths, Offline
    <3>2. toRedis' = Append(toRedis, sent + 1) /\ toRedis \in Seq(Events)
      BY <3>1, <1>t DEF Publish, TypeOK
    <3>3. QED  BY <3>2, <1>e DEF Handled
  <2>5. QED  BY <2>1, <2>2, <2>3, <2>4
<1>3. QED  BY <1>1, <1>2

\* Redis handles a publication: it reaches the inboxes of all who are due it,
\* or is lost.
LEMMA FanOutDue == ASSUME DueInv, FanOut PROVE LocalDue' /\ RemoteDue'
<1>t. Paths /\ TypeInv /\ TypeOK /\ Handled \in Nat /\ toRedis \in Seq(Events)
         /\ toRedis # <<>>
  BY HandledType DEF DueInv, Paths, TypeInv, TypeOK, FanOut
<1>u. UNCHANGED <<redisOn, sent, at, stream, frames, commands, subscribed, from>>
  BY DEF FanOut
<1>q. Handled' = Handled + 1 /\ Head(toRedis) = Handled + 1 /\ Handled + 1 \in Events
  <2>1. 1 \in DOMAIN toRedis /\ Head(toRedis) = toRedis[1] /\ Head(toRedis) \in Events
           /\ Len(Tail(toRedis)) = Len(toRedis) - 1
    BY <1>t, TailElements
  <2>2. toRedis' = Tail(toRedis)
    BY DEF FanOut, Forgotten
  <2>3. toRedis[1] = Handled + 1
    BY <1>t, <2>1 DEF Paths, QueueExact
  <2>4. Handled' = Handled + 1
    BY <1>t, <1>u, <2>1, <2>2 DEF Handled, TypeOK
  <2>5. QED  BY <2>1, <2>3, <2>4
<1>1. LocalDue'
  BY <1>u DEF DueInv, LocalDue, Elements
<1>2. RemoteDue'
  <2> SUFFICES ASSUME NEW s \in Streams, lost' = 0, at[s] # Worker, stream[s].attached,
                      from[s] # 0
               PROVE  /\ at[s] \in subscribed /\ commands[at[s]] = <<>>
                      /\ ~stream[s].closed =>
                            from[s] .. Handled' \subseteq Elements(frames[s])
                                                     \cup Elements(inbox'[at[s]])
    BY <1>u DEF RemoteDue, Elements
  <2>1. lost = 0 /\ lost' = lost
    BY <1>t DEF FanOut, Loses, TypeOK
  <2>2. at[s] \in subscribed /\ commands[at[s]] = <<>>
           /\ (~stream[s].closed =>
                  from[s] .. Handled \subseteq Elements(frames[s]) \cup Elements(inbox[at[s]]))
    BY <2>1 DEF DueInv, RemoteDue
  <2>3. at[s] \in Instances /\ inbox[at[s]] \in Seq(Events) /\ from[s] \in Nat
    BY <1>t DEF TypeOK
  <2>4. inbox'[at[s]] = Append(inbox[at[s]], Handled + 1)
    BY <2>1, <2>2, <2>3, <1>t, <1>q DEF FanOut, Loses, TypeOK
  <2>5. Elements(inbox'[at[s]]) = Elements(inbox[at[s]]) \cup {Handled + 1}
    BY <2>3, <2>4, <1>q, AppendElements
  <2>6. from[s] .. Handled' \subseteq (from[s] .. Handled) \cup {Handled + 1}
    BY <1>q, <1>t, <2>3
  <2>7. QED  BY <2>2, <2>5, <2>6
<1>3. QED  BY <1>1, <1>2

\* An event leaves the inbox for the viewers, who may have seen it before.
LEMMA DeliverDue == ASSUME DueInv, NEW i \in Instances, Deliver(i) PROVE LocalDue' /\ RemoteDue'
<1> DEFINE e == Head(inbox[i])
           H == Handlers(i, stream)
<1>t. Paths /\ TypeInv /\ TypeOK /\ inbox[i] \in Seq(Events) /\ inbox[i] # <<>>
  BY DEF DueInv, Paths, TypeInv, TypeOK, Deliver
<1>u. UNCHANGED <<redisOn, sent, last, at, toRedis, subscribed, from, lost>>
         /\ inbox' = [inbox EXCEPT ![i] = Tail(@)]
  BY DEF Deliver
<1>i. e \in Events /\ Elements(inbox[i]) = Elements(Tail(inbox[i])) \cup {e}
  BY <1>t, TailElements, ElementType
<1>h. HandTo(H, e, e = last) /\ H = {s \in Streams : at[s] = i /\ stream[s].attached}
  BY DEF Deliver, Handlers
<1> HIDE DEF e, H
<1>E. ASSUME NEW s \in Streams PROVE Effect(H, e, e = last, s)
  <2>1. H \in SUBSET Streams
    BY <1>h
  <2>2. QED  BY <2>1, <1>t, <1>i, <1>h, HandToEffect
\* An open viewer keeps what it was shown and has then been shown e.
<1>1. ASSUME NEW s \in Streams, ~stream'[s].closed, stream'[s].attached
      PROVE  /\ ~stream[s].closed /\ stream[s].attached
             /\ Elements(frames[s]) \subseteq Elements(frames'[s])
             /\ at[s] = i => e \in Elements(frames'[s])
  <2>1. ~stream[s].closed /\ stream[s].attached
    BY <1>E, <1>1 DEF Effect
  <2>2. frames[s] \in Seq(Events)
    BY <1>t DEF TypeOK
  <2>3. CASE frames'[s] = Append(frames[s], e)
    <3>1. Elements(frames'[s]) = Elements(frames[s]) \cup {e}
      BY <2>2, <2>3, <1>i, AppendElements
    <3>2. QED  BY <2>1, <3>1
  <2>4. CASE frames'[s] # Append(frames[s], e)
    <3>1. frames'[s] = frames[s] /\ (at[s] = i => e \in stream[s].seen)
      BY <1>E, <2>1, <2>4, <1>h DEF Effect
    <3>2. stream[s].seen \subseteq Elements(frames[s])
      BY <2>1, <1>t DEF Paths, MemoryExact
    <3>3. QED  BY <2>1, <3>1, <3>2
  <2>5. QED  BY <2>3, <2>4
<1>2. ASSUME NEW s \in Streams, stream'[s].attached PROVE stream[s].attached
  BY <1>E, <1>2 DEF Effect
<1>3. LocalDue'
  <2>1. ASSUME NEW s \in Streams, at[s] = Worker, stream'[s].attached
        PROVE  /\ from[s] # 0
               /\ ~stream'[s].closed => from[s] .. sent \subseteq Elements(frames'[s])
    BY <2>1, <1>1, <1>2 DEF DueInv, LocalDue
  <2>2. QED  BY <2>1, <1>u DEF LocalDue, Elements
<1>4. RemoteDue'
  <2>1. ASSUME NEW s \in Streams, lost = 0, at[s] # Worker, stream'[s].attached, from[s] # 0
        PROVE  /\ at[s] \in subscribed /\ commands'[at[s]] = <<>>
               /\ ~stream'[s].closed =>
                     from[s] .. Handled \subseteq Elements(frames'[s])
                                                \cup Elements(inbox'[at[s]])
    <3>1. at[s] \in Instances /\ stream[s].attached
      BY <2>1, <1>2, <1>t DEF TypeOK
    <3>2. at[s] \in subscribed /\ commands[at[s]] = <<>>
             /\ (~stream[s].closed =>
                    from[s] .. Handled \subseteq Elements(frames[s])
                                               \cup Elements(inbox[at[s]]))
      BY <2>1, <3>1 DEF DueInv, RemoteDue
    <3>3. commands'[at[s]] = commands[at[s]]
      BY <1>h, <2>1, <3>1, CommandKept DEF HandTo, Streaming
    <3>4. CASE at[s] = i
      <4>1. inbox'[at[s]] = Tail(inbox[i])
        BY <1>u, <1>t, <3>4 DEF TypeOK
      <4>2. QED  BY <4>1, <3>2, <3>3, <3>4, <2>1, <1>1, <1>i
    <3>5. CASE at[s] # i
      <4>1. inbox'[at[s]] = inbox[at[s]]
        BY <1>u, <1>t, <3>1, <3>5 DEF TypeOK
      <4>2. QED  BY <4>1, <3>2, <3>3, <2>1, <1>1
    <3>6. QED  BY <3>4, <3>5
  <2>2. QED  BY <2>1, <1>u DEF RemoteDue, Elements, Handled
<1>5. QED  BY <1>3, <1>4

\* Streams that open, are answered, end or hang up; the others keep what
\* they are due.
LEMMA StreamRunDue ==
    ASSUME DueInv, NEW x \in Streams,
           Open(x) \/ Find(x) \/ ReplayAll(x) \/ Subscribe(x) \/ HangUp(x)
    PROVE  LocalDue' /\ RemoteDue'
<1>t. Paths /\ TypeInv /\ TypeOK
  BY DEF DueInv, Paths, TypeInv
<1>u. UNCHANGED <<redisOn, sent, at, frames, toRedis, subscribed, inbox, lost>>
  BY DEF Open, Find, ReplayAll, Subscribe, HangUp
<1>k. \A s \in Streams :
         /\ stream[s].closed => stream'[s].closed
         /\ s # x \/ ~Subscribe(x) => (stream'[s].attached => stream[s].attached)
  BY <1>t, StreamRunKeeps
<1>1. ASSUME NEW s \in Streams, s # x \/ ~Subscribe(x)
      PROVE  from'[s] = from[s]
  BY <1>1, <1>t DEF Open, Find, ReplayAll, Subscribe, HangUp, TypeOK
<1>2. ASSUME NEW s \in Streams, stream[s].attached, stream'[s].attached
      PROVE  commands'[at[s]] = commands[at[s]]
  <2>1. at[s] \in Instances
    BY <1>t DEF TypeOK
  <2>2. CASE Open(x) \/ Find(x) \/ ReplayAll(x)
    BY <2>2 DEF Open, Find, ReplayAll
  <2>3. CASE Subscribe(x) \/ HangUp(x)
    <3>1. PICK st : Streaming(st)
      BY <2>3 DEF Subscribe, HangUp
    <3>2. st[s].attached
      BY <1>2, <3>1 DEF Streaming
    <3>3. QED  BY <1>2, <2>1, <3>1, <3>2, CommandKept
  <2>4. QED  BY <2>2, <2>3
<1>3. CASE Subscribe(x)
  <2>1. from'[x] = DueNow(x) /\ ~stream[x].attached /\ stream'[x].attached
    <3>1. stream[x] \in Sound /\ stream[x] \in StreamState /\ stream[x].pc # "live"
      BY <1>3, <1>t DEF Subscribe, TypeInv, Sound
    <3>2. stream'[x] = [stream[x] EXCEPT !.pc = "live", !.attached = TRUE,
                                         !.heartbeat = TRUE]
      BY <1>3, <1>t DEF Subscribe, Streaming, TypeOK
    <3>3. from'[x] = DueNow(x)
      BY <1>3, <1>t DEF Subscribe, TypeOK
    <3>4. QED  BY <3>1, <3>2, <3>3 DEF Sound, StreamState
  <2>2. CASE at[x] = Worker
    <3>1. from'[x] = sent + 1 /\ sent \in Nat
      BY <2>1, <2>2, <1>t DEF DueNow, TypeOK
    <3>2. from'[x] # 0 /\ from'[x] .. sent = {}
      BY <3>1
    <3>3. QED  BY <2>2, <3>2, <1>1, <1>2, <1>k, <1>u
               DEF DueInv, LocalDue, RemoteDue, Elements, Handled
  <2>3. CASE at[x] # Worker /\ from'[x] # 0 /\ lost = 0
    <3>1. at[x] \in subscribed /\ commands[at[x]] = <<>> /\ from'[x] = Handled + 1
             /\ at[x] \in Instances /\ Handled \in Nat
      BY <2>1, <2>3, <1>t, HandledType DEF DueNow, TypeOK
    <3>2. redisOn /\ Matches
      BY <3>1, <2>3, <1>t, MatchesDef DEF Paths, Offline, DueInv
    <3>3. Handlers(at[x], stream) # {}
      BY <3>1, <3>2 DEF Matches, Intent
    <3>4. PICK y \in Streams : at[y] = at[x] /\ stream[y].attached
      BY <3>3 DEF Handlers
    <3>5. stream'[y].attached
      <4>1. y # x
        BY <2>1, <3>4
      <4>2. stream'[y] = stream[y]
        BY <4>1, <1>3, <1>t DEF Subscribe, Streaming, TypeOK
      <4>3. QED  BY <3>4, <4>2
    <3>6. commands'[at[x]] = <<>>
      BY <3>1, <3>4, <3>5, <1>2
    <3>7. from'[x] .. Handled = {}
      BY <3>1
    <3>8. QED  BY <2>3, <3>1, <3>6, <3>7, <1>1, <1>2, <1>k, <1>u
               DEF DueInv, LocalDue, RemoteDue, Elements, Handled
  <2>4. CASE at[x] # Worker /\ (from'[x] = 0 \/ lost # 0)
    BY <2>4, <1>1, <1>2, <1>k, <1>u DEF DueInv, LocalDue, RemoteDue, Elements, Handled
  <2>5. QED  BY <2>2, <2>3, <2>4
<1>4. CASE ~Subscribe(x)
  BY <1>4, <1>1, <1>2, <1>k, <1>u DEF DueInv, LocalDue, RemoteDue, Elements, Handled
<1>5. QED  BY <1>3, <1>4

\* Redis handles a command: a viewer that waited for it is due what follows.
LEMMA CommandDue == ASSUME DueInv, NEW i \in Instances, Command(i) PROVE LocalDue' /\ RemoteDue'
<1>t. Paths /\ TypeInv /\ TypeOK /\ commands[i] # <<>> /\ Handled \in Nat
  BY HandledType DEF DueInv, Paths, TypeInv, Command
<1>u. UNCHANGED <<redisOn, sent, at, stream, frames, toRedis, inbox>>
         /\ commands' = [commands EXCEPT ![i] = Tail(@)]
  BY DEF Command
<1>1. ASSUME NEW s \in Streams, from[s] # 0 PROVE from'[s] = from[s]
  BY <1>1, <1>t DEF Command, TypeOK
<1>2. LocalDue'
  BY <1>1, <1>u DEF DueInv, LocalDue, Elements
<1>3. RemoteDue'
  <2> SUFFICES ASSUME NEW s \in Streams, lost' = 0, at[s] # Worker, stream[s].attached,
                      from'[s] # 0
               PROVE  /\ at[s] \in subscribed' /\ commands'[at[s]] = <<>>
                      /\ ~stream[s].closed =>
                            from'[s] .. Handled \subseteq Elements(frames[s])
                                                     \cup Elements(inbox[at[s]])
    BY <1>u DEF RemoteDue, Elements, Handled
  <2>1. lost = 0 /\ lost' = lost
    BY <1>t DEF Command, Loses, TypeOK
  <2>2. /\ subscribed' = IF Head(commands[i]) = "sub" THEN subscribed \cup {i}
                                                      ELSE subscribed \ {i}
        /\ from' = [x \in Streams |->
                      IF Len(commands[i]) = 1 /\ x \in Handlers(i, stream) /\ from[x] = 0
                      THEN Handled + 1 ELSE from[x]]
    BY <2>1, <1>t DEF Command, Loses, TypeOK
  <2>3. CASE from[s] # 0
    <3>1. at[s] \in subscribed /\ commands[at[s]] = <<>>
             /\ (~stream[s].closed =>
                    from[s] .. Handled \subseteq Elements(frames[s])
                                               \cup Elements(inbox[at[s]]))
      BY <2>1, <2>3 DEF DueInv, RemoteDue
    <3>2. at[s] # i /\ at[s] \in Instances
      BY <3>1, <1>t DEF TypeOK
    <3>3. QED  BY <1>1, <1>u, <1>t, <2>2, <2>3, <3>1, <3>2 DEF TypeOK
  <2>4. CASE from[s] = 0
    <3>1. at[s] = i /\ Len(commands[i]) = 1 /\ from'[s] = Handled + 1
      BY <2>2, <2>4 DEF Handlers
    <3>2. commands'[i] = <<>> /\ commands[i][Len(commands[i])] = Head(commands[i])
      <4>1. commands[i] \in Seq({"sub", "unsub"}) /\ commands'[i] = Tail(commands[i])
        BY <1>u, <1>t DEF TypeOK
      <4>2. Len(Tail(commands[i])) = 0 /\ Tail(commands[i]) \in Seq({"sub", "unsub"})
        BY <4>1, <3>1, <1>t, HeadTailProperties
      <4>3. Tail(commands[i]) = <<>>
        BY <4>2, EmptySeq
      <4>4. commands[i][Len(commands[i])] = Head(commands[i])
        BY <4>1, <3>1, <1>t
      <4>5. QED  BY <4>1, <4>3, <4>4
    <3>3. redisOn /\ Matches
      BY <2>1, <1>t, MatchesDef DEF Paths, Offline, DueInv
    <3>4. Handlers(i, stream) # {}
      BY <3>1 DEF Handlers
    <3>5. Head(commands[i]) = "sub"
      BY <3>2, <3>3, <3>4, <1>t DEF Matches, Intent
    <3>6. from'[s] .. Handled = {}
      BY <3>1, <1>t
    <3>7. QED  BY <2>2, <3>1, <3>2, <3>5, <3>6
  <2>5. QED  BY <2>3, <2>4
<1>4. QED  BY <1>2, <1>3

\* Every step keeps what viewers are due.
LEMMA DueStep == DueInv /\ [Next]_vars => DueInv'
<1> SUFFICES ASSUME DueInv, [Next]_vars PROVE DueInv'
  OBVIOUS
<1>p. Paths /\ TypeInv /\ Paths' /\ SubscriptionMatches'
  BY PathsStep, MatchesStep DEF DueInv, Paths
<1> SUFFICES LocalDue' /\ RemoteDue'
  BY <1>p DEF DueInv
<1>1. CASE Progress
  <2>1. last = 0
    BY <1>1, <1>p DEF Progress, TypeInv
  <2>2. QED  BY <1>1, <2>1, PublishDue DEF Progress
<1>2. CASE Done
  BY <1>2, PublishDue DEF Done
<1>3. CASE Finish \/ UNCHANGED vars
  BY <1>3 DEF Finish, vars, DueInv, LocalDue, RemoteDue, Elements, Handled
<1>4. CASE FanOut
  BY <1>4, FanOutDue
<1>5. CASE \E x \in Streams : Open(x) \/ Find(x) \/ ReplayAll(x) \/ Subscribe(x) \/ HangUp(x)
  BY <1>5, StreamRunDue
<1>6. CASE \E i \in Instances : Command(i) \/ Deliver(i)
  BY <1>6, CommandDue, DeliverDue
<1>7. QED  BY <1>1, <1>2, <1>3, <1>4, <1>5, <1>6 DEF Next

\* From the moment its subscription stands an open stream misses no event,
\* though viewers share a subscription and come and go.
THEOREM NothingIsMissed == Spec => []NothingMissed
<1>1. Init => LocalDue /\ RemoteDue
  <2> SUFFICES ASSUME Init PROVE LocalDue /\ RemoteDue
    OBVIOUS
  <2>1. \A s \in Streams : ~stream[s].attached
    BY DEF Init
  <2>2. QED  BY <2>1 DEF LocalDue, RemoteDue
<1>2. Spec => []SubscriptionMatches
  BY SubscriptionsMatch
<1>3. Init /\ SubscriptionMatches => DueInv
  BY <1>1, PathsInit DEF DueInv
<1>4. QED  BY <1>2, <1>3, DueStep, DueSuffices, PTL DEF Spec
=============================================================================
