------------------------------- MODULE Stream -------------------------------
(***************************************************************************)
(* Live streaming of one run: streamRun (stream/sse.js) over the event bus *)
(* of stream/pubsub.js, with viewers on several server instances and the   *)
(* run executing on one of them.                                           *)
(*                                                                         *)
(* An event reaches a viewer on the worker's instance through the local    *)
(* emitter and again as an echo over Redis; viewers elsewhere have Redis   *)
(* alone.  Each instance has one subscriber connection, whose commands     *)
(* Redis handles in order, and shares one subscription among its viewers.  *)
(***************************************************************************)
EXTENDS Integers, Sequences, FiniteSets

CONSTANTS
    Streams,        \* SSE connections for the run; a reconnect is another one
    Instances,      \* server instances
    Worker,         \* the instance that executes the run
    RedisModes,     \* values isRedisConfigured() may have
    SeenLimit,      \* size at which the de-duplication set is cleared (500)
    MaxEvents,      \* bound: events the run publishes
    MaxLost         \* bound: Redis commands and publications that fail

ASSUME PlacesAssumption == Worker \in Instances /\ RedisModes \subseteq BOOLEAN
\* A run publishes about ten events per attempt.
ASSUME BoundsAssumption ==
    /\ MaxEvents \in Nat \ {0} /\ MaxLost \in Nat
    /\ SeenLimit \in Nat /\ MaxEvents <= SeenLimit

VARIABLES
    redisOn,    \* isRedisConfigured()
    over,       \* the row has a terminal status
    sent,       \* events published so far
    last,       \* the number of the event "done", 0 before it is published
    at,         \* each stream's instance
    stream,     \* each stream's local state
    frames,     \* the events each stream was shown live
    toRedis,    \* publications on their way to Redis
    commands,   \* each instance's SUBSCRIBE and UNSUBSCRIBE on their way
    subscribed, \* Redis's view: the instances subscribed to the channel
    inbox,      \* messages on their way to each instance
    from,       \* history: first event a stream is due, 0 before it is known
    lost        \* history: commands and publications that failed

vars == <<redisOn, over, sent, last, at, stream, frames, toRedis, commands,
          subscribed, inbox, from, lost>>

Events == 1 .. MaxEvents

\* "find" and "reply" are the two halves of the awaited findById; "over" is
\* what it read; "seen" belongs to the closure that subscribe makes.
StreamState ==
    [pc : {"idle", "find", "reply", "live", "ended"}, over : BOOLEAN,
     closed : BOOLEAN, attached : BOOLEAN, heartbeat : BOOLEAN, seen : SUBSET Events]

TypeOK ==
    /\ redisOn \in BOOLEAN /\ over \in BOOLEAN
    /\ sent \in 0 .. MaxEvents /\ last \in {0, sent}
    /\ at \in [Streams -> Instances]
    /\ stream \in [Streams -> StreamState]
    /\ frames \in [Streams -> Seq(Events)]
    /\ toRedis \in Seq(Events)
    /\ commands \in [Instances -> Seq({"sub", "unsub"})]
    /\ subscribed \subseteq Instances
    /\ inbox \in [Instances -> Seq(Events)]
    /\ from \in [Streams -> 0 .. MaxEvents + 1]
    /\ lost \in 0 .. MaxLost

Init ==
    /\ redisOn \in RedisModes /\ over = FALSE
    /\ sent = 0 /\ last = 0
    /\ at \in [Streams -> Instances]
    /\ stream = [s \in Streams |->
                    [pc |-> "idle", over |-> FALSE, closed |-> FALSE,
                     attached |-> FALSE, heartbeat |-> FALSE, seen |-> {}]]
    /\ frames = [s \in Streams |-> <<>>]
    /\ toRedis = <<>> /\ commands = [i \in Instances |-> <<>>]
    /\ subscribed = {} /\ inbox = [i \in Instances |-> <<>>]
    /\ from = [s \in Streams |-> 0] /\ lost = 0

----------------------------------------------------------------------------
(* The event bus *)

\* The handlers an instance has registered for the channel, in states st.
Handlers(i, st) == {s \in Streams : at[s] = i /\ st[s].attached}

\* Events that Redis has handled, in order.
Handled == sent - Len(toRedis)

\* The first handler of an instance subscribes, the last one unsubscribes.
CommandsAfter(i, st) ==
    IF ~redisOn \/ (Handlers(i, stream) = {} <=> Handlers(i, st) = {})
    THEN commands[i]
    ELSE Append(commands[i], IF Handlers(i, st) = {} THEN "unsub" ELSE "sub")

\* The streams are now in states st, with the commands that follow.
Streaming(st) ==
    /\ stream' = st
    /\ commands' = [i \in Instances |-> CommandsAfter(i, st)]

\* cleanup() of a stream, unless it has been called.
Closed(r) ==
    IF r.closed THEN r
    ELSE [r EXCEPT !.closed = TRUE, !.attached = FALSE, !.heartbeat = FALSE,
                   !.pc = IF @ = "live" THEN "ended" ELSE @]

\* Mutant: the handler does not de-duplicate.
FreshAlways(r, e) == TRUE

\* dedupe: whether a message passes.
Fresh(r, e) == e \notin r.seen

Remembered(seen, e) ==
    IF Cardinality(seen \cup {e}) > SeenLimit THEN {} ELSE seen \cup {e}

\* Mutant: the stream stays open after "done".
HandedOn(r, e, ends) ==
    IF ~Fresh(r, e) THEN r ELSE [r EXCEPT !.seen = Remembered(@, e)]

\* A subscribed stream is handed event e, which ends the run if "ends".
Handed(r, e, ends) ==
    IF ~Fresh(r, e) THEN r
    ELSE LET q == [r EXCEPT !.seen = Remembered(@, e)]
         IN  IF ends /\ ~r.closed THEN Closed(q) ELSE q

\* The streams S are handed event e.
HandTo(S, e, ends) ==
    /\ Streaming([s \in Streams |->
                     IF s \in S THEN Handed(stream[s], e, ends) ELSE stream[s]])
    /\ frames' = [s \in Streams |->
                     IF s \in S /\ Fresh(stream[s], e) /\ ~stream[s].closed
                     THEN Append(frames[s], e) ELSE frames[s]]

\* Mutant: the local emitter is used only without Redis.
EmitWithoutRedis == IF redisOn THEN {} ELSE Handlers(Worker, stream)

\* The listeners of the local emitter.
LocalListeners == Handlers(Worker, stream)

\* publish: the local listeners first, then Redis.
Publish(ends) ==
    /\ sent < MaxEvents /\ sent' = sent + 1
    /\ last' = IF ends THEN sent + 1 ELSE last
    /\ HandTo(LocalListeners, sent + 1, ends)
    /\ toRedis' = IF redisOn THEN Append(toRedis, sent + 1) ELSE toRedis

----------------------------------------------------------------------------
(* The run *)

\* Status, log, attempt and artifact events.
Progress ==
    /\ ~over /\ sent < MaxEvents - 1
    /\ Publish(FALSE)
    /\ UNCHANGED <<redisOn, over, at, subscribed, inbox, from, lost>>

\* The terminal status is written ...
Finish ==
    /\ ~over /\ over' = TRUE
    /\ UNCHANGED <<redisOn, sent, last, at, stream, frames, toRedis, commands,
                   subscribed, inbox, from, lost>>

\* ... and, the write having been awaited, announced.
Done ==
    /\ over /\ last = 0
    /\ Publish(TRUE)
    /\ UNCHANGED <<redisOn, over, at, subscribed, inbox, from, lost>>

----------------------------------------------------------------------------
(* streamRun *)

Open(s) ==
    /\ stream[s].pc = "idle"
    /\ stream' = [stream EXCEPT ![s].pc = "find"]
    /\ UNCHANGED <<redisOn, over, sent, last, at, frames, toRedis, commands,
                   subscribed, inbox, from, lost>>

\* MongoDB reads the row.
Find(s) ==
    /\ stream[s].pc = "find"
    /\ stream' = [stream EXCEPT ![s].pc = "reply", ![s].over = over]
    /\ UNCHANGED <<redisOn, over, sent, last, at, frames, toRedis, commands,
                   subscribed, inbox, from, lost>>

\* No row, an error, or a row that is terminal: the replay is all.
ReplayAll(s) ==
    /\ stream[s].pc = "reply"
    /\ stream' = [stream EXCEPT ![s] = [Closed(@) EXCEPT !.pc = "ended"]]
    /\ UNCHANGED <<redisOn, over, sent, last, at, frames, toRedis, commands,
                   subscribed, inbox, from, lost>>

\* What a stream that subscribes now is due: at once if it listens to the
\* worker's own emitter or the subscription stands, else when it will.
DueNow(s) ==
    IF at[s] = Worker THEN sent + 1
    ELSE IF at[s] \in subscribed /\ commands[at[s]] = <<>> THEN Handled + 1 ELSE 0

\* The replay of a run in progress, then subscribe and the heartbeat, also for
\* a client that has gone meanwhile.
Subscribe(s) ==
    /\ stream[s].pc = "reply" /\ ~stream[s].over
    /\ Streaming([stream EXCEPT ![s].pc = "live", ![s].attached = TRUE,
                                ![s].heartbeat = TRUE])
    /\ from' = [from EXCEPT ![s] = DueNow(s)]
    /\ UNCHANGED <<redisOn, over, sent, last, at, frames, toRedis, subscribed,
                   inbox, lost>>

\* The client disconnects: the "close" event.
HangUp(s) ==
    /\ stream[s].pc \in {"find", "reply", "live"} /\ ~stream[s].closed
    /\ Streaming([stream EXCEPT ![s] = Closed(@)])
    /\ UNCHANGED <<redisOn, over, sent, last, at, frames, toRedis, subscribed,
                   inbox, from, lost>>

----------------------------------------------------------------------------
(* Redis *)

Loses == lost < MaxLost /\ lost' = lost + 1

\* Redis handles the next command of an instance; the streams that wait for a
\* subscription are due what follows.
Command(i) ==
    /\ commands[i] # <<>>
    /\ commands' = [commands EXCEPT ![i] = Tail(@)]
    /\ \/ /\ lost' = lost
          /\ subscribed' = IF Head(commands[i]) = "sub" THEN subscribed \cup {i}
                                                        ELSE subscribed \ {i}
          /\ from' = [s \in Streams |->
                        IF Len(commands[i]) = 1 /\ s \in Handlers(i, stream) /\ from[s] = 0
                        THEN Handled + 1 ELSE from[s]]
       \/ Loses /\ UNCHANGED <<subscribed, from>>
    /\ UNCHANGED <<redisOn, over, sent, last, at, stream, frames, toRedis, inbox>>

\* A publication that fails is logged and forgotten.
Forgotten == Tail(toRedis)

\* Redis fans the next publication out.
FanOut ==
    /\ toRedis # <<>>
    /\ \/ /\ toRedis' = Tail(toRedis) /\ lost' = lost
          /\ inbox' = [i \in Instances |-> IF i \in subscribed
                                           THEN Append(inbox[i], Head(toRedis))
                                           ELSE inbox[i]]
       \/ Loses /\ toRedis' = Forgotten /\ inbox' = inbox
    /\ UNCHANGED <<redisOn, over, sent, last, at, stream, frames, commands,
                   subscribed, from>>

\* The subscriber's "message" handler.
Deliver(i) ==
    /\ inbox[i] # <<>>
    /\ inbox' = [inbox EXCEPT ![i] = Tail(@)]
    /\ HandTo(Handlers(i, stream), Head(inbox[i]), Head(inbox[i]) = last)
    /\ UNCHANGED <<redisOn, over, sent, last, at, toRedis, subscribed, from, lost>>

----------------------------------------------------------------------------
(* Specification *)

Next ==
    \/ Progress \/ Finish \/ Done \/ FanOut
    \/ \E s \in Streams : Open(s) \/ Find(s) \/ ReplayAll(s) \/ Subscribe(s) \/ HangUp(s)
    \/ \E i \in Instances : Command(i) \/ Deliver(i)

Spec == Init /\ [][Next]_vars

\* The run ends and says so, and Redis, MongoDB and Node do their part.
Fairness ==
    /\ WF_vars(Finish) /\ WF_vars(Done) /\ WF_vars(FanOut)
    /\ \A s \in Streams : WF_vars(Find(s)) /\ WF_vars(ReplayAll(s) \/ Subscribe(s))
    /\ \A i \in Instances : WF_vars(Command(i)) /\ WF_vars(Deliver(i))

FairSpec == Spec /\ Fairness

----------------------------------------------------------------------------
(* Properties *)

Elements(q) == {q[k] : k \in DOMAIN q}

\* The commands an instance has issued leave it subscribed exactly when it has
\* a viewer: viewers that come and go while SUBSCRIBE and UNSUBSCRIBE are on
\* their way neither strand a viewer nor leak a subscription.
SubscriptionMatches ==
    redisOn /\ lost = 0 =>
        \A i \in Instances :
            Handlers(i, stream) # {} <=>
                IF commands[i] = <<>> THEN i \in subscribed
                ELSE commands[i][Len(commands[i])] = "sub"

\* From the moment its subscription stands, an open stream has been shown, or
\* has on the way, every event: the local emitter needs no Redis at all, and a
\* remote viewer depends only on nothing being lost.
NothingMissed ==
    \A s \in Streams :
        stream[s].attached /\ ~stream[s].closed /\ from[s] # 0
            /\ (at[s] = Worker \/ lost = 0) =>
        \A e \in from[s] .. sent :
            \/ e \in Elements(frames[s])
            \/ at[s] # Worker /\ e \in Elements(inbox[at[s]]) \cup Elements(toRedis)

\* Viewers elsewhere are shown events in the order of their publication.
RemoteInOrder ==
    \A s \in Streams : at[s] # Worker =>
        \A j, k \in DOMAIN frames[s] : j < k => frames[s][j] < frames[s][k]

\* No viewer is shown an event twice, though events arrive over two paths, and
\* none is shown anything after "done".
Feed == INSTANCE RunFeed
ImplementsRunFeed == Feed!Spec

\* A stream whose subscription stands before "done" is published ends, unless
\* Redis loses something that a remote viewer needs.
StreamEnds ==
    \A s \in Streams :
        stream[s].attached /\ from[s] # 0 /\ last = 0 ~>
            stream[s].closed \/ (at[s] # Worker /\ lost > 0)
============================================================================
