------------------------------- MODULE RunPage -------------------------------
(***************************************************************************)
(* One browser on the page of a run (RunDetailPage.jsx, useRunStream.js)   *)
(* while the worker executes it: the events runAgent publishes at each     *)
(* step of AgentRun, the stream that replays the row and then relays them  *)
(* (stream/sse.js), and the page that folds the events into what it shows, *)
(* together with the two reads of the run it makes itself.                 *)
(*                                                                         *)
(* The stream's instance and the bus are those of module Stream; here the  *)
(* bus delivers, and what matters is which events and rows the page sees.  *)
(***************************************************************************)
EXTENDS AgentRun, SequencesExt

CONSTANTS
    MaxTroubles, \* bound: failures, crashes and losses of every kind together
    MaxLag       \* bound: unread frames while the worker goes on

ASSUME PageBoundsAssumption == MaxTroubles \in Nat /\ MaxLag \in Nat

VARIABLES
    request,    \* where each request of the page is
    seen,       \* the row as a request's query found it
    channel,    \* frames written to the stream and not yet read
    page,       \* the React state
    missed,     \* history: an event was published between replay and subscription
    lost        \* history: requests that failed, streams that broke

pageVars == <<request, seen, channel, page, missed, lost>>

Requests == {"stream", "mount", "refetch"}

NoView == [status |-> "", tries |-> <<>>]

\* A row as the page's requests return it.
View(r) ==
    [status |-> r.status,
     tries |-> [i \in DOMAIN r.attempts |->
                   [index |-> r.attempts[i].index, out |-> r.attempts[i].out]]]

Frame(event, index, what) == [event |-> event, index |-> index, what |-> what]

\* "tries" are the stream's attempts, "run" the run that was fetched and "by"
\* the request that fetched it.
PageInit ==
    /\ Init
    /\ request = [q \in Requests |-> "none"] /\ seen = [q \in Requests |-> NoView]
    /\ channel = <<>>
    /\ page = [status |-> "", tries |-> [i \in 1..MaxAttempts |-> "none"],
               done |-> FALSE, failed |-> FALSE, run |-> NoView, by |-> "none"]
    /\ missed = FALSE /\ lost = 0

----------------------------------------------------------------------------
(* The worker publishes *)

\* Whether the step's awaited operation did not throw.
Went == job' # "failed"

Ended == <<Frame("status", 0, row'.status), Frame("done", 0, row'.status)>>

\* Mutant: the end is announced before the row says so.
ToldEarly ==
    CASE ex.pc \in {"plan", "announce"} /\ Went -> <<Frame("status", 0, row'.status)>>
      [] ex.pc = "patch" /\ Went /\ ex.out # "fault" ->
            <<Frame("result", ex.index, ex.out)>>
      [] ex.pc = "cache" /\ ex'.pc = "replay" ->
            <<Frame("start", 1, ""), Frame("result", 1, "clean")>>
      [] ex'.pc = "final" /\ Went ->
            <<Frame("status", 0, ex'.end), Frame("done", 0, ex'.end)>>
      [] ex.pc \in {"replay", "succeed"} /\ Went -> Ended
      [] OTHER -> <<>>

\* What runAgent publishes after the operation it awaited: a status it has
\* written, a result it has written, the end it has written; a replay announces
\* the cached attempts before it writes them.
Told ==
    CASE ex.pc \in {"plan", "announce"} /\ Went -> <<Frame("status", 0, row'.status)>>
      [] ex.pc = "patch" /\ Went /\ ex.out # "fault" ->
            <<Frame("result", ex.index, ex.out)>>
      [] ex.pc = "cache" /\ ex'.pc = "replay" ->
            <<Frame("start", 1, ""), Frame("result", 1, "clean")>>
      [] ex.pc \in {"replay", "succeed", "final"} /\ Went -> Ended
      [] OTHER -> <<>>

\* The start of an iteration is published before anything of it is written.
Begun == IF ex.pc # "plan" /\ ex'.pc = "plan" THEN <<Frame("start", ex'.index, "")>>
                                              ELSE <<>>

Ends(frames) == \E f \in Range(frames) : f.event = "done"

\* A subscribed stream writes each event and ends with "done"; one that has read
\* the row and not subscribed hears nothing.
Relayed(frames) ==
    IF request["stream"] = "live"
    THEN /\ channel' = channel \o frames
         /\ request' = IF Ends(frames) THEN [request EXCEPT !["stream"] = "over"] ELSE request
         /\ UNCHANGED missed
    ELSE /\ missed' = (missed \/ (request["stream"] = "read" /\ frames # <<>>))
         /\ UNCHANGED <<channel, request>>

\* A bound of the model, not of the code.
FewTroubles == failures' + restarts' + lost' <= MaxTroubles

Works ==
    /\ Len(channel) <= MaxLag
    /\ Step /\ Relayed(Told \o Begun) /\ UNCHANGED <<seen, page, lost>> /\ FewTroubles

----------------------------------------------------------------------------
(* The page and its requests *)

\* The page mounts: it opens the stream and reads the run.  (A bound of the
\* model: a page and a second execution are not combined.)
Open ==
    /\ request["stream"] = "none" /\ restarts = 0
    /\ request' = [request EXCEPT !["stream"] = "asked", !["mount"] = "asked"]
    /\ UNCHANGED <<vars, seen, channel, page, missed, lost>>

\* The query behind the stream or the second read is answered by MongoDB.
ReadRow(q) ==
    /\ q # "mount" /\ request[q] = "asked"
    /\ request' = [request EXCEPT ![q] = "read"] /\ seen' = [seen EXCEPT ![q] = View(row)]
    /\ UNCHANGED <<vars, channel, page, missed, lost>>

\* Results that reach a browser: an attempt without an exit code has none.
Results == Outcomes \ {"fault"}

\* What streamRun writes of a row it found: its status, each attempt with its
\* result if it has one, and the end if the run is over.
Replayed(v) ==
    <<Frame("status", 0, v.status)>>
    \o FlattenSeq([i \in DOMAIN v.tries |->
          <<Frame("start", v.tries[i].index, "")>>
          \o IF v.tries[i].out \in Results
             THEN <<Frame("result", v.tries[i].index, v.tries[i].out)>> ELSE <<>>])
    \o IF v.status \in Terminal THEN <<Frame("done", 0, v.status)>> ELSE <<>>

\* streamRun resumes with the row: it replays it, and subscribes unless the run
\* is over.
Subscribe ==
    /\ request["stream"] = "read"
    /\ channel' = channel \o Replayed(seen["stream"])
    /\ request' = [request EXCEPT !["stream"] =
                      IF seen["stream"].status \in Terminal THEN "over" ELSE "live"]
    /\ seen' = [seen EXCEPT !["stream"] = NoView]
    /\ UNCHANGED <<vars, page, missed, lost>>

\* The row cannot be read: the stream says so and ends.
StreamFails ==
    /\ request["stream"] = "asked" /\ lost' = lost + 1
    /\ request' = [request EXCEPT !["stream"] = "over"]
    /\ channel' = Append(channel, Frame("error", 0, ""))
    /\ UNCHANGED <<vars, seen, page, missed>>

\* The connection breaks, or was never made; nobody opens another one.
StreamBreaks ==
    /\ request["stream"] \in {"asked", "read", "live"} /\ lost' = lost + 1
    /\ request' = [request EXCEPT !["stream"] = "lost"]
    /\ seen' = [seen EXCEPT !["stream"] = NoView] /\ channel' = <<>>
    /\ UNCHANGED <<vars, page, missed>>

\* applyEvent.
Applied(f) ==
    CASE f.event = "status" -> [page EXCEPT !.status = f.what]
      [] f.event = "start" -> [page EXCEPT !.tries[f.index] = "running"]
      [] f.event = "result" -> [page EXCEPT !.tries[f.index] = f.what]
      [] f.event = "done" -> [page EXCEPT !.done = TRUE, !.status = f.what]
      [] f.event = "error" -> [page EXCEPT !.done = TRUE]

\* Mutant: the run is not read again at the end.
ReceiveOnly ==
    /\ channel # <<>> /\ channel' = Tail(channel)
    /\ page' = Applied(Head(channel))
    /\ UNCHANGED <<vars, request, seen, missed, lost>>

\* The page applies a frame; when that makes it done, an effect reads the run
\* again.
Receive ==
    /\ channel # <<>> /\ channel' = Tail(channel)
    /\ page' = Applied(Head(channel))
    /\ request' = [request EXCEPT !["refetch"] =
                      IF page'.done /\ ~page.done THEN "asked" ELSE @]
    /\ UNCHANGED <<vars, seen, missed, lost>>

\* The first read reaches the page, perhaps after the second.  Which row it
\* found is not kept: any that there was since the page opened.
FirstLoaded ==
    /\ request["mount"] = "asked" /\ request' = [request EXCEPT !["mount"] = "over"]
    /\ page' = [page EXCEPT !.run = NoView, !.by = "mount"]
    /\ UNCHANGED <<vars, seen, channel, missed, lost>>

\* The second read reaches the page.
Refetched ==
    /\ request["refetch"] = "read" /\ request' = [request EXCEPT !["refetch"] = "over"]
    /\ page' = [page EXCEPT !.run = seen["refetch"], !.by = "refetch"]
    /\ seen' = [seen EXCEPT !["refetch"] = NoView]
    /\ UNCHANGED <<vars, channel, missed, lost>>

\* A read fails; the page then shows only that, also after a later one.
LoadFails(q) ==
    /\ q # "stream" /\ request[q] \in {"asked", "read"}
    /\ lost' = lost + 1
    /\ request' = [request EXCEPT ![q] = "lost"]
    /\ seen' = [seen EXCEPT ![q] = NoView] /\ page' = [page EXCEPT !.failed = TRUE]
    /\ UNCHANGED <<vars, channel, missed>>

\* The worker's process dies, and the run has no page.
WorkerDies == request["stream"] = "none" /\ Restart /\ UNCHANGED pageVars

----------------------------------------------------------------------------
(* Specification *)

PageStep ==
    \/ Subscribe \/ Receive \/ FirstLoaded \/ Refetched
    \/ \E q \in Requests : ReadRow(q)

PageNext ==
    \/ Works \/ Open \/ PageStep
    \/ (WorkerDies \/ StreamFails \/ StreamBreaks \/ \E q \in Requests : LoadFails(q))
       /\ FewTroubles

PageSpec == PageInit /\ [][PageNext]_<<vars, pageVars>>

\* The worker works as in AgentRun; requests are answered or fail, and the page
\* reads its stream.
PageFairSpec == PageSpec /\ WF_<<vars, pageVars>>(Works) /\ WF_<<vars, pageVars>>(PageStep)

----------------------------------------------------------------------------
(* Properties *)

\* mergeAttempts: an attempt the stream told of is shown as it told it, over
\* what the fetched run has.
Shown(i) ==
    IF page.tries[i] # "none" THEN {page.tries[i]}
    ELSE {t.out : t \in {u \in Range(page.run.tries) : u.index = i}}

\* A result the page shows is on record: runAgent publishes an attempt's result
\* after it has written it.  (A replay of the demo cache announces its attempts
\* before the write, which may throw; a second execution overwrites them.)
ResultsAreRecorded ==
    ~demo =>
        \A i \in 1..MaxAttempts : page.tries[i] \in Results =>
            \E a \in Range(row.attempts) : a.index = i /\ a.out = page.tries[i]

\* A page whose stream is done and whose refetch was the last read to come
\* shows the end of the run: its status, every attempt, and every result,
\* unless an event fell between the replay and the subscription.  "done" is
\* published after the last write that the stream or the page shows.
SettledPageIsCurrent ==
    page.done /\ page.by = "refetch" /\ lost = 0 =>
        /\ page.status = row.status /\ page.run = View(row)
        /\ ~missed => \A a \in Range(row.attempts) :
                          a.out \in Results => Shown(a.index) = {a.out}

\* What the page shows happened and, once it has settled, is all that did.
PageIsTruthful == ResultsAreRecorded /\ SettledPageIsCurrent

\* Every page that was opened is told the end and reads the run again, unless
\* "done" is published between replay and subscription, a request is lost, a
\* database operation of the run throws, or the queue gives the job up.
PageEnds ==
    request["stream"] = "asked" ~>
        \/ page.done /\ request["refetch"] \in {"over", "lost"}
        \/ missed \/ lost > 0 \/ failures > 0 \/ job = "failed"
============================================================================
