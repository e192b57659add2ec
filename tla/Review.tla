------------------------------- MODULE Review -------------------------------
(***************************************************************************)
(* The AI review of a document, streamed: ReviewPanel with useReview.js in *)
(* the browser, streamReview of review.service.js on the server, and what  *)
(* it waits for: the context of rag.service.js and the models it tries in  *)
(* order.  Each click on "Review My Code" is a review with a stream of its *)
(* own; the panel's text, notice, error and loading flag are shared.       *)
(*                                                                         *)
(* A stream is a sequence of lines.  An event is two of them, its name and *)
(* its data, which a read may cut apart.  The notice is that of the canned *)
(* review; a live one of a large file has another, which says that a part  *)
(* was reviewed and is left out, as is a mocked model (GEMINI_MOCK).       *)
(* Names that every specification has (Init, Next) begin with Review: this *)
(* module and Collab are extended together where both are proved.          *)
(***************************************************************************)
EXTENDS Naturals, Sequences

CONSTANTS
    MaxReviews,     \* bound: reviews started
    NumModels,      \* getModelCandidates().length
    NumTokens       \* bound: fragments of a live review; words of the canned one

ASSUME ReviewAssumption ==
    MaxReviews \in Nat \ {0} /\ NumModels \in Nat \ {0} /\ NumTokens \in Nat \ {0}

VARIABLES
    started,        \* reviews started so far
    panel,          \* useReview's state: text, notice, error, loading
    reader,         \* each review's loop over reader.read(): open, and the
                    \* event name its buffer holds without its data
    net,            \* lines each stream carries to the browser
    server,         \* each streamReview call: where it is and what it holds
    closed,         \* calls whose connection the server knows to be closed
    vectorStore,    \* rag.service's vectorStore is cached
    saved,          \* ReviewHistory
    unlocked        \* history: a finished review's loop has reset the loading
                    \* flag of a newer one

panelVars == <<started, panel, reader, unlocked>>
reviewVars == <<panelVars, net, server, closed, vectorStore, saved>>

Reviews == 1 .. MaxReviews
Sources == {"live", "canned", "remark"}
Events == {"notice", "done", "error"}

Fragment == [review : Reviews, from : Sources, index : 1 .. NumTokens]
Line ==
    [line : {"text"}, from : Sources, index : 1 .. NumTokens]
        \cup [line : {"event"}, name : Events] \cup [line : {"data"}] \cup [line : {"end"}]
Phases == {"new", "loading", "store", "embed", "collection", "query", "asking", "streaming",
           "canned", "saving", "finishing", "ended"}
Call == [pc : Phases, model : 1 .. NumModels, from : Sources \cup {"none"},
         sent : 0 .. NumTokens, notice : BOOLEAN]
SavedReview == [review : Reviews, from : Sources, sent : 1 .. NumTokens, notice : BOOLEAN]

ReviewTypeOK ==
    /\ started \in 0 .. MaxReviews
    /\ panel \in [text : Seq(Fragment), notice : BOOLEAN, error : BOOLEAN, loading : BOOLEAN]
    /\ reader \in [Reviews -> [open : BOOLEAN, part : Events \cup {"none"}]]
    /\ net \in [Reviews -> Seq(Line)]
    /\ server \in [Reviews -> Call]
    /\ closed \subseteq Reviews
    /\ saved \subseteq SavedReview
    /\ vectorStore \in BOOLEAN /\ unlocked \in BOOLEAN

Cleared == [text |-> <<>>, notice |-> FALSE, error |-> FALSE, loading |-> FALSE]

ReviewInit ==
    /\ started = 0 /\ panel = Cleared /\ unlocked = FALSE
    /\ reader = [r \in Reviews |-> [open |-> FALSE, part |-> "none"]]
    /\ net = [r \in Reviews |-> <<>>]
    /\ server = [r \in Reviews |-> [pc |-> "new", model |-> 1, from |-> "none", sent |-> 0,
                                    notice |-> FALSE]]
    /\ closed = {} /\ vectorStore = FALSE /\ saved = {}

----------------------------------------------------------------------------
(* The browser *)

\* startReview; the button is disabled while a review is loading.
Start ==
    /\ ~panel.loading /\ started < MaxReviews
    /\ started' = started + 1
    /\ panel' = [Cleared EXCEPT !.loading = TRUE]
    /\ reader' = [reader EXCEPT ![started + 1].open = TRUE]
    /\ server' = [server EXCEPT ![started + 1].pc = "loading"]
    /\ UNCHANGED <<net, closed, vectorStore, saved, unlocked>>

\* A newer review is loading.
Unlocks(r) == unlocked \/ (r < started /\ panel.loading)

\* Mutant: the buffer does not survive a read.
OnNameUnbuffered(r, name) == reader' = [reader EXCEPT ![r].part = "none"] /\ UNCHANGED panel

\* A line is a fragment of the text, ...
OnText(r, line) ==
    /\ panel' = [panel EXCEPT !.text =
                    Append(@, [review |-> r, from |-> line.from, index |-> line.index])]
    /\ UNCHANGED reader

\* ... the name of an event, which waits in the buffer for its data, ...
OnName(r, name) == reader' = [reader EXCEPT ![r].part = name] /\ UNCHANGED panel

\* ... or the data of the event whose name the buffer has.
OnData(r, name) ==
    /\ panel' = [panel EXCEPT !.notice = @ \/ name = "notice",
                              !.error = @ \/ name = "error",
                              !.loading = @ /\ name \notin {"done", "error"}]
    /\ reader' = [reader EXCEPT ![r].part = "none"]

\* processChunk, one line at a time: a read may return any number of lines and
\* cut them anywhere, and nothing but the next line depends on where it was cut.
ReadLine(r) ==
    /\ reader[r].open /\ net[r] # <<>>
    /\ LET line == Head(net[r]) IN
          \/ line.line = "text" /\ OnText(r, line)
          \/ line.line = "event" /\ OnName(r, line.name)
          \/ line.line = "data" /\ OnData(r, reader[r].part)
    /\ net' = [net EXCEPT ![r] = Tail(@)]
    /\ UNCHANGED <<started, server, closed, vectorStore, saved, unlocked>>

\* The loop ends with the stream, and resets the flag whoever set it.
ReadEnd(r) ==
    /\ reader[r].open /\ net[r] # <<>> /\ Head(net[r]).line = "end"
    /\ reader' = [reader EXCEPT ![r].open = FALSE] /\ net' = [net EXCEPT ![r] = <<>>]
    /\ panel' = [panel EXCEPT !.loading = FALSE]
    /\ unlocked' = Unlocks(r)
    /\ UNCHANGED <<started, server, closed, vectorStore, saved>>

\* stopReview aborts the newest request.
Stop ==
    /\ panel.loading /\ reader[started].open
    /\ reader' = [reader EXCEPT ![started].open = FALSE]
    /\ net' = [net EXCEPT ![started] = <<>>]
    /\ panel' = [panel EXCEPT !.loading = FALSE]
    /\ UNCHANGED <<started, server, closed, vectorStore, saved, unlocked>>

\* The connection breaks: the read rejects.
LinkFails(r) ==
    /\ reader[r].open
    /\ reader' = [reader EXCEPT ![r].open = FALSE] /\ net' = [net EXCEPT ![r] = <<>>]
    /\ panel' = [panel EXCEPT !.error = TRUE, !.loading = FALSE]
    /\ unlocked' = Unlocks(r)
    /\ UNCHANGED <<started, server, closed, vectorStore, saved>>

----------------------------------------------------------------------------
(* The server *)

Becomes(r, call) == server' = [server EXCEPT ![r] = call]

\* writeSse writes nothing once the response is closed, and what it writes is
\* lost once the browser has gone.
Write(r, lines) ==
    net' = [net EXCEPT ![r] = IF r \in closed \/ ~reader[r].open THEN @ ELSE @ \o lines]

Said(name) == <<[line |-> "event", name |-> name], [line |-> "data"]>>
Text(from, index) == <<[line |-> "text", from |-> from, index |-> index]>>
End == <<[line |-> "end"]>>

\* res.on("close")
Closes(r) ==
    /\ server[r].pc # "new" /\ ~reader[r].open /\ r \notin closed
    /\ closed' = closed \cup {r}
    /\ UNCHANGED <<panelVars, net, server, vectorStore, saved>>

\* loadCodeSnapshot: no access, nothing to review, or code.
LoadCode(r) ==
    /\ server[r].pc = "loading"
    /\ \/ /\ Write(r, Said("error") \o End)
          /\ Becomes(r, [server[r] EXCEPT !.pc = "ended"])
       \/ /\ Write(r, Text("remark", 1) \o Said("done") \o End)
          /\ Becomes(r, [server[r] EXCEPT !.pc = "ended"])
       \/ /\ UNCHANGED net
          /\ Becomes(r, [server[r] EXCEPT !.pc = "store"])
    /\ UNCHANGED <<panelVars, closed, vectorStore, saved>>

\* getVectorStore: cached, connected, or unavailable.
FindStore(r) ==
    /\ server[r].pc = "store"
    /\ \/ vectorStore' = TRUE /\ Becomes(r, [server[r] EXCEPT !.pc = "embed"])
       \/ ~vectorStore /\ UNCHANGED vectorStore
          /\ Becomes(r, [server[r] EXCEPT !.pc = "asking"])
    /\ UNCHANGED <<panelVars, net, closed, saved>>

After == [embed |-> "collection", collection |-> "query", query |-> "asking"]

\* retrieveContext: the next call answers (embedQuery with the tries it makes
\* itself), or it fails or the timeout ends the wait, and the review goes on
\* without context.
Retrieve(r) ==
    /\ server[r].pc \in DOMAIN After
    /\ \E next \in {After[server[r].pc], "asking"} :
          Becomes(r, [server[r] EXCEPT !.pc = next])
    /\ UNCHANGED <<panelVars, net, closed, vectorStore, saved>>

\* The stream of live fragments ended or threw; what was shown is kept.
Settled(r) ==
    Becomes(r, [server[r] EXCEPT !.pc = IF r \in closed THEN "ended" ELSE "saving"])

\* The catch around the stream: canned, with a notice, unless a fragment of a
\* live review has been sent.
GiveUp(r) ==
    IF server[r].sent > 0
    THEN Settled(r) /\ UNCHANGED net
    ELSE /\ Becomes(r, [server[r] EXCEPT !.pc = "canned", !.from = "canned", !.notice = TRUE])
         /\ Write(r, Said("notice"))

\* streamRecursive: the model answers, or is unavailable and the next one is
\* asked, or nothing is left to ask.
Ask(r) ==
    /\ server[r].pc = "asking"
    /\ \/ Becomes(r, [server[r] EXCEPT !.pc = "streaming"]) /\ UNCHANGED net
       \/ /\ server[r].model < NumModels
          /\ Becomes(r, [server[r] EXCEPT !.model = @ + 1]) /\ UNCHANGED net
       \/ GiveUp(r)
    /\ UNCHANGED <<panelVars, closed, vectorStore, saved>>

\* The abort timer; the first fragment clears it.
FirstTokenTimeout(r) ==
    /\ server[r].pc \in {"asking", "streaming"} /\ server[r].sent = 0
    /\ GiveUp(r)
    /\ UNCHANGED <<panelVars, closed, vectorStore, saved>>

\* A fragment arrives; only then does the call notice that nobody listens.
Token(r) ==
    /\ server[r].pc = "streaming" /\ server[r].sent < NumTokens
    /\ IF r \in closed
       THEN Becomes(r, [server[r] EXCEPT !.pc = "ended"]) /\ UNCHANGED net
       ELSE /\ Becomes(r, [server[r] EXCEPT !.sent = @ + 1, !.from = "live"])
            /\ Write(r, Text("live", server[r].sent + 1))
    /\ UNCHANGED <<panelVars, closed, vectorStore, saved>>

\* The model finishes, possibly without a word, or the stream breaks.
StreamEnds(r) ==
    /\ server[r].pc = "streaming"
    /\ \/ Settled(r) /\ UNCHANGED net
       \/ GiveUp(r)
    /\ UNCHANGED <<panelVars, closed, vectorStore, saved>>

\* Mutant: it does not stop at the last word.
CannedWordUnbounded(r) ==
    /\ server[r].pc = "canned"
    /\ IF r \in closed THEN Settled(r) /\ UNCHANGED net
       ELSE /\ Becomes(r, [server[r] EXCEPT !.sent = @ + 1])
            /\ Write(r, Text("canned", server[r].sent + 1))
    /\ UNCHANGED <<panelVars, closed, vectorStore, saved>>

\* streamMockReview
CannedWord(r) ==
    /\ server[r].pc = "canned"
    /\ IF r \in closed \/ server[r].sent = NumTokens
       THEN Settled(r) /\ UNCHANGED net
       ELSE /\ Becomes(r, [server[r] EXCEPT !.sent = @ + 1])
            /\ Write(r, Text("canned", server[r].sent + 1))
    /\ UNCHANGED <<panelVars, closed, vectorStore, saved>>

Row(r) == [review |-> r, from |-> server[r].from, sent |-> server[r].sent,
           notice |-> server[r].notice]

\* saveReviewHistory swallows a failure, and an empty text fails validation.
Save(r) ==
    /\ server[r].pc = "saving"
    /\ \/ server[r].sent > 0 /\ saved' = saved \cup {Row(r)}
       \/ UNCHANGED saved
    /\ Becomes(r, [server[r] EXCEPT !.pc = "finishing"])
    /\ UNCHANGED <<panelVars, net, closed, vectorStore>>

\* Mutant: the response is left open.
FinishUnended(r) ==
    /\ server[r].pc = "finishing"
    /\ UNCHANGED net
    /\ Becomes(r, [server[r] EXCEPT !.pc = "ended"])
    /\ UNCHANGED <<panelVars, closed, vectorStore, saved>>

Finish(r) ==
    /\ server[r].pc = "finishing"
    /\ Write(r, Said("done") \o End)
    /\ Becomes(r, [server[r] EXCEPT !.pc = "ended"])
    /\ UNCHANGED <<panelVars, closed, vectorStore, saved>>

----------------------------------------------------------------------------
ServerStep(r) ==
    \/ LoadCode(r) \/ FindStore(r) \/ Retrieve(r) \/ Ask(r) \/ FirstTokenTimeout(r)
    \/ Token(r) \/ StreamEnds(r) \/ CannedWord(r) \/ Save(r) \/ Finish(r)

Read(r) == ReadLine(r) \/ ReadEnd(r)

ReviewNext ==
    \/ Start \/ Stop
    \/ \E r \in Reviews : Read(r) \/ LinkFails(r) \/ Closes(r) \/ ServerStep(r)

ReviewSpec == ReviewInit /\ [][ReviewNext]_reviewVars

\* The store, the models and the network answer or fail in the end, a timer
\* fires, and a model that has begun to answer goes on or breaks off.
ReviewFairSpec ==
    /\ ReviewSpec
    /\ \A r \in Reviews : WF_reviewVars(ServerStep(r)) /\ WF_reviewVars(Read(r))

----------------------------------------------------------------------------
(* Properties *)

\* "a fallback is never mistaken for a real review": canned words on the panel
\* come with the notice.  (A stale loop may have let two reviews share it.)
FallbackIsFlagged ==
    ~unlocked => \A i \in 1 .. Len(panel.text) : panel.text[i].from = "canned" => panel.notice

\* The panel shows one review from its beginning: a live one or the canned one,
\* never one after part of the other, nothing left over of a stopped review.
OneReviewShown ==
    ~unlocked => \A i \in 1 .. Len(panel.text) :
                    panel.text[i] = [review |-> started, from |-> panel.text[1].from, index |-> i]

\* What the history holds was sent to a browser from its first fragment to its
\* last, and is marked when it is the canned review.
HistoryIsWhatWasSent ==
    \A h \in saved :
        /\ h.notice <=> h.from = "canned"
        /\ \A i \in 1 .. Len(panel.text) :
              panel.text[i].review = h.review /\ ~unlocked =>
                  panel.text[i].from = h.from /\ i <= h.sent

\* What is shown and what is kept of a review is one review from its start, and
\* says so when it is the canned one.
PanelIsHonest == FallbackIsFlagged /\ OneReviewShown /\ HistoryIsWhatWasSent

\* The panel does not load for ever.
ReviewEnds == \A r \in Reviews : (panel.loading /\ started = r) ~> (~panel.loading \/ started # r)
=============================================================================
