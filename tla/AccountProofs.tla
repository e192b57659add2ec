---------------------------- MODULE AccountProofs ----------------------------
(***************************************************************************)
(* Theorems about what belongs to an account: its sessions (Sessions), for *)
(* any number of accounts, requests, tokens, faults, sign-outs and page    *)
(* loads; and its documents (Documents over Presence), for any number of   *)
(* users, browsers, requests and mishaps.  The two share no variable.      *)
(***************************************************************************)
EXTENDS Sessions, Documents, TLAPS

(* -------------------------- Sessions: invariant ------------------------- *)

InFlight(r) == req[r].step \in {"sent", "queued", "refreshing"}

\* The token numbers, and who holds them.
TokenType ==
    /\ ownerOf \in [1..MaxTokens -> Maybe]
    /\ issued \in Tokens /\ expired \in 0..issued
    /\ cookie \in Maybe /\ cookieLost \in BOOLEAN

ClientType ==
    {access, storage, token} \subseteq 0..issued /\ user \in Maybe /\ loading \in BOOLEAN

RequestState ==
    [step : {"idle", "sent", "queued", "refreshing", "ok", "denied", "lost"},
     token : Tokens, sends : 0..(MaxTokens + 2), retry : BOOLEAN]

RequestType == req \in [Requests -> RequestState]

CallType ==
    /\ refresh \in [on : BOOLEAN, by : Requests \cup {NoAccount}, account : Maybe]
    /\ mount \in [on : BOOLEAN, by : {NoAccount}, account : Maybe]
    /\ signIn \in Maybe

BoundType ==
    faults \in 0..MaxFaults /\ logouts \in 0..MaxLogouts /\ reloads \in 0..MaxReloads

\* Behind the loading screen nothing but the mount's own refresh is under
\* way, and React's token is still the one of localStorage.
PageLoad ==
    loading => /\ token = storage /\ signIn = NoAccount /\ ~refresh.on
               /\ \A r \in Requests : ~InFlight(r)

\* A request is sent again only with a token signed for it, and has been sent
\* twice when its second 401 can arrive.
Counted(q, n) ==
    /\ q.sends <= n + 1
    /\ q.step = "idle" => q.sends = 0 /\ ~q.retry
    /\ q.step \in {"sent", "queued", "refreshing"} => q.sends >= 1
    /\ q.step = "sent" /\ q.retry => q.sends >= 2

SentCounts == \A r \in Requests : Counted(req[r], issued)

\* A cookie that is not there was lost, and a refresh without one is later.
CookieHistory ==
    /\ cookie = NoAccount => cookieLost
    /\ refresh.on /\ refresh.account = NoAccount => cookieLost

SessionInv ==
    TypeOK /\ OneIdentity /\ PageLoad /\ SentCounts /\ CookieHistory /\ DeniedForCause

LEMMA Types ==
    TypeOK <=> TokenType /\ ClientType /\ RequestType /\ CallType /\ BoundType
BY DEF TypeOK, TokenType, ClientType, RequestType, RequestState, CallType, BoundType

LEMMA NextTypes ==
    ASSUME TokenType', ClientType', RequestType', CallType', BoundType'
    PROVE  TypeOK'
BY DEF TypeOK, TokenType, ClientType, RequestType, RequestState, CallType, BoundType

LEMMA InvInit == Init => SessionInv
<1> SUFFICES ASSUME Init PROVE SessionInv
  OBVIOUS
<1> USE SessionAssumption DEF Init
<1>1. TokenType
  BY DEF TokenType, Tokens, Maybe
<1>2. ClientType /\ BoundType
  BY DEF ClientType, BoundType, Maybe
<1>3. RequestType
  BY DEF RequestType, RequestState, Unsent, Tokens
<1>4. CallType
  BY DEF CallType, Quiet, Maybe
<1>5. PageLoad /\ SentCounts
  BY <1>1 DEF PageLoad, SentCounts, Counted, InFlight, Unsent, Quiet, TokenType, Tokens
<1>6. OneIdentity /\ DeniedForCause
  BY DEF OneIdentity, DeniedForCause, Unsent
<1>7. CookieHistory
  BY Zenon DEF CookieHistory, Quiet
<1>8. QED  BY <1>1, <1>2, <1>3, <1>4, <1>5, <1>6, <1>7, Types DEF SessionInv

(* ---------------------------- What steps keep --------------------------- *)

\* A refused refresh leaves no cookie, and remembers it.
LEMMA RefusalKeeps ==
    ASSUME SessionInv, NEW account \in Maybe, Refuses(account)
    PROVE  /\ TokenType' /\ UNCHANGED <<ownerOf, issued, expired>>
           /\ cookie' \in {NoAccount, cookie} /\ (cookieLost => cookieLost')
           /\ account # NoAccount => cookieLost'
           /\ cookie' = NoAccount => cookieLost'
BY DEF Refuses, SessionInv, TypeOK, TokenType, server, Maybe, CookieHistory

\* A signed token is the newest one, and the cookie is its account's.
LEMMA SigningKeeps ==
    ASSUME SessionInv, NEW account \in Accounts, Signed(account)
    PROVE  /\ TokenType' /\ issued' = issued + 1 /\ issued' # 0
           /\ expired' = expired /\ cookieLost' = cookieLost /\ cookie' = account
           /\ ownerOf'[issued'] = account
BY SessionAssumption DEF Signed, SessionInv, TypeOK, TokenType, Tokens, Maybe

\* Steps that leave the requests alone: time may pass, and tokens be signed.
LEMMA RequestsKept ==
    ASSUME SessionInv, TokenType', UNCHANGED req,
           issued' >= issued, expired' >= expired, faults' >= faults,
           cookieLost => cookieLost'
    PROVE  RequestType' /\ SentCounts' /\ DeniedForCause'
<1> USE DEF SessionInv
<1>1. RequestType'
  BY Types DEF RequestType
<1>2. SentCounts'
  BY Types DEF SentCounts, Counted, TokenType, Tokens, RequestType, RequestState
<1>3. DeniedForCause'
  <2> SUFFICES ASSUME NEW r \in Requests, req[r].step = "denied", faults' = 0, ~cookieLost'
               PROVE  req[r].sends >= 2 /\ ~(req[r].token > expired')
    BY DEF DeniedForCause, Valid
  <2>1. faults = 0 /\ ~cookieLost
    BY Types DEF BoundType
  <2>2. QED  BY <2>1, Types, SessionAssumption
             DEF DeniedForCause, Valid, TokenType, Tokens, RequestType, RequestState
<1>4. QED  BY <1>1, <1>2, <1>3

\* A new token held everywhere is one identity,
LEMMA HeldIsOne ==
    ASSUME SessionInv, TokenType', NEW account \in Accounts, loading' \in BOOLEAN,
           Holds(issued', account), ownerOf'[issued'] = account, cookie' = account
    PROVE  ClientType' /\ OneIdentity'
BY DEF Holds, OneIdentity, ClientType, TokenType, Tokens, Maybe

\* ... and so is none.
LEMMA ForgottenIsOne ==
    ASSUME TokenType', loading' \in BOOLEAN, Forgets
    PROVE  ClientType' /\ OneIdentity'
BY DEF Forgets, Holds, OneIdentity, ClientType, TokenType, Tokens, Maybe

\* Steps that leave the tokens and their holders alone.
LEMMA Untouched ==
    ASSUME SessionInv, UNCHANGED <<server, client, loading>>
    PROVE  TokenType' /\ ClientType' /\ OneIdentity' /\ (cookie' = NoAccount => cookieLost')
BY Types DEF SessionInv, TokenType, ClientType, OneIdentity, CookieHistory, server, client

\* A response lost to the network is counted.
LEMMA FaultCounted ==
    ASSUME SessionInv, Fault
    PROVE  BoundType' /\ faults' = faults + 1 /\ faults' # 0
BY Types, SessionAssumption DEF Fault, SessionInv, BoundType

\* Nothing that has happened is undone.
Later ==
    issued' >= issued /\ expired' >= expired /\ faults' >= faults
      /\ (cookieLost => cookieLost')

\* What the answer to a refresh or a sign-in may do.
SessionAnswer(account) ==
    \/ account # NoAccount /\ Signed(account) /\ Holds(issued', account) /\ UNCHANGED bounds
    \/ Refuses(account) /\ Forgets /\ UNCHANGED bounds
    \/ Fault /\ Forgets /\ UNCHANGED server

LEMMA AnswerKeeps ==
    ASSUME SessionInv, NEW account \in Maybe, SessionAnswer(account), loading' \in BOOLEAN
    PROVE  /\ TokenType' /\ ClientType' /\ BoundType' /\ OneIdentity'
           /\ Later /\ (cookie' = NoAccount => cookieLost')
<1> USE DEF SessionInv
<1>1. CASE /\ account # NoAccount /\ Signed(account)
           /\ Holds(issued', account) /\ UNCHANGED bounds
  <2>1. account \in Accounts
    BY <1>1 DEF Maybe
  <2>2. /\ TokenType' /\ issued' = issued + 1 /\ cookie' = account
        /\ expired' = expired /\ cookieLost' = cookieLost /\ ownerOf'[issued'] = account
    BY <1>1, <2>1, SigningKeeps
  <2>3. ClientType' /\ OneIdentity'
    BY <1>1, <2>1, <2>2, HeldIsOne
  <2>4. QED  BY <1>1, <2>2, <2>3, Types DEF BoundType, bounds, Later, TokenType, Tokens
<1>2. CASE Refuses(account) /\ Forgets /\ UNCHANGED bounds
  <2>1. TokenType' /\ UNCHANGED <<issued, expired>> /\ (cookieLost => cookieLost')
        /\ (cookie' = NoAccount => cookieLost')
    BY <1>2, RefusalKeeps
  <2>2. ClientType' /\ OneIdentity'
    BY <1>2, <2>1, ForgottenIsOne
  <2>3. QED  BY <1>2, <2>1, <2>2, Types DEF BoundType, bounds, Later, TokenType, Tokens
<1>3. CASE Fault /\ Forgets /\ UNCHANGED server
  <2>1. BoundType' /\ faults' = faults + 1
    BY <1>3, FaultCounted
  <2>2. TokenType' /\ (cookie' = NoAccount => cookieLost')
    BY <1>3, Types DEF TokenType, server, CookieHistory
  <2>3. ClientType' /\ OneIdentity'
    BY <1>3, <2>2, ForgottenIsOne
  <2>4. QED  BY <1>3, <2>1, <2>2, <2>3, Types DEF server, Later, BoundType, TokenType, Tokens
<1>4. QED  BY <1>1, <1>2, <1>3 DEF SessionAnswer

(* ------------------------- Page load and sign-in ------------------------ *)

LEMMA MountKeeps ==
    ASSUME SessionInv, Mount
    PROVE  SessionInv'
<1> USE DEF Mount, SessionInv
<1>1. TokenType' /\ ClientType' /\ BoundType'
  BY Types DEF TokenType, ClientType, BoundType, server, bounds
<1>2. RequestType' /\ SentCounts' /\ DeniedForCause'
  BY <1>1, Types, RequestsKept DEF server, bounds, TokenType, Tokens, BoundType
<1>3. CallType'
  BY Types DEF CallType, TokenType, Quiet, server
<1>4. OneIdentity' /\ PageLoad'
  BY DEF OneIdentity, PageLoad, InFlight, server
<1>5. CookieHistory'
  BY DEF CookieHistory, server
<1>6. QED  BY <1>1, <1>2, <1>3, <1>4, <1>5, NextTypes

LEMMA MountAnsweredKeeps ==
    ASSUME SessionInv, MountAnswered
    PROVE  SessionInv'
<1>1. mount.account \in Maybe /\ (mount.account # NoAccount => mount.account \in Accounts)
  BY Types DEF MountAnswered, SessionInv, CallType, Maybe
<1>2. SessionAnswer(mount.account)
  BY DEF MountAnswered, SessionAnswer
<1>3. /\ TokenType' /\ ClientType' /\ BoundType' /\ OneIdentity'
      /\ Later /\ (cookie' = NoAccount => cookieLost')
  BY <1>1, <1>2, AnswerKeeps DEF MountAnswered
<1>4. RequestType' /\ SentCounts' /\ DeniedForCause'
  BY <1>3, RequestsKept DEF MountAnswered, Later
<1>5. CallType'
  BY Types DEF MountAnswered, SessionInv, CallType, Quiet, Maybe
<1>6. CookieHistory' /\ PageLoad'
  BY <1>3 DEF MountAnswered, SessionInv, CookieHistory, Later, PageLoad
<1>7. QED  BY <1>3, <1>4, <1>5, <1>6, NextTypes DEF SessionInv

LEMMA SignInKeeps ==
    ASSUME SessionInv, SignIn
    PROVE  SessionInv'
<1> USE DEF SignIn, SessionInv, server, client, bounds
<1>1. TokenType' /\ ClientType' /\ BoundType'
  BY Types DEF TokenType, ClientType, BoundType
<1>2. RequestType' /\ SentCounts' /\ DeniedForCause'
  BY <1>1, Types, RequestsKept DEF TokenType, Tokens, BoundType
<1>3. CallType'
  BY Types DEF CallType, Maybe
<1>4. OneIdentity' /\ PageLoad' /\ CookieHistory'
  BY DEF OneIdentity, PageLoad, CookieHistory
<1>5. QED  BY <1>1, <1>2, <1>3, <1>4, NextTypes

LEMMA SignInAnsweredKeeps ==
    ASSUME SessionInv, SignInAnswered
    PROVE  SessionInv'
<1>1. signIn \in Accounts
  BY Types DEF SignInAnswered, SessionInv, CallType, Maybe
<1>2. loading = FALSE /\ loading' = FALSE
  BY <1>1, Types, SessionAssumption DEF SignInAnswered, SessionInv, PageLoad, ClientType
<1>3. /\ TokenType' /\ ClientType' /\ BoundType' /\ OneIdentity'
      /\ Later /\ (cookie' = NoAccount => cookieLost')
  <2>1. CASE Signed(signIn) /\ Holds(issued', signIn) /\ UNCHANGED bounds
    <3>1. signIn \in Maybe /\ loading' \in BOOLEAN /\ SessionAnswer(signIn)
      BY <1>1, <1>2, <2>1, SessionAssumption DEF SessionAnswer, Maybe
    <3>2. QED  BY <3>1, AnswerKeeps
  <2>2. CASE UNCHANGED <<server, client>> /\ (Fault \/ UNCHANGED bounds)
    <3>1. BoundType' /\ faults' >= faults
      BY <2>2, Types, FaultCounted DEF SessionInv, BoundType, bounds
    <3>2. TokenType' /\ ClientType' /\ OneIdentity' /\ (cookie' = NoAccount => cookieLost')
      BY <1>2, <2>2, Untouched
    <3>3. Later
      BY <2>2, <3>1, Types DEF SessionInv, TokenType, Tokens, server, Later
    <3>4. QED  BY <3>1, <3>2, <3>3
  <2>3. QED  BY <2>1, <2>2 DEF SignInAnswered
<1>4. RequestType' /\ SentCounts' /\ DeniedForCause'
  BY <1>3, RequestsKept DEF SignInAnswered, Later
<1>5. CallType' /\ CookieHistory' /\ PageLoad'
  BY <1>2, <1>3, Types
     DEF SignInAnswered, SessionInv, CallType, CookieHistory, PageLoad, Later, Maybe
<1>6. QED  BY <1>3, <1>4, <1>5, NextTypes DEF SessionInv

LEMMA LogoutKeeps ==
    ASSUME SessionInv, Logout
    PROVE  SessionInv'
<1>1. TokenType' /\ BoundType' /\ loading' \in BOOLEAN
  BY Types, SessionAssumption
     DEF Logout, SessionInv, TokenType, BoundType, ClientType, server
<1>2. ClientType' /\ OneIdentity'
  BY <1>1, ForgottenIsOne DEF Logout
<1>3. RequestType' /\ SentCounts' /\ DeniedForCause'
  BY <1>1, Types, RequestsKept
     DEF Logout, SessionInv, TokenType, Tokens, BoundType, server
<1>4. CallType' /\ PageLoad' /\ CookieHistory'
  BY Types DEF Logout, SessionInv, CallType, PageLoad, CookieHistory, server
<1>5. QED  BY <1>1, <1>2, <1>3, <1>4, NextTypes DEF SessionInv

LEMMA ReloadKeeps ==
    ASSUME SessionInv, Reload
    PROVE  SessionInv'
<1> USE DEF Reload, SessionInv, server
<1>1. TokenType' /\ ClientType' /\ BoundType'
  BY Types, SessionAssumption DEF TokenType, ClientType, BoundType, Maybe, Tokens
<1>2. \A r \in Requests :
        /\ req[r] \in RequestState
        /\ \/ req'[r] = req[r] /\ req[r].step \in {"idle", "ok", "denied"}
           \/ req'[r] = [req[r] EXCEPT !.step = "lost"]
  BY Types DEF RequestType
<1>3. RequestType'
  <2>1. \A r \in Requests : req'[r] \in RequestState
    BY <1>2 DEF RequestState
  <2>2. QED  BY <2>1 DEF RequestType
<1>4. SentCounts' /\ PageLoad'
  BY <1>2 DEF SentCounts, Counted, PageLoad, InFlight, Quiet, RequestState
<1>5. DeniedForCause'
  BY <1>2 DEF DeniedForCause, RequestState, Valid
<1>6. CallType' /\ CookieHistory' /\ OneIdentity'
  BY Types DEF CallType, CookieHistory, OneIdentity, Quiet, Maybe
<1>7. QED  BY <1>1, <1>3, <1>4, <1>5, <1>6, NextTypes

(* ------------------------------- Requests ------------------------------- *)

\* What sending a request does to it.
LEMMA SendingShape ==
    ASSUME NEW q \in RequestState, NEW t \in Tokens, q.sends <= MaxTokens + 1
    PROVE  /\ Sending(q, t) \in RequestState
           /\ Sending(q, t).step = "sent" /\ Sending(q, t).sends = q.sends + 1
           /\ Sending(q, t).retry = q.retry
<1>1. q.sends + 1 \in 0..(MaxTokens + 2)
  BY SessionAssumption DEF RequestState
<1>2. Sending(q, t) \in RequestState
  BY <1>1 DEF Sending, RequestState
<1>3. Sending(q, t).step = "sent" /\ Sending(q, t).retry = q.retry
  BY DEF Sending, RequestState
<1>4. Sending(q, t).sends = q.sends + 1
  BY DEF Sending, RequestState
<1>5. QED  BY <1>2, <1>3, <1>4

LEMMA SettledShape ==
    ASSUME NEW q \in RequestState,
           NEW step \in {"queued", "refreshing", "ok", "denied", "lost"}
    PROVE  /\ [q EXCEPT !.step = step] \in RequestState
           /\ [q EXCEPT !.step = step].step = step
           /\ [q EXCEPT !.step = step].token = q.token
           /\ [q EXCEPT !.step = step].sends = q.sends
           /\ [q EXCEPT !.step = step].retry = q.retry
BY DEF RequestState

\* A request's own step leaves the tokens and the client alone.
Local == UNCHANGED <<server, client, loading, mount, signIn>>

LEMMA LocalKeeps ==
    ASSUME SessionInv, Local, ~loading
    PROVE  TokenType' /\ ClientType' /\ OneIdentity' /\ PageLoad'
BY Untouched DEF Local, PageLoad

\* The page is there while one of its requests is in flight.
LEMMA FlightOnPage ==
    ASSUME SessionInv, NEW r \in Requests, InFlight(r)
    PROVE  ~loading
BY DEF SessionInv, PageLoad

\* One request moves; the others stay as they were.
LEMMA OneMoves ==
    ASSUME SessionInv, NEW r \in Requests, NEW q \in RequestState,
           req' = [req EXCEPT ![r] = q], Counted(q, issued),
           UNCHANGED server, faults' >= faults,
           q.step = "denied" /\ faults' = 0 /\ ~cookieLost =>
              q.sends >= 2 /\ ~(q.token > expired)
    PROVE  RequestType' /\ SentCounts' /\ DeniedForCause'
<1> USE DEF SessionInv, server
<1>1. /\ req'[r] = q /\ \A x \in Requests \ {r} : req'[x] = req[x]
  BY Types DEF RequestType
<1>2. RequestType'
  BY Types DEF RequestType
<1>3. SentCounts'
  BY <1>1 DEF SentCounts
<1>4. DeniedForCause'
  BY <1>1, Types, SessionAssumption DEF DeniedForCause, Valid, BoundType
<1>5. QED  BY <1>2, <1>3, <1>4

LEMMA SendKeeps ==
    ASSUME SessionInv, NEW r \in Requests, Send(r)
    PROVE  SessionInv'
<1> USE DEF Send, SessionInv
<1>1. TokenType' /\ ClientType' /\ OneIdentity' /\ PageLoad'
  BY LocalKeeps DEF Local
<1>2. CallType' /\ BoundType' /\ CookieHistory'
  BY Types DEF CallType, BoundType, CookieHistory, server, bounds
<1>3. /\ req[r] \in RequestState /\ req[r].sends = 0 /\ ~req[r].retry
      /\ access \in Tokens /\ issued \in Nat
  BY Types, SessionAssumption DEF RequestType, SentCounts, Counted, ClientType, TokenType, Tokens
<1> DEFINE q == Sending(req[r], access)
<1>4. q \in RequestState /\ q.step = "sent" /\ q.sends = 1 /\ ~q.retry
  BY <1>3, SendingShape, SessionAssumption
<1>5. req' = [req EXCEPT ![r] = q]
  OBVIOUS
<1>6. Counted(q, issued) /\ faults' >= faults
  BY <1>3, <1>4, Types DEF Counted, BoundType, bounds
<1> HIDE DEF q
<1>7. RequestType' /\ SentCounts' /\ DeniedForCause'
  BY <1>4, <1>5, <1>6, OneMoves
<1>8. QED  BY <1>1, <1>2, <1>7, NextTypes

LEMMA AnsweredKeeps ==
    ASSUME SessionInv, NEW r \in Requests, Answered(r)
    PROVE  SessionInv'
<1> USE DEF SessionInv
<1>1. ~loading
  BY FlightOnPage DEF Answered, InFlight
<1>2. TokenType' /\ ClientType' /\ OneIdentity' /\ PageLoad' /\ UNCHANGED server
  BY <1>1, LocalKeeps DEF Local, Answered
<1>3. CallType' /\ CookieHistory'
  BY Types DEF Answered, CallType, CookieHistory, server
<1>4. PICK step \in {"ok", "lost"} :
        /\ req' = [req EXCEPT ![r] = [req[r] EXCEPT !.step = step]]
        /\ Fault \/ UNCHANGED bounds
  BY Types DEF Answered, Settle, RequestType
<1>5. BoundType' /\ faults' >= faults
  BY <1>4, Types, FaultCounted DEF BoundType, bounds
<1> DEFINE q == [req[r] EXCEPT !.step = step]
<1>6. req[r] \in RequestState /\ Counted(req[r], issued)
  BY Types DEF RequestType, SentCounts
<1>7. q \in RequestState /\ q.step = step /\ q.sends = req[r].sends
  BY <1>4, <1>6 DEF RequestState
<1>8. Counted(q, issued)
  BY <1>6, <1>7 DEF Counted
<1> HIDE DEF q
<1>9. RequestType' /\ SentCounts' /\ DeniedForCause'
  BY <1>2, <1>4, <1>5, <1>7, <1>8, OneMoves DEF q
<1>10. QED  BY <1>2, <1>3, <1>5, <1>9, NextTypes

LEMMA UnauthorizedKeeps ==
    ASSUME SessionInv, NEW r \in Requests, Unauthorized(r)
    PROVE  SessionInv'
<1> USE DEF SessionInv
<1>1. ~loading
  BY FlightOnPage DEF Unauthorized, InFlight
<1>2. /\ TokenType' /\ ClientType' /\ OneIdentity' /\ PageLoad'
      /\ UNCHANGED <<server, bounds>>
  BY <1>1, LocalKeeps DEF Local, Unauthorized
<1>3. BoundType' /\ faults' >= faults
  BY <1>2, Types DEF BoundType, bounds
<1>4. /\ req[r] \in RequestState /\ Counted(req[r], issued)
      /\ req[r].step = "sent" /\ ~(req[r].token > expired)
  BY Types DEF RequestType, SentCounts, Unauthorized, Valid
<1>5. CASE req[r].retry /\ Settle(r, "denied") /\ UNCHANGED refresh
  <2> DEFINE q == [req[r] EXCEPT !.step = "denied"]
  <2>1. q \in RequestState /\ q.step = "denied" /\ q.sends = req[r].sends
        /\ q.token = req[r].token
    BY <1>4, SettledShape
  <2>2. Counted(q, issued) /\ q.sends >= 2
    BY <1>4, <1>5, <2>1 DEF Counted
  <2>3. req' = [req EXCEPT ![r] = q]
    BY <1>5, Types DEF Settle, RequestType
  <2> HIDE DEF q
  <2>4. RequestType' /\ SentCounts' /\ DeniedForCause'
    BY <1>2, <1>3, <1>4, <2>1, <2>2, <2>3, OneMoves
  <2>5. CallType' /\ CookieHistory'
    BY <1>2, <1>5, Types DEF Unauthorized, CallType, CookieHistory, server
  <2>6. QED  BY <1>2, <1>3, <2>4, <2>5, NextTypes
<1>6. CASE ~req[r].retry /\ refresh.on /\ Settle(r, "queued") /\ UNCHANGED refresh
  <2> DEFINE q == [req[r] EXCEPT !.step = "queued"]
  <2>1. q \in RequestState /\ q.step = "queued" /\ q.sends = req[r].sends
    BY <1>4, SettledShape
  <2>2. Counted(q, issued)
    BY <1>4, <2>1 DEF Counted
  <2>3. req' = [req EXCEPT ![r] = q]
    BY <1>6, Types DEF Settle, RequestType
  <2> HIDE DEF q
  <2>4. RequestType' /\ SentCounts' /\ DeniedForCause'
    BY <1>2, <1>3, <2>1, <2>2, <2>3, OneMoves
  <2>5. CallType' /\ CookieHistory'
    BY <1>2, <1>6, Types DEF Unauthorized, CallType, CookieHistory, server
  <2>6. QED  BY <1>2, <1>3, <2>4, <2>5, NextTypes
<1>7. CASE /\ ~req[r].retry /\ ~refresh.on
           /\ req' = [req EXCEPT ![r].step = "refreshing", ![r].retry = TRUE]
           /\ refresh' = [on |-> TRUE, by |-> r, account |-> cookie]
  <2> DEFINE q == [req[r] EXCEPT !.step = "refreshing", !.retry = TRUE]
  <2>1. q \in RequestState /\ q.step = "refreshing" /\ q.sends = req[r].sends
    BY <1>4 DEF RequestState
  <2>2. Counted(q, issued)
    BY <1>4, <2>1 DEF Counted
  <2>3. req' = [req EXCEPT ![r] = q]
    BY <1>7, Types DEF RequestType
  <2> HIDE DEF q
  <2>4. RequestType' /\ SentCounts' /\ DeniedForCause'
    BY <1>2, <1>3, <2>1, <2>2, <2>3, OneMoves
  <2>5. CallType' /\ CookieHistory'
    BY <1>2, <1>7, Types DEF Unauthorized, CallType, TokenType, CookieHistory, server
  <2>6. QED  BY <1>2, <1>3, <2>4, <2>5, NextTypes
<1>8. QED  BY <1>5, <1>6, <1>7 DEF Unauthorized

(* -------------------------------- Refresh ------------------------------- *)

LEMMA RefreshedKeeps ==
    ASSUME SessionInv, Refreshed
    PROVE  SessionInv'
<1> USE DEF SessionInv
<1>1. refresh.account \in Accounts /\ loading = FALSE /\ loading' = FALSE
  BY Types DEF Refreshed, CallType, Maybe, PageLoad, ClientType
<1>2. /\ TokenType' /\ issued' = issued + 1 /\ cookie' = refresh.account
      /\ expired' = expired /\ cookieLost' = cookieLost
      /\ ownerOf'[issued'] = refresh.account
  BY <1>1, SigningKeeps DEF Refreshed
<1>3. ClientType' /\ OneIdentity'
  BY <1>1, <1>2, HeldIsOne DEF Refreshed
<1>4. BoundType' /\ CallType' /\ PageLoad' /\ CookieHistory'
  BY <1>1, <1>2, Types, SessionAssumption
     DEF Refreshed, BoundType, CallType, PageLoad, CookieHistory, Quiet, bounds, Maybe
<1>5. issued \in Nat /\ issued' \in Tokens /\ issued < MaxTokens
  BY <1>2, Types DEF Refreshed, Signed, TokenType, Tokens
<1>6. ASSUME NEW r \in Requests
      PROVE  /\ req'[r] \in RequestState /\ Counted(req'[r], issued')
             /\ req'[r].step = "denied" => req'[r] = req[r]
  <2>1. req[r] \in RequestState /\ Counted(req[r], issued)
    BY Types DEF RequestType, SentCounts
  <2>2. CASE Waiting(r)
    <3>1. req'[r] = Sending(req[r], issued')
      BY <2>2 DEF Refreshed
    <3>2. req[r].sends <= MaxTokens + 1 /\ req[r].sends >= 1
      BY <1>5, <2>1, <2>2, SessionAssumption DEF Counted, RequestState, Waiting
    <3>3. /\ req'[r] \in RequestState /\ req'[r].step = "sent"
          /\ req'[r].sends = req[r].sends + 1
      BY <1>5, <2>1, <3>1, <3>2, SendingShape
    <3>4. QED  BY <1>2, <1>5, <2>1, <3>2, <3>3 DEF Counted, RequestState
  <2>3. CASE ~Waiting(r)
    BY <1>2, <1>5, <2>1, <2>3 DEF Refreshed, Counted, RequestState
  <2>4. QED  BY <2>2, <2>3
<1>7. RequestType' /\ SentCounts'
  BY <1>6 DEF RequestType, SentCounts, Refreshed
<1>8. DeniedForCause'
  BY <1>2, <1>6 DEF DeniedForCause, Valid, Refreshed, bounds
<1>9. QED  BY <1>2, <1>3, <1>4, <1>7, <1>8, NextTypes

LEMMA RefreshFailsKeeps ==
    ASSUME SessionInv, RefreshFails
    PROVE  SessionInv'
<1> USE DEF SessionInv
<1>1. refresh.account \in Maybe /\ ~loading /\ loading' = loading
  BY Types DEF RefreshFails, CallType, PageLoad
<1>2. /\ TokenType' /\ UNCHANGED <<issued, expired>>
      /\ cookieLost => cookieLost'
      /\ cookie' = NoAccount => cookieLost'
      /\ BoundType' /\ (faults' # 0 \/ cookieLost')
  <2>1. CASE Refuses(refresh.account) /\ UNCHANGED bounds
    <3>1. /\ TokenType' /\ UNCHANGED <<issued, expired>> /\ (cookieLost => cookieLost')
          /\ refresh.account # NoAccount => cookieLost'
          /\ cookie' = NoAccount => cookieLost'
      BY <1>1, <2>1, RefusalKeeps
    <3>2. refresh.account = NoAccount => cookieLost
      BY DEF RefreshFails, CookieHistory
    <3>3. QED  BY <2>1, <3>1, <3>2, Types DEF BoundType, bounds
  <2>2. CASE Fault /\ UNCHANGED server
    BY <2>2, FaultCounted, Types DEF TokenType, CookieHistory, server
  <2>3. QED  BY <2>1, <2>2 DEF RefreshFails
<1>3. ClientType' /\ OneIdentity'
  BY <1>1, <1>2, Types DEF RefreshFails, ClientType, OneIdentity, TokenType, Tokens
<1>4. CallType' /\ PageLoad' /\ CookieHistory'
  BY <1>1, <1>2, Types DEF RefreshFails, CallType, PageLoad, CookieHistory, Quiet, Maybe
<1>5. ASSUME NEW r \in Requests
      PROVE  req'[r] \in RequestState /\ Counted(req'[r], issued')
  <2>1. req[r] \in RequestState /\ Counted(req[r], issued)
    BY Types DEF RequestType, SentCounts
  <2>2. req'[r] = req[r] \/ req'[r] = [req[r] EXCEPT !.step = "denied"]
    BY DEF RefreshFails
  <2> DEFINE q == [req[r] EXCEPT !.step = "denied"]
  <2>3. q \in RequestState /\ q.step = "denied" /\ q.sends = req[r].sends
    BY <2>1, SettledShape
  <2> HIDE DEF q
  <2>4. QED  BY <1>2, <2>1, <2>2, <2>3 DEF Counted, q
<1>6. RequestType' /\ SentCounts'
  BY <1>5 DEF RequestType, SentCounts, RefreshFails
<1>7. DeniedForCause'
  BY <1>2 DEF DeniedForCause
<1>8. QED  BY <1>2, <1>3, <1>4, <1>6, <1>7, NextTypes

LEMMA ExpiresKeeps ==
    ASSUME SessionInv, Expires
    PROVE  SessionInv'
<1> USE DEF SessionInv
<1>1. TokenType' /\ expired' >= expired /\ cookie' \in {NoAccount, cookie}
      /\ (cookieLost => cookieLost') /\ (cookie' = NoAccount => cookieLost')
  <2>1. CASE expired < issued /\ expired' = expired + 1 /\ UNCHANGED <<cookie, cookieLost>>
    BY <2>1, Types DEF Expires, TokenType, Tokens, CookieHistory
  <2>2. CASE /\ cookie # NoAccount /\ cookie' = NoAccount /\ cookieLost' = TRUE
             /\ UNCHANGED expired
    BY <2>2, Types DEF Expires, TokenType, Tokens, Maybe
  <2>3. QED  BY <2>1, <2>2 DEF Expires
<1>2. ClientType' /\ CallType' /\ BoundType' /\ PageLoad'
  BY Types DEF Expires, ClientType, CallType, BoundType, PageLoad, client, bounds, InFlight
<1>3. RequestType' /\ SentCounts' /\ DeniedForCause'
  BY <1>1, Types, RequestsKept DEF Expires, TokenType, Tokens, BoundType, bounds
<1>4. OneIdentity'
  BY <1>1 DEF Expires, OneIdentity, client
<1>5. CookieHistory'
  BY <1>1 DEF Expires, CookieHistory
<1>6. QED  BY <1>1, <1>2, <1>3, <1>4, <1>5, NextTypes

LEMMA InvNext == SessionInv /\ [Next]_vars => SessionInv'
<1> SUFFICES ASSUME SessionInv, [Next]_vars PROVE SessionInv'
  OBVIOUS
<1>1. CASE Next
  BY <1>1, MountKeeps, MountAnsweredKeeps, SignInKeeps, SignInAnsweredKeeps, LogoutKeeps,
     ReloadKeeps, SendKeeps, AnsweredKeeps, UnauthorizedKeeps, RefreshedKeeps,
     RefreshFailsKeeps, ExpiresKeeps DEF Next, Handled, RefreshStep
<1>2. CASE UNCHANGED vars
  BY <1>2 DEF vars, server, client, bounds, SessionInv, TypeOK, OneIdentity, PageLoad,
     InFlight, SentCounts, CookieHistory, DeniedForCause, Valid
<1>3. QED  BY <1>1, <1>2

LEMMA InvAlways == Spec => []SessionInv
<1>1. QED  BY InvInit, InvNext, PTL DEF Spec

(* Type correctness: tokens, requests and the two refreshes stay in their  *)
(* domains, a request being sent at most once more than tokens are signed. *)
THEOREM TypesHold == Spec => []TypeOK
<1>1. SessionInv => TypeOK
  BY DEF SessionInv
<1>2. QED  BY <1>1, InvAlways, PTL

(* The axios client, localStorage, React and the refresh cookie are of one *)
(* account outside a page load, however their changes overlap.             *)
THEOREM IdentityIsOne == Spec => []OneIdentity
<1>1. SessionInv => OneIdentity
  BY DEF SessionInv
<1>2. QED  BY <1>1, InvAlways, PTL

(* With a good cookie and no lost response, only a request that was sent   *)
(* again with a token that expired as well is refused.                     *)
THEOREM DenialsHaveCause == Spec => []DeniedForCause
<1>1. SessionInv => DeniedForCause
  BY DEF SessionInv
<1>2. QED  BY <1>1, InvAlways, PTL

(* --------------------- Presence: who is in the room --------------------- *)

JoinState == [step : JoinStep, active : SUBSET Sockets, listed : SUBSET Sockets]

\* A member that is not listed yet has a handler that will set its entry.
Entering(k) == join[k].step \in {"room", "sockets"} \/ (At(k, "hset") /\ ready)

\* What is known of a member: its room:leave is older than its room:join, its
\* own handler does not sweep it, and it is listed, will be, or was swept.
MemberInv(k) ==
    /\ k \in leaving => At(k, "sockets")
    /\ join[k].step \in {"hset", "hgetall", "hdel"} =>
           join[k].active = {} \/ k \in join[k].active
    /\ k \notin join[k].listed
    /\ k \notin swept \cup leaving => Entering(k) \/ k \in entries[Current]

PresenceInv == PresenceTypeOK /\ \A k \in member : MemberInv(k)

LEMMA StepNames ==
    \A s \in {"idle", "find", "create", "refind", "room", "sockets", "hset", "hgetall", "hdel"} :
        s \in JoinStep
BY DEF JoinStep

\* What is known of a join that has moved, and of the others.
LEMMA JoinMoved ==
    ASSUME PresenceTypeOK, NEW k \in Sockets, NEW r \in JoinState,
           join' = [join EXCEPT ![k] = r], r.listed # {} => r.step = "hdel"
    PROVE  /\ join' \in [Sockets -> JoinState]
           /\ \A j \in Sockets : join'[j].listed # {} => join'[j].step = "hdel"
           /\ join'[k] = r /\ \A j \in Sockets \ {k} : join'[j] = join[j]
BY DEF PresenceTypeOK, JoinState

\* A join that goes on to another step, and has listed nothing.
LEMMA StepMoved ==
    ASSUME PresenceTypeOK, NEW k \in Sockets, NEW s \in JoinStep, join[k].step # "hdel"
    PROVE  LET r == [join[k] EXCEPT !.step = s]
           IN  r \in JoinState /\ r.step = s /\ r.active = join[k].active /\ r.listed = {}
<1>1. join[k] \in JoinState /\ join[k].listed = {}
  BY DEF PresenceTypeOK, JoinState
<1>2. QED  BY <1>1 DEF JoinState

LEMMA NotJoining ==
    NoJoin \in JoinState /\ NoJoin.step = "idle" /\ NoJoin.listed = {} /\ NoJoin.active = {}
BY DEF NoJoin, JoinState, JoinStep

\* Members may go, and connections; joins stay where they are.
LEMMA MembersGo ==
    ASSUME PresenceInv, member' \subseteq member, up' \subseteq Sockets, inPage' \subseteq Sockets,
           mishaps' \in 0 .. MaxMishaps, UNCHANGED <<join, leaving, entries, ready, swept>>
    PROVE  PresenceInv'
<1>1. PresenceTypeOK'
  BY DEF PresenceInv, PresenceTypeOK
<1>2. ASSUME NEW k \in member' PROVE MemberInv(k)'
  BY <1>2 DEF PresenceInv, MemberInv, Entering, Current, At
<1>3. QED  BY <1>1, <1>2 DEF PresenceInv

\* A join is about to enter the room, or has been refused.
LEMMA JoinMoves ==
    ASSUME PresenceInv, NEW k \in Sockets, NEW r \in JoinState,
           join[k].step \in {"idle", "find", "create", "refind"},
           join' = [join EXCEPT ![k] = r], r.listed = {},
           r.step \in {"idle", "find", "create", "refind", "room"},
           inPage' \subseteq Sockets,
           UNCHANGED <<up, member, leaving, entries, ready, swept, mishaps>>
    PROVE  PresenceInv'
<1>0. PresenceTypeOK
  BY DEF PresenceInv
<1>1. /\ join' \in [Sockets -> JoinState]
      /\ \A j \in Sockets : join'[j].listed # {} => join'[j].step = "hdel"
      /\ join'[k] = r /\ \A j \in Sockets \ {k} : join'[j] = join[j]
  BY <1>0, JoinMoved
<1>2. PresenceTypeOK'
  BY <1>0, <1>1 DEF PresenceTypeOK, JoinState
<1>3. ASSUME NEW j \in member' PROVE MemberInv(j)'
  <2>1. j \in Sockets /\ MemberInv(j)
    BY <1>3 DEF PresenceInv, PresenceTypeOK
  <2>2. CASE j = k
    BY <1>1, <2>1, <2>2 DEF MemberInv, Entering, Current, At
  <2>3. CASE j # k
    BY <1>1, <2>1, <2>3 DEF MemberInv, Entering, Current, At
  <2>4. QED  BY <2>2, <2>3
<1>4. QED  BY <1>2, <1>3 DEF PresenceInv

LEMMA EnterKeeps ==
    ASSUME PresenceInv, NEW k \in Sockets, Enter(k)
    PROVE  PresenceInv'
<1>0. PresenceTypeOK /\ At(k, "room")
  BY DEF PresenceInv, Enter
<1>1. PICK r \in JoinState : join' = [join EXCEPT ![k] = r] /\ r.step = "sockets" /\ r.listed = {}
  <2> DEFINE r == [join[k] EXCEPT !.step = "sockets"]
  <2>1. join[k].step # "hdel" /\ "sockets" \in JoinStep
    BY <1>0, StepNames DEF At
  <2>2. r \in JoinState /\ r.step = "sockets" /\ r.active = join[k].active /\ r.listed = {}
    BY <1>0, <2>1, StepMoved
  <2>3. join' = [join EXCEPT ![k] = r]
    BY DEF Enter
  <2> HIDE DEF r
  <2>4. QED  BY <2>2, <2>3
<1>2. /\ join' \in [Sockets -> JoinState]
      /\ \A j \in Sockets : join'[j].listed # {} => join'[j].step = "hdel"
      /\ join'[k] = r /\ \A j \in Sockets \ {k} : join'[j] = join[j]
  BY <1>0, <1>1, JoinMoved
<1>3. PresenceTypeOK'
  BY <1>0, <1>2 DEF PresenceTypeOK, JoinState, Enter
<1>4. ASSUME NEW j \in member' PROVE MemberInv(j)'
  <2>1. CASE j = k
    BY <1>1, <1>2, <2>1 DEF MemberInv, Entering, Current, At
  <2>2. CASE j # k
    <3>1. j \in Sockets /\ MemberInv(j)
      BY <1>4, <2>2 DEF PresenceInv, PresenceTypeOK, Enter
    <3>2. QED  BY <1>2, <2>2, <3>1 DEF MemberInv, Entering, Current, At, Enter
  <2>3. QED  BY <2>1, <2>2
<1>5. QED  BY <1>3, <1>4 DEF PresenceInv

\* Whatever the request for the room's sockets brings: all members, or none.
LEMMA AddKeeps ==
    ASSUME PresenceInv, NEW k \in Sockets, NEW S \in {member, {}}, AddPresence(k, S),
           mishaps' \in 0 .. MaxMishaps
    PROVE  PresenceInv'
<1>0. PresenceTypeOK /\ At(k, "sockets") /\ k \notin leaving /\ S \in SUBSET Sockets
      /\ (S = {} \/ S = member)
      /\ UNCHANGED <<up, inPage, member, leaving, ready>>
  BY DEF PresenceInv, PresenceTypeOK, AddPresence
<1>1. CASE ready
  <2> DEFINE r == [join[k] EXCEPT !.step = "hset", !.active = S]
  <2>1. r \in JoinState /\ r.step = "hset" /\ r.active = S /\ r.listed = {}
    <3>1. join[k] \in JoinState /\ join[k].listed = {} /\ "hset" \in JoinStep
      BY <1>0, StepNames DEF PresenceTypeOK, JoinState, At
    <3>2. QED  BY <1>0, <3>1 DEF JoinState
  <2>2. join' = [join EXCEPT ![k] = r] /\ UNCHANGED <<entries, swept>>
    BY <1>1, <1>0 DEF AddPresence, PresenceTypeOK
  <2> HIDE DEF r
  <2>3. /\ join' \in [Sockets -> JoinState]
        /\ \A j \in Sockets : join'[j].listed # {} => join'[j].step = "hdel"
        /\ join'[k] = r /\ \A j \in Sockets \ {k} : join'[j] = join[j]
    BY <1>0, <2>1, <2>2, JoinMoved
  <2>4. PresenceTypeOK'
    BY <1>0, <2>2, <2>3 DEF PresenceTypeOK, JoinState
  <2>5. ASSUME NEW j \in member' PROVE MemberInv(j)'
    <3>1. j \in Sockets /\ j \in member /\ MemberInv(j)
      BY <1>0, <2>5 DEF PresenceInv, PresenceTypeOK
    <3>2. CASE j = k
      BY <1>0, <1>1, <2>1, <2>2, <2>3, <3>1, <3>2 DEF MemberInv, Entering, Current, At
    <3>3. CASE j # k
      BY <1>0, <2>2, <2>3, <3>1, <3>3 DEF MemberInv, Entering, Current, At
    <3>4. QED  BY <3>2, <3>3
  <2>6. QED  BY <2>4, <2>5 DEF PresenceInv
<1>2. CASE ~ready
  <2> DEFINE held == entries["memory"] \cup {k}
             stale == IF S = {} THEN {} ELSE held \ S
  <2>1. /\ entries' = [entries EXCEPT !["memory"] = held \ stale]
        /\ swept' = (swept \ {k}) \cup ((stale \cap member) \ {k})
        /\ join' = [join EXCEPT ![k] = NoJoin]
    BY <1>2 DEF AddPresence
  <2>2. held \in SUBSET Sockets /\ stale \in SUBSET Sockets
        /\ (k \in member => k \notin stale) /\ k \in held
    BY <1>0 DEF PresenceTypeOK, Stores
  <2> HIDE DEF held, stale
  <2>3. entries'["memory"] = held \ stale /\ entries' \in [Stores -> SUBSET Sockets]
        /\ swept' \subseteq Sockets /\ entries["memory"] \subseteq held
    BY <1>0, <2>1, <2>2 DEF PresenceTypeOK, Stores, held
  <2>4. /\ join' \in [Sockets -> JoinState]
        /\ \A j \in Sockets : join'[j].listed # {} => join'[j].step = "hdel"
        /\ join'[k] = NoJoin /\ \A j \in Sockets \ {k} : join'[j] = join[j]
    BY <1>0, <2>1, JoinMoved, NotJoining
  <2>5. PresenceTypeOK'
    BY <1>0, <2>3, <2>4 DEF PresenceTypeOK, JoinState
  <2>6. ASSUME NEW j \in member' PROVE MemberInv(j)'
    <3>1. j \in Sockets /\ j \in member /\ MemberInv(j)
      BY <1>0, <2>6 DEF PresenceInv, PresenceTypeOK
    <3>2. CASE j = k
      BY <1>0, <1>2, <2>2, <2>3, <2>4, <3>1, <3>2, NotJoining
         DEF MemberInv, Entering, Current, At
    <3>3. CASE j # k
      BY <1>0, <1>2, <2>1, <2>2, <2>3, <2>4, <3>1, <3>3 DEF MemberInv, Entering, Current, At
    <3>4. QED  BY <3>2, <3>3
  <2>7. QED  BY <2>5, <2>6 DEF PresenceInv
<1>3. QED  BY <1>1, <1>2

LEMMA HsetKeeps ==
    ASSUME PresenceInv, NEW k \in Sockets, Hset(k)
    PROVE  PresenceInv'
<1>0. PresenceTypeOK /\ At(k, "hset") /\ ready /\ ready' = ready
      /\ UNCHANGED <<up, inPage, member, leaving, mishaps>>
  BY DEF PresenceInv, Hset
<1>1. PICK r \in JoinState :
          join' = [join EXCEPT ![k] = r] /\ r.step = "hgetall" /\ r.active = join[k].active
          /\ r.listed = {}
  <2> DEFINE r == [join[k] EXCEPT !.step = "hgetall"]
  <2>1. join[k].step # "hdel" /\ "hgetall" \in JoinStep
    BY <1>0, StepNames DEF At
  <2>2. r \in JoinState /\ r.step = "hgetall" /\ r.active = join[k].active /\ r.listed = {}
    BY <1>0, <2>1, StepMoved
  <2>3. join' = [join EXCEPT ![k] = r]
    BY DEF Hset
  <2> HIDE DEF r
  <2>4. QED  BY <2>2, <2>3
<1>2. /\ join' \in [Sockets -> JoinState]
      /\ \A j \in Sockets : join'[j].listed # {} => join'[j].step = "hdel"
      /\ join'[k] = r /\ \A j \in Sockets \ {k} : join'[j] = join[j]
  BY <1>0, <1>1, JoinMoved
<1>3. /\ entries' \in [Stores -> SUBSET Sockets]
      /\ entries'["redis"] = entries["redis"] \cup {k}
      /\ swept' = swept \ {k}
  BY <1>0 DEF PresenceTypeOK, Stores, Hset
<1>4. PresenceTypeOK'
  BY <1>0, <1>2, <1>3 DEF PresenceTypeOK, JoinState
<1>5. ASSUME NEW j \in member' PROVE MemberInv(j)'
  <2>1. j \in Sockets /\ j \in member /\ MemberInv(j)
    BY <1>0, <1>5 DEF PresenceInv, PresenceTypeOK
  <2>2. CASE j = k
    BY <1>0, <1>1, <1>2, <1>3, <2>1, <2>2 DEF MemberInv, Entering, Current, At
  <2>3. CASE j # k
    BY <1>0, <1>2, <1>3, <2>1, <2>3 DEF MemberInv, Entering, Current, At
  <2>4. QED  BY <2>2, <2>3
<1>6. QED  BY <1>4, <1>5 DEF PresenceInv

LEMMA HgetallKeeps ==
    ASSUME PresenceInv, NEW k \in Sockets, Hgetall(k)
    PROVE  PresenceInv'
<1> DEFINE stale == entries["redis"] \ join[k].active
<1>0. PresenceTypeOK /\ At(k, "hgetall") /\ ready
      /\ UNCHANGED <<up, inPage, member, leaving, entries, ready, swept, mishaps>>
  BY DEF PresenceInv, Hgetall
<1>1. PICK r \in JoinState :
          /\ join' = [join EXCEPT ![k] = r]
          /\ \/ r = NoJoin
             \/ r.step = "hdel" /\ r.active = join[k].active /\ r.listed = stale
                /\ r.active # {}
  <2>0. join[k] \in JoinState /\ stale \in SUBSET Sockets /\ "hdel" \in JoinStep
    BY <1>0, StepNames DEF PresenceTypeOK, JoinState, Stores
  <2>1. CASE join[k].active = {} \/ stale = {}
    BY <2>1, NotJoining DEF Hgetall
  <2>2. CASE ~(join[k].active = {} \/ stale = {})
    <3> DEFINE r == [join[k] EXCEPT !.step = "hdel", !.listed = stale]
    <3>1. r \in JoinState /\ r.step = "hdel" /\ r.active = join[k].active /\ r.listed = stale
      BY <2>0 DEF JoinState
    <3>2. join' = [join EXCEPT ![k].step = "hdel", ![k].listed = stale]
      BY <2>2 DEF Hgetall
    <3>3. join' = [join EXCEPT ![k] = r]
      BY <3>2, <1>0 DEF PresenceTypeOK
    <3> HIDE DEF r
    <3>4. QED  BY <2>2, <3>1, <3>3
  <2>3. QED  BY <2>1, <2>2
<1>2. /\ join' \in [Sockets -> JoinState]
      /\ \A j \in Sockets : join'[j].listed # {} => join'[j].step = "hdel"
      /\ join'[k] = r /\ \A j \in Sockets \ {k} : join'[j] = join[j]
  BY <1>0, <1>1, JoinMoved, NotJoining
<1>3. PresenceTypeOK'
  BY <1>0, <1>2 DEF PresenceTypeOK, JoinState
<1>4. ASSUME NEW j \in member' PROVE MemberInv(j)'
  <2>1. j \in Sockets /\ j \in member /\ MemberInv(j)
    BY <1>0, <1>4 DEF PresenceInv, PresenceTypeOK
  <2>2. CASE j = k
    BY <1>0, <1>1, <1>2, <2>1, <2>2, NotJoining DEF MemberInv, Entering, Current, At
  <2>3. CASE j # k
    BY <1>0, <1>2, <2>1, <2>3 DEF MemberInv, Entering, Current, At
  <2>4. QED  BY <2>2, <2>3
<1>5. QED  BY <1>3, <1>4 DEF PresenceInv

\* A handler ends, normally or not.
LEMMA HandlerEnds ==
    ASSUME PresenceInv, NEW k \in Sockets, Hdel(k) \/ JoinThrows(k)
    PROVE  PresenceInv'
<1>0. PresenceTypeOK /\ UNCHANGED <<up, inPage, member, leaving, ready, mishaps>>
      /\ join[k].step \in {"hset", "hgetall", "hdel"} /\ (At(k, "hset") => ~ready)
      /\ join' = [join EXCEPT ![k] = NoJoin]
  BY DEF PresenceInv, Hdel, JoinThrows, At
<1>1. /\ join' \in [Sockets -> JoinState]
      /\ \A j \in Sockets : join'[j].listed # {} => join'[j].step = "hdel"
      /\ join'[k] = NoJoin /\ \A j \in Sockets \ {k} : join'[j] = join[j]
  BY <1>0, JoinMoved, NotJoining
<1>2. /\ entries' \in [Stores -> SUBSET Sockets] /\ swept' \subseteq Sockets
      /\ swept \subseteq swept'
      /\ \A j \in member \ swept' :
            j # k /\ j \in entries[Current] => j \in entries'[Current]
      /\ k \in member /\ k \in entries[Current] => k \in entries'[Current]
  <2>1. CASE Hdel(k)
    <3>1. /\ entries' = [entries EXCEPT !["redis"] = @ \ join[k].listed] /\ ready
          /\ swept' = swept \cup ((join[k].listed \cap member) \ {k})
      BY <2>1 DEF Hdel
    <3>2. entries'["redis"] = entries["redis"] \ join[k].listed
      BY <1>0, <3>1 DEF PresenceTypeOK, Stores
    <3>3. join[k].listed \subseteq Sockets
      BY <1>0 DEF PresenceTypeOK
    <3>4. k \in member => k \notin join[k].listed
      BY DEF PresenceInv, MemberInv
    <3>5. QED  BY <1>0, <3>1, <3>2, <3>3, <3>4 DEF PresenceTypeOK, Current, Stores
  <2>2. CASE JoinThrows(k)
    BY <1>0, <2>2 DEF JoinThrows, PresenceTypeOK
  <2>3. QED  BY <2>1, <2>2
<1>3. PresenceTypeOK'
  BY <1>0, <1>1, <1>2 DEF PresenceTypeOK, JoinState
<1>4. ASSUME NEW j \in member' PROVE MemberInv(j)'
  <2>1. j \in Sockets /\ j \in member /\ MemberInv(j) /\ Current' = Current
    BY <1>0, <1>4 DEF PresenceInv, PresenceTypeOK, Current
  <2>2. CASE j = k
    BY <1>0, <1>1, <1>2, <2>1, <2>2, NotJoining DEF MemberInv, Entering, At
  <2>3. CASE j # k
    BY <1>0, <1>1, <1>2, <2>1, <2>3 DEF MemberInv, Entering, At
  <2>4. QED  BY <2>2, <2>3
<1>5. QED  BY <1>3, <1>4 DEF PresenceInv

LEMMA LeaveKeeps ==
    ASSUME PresenceInv, NEW k \in Sockets, Leave(k) \/ Removed(k)
    PROVE  PresenceInv'
<1>0. /\ PresenceTypeOK /\ UNCHANGED <<up, join, ready, swept, mishaps>>
      /\ inPage' \subseteq inPage /\ member' \subseteq member
      /\ leaving' \subseteq leaving \cup {k} /\ leaving \subseteq leaving' \cup {k}
  BY DEF PresenceInv, Leave, Removed
<1>1. /\ entries' \in [Stores -> SUBSET Sockets]
      /\ \A j \in Sockets \ {k} : j \in entries[Current] => j \in entries'[Current]
  BY <1>0 DEF PresenceTypeOK, Stores, Leave, Removed, Current
<1>2. k \in member' => At(k, "sockets")
  BY DEF Leave, Removed, PresenceInv, MemberInv
<1>3. PresenceTypeOK'
  BY <1>0, <1>1 DEF PresenceTypeOK
<1>4. ASSUME NEW j \in member' PROVE MemberInv(j)'
  <2>1. j \in Sockets /\ j \in member /\ MemberInv(j) /\ Current' = Current
    BY <1>0, <1>4 DEF PresenceInv, PresenceTypeOK, Current
  <2>2. CASE j = k
    BY <1>0, <1>2, <1>4, <2>1, <2>2 DEF MemberInv, Entering, At
  <2>3. CASE j # k
    BY <1>0, <1>1, <2>1, <2>3 DEF MemberInv, Entering, At
  <2>4. QED  BY <2>2, <2>3
<1>5. QED  BY <1>3, <1>4 DEF PresenceInv

\* Redis forgets the entries, or the process turns to its other store.
LEMMA RedisKeeps ==
    ASSUME PresenceInv, EntriesExpire \/ RedisChanges
    PROVE  PresenceInv'
<1>0. PresenceTypeOK /\ UNCHANGED <<up, inPage, member, join, leaving>>
      /\ swept \subseteq swept'
  BY DEF PresenceInv, EntriesExpire, RedisChanges
<1>1. mishaps' \in 0 .. MaxMishaps
  BY <1>0, PresenceAssumption DEF EntriesExpire, RedisChanges, Mishap, PresenceTypeOK
<1>2. /\ entries' \in [Stores -> SUBSET Sockets] /\ swept' \subseteq Sockets
      /\ ready' \in BOOLEAN
      /\ ready' # ready => \A j \in Sockets \ swept' : j \in entries'[Current']
      /\ ready' = ready => \A j \in member \ swept' :
                              j \in entries[Current] => j \in entries'[Current']
  <2>1. CASE EntriesExpire
    BY <1>0, <2>1 DEF EntriesExpire, PresenceTypeOK, Stores, Current
  <2>2. CASE RedisChanges
    <3>1. ready \in BOOLEAN /\ ready' = ~ready /\ entries' = entries
          /\ swept' = swept \cup (Sockets \ entries[IF ready THEN "memory" ELSE "redis"])
      BY <1>0, <2>2 DEF RedisChanges, PresenceTypeOK
    <3>2. Current' = IF ready THEN "memory" ELSE "redis"
      BY <3>1 DEF Current
    <3>3. QED  BY <1>0, <3>1, <3>2 DEF PresenceTypeOK
  <2>3. QED  BY <2>1, <2>2
<1>3. PresenceTypeOK'
  BY <1>0, <1>1, <1>2 DEF PresenceTypeOK
<1>4. ASSUME NEW j \in member' PROVE MemberInv(j)'
  <2>1. j \in Sockets /\ j \in member /\ MemberInv(j)
    BY <1>0, <1>4 DEF PresenceInv, PresenceTypeOK
  <2>2. CASE ready' = ready
    BY <1>0, <1>2, <2>1, <2>2 DEF MemberInv, Entering, At
  <2>3. CASE ready' # ready
    BY <1>0, <1>2, <2>1, <2>3 DEF MemberInv, Entering, At
  <2>4. QED  BY <2>2, <2>3
<1>5. QED  BY <1>3, <1>4 DEF PresenceInv

\* Every step of the room's handlers keeps what is known of members.
LEMMA PresenceKeeps ==
    ASSUME PresenceInv, PresenceStep
    PROVE  PresenceInv'
<1>0. PresenceTypeOK /\ member \in SUBSET Sockets /\ mishaps \in 0 .. MaxMishaps
  BY DEF PresenceInv, PresenceTypeOK
<1>1. ASSUME NEW k \in Sockets, ActiveSockets(k) PROVE PresenceInv'
  <2>1. CASE AddPresence(k, member) /\ UNCHANGED mishaps
    BY <1>0, <2>1, AddKeeps
  <2>2. CASE AddPresence(k, {}) /\ Mishap
    <3>1. mishaps' \in 0 .. MaxMishaps
      BY <1>0, <2>2, PresenceAssumption DEF Mishap
    <3>2. QED  BY <2>2, <3>1, AddKeeps
  <2>3. QED  BY <1>1, <2>1, <2>2 DEF ActiveSockets
<1>2. ASSUME NEW k \in Sockets, Disconnect(k) PROVE PresenceInv'
  <2>1. mishaps' \in 0 .. MaxMishaps
    BY <1>0, <1>2, PresenceAssumption DEF Disconnect, Mishap
  <2>2. up' \subseteq Sockets /\ inPage' \subseteq Sockets /\ member' \subseteq member
    BY <1>0, <1>2 DEF Disconnect, PresenceTypeOK
  <2>3. QED  BY <1>2, <2>1, <2>2, MembersGo DEF Disconnect
<1>3. QED
  BY <1>1, <1>2, EnterKeeps, HsetKeeps, HgetallKeeps, HandlerEnds, LeaveKeeps, RedisKeeps
     DEF PresenceStep, Handler

(* ---------------- Documents: the row and the cached lists --------------- *)

OpState == [kind : Kinds, step : Steps, row : Row \cup {NoRow}]
RowOf(u) == {NoRow} \cup [owner : {u}, public : BOOLEAN]

DocumentTypes ==
    /\ whose \in Assignments
    /\ row \in Row \cup {NoRow} /\ known \in BOOLEAN
    /\ op \in [ApiCalls -> OpState]
    /\ cache \in [Users -> {NoList, NoRow} \cup Row]
    /\ \A u \in Users : cache[u] \in {NoList} \cup RowOf(u)
    /\ excused \subseteq Users /\ changed \in BOOLEAN /\ ops \in 0 .. MaxOps

\* A request past its check is the owner's, and a list is of one's own.
Carries(q) ==
    /\ op[q].step \in {"save", "announce", "delete", "clear"} => op[q].row.owner = whose[q]
    /\ Is(q, "store") => op[q].row \in RowOf(whose[q])

\* While a fresh id is being made there is no row and no join, and one maker.
Unmade == row = NoRow /\ \A k \in Sockets : join[k].step \notin {"find", "create", "refind"}

Creating ==
    /\ ~known => Unmade /\ \A q \in ApiCalls : ~Is(q, "insert")
    /\ \A q \in ApiCalls : Is(q, "insert") =>
          known /\ Unmade /\ \A p \in ApiCalls : Is(p, "insert") => p = q

\* What is cached of u's list, and what has been read to be cached, is current.
UpToDate(u) ==
    /\ cache[u] \in {NoList, Listing(u)}
    /\ \A q \in ApiCalls : Is(q, "store") /\ whose[q] = u => op[q].row = Listing(u)

Lists == \A u \in Users \ excused : Pending(u) \/ UpToDate(u)

\* Who is in the room, or about to enter it, may read the row.
Access ==
    ~changed => \A k \in Sockets : k \in member \/ At(k, "room") => CanAccess(row, whose[k])

DocumentInv ==
    /\ PresenceInv /\ DocumentTypes /\ (\A q \in ApiCalls : Carries(q))
    /\ Creating /\ Lists /\ Access

LEMMA DocumentConstants ==
    /\ MaxOps \in Nat /\ Nobody \notin Users /\ MaxMishaps \in Nat
    /\ \A f \in Assignments : /\ \A k \in Sockets : f[k] \in Users
                              /\ \A q \in ApiCalls : f[q] \in Users
BY DocumentsAssumption, PresenceAssumption

LEMMA RowFacts ==
    /\ NoRow \notin Row /\ NoList # NoRow /\ NoRow.owner \notin Users
    /\ \A r \in Row : r.owner \in Users /\ r # NoList
    /\ \A u \in Users, b \in BOOLEAN : /\ [owner |-> u, public |-> b] \in Row
                                       /\ [owner |-> u, public |-> b].owner = u
    /\ \A u \in Users, r \in Row : r.owner = u => r \in RowOf(u)
    /\ \A u \in Users : RowOf(u) \subseteq Row \cup {NoRow}
<1>1. NoRow.owner \notin Users /\ NoList # NoRow
  BY DocumentConstants DEF NoRow, NoList
<1>2. \A r \in Row : r.owner \in Users
  BY DEF Row
<1>3. NoList.owner \notin Users
  BY DocumentConstants DEF NoList
<1>4. \A u \in Users, b \in BOOLEAN : /\ [owner |-> u, public |-> b] \in Row
                                      /\ [owner |-> u, public |-> b].owner = u
  BY DEF Row
<1>5. \A u \in Users, r \in Row : r.owner = u => r \in RowOf(u)
  BY DEF Row, RowOf
<1>6. \A u \in Users : RowOf(u) \subseteq Row \cup {NoRow}
  BY DEF Row, RowOf
<1>7. QED  BY <1>1, <1>2, <1>3, <1>4, <1>5, <1>6

LEMMA ListingIsOwn ==
    ASSUME DocumentTypes, NEW u \in Users
    PROVE  Listing(u) \in RowOf(u) /\ Listing(u) # NoList
<1>1. CASE row.owner = u
  <2>1. row \in Row /\ Listing(u) = row
    BY <1>1, RowFacts DEF DocumentTypes, Listing
  <2>2. QED  BY <1>1, <2>1, RowFacts
<1>2. CASE row.owner # u
  BY <1>2, RowFacts DEF Listing, RowOf
<1>3. QED  BY <1>1, <1>2

LEMMA OpMoved ==
    ASSUME op \in [ApiCalls -> OpState], NEW q \in ApiCalls, NEW r \in OpState,
           op' = [op EXCEPT ![q] = r]
    PROVE  /\ op' \in [ApiCalls -> OpState]
           /\ op'[q] = r /\ \A p \in ApiCalls \ {q} : op'[p] = op[p]
OBVIOUS

LEMMA IdleOp == NoOp \in OpState /\ NoOp.step = "idle"
BY DEF NoOp, OpState, Kinds, Steps

\* No excuse is due: u has no list, and none is on its way.
LEMMA NothingStale ==
    ASSUME NEW u \in Users, u \notin Stale(u)
    PROVE  cache[u] = NoList /\ \A q \in ApiCalls : Is(q, "store") => whose[q] # u
BY DEF Stale, Storing

LEMMA StaleUsers == \A u : Stale(u) \subseteq Users
BY DEF Stale

\* A step of request q that leaves the row alone.  Of every user without an
\* excuse: if q was to drop the list it still is, or there is none; and what q
\* stores is what it has read.
LEMMA RequestMoves ==
    ASSUME DocumentInv, PresenceInv', NEW q \in ApiCalls, NEW r \in OpState,
           op' = [op EXCEPT ![q] = r], r.step # "insert",
           UNCHANGED <<whose, row, known, changed, join>>,
           member' \subseteq member, ops' \in 0 .. MaxOps,
           r.step \in {"save", "announce", "delete", "clear"} => r.row.owner = whose[q],
           r.step = "store" => r.row = Listing(whose[q]),
           cache' \in [Users -> {NoList, NoRow} \cup Row],
           excused' \subseteq Users,
           \A u \in Users :
              \/ cache'[u] \in {cache[u], NoList}
              \/ Is(q, "store") /\ whose[q] = u /\ cache'[u] = op[q].row,
           \A u \in Users \ excused' :
              \/ /\ u \notin excused
                 /\ op[q].step \in {"announce", "clear"} /\ op[q].row.owner = u =>
                       r.step \in {"announce", "clear"} /\ r.row.owner = u
              \/ /\ cache'[u] = NoList
                 /\ \A p \in ApiCalls : Is(p, "store") => p = q \/ whose[p] # u
    PROVE  DocumentInv'
<1> USE DEF DocumentInv
<1>0. /\ op \in [ApiCalls -> OpState] /\ whose[q] \in Users
      /\ op' \in [ApiCalls -> OpState]
      /\ op'[q] = r /\ \A p \in ApiCalls \ {q} : op'[p] = op[p]
  BY OpMoved, DocumentConstants DEF DocumentTypes
<1>1. DocumentTypes'
  <2>1. ASSUME NEW u \in Users PROVE cache'[u] \in {NoList} \cup RowOf(u)
    <3>1. cache[u] \in {NoList} \cup RowOf(u) /\ (Is(q, "store") => op[q].row \in RowOf(whose[q]))
      BY DEF DocumentTypes, Carries
    <3>2. QED  BY <3>1
  <2>2. QED  BY <1>0, <2>1 DEF DocumentTypes
<1>2. ASSUME NEW p \in ApiCalls PROVE Carries(p)'
  <2>1. CASE p = q
    BY <1>0, <2>1, ListingIsOwn DEF Carries, Is
  <2>2. CASE p # q
    BY <1>0, <2>2 DEF Carries, Is
  <2>3. QED  BY <2>1, <2>2
<1>3. Creating'
  BY <1>0 DEF Creating, Unmade, Is
<1>4. Access'
  BY DEF Access, At, CanAccess
<1>5. ASSUME NEW u \in Users, u \notin excused' PROVE Pending(u)' \/ UpToDate(u)'
  <2>0. Listing(u)' = Listing(u) /\ (whose[q] = u => (r.step = "store" => r.row = Listing(u)))
    BY DEF Listing
  <2>1. CASE /\ cache'[u] = NoList
             /\ \A p \in ApiCalls : Is(p, "store") => p = q \/ whose[p] # u
    BY <1>0, <2>0, <2>1 DEF UpToDate, Is
  <2>2. CASE /\ u \notin excused
             /\ op[q].step \in {"announce", "clear"} /\ op[q].row.owner = u =>
                   r.step \in {"announce", "clear"} /\ r.row.owner = u
    <3>1. CASE Pending(u)
      <4>1. PICK p \in ApiCalls : op[p].step \in {"announce", "clear"} /\ op[p].row.owner = u
        BY <3>1 DEF Pending
      <4>2. op'[p].step \in {"announce", "clear"} /\ op'[p].row.owner = u
        BY <1>0, <2>2, <4>1
      <4>3. QED  BY <4>2 DEF Pending
    <3>2. CASE UpToDate(u)
      <4>1. cache'[u] \in {NoList, Listing(u)}
        BY <3>2 DEF UpToDate
      <4>2. \A p \in ApiCalls : Is(p, "store")' /\ whose[p] = u => op'[p].row = Listing(u)
        BY <1>0, <2>0, <3>2 DEF UpToDate, Is
      <4>3. QED  BY <2>0, <4>1, <4>2 DEF UpToDate
    <3>3. QED  BY <1>5, <2>2, <3>1, <3>2 DEF Lists
  <2>3. QED  BY <1>5, <2>1, <2>2
<1>6. QED  BY <1>1, <1>2, <1>3, <1>4, <1>5 DEF Lists

\* Nothing of the room changes in most of a request's steps.
LEMMA RoomStays ==
    ASSUME PresenceInv, UNCHANGED presenceVars
    PROVE  PresenceInv' /\ UNCHANGED <<join, member>>
<1>1. UNCHANGED <<up, inPage, member, join, leaving, entries, ready, swept, mishaps>>
  BY DEF presenceVars
<1>2. QED
  BY <1>1 DEF PresenceInv, PresenceTypeOK, MemberInv, Entering, Current, At

LEMMA StepRecord ==
    ASSUME NEW o \in OpState, NEW s \in Steps
    PROVE  LET r == [o EXCEPT !.step = s]
           IN  r \in OpState /\ r.step = s /\ r.row = o.row /\ r.kind = o.kind
BY DEF OpState

LEMMA RowRecord ==
    ASSUME NEW o \in OpState, NEW s \in Steps, NEW w \in Row \cup {NoRow}
    PROVE  LET r == [o EXCEPT !.step = s, !.row = w]
           IN  r \in OpState /\ r.step = s /\ r.row = w /\ r.kind = o.kind
BY DEF OpState

LEMMA OpStepNames ==
    \A s \in {"idle", "get", "find", "store", "insert", "save", "announce", "delete", "clear"} :
        s \in Steps
BY DEF Steps

\* listDocuments, from the cached list to the one that is stored.
LEMMA ListKeeps ==
    ASSUME DocumentInv, NEW q \in ApiCalls, GetList(q) \/ FindList(q) \/ StoreList(q)
    PROVE  DocumentInv'
<1>0. /\ DocumentTypes /\ op[q] \in OpState /\ op \in [ApiCalls -> OpState] /\ whose[q] \in Users
      /\ PresenceInv' /\ UNCHANGED <<join, member>>
      /\ UNCHANGED <<whose, row, known, excused, changed, ops>>
      /\ op[q].step \notin {"announce", "clear"}
  BY RoomStays, DocumentConstants
     DEF DocumentInv, DocumentTypes, GetList, FindList, StoreList, Is
<1>1. cache \in [Users -> {NoList, NoRow} \cup Row] /\ excused \subseteq Users
      /\ ops \in 0 .. MaxOps
  BY <1>0 DEF DocumentTypes
<1>2. CASE GetList(q)
  <2>1. PICK r \in OpState : op' = [op EXCEPT ![q] = r] /\ r.step \in {"idle", "find"}
    <3>1. CASE Ends(q)
      BY <3>1, IdleOp DEF Ends
    <3>2. CASE Go(q, "find")
      <4> DEFINE r == [op[q] EXCEPT !.step = "find"]
      <4>1. r \in OpState /\ r.step = "find"
        BY <1>0, StepRecord, OpStepNames
      <4>2. op' = [op EXCEPT ![q] = r]
        BY <3>2 DEF Go
      <4> HIDE DEF r
      <4>3. QED  BY <4>1, <4>2
    <3>3. QED  BY <1>2, <3>1, <3>2 DEF GetList
  <2>2. cache' = cache
    BY <1>2 DEF GetList
  <2>3. QED  BY <1>0, <1>1, <2>1, <2>2, RequestMoves
<1>3. CASE FindList(q)
  <2> DEFINE r == [op[q] EXCEPT !.step = "store", !.row = Listing(whose[q])]
  <2>0. Listing(whose[q]) \in Row \cup {NoRow}
    BY <1>0, ListingIsOwn, RowFacts
  <2>1. r \in OpState /\ r.step = "store" /\ r.row = Listing(whose[q])
    <3>1. "store" \in Steps
      BY OpStepNames
    <3>2. QED  BY <1>0, <2>0, <3>1 DEF OpState
  <2>2. op' = [op EXCEPT ![q] = r] /\ cache' = cache
    BY <1>0, <1>3 DEF FindList
  <2> HIDE DEF r
  <2>3. QED  BY <1>0, <1>1, <2>1, <2>2, RequestMoves
<1>4. CASE StoreList(q)
  <2>1. op' = [op EXCEPT ![q] = NoOp] /\ Is(q, "store")
    BY <1>4 DEF StoreList, Ends
  <2>2. op[q].row \in {NoRow} \cup Row
    BY <1>0 DEF OpState
  <2>3. /\ cache' \in [Users -> {NoList, NoRow} \cup Row]
        /\ \A u \in Users : \/ cache'[u] \in {cache[u], NoList}
                            \/ Is(q, "store") /\ whose[q] = u /\ cache'[u] = op[q].row
    BY <1>0, <1>1, <1>4, <2>1, <2>2 DEF StoreList
  <2>4. QED  BY <1>0, <1>1, <2>1, <2>3, IdleOp, RequestMoves
<1>5. QED  BY <1>2, <1>3, <1>4

\* updateDocument and deleteDocument refuse whoever is not the owner.
LEMMA FindKeeps ==
    ASSUME DocumentInv, NEW q \in ApiCalls, FindOwn(q)
    PROVE  DocumentInv'
<1>0. /\ DocumentTypes /\ op[q] \in OpState /\ op \in [ApiCalls -> OpState] /\ whose[q] \in Users
      /\ PresenceInv' /\ UNCHANGED <<join, member>>
      /\ UNCHANGED <<whose, row, known, cache, excused, changed, ops>>
      /\ op[q].step \notin {"announce", "clear"} /\ row \in Row \cup {NoRow}
  BY RoomStays, DocumentConstants DEF DocumentInv, DocumentTypes, FindOwn, Is
<1>1. cache \in [Users -> {NoList, NoRow} \cup Row] /\ excused \subseteq Users
      /\ ops \in 0 .. MaxOps
  BY <1>0 DEF DocumentTypes
<1>2. CASE row.owner = whose[q]
  <2> DEFINE s == IF op[q].kind = "delete" THEN "delete" ELSE "save"
             r == [op[q] EXCEPT !.row = row, !.step = s]
  <2>1. s \in Steps /\ s \in {"delete", "save"}
    BY OpStepNames
  <2>2. op' = [op EXCEPT ![q] = r]
    BY <1>0, <1>2 DEF FindOwn
  <2> HIDE DEF s
  <2>3. r \in OpState /\ r.step = s /\ r.row = row
    BY <1>0, <2>1 DEF OpState
  <2> HIDE DEF r
  <2>4. QED  BY <1>0, <1>1, <1>2, <2>1, <2>2, <2>3, RequestMoves
<1>3. CASE row.owner # whose[q]
  <2>1. op' = [op EXCEPT ![q] = NoOp]
    BY <1>3 DEF FindOwn, Ends
  <2>2. QED  BY <1>0, <1>1, <2>1, IdleOp, RequestMoves
<1>4. QED  BY <1>2, <1>3

\* The kick and the invalidation: the list is dropped, or an excuse is due.
LEMMA ClearingKeeps ==
    ASSUME DocumentInv, NEW q \in ApiCalls, Announce(q) \/ Clear(q)
    PROVE  DocumentInv'
<1> DEFINE o == op[q].row.owner
<1>0. /\ DocumentTypes /\ op[q] \in OpState /\ op \in [ApiCalls -> OpState]
      /\ whose[q] \in Users /\ o = whose[q]
      /\ UNCHANGED <<whose, row, known, changed, ops, join>>
      /\ cache \in [Users -> {NoList, NoRow} \cup Row] /\ excused \subseteq Users
      /\ ops \in 0 .. MaxOps /\ member' \subseteq member
      /\ op[q].step \in {"announce", "clear"}
  <2>1. whose[q] \in Users /\ op[q] \in OpState
    BY DocumentConstants DEF DocumentInv, DocumentTypes
  <2>2. op[q].step \in {"announce", "clear"}
    BY DEF Announce, Clear, Is
  <2>3. o = whose[q]
    BY <2>2 DEF DocumentInv, Carries
  <2>4. QED
    BY <2>1, <2>2, <2>3 DEF DocumentInv, DocumentTypes, Announce, Clear, presenceVars
<1>1. PresenceInv'
  <2>1. CASE Announce(q)
    <3>1. /\ UNCHANGED <<up, inPage, join, leaving, entries, ready, swept, mishaps>>
          /\ up \subseteq Sockets /\ inPage \subseteq Sockets /\ mishaps \in 0 .. MaxMishaps
      BY <2>1 DEF Announce, DocumentInv, PresenceInv, PresenceTypeOK
    <3>2. QED  BY <1>0, <3>1, MembersGo DEF DocumentInv
  <2>2. CASE Clear(q)
    BY <2>2, RoomStays DEF Clear, DocumentInv
  <2>3. QED  BY <2>1, <2>2
<1> HIDE DEF o
<1>2. CASE Announce(q) /\ Go(q, "clear") /\ excused' = excused
  <2> DEFINE r == [op[q] EXCEPT !.step = "clear"]
  <2>1. r \in OpState /\ r.step = "clear" /\ r.row = op[q].row
    BY <1>0, StepRecord, OpStepNames
  <2>2. op' = [op EXCEPT ![q] = r] /\ cache' = cache
    BY <1>2 DEF Go, Announce
  <2> HIDE DEF r
  <2>3. \A u \in Users \ excused' :
            \/ /\ u \notin excused
               /\ op[q].step \in {"announce", "clear"} /\ op[q].row.owner = u =>
                     r.step \in {"announce", "clear"} /\ r.row.owner = u
            \/ /\ cache'[u] = NoList
               /\ \A p \in ApiCalls : Is(p, "store") => p = q \/ whose[p] # u
    BY <1>2, <2>1
  <2>4. \A u \in Users : cache'[u] \in {cache[u], NoList}
    BY <2>2
  <2>5. r.row.owner = whose[q] /\ cache' \in [Users -> {NoList, NoRow} \cup Row]
        /\ excused' \subseteq Users /\ ops' \in 0 .. MaxOps
    BY <1>0, <1>2, <2>1, <2>2 DEF o
  <2>6. r.step # "insert" /\ r.step # "store"
    BY <2>1
  <2>7. QED  BY <1>0, <1>1, <2>1, <2>2, <2>3, <2>4, <2>5, <2>6, RequestMoves
<1>3. CASE Ends(q) /\ cache' = cache /\ excused' = excused \cup Stale(o)
  <2>1. op' = [op EXCEPT ![q] = NoOp] /\ excused' \subseteq Users
    BY <1>0, <1>3, StaleUsers DEF Ends
  <2>2. \A u \in Users \ excused' :
            u \notin excused /\ (u = o => cache'[u] = NoList
                                  /\ \A p \in ApiCalls : Is(p, "store") => whose[p] # u)
    BY <1>3, NothingStale
  <2>3. \A u \in Users \ excused' :
            \/ /\ u \notin excused
               /\ op[q].step \in {"announce", "clear"} /\ op[q].row.owner = u =>
                     NoOp.step \in {"announce", "clear"} /\ NoOp.row.owner = u
            \/ /\ cache'[u] = NoList
               /\ \A p \in ApiCalls : Is(p, "store") => p = q \/ whose[p] # u
    BY <2>2 DEF o
  <2>4. /\ \A u \in Users : cache'[u] \in {cache[u], NoList}
        /\ cache' \in [Users -> {NoList, NoRow} \cup Row] /\ ops' \in 0 .. MaxOps
    BY <1>0, <1>3
  <2>5. QED  BY <1>0, <1>1, <2>1, <2>3, <2>4, IdleOp, RequestMoves
<1>4. CASE /\ Ends(q) /\ cache' = [cache EXCEPT ![o] = NoList]
           /\ excused' = IF Storing(o) THEN excused \cup {o} ELSE excused \ {o}
  <2>1. /\ op' = [op EXCEPT ![q] = NoOp] /\ excused' \subseteq Users
        /\ cache' \in [Users -> {NoList, NoRow} \cup Row]
        /\ \A u \in Users : cache'[u] \in {cache[u], NoList}
    BY <1>0, <1>4 DEF Ends
  <2>2. \A u \in Users \ excused' :
            /\ u # o => u \notin excused
            /\ u = o => /\ cache'[u] = NoList
                        /\ \A p \in ApiCalls : Is(p, "store") => whose[p] # u
    BY <1>0, <1>4 DEF Storing
  <2>3. \A u \in Users \ excused' :
            \/ /\ u \notin excused
               /\ op[q].step \in {"announce", "clear"} /\ op[q].row.owner = u =>
                     NoOp.step \in {"announce", "clear"} /\ NoOp.row.owner = u
            \/ /\ cache'[u] = NoList
               /\ \A p \in ApiCalls : Is(p, "store") => p = q \/ whose[p] # u
    BY <2>2 DEF o
  <2>4. ops' \in 0 .. MaxOps
    BY <1>0
  <2>5. QED  BY <1>0, <1>1, <2>1, <2>3, <2>4, IdleOp, RequestMoves
<1>5. QED
  BY <1>2, <1>3, <1>4 DEF Announce, Clearing, Clear, o

\* An operation throws: the request ends, and what it was to drop is excused.
LEMMA ThrowKeeps ==
    ASSUME DocumentInv, NEW q \in ApiCalls, Throws(q)
    PROVE  DocumentInv'
<1> DEFINE o == op[q].row.owner
<1>0. /\ op \in [ApiCalls -> OpState] /\ ops' \in 0 .. MaxOps
      /\ UNCHANGED <<whose, row, known, cache, changed, join, member>>
      /\ cache \in [Users -> {NoList, NoRow} \cup Row] /\ excused \subseteq Users
      /\ op' = [op EXCEPT ![q] = NoOp]
  BY DEF DocumentInv, DocumentTypes, Throws, Ends
<1>1. PresenceInv'
  <2>1. mishaps' \in 0 .. MaxMishaps
    BY PresenceAssumption DEF Throws, Mishap, DocumentInv, PresenceInv, PresenceTypeOK
  <2>2. /\ UNCHANGED <<up, inPage, join, leaving, entries, ready, swept>>
        /\ up \subseteq Sockets /\ inPage \subseteq Sockets
    BY DEF Throws, DocumentInv, PresenceInv, PresenceTypeOK
  <2>3. QED  BY <1>0, <2>1, <2>2, MembersGo DEF DocumentInv
<1>2. excused' = IF op[q].step \in {"announce", "clear"} THEN excused \cup Stale(o) ELSE excused
  BY DEF Throws
<1> HIDE DEF o
<1>3. excused' \subseteq Users
  BY <1>0, <1>2, StaleUsers
<1>4. \A u \in Users \ excused' :
          \/ /\ u \notin excused
             /\ op[q].step \in {"announce", "clear"} /\ op[q].row.owner = u =>
                   NoOp.step \in {"announce", "clear"} /\ NoOp.row.owner = u
          \/ /\ cache'[u] = NoList
             /\ \A p \in ApiCalls : Is(p, "store") => p = q \/ whose[p] # u
  BY <1>0, <1>2, NothingStale DEF o
<1>5. \A u \in Users : cache'[u] \in {cache[u], NoList}
  BY <1>0
<1>6. cache' \in [Users -> {NoList, NoRow} \cup Row] /\ member' \subseteq member
  BY <1>0
<1>7. QED  BY <1>0, <1>1, <1>3, <1>4, <1>5, <1>6, IdleOp, RequestMoves

\* A request changes the row, and will drop its owner's list.
LEMMA RowMoves ==
    ASSUME DocumentInv, NEW q \in ApiCalls, NEW r \in OpState, UNCHANGED presenceVars,
           op' = [op EXCEPT ![q] = r], r.step \in {"announce", "clear"},
           r.row.owner = whose[q], row' \in Row \cup {NoRow},
           UNCHANGED <<whose, known, cache, ops>>, excused' \subseteq Users,
           row' = NoRow \/ (known /\ \A p \in ApiCalls : Is(p, "insert") => p = q),
           changed' = TRUE \/ (row = NoRow /\ changed' = changed),
           \A u \in Users \ excused' :
              /\ u \notin excused
              /\ \/ u = whose[q] \/ Listing(u)' = Listing(u)
                 \/ /\ cache[u] = NoList
                    /\ \A p \in ApiCalls : Is(p, "store") => whose[p] # u
    PROVE  DocumentInv'
<1> USE DEF DocumentInv
<1>0. /\ op \in [ApiCalls -> OpState] /\ whose[q] \in Users
      /\ op' \in [ApiCalls -> OpState]
      /\ op'[q] = r /\ \A p \in ApiCalls \ {q} : op'[p] = op[p]
      /\ PresenceInv' /\ UNCHANGED <<join, member>>
  BY OpMoved, DocumentConstants, RoomStays DEF DocumentTypes
<1>1. DocumentTypes'
  BY <1>0 DEF DocumentTypes
<1>2. ASSUME NEW p \in ApiCalls PROVE Carries(p)'
  BY <1>0 DEF Carries, Is
<1>3. Creating'
  BY <1>0 DEF Creating, Unmade, Is
<1>4. Access'
  <2>1. CASE changed' = TRUE
    BY <2>1 DEF Access
  <2>2. CASE row = NoRow /\ changed' = changed
    BY <1>0, <2>2 DEF Access, CanAccess, At
  <2>3. QED  BY <2>1, <2>2
<1>5. ASSUME NEW u \in Users, u \notin excused' PROVE Pending(u)' \/ UpToDate(u)'
  <2>1. CASE u = whose[q]
    BY <1>0, <2>1 DEF Pending
  <2>2. CASE Listing(u)' = Listing(u) /\ Pending(u) /\ u # whose[q]
    <3>1. PICK p \in ApiCalls : op[p].step \in {"announce", "clear"} /\ op[p].row.owner = u
      BY <2>2 DEF Pending
    <3>2. op'[p].step \in {"announce", "clear"} /\ op'[p].row.owner = u
      BY <1>0, <2>2, <3>1 DEF Carries
    <3>3. QED  BY <3>2 DEF Pending
  <2>3. CASE Listing(u)' = Listing(u) /\ UpToDate(u)
    BY <1>0, <2>3 DEF UpToDate, Is
  <2>4. CASE /\ cache[u] = NoList
             /\ \A p \in ApiCalls : Is(p, "store") => whose[p] # u
    BY <1>0, <2>4 DEF UpToDate, Is
  <2>5. u \notin excused /\ (Pending(u) \/ UpToDate(u))
    BY <1>5 DEF Lists
  <2>6. QED  BY <1>5, <2>1, <2>2, <2>3, <2>4, <2>5
<1>6. QED  BY <1>0, <1>1, <1>2, <1>3, <1>4, <1>5 DEF Lists

\* Whoever owns the row neither before nor after has the list he had.
LEMMA OthersLists ==
    ASSUME NEW u, row.owner # u, row'.owner # u
    PROVE  Listing(u)' = Listing(u)
BY DEF Listing

\* createDocument.
LEMMA InsertKeeps ==
    ASSUME DocumentInv, NEW q \in ApiCalls, Insert(q)
    PROVE  DocumentInv'
<1>0. /\ op \in [ApiCalls -> OpState] /\ op[q] \in OpState /\ whose[q] \in Users
      /\ known /\ row = NoRow /\ (\A p \in ApiCalls : Is(p, "insert") => p = q)
      /\ excused \subseteq Users
  BY DocumentConstants DEF DocumentInv, DocumentTypes, Creating, Unmade, Insert
<1> DEFINE w == [owner |-> whose[q], public |-> TRUE]
           r == [op[q] EXCEPT !.step = "clear", !.row = w]
<1>1. w \in Row /\ w.owner = whose[q]
  BY <1>0 DEF Row
<1>2. row' = w /\ op' = [op EXCEPT ![q].step = "clear", ![q].row = w]
      /\ UNCHANGED <<presenceVars, whose, known, cache, excused, changed, ops>>
  BY DEF Insert
<1> HIDE DEF w
<1>3. op' = [op EXCEPT ![q] = r]
  BY <1>0, <1>2
<1>4. "clear" \in Steps
  BY OpStepNames
<1>5. r \in OpState /\ r.step = "clear" /\ r.row = w
  BY <1>0, <1>1, <1>4 DEF OpState
<1> HIDE DEF r
<1>6. \A u \in Users \ excused' :
          u \notin excused /\ (u = whose[q] \/ Listing(u)' = Listing(u))
  BY <1>0, <1>1, <1>2, RowFacts, OthersLists
<1>7. QED  BY <1>0, <1>1, <1>2, <1>3, <1>5, <1>6, RowMoves

\* deleteDocument.
LEMMA DeleteKeeps ==
    ASSUME DocumentInv, NEW q \in ApiCalls, Delete(q)
    PROVE  DocumentInv'
<1>0. /\ op \in [ApiCalls -> OpState] /\ op[q] \in OpState /\ excused \subseteq Users
      /\ op[q].row.owner = whose[q]
      /\ UNCHANGED <<presenceVars, whose, known, cache, ops>>
      /\ row' = NoRow /\ changed' = TRUE
      /\ excused' = IF row.owner = op[q].row.owner THEN excused
                    ELSE excused \cup Stale(row.owner)
      /\ op' = [op EXCEPT ![q].step = "clear"]
  BY DEF DocumentInv, DocumentTypes, Carries, Delete, Is, Go
<1> DEFINE r == [op[q] EXCEPT !.step = "clear"]
<1>1. "clear" \in Steps
  BY OpStepNames
<1>2. r \in OpState /\ r.step = "clear" /\ r.row = op[q].row
  BY <1>0, <1>1, StepRecord
<1>3. op' = [op EXCEPT ![q] = r]
  BY <1>0
<1> HIDE DEF r
<1>4. excused' \subseteq Users
  BY <1>0, StaleUsers
<1>5. ASSUME NEW u \in Users, u \notin excused'
      PROVE  /\ u \notin excused
             /\ \/ u = whose[q] \/ Listing(u)' = Listing(u)
                \/ /\ cache[u] = NoList
                   /\ \A p \in ApiCalls : Is(p, "store") => whose[p] # u
  <2>1. CASE row.owner = u /\ u # whose[q]
    BY <1>0, <1>5, <2>1, NothingStale
  <2>2. CASE row.owner # u
    BY <1>0, <1>5, <2>2, RowFacts, OthersLists
  <2>3. QED  BY <1>0, <1>5, <2>1, <2>2
<1>6. row' \in Row \cup {NoRow} /\ r.row.owner = whose[q]
  BY <1>0, <1>2
<1>7. QED  BY <1>0, <1>2, <1>3, <1>4, <1>5, <1>6, RowMoves

\* updateDocument.
LEMMA SaveKeeps ==
    ASSUME DocumentInv, NEW q \in ApiCalls, Save(q)
    PROVE  DocumentInv'
<1>0. /\ op \in [ApiCalls -> OpState] /\ op[q] \in OpState /\ excused \subseteq Users
      /\ op[q].row.owner = whose[q] /\ whose[q] \in Users /\ op[q].step = "save"
      /\ row \in Row \cup {NoRow} /\ ops \in 0 .. MaxOps
      /\ cache \in [Users -> {NoList, NoRow} \cup Row]
      /\ UNCHANGED <<presenceVars, whose, known, cache, ops>>
  BY DocumentConstants DEF DocumentInv, DocumentTypes, Carries, Save, Is
<1>1. PresenceInv' /\ UNCHANGED <<join, member>>
  BY <1>0, RoomStays DEF DocumentInv
<1> DEFINE r == [op[q] EXCEPT !.step = "announce"]
<1>2. r \in OpState /\ r.step = "announce" /\ r.row = op[q].row
  <2>1. "announce" \in Steps
    BY OpStepNames
  <2>2. QED  BY <1>0, <2>1, StepRecord
<1>3. Go(q, "announce") => op' = [op EXCEPT ![q] = r]
  BY DEF Go
<1> HIDE DEF r
<1>4. ASSUME UNCHANGED <<row, excused, changed>>,
             NEW s \in OpState, op' = [op EXCEPT ![q] = s], s.step \in {"idle", "announce"},
             s.step = "announce" => s.row.owner = whose[q]
      PROVE  DocumentInv'
  <2>1. \A u \in Users : cache'[u] \in {cache[u], NoList}
    BY <1>0
  <2>2. s.step # "insert" /\ s.step # "store"
    BY <1>4
  <2>3. \A u \in Users \ excused' :
            u \notin excused /\ op[q].step \notin {"announce", "clear"}
    BY <1>0, <1>4
  <2>4. cache' \in [Users -> {NoList, NoRow} \cup Row] /\ excused' \subseteq Users
        /\ ops' \in 0 .. MaxOps /\ member' \subseteq member
    BY <1>0, <1>1, <1>4
  <2>5. QED  BY <1>0, <1>1, <1>4, <2>1, <2>2, <2>3, <2>4, RequestMoves
<1>5. CASE row = NoRow
  <2>1. op' = [op EXCEPT ![q] = NoOp] /\ UNCHANGED <<row, excused, changed>>
    BY <1>5 DEF Save, Ends
  <2>2. QED  BY <1>4, <2>1, IdleOp
<1>6. CASE row # NoRow /\ Wanted(q) = op[q].row.public
  <2>1. Go(q, "announce") /\ UNCHANGED <<row, excused, changed>>
    BY <1>6 DEF Save
  <2>2. QED  BY <1>0, <1>2, <1>3, <1>4, <2>1
<1>7. CASE row # NoRow /\ Wanted(q) # op[q].row.public
  <2>1. /\ op' = [op EXCEPT ![q] = r] /\ changed' = TRUE
        /\ row' = [row EXCEPT !.public = Wanted(q)]
        /\ excused' = IF row.owner = whose[q] THEN excused ELSE excused \cup Stale(row.owner)
    BY <1>3, <1>7 DEF Save
  <2>2. row \in Row /\ Wanted(q) \in BOOLEAN
    BY <1>0, <1>7 DEF Wanted
  <2>3. row' \in Row /\ row'.owner = row.owner
    BY <2>1, <2>2 DEF Row
  <2>4. known /\ \A p \in ApiCalls : ~Is(p, "insert")
    BY <1>7 DEF DocumentInv, Creating, Unmade
  <2>5. excused' \subseteq Users
    BY <1>0, <2>1, StaleUsers
  <2>6. ASSUME NEW u \in Users, u \notin excused'
        PROVE  /\ u \notin excused
               /\ \/ u = whose[q] \/ Listing(u)' = Listing(u)
                  \/ /\ cache[u] = NoList
                     /\ \A p \in ApiCalls : Is(p, "store") => whose[p] # u
    <3>1. CASE row.owner = u /\ u # whose[q]
      BY <2>1, <2>6, <3>1, NothingStale
    <3>2. CASE row.owner # u
      BY <2>1, <2>3, <2>6, <3>2, OthersLists
    <3>3. QED  BY <2>1, <2>6, <3>1, <3>2
  <2>7. row' \in Row \cup {NoRow} /\ r.row.owner = whose[q] /\ r.step \in {"announce", "clear"}
    BY <1>0, <1>2, <2>3
  <2>8. QED  BY <1>0, <1>2, <2>1, <2>4, <2>5, <2>6, <2>7, RowMoves
<1>8. QED  BY <1>5, <1>6, <1>7

\* A request arrives; the one that makes a document is the first to use its id.
LEMMA AskKeeps ==
    ASSUME DocumentInv, NEW q \in ApiCalls, NEW kind \in Kinds, Ask(q, kind)
    PROVE  DocumentInv'
<1> USE DEF DocumentInv
<1> DEFINE s == IF kind = "create" THEN "insert"
                ELSE IF kind = "list" /\ ready THEN "get" ELSE "find"
           r == [kind |-> kind, row |-> NoRow, step |-> s]
<1>0. /\ Is(q, "idle") /\ (kind = "create" => ~known) /\ ops' = ops + 1 /\ ops < MaxOps
      /\ known' = (known \/ kind = "create") /\ op' = [op EXCEPT ![q] = r]
      /\ UNCHANGED <<presenceVars, whose, row, cache, excused, changed>>
  BY DEF Ask, OneMore
<1>1. s \in Steps /\ s \in {"insert", "get", "find"} /\ (s = "insert" <=> kind = "create")
  BY OpStepNames
<1> HIDE DEF s
<1>2. r \in OpState /\ r.step = s
  BY <1>1 DEF OpState
<1> HIDE DEF r
<1>3. /\ op' \in [ApiCalls -> OpState]
      /\ op'[q] = r /\ \A p \in ApiCalls \ {q} : op'[p] = op[p]
      /\ PresenceInv' /\ UNCHANGED <<join, member>>
  BY <1>0, <1>2, OpMoved, RoomStays DEF DocumentTypes
<1>4. DocumentTypes'
  <2>1. ops' \in 0 .. MaxOps
    BY <1>0, DocumentConstants DEF DocumentTypes
  <2>2. known' \in BOOLEAN
    BY <1>0
  <2>3. QED  BY <1>0, <1>3, <2>1, <2>2 DEF DocumentTypes
<1>5. ASSUME NEW p \in ApiCalls PROVE Carries(p)'
  BY <1>0, <1>1, <1>2, <1>3 DEF Carries, Is
<1>6. Creating'
  BY <1>0, <1>1, <1>2, <1>3 DEF Creating, Unmade, Is
<1>7. Access'
  BY <1>0, <1>3 DEF Access, At, CanAccess
<1>8. ASSUME NEW u \in Users, u \notin excused' PROVE Pending(u)' \/ UpToDate(u)'
  <2>1. Listing(u)' = Listing(u) /\ u \notin excused
    BY <1>0, <1>8 DEF Listing
  <2>2. CASE Pending(u)
    <3>1. PICK p \in ApiCalls : op[p].step \in {"announce", "clear"} /\ op[p].row.owner = u
      BY <2>2 DEF Pending
    <3>2. op'[p].step \in {"announce", "clear"} /\ op'[p].row.owner = u
      BY <1>0, <1>3, <3>1 DEF Is
    <3>3. QED  BY <3>2 DEF Pending
  <2>3. CASE UpToDate(u)
    BY <1>0, <1>1, <1>2, <1>3, <2>1, <2>3 DEF UpToDate, Is
  <2>4. QED  BY <2>1, <2>2, <2>3 DEF Lists
<1>9. QED  BY <1>3, <1>4, <1>5, <1>6, <1>7, <1>8 DEF Lists

\* A list expires.
LEMMA ExpiryKeeps ==
    ASSUME DocumentInv, NEW v \in Users, ListExpires(v)
    PROVE  DocumentInv'
<1> USE DEF DocumentInv
<1>0. /\ cache' = [cache EXCEPT ![v] = NoList]
      /\ excused' = IF Storing(v) THEN excused ELSE excused \ {v}
      /\ UNCHANGED <<presenceVars, whose, row, known, op, changed, ops>>
  BY DEF ListExpires
<1>1. PresenceInv' /\ UNCHANGED <<join, member>>
  BY <1>0, RoomStays
<1>2. DocumentTypes'
  BY <1>0 DEF DocumentTypes
<1>3. ASSUME NEW p \in ApiCalls PROVE Carries(p)'
  BY <1>0 DEF Carries, Is
<1>4. Creating'
  BY <1>0, <1>1 DEF Creating, Unmade, Is
<1>5. Access'
  BY <1>0, <1>1 DEF Access, At, CanAccess
<1>6. ASSUME NEW u \in Users, u \notin excused' PROVE Pending(u)' \/ UpToDate(u)'
  <2>1. Listing(u)' = Listing(u) /\ Pending(u)' = Pending(u)
        /\ cache'[u] = IF u = v THEN NoList ELSE cache[u]
    BY <1>0 DEF Listing, Pending, DocumentTypes
  <2>2. CASE u \in excused
    BY <1>0, <1>6, <2>1, <2>2 DEF UpToDate, Storing, Is
  <2>3. CASE u \notin excused
    BY <1>0, <2>1, <2>3 DEF UpToDate, Is, Lists
  <2>4. QED  BY <2>2, <2>3
<1>7. QED  BY <1>1, <1>2, <1>3, <1>4, <1>5, <1>6 DEF Lists

\* The room's handlers, past room:join's check, leave the row alone.
LEMMA HandlersKeep ==
    ASSUME DocumentInv, PresenceStep, UNCHANGED documentVars
    PROVE  DocumentInv'
<1> USE DEF DocumentInv
<1>0. UNCHANGED <<whose, row, known, op, cache, excused, changed, ops>> /\ PresenceInv'
  BY PresenceKeeps DEF documentVars
<1>1. \A k \in Sockets :
        /\ join'[k].step \in {"find", "create", "refind", "room"} => join'[k] = join[k]
        /\ k \in member' => k \in member \/ At(k, "room")
  <2>1. ASSUME NEW j \in Sockets, Handler(j) \/ Leave(j) \/ Disconnect(j),
               NEW k \in Sockets
        PROVE  /\ join'[k].step \in {"find", "create", "refind", "room"} => join'[k] = join[k]
               /\ k \in member' => k \in member \/ At(k, "room")
    <3>1. join \in [Sockets -> JoinState]
      BY DEF PresenceInv, PresenceTypeOK, JoinState
    <3>2. \/ join' = join
          \/ /\ join' \in [Sockets -> JoinState]
             /\ join'[j].step \notin {"find", "create", "refind", "room"}
             /\ \A i \in Sockets \ {j} : join'[i] = join[i]
      <4>1. PresenceTypeOK'
        BY <1>0 DEF PresenceInv
      <4>2. join' \in [Sockets -> JoinState]
        BY <4>1 DEF PresenceTypeOK, JoinState
      <4>3. CASE Leave(j) \/ Disconnect(j) \/ Removed(j)
        BY <4>3 DEF Leave, Disconnect, Removed
      <4>4. CASE Hdel(j) \/ JoinThrows(j)
        BY <3>1, <4>2, <4>4, NotJoining DEF Hdel, JoinThrows
      <4>5. CASE Enter(j) \/ Hset(j) \/ Hgetall(j)
        BY <3>1, <4>2, <4>5, NotJoining DEF Enter, Hset, Hgetall, JoinState
      <4>6. CASE ActiveSockets(j)
        BY <3>1, <4>2, <4>6, NotJoining DEF ActiveSockets, AddPresence, JoinState
      <4>7. QED  BY <2>1, <4>3, <4>4, <4>5, <4>6 DEF Handler
    <3>3. k \in member' => k \in member \/ At(k, "room")
      BY <2>1 DEF Handler, Enter, ActiveSockets, AddPresence, Hset, Hgetall, Hdel, JoinThrows,
                  Removed, Leave, Disconnect
    <3>4. QED  BY <3>2, <3>3
  <2>2. CASE EntriesExpire \/ RedisChanges
    BY <2>2 DEF EntriesExpire, RedisChanges
  <2>3. QED  BY <2>1, <2>2 DEF PresenceStep
<1>2. DocumentTypes'
  BY <1>0 DEF DocumentTypes
<1>3. ASSUME NEW p \in ApiCalls PROVE Carries(p)'
  BY <1>0 DEF Carries, Is
<1>4. Creating'
  BY <1>0, <1>1 DEF Creating, Unmade, Is
<1>5. Access'
  BY <1>0, <1>1 DEF Access, At, CanAccess
<1>6. Lists'
  BY <1>0 DEF Lists, Pending, UpToDate, Is, Listing
<1>7. QED  BY <1>0, <1>2, <1>3, <1>4, <1>5, <1>6

\* A room:join looks for the row, or a browser sends it.
LEMMA LookKeeps ==
    ASSUME DocumentInv, NEW k \in Sockets, Open(k) \/ Look(k)
    PROVE  DocumentInv'
<1> USE DEF DocumentInv
<1>0. /\ UNCHANGED <<up, member, leaving, entries, ready, swept, mishaps>>
      /\ UNCHANGED <<whose, row, op, cache, excused, changed>>
      /\ inPage' \subseteq Sockets
      /\ PresenceTypeOK
  BY DEF Open, Look, documentVars, PresenceInv, PresenceTypeOK
<1>1. PICK r \in JoinState :
          /\ join' = [join EXCEPT ![k] = r] /\ r.listed = {}
          /\ join[k].step \in {"idle", "find", "create", "refind"}
          /\ r.step \in {"idle", "find", "create", "room"}
          /\ r.step = "room" => CanAccess(row, whose[k])
          /\ r.step \in {"find", "create"} =>
                known' /\ (Open(k) \/ join[k].step \in {"find", "create", "refind"})
  <2>1. CASE Open(k)
    <3> DEFINE r == [join[k] EXCEPT !.step = "find"]
    <3>1. join[k].step # "hdel" /\ "find" \in JoinStep
      BY <2>1, StepNames DEF Open, At
    <3>2. r \in JoinState /\ r.step = "find" /\ r.listed = {}
      BY <1>0, <3>1, StepMoved
    <3>3. join' = [join EXCEPT ![k] = r] /\ known' /\ join[k].step = "idle"
      BY <2>1 DEF Open, At
    <3> HIDE DEF r
    <3>4. QED  BY <2>1, <3>2, <3>3
  <2>2. CASE Look(k)
    <3>1. PICK s \in {"find", "refind"} : At(k, s) /\ Admit(k, s)
      BY <2>2 DEF Look
    <3>2. join[k].step \in {"find", "refind"} /\ known' = known /\ known
      BY <2>2, <3>1 DEF Look, documentVars, At, Creating, Unmade
    <3>3. join[k].step # "hdel" /\ "room" \in JoinStep /\ "create" \in JoinStep
      BY <3>2, StepNames
    <3>4. CASE CanAccess(row, whose[k])
      <4> DEFINE r == [join[k] EXCEPT !.step = "room"]
      <4>1. r \in JoinState /\ r.step = "room" /\ r.listed = {}
        BY <1>0, <3>3, StepMoved
      <4>2. join' = [join EXCEPT ![k] = r]
        BY <3>1, <3>4 DEF Admit
      <4> HIDE DEF r
      <4>3. QED  BY <3>2, <3>4, <4>1, <4>2
    <3>5. CASE ~CanAccess(row, whose[k]) /\ s = "find" /\ row = NoRow
      <4> DEFINE r == [join[k] EXCEPT !.step = "create"]
      <4>1. r \in JoinState /\ r.step = "create" /\ r.listed = {}
        BY <1>0, <3>3, StepMoved
      <4>2. join' = [join EXCEPT ![k] = r]
        BY <3>1, <3>5 DEF Admit
      <4> HIDE DEF r
      <4>3. QED  BY <3>2, <4>1, <4>2
    <3>6. CASE ~CanAccess(row, whose[k]) /\ ~(s = "find" /\ row = NoRow)
      BY <3>1, <3>2, <3>6, NotJoining DEF Admit
    <3>7. QED  BY <3>4, <3>5, <3>6
  <2>3. QED  BY <2>1, <2>2
<1>2. /\ join' \in [Sockets -> JoinState] /\ join'[k] = r
      /\ \A j \in Sockets \ {k} : join'[j] = join[j]
  BY <1>0, <1>1, JoinMoved
<1>3. PresenceInv'
  BY <1>0, <1>1, JoinMoves
<1>4. DocumentTypes'
  <2>1. ops' \in 0 .. MaxOps /\ known' \in BOOLEAN
    <3>1. ops \in 0 .. MaxOps /\ known \in BOOLEAN
      BY DEF DocumentTypes
    <3>2. CASE Open(k)
      BY <3>1, <3>2, DocumentConstants DEF Open, OneMore
    <3>3. CASE Look(k)
      BY <3>1, <3>3 DEF Look, documentVars
    <3>4. QED  BY <3>2, <3>3
  <2>2. QED  BY <1>0, <2>1 DEF DocumentTypes
<1>5. ASSUME NEW p \in ApiCalls PROVE Carries(p)'
  BY <1>0 DEF Carries, Is
<1>6. Creating'
  <2>1. CASE Open(k)
    <3>1. known' /\ \A q \in ApiCalls : ~Is(q, "insert")
      BY <2>1 DEF Open
    <3>2. QED  BY <1>0, <3>1 DEF Creating, Is
  <2>2. CASE Look(k)
    <3>1. known' = known
      BY <2>2 DEF Look, documentVars
    <3>2. QED
      BY <1>0, <1>1, <1>2, <2>2, <3>1 DEF Creating, Unmade, Is, Look, At
  <2>3. QED  BY <2>1, <2>2
<1>7. Access'
  BY <1>0, <1>1, <1>2 DEF Access, At, CanAccess
<1>8. Lists'
  BY <1>0 DEF Lists, Pending, UpToDate, Is, Listing
<1>9. QED  BY <1>3, <1>4, <1>5, <1>6, <1>7, <1>8

\* ensureDocument makes the row, or finds that another has made it.
LEMMA EnsureKeeps ==
    ASSUME DocumentInv, NEW k \in Sockets, EnsureDocument(k)
    PROVE  DocumentInv'
<1> USE DEF DocumentInv
<1>0. /\ UNCHANGED <<up, inPage, member, leaving, entries, ready, swept, mishaps>>
      /\ UNCHANGED <<whose, known, op, cache, changed, ops>>
      /\ At(k, "create") /\ inPage \subseteq Sockets /\ whose[k] \in Users
      /\ PresenceTypeOK
  BY DocumentConstants DEF EnsureDocument, PresenceInv, PresenceTypeOK, DocumentTypes
<1>1. known /\ \A q \in ApiCalls : ~Is(q, "insert")
  BY <1>0 DEF Creating, Unmade, At
<1>2. ASSUME NEW s \in {"room", "refind"}, join' = [join EXCEPT ![k].step = s]
      PROVE  /\ PresenceInv' /\ join' \in [Sockets -> JoinState]
             /\ join'[k].step = s /\ \A j \in Sockets \ {k} : join'[j] = join[j]
  <2> DEFINE r == [join[k] EXCEPT !.step = s]
  <2>1. s \in JoinStep /\ join[k].step \notin {"hdel"}
    BY <1>0, StepNames DEF At
  <2>2. r \in JoinState /\ r.step = s /\ r.listed = {}
    BY <1>0, <2>1, StepMoved
  <2>3. join' = [join EXCEPT ![k] = r]
    BY <1>2
  <2> HIDE DEF r
  <2>4. PresenceInv'
    BY <1>0, <2>2, <2>3, JoinMoves DEF At
  <2>5. QED  BY <1>0, <2>2, <2>3, <2>4, JoinMoved
<1>3. Creating'
  BY <1>0, <1>1 DEF Creating, Is
<1>4. CASE row # NoRow
  <2>1. join' = [join EXCEPT ![k].step = "refind"] /\ UNCHANGED <<row, excused>>
    BY <1>4 DEF EnsureDocument
  <2>2. /\ PresenceInv' /\ join'[k].step = "refind" /\ \A j \in Sockets \ {k} : join'[j] = join[j]
    BY <1>2, <2>1
  <2>3. DocumentTypes' /\ Access' /\ \A p \in ApiCalls : Carries(p)'
    BY <1>0, <2>1, <2>2 DEF DocumentTypes, Access, At, CanAccess, Carries, Is
  <2>4. Lists'
    BY <1>0, <2>1 DEF Lists, Pending, UpToDate, Is, Listing
  <2>5. QED  BY <1>3, <2>2, <2>3, <2>4
<1>5. CASE row = NoRow
  <2> DEFINE w == [owner |-> whose[k], public |-> FALSE]
  <2>1. /\ join' = [join EXCEPT ![k].step = "room"] /\ row' = w
        /\ excused' = excused \cup Stale(whose[k])
    BY <1>5 DEF EnsureDocument
  <2>2. w \in Row /\ w.owner = whose[k]
    BY <1>0, RowFacts
  <2> HIDE DEF w
  <2>3. /\ PresenceInv' /\ join'[k].step = "room" /\ \A j \in Sockets \ {k} : join'[j] = join[j]
    BY <1>2, <2>1
  <2>4. DocumentTypes' /\ \A p \in ApiCalls : Carries(p)'
    BY <1>0, <2>1, <2>2, StaleUsers DEF DocumentTypes, Carries, Is
  <2>5. Access'
    BY <1>0, <1>5, <2>1, <2>2, <2>3, RowFacts DEF Access, At, CanAccess
  <2>6. ASSUME NEW u \in Users, u \notin excused' PROVE Pending(u)' \/ UpToDate(u)'
    <3>1. Pending(u)' = Pending(u) /\ u \notin excused /\ (Pending(u) \/ UpToDate(u))
      BY <1>0, <2>1, <2>6 DEF Pending, Lists
    <3>2. CASE u = whose[k]
      <4>1. cache[u] = NoList /\ \A q \in ApiCalls : Is(q, "store") => whose[q] # u
        BY <2>1, <2>6, <3>2, NothingStale
      <4>2. QED  BY <1>0, <4>1 DEF UpToDate, Is
    <3>3. CASE u # whose[k]
      <4>1. Listing(u)' = Listing(u)
        BY <1>5, <2>1, <2>2, <3>3, RowFacts, OthersLists
      <4>2. QED  BY <1>0, <3>1, <4>1 DEF UpToDate, Is
    <3>4. QED  BY <3>2, <3>3
  <2>7. QED  BY <1>3, <2>3, <2>4, <2>5, <2>6 DEF Lists
<1>6. QED  BY <1>4, <1>5

LEMMA DocumentsStart == DocumentsInit => DocumentInv
<1> SUFFICES ASSUME DocumentsInit PROVE DocumentInv
  OBVIOUS
<1> USE DEF DocumentsInit, PresenceInit
<1>1. PresenceInv
  <2>1. NoJoin \in JoinState /\ NoJoin.listed = {} /\ 0 \in 0 .. MaxMishaps
    BY NotJoining, DocumentConstants
  <2>2. QED  BY <2>1 DEF PresenceInv, PresenceTypeOK, JoinState
<1>2. DocumentTypes
  <2>1. NoOp \in OpState /\ 0 \in 0 .. MaxOps
    BY IdleOp, DocumentConstants
  <2>2. known \in BOOLEAN /\ changed \in BOOLEAN
    OBVIOUS
  <2>3. QED  BY <2>1, <2>2 DEF DocumentTypes
<1>3. \A q \in ApiCalls : op[q].step = "idle"
  BY IdleOp
<1>4. \A k \in Sockets : join[k].step = "idle" /\ k \notin member
  BY NotJoining
<1>5. (\A q \in ApiCalls : Carries(q)) /\ Creating
  BY <1>3, <1>4 DEF Carries, Creating, Unmade, Is
<1>6. Lists /\ Access
  BY <1>3, <1>4 DEF Lists, Access, UpToDate, Is, At
<1>7. QED  BY <1>1, <1>2, <1>5, <1>6 DEF DocumentInv

LEMMA DocumentsStepKeeps == DocumentInv /\ [DocumentsNext]_roomVars => DocumentInv'
<1> SUFFICES ASSUME DocumentInv, [DocumentsNext]_roomVars PROVE DocumentInv'
  OBVIOUS
<1>1. CASE UNCHANGED roomVars
  <2>1. UNCHANGED presenceVars /\ UNCHANGED documentVars
    BY <1>1 DEF roomVars
  <2>2. PresenceInv' /\ UNCHANGED <<join, member>>
    BY <2>1, RoomStays DEF DocumentInv
  <2>3. UNCHANGED <<whose, row, known, op, cache, excused, changed, ops>>
    BY <2>1 DEF documentVars
  <2>4. DocumentTypes' /\ \A q \in ApiCalls : Carries(q)'
    BY <2>3 DEF DocumentInv, DocumentTypes, Carries, Is
  <2>5. Creating' /\ Access'
    BY <2>2, <2>3 DEF DocumentInv, Creating, Unmade, Is, Access, At, CanAccess
  <2>6. Lists'
    BY <2>3 DEF DocumentInv, Lists, Pending, UpToDate, Is, Listing
  <2>7. QED  BY <2>2, <2>4, <2>5, <2>6 DEF DocumentInv
<1>2. CASE \E k \in Sockets : JoinBegins(k)
  BY <1>2, LookKeeps, EnsureKeeps DEF JoinBegins
<1>3. CASE \E q \in ApiCalls : RequestStep(q)
  BY <1>3, ListKeeps, FindKeeps, ClearingKeeps, InsertKeeps, DeleteKeeps, SaveKeeps
     DEF RequestStep
<1>4. QED
  BY <1>1, <1>2, <1>3, HandlersKeep, ThrowKeeps, AskKeeps, ExpiryKeeps DEF DocumentsNext

LEMMA DocumentsInvariant == DocumentsSpec => []DocumentInv
BY DocumentsStart, DocumentsStepKeeps, PTL DEF DocumentsSpec

(* The row, the requests, the cached lists and the room's sockets keep     *)
(* their types; a cached list holds only what its user owns.               *)
THEOREM DocumentsTypesHold == DocumentsSpec => []DocumentsTypeOK
<1>1. DocumentInv => DocumentsTypeOK
  <2> SUFFICES ASSUME DocumentInv PROVE DocumentsTypeOK
    OBVIOUS
  <2>1. \A u \in Users : cache[u] \in {NoList, NoRow} \cup [owner : {u}, public : BOOLEAN]
    BY DEF DocumentInv, DocumentTypes, RowOf
  <2>2. row # NoRow => known
    BY DEF DocumentInv, Creating, Unmade
  <2>3. QED  BY <2>1, <2>2 DEF DocumentInv, PresenceInv, DocumentTypes, OpState, DocumentsTypeOK
<1>2. QED  BY <1>1, DocumentsInvariant, PTL

(* document.service.js: a list that Redis keeps is what MongoDB holds,     *)
(* unless a change is on its way to drop it or a named accident happened.  *)
THEOREM ListsAreCurrent == DocumentsSpec => []CacheIsCurrent
<1>1. DocumentInv => CacheIsCurrent
  BY DEF DocumentInv, Lists, UpToDate, CacheIsCurrent
<1>2. QED  BY <1>1, DocumentsInvariant, PTL

(* roomHandler.js: whoever is in the room may read the document, until its *)
(* visibility changes or it is deleted, and is listed as present, unless   *)
(* swept.                                                                  *)
THEOREM MembersAreAdmitted == DocumentsSpec => []MembersAreKnown
<1>1. DocumentInv => MembersAreKnown
  <2> SUFFICES ASSUME DocumentInv PROVE MembersAreKnown
    OBVIOUS
  <2>1. MembersHaveAccess
    BY DEF DocumentInv, PresenceInv, PresenceTypeOK, Access, MembersHaveAccess
  <2>2. MemberIsListed
    BY DEF DocumentInv, PresenceInv, MemberInv, Entering, MemberIsListed, At
  <2>3. QED  BY <2>1, <2>2 DEF MembersAreKnown
<1>2. QED  BY <1>1, DocumentsInvariant, PTL
=============================================================================
