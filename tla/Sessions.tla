------------------------------ MODULE Sessions ------------------------------
(***************************************************************************)
(* One browser tab and its session: the access token, which the axios      *)
(* client (services/api.js), React (context/AuthContext.jsx) and           *)
(* localStorage each hold a copy of; the refresh cookie; the requests in   *)
(* flight; and the interceptor that, on a 401, refreshes the token once    *)
(* for all of them.  The server (services/auth.service.js) is stateless:   *)
(* it signs tokens and checks them.                                        *)
(*                                                                         *)
(* Abstraction: access tokens are numbered as they are signed, and expire  *)
(* in that order (they live equally long); a response is handled in the    *)
(* step in which it arrives; what a request asks for is left out.          *)
(***************************************************************************)
EXTENDS Naturals, FiniteSets

CONSTANTS
  Accounts, NoAccount,
  Requests,     \* requests of the pages, each sent once by its page
  MaxTokens,    \* bound: access tokens signed
  MaxFaults,    \* bound: responses lost to the network
  MaxLogouts,   \* bound: presses of Logout
  MaxReloads    \* bound: reloads of the page

ASSUME SessionAssumption ==
  /\ NoAccount \notin Accounts
  /\ {MaxTokens, MaxFaults, MaxLogouts, MaxReloads} \subseteq Nat
  /\ MaxTokens # 0     \* the token of an earlier visit is counted too

VARIABLES
  ownerOf,      \* ownerOf[n]: the account of the n-th signed token
  issued,       \* tokens signed so far
  expired,      \* the first tokens, up to this one, have expired
  cookie,       \* the account of the refresh cookie, if it is there and good
  cookieLost,   \* the cookie has been missing or refused at some time (history)
  access,       \* api.js accessToken, 0 when null
  storage,      \* localStorage accessToken
  token,        \* AuthContext's token
  user,         \* AuthContext's user
  loading,      \* AuthContext's loading
  req,          \* req[r]: step, token last sent, times sent, _retry
  refresh,      \* the interceptor's POST /refresh: who waits, for what account
  mount,        \* AuthContext's own POST /refresh: its cookie's account
  signIn,       \* the account of a POST /login or /register under way
  faults, logouts, reloads

client == <<access, storage, token, user>>
server == <<ownerOf, issued, expired, cookie, cookieLost>>
bounds == <<faults, logouts, reloads>>
vars == <<server, client, loading, req, refresh, mount, signIn, bounds>>

Tokens == 0..MaxTokens
Maybe == Accounts \cup {NoAccount}
Quiet == [on |-> FALSE, by |-> NoAccount, account |-> NoAccount]
Unsent == [step |-> "idle", token |-> 0, sends |-> 0, retry |-> FALSE]

TypeOK ==
  /\ ownerOf \in [1..MaxTokens -> Maybe]
  /\ issued \in Tokens /\ expired \in 0..issued
  /\ cookie \in Maybe /\ cookieLost \in BOOLEAN
  /\ {access, storage, token} \subseteq 0..issued
  /\ user \in Maybe /\ loading \in BOOLEAN
  /\ req \in [Requests -> [step : {"idle", "sent", "queued", "refreshing",
                                   "ok", "denied", "lost"},
                           token : Tokens, sends : 0..(MaxTokens + 2),
                           retry : BOOLEAN]]
  /\ refresh \in [on : BOOLEAN, by : Requests \cup {NoAccount}, account : Maybe]
  /\ mount \in [on : BOOLEAN, by : {NoAccount}, account : Maybe]
  /\ signIn \in Maybe
  /\ faults \in 0..MaxFaults /\ logouts \in 0..MaxLogouts
  /\ reloads \in 0..MaxReloads

(* The page is opened by somebody signed out, or with a token of an        *)
(* earlier visit whose cookie may be gone.                                 *)
Init ==
  /\ issued \in {0, 1} /\ expired \in 0..issued
  /\ ownerOf \in [1..MaxTokens -> Maybe]
  /\ \A n \in 1..MaxTokens : ownerOf[n] = NoAccount <=> n > issued
  /\ cookie \in {NoAccount} \cup {ownerOf[n] : n \in 1..issued}
  /\ cookieLost = (cookie = NoAccount)
  /\ access = 0 /\ storage = issued /\ token = issued
  /\ user = NoAccount /\ loading = TRUE
  /\ req = [r \in Requests |-> Unsent]
  /\ refresh = Quiet /\ mount = Quiet /\ signIn = NoAccount
  /\ faults = 0 /\ logouts = 0 /\ reloads = 0

-----------------------------------------------------------------------------
(* A bug: a token without its cookie. *)
SignedWithoutCookie(account) ==
  /\ issued < MaxTokens
  /\ issued' = issued + 1
  /\ ownerOf' = [ownerOf EXCEPT ![issued + 1] = account]
  /\ UNCHANGED <<expired, cookie, cookieLost>>

(* The server signs a token for the account and renews its cookie. *)
Signed(account) ==
  /\ issued < MaxTokens
  /\ issued' = issued + 1
  /\ ownerOf' = [ownerOf EXCEPT ![issued + 1] = account]
  /\ cookie' = account
  /\ UNCHANGED <<expired, cookieLost>>

(* No cookie, an expired one, or a deleted user; a server whose tokens are  *)
(* spent (MaxTokens) refuses like that too.                                *)
Refuses(account) ==
  \/ account = NoAccount /\ UNCHANGED server
  \/ /\ issued = MaxTokens
     /\ cookie' = NoAccount /\ cookieLost' = TRUE
     /\ UNCHANGED <<ownerOf, issued, expired>>

Valid(t) == t > expired

(* Every place that holds the token gets the new one; every place forgets. *)
Holds(t, account) ==
  access' = t /\ storage' = t /\ token' = t /\ user' = account
Forgets == Holds(0, NoAccount)

Fault == faults < MaxFaults /\ faults' = faults + 1 /\ UNCHANGED <<logouts, reloads>>

-----------------------------------------------------------------------------
(* AuthProvider mounts: without a token there is nothing to wait for;      *)
(* with one, the user is fetched by a refresh, behind the loading screen.  *)
Mount ==
  /\ loading /\ ~mount.on
  /\ access' = token
  /\ IF token = 0 THEN loading' = FALSE /\ UNCHANGED mount
     ELSE /\ mount' = [Quiet EXCEPT !.on = TRUE, !.account = cookie]
          /\ UNCHANGED loading
  /\ UNCHANGED <<server, storage, token, user, req, refresh, signIn, bounds>>

(* Its answer: the new token and the user; on any error, a network one     *)
(* included, the visitor is signed out.                                    *)
MountAnswered ==
  /\ mount.on /\ mount' = Quiet /\ loading' = FALSE
  /\ \/ /\ mount.account # NoAccount
        /\ Signed(mount.account) /\ Holds(issued', mount.account)
        /\ UNCHANGED bounds
     \/ Refuses(mount.account) /\ Forgets /\ UNCHANGED bounds
     \/ Fault /\ Forgets /\ UNCHANGED server
  /\ UNCHANGED <<req, refresh, signIn>>

(* The login and registration pages are open to visitors without a token.  *)
SignIn ==
  /\ ~loading /\ token = 0 /\ signIn = NoAccount
  /\ signIn' \in Accounts
  /\ UNCHANGED <<server, client, loading, req, refresh, mount, bounds>>

SignInAnswered ==
  /\ signIn # NoAccount /\ signIn' = NoAccount
  /\ \/ /\ Signed(signIn) /\ Holds(issued', signIn)
        /\ UNCHANGED bounds
     \/ (Fault \/ (issued = MaxTokens /\ UNCHANGED bounds))
        /\ UNCHANGED <<server, client>>
  /\ UNCHANGED <<loading, req, refresh, mount>>

(* Logout forgets the token in this tab; the cookie and the requests in    *)
(* flight are left alone.                                                  *)
Logout ==
  /\ ~loading /\ token # 0 /\ logouts < MaxLogouts
  /\ logouts' = logouts + 1
  /\ Forgets
  /\ UNCHANGED <<server, loading, req, refresh, mount, signIn, faults, reloads>>

(* The page is reloaded: only localStorage and the cookie survive.         *)
Reload ==
  /\ reloads < MaxReloads /\ ~loading
  /\ reloads' = reloads + 1
  /\ access' = 0 /\ token' = storage /\ user' = NoAccount /\ loading' = TRUE
  /\ req' = [r \in Requests |-> IF req[r].step \in {"idle", "ok", "denied"}
                                THEN req[r] ELSE [req[r] EXCEPT !.step = "lost"]]
  /\ refresh' = Quiet /\ mount' = Quiet /\ signIn' = NoAccount
  /\ UNCHANGED <<server, storage, faults, logouts>>

-----------------------------------------------------------------------------
(* The request interceptor puts the token held at this moment on it. *)
Sending(q, t) == [q EXCEPT !.step = "sent", !.token = t, !.sends = @ + 1]

Send(r) ==
  /\ ~loading /\ token # 0 /\ req[r].step = "idle"
  /\ req' = [req EXCEPT ![r] = Sending(@, access)]
  /\ UNCHANGED <<server, client, loading, refresh, mount, signIn, bounds>>

Settle(r, step) == req' = [req EXCEPT ![r].step = step]

(* Answered, or lost on the way. *)
Answered(r) ==
  /\ req[r].step = "sent"
  /\ \/ Valid(req[r].token) /\ Settle(r, "ok") /\ UNCHANGED bounds
     \/ Fault /\ Settle(r, "lost")
  /\ UNCHANGED <<server, client, loading, refresh, mount, signIn>>

(* A bug: the 401 is answered by sending the request again, refresh or not. *)
UnauthorizedLoops(r) ==
  /\ req[r].step = "sent" /\ ~Valid(req[r].token)
  /\ req' = [req EXCEPT ![r] = Sending(@, access)]
  /\ UNCHANGED <<server, client, loading, refresh, mount, signIn, bounds>>

(* A bug: while a refresh is under way other requests' 401s are passed on. *)
UnauthorizedUnqueued(r) ==
  /\ req[r].step = "sent" /\ ~Valid(req[r].token)
  /\ IF req[r].retry \/ refresh.on
       THEN Settle(r, "denied") /\ UNCHANGED refresh
       ELSE /\ req' = [req EXCEPT ![r].step = "refreshing", ![r].retry = TRUE]
            /\ refresh' = [on |-> TRUE, by |-> r, account |-> cookie]
  /\ UNCHANGED <<server, client, loading, mount, signIn, bounds>>

(* A 401.  A request that has had its refresh is given up; one that finds  *)
(* a refresh under way waits in failedQueue; otherwise it starts one.      *)
Unauthorized(r) ==
  /\ req[r].step = "sent" /\ ~Valid(req[r].token)
  /\ \/ req[r].retry /\ Settle(r, "denied") /\ UNCHANGED refresh
     \/ ~req[r].retry /\ refresh.on /\ Settle(r, "queued") /\ UNCHANGED refresh
     \/ /\ ~req[r].retry /\ ~refresh.on
        /\ req' = [req EXCEPT ![r].step = "refreshing", ![r].retry = TRUE]
        /\ refresh' = [on |-> TRUE, by |-> r, account |-> cookie]
  /\ UNCHANGED <<server, client, loading, mount, signIn, bounds>>

Waiting(r) == req[r].step \in {"queued", "refreshing"}

(* The refresh succeeds: the token goes to every place, and every waiting  *)
(* request is sent again.                                                  *)
Refreshed ==
  /\ refresh.on /\ refresh' = Quiet
  /\ refresh.account # NoAccount
  /\ Signed(refresh.account) /\ Holds(issued', refresh.account)
  /\ req' = [r \in Requests |->
               IF Waiting(r) THEN Sending(req[r], issued') ELSE req[r]]
  /\ UNCHANGED <<loading, mount, signIn, bounds>>

(* A bug: the queue is processed on success only. *)
RefreshFailsSilently ==
  /\ refresh.on /\ refresh' = Quiet
  /\ \/ Refuses(refresh.account) /\ UNCHANGED bounds
     \/ Fault /\ UNCHANGED server
  /\ access' = 0 /\ storage' = 0
  /\ req' = [req EXCEPT ![refresh.by].step = "denied"]
  /\ UNCHANGED <<token, user, loading, mount, signIn>>

(* It is refused, or lost: every waiting request is rejected, and the      *)
(* client and localStorage forget the token.  React keeps it.              *)
RefreshFails ==
  /\ refresh.on /\ refresh' = Quiet
  /\ \/ Refuses(refresh.account) /\ UNCHANGED bounds
     \/ Fault /\ UNCHANGED server
  /\ access' = 0 /\ storage' = 0
  /\ req' = [r \in Requests |->
               IF Waiting(r) THEN [req[r] EXCEPT !.step = "denied"] ELSE req[r]]
  /\ UNCHANGED <<token, user, loading, mount, signIn>>

-----------------------------------------------------------------------------
(* Time passes: the oldest token expires, the cookie expires or its user   *)
(* is deleted.                                                             *)
Expires ==
  /\ \/ expired < issued /\ expired' = expired + 1 /\ UNCHANGED <<cookie, cookieLost>>
     \/ /\ cookie # NoAccount /\ cookie' = NoAccount /\ cookieLost' = TRUE
        /\ UNCHANGED expired
  /\ UNCHANGED <<ownerOf, issued, client, loading, req, refresh, mount, signIn,
                 bounds>>

Handled(r) == Answered(r) \/ Unauthorized(r)
RefreshStep == Refreshed \/ RefreshFails

Next ==
  \/ Mount \/ MountAnswered \/ SignIn \/ SignInAnswered \/ Logout \/ Reload
  \/ \E r \in Requests : Send(r) \/ Handled(r)
  \/ RefreshStep \/ Expires

Spec == Init /\ [][Next]_vars

(* Every request on the wire is answered or fails (axios sets no timeout,  *)
(* so this is the network's promise), and its handler runs.                *)
Fairness ==
  /\ WF_vars(Mount \/ MountAnswered)
  /\ WF_vars(RefreshStep)
  /\ \A r \in Requests : WF_vars(Handled(r))

FairSpec == Spec /\ Fairness

-----------------------------------------------------------------------------
(* One identity: outside a page load the client's token and localStorage's *)
(* are the same; while there is one, React shows that token and its        *)
(* account, and, unless it was lost, the refresh cookie is the same        *)
(* account's -- however sign-ins, logouts, refreshes and reloads overlap.  *)
OneIdentity ==
  ~loading =>
    /\ access = storage
    /\ access # 0 => /\ token = access /\ user = ownerOf[access]
                     /\ cookie \in {NoAccount, ownerOf[access]}

(* While the cookie is good and the network does not fail, a request is    *)
(* not refused for an expired token: only if it was sent again with a      *)
(* newer one and that has expired too.                                     *)
DeniedForCause ==
  \A r \in Requests :
    req[r].step = "denied" /\ faults = 0 /\ ~cookieLost =>
      req[r].sends >= 2 /\ ~Valid(req[r].token)

(* Every request of a page is settled, the queued ones too: whatever       *)
(* becomes of the refresh they wait for.                                   *)
RequestsSettle ==
  \A r \in Requests :
    req[r].step \in {"sent", "queued", "refreshing"} ~>
      req[r].step \in {"ok", "denied", "lost"}

=============================================================================
