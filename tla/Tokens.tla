------------------------------- MODULE Tokens -------------------------------
(***************************************************************************)
(* Access and refresh tokens: login and refresh of the API (routes/auth.rs *)
(* and jwt.rs), and the pages of one person's browser that share them      *)
(* through localStorage (web/src/lib/api.ts, auth.tsx).                    *)
(*                                                                         *)
(* An access token and a refresh token are always issued, stored and       *)
(* removed together: pair n is the n-th issued, and 0 is no pair.  A page  *)
(* is one tab; it has a login form when nobody is signed in, and makes     *)
(* calls otherwise.  Every call goes through the interceptors of api.ts,   *)
(* the login form's too.                                                   *)
(***************************************************************************)
EXTENDS Integers, FiniteSets

CONSTANTS Tab,      \* tabs of one browser
          Call,     \* calls a page may have under way at once
          SignIn,   \* the login form's request
          None,     \* no tab
          MaxPair,  \* bound: pairs of tokens issued
          MaxCalls, \* bound: calls of all tabs under way at once
          MaxLost   \* bound: refresh requests under way whose page is gone

ASSUME SignInAssumption == SignIn \notin Call
ASSUME NoneAssumption == None \notin Tab
ASSUME PairAssumption == MaxPair \in Nat

Request == Call \cup {SignIn}

VARIABLES
    issued,     \* number of pairs issued
    login,      \* login[n]: the pair the login began with that pair n continues
    fresh,      \* pairs whose access token has not expired (15 minutes)
    rows,       \* pairs whose refresh token is in refresh_tokens, not expired (7 days)
    storage,    \* the pair in localStorage
    page,       \* page[t]: "login" or "app"
    req,        \* req[t][c]: request c of tab t
    inflight,   \* inflight[t]: the variable refreshInflight of the tab's page
    refreshes,  \* /auth/refresh requests under way
    presented   \* history: refresh tokens the tab's page has presented

vars == <<issued, login, fresh, rows, storage, page, req, inflight, refreshes, presented>>
server == <<issued, login, fresh, rows>>

Pair == 1..MaxPair
PairOrNone == 0..MaxPair

\* A request: the access token it was sent with (0 where it does not matter), and
\* whether it is the retry.
Idle == [st |-> "idle", pair |-> 0, try |-> "first"]
Sent(n, try) == [st |-> "sent", pair |-> n, try |-> try]
Waiting == [st |-> "waiting", pair |-> 0, try |-> "retry"]
Requests == [st : {"idle", "sent", "waiting"}, pair : PairOrNone, try : {"first", "retry"}]

\* The promise of refreshAccessToken.  "resolved" and "rejected" last until the
\* timer of its finally block; "stuck" is the rejection of line 36, outside the
\* try, which no timer ever takes back.
Promise(st, n) == [st |-> st, pair |-> n]
NoPromise == Promise("none", 0)
Promises == [st : {"none", "pending", "resolved", "rejected", "stuck"}, pair : PairOrNone]

\* A refresh request: the tab whose page waits for it (None once that page is
\* gone), the token presented, how far the handler is and the pair it issued.
Refresh(t, n, st, new) == [for |-> t, token |-> n, st |-> st, new |-> new]
Refreshes == [for : Tab \cup {None}, token : Pair,
              st : {"sent", "taken", "issued", "refused", "failed"}, new : PairOrNone]

\* Property TypeOK.  The variables keep their types, and every token that is used,
\* stored or presented was issued.
TypeOK ==
    /\ issued \in PairOrNone
    /\ login \in [Pair -> PairOrNone]
    /\ fresh \subseteq 1..issued
    /\ rows \subseteq 1..issued
    /\ storage \in 0..issued
    /\ page \in [Tab -> {"login", "app"}]
    /\ req \in [Tab -> [Request -> Requests]]
    /\ inflight \in [Tab -> Promises]
    /\ refreshes \subseteq Refreshes
    /\ \A r \in refreshes : r.token <= issued /\ r.new <= issued
    /\ presented \in [Tab -> SUBSET (1..issued)]

Init ==
    /\ issued = 0 /\ login = [n \in Pair |-> 0] /\ fresh = {} /\ rows = {}
    /\ storage = 0
    /\ page = [t \in Tab |-> "login"]
    /\ req = [t \in Tab |-> [c \in Request |-> Idle]]
    /\ inflight = [t \in Tab |-> NoPromise]
    /\ refreshes = {}
    /\ presented = [t \in Tab |-> {}]

\* Request c of tab t becomes q; all requests of t become what f says.
SetReq(t, c, q) == req' = [req EXCEPT ![t][c] = q]
SetReqs(t, f) == req' = [req EXCEPT ![t] = f]

-----------------------------------------------------------------------------
(***************************************************************************)
(* The API.                                                                *)
(***************************************************************************)

\* issue_tokens: a new pair, of a new login (of = 0) or continuing one.
IssueTokens(of) ==
    /\ issued < MaxPair
    /\ issued' = issued + 1
    /\ login' = [login EXCEPT ![issued + 1] = IF of = 0 THEN issued + 1 ELSE login[of]]
    /\ fresh' = fresh \cup {issued + 1}
    /\ rows' = rows \cup {issued + 1}

\* Requests whose answer somebody still waits for, or that are not answered.
Ending == {"issued", "refused", "failed"}
Kept(rs) == {r \in rs : r.for # None \/ r.st \notin Ending}

\* The tokens whose row a handler has taken out and not yet replaced.
Exchanged == {n \in Pair : \E r \in refreshes : r.st = "taken" /\ r.token = n}

Becomes(r, s) == refreshes' = (refreshes \ {r}) \cup Kept({s})

\* Variant for mutation: the row is looked up and left there.
LookUpRow(r) ==
    /\ r.st = "sent"
    /\ Becomes(r, Refresh(r.for, r.token, IF r.token \in rows THEN "taken" ELSE "refused", 0))
    /\ UNCHANGED <<server, storage, page, req, inflight, presented>>

\* DELETE ... RETURNING: only one request finds the row.
TakeRow(r) ==
    /\ r.st = "sent"
    /\ rows' = rows \ {r.token}
    /\ Becomes(r, Refresh(r.for, r.token, IF r.token \in rows THEN "taken" ELSE "refused", 0))
    /\ UNCHANGED <<issued, login, fresh, storage, page, req, inflight, presented>>

\* Variant for mutation: the pair is sent back without being recorded.
SendNext(r) ==
    /\ r.st = "taken" /\ issued < MaxPair
    /\ Becomes(r, Refresh(r.for, r.token, "issued", issued + 1))
    /\ UNCHANGED <<server, storage, page, req, inflight, presented>>

\* The user and the tenant are read, the next pair is issued and sent back.
IssueNext(r) ==
    /\ r.st = "taken"
    /\ IssueTokens(r.token)
    /\ Becomes(r, Refresh(r.for, r.token, "issued", issued + 1))
    /\ UNCHANGED <<storage, page, req, inflight, presented>>

\* Variant for mutation: a failure puts the row back.
RefreshUndone(r) ==
    /\ r.st \in {"sent", "taken", "issued"}
    /\ Becomes(r, Refresh(r.for, r.token, "failed", 0))
    /\ rows' = IF r.st = "sent" THEN rows ELSE rows \cup {r.token}
    /\ UNCHANGED <<issued, login, fresh, storage, page, req, inflight, presented>>

\* The API stops, its database fails or the answer is lost: what was done stays.
RefreshFails(r) ==
    /\ r.st \in {"sent", "taken", "issued"}
    /\ Becomes(r, Refresh(r.for, r.token, "failed", 0))
    /\ UNCHANGED <<server, storage, page, req, inflight, presented>>

\* Somebody may still use pair n; what expires unused is left out.
Held(n) ==
    \/ storage = n
    \/ \E t \in Tab, c \in Request : req[t][c].pair = n
    \/ \E r \in refreshes : n \in {r.token, r.new}

\* 15 minutes after it was issued an access token stops working.
AccessExpires(n) ==
    /\ Held(n) /\ n \in fresh
    /\ fresh' = fresh \ {n}
    /\ UNCHANGED <<issued, login, rows, storage, page, req, inflight, refreshes, presented>>

\* After 7 days refresh no longer sees the row; the sweep removes it.
RowExpires(n) ==
    /\ Held(n) /\ n \in rows
    /\ rows' = rows \ {n}
    /\ UNCHANGED <<issued, login, fresh, storage, page, req, inflight, refreshes, presented>>

-----------------------------------------------------------------------------
(***************************************************************************)
(* The pages.                                                              *)
(***************************************************************************)

\* A tab loads the site anew: what its page had in memory is gone, its requests
\* are nobody's, and localStorage says whether somebody is signed in.
Load(t) ==
    /\ page' = [page EXCEPT ![t] = IF storage' = 0 THEN "login" ELSE "app"]
    /\ SetReqs(t, [c \in Request |-> Idle])
    /\ inflight' = [inflight EXCEPT ![t] = NoPromise]
    /\ refreshes' = Kept({IF r.for = t THEN Refresh(None, r.token, r.st, r.new) ELSE r : r \in refreshes})
    /\ presented' = [presented EXCEPT ![t] = {}]

Reload(t) ==
    /\ Cardinality({r \in refreshes : r.for = None}) < MaxLost
    /\ UNCHANGED storage /\ Load(t) /\ UNCHANGED server

\* The request interceptor attaches the token that localStorage holds.
SendCall(t, c) ==
    /\ page[t] = "app" /\ req[t][c] = Idle
    /\ Cardinality({x \in Tab \X Call : req[x[1]][x[2]] # Idle}) < MaxCalls
    /\ SetReq(t, c, Sent(storage, "first"))
    /\ UNCHANGED <<server, storage, page, inflight, refreshes, presented>>

\* login does not look at the token.
SendPassword(t) ==
    /\ page[t] = "login" /\ req[t][SignIn] = Idle
    /\ SetReq(t, SignIn, Sent(0, "first"))
    /\ UNCHANGED <<server, storage, page, inflight, refreshes, presented>>

\* AuthUser lets a call through whose token has not expired.
CallAnswered(t, c) ==
    /\ req[t][c].st = "sent" /\ req[t][c].pair \in fresh
    /\ SetReq(t, c, Idle)
    /\ UNCHANGED <<server, storage, page, inflight, refreshes, presented>>

\* The password is right: setAuth stores the pair and the page goes to /app.
SignedIn(t) ==
    /\ req[t][SignIn].st = "sent"
    /\ IssueTokens(0)
    /\ storage' = issued + 1
    /\ page' = [page EXCEPT ![t] = "app"]
    /\ SetReq(t, SignIn, Idle)
    /\ UNCHANGED <<inflight, refreshes, presented>>

\* auth.tsx's logout: localStorage is cleared, the server is not told, requests
\* under way stay so, and the route shows the login form.
Logout(t) ==
    /\ page[t] = "app"
    /\ storage' = 0
    /\ page' = [page EXCEPT ![t] = "login"]
    /\ UNCHANGED <<server, req, inflight, refreshes, presented>>

-----------------------------------------------------------------------------
(* The response interceptor. *)

\* Request c is answered 401: no token, an expired one, or a wrong password.
Unauthorized(t, c) ==
    /\ req[t][c].st = "sent"
    /\ c = SignIn \/ req[t][c].pair \notin fresh

\* The retry was refused too: the caller gets the error.
GiveUp(t, c) ==
    /\ Unauthorized(t, c) /\ req[t][c].try = "retry"
    /\ SetReq(t, c, Idle)
    /\ UNCHANGED <<server, storage, page, inflight, refreshes, presented>>

FirstRefusal(t, c) == Unauthorized(t, c) /\ req[t][c].try = "first"

\* The retry carries the new token, unless localStorage holds one: the request
\* interceptor sees the retry too.
Retry(new) == Sent(IF storage = 0 THEN new ELSE storage, "retry")

\* A refresh is under way, or was a moment ago: its promise is shared.
JoinRefresh(t, c) ==
    /\ FirstRefusal(t, c)
    /\ inflight[t].st \in {"pending", "resolved"}
    /\ SetReq(t, c, IF inflight[t].st = "pending" THEN Waiting
                    ELSE Retry(inflight[t].pair))
    /\ UNCHANGED <<server, storage, page, inflight, refreshes, presented>>

StartRefresh(t, c) ==
    /\ FirstRefusal(t, c)
    /\ inflight[t].st = "none" /\ storage # 0
    /\ inflight' = [inflight EXCEPT ![t] = Promise("pending", storage)]
    /\ refreshes' = refreshes \cup {Refresh(t, storage, "sent", 0)}
    /\ presented' = [presented EXCEPT ![t] = @ \cup {storage}]
    /\ SetReq(t, c, Waiting)
    /\ UNCHANGED <<server, storage, page>>

\* The catch block: localStorage is cleared and a page that is not the login
\* form loads it.  On the login form the requests cs fail and the page stays.
Bounce(t, cs, promise) ==
    /\ storage' = 0
    /\ \/ page[t] = "app" /\ Load(t)
       \/ /\ page[t] = "login"
          /\ SetReqs(t, [c \in Request |-> IF c \in cs THEN Idle ELSE req[t][c]])
          /\ inflight' = [inflight EXCEPT ![t] = promise]
          /\ refreshes' = {r \in refreshes : r.for # t}
          /\ UNCHANGED <<page, presented>>
    /\ UNCHANGED server

\* There is no refresh token to present.
NothingToPresent(t, c) ==
    /\ FirstRefusal(t, c)
    /\ inflight[t].st = "none" /\ storage = 0
    /\ Bounce(t, {c}, Promise("stuck", 0))

\* The promise that is still there was rejected.
JoinRejected(t, c) ==
    /\ FirstRefusal(t, c)
    /\ inflight[t].st \in {"rejected", "stuck"}
    /\ Bounce(t, {c}, inflight[t])

\* Variant for mutation: the new pair is used but not stored.
UseOnly(r) ==
    /\ r.for # None /\ r.st = "issued"
    /\ inflight' = [inflight EXCEPT ![r.for] = Promise("resolved", r.new)]
    /\ SetReqs(r.for, [c \in Request |-> IF req[r.for][c].st = "waiting"
                                        THEN Sent(r.new, "retry") ELSE req[r.for][c]])
    /\ refreshes' = refreshes \ {r}
    /\ UNCHANGED <<server, storage, page, presented>>

\* The new pair arrives: it is stored, and the requests that wait are sent again.
RefreshReturns(r) ==
    /\ r.for # None /\ r.st = "issued"
    /\ storage' = r.new
    /\ inflight' = [inflight EXCEPT ![r.for] = Promise("resolved", r.new)]
    /\ SetReqs(r.for, [c \in Request |-> IF req[r.for][c].st = "waiting"
                                        THEN Sent(r.new, "retry") ELSE req[r.for][c]])
    /\ refreshes' = refreshes \ {r}
    /\ UNCHANGED <<server, page, presented>>

\* The refresh was refused or failed: every request that waits runs the catch block.
RefreshRejected(r) ==
    /\ r.for # None /\ r.st \in {"refused", "failed"}
    /\ Bounce(r.for, {c \in Request : req[r.for][c].st = "waiting"}, Promise("rejected", 0))

\* Variant for mutation: the promise is taken back at once.
TimerAtOnce(t) ==
    /\ inflight[t].st \in {"pending", "resolved", "rejected"}
    /\ inflight' = [inflight EXCEPT ![t] = NoPromise]
    /\ UNCHANGED <<server, storage, page, req, refreshes, presented>>

\* The timer of the finally block.
Timer(t) ==
    /\ inflight[t].st \in {"resolved", "rejected"}
    /\ inflight' = [inflight EXCEPT ![t] = NoPromise]
    /\ UNCHANGED <<server, storage, page, req, refreshes, presented>>

-----------------------------------------------------------------------------
Refused(t, c) == \/ GiveUp(t, c) \/ JoinRefresh(t, c) \/ StartRefresh(t, c)
                 \/ NothingToPresent(t, c) \/ JoinRejected(t, c)

Handle(r) == TakeRow(r) \/ IssueNext(r)
Return(r) == RefreshReturns(r) \/ RefreshRejected(r)

PageNext(t) ==
    \/ Reload(t) \/ SendPassword(t) \/ SignedIn(t) \/ Logout(t) \/ Timer(t)
    \/ \E c \in Call : SendCall(t, c) \/ CallAnswered(t, c)
    \/ \E c \in Request : Refused(t, c)

Next ==
    \/ \E t \in Tab : PageNext(t)
    \/ \E r \in refreshes : Handle(r) \/ RefreshFails(r) \/ Return(r)
    \/ \E n \in Pair : AccessExpires(n) \/ RowExpires(n)

Spec == Init /\ [][Next]_vars

-----------------------------------------------------------------------------
(***************************************************************************)
(* Properties.                                                             *)
(***************************************************************************)

\* Property OneLivePerLogin.  "Rotation" (auth.rs:290): of all the refresh tokens
\* that descend from one login at most one works, however many tabs present the
\* same token at once, are loaded anew in between or have their refresh fail.
OneLivePerLogin == \A m, n \in rows : login[m] = login[n] => m = n

\* Property LoginSpec.  Every login is a token that is handed on: taking the row out
\* ends the old token, one successor is issued for it, and a login that is over,
\* because a request failed after its DELETE or the row expired, never comes back
\* (auth.rs:290-313).
L == INSTANCE Logins WITH
        Token <- Pair,
        valid <- [l \in Pair |-> {n \in rows : login[n] = l}],
        renewing <- [l \in Pair |-> {n \in Exchanged : login[n] = l}]

LoginSpec == L!Spec

\* Property SharedRefresh.  "Concurrent 401s must share a single refresh request"
\* (api.ts:29): a page that begins a refresh presents a token it has not presented
\* before, though answers to calls sent with the old access token keep coming
\* after the refresh they share has ended and its timer has fired.
SharedRefresh ==
    [][\A t \in Tab :
          inflight'[t].st = "pending" /\ inflight[t].st # "pending"
             => inflight'[t].pair \notin presented[t]]_vars

\* Property WaitersServed.  No request hangs on a refresh: one that waits has one
\* refresh request of its page under way, whose end, whatever it is, wakes it
\* (api.ts:32-71), also when the login was lost, replaced or given up meanwhile.
WaitersServed ==
    \A t \in Tab, c \in Request :
       req[t][c].st = "waiting" =>
          \E r \in refreshes : r.for = t /\ \A s \in refreshes : s.for = t => s = r

\* Property ServerAskedFirst.  "Allow next cycle to start its own refresh" (api.ts:45):
\* a page throws away a login that the API would still continue only when an
\* attempt to continue it was refused or failed.  (Logout leaves req alone.)
ServerAskedFirst ==
    [][(storage \in rows /\ storage' = 0 /\ req' # req)
          => (\E r \in refreshes : r.st \in {"refused", "failed"})]_vars
=============================================================================
