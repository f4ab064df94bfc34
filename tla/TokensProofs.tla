---------------------------- MODULE TokensProofs ----------------------------
(* What holds of tokens for any tabs, calls and bounds. *)
EXTENDS Tokens, TLAPS

\* The records of the model are what the type invariant says they are.
LEMMA RecordTypes ==
    /\ Idle \in Requests /\ Waiting \in Requests
    /\ \A n \in PairOrNone, try \in {"first", "retry"} : Sent(n, try) \in Requests
    /\ \A n \in PairOrNone, st \in {"none", "pending", "resolved", "rejected", "stuck"} :
          Promise(st, n) \in Promises
    /\ NoPromise \in Promises
BY PairAssumption DEF PairOrNone, Idle, Waiting, Sent, Promise, NoPromise, Requests, Promises

\* The requests of a page keep their types.
LEMMA ReqTypes ==
    ASSUME req \in [Tab -> [Request -> Requests]], NEW t \in Tab
    PROVE  /\ \A c \in Request, q \in Requests :
                SetReq(t, c, q) => req' \in [Tab -> [Request -> Requests]]
           /\ \A f \in [Request -> Requests] :
                SetReqs(t, f) => req' \in [Tab -> [Request -> Requests]]
BY DEF SetReq, SetReqs

\* The fields of a refresh request.
LEMMA RefreshFields ==
    /\ \A r \in Refreshes : r.token \in Pair /\ r.new \in PairOrNone /\ r.for \in Tab \cup {None}
    /\ \A t \in Tab \cup {None}, n \in Pair, new \in PairOrNone,
          st \in {"sent", "taken", "issued", "refused", "failed"} :
          /\ Refresh(t, n, st, new) \in Refreshes
          /\ Refresh(t, n, st, new).token = n /\ Refresh(t, n, st, new).new = new
          /\ Refresh(t, n, st, new).for = t /\ Refresh(t, n, st, new).st = st
BY DEF Refreshes, Refresh

\* A refresh request replaced by another keeps the set's type.
LEMMA RefreshesTypes ==
    ASSUME refreshes \subseteq Refreshes, NEW r \in Refreshes, NEW s \in Refreshes,
           NEW k \in Nat, Becomes(r, s), s.token <= k /\ s.new <= k,
           \A x \in refreshes : x.token <= k /\ x.new <= k
    PROVE  refreshes' \subseteq Refreshes /\ \A x \in refreshes' : x.token <= k /\ x.new <= k
BY DEF Becomes, Kept

\* Property TypeOK: no token is used, stored or presented that was not issued.
THEOREM TypeCorrect == Spec => []TypeOK
<1> USE NoneAssumption, SignInAssumption, PairAssumption
<1>1. Init => TypeOK
  BY RecordTypes DEF Init, TypeOK, Pair, PairOrNone
<1>2. TypeOK /\ [Next]_vars => TypeOK'
  <2> SUFFICES ASSUME TypeOK, [Next]_vars PROVE TypeOK'
    OBVIOUS
  <2>0. /\ req \in [Tab -> [Request -> Requests]] /\ refreshes \subseteq Refreshes
        /\ issued \in 0..MaxPair /\ storage \in 0..issued
        /\ \A r \in refreshes : r \in Refreshes /\ r.token <= issued /\ r.new <= issued
        /\ \A t \in Tab : inflight[t] \in Promises
        /\ storage \in PairOrNone /\ 0 \in PairOrNone
    BY DEF TypeOK, PairOrNone
  <2>00. \A r \in refreshes : /\ r.token \in Pair /\ r.new \in PairOrNone
                             /\ r.for \in Tab \cup {None}
    BY <2>0, RefreshFields
  <2> USE DEF server
  <2>1. ASSUME NEW r \in refreshes, TakeRow(r) PROVE TypeOK'
    <3> DEFINE s == Refresh(r.for, r.token, IF r.token \in rows THEN "taken" ELSE "refused", 0)
    <3>1. s \in Refreshes /\ s.token = r.token /\ s.new = 0
      BY <2>0, <2>00, RefreshFields
    <3>2. Becomes(r, s)
      BY <2>1 DEF TakeRow
    <3> HIDE DEF s
    <3>3. refreshes' \subseteq Refreshes /\ \A x \in refreshes' : x.token <= issued /\ x.new <= issued
      BY <2>0, <3>1, <3>2, RefreshesTypes
    <3> QED BY <2>1, <3>3 DEF TakeRow, TypeOK
  <2>2. ASSUME NEW r \in refreshes, IssueNext(r) PROVE TypeOK'
    <3> DEFINE s == Refresh(r.for, r.token, "issued", issued + 1)
    <3>1. issued + 1 \in Pair /\ issued' = issued + 1
      BY <2>0, <2>2 DEF IssueNext, IssueTokens, Pair
    <3>2. s \in Refreshes /\ s.token = r.token /\ s.new = issued + 1
      <4>1. issued + 1 \in PairOrNone
        BY <3>1 DEF Pair, PairOrNone
      <4> QED BY <2>00, <4>1, RefreshFields
    <3>3. Becomes(r, s)
      BY <2>2 DEF IssueNext
    <3> HIDE DEF s
    <3>4. refreshes' \subseteq Refreshes /\ \A x \in refreshes' : x.token <= issued' /\ x.new <= issued'
      <4>1. \A x \in refreshes : x.token <= issued + 1 /\ x.new <= issued + 1
        BY <2>0, <2>00 DEF Pair, PairOrNone
      <4> QED BY <2>0, <3>1, <3>2, <3>3, <4>1, RefreshesTypes
    <3>5. r.token \in Pair
      BY <2>00
    <3> QED BY <2>2, <3>1, <3>4, <3>5 DEF IssueNext, IssueTokens, TypeOK, Pair, PairOrNone
  <2>3. ASSUME NEW r \in refreshes, RefreshFails(r) PROVE TypeOK'
    <3> DEFINE s == Refresh(r.for, r.token, "failed", 0)
    <3>1. s \in Refreshes /\ s.token = r.token /\ s.new = 0
      BY <2>0, <2>00, RefreshFields
    <3>2. Becomes(r, s)
      BY <2>3 DEF RefreshFails
    <3> HIDE DEF s
    <3>3. refreshes' \subseteq Refreshes /\ \A x \in refreshes' : x.token <= issued /\ x.new <= issued
      BY <2>0, <3>1, <3>2, RefreshesTypes
    <3> QED BY <2>3, <3>3 DEF RefreshFails, TypeOK
  <2>4. ASSUME NEW n \in Pair, AccessExpires(n) \/ RowExpires(n) PROVE TypeOK'
    BY <2>4 DEF AccessExpires, RowExpires, TypeOK
  <2>5. ASSUME NEW t \in Tab, Load(t), UNCHANGED server, storage' \in 0..issued PROVE TypeOK'
    <3>1. req' \in [Tab -> [Request -> Requests]]
      BY <2>0, <2>5, ReqTypes, RecordTypes DEF Load
    <3>2. refreshes' \subseteq Refreshes /\ \A x \in refreshes' : x.token <= issued /\ x.new <= issued
      <4> SUFFICES ASSUME NEW x \in refreshes'
                   PROVE  x \in Refreshes /\ x.token <= issued /\ x.new <= issued
        OBVIOUS
      <4>1. PICK r \in refreshes : x = IF r.for = t THEN Refresh(None, r.token, r.st, r.new) ELSE r
        BY <2>5 DEF Load, Kept
      <4>2. r \in Refreshes /\ r.st \in {"sent", "taken", "issued", "refused", "failed"}
        BY <2>0 DEF Refreshes
      <4>3. Refresh(None, r.token, r.st, r.new) \in Refreshes
            /\ Refresh(None, r.token, r.st, r.new).token = r.token
            /\ Refresh(None, r.token, r.st, r.new).new = r.new
        BY <2>00, <4>2, RefreshFields
      <4> QED BY <2>0, <4>1, <4>3
    <3> QED BY <2>0, <2>5, <3>1, <3>2, RecordTypes DEF Load, TypeOK
  <2>6. ASSUME NEW t \in Tab, Reload(t) PROVE TypeOK'
    BY <2>0, <2>5, <2>6 DEF Reload
  <2>7. ASSUME NEW t \in Tab, NEW c \in Call, SendCall(t, c) \/ CallAnswered(t, c)
        PROVE  TypeOK'
    <3>1. req' \in [Tab -> [Request -> Requests]]
      BY <2>0, <2>7, ReqTypes, RecordTypes DEF SendCall, CallAnswered, Request
    <3>2. UNCHANGED <<server, storage, page, inflight, refreshes, presented>>
      BY <2>7 DEF SendCall, CallAnswered
    <3> QED BY <3>1, <3>2 DEF TypeOK
  <2>8. ASSUME NEW t \in Tab, SendPassword(t) PROVE TypeOK'
    <3>1. req' \in [Tab -> [Request -> Requests]]
      BY <2>0, <2>8, ReqTypes, RecordTypes DEF SendPassword, Request
    <3> QED BY <2>8, <3>1 DEF SendPassword, TypeOK
  <2>9. ASSUME NEW t \in Tab, SignedIn(t) PROVE TypeOK'
    <3>1. req' \in [Tab -> [Request -> Requests]]
      BY <2>0, <2>9, ReqTypes, RecordTypes DEF SignedIn, Request
    <3>2. \A x \in refreshes : x.token <= issued + 1 /\ x.new <= issued + 1
      BY <2>0, <2>00 DEF Pair, PairOrNone
    <3>3. issued' = issued + 1 /\ issued + 1 \in Pair
      BY <2>0, <2>9 DEF SignedIn, IssueTokens, Pair
    <3>4. login' \in [Pair -> PairOrNone]
      BY <2>9, <3>3 DEF SignedIn, IssueTokens, TypeOK, Pair, PairOrNone
    <3>5. /\ fresh' \subseteq 1..issued' /\ rows' \subseteq 1..issued' /\ storage' \in 0..issued'
          /\ issued' \in PairOrNone
      BY <2>0, <2>9, <3>3 DEF SignedIn, IssueTokens, TypeOK, Pair, PairOrNone
    <3>6. presented' \in [Tab -> SUBSET (1..issued')]
      BY <2>0, <2>9, <3>3 DEF SignedIn, TypeOK
    <3> QED BY <2>9, <3>1, <3>2, <3>3, <3>4, <3>5, <3>6 DEF SignedIn, TypeOK
  <2>10. ASSUME NEW t \in Tab, Logout(t) \/ Timer(t) PROVE TypeOK'
    <3>1. inflight' \in [Tab -> Promises]
      BY <2>10, RecordTypes DEF Logout, Timer, TypeOK
    <3>2. CASE Logout(t)
      BY <2>0, <3>1, <3>2 DEF Logout, TypeOK
    <3>3. CASE Timer(t)
      BY <3>1, <3>3 DEF Timer, TypeOK
    <3> QED BY <2>10, <3>2, <3>3
  <2>11. ASSUME NEW t \in Tab, NEW c \in Request, GiveUp(t, c) \/ JoinRefresh(t, c)
         PROVE  TypeOK'
    <3>1. inflight[t].pair \in PairOrNone
      BY <2>0 DEF Promises
    <3>2. Retry(inflight[t].pair) \in Requests
      BY <2>0, <3>1, RecordTypes, PairAssumption DEF Retry, PairOrNone, TypeOK
    <3>3. req' \in [Tab -> [Request -> Requests]]
      BY <2>0, <2>11, <3>2, ReqTypes, RecordTypes DEF GiveUp, JoinRefresh
    <3>4. UNCHANGED <<server, storage, page, inflight, refreshes, presented>>
      BY <2>11 DEF GiveUp, JoinRefresh
    <3> QED BY <3>3, <3>4 DEF TypeOK
  <2>12. ASSUME NEW t \in Tab, NEW c \in Request, StartRefresh(t, c) PROVE TypeOK'
    <3>1. req' \in [Tab -> [Request -> Requests]]
      BY <2>0, <2>12, ReqTypes, RecordTypes DEF StartRefresh
    <3>0. storage \in Pair
      BY <2>0, <2>12 DEF StartRefresh, Pair, PairOrNone
    <3>2. refreshes' \subseteq Refreshes /\ \A x \in refreshes' : x.token <= issued /\ x.new <= issued
      <4>1. /\ Refresh(t, storage, "sent", 0) \in Refreshes
            /\ Refresh(t, storage, "sent", 0).token = storage
            /\ Refresh(t, storage, "sent", 0).new = 0
        BY <2>0, <3>0, RefreshFields
      <4>2. storage <= issued /\ 0 <= issued
        BY <2>0
      <4> QED BY <2>0, <2>12, <4>1, <4>2 DEF StartRefresh
    <3>3. inflight' \in [Tab -> Promises]
      BY <2>0, <2>12, RecordTypes DEF StartRefresh, TypeOK
    <3> QED BY <2>0, <2>12, <3>1, <3>2, <3>3 DEF StartRefresh, TypeOK
  <2>13. ASSUME NEW t \in Tab, NEW cs, NEW p \in Promises, Bounce(t, cs, p) PROVE TypeOK'
    <3>1. CASE page[t] = "app"
      BY <2>0, <2>5, <2>13, <3>1 DEF Bounce
    <3>2. CASE page[t] = "login"
      <4>1. req' \in [Tab -> [Request -> Requests]]
        BY <2>0, <2>13, <3>2, ReqTypes, RecordTypes DEF Bounce
      <4>2. inflight' \in [Tab -> Promises]
        BY <2>13, <3>2 DEF Bounce, TypeOK, Load
      <4>3. /\ storage' = 0 /\ refreshes' \subseteq refreshes
            /\ UNCHANGED <<server, page, presented>>
        BY <2>13, <3>2 DEF Bounce
      <4> QED BY <2>0, <4>1, <4>2, <4>3 DEF TypeOK
    <3> QED BY <2>13, <3>1, <3>2 DEF Bounce
  <2>14. ASSUME NEW t \in Tab, NEW c \in Request, NothingToPresent(t, c) \/ JoinRejected(t, c)
         PROVE  TypeOK'
    <3>1. Promise("stuck", 0) \in Promises /\ inflight[t] \in Promises
      BY <2>0, RecordTypes
    <3> QED BY <2>13, <2>14, <3>1 DEF NothingToPresent, JoinRejected
  <2>15. ASSUME NEW r \in refreshes, RefreshReturns(r) PROVE TypeOK'
    <3>1. r.for \in Tab /\ r.new \in PairOrNone
      BY <2>0, <2>15, RefreshFields DEF RefreshReturns
    <3> DEFINE f == [c \in Request |-> IF req[r.for][c].st = "waiting"
                                       THEN Sent(r.new, "retry") ELSE req[r.for][c]]
    <3>2. f \in [Request -> Requests]
      BY <2>0, <3>1, RecordTypes
    <3>3. SetReqs(r.for, f)
      BY <2>15 DEF RefreshReturns
    <3> HIDE DEF f
    <3>4. req' \in [Tab -> [Request -> Requests]]
      BY <2>0, <3>1, <3>2, <3>3, ReqTypes
    <3>5. inflight' \in [Tab -> Promises]
      BY <2>15, <3>1, RecordTypes DEF RefreshReturns, TypeOK
    <3>6. r.new \in 0..issued
      BY <2>0, <2>00 DEF PairOrNone
    <3> QED BY <2>0, <2>15, <3>4, <3>5, <3>6 DEF RefreshReturns, TypeOK
  <2>16. ASSUME NEW r \in refreshes, RefreshRejected(r) PROVE TypeOK'
    <3>1. r.for \in Tab
      BY <2>0, <2>16, RefreshFields DEF RefreshRejected
    <3>2. Promise("rejected", 0) \in Promises
      BY <2>0, RecordTypes
    <3> QED BY <2>13, <2>16, <3>1, <3>2 DEF RefreshRejected
  <2>17. CASE UNCHANGED vars
    BY <2>17 DEF vars, TypeOK
  <2> QED
    BY <2>1, <2>2, <2>3, <2>4, <2>6, <2>7, <2>8, <2>9, <2>10, <2>11, <2>12, <2>14, <2>15,
       <2>16, <2>17 DEF Next, PageNext, Refused, Handle, Return
<1> QED BY <1>1, <1>2, PTL DEF Spec

-----------------------------------------------------------------------------
(***************************************************************************)
(* Rotation.                                                               *)
(***************************************************************************)

\* The refresh tokens in the table and those a handler has taken out of it, and
\* will put a successor of in, belong to different logins.
Rotation ==
    /\ \A n \in 1..issued : login[n] \in 1..issued
    /\ OneLivePerLogin
    /\ \A r \in refreshes, n \in rows : r.st = "taken" => login[n] # login[r.token]
    /\ \A r, s \in refreshes :
          r.st = "taken" /\ s.st = "taken" /\ login[r.token] = login[s.token] => r = s

\* Where the requests come from that are under way after a page is loaded.
LEMMA LoadedFrom ==
    ASSUME TypeOK, NEW t \in Tab, Load(t), NEW x \in refreshes'
    PROVE  \E r \in refreshes :
              /\ x = IF r.for = t THEN Refresh(None, r.token, r.st, r.new) ELSE r
              /\ x.token = r.token /\ x.st = r.st /\ x.new = r.new
              /\ x.for # t /\ (x.for \in Tab => x = r)
              /\ (x.for = None => x.st \notin Ending)
<1>1. PICK r \in refreshes : x = IF r.for = t THEN Refresh(None, r.token, r.st, r.new) ELSE r
  BY DEF Load, Kept
<1>2. x.for # None \/ x.st \notin Ending
  BY DEF Load, Kept
<1>3. r \in Refreshes
  BY DEF TypeOK
<1>4. r.st \in {"sent", "taken", "issued", "refused", "failed"} /\ r.for \in Tab \cup {None}
      /\ r.token \in Pair /\ r.new \in PairOrNone
  BY <1>3 DEF Refreshes
<1>5. /\ Refresh(None, r.token, r.st, r.new).token = r.token
      /\ Refresh(None, r.token, r.st, r.new).st = r.st
      /\ Refresh(None, r.token, r.st, r.new).new = r.new
      /\ Refresh(None, r.token, r.st, r.new).for = None
  BY DEF Refresh
<1> QED BY <1>1, <1>2, <1>4, <1>5, NoneAssumption

\* The same for a handler's step: one request is replaced, or dropped.
LEMMA BecomesFrom ==
    ASSUME NEW r \in refreshes, NEW s, Becomes(r, s), NEW x \in refreshes'
    PROVE  (x \in refreshes /\ x # r) \/ (x = s /\ (s.for # None \/ s.st \notin Ending))
BY DEF Becomes, Kept

LEMMA RotationStep ==
    ASSUME TypeOK, TypeOK', Rotation, [Next]_vars PROVE Rotation'
<1> USE NoneAssumption, PairAssumption
<1>0. /\ issued \in 0..MaxPair /\ rows \subseteq 1..issued
      /\ login \in [Pair -> PairOrNone]
      /\ \A r \in refreshes : /\ r \in Refreshes /\ r.token \in 1..issued
                             /\ r.for \in Tab \cup {None}
  BY RefreshFields DEF TypeOK, Pair, PairOrNone
<1>1. ASSUME NEW r \in refreshes, TakeRow(r) PROVE Rotation'
  <2> DEFINE s == Refresh(r.for, r.token, IF r.token \in rows THEN "taken" ELSE "refused", 0)
  <2>1. Becomes(r, s) /\ rows' = rows \ {r.token} /\ UNCHANGED <<issued, login>>
    BY <1>1 DEF TakeRow
  <2>2. s.token = r.token /\ (s.st = "taken" => r.token \in rows)
    <3>1. r.token \in Pair /\ 0 \in PairOrNone
      BY <1>0 DEF Pair, PairOrNone
    <3> QED BY <1>0, <3>1, RefreshFields
  <2> HIDE DEF s
  <2>3. \A x \in refreshes' : (x \in refreshes /\ x # r) \/ x = s
    BY <2>1, BecomesFrom
  <2>4. ASSUME NEW x \in refreshes', x.st = "taken", NEW n \in rows' PROVE login[n] # login[x.token]
    BY <2>1, <2>2, <2>3, <2>4 DEF Rotation, OneLivePerLogin
  <2>5. ASSUME NEW x \in refreshes', NEW y \in refreshes', x.st = "taken", y.st = "taken",
               login[x.token] = login[y.token]
        PROVE  x = y
    BY <2>2, <2>3, <2>5 DEF Rotation
  <2> QED BY <2>1, <2>4, <2>5 DEF Rotation, OneLivePerLogin
<1>2. ASSUME NEW r \in refreshes, IssueNext(r) PROVE Rotation'
  <2> DEFINE s == Refresh(r.for, r.token, "issued", issued + 1)
  <2>0. r.token # 0 /\ issued < MaxPair /\ issued + 1 \in 1..MaxPair
    <3>1. r.token \in 1..issued /\ issued \in 0..MaxPair
      BY <1>0
    <3> QED BY <3>1, <1>2 DEF IssueNext, IssueTokens
  <2>1. /\ Becomes(r, s) /\ r.st = "taken"
        /\ issued + 1 \in Pair /\ issued' = issued + 1 /\ rows' = rows \cup {issued + 1}
        /\ login' = [login EXCEPT ![issued + 1] = login[r.token]]
    <3>1. Becomes(r, s) /\ r.st = "taken"
      BY <1>2 DEF IssueNext
    <3>2. issued' = issued + 1 /\ rows' = rows \cup {issued + 1}
      BY <1>2 DEF IssueNext, IssueTokens
    <3>3. login' = [login EXCEPT ![issued + 1] = login[r.token]]
      <4>1. login' = [login EXCEPT ![issued + 1] = IF r.token = 0 THEN issued + 1 ELSE login[r.token]]
        BY <1>2 DEF IssueNext, IssueTokens
      <4> QED BY <2>0, <4>1
    <3> QED BY <2>0, <3>1, <3>2, <3>3 DEF Pair
  <2>2. s.st = "issued"
    <3>1. r.token \in Pair /\ issued + 1 \in PairOrNone
      BY <1>0, <2>1 DEF Pair, PairOrNone
    <3> QED BY <1>0, <3>1, RefreshFields
  <2> HIDE DEF s
  <2>3. \A x \in refreshes' : x.st = "taken" => x \in refreshes /\ x # r
    BY <2>1, <2>2, BecomesFrom
  <2>4. login'[issued + 1] = login[r.token] /\ \A n \in 1..issued : login'[n] = login[n]
    BY <1>0, <2>1 DEF Pair
  <2>5. \A n \in 1..issued' : login'[n] \in 1..issued'
    BY <1>0, <2>1, <2>4 DEF Rotation
  <2>6. ASSUME NEW m \in rows', NEW n \in rows', login'[m] = login'[n] PROVE m = n
    BY <1>0, <2>1, <2>4, <2>6 DEF Rotation, OneLivePerLogin
  <2>7. ASSUME NEW x \in refreshes', x.st = "taken", NEW n \in rows'
        PROVE  login'[n] # login'[x.token]
    BY <1>0, <2>1, <2>3, <2>4, <2>7 DEF Rotation
  <2>8. ASSUME NEW x \in refreshes', NEW y \in refreshes', x.st = "taken", y.st = "taken",
               login'[x.token] = login'[y.token]
        PROVE  x = y
    BY <1>0, <2>3, <2>4, <2>8 DEF Rotation
  <2> QED BY <2>5, <2>6, <2>7, <2>8 DEF Rotation, OneLivePerLogin
<1>3. ASSUME NEW r \in refreshes, RefreshFails(r) PROVE Rotation'
  <2> DEFINE s == Refresh(r.for, r.token, "failed", 0)
  <2>1. Becomes(r, s) /\ UNCHANGED <<issued, login, rows>>
    BY <1>3 DEF RefreshFails, server
  <2>2. s.st = "failed"
    <3>1. r.token \in Pair /\ 0 \in PairOrNone
      BY <1>0 DEF Pair, PairOrNone
    <3> QED BY <1>0, <3>1, RefreshFields
  <2> HIDE DEF s
  <2>3. \A x \in refreshes' : x.st = "taken" => x \in refreshes
    BY <2>1, <2>2, BecomesFrom
  <2> QED BY <2>1, <2>3 DEF Rotation, OneLivePerLogin
<1>4. ASSUME NEW n \in Pair, AccessExpires(n) \/ RowExpires(n) PROVE Rotation'
  BY <1>4 DEF AccessExpires, RowExpires, Rotation, OneLivePerLogin
<1>5. ASSUME NEW t \in Tab, Load(t), UNCHANGED server PROVE Rotation'
  <2>1. UNCHANGED <<issued, login, rows>>
    BY <1>5 DEF server
  <2>2. ASSUME NEW x \in refreshes', x.st = "taken", NEW n \in rows' PROVE login[n] # login[x.token]
    <3>1. PICK r \in refreshes : x.token = r.token /\ x.st = r.st
      BY <1>5, LoadedFrom
    <3> QED BY <2>1, <2>2, <3>1 DEF Rotation
  <2>3. ASSUME NEW x \in refreshes', NEW y \in refreshes', x.st = "taken", y.st = "taken",
               login[x.token] = login[y.token]
        PROVE  x = y
    <3>1. PICK r \in refreshes : /\ x = IF r.for = t THEN Refresh(None, r.token, r.st, r.new) ELSE r
                                /\ x.token = r.token /\ x.st = r.st
      BY <1>5, LoadedFrom
    <3>2. PICK s \in refreshes : /\ y = IF s.for = t THEN Refresh(None, s.token, s.st, s.new) ELSE s
                                /\ y.token = s.token /\ y.st = s.st
      BY <1>5, LoadedFrom
    <3>3. r = s
      BY <2>3, <3>1, <3>2 DEF Rotation
    <3> QED BY <3>1, <3>2, <3>3
  <2> QED BY <2>1, <2>2, <2>3 DEF Rotation, OneLivePerLogin
<1>6. ASSUME NEW t \in Tab, SignedIn(t) PROVE Rotation'
  <2>1. /\ issued + 1 \in Pair /\ issued' = issued + 1 /\ rows' = rows \cup {issued + 1}
        /\ login' = [login EXCEPT ![issued + 1] = issued + 1] /\ refreshes' = refreshes
    BY <1>0, <1>6 DEF SignedIn, IssueTokens, Pair
  <2>2. login'[issued + 1] = issued + 1 /\ \A n \in 1..issued : login'[n] = login[n]
    BY <1>0, <2>1 DEF Pair
  <2>3. \A n \in 1..issued' : login'[n] \in 1..issued'
    BY <1>0, <2>1, <2>2 DEF Rotation
  <2>4. \A m, n \in rows' : login'[m] = login'[n] => m = n
    BY <1>0, <2>1, <2>2 DEF Rotation, OneLivePerLogin
  <2>5. \A r \in refreshes' : r.token \in 1..issued /\ login'[r.token] = login[r.token]
    BY <1>0, <2>1, <2>2
  <2>6. \A r \in refreshes', n \in rows' : r.st = "taken" => login'[n] # login'[r.token]
    BY <1>0, <2>1, <2>2, <2>5 DEF Rotation
  <2> QED BY <2>1, <2>3, <2>4, <2>5, <2>6 DEF Rotation, OneLivePerLogin
<1>7. ASSUME refreshes' \subseteq refreshes, UNCHANGED server PROVE Rotation'
  BY <1>7 DEF Rotation, OneLivePerLogin, server
<1>8. ASSUME NEW t \in Tab, NEW c \in Request, StartRefresh(t, c) PROVE Rotation'
  <2>1. storage \in Pair /\ 0 \in PairOrNone
    BY <1>8 DEF StartRefresh, TypeOK, Pair, PairOrNone
  <2>2. Refresh(t, storage, "sent", 0).st = "sent"
    BY <2>1, RefreshFields
  <2>3. \A x \in refreshes' : x.st = "taken" => x \in refreshes
    BY <1>8, <2>2 DEF StartRefresh
  <2> QED BY <1>8, <2>3 DEF StartRefresh, Rotation, OneLivePerLogin, server
<1>9. ASSUME NEW t \in Tab, NEW cs, NEW p, Bounce(t, cs, p) PROVE Rotation'
  <2>1. CASE page[t] = "app"
    BY <1>5, <1>9, <2>1 DEF Bounce
  <2>2. CASE page[t] # "app"
    BY <1>7, <1>9, <2>2 DEF Bounce
  <2> QED BY <2>1, <2>2
<1>10. ASSUME NEW t \in Tab, PageNext(t) PROVE Rotation'
  <2>1. CASE Reload(t)
    BY <1>5, <2>1 DEF Reload
  <2>2. CASE SendPassword(t) \/ Logout(t) \/ Timer(t)
    BY <1>7, <2>2 DEF SendPassword, Logout, Timer
  <2>3. ASSUME NEW c \in Call, SendCall(t, c) \/ CallAnswered(t, c) PROVE Rotation'
    BY <1>7, <2>3 DEF SendCall, CallAnswered
  <2>4. ASSUME NEW c \in Request, GiveUp(t, c) \/ JoinRefresh(t, c) PROVE Rotation'
    BY <1>7, <2>4 DEF GiveUp, JoinRefresh
  <2>5. ASSUME NEW c \in Request, NothingToPresent(t, c) \/ JoinRejected(t, c) PROVE Rotation'
    BY <1>9, <2>5 DEF NothingToPresent, JoinRejected
  <2> QED BY <1>6, <1>8, <1>10, <2>1, <2>2, <2>3, <2>4, <2>5 DEF PageNext, Refused
<1>11. ASSUME NEW r \in refreshes, RefreshReturns(r) PROVE Rotation'
  BY <1>7, <1>11 DEF RefreshReturns
<1>12. ASSUME NEW r \in refreshes, RefreshRejected(r) PROVE Rotation'
  BY <1>0, <1>9, <1>12 DEF RefreshRejected
<1>13. CASE UNCHANGED vars
  BY <1>7, <1>13 DEF vars, server
<1> QED BY <1>1, <1>2, <1>3, <1>4, <1>10, <1>11, <1>12, <1>13 DEF Next, Handle, Return

\* Property OneLivePerLogin, however refreshes of one token interleave, fail and
\* lose their page (auth.rs:290-297).
THEOREM RotatesEveryLogin == Spec => []OneLivePerLogin
<1>1. Init => Rotation
  BY DEF Init, Rotation, OneLivePerLogin
<1>2. TypeOK /\ TypeOK' /\ Rotation /\ [Next]_vars => Rotation'
  BY RotationStep
<1>3. Rotation => OneLivePerLogin
  BY DEF Rotation
<1> QED BY <1>1, <1>2, <1>3, TypeCorrect, PTL DEF Spec

-----------------------------------------------------------------------------
(***************************************************************************)
(* The promise that a page's requests share.                               *)
(***************************************************************************)

\* A page's promise is pending exactly as long as one request of its page is under
\* way, and only then do its calls wait.
Awaited ==
    /\ \A t \in Tab, c \in Request : req[t][c].st = "waiting" => inflight[t].st = "pending"
    /\ \A t \in Tab : inflight[t].st = "pending" => \E r \in refreshes : r.for = t
    /\ \A r \in refreshes : r.for \in Tab => inflight[r.for].st = "pending"
    /\ \A r, s \in refreshes : r.for \in Tab /\ r.for = s.for => r = s

\* The pair a request brings back has not been stored or presented, nor has that in
\* localStorage been presented by a page whose promise is not pending.
Unused ==
    /\ \A t \in Tab : storage # 0 /\ inflight[t].st # "pending" => storage \notin presented[t]
    /\ \A r \in refreshes : r.st = "issued" =>
          /\ r.for \in Tab /\ r.new # 0 /\ r.new # storage
          /\ \A t \in Tab : r.new \notin presented[t]
    /\ \A r, s \in refreshes : r.st = "issued" /\ s.st = "issued" /\ r.new = s.new => r = s

LEMMA PromiseFields ==
    /\ \A st, n : Promise(st, n).st = st /\ Promise(st, n).pair = n
    /\ NoPromise.st = "none" /\ Idle.st = "idle" /\ Waiting.st = "waiting"
    /\ \A n, try : Sent(n, try).st = "sent"
BY DEF Promise, NoPromise, Idle, Waiting, Sent

\* A handler's step on r replaces it by s, which waits for the same page.
LEMMA AwaitedByHandler ==
    ASSUME TypeOK, Awaited, NEW r \in refreshes, NEW s, Becomes(r, s), s.for = r.for,
           UNCHANGED <<req, inflight>>
    PROVE  Awaited'
<1>1. \A x \in refreshes' : (x \in refreshes /\ x # r) \/ x = s
  BY BecomesFrom
<1>2. \A x \in refreshes : x # r => x \in refreshes'
  BY DEF Becomes
<1>3. r.for \in Tab => s \in refreshes'
  BY NoneAssumption DEF Becomes, Kept
<1>4. \A t \in Tab : inflight[t].st = "pending" => \E x \in refreshes' : x.for = t
  <2> SUFFICES ASSUME NEW t \in Tab, inflight[t].st = "pending" PROVE \E x \in refreshes' : x.for = t
    OBVIOUS
  <2>1. PICK x \in refreshes : x.for = t
    BY DEF Awaited
  <2> QED BY <1>2, <1>3, <2>1
<1>5. \A x \in refreshes' : x.for \in Tab => inflight[x.for].st = "pending"
  BY <1>1 DEF Awaited
<1>6. \A x, y \in refreshes' : x.for \in Tab /\ x.for = y.for => x = y
  BY <1>1 DEF Awaited
<1> QED BY <1>4, <1>5, <1>6 DEF Awaited

\* A page that is loaded anew waits for nothing.
LEMMA AwaitedByLoad ==
    ASSUME TypeOK, Awaited, NEW t \in Tab, Load(t) PROVE Awaited'
<1>0. /\ req \in [Tab -> [Request -> Requests]] /\ inflight \in [Tab -> Promises]
      /\ \A r \in refreshes : r.for \in Tab \cup {None}
  BY RefreshFields DEF TypeOK
<1>1. /\ \A c \in Request : req'[t][c] = Idle
      /\ \A u \in Tab : u # t => req'[u] = req[u] /\ inflight'[u] = inflight[u]
      /\ inflight'[t] = NoPromise
  BY <1>0 DEF Load, SetReqs
<1>2. \A x \in refreshes' : x.for # t /\ (x.for \in Tab => x \in refreshes)
  BY LoadedFrom
<1>3. \A x \in refreshes : x.for \in Tab /\ x.for # t => x \in refreshes'
  <2> SUFFICES ASSUME NEW x \in refreshes, x.for \in Tab, x.for # t PROVE x \in refreshes'
    OBVIOUS
  <2>1. x \in {IF r.for = t THEN Refresh(None, r.token, r.st, r.new) ELSE r : r \in refreshes}
    OBVIOUS
  <2> QED BY <2>1, NoneAssumption DEF Load, Kept
<1>4. \A u \in Tab, c \in Request : req'[u][c].st = "waiting" => inflight'[u].st = "pending"
  BY <1>1, PromiseFields DEF Awaited
<1>5. \A u \in Tab : inflight'[u].st = "pending" => \E x \in refreshes' : x.for = u
  <2> SUFFICES ASSUME NEW u \in Tab, inflight'[u].st = "pending" PROVE \E x \in refreshes' : x.for = u
    OBVIOUS
  <2>1. u # t /\ inflight[u].st = "pending"
    BY <1>1, PromiseFields
  <2>2. PICK x \in refreshes : x.for = u
    BY <2>1 DEF Awaited
  <2> QED BY <1>3, <2>1, <2>2
<1>6. \A x \in refreshes' : x.for \in Tab => inflight'[x.for].st = "pending"
  BY <1>1, <1>2 DEF Awaited
<1>7. \A x, y \in refreshes' : x.for \in Tab /\ x.for = y.for => x = y
  BY <1>2 DEF Awaited
<1> QED BY <1>4, <1>5, <1>6, <1>7 DEF Awaited

\* A page's request comes back and leaves none of its calls waiting.
LEMMA AwaitedByReturn ==
    ASSUME TypeOK, Awaited, NEW t \in Tab, NEW f \in [Request -> Requests], NEW p,
           SetReqs(t, f), \A c \in Request : f[c].st # "waiting", p.st # "pending",
           inflight' = [inflight EXCEPT ![t] = p], refreshes' = {r \in refreshes : r.for # t}
    PROVE  Awaited'
<1>0. req \in [Tab -> [Request -> Requests]] /\ inflight \in [Tab -> Promises]
  BY DEF TypeOK
<1>1. /\ req'[t] = f /\ inflight'[t] = p
      /\ \A u \in Tab : u # t => req'[u] = req[u] /\ inflight'[u] = inflight[u]
  BY <1>0 DEF SetReqs
<1>2. \A u \in Tab, c \in Request : req'[u][c].st = "waiting" => inflight'[u].st = "pending"
  BY <1>1 DEF Awaited
<1>3. \A u \in Tab : inflight'[u].st = "pending" => \E x \in refreshes' : x.for = u
  <2> SUFFICES ASSUME NEW u \in Tab, inflight'[u].st = "pending" PROVE \E x \in refreshes' : x.for = u
    OBVIOUS
  <2>1. u # t /\ inflight[u].st = "pending"
    BY <1>1
  <2>2. PICK x \in refreshes : x.for = u
    BY <2>1 DEF Awaited
  <2> QED BY <2>1, <2>2
<1>4. \A x \in refreshes' : x.for \in Tab => inflight'[x.for].st = "pending"
  BY <1>1 DEF Awaited
<1>5. \A x, y \in refreshes' : x.for \in Tab /\ x.for = y.for => x = y
  BY DEF Awaited
<1> QED BY <1>2, <1>3, <1>4, <1>5 DEF Awaited

\* Requests of page t that do not wait.
LEMMA AwaitedByRequest ==
    ASSUME TypeOK, Awaited, NEW t \in Tab, NEW c \in Request, NEW q,
           SetReq(t, c, q), q.st = "waiting" => inflight[t].st = "pending",
           UNCHANGED <<inflight, refreshes>>
    PROVE  Awaited'
<1>0. req \in [Tab -> [Request -> Requests]]
  BY DEF TypeOK
<1>1. \A u \in Tab, d \in Request : req'[u][d] = IF u = t /\ d = c THEN q ELSE req[u][d]
  BY <1>0 DEF SetReq
<1> QED BY <1>1 DEF Awaited

LEMMA AwaitedByBounce ==
    ASSUME TypeOK, Awaited, NEW t \in Tab, NEW cs, NEW p, Bounce(t, cs, p), p.st # "pending",
           \A c \in Request : req[t][c].st = "waiting" => c \in cs
    PROVE  Awaited'
<1>1. CASE page[t] = "app" /\ Load(t)
  BY <1>1, AwaitedByLoad
<1>2. CASE ~(page[t] = "app" /\ Load(t))
  <2> DEFINE f == [c \in Request |-> IF c \in cs THEN Idle ELSE req[t][c]]
  <2>1. f \in [Request -> Requests]
    BY RecordTypes DEF TypeOK
  <2>2. \A c \in Request : f[c].st # "waiting"
    BY PromiseFields
  <2>3. /\ SetReqs(t, f) /\ inflight' = [inflight EXCEPT ![t] = p]
        /\ refreshes' = {r \in refreshes : r.for # t}
    BY <1>2 DEF Bounce
  <2> HIDE DEF f
  <2> QED BY <2>1, <2>2, <2>3, AwaitedByReturn
<1> QED BY <1>1, <1>2

LEMMA AwaitedStep ==
    ASSUME TypeOK, Awaited, [Next]_vars PROVE Awaited'
<1>0. /\ req \in [Tab -> [Request -> Requests]] /\ inflight \in [Tab -> Promises]
      /\ \A r \in refreshes : r.for \in Tab \cup {None}
      /\ \A c \in Call : c \in Request
      /\ SignIn \in Request
  BY RefreshFields DEF TypeOK, Request
<1>1. ASSUME NEW r \in refreshes, TakeRow(r) \/ IssueNext(r) \/ RefreshFails(r) PROVE Awaited'
  <2>1. \E s : Becomes(r, s) /\ s.for = r.for
    <3>1. \E n, st, new : Becomes(r, Refresh(r.for, n, st, new))
      BY <1>1 DEF TakeRow, IssueNext, RefreshFails
    <3>2. \A n, st, new : Refresh(r.for, n, st, new).for = r.for
      BY DEF Refresh
    <3> QED BY <3>1, <3>2
  <2>2. UNCHANGED <<req, inflight>>
    BY <1>1 DEF TakeRow, IssueNext, RefreshFails
  <2>3. PICK s : Becomes(r, s) /\ s.for = r.for
    BY <2>1
  <2> QED BY <2>2, <2>3, AwaitedByHandler
<1>2. ASSUME UNCHANGED <<req, inflight, refreshes>> PROVE Awaited'
  BY <1>2 DEF Awaited
<1>3. ASSUME NEW n \in Pair, AccessExpires(n) \/ RowExpires(n) PROVE Awaited'
  BY <1>2, <1>3 DEF AccessExpires, RowExpires
<1>4. ASSUME NEW t \in Tab, NEW c \in Call, SendCall(t, c) \/ CallAnswered(t, c) PROVE Awaited'
  <2>1. PICK q : SetReq(t, c, q) /\ q.st # "waiting"
    BY <1>4, PromiseFields DEF SendCall, CallAnswered
  <2>2. UNCHANGED <<inflight, refreshes>>
    BY <1>4 DEF SendCall, CallAnswered
  <2> QED BY <1>0, <2>1, <2>2, AwaitedByRequest
<1>5. ASSUME NEW t \in Tab, SendPassword(t) \/ SignedIn(t) PROVE Awaited'
  <2>1. PICK q : SetReq(t, SignIn, q) /\ q.st # "waiting"
    BY <1>5, PromiseFields DEF SendPassword, SignedIn
  <2>2. UNCHANGED <<inflight, refreshes>>
    BY <1>5 DEF SendPassword, SignedIn
  <2> QED BY <1>0, <2>1, <2>2, AwaitedByRequest
<1>6. ASSUME NEW t \in Tab, NEW c \in Request, GiveUp(t, c) \/ JoinRefresh(t, c) PROVE Awaited'
  <2>1. PICK q : SetReq(t, c, q) /\ (q.st = "waiting" => inflight[t].st = "pending")
    BY <1>6, PromiseFields DEF GiveUp, JoinRefresh, Retry
  <2>2. UNCHANGED <<inflight, refreshes>>
    BY <1>6 DEF GiveUp, JoinRefresh
  <2> QED BY <2>1, <2>2, AwaitedByRequest
<1>7. ASSUME NEW t \in Tab, NEW c \in Request, StartRefresh(t, c) PROVE Awaited'
  <2> DEFINE new == Refresh(t, storage, "sent", 0)
  <2>1. new.for = t
    BY DEF Refresh
  <2>2. /\ inflight[t].st = "none" /\ refreshes' = refreshes \cup {new}
        /\ inflight' = [inflight EXCEPT ![t] = Promise("pending", storage)]
        /\ SetReq(t, c, Waiting)
    BY <1>7 DEF StartRefresh
  <2> HIDE DEF new
  <2>3. inflight'[t].st = "pending" /\ \A u \in Tab : u # t => inflight'[u] = inflight[u]
    BY <1>0, <2>2, PromiseFields
  <2>4. \A u \in Tab, d \in Request : u # t => req'[u][d] = req[u][d]
    BY <1>0, <2>2 DEF SetReq
  <2>5. \A r \in refreshes : r.for # t
    BY <2>2 DEF Awaited
  <2>6. \A u \in Tab, d \in Request : req'[u][d].st = "waiting" => inflight'[u].st = "pending"
    BY <2>3, <2>4 DEF Awaited
  <2>7. \A u \in Tab : inflight'[u].st = "pending" => \E x \in refreshes' : x.for = u
    BY <2>1, <2>2, <2>3 DEF Awaited
  <2>8. \A x \in refreshes' : x.for \in Tab => inflight'[x.for].st = "pending"
    BY <2>1, <2>2, <2>3 DEF Awaited
  <2>9. \A x, y \in refreshes' : x.for \in Tab /\ x.for = y.for => x = y
    BY <2>1, <2>2, <2>5 DEF Awaited
  <2> QED BY <2>6, <2>7, <2>8, <2>9 DEF Awaited
<1>8. ASSUME NEW t \in Tab, NEW c \in Request, NothingToPresent(t, c) PROVE Awaited'
  <2>1. Bounce(t, {c}, Promise("stuck", 0)) /\ inflight[t].st = "none"
    BY <1>8 DEF NothingToPresent
  <2>2. \A d \in Request : req[t][d].st # "waiting"
    BY <2>1 DEF Awaited
  <2>3. Promise("stuck", 0).st # "pending"
    BY PromiseFields
  <2> QED BY <2>1, <2>2, <2>3, AwaitedByBounce
<1>9. ASSUME NEW t \in Tab, NEW c \in Request, JoinRejected(t, c) PROVE Awaited'
  <2>1. Bounce(t, {c}, inflight[t]) /\ inflight[t].st \in {"rejected", "stuck"}
    BY <1>9 DEF JoinRejected
  <2>2. \A d \in Request : req[t][d].st # "waiting"
    BY <2>1 DEF Awaited
  <2> QED BY <2>1, <2>2, AwaitedByBounce
<1>10. ASSUME NEW t \in Tab, Reload(t) \/ Logout(t) PROVE Awaited'
  <2>1. CASE Reload(t)
    BY <2>1, AwaitedByLoad DEF Reload
  <2>2. CASE Logout(t)
    BY <1>2, <2>2 DEF Logout
  <2> QED BY <1>10, <2>1, <2>2
<1>11. ASSUME NEW t \in Tab, Timer(t) PROVE Awaited'
  <2>1. inflight[t].st # "pending" /\ UNCHANGED <<req, refreshes>>
        /\ inflight' = [inflight EXCEPT ![t] = NoPromise]
    BY <1>11 DEF Timer
  <2>2. inflight'[t].st = "none" /\ \A u \in Tab : u # t => inflight'[u] = inflight[u]
    BY <1>0, <2>1, PromiseFields
  <2> QED BY <2>1, <2>2 DEF Awaited
<1>12. ASSUME NEW r \in refreshes, RefreshReturns(r) PROVE Awaited'
  <2> DEFINE f == [c \in Request |-> IF req[r.for][c].st = "waiting"
                                     THEN Sent(r.new, "retry") ELSE req[r.for][c]]
  <2>1. r.for \in Tab /\ r.new \in PairOrNone
    BY <1>0, <1>12, RefreshFields DEF RefreshReturns, TypeOK
  <2>2. f \in [Request -> Requests] /\ \A c \in Request : f[c].st # "waiting"
    BY <1>0, <2>1, RecordTypes, PromiseFields
  <2>3. /\ SetReqs(r.for, f) /\ refreshes' = refreshes \ {r}
        /\ inflight' = [inflight EXCEPT ![r.for] = Promise("resolved", r.new)]
    BY <1>12 DEF RefreshReturns
  <2> HIDE DEF f
  <2>4. refreshes' = {x \in refreshes : x.for # r.for}
    BY <2>1, <2>3 DEF Awaited
  <2>5. Promise("resolved", r.new).st # "pending"
    BY PromiseFields
  <2> QED BY <2>1, <2>2, <2>3, <2>4, <2>5, AwaitedByReturn
<1>13. ASSUME NEW r \in refreshes, RefreshRejected(r) PROVE Awaited'
  <2>1. r.for \in Tab /\ Promise("rejected", 0).st # "pending"
    BY <1>0, <1>13, PromiseFields DEF RefreshRejected
  <2>2. Bounce(r.for, {c \in Request : req[r.for][c].st = "waiting"}, Promise("rejected", 0))
    BY <1>13 DEF RefreshRejected
  <2> QED BY <2>1, <2>2, AwaitedByBounce
<1>14. CASE UNCHANGED vars
  BY <1>2, <1>14 DEF vars
<1> QED
  BY <1>1, <1>3, <1>4, <1>5, <1>6, <1>7, <1>8, <1>9, <1>10, <1>11, <1>12, <1>13, <1>14
     DEF Next, PageNext, Refused, Handle, Return

LEMMA AwaitedInit == Init => Awaited
<1> SUFFICES ASSUME Init PROVE Awaited
  OBVIOUS
<1>1. \A t \in Tab, c \in Request : req[t][c].st = "idle"
  BY PromiseFields DEF Init
<1>2. \A t \in Tab : inflight[t].st = "none"
  BY PromiseFields DEF Init
<1>3. refreshes = {}
  BY DEF Init
<1> QED BY <1>1, <1>2, <1>3 DEF Awaited

\* Property WaitersServed: no call of any page hangs (api.ts:32-71).
THEOREM NobodyHangs == Spec => []WaitersServed
<1>1. TypeOK /\ Awaited /\ [Next]_vars => Awaited'
  BY AwaitedStep
<1>2. Awaited => WaitersServed
  <2> SUFFICES ASSUME Awaited, NEW t \in Tab, NEW c \in Request, req[t][c].st = "waiting"
               PROVE  \E r \in refreshes : r.for = t /\ \A s \in refreshes : s.for = t => s = r
    BY DEF WaitersServed
  <2>1. PICK r \in refreshes : r.for = t
    BY DEF Awaited
  <2> QED BY <2>1 DEF Awaited
<1> QED BY <1>1, <1>2, AwaitedInit, TypeCorrect, PTL DEF Spec

-----------------------------------------------------------------------------
\* A step that brings no new pair about and stores none leaves what is unused so.
LEMMA UnusedKept ==
    ASSUME TypeOK, Unused, storage' \in {0, storage},
           \A r \in refreshes' : r.st = "issued" => r \in refreshes,
           \A t \in Tab : presented'[t] \subseteq presented[t],
           \A t \in Tab : \/ inflight'[t].st # "pending" => inflight[t].st # "pending"
                          \/ storage' = 0
                          \/ presented'[t] = {}
    PROVE  Unused'
BY DEF Unused

LEMMA UnusedByLoad ==
    ASSUME TypeOK, Unused, NEW t \in Tab, Load(t), storage' \in {0, storage} PROVE Unused'
<1>0. inflight \in [Tab -> Promises] /\ presented \in [Tab -> SUBSET (1..issued)]
      /\ \A r \in refreshes : r.for \in Tab \cup {None}
  BY RefreshFields DEF TypeOK
<1>1. /\ presented'[t] = {}
      /\ \A u \in Tab : u # t => presented'[u] = presented[u] /\ inflight'[u] = inflight[u]
  BY <1>0 DEF Load
<1>2. \A x \in refreshes' : x.st = "issued" => x \in refreshes
  <2> SUFFICES ASSUME NEW x \in refreshes', x.st = "issued" PROVE x \in refreshes
    OBVIOUS
  <2>1. PICK r \in refreshes : /\ x = IF r.for = t THEN Refresh(None, r.token, r.st, r.new) ELSE r
                              /\ (x.for \in Tab => x = r) /\ (x.for = None => x.st \notin Ending)
    BY LoadedFrom
  <2>2. x.for # None
    BY <2>1 DEF Ending
  <2>3. x.for \in Tab \cup {None}
    BY <1>0, <2>1 DEF Refresh
  <2> QED BY <2>1, <2>2, <2>3
<1>3. \A u \in Tab : presented'[u] \subseteq presented[u]
  BY <1>1
<1> QED BY <1>1, <1>2, <1>3, UnusedKept

LEMMA UnusedByBounce ==
    ASSUME TypeOK, Unused, NEW t \in Tab, NEW cs, NEW p, Bounce(t, cs, p) PROVE Unused'
<1>1. CASE page[t] = "app" /\ Load(t)
  BY <1>1, UnusedByLoad DEF Bounce
<1>2. CASE ~(page[t] = "app" /\ Load(t))
  <2>1. storage' = 0 /\ refreshes' \subseteq refreshes /\ presented' = presented
    BY <1>2 DEF Bounce
  <2> QED BY <2>1, UnusedKept
<1> QED BY <1>1, <1>2

LEMMA UnusedStep ==
    ASSUME TypeOK, Awaited, Unused, [Next]_vars PROVE Unused'
<1>0. /\ req \in [Tab -> [Request -> Requests]] /\ inflight \in [Tab -> Promises]
      /\ presented \in [Tab -> SUBSET (1..issued)] /\ issued \in Nat /\ storage \in 0..issued
      /\ \A r \in refreshes : r.for \in Tab \cup {None} /\ r.new \in 0..issued
  <2>1. issued \in Nat /\ \A r \in refreshes : r.for \in Tab \cup {None} /\ r.new \in Nat /\ r.new <= issued
    BY PairAssumption, RefreshFields DEF TypeOK, PairOrNone
  <2> QED BY <2>1 DEF TypeOK
<1>1. ASSUME NEW r \in refreshes, TakeRow(r) \/ RefreshFails(r) PROVE Unused'
  <2>1. \E s : Becomes(r, s) /\ s.st # "issued"
    <3>1. \E n, st : Becomes(r, Refresh(r.for, n, st, 0)) /\ st # "issued"
      <4>1. CASE TakeRow(r)
        BY <4>1 DEF TakeRow
      <4>2. CASE RefreshFails(r)
        BY <4>2 DEF RefreshFails
      <4> QED BY <1>1, <4>1, <4>2
    <3>2. \A n, st : Refresh(r.for, n, st, 0).st = st
      BY DEF Refresh
    <3> QED BY <3>1, <3>2
  <2>2. PICK s : Becomes(r, s) /\ s.st # "issued"
    BY <2>1
  <2>3. \A x \in refreshes' : x.st = "issued" => x \in refreshes
    BY <2>2, BecomesFrom
  <2>4. UNCHANGED <<storage, inflight, presented>>
    BY <1>1 DEF TakeRow, RefreshFails
  <2> QED BY <2>3, <2>4, UnusedKept
<1>2. ASSUME NEW r \in refreshes, IssueNext(r) PROVE Unused'
  <2> DEFINE s == Refresh(r.for, r.token, "issued", issued + 1)
  <2>1. Becomes(r, s) /\ UNCHANGED <<storage, inflight, presented>>
    BY <1>2 DEF IssueNext
  <2>2. s.new = issued + 1 /\ s.for = r.for /\ s.st = "issued"
    BY DEF Refresh
  <2> HIDE DEF s
  <2>3. \A x \in refreshes' : (x \in refreshes /\ x # r) \/ (x = s /\ s.for \in Tab)
    BY <1>0, <2>1, <2>2, BecomesFrom DEF Ending
  <2>4. /\ issued + 1 # 0 /\ issued + 1 # storage /\ \A t \in Tab : issued + 1 \notin presented[t]
        /\ \A x \in refreshes : x.new # issued + 1
    BY <1>0
  <2> QED BY <2>1, <2>2, <2>3, <2>4 DEF Unused
<1>3. ASSUME UNCHANGED <<storage, inflight, refreshes, presented>> PROVE Unused'
  BY <1>3, UnusedKept
<1>4. ASSUME NEW n \in Pair, AccessExpires(n) \/ RowExpires(n) PROVE Unused'
  BY <1>3, <1>4 DEF AccessExpires, RowExpires
<1>5. ASSUME NEW t \in Tab, Reload(t) PROVE Unused'
  BY <1>5, UnusedByLoad DEF Reload
<1>6. ASSUME NEW t \in Tab, \/ SendPassword(t)
                            \/ \E c \in Call : SendCall(t, c) \/ CallAnswered(t, c)
                            \/ \E c \in Request : GiveUp(t, c) \/ JoinRefresh(t, c)
      PROVE  Unused'
  BY <1>3, <1>6 DEF SendPassword, SendCall, CallAnswered, GiveUp, JoinRefresh
<1>7. ASSUME NEW t \in Tab, SignedIn(t) PROVE Unused'
  <2>1. storage' = issued + 1 /\ UNCHANGED <<inflight, refreshes, presented>>
    BY <1>7 DEF SignedIn
  <2>2. /\ \A u \in Tab : issued + 1 \notin presented[u]
        /\ \A x \in refreshes : x.new # issued + 1
    BY <1>0
  <2> QED BY <2>1, <2>2 DEF Unused
<1>8. ASSUME NEW t \in Tab, Logout(t) PROVE Unused'
  <2>1. storage' = 0 /\ UNCHANGED <<inflight, refreshes, presented>>
    BY <1>8 DEF Logout
  <2> QED BY <2>1, UnusedKept
<1>9. ASSUME NEW t \in Tab, Timer(t) PROVE Unused'
  <2>1. /\ inflight[t].st # "pending" /\ inflight' = [inflight EXCEPT ![t] = NoPromise]
        /\ UNCHANGED <<storage, refreshes, presented>>
    BY <1>9 DEF Timer
  <2>2. \A u \in Tab : inflight'[u].st # "pending" => inflight[u].st # "pending"
    BY <1>0, <2>1
  <2> QED BY <2>1, <2>2, UnusedKept
<1>10. ASSUME NEW t \in Tab, NEW c \in Request, StartRefresh(t, c) PROVE Unused'
  <2> DEFINE new == Refresh(t, storage, "sent", 0)
  <2>1. new.st = "sent"
    BY DEF Refresh
  <2>2. /\ refreshes' = refreshes \cup {new} /\ storage' = storage
        /\ inflight' = [inflight EXCEPT ![t] = Promise("pending", storage)]
        /\ presented' = [presented EXCEPT ![t] = presented[t] \cup {storage}]
    BY <1>10 DEF StartRefresh
  <2> HIDE DEF new
  <2>3. /\ inflight'[t].st = "pending"
        /\ \A u \in Tab : u # t => inflight'[u] = inflight[u] /\ presented'[u] = presented[u]
        /\ presented'[t] = presented[t] \cup {storage}
    BY <1>0, <2>2, PromiseFields
  <2>4. \A x \in refreshes' : x.st = "issued" => x \in refreshes
    BY <2>1, <2>2
  <2>5. \A u \in Tab : storage' # 0 /\ inflight'[u].st # "pending" => storage' \notin presented'[u]
    BY <2>2, <2>3 DEF Unused
  <2>6. \A x \in refreshes' : x.st = "issued" =>
           /\ x.for \in Tab /\ x.new # 0 /\ x.new # storage'
           /\ \A u \in Tab : x.new \notin presented'[u]
    BY <2>2, <2>3, <2>4 DEF Unused
  <2>7. \A x, y \in refreshes' : x.st = "issued" /\ y.st = "issued" /\ x.new = y.new => x = y
    BY <2>4 DEF Unused
  <2> QED BY <2>5, <2>6, <2>7 DEF Unused
<1>11. ASSUME NEW t \in Tab, NEW c \in Request, NothingToPresent(t, c) \/ JoinRejected(t, c)
       PROVE  Unused'
  BY <1>11, UnusedByBounce DEF NothingToPresent, JoinRejected
<1>12. ASSUME NEW r \in refreshes, RefreshReturns(r) PROVE Unused'
  <2>1. /\ r.st = "issued" /\ storage' = r.new /\ refreshes' = refreshes \ {r}
        /\ presented' = presented
    BY <1>12 DEF RefreshReturns
  <2>2. \A u \in Tab : storage' \notin presented'[u]
    BY <2>1 DEF Unused
  <2>3. \A x \in refreshes' : x.st = "issued" => x.new # storage'
    BY <2>1 DEF Unused
  <2> QED BY <2>1, <2>2, <2>3 DEF Unused
<1>13. ASSUME NEW r \in refreshes, RefreshRejected(r) PROVE Unused'
  BY <1>0, <1>13, UnusedByBounce DEF RefreshRejected
<1>14. CASE UNCHANGED vars
  BY <1>3, <1>14 DEF vars
<1> QED
  BY <1>1, <1>2, <1>4, <1>5, <1>6, <1>7, <1>8, <1>9, <1>10, <1>11, <1>12, <1>13, <1>14
     DEF Next, PageNext, Refused, Handle, Return

\* Only StartRefresh makes a promise pending.
LEMMA OnlyStartRefresh ==
    ASSUME TypeOK, [Next]_vars, NEW t \in Tab, inflight'[t].st = "pending", inflight[t].st # "pending"
    PROVE  \E c \in Request : StartRefresh(t, c)
<1>0. inflight \in [Tab -> Promises]
  BY DEF TypeOK
<1>1. ASSUME UNCHANGED inflight PROVE FALSE
  BY <1>1
<1>2. ASSUME NEW u \in Tab, NEW p, p.st # "pending", inflight' = [inflight EXCEPT ![u] = p]
      PROVE  FALSE
  BY <1>0, <1>2
<1>3. NoPromise.st # "pending"
  BY PromiseFields
<1>4. ASSUME NEW u \in Tab, Load(u) PROVE FALSE
  <2>1. inflight' = [inflight EXCEPT ![u] = NoPromise]
    BY <1>4 DEF Load
  <2> QED BY <1>2, <1>3, <2>1
<1>5. ASSUME NEW u \in Tab, NEW cs, NEW p, Bounce(u, cs, p), p.st # "pending" PROVE FALSE
  <2>1. Load(u) \/ inflight' = [inflight EXCEPT ![u] = p]
    BY <1>5 DEF Bounce
  <2> QED BY <1>2, <1>4, <1>5, <2>1
<1>6. ASSUME NEW u \in Tab, NEW c \in Request, NothingToPresent(u, c) \/ JoinRejected(u, c) PROVE FALSE
  <2>1. Promise("stuck", 0).st # "pending"
    BY PromiseFields
  <2>2. CASE NothingToPresent(u, c)
    BY <1>5, <2>1, <2>2 DEF NothingToPresent
  <2>3. CASE JoinRejected(u, c)
    <3>1. Bounce(u, {c}, inflight[u]) /\ inflight[u].st # "pending"
      BY <2>3 DEF JoinRejected
    <3> QED BY <1>5, <3>1
  <2> QED BY <1>6, <2>2, <2>3
<1>7. ASSUME NEW r \in refreshes, Return(r) PROVE FALSE
  <2>0. r.for \in Tab /\ \A n : Promise("resolved", n).st # "pending" /\ Promise("rejected", n).st # "pending"
    BY <1>7, RefreshFields, PromiseFields DEF TypeOK, Return, RefreshReturns, RefreshRejected
  <2>1. CASE RefreshReturns(r)
    <3>1. inflight' = [inflight EXCEPT ![r.for] = Promise("resolved", r.new)]
      BY <2>1 DEF RefreshReturns
    <3> QED BY <1>2, <2>0, <3>1
  <2>2. CASE RefreshRejected(r)
    BY <1>5, <2>0, <2>2 DEF RefreshRejected
  <2> QED BY <1>7, <2>1, <2>2 DEF Return
<1>8. ASSUME NEW u \in Tab, Reload(u) \/ Timer(u) PROVE FALSE
  <2>1. CASE Reload(u)
    BY <1>4, <2>1 DEF Reload
  <2>2. CASE Timer(u)
    BY <1>2, <1>3, <2>2 DEF Timer
  <2> QED BY <1>8, <2>1, <2>2
<1>9. ASSUME NEW r \in refreshes, Handle(r) \/ RefreshFails(r) PROVE FALSE
  BY <1>1, <1>9 DEF Handle, TakeRow, IssueNext, RefreshFails
<1>10. ASSUME NEW n \in Pair, AccessExpires(n) \/ RowExpires(n) PROVE FALSE
  BY <1>1, <1>10 DEF AccessExpires, RowExpires
<1>11. ASSUME NEW u \in Tab, \/ SendPassword(u) \/ SignedIn(u) \/ Logout(u)
                             \/ \E c \in Call : SendCall(u, c) \/ CallAnswered(u, c)
                             \/ \E c \in Request : GiveUp(u, c) \/ JoinRefresh(u, c)
       PROVE  FALSE
  BY <1>1, <1>11 DEF SendPassword, SignedIn, Logout, SendCall, CallAnswered, GiveUp, JoinRefresh
<1>12. ASSUME NEW u \in Tab, NEW c \in Request, StartRefresh(u, c) PROVE u = t
  BY <1>0, <1>12 DEF StartRefresh
<1>13. CASE UNCHANGED vars
  BY <1>1, <1>13 DEF vars
<1> QED
  BY <1>6, <1>7, <1>8, <1>9, <1>10, <1>11, <1>12, <1>13 DEF Next, PageNext, Refused

\* Property SharedRefresh: no page presents a token twice (api.ts:28-50).
THEOREM RefreshesOnce == Spec => SharedRefresh
<1> DEFINE Step == \A t \in Tab : inflight'[t].st = "pending" /\ inflight[t].st # "pending"
                      => inflight'[t].pair \notin presented[t]
<1>1. Init => Unused
  BY DEF Init, Unused
<1>2. TypeOK /\ Awaited /\ [Next]_vars => Awaited'
  BY AwaitedStep
<1>3. TypeOK /\ Awaited /\ Unused /\ [Next]_vars => Unused'
  BY UnusedStep
<1>4. TypeOK /\ Unused /\ [Next]_vars => [Step]_vars
  <2> SUFFICES ASSUME TypeOK, Unused, [Next]_vars, NEW t \in Tab,
                      inflight'[t].st = "pending", inflight[t].st # "pending"
               PROVE  inflight'[t].pair \notin presented[t]
    OBVIOUS
  <2>1. PICK c \in Request : StartRefresh(t, c)
    BY OnlyStartRefresh
  <2>2. inflight' = [inflight EXCEPT ![t] = Promise("pending", storage)] /\ storage # 0
    BY <2>1 DEF StartRefresh
  <2>3. inflight'[t].pair = storage
    BY <2>2, PromiseFields DEF TypeOK
  <2> QED BY <2>2, <2>3 DEF Unused
<1> QED BY <1>1, <1>2, <1>3, <1>4, AwaitedInit, TypeCorrect, PTL DEF Spec, SharedRefresh
=============================================================================
