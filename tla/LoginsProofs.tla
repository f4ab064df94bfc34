---------------------------- MODULE LoginsProofs ----------------------------
(* The API and the pages implement the abstract Logins, for any tabs,      *)
(* calls and bounds.                                                       *)
EXTENDS TokensProofs

-----------------------------------------------------------------------------
(* What a step does to the tokens that are being exchanged.                *)

\* They stay the same while each of their requests is, under whatever page's name,
\* under way before and after.
LEMMA ExchangedKept ==
    ASSUME \A x \in refreshes' : x.st = "taken" =>
               \E r \in refreshes : r.st = "taken" /\ r.token = x.token,
           \A r \in refreshes : r.st = "taken" =>
               \E x \in refreshes' : x.st = "taken" /\ x.token = r.token
    PROVE  Exchanged' = Exchanged
BY DEF Exchanged

\* A page that is loaded anew leaves its requests to the handlers.
LEMMA ExchangedByLoad ==
    ASSUME TypeOK, NEW t \in Tab, Load(t) PROVE Exchanged' = Exchanged
<1>1. ASSUME NEW x \in refreshes', x.st = "taken"
      PROVE  \E r \in refreshes : r.st = "taken" /\ r.token = x.token
  BY <1>1, LoadedFrom
<1>2. ASSUME NEW r \in refreshes, r.st = "taken"
      PROVE  \E x \in refreshes' : x.st = "taken" /\ x.token = r.token
  <2> DEFINE x == IF r.for = t THEN Refresh(None, r.token, r.st, r.new) ELSE r
  <2>1. x.st = "taken" /\ x.token = r.token
    BY <1>2 DEF Refresh
  <2>2. x \in Kept({IF s.for = t THEN Refresh(None, s.token, s.st, s.new) ELSE s : s \in refreshes})
    BY <2>1 DEF Kept, Ending
  <2> QED BY <2>1, <2>2 DEF Load
<1> QED BY <1>1, <1>2, ExchangedKept

\* A page whose promise is not pending, or whose request has been answered, has
\* none under way that a handler works on: the catch block leaves the exchanges be.
LEMMA ExchangedByBounce ==
    ASSUME TypeOK, NEW t \in Tab, NEW cs, NEW p, Bounce(t, cs, p),
           \A r \in refreshes : r.for = t => r.st # "taken"
    PROVE  Exchanged' = Exchanged
<1>1. CASE page[t] = "app" /\ Load(t)
  BY <1>1, ExchangedByLoad
<1>2. CASE ~(page[t] = "app" /\ Load(t))
  <2>1. refreshes' = {r \in refreshes : r.for # t}
    BY <1>2 DEF Bounce
  <2> QED BY <2>1, ExchangedKept
<1> QED BY <1>1, <1>2

-----------------------------------------------------------------------------
(* Each step is a step of Logins, or one that changes nothing of a login.  *)

\* The variables of Logins.
Valid == [l \in Pair |-> {n \in rows : login[n] = l}]
Renewing == [l \in Pair |-> {n \in Exchanged : login[n] = l}]

LEMMA LoginUntouched ==
    ASSUME UNCHANGED <<issued, login, rows>>, Exchanged' = Exchanged
    PROVE  UNCHANGED L!vars
BY DEF L!vars

\* Taking the row out ends the token; a request that does not find it ends nothing.
LEMMA TakeRowPresents ==
    ASSUME TypeOK, Rotation, NEW r \in refreshes, TakeRow(r)
    PROVE  L!Next \/ UNCHANGED L!vars
<1> DEFINE s == Refresh(r.for, r.token, IF r.token \in rows THEN "taken" ELSE "refused", 0)
<1>0. r.token \in Pair /\ r.token \in 1..issued /\ login[r.token] \in 1..issued
      /\ 1..issued \subseteq Pair
  <2>1. r \in Refreshes /\ r.token <= issued /\ issued \in 0..MaxPair
    BY DEF TypeOK, PairOrNone
  <2>2. r.token \in 1..MaxPair
    BY <2>1 DEF Refreshes, Pair
  <2>3. r.token \in 1..issued /\ 1..issued \subseteq 1..MaxPair
    BY <2>1, <2>2, PairAssumption
  <2> QED BY <2>3 DEF Pair, Rotation
<1>1. /\ r.st = "sent" /\ Becomes(r, s) /\ rows' = rows \ {r.token}
      /\ UNCHANGED <<issued, login>>
  BY DEF TakeRow
<1>2. s.token = r.token /\ s.st = IF r.token \in rows THEN "taken" ELSE "refused"
  BY DEF Refresh
<1> HIDE DEF s
<1>3. CASE r.token \notin rows
  <2>1. s.st = "refused" /\ rows' = rows
    BY <1>1, <1>2, <1>3
  <2>2. \A x \in refreshes' : x.st = "taken" => x \in refreshes
    BY <1>1, <2>1, BecomesFrom
  <2>3. \A x \in refreshes : x.st = "taken" => x \in refreshes'
    BY <1>1 DEF Becomes
  <2>4. Exchanged' = Exchanged
    BY <2>2, <2>3, ExchangedKept
  <2> QED BY <1>1, <2>1, <2>4, LoginUntouched
<1>4. CASE r.token \in rows
  <2>0. PICK l \in Pair : l = login[r.token]
    BY <1>0
  <2>1. Exchanged' = Exchanged \cup {r.token}
    <3>1. s.st = "taken" /\ s \in refreshes'
      BY <1>1, <1>2, <1>4 DEF Becomes, Kept, Ending
    <3>2. \A x \in refreshes' : (x \in refreshes /\ x # r) \/ x = s
      BY <1>1, BecomesFrom
    <3>3. \A x \in refreshes : x.st = "taken" => x \in refreshes'
      BY <1>1 DEF Becomes
    <3> QED BY <1>0, <1>2, <3>1, <3>2, <3>3 DEF Exchanged
  <2>2. /\ {n \in rows : login[n] = l} = {r.token}
        /\ {n \in Exchanged : login[n] = l} = {}
    BY <1>4, <2>0 DEF Rotation, OneLivePerLogin, Exchanged
  <2>3. /\ {n \in rows : login[n] = l}' = {}
        /\ {n \in Exchanged : login[n] = l}' = {r.token}
    BY <1>1, <2>0, <2>1, <2>2
  <2>4. \A k \in Pair : k # l =>
           /\ {n \in rows : login[n] = k}' = {n \in rows : login[n] = k}
           /\ {n \in Exchanged : login[n] = k}' = {n \in Exchanged : login[n] = k}
    BY <1>1, <2>0, <2>1
  <2>5. L!Present(l)
    <3>1. Valid' = [Valid EXCEPT ![l] = {}]
      BY <2>3, <2>4 DEF Valid
    <3>2. Renewing' = [Renewing EXCEPT ![l] = {r.token}]
      BY <2>3, <2>4 DEF Renewing
    <3>3. Valid[l] = {r.token}
      BY <2>2 DEF Valid
    <3> QED BY <1>1, <3>1, <3>2, <3>3 DEF L!Present, Valid, Renewing
  <2> QED BY <2>5 DEF L!Next
<1> QED BY <1>3, <1>4

\* The next pair continues the login whose token was taken out.
LEMMA IssueNextRenews ==
    ASSUME TypeOK, Rotation, NEW r \in refreshes, IssueNext(r)
    PROVE  L!Next
<1> DEFINE s == Refresh(r.for, r.token, "issued", issued + 1)
<1>0. /\ r.token \in Pair /\ r.token \in 1..issued /\ login[r.token] \in 1..issued
      /\ 1..issued \subseteq Pair /\ r.token # 0 /\ issued + 1 \notin 1..issued
      /\ rows \subseteq 1..issued /\ login \in [Pair -> PairOrNone]
  <2>1. r \in Refreshes /\ r.token <= issued /\ issued \in 0..MaxPair
    BY DEF TypeOK, PairOrNone
  <2>2. r.token \in 1..MaxPair
    BY <2>1 DEF Refreshes, Pair
  <2>3. r.token \in 1..issued /\ 1..issued \subseteq 1..MaxPair /\ r.token # 0
        /\ issued + 1 \notin 1..issued
    BY <2>1, <2>2, PairAssumption
  <2> QED BY <2>3 DEF TypeOK, Pair, Rotation
<1>1. /\ r.st = "taken" /\ Becomes(r, s)
      /\ issued' = issued + 1 /\ rows' = rows \cup {issued + 1}
      /\ login' = [login EXCEPT ![issued + 1] = IF r.token = 0 THEN issued + 1 ELSE login[r.token]]
      /\ issued < MaxPair
  BY DEF IssueNext, IssueTokens
<1>2. issued + 1 \in Pair
  <2>1. issued \in 0..MaxPair
    BY DEF TypeOK, PairOrNone
  <2> QED BY <1>1, <2>1, PairAssumption DEF Pair
<1>3. s.st = "issued"
  BY DEF Refresh
<1> HIDE DEF s
<1>4. PICK l \in Pair : l = login[r.token]
  BY <1>0
<1>5. /\ login'[issued + 1] = l
       /\ \A n \in 1..issued : login'[n] = login[n]
  BY <1>0, <1>1, <1>2, <1>4
<1>6. \A x \in refreshes : x.token \in 1..issued
  <2>1. \A x \in refreshes : x.token \in 1..MaxPair /\ x.token <= issued
    BY RefreshFields DEF TypeOK, Pair
  <2>2. issued \in 0..MaxPair
    BY DEF TypeOK, PairOrNone
  <2> QED BY <2>1, <2>2, PairAssumption
<1>7. Exchanged' = Exchanged \ {r.token}
  <2>1. \A x \in refreshes' : x.st = "taken" => x \in refreshes /\ x # r
    BY <1>1, <1>3, BecomesFrom
  <2>2. \A x \in refreshes : x # r => x \in refreshes'
    BY <1>1 DEF Becomes
  <2>3. \A x \in refreshes : x.st = "taken" /\ x.token = r.token => x = r
    BY <1>1 DEF Rotation
  <2> QED BY <2>1, <2>2, <2>3 DEF Exchanged
<1>8. Exchanged \subseteq 1..issued
  BY <1>6 DEF Exchanged
<1>9. /\ {n \in rows : login[n] = l} = {}
      /\ {n \in Exchanged : login[n] = l} = {r.token}
  <2>1. r.token \in Exchanged
    BY <1>0, <1>1 DEF Exchanged
  <2> QED BY <1>1, <1>4, <2>1 DEF Rotation, Exchanged
<1>10. /\ {n \in rows : login[n] = l}' = {issued + 1}
      /\ {n \in Exchanged : login[n] = l}' = {}
  <2>1. \A n \in rows : login'[n] = login[n]
    BY <1>0, <1>5
  <2>2. \A n \in Exchanged : login'[n] = login[n]
    BY <1>8, <1>5
  <2>3. {n \in rows' : login'[n] = l} = {issued + 1}
    BY <1>1, <1>9, <1>5, <2>1
  <2>4. {n \in Exchanged' : login'[n] = l} = {}
    BY <1>7, <1>9, <2>2
  <2> QED BY <2>3, <2>4
<1>11. ASSUME NEW k \in Pair, k # l
       PROVE  /\ {n \in rows : login[n] = k}' = {n \in rows : login[n] = k}
              /\ {n \in Exchanged : login[n] = k}' = {n \in Exchanged : login[n] = k}
  <2>1. \A n \in rows : login'[n] = login[n]
    BY <1>0, <1>5
  <2>2. \A n \in Exchanged : login'[n] = login[n]
    BY <1>8, <1>5
  <2> QED BY <1>1, <1>4, <1>7, <1>11, <1>5, <2>1, <2>2
<1>12. L!Renew(l)
  <2>1. Valid' = [Valid EXCEPT ![l] = {issued + 1}]
    BY <1>10, <1>11 DEF Valid
  <2>2. Renewing' = [Renewing EXCEPT ![l] = {}]
    BY <1>10, <1>11 DEF Renewing
  <2>3. Renewing[l] = {r.token}
    BY <1>9 DEF Renewing
  <2> QED BY <1>1, <2>1, <2>2, <2>3 DEF L!Renew, Valid, Renewing
<1> QED BY <1>12 DEF L!Next

\* A failed exchange ends its login: the row that was taken out is not put back.
LEMMA RefreshFailsEnds ==
    ASSUME TypeOK, Rotation, NEW r \in refreshes, RefreshFails(r)
    PROVE  L!Next \/ UNCHANGED L!vars
<1> DEFINE s == Refresh(r.for, r.token, "failed", 0)
<1>1. Becomes(r, s) /\ UNCHANGED <<issued, login, rows>>
  BY DEF RefreshFails, server
<1>2. s.st = "failed"
  BY DEF Refresh
<1> HIDE DEF s
<1>3. \A x \in refreshes' : x.st = "taken" => x \in refreshes /\ x # r
  BY <1>1, <1>2, BecomesFrom
<1>4. \A x \in refreshes : x # r => x \in refreshes'
  BY <1>1 DEF Becomes
<1>5. CASE r.st # "taken"
  <2>1. Exchanged' = Exchanged
    BY <1>3, <1>4, <1>5, ExchangedKept
  <2> QED BY <1>1, <2>1, LoginUntouched
<1>6. CASE r.st = "taken"
  <2>1. r.token \in Pair /\ r.token \in 1..issued
    <3>1. r \in Refreshes /\ r.token <= issued /\ issued \in 0..MaxPair
      BY DEF TypeOK, PairOrNone
    <3>2. r.token \in 1..MaxPair
      BY <3>1 DEF Refreshes, Pair
    <3> QED BY <3>1, <3>2, PairAssumption DEF Pair
  <2>2. PICK l \in Pair : l = login[r.token]
    <3>1. login[r.token] \in 1..issued /\ issued \in 0..MaxPair
      BY <2>1 DEF TypeOK, PairOrNone, Rotation
    <3> QED BY <3>1, PairAssumption DEF Pair
  <2>3. Exchanged' = Exchanged \ {r.token}
    <3>1. \A x \in refreshes : x.st = "taken" /\ x.token = r.token => x = r
      BY <1>6 DEF Rotation
    <3> QED BY <1>3, <1>4, <3>1 DEF Exchanged
  <2>4. /\ {n \in rows : login[n] = l} = {}
        /\ {n \in Exchanged : login[n] = l} = {r.token}
    <3>1. r.token \in Exchanged
      BY <1>6, <2>1 DEF Exchanged
    <3> QED BY <1>6, <2>2, <3>1 DEF Rotation, Exchanged
  <2>5. /\ {n \in rows : login[n] = l}' = {}
        /\ {n \in Exchanged : login[n] = l}' = {}
    BY <1>1, <2>3, <2>4
  <2>6. \A k \in Pair : k # l =>
           /\ {n \in rows : login[n] = k}' = {n \in rows : login[n] = k}
           /\ {n \in Exchanged : login[n] = k}' = {n \in Exchanged : login[n] = k}
    BY <1>1, <2>2, <2>3
  <2>7. L!End(l)
    <3>1. Valid' = [Valid EXCEPT ![l] = {}]
      BY <2>5, <2>6 DEF Valid
    <3>2. Renewing' = [Renewing EXCEPT ![l] = {}]
      <4>1. Renewing' = [k \in Pair |-> {n \in Exchanged : login[n] = k}']
        BY DEF Renewing
      <4>2. \A k \in Pair : {n \in Exchanged : login[n] = k}'
                             = IF k = l THEN {} ELSE {n \in Exchanged : login[n] = k}
        BY <2>5, <2>6
      <4> QED BY <4>1, <4>2 DEF Renewing
    <3>3. Renewing[l] = {r.token}
      BY <2>4 DEF Renewing
    <3> QED BY <1>1, <3>1, <3>2, <3>3 DEF L!End, Valid, Renewing
  <2> QED BY <2>7 DEF L!Next
<1> QED BY <1>5, <1>6

\* So does the expiry of its token.
LEMMA RowExpiresEnds ==
    ASSUME TypeOK, Rotation, NEW n \in Pair, RowExpires(n)
    PROVE  L!Next
<1>1. n \in rows /\ rows' = rows \ {n} /\ UNCHANGED <<issued, login, refreshes>>
  BY DEF RowExpires
<1>2. Exchanged' = Exchanged
  BY <1>1 DEF Exchanged
<1>3. PICK l \in Pair : l = login[n]
  <2>1. n \in 1..issued /\ issued \in 0..MaxPair
    BY <1>1 DEF TypeOK, PairOrNone
  <2>2. login[n] \in 1..issued
    BY <2>1 DEF Rotation
  <2> QED BY <2>1, <2>2, PairAssumption DEF Pair
<1>4. /\ {m \in rows : login[m] = l} = {n}
      /\ {m \in Exchanged : login[m] = l} = {}
  BY <1>1, <1>3 DEF Rotation, OneLivePerLogin, Exchanged
<1>5. /\ {m \in rows : login[m] = l}' = {}
      /\ {m \in Exchanged : login[m] = l}' = {}
  BY <1>1, <1>2, <1>4
<1>6. \A k \in Pair : k # l =>
         /\ {m \in rows : login[m] = k}' = {m \in rows : login[m] = k}
         /\ {m \in Exchanged : login[m] = k}' = {m \in Exchanged : login[m] = k}
  BY <1>1, <1>2, <1>3
<1>7. L!End(l)
  <2>1. Valid' = [Valid EXCEPT ![l] = {}]
    BY <1>5, <1>6 DEF Valid
  <2>2. Renewing' = [Renewing EXCEPT ![l] = {}]
    BY <1>5, <1>6 DEF Renewing
  <2>3. Valid[l] = {n}
    BY <1>4 DEF Valid
  <2> QED BY <1>1, <2>1, <2>2, <2>3 DEF L!End, Valid, Renewing
<1> QED BY <1>7 DEF L!Next

\* A password begins a login of its own.
LEMMA SignedInBegins ==
    ASSUME TypeOK, Rotation, NEW t \in Tab, SignedIn(t)
    PROVE  L!Next
<1>1. /\ issued < MaxPair /\ issued' = issued + 1 /\ rows' = rows \cup {issued + 1}
      /\ login' = [login EXCEPT ![issued + 1] = issued + 1]
      /\ UNCHANGED refreshes
  BY DEF SignedIn, IssueTokens
<1>2. /\ issued + 1 \in Pair /\ issued + 1 \notin 1..issued
      /\ rows \subseteq 1..issued /\ login \in [Pair -> PairOrNone]
  <2>1. issued \in 0..MaxPair
    BY DEF TypeOK, PairOrNone
  <2>2. issued + 1 \in 1..MaxPair /\ issued + 1 \notin 1..issued
    BY <1>1, <2>1, PairAssumption
  <2> QED BY <2>2 DEF TypeOK, Pair
<1>3. Exchanged' = Exchanged
  BY <1>1 DEF Exchanged
<1>4. Exchanged \subseteq 1..issued
  <2>1. \A x \in refreshes : x.token \in 1..MaxPair /\ x.token <= issued
    BY RefreshFields DEF TypeOK, Pair
  <2>2. issued \in 0..MaxPair
    BY DEF TypeOK, PairOrNone
  <2>3. \A x \in refreshes : x.token \in 1..issued
    BY <2>1, <2>2, PairAssumption
  <2> QED BY <2>3 DEF Exchanged
<1>5. /\ login'[issued + 1] = issued + 1
      /\ \A n \in 1..issued : login'[n] = login[n] /\ login[n] # issued + 1
  BY <1>1, <1>2 DEF Rotation
<1>6. PICK l \in Pair : l = issued + 1
  BY <1>2
<1>7. {n \in rows : login[n] = l}' = {l}
  BY <1>1, <1>2, <1>5, <1>6
<1>8. \A k \in Pair : k # l => {n \in rows : login[n] = k}' = {n \in rows : login[n] = k}
  BY <1>1, <1>2, <1>5, <1>6
<1>9. \A k \in Pair : {n \in Exchanged : login[n] = k}' = {n \in Exchanged : login[n] = k}
  BY <1>3, <1>4, <1>5
<1>10. L!Begin
  <2>1. Valid' = [Valid EXCEPT ![l] = {l}]
    BY <1>7, <1>8 DEF Valid
  <2>2. Renewing' = Renewing
    BY <1>9 DEF Renewing
  <2> QED BY <1>1, <1>6, <2>1, <2>2 DEF L!Begin, Valid, Renewing
<1> QED BY <1>10 DEF L!Next

-----------------------------------------------------------------------------
\* Property LoginSpec.  Whatever tabs share a login, lose the page of a refresh or
\* have it fail, each step of the API and the pages hands the login on, ends it for
\* good or leaves it as it is (auth.rs:182-313, api.ts:28-71).
THEOREM TokensImplementLogins == Spec => LoginSpec
<1>1. Init => L!Init
  BY DEF Init, L!Init, Exchanged
<1>2. TypeOK /\ Rotation /\ Awaited /\ [Next]_vars => [L!Next]_(L!vars)
  <2> SUFFICES ASSUME TypeOK, Rotation, Awaited, [Next]_vars PROVE L!Next \/ UNCHANGED L!vars
    OBVIOUS
  <2>0. \A r \in refreshes : r.for \in Tab \cup {None}
    BY RefreshFields DEF TypeOK
  <2>1. ASSUME NEW r \in refreshes, Handle(r) \/ RefreshFails(r) PROVE L!Next \/ UNCHANGED L!vars
    BY <2>1, TakeRowPresents, IssueNextRenews, RefreshFailsEnds DEF Handle
  <2>2. ASSUME Exchanged' = Exchanged, UNCHANGED server PROVE UNCHANGED L!vars
    BY <2>2, LoginUntouched DEF server
  <2>3. ASSUME UNCHANGED refreshes PROVE Exchanged' = Exchanged
    BY <2>3 DEF Exchanged
  <2>4. ASSUME NEW n \in Pair, AccessExpires(n) \/ RowExpires(n) PROVE L!Next \/ UNCHANGED L!vars
    <3>1. CASE AccessExpires(n)
      BY <2>3, <3>1, LoginUntouched DEF AccessExpires
    <3> QED BY <2>4, <3>1, RowExpiresEnds
  <2>5. ASSUME NEW t \in Tab, Reload(t) \/ SignedIn(t) PROVE L!Next \/ UNCHANGED L!vars
    <3>1. CASE Reload(t)
      BY <2>2, <3>1, ExchangedByLoad DEF Reload
    <3> QED BY <2>5, <3>1, SignedInBegins
  <2>6. ASSUME NEW t \in Tab, \/ SendPassword(t) \/ Logout(t) \/ Timer(t)
                              \/ \E c \in Call : SendCall(t, c) \/ CallAnswered(t, c)
                              \/ \E c \in Request : GiveUp(t, c) \/ JoinRefresh(t, c)
        PROVE  UNCHANGED L!vars
    <3>1. UNCHANGED refreshes /\ UNCHANGED server
      BY <2>6 DEF SendPassword, Logout, Timer, SendCall, CallAnswered, GiveUp, JoinRefresh
    <3> QED BY <2>2, <2>3, <3>1
  <2>7. ASSUME NEW t \in Tab, NEW c \in Request, StartRefresh(t, c) PROVE UNCHANGED L!vars
    <3> DEFINE new == Refresh(t, storage, "sent", 0)
    <3>1. new.st = "sent"
      BY DEF Refresh
    <3>2. refreshes' = refreshes \cup {new} /\ UNCHANGED server
      BY <2>7 DEF StartRefresh
    <3> HIDE DEF new
    <3>3. Exchanged' = Exchanged
      BY <3>1, <3>2, ExchangedKept
    <3> QED BY <2>2, <3>2, <3>3
  <2>8. ASSUME NEW t \in Tab, NEW c \in Request, NothingToPresent(t, c) \/ JoinRejected(t, c)
        PROVE  UNCHANGED L!vars
    <3>1. inflight[t].st # "pending"
      BY <2>8 DEF NothingToPresent, JoinRejected
    <3>2. \A r \in refreshes : r.for # t
      BY <3>1 DEF Awaited
    <3>3. \E p : Bounce(t, {c}, p)
      BY <2>8 DEF NothingToPresent, JoinRejected
    <3>4. Exchanged' = Exchanged /\ UNCHANGED server
      BY <3>2, <3>3, ExchangedByBounce DEF Bounce
    <3> QED BY <2>2, <3>4
  <2>9. ASSUME NEW r \in refreshes, RefreshReturns(r) PROVE UNCHANGED L!vars
    <3>1. r.st = "issued" /\ refreshes' = refreshes \ {r} /\ UNCHANGED server
      BY <2>9 DEF RefreshReturns
    <3>2. Exchanged' = Exchanged
      BY <3>1, ExchangedKept
    <3> QED BY <2>2, <3>1, <3>2
  <2>10. ASSUME NEW r \in refreshes, RefreshRejected(r) PROVE UNCHANGED L!vars
    <3>1. r.for \in Tab /\ r.st # "taken"
      BY <2>0, <2>10 DEF RefreshRejected
    <3>2. \A x \in refreshes : x.for = r.for => x.st # "taken"
      BY <3>1 DEF Awaited
    <3>3. \E cs, p : Bounce(r.for, cs, p)
      BY <2>10 DEF RefreshRejected
    <3>4. Exchanged' = Exchanged /\ UNCHANGED server
      BY <3>1, <3>2, <3>3, ExchangedByBounce DEF Bounce
    <3> QED BY <2>2, <3>4
  <2>11. CASE UNCHANGED vars
    BY <2>2, <2>3, <2>11 DEF vars, server
  <2> QED BY <2>1, <2>4, <2>5, <2>6, <2>7, <2>8, <2>9, <2>10, <2>11
          DEF Next, PageNext, Refused, Return
<1>3. Init => Rotation
  BY DEF Init, Rotation, OneLivePerLogin
<1>4. TypeOK /\ TypeOK' /\ Rotation /\ [Next]_vars => Rotation'
  BY RotationStep
<1>5. TypeOK /\ Awaited /\ [Next]_vars => Awaited'
  BY AwaitedStep
<1> QED BY <1>1, <1>2, <1>3, <1>4, <1>5, AwaitedInit, TypeCorrect, PTL DEF Spec, LoginSpec, L!Spec
=============================================================================
