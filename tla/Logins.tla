------------------------------- MODULE Logins -------------------------------
(***************************************************************************)
(* What the API promises of a login: it is a refresh token that is handed  *)
(* on.  At any time one token continues the login, or one request is       *)
(* exchanging it for the next, or the login is over, and then for good.    *)
(* Tokens are numbered as they are issued; a login is named by its first.  *)
(* Tokens implements it.                                                   *)
(***************************************************************************)
EXTENDS Integers

CONSTANT Token      \* the numbers of tokens

VARIABLES
    issued,     \* how many tokens were issued
    valid,      \* valid[l]: the token that continues login l, if there is one
    renewing    \* renewing[l]: the token that is being exchanged, if one is

vars == <<issued, valid, renewing>>

Init ==
    /\ issued = 0
    /\ valid = [l \in Token |-> {}]
    /\ renewing = [l \in Token |-> {}]

\* A password is right: a login begins with a token of its own.
Begin ==
    /\ issued + 1 \in Token
    /\ issued' = issued + 1
    /\ valid' = [valid EXCEPT ![issued + 1] = {issued + 1}]
    /\ UNCHANGED renewing

\* The token is presented, and from then on is good for nothing else.
Present(l) ==
    /\ valid[l] # {}
    /\ valid' = [valid EXCEPT ![l] = {}]
    /\ renewing' = [renewing EXCEPT ![l] = valid[l]]
    /\ UNCHANGED issued

\* Its successor is issued.
Renew(l) ==
    /\ renewing[l] # {}
    /\ issued' = issued + 1
    /\ renewing' = [renewing EXCEPT ![l] = {}]
    /\ valid' = [valid EXCEPT ![l] = {issued + 1}]

\* The token expires, or the exchange comes to nothing.
End(l) ==
    /\ valid[l] \cup renewing[l] # {}
    /\ valid' = [valid EXCEPT ![l] = {}]
    /\ renewing' = [renewing EXCEPT ![l] = {}]
    /\ UNCHANGED issued

Next == Begin \/ \E l \in Token : Present(l) \/ Renew(l) \/ End(l)

Spec == Init /\ [][Next]_vars

=============================================================================
