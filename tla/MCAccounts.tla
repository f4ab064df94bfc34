----------------------------- MODULE MCAccounts -----------------------------
(* Accounts on a small instance. *)
EXTENDS Accounts, TLC

CONSTANT One    \* one of the users

\* The claims of one user catch up with the row (auth.rs:299-313).
OnesClaimsCatchUp == ClaimsCatchUp(One)
=============================================================================
