------------------------------ MODULE MCTokens ------------------------------
(* Tokens on a small instance. *)
EXTENDS Tokens, TLC

\* Tabs and calls are interchangeable: no definition orders them.
Symmetry == Permutations(Tab) \cup Permutations(Call)
=============================================================================
