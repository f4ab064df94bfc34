---------------------------- MODULE MCEnrollment ----------------------------
(* Enrollment on a small instance. *)
EXTENDS Enrollment, TLC

CONSTANT One    \* one of the ids

\* Ids are drawn at random: no definition orders them.
Symmetry == Permutations(Uuid)

\* A machine shown online whose agent died goes offline or leaves its table, in
\* either table (agent.rs:108-114, adhoc.rs:303-310).  By symmetry one id stands
\* for all.
DeadAgentsGoOffline == GoesOffline(One)

\* A row that nobody claims is purged in the end (adhoc.rs:312-315).
UnclaimedRowsGo == UnclaimedGoes(One)

=============================================================================
