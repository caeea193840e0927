---------------------------- MODULE MCJobManager ----------------------------
(* JobManager with symmetric videos, jobs and players.                     *)
EXTENDS JobManager, TLC

Symmetry == Permutations(Videos) \cup Permutations(Jobs) \cup Permutations(Players)
=============================================================================
