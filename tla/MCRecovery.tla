------------------------------- MODULE MCRecovery -------------------------------
(* RecoveryPortal for TLC: workers and security keys are interchangeable. *)
EXTENDS RecoveryPortal, TLC

Symmetry == Permutations(Worker) \cup Permutations(Key)
=============================================================================
