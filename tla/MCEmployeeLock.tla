----------------------------- MODULE MCEmployeeLock -----------------------------
(* EmployeeLock for TLC: requests and closing handlers are interchangeable. *)
EXTENDS EmployeeLock, TLC

Symmetry == Permutations(Request) \cup Permutations(Closer)
=============================================================================
