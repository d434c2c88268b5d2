------------------------------ MODULE MCDashboard ------------------------------
(* ManagerDashboard for TLC: handlers and session ids are interchangeable. *)
EXTENDS ManagerDashboard, TLC

Symmetry == Permutations(Worker) \cup Permutations(Sid)
=============================================================================
