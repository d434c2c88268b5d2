------------------------------ MODULE MCOnboarding ------------------------------
(* OnboardingPortal for TLC: workers and security keys are interchangeable. *)
EXTENDS OnboardingPortal, TLC

Symmetry == Permutations(Worker) \cup Permutations(Key)
=============================================================================
