-------------------------- MODULE MCReviewLifecycle --------------------------
(* ReviewLifecycle on small sets: interchangeable processes and calls. *)
EXTENDS ReviewLifecycle, TLC

Symmetry == Permutations(Dispatchers) \cup Permutations(Retriers)
=============================================================================
