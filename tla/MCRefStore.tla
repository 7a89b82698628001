----------------------------- MODULE MCRefStore -----------------------------
(* RefStore by itself, on small instances: the sets are given in the .cfg. *)
EXTENDS RefStore, TLC

\* Sound where no liveness is checked: Spec and the properties treat callers,
\* commits and keys alike.
Symmetry == Permutations(Clients) \cup Permutations(Targets) \cup Permutations(Keys)
=============================================================================
