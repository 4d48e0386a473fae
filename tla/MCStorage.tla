----------------------------- MODULE MCStorage ------------------------------
(* The instance of Storage that TLC checks. *)
EXTENDS Storage
CONSTANTS k1, k2

\* Keys are interchangeable.
Symmetry == Permutations(Keys)
=============================================================================
