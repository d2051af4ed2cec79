----------------------------- MODULE MCBackend -----------------------------
(* Instances of Backend; jobs are interchangeable. *)
EXTENDS Backend, TLC

Symmetry == Permutations(Jobs)
=============================================================================
