------------------------------ MODULE MCServer ------------------------------
(***************************************************************************)
(* Server on small instances.  The pids are interchangeable.               *)
(***************************************************************************)
EXTENDS Server

Symmetry == Permutations(Pids)

=============================================================================
