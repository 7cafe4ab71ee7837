----------------------------- MODULE MCSubserver -----------------------------
(***************************************************************************)
(* Subserver on small instances.  The pids other than Root are             *)
(* interchangeable, and so are the names other than NoArg.                 *)
(***************************************************************************)
EXTENDS Subserver

Symmetry == Permutations(Pids \ {Root}) \cup Permutations(Names \ {NoArg})

=============================================================================
