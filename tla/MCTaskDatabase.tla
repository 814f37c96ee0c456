--------------------------- MODULE MCTaskDatabase ---------------------------
(* TaskDatabase on small instances; the sets are model values of the cfg. *)
EXTENDS TaskDatabase, TLC

Symmetry == Permutations(Uploads) \cup Permutations(Names)
=============================================================================
