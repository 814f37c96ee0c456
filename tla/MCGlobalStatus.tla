--------------------------- MODULE MCGlobalStatus ---------------------------
(* GlobalStatus on small instances. *)
EXTENDS GlobalStatus
=============================================================================
