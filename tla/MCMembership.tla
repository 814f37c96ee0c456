---------------------------- MODULE MCMembership ----------------------------
(* Membership on small instances. *)
EXTENDS Membership
=============================================================================
