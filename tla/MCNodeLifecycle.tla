-------------------------- MODULE MCNodeLifecycle --------------------------
(* NodeLifecycle on small instances. *)
EXTENDS NodeLifecycle

\* Whatever can fail while a VM is made.
AllFaults == {"runDone", "vagrantError", "notRunning", "badPath", "helperCrash"}
=============================================================================
