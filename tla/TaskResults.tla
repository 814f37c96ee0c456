---------------------------- MODULE TaskResults ----------------------------
(***************************************************************************)
(* What a group of tasks promises to the run it belongs to: every task     *)
(* gets one result.  It succeeds or fails by its own execution, is         *)
(* abandoned only because another task of the group failed, or is lost     *)
(* together with all the other tasks that are still open, when an          *)
(* unexpected exception makes the Distributor restart the group.           *)
(***************************************************************************)
CONSTANT Tasks

VARIABLE result   \* the result of every task

Results == {"OPEN", "SUCCESS", "FAILURE", "ABANDONED", "LOST"}

Init == result = [t \in Tasks |-> "OPEN"]

Succeed(t) ==
  /\ result[t] = "OPEN"
  /\ result' = [result EXCEPT ![t] = "SUCCESS"]

Fail(t) ==
  /\ result[t] = "OPEN"
  /\ result' = [result EXCEPT ![t] = "FAILURE"]

Abandon(t) ==
  /\ result[t] = "OPEN"
  /\ \E u \in Tasks : result[u] = "FAILURE"
  /\ result' = [result EXCEPT ![t] = "ABANDONED"]

LoseOpenTasks ==
  result' = [t \in Tasks |-> IF result[t] = "OPEN" THEN "LOST" ELSE result[t]]

Next ==
  \/ \E t \in Tasks : Succeed(t) \/ Fail(t) \/ Abandon(t)
  \/ LoseOpenTasks

Spec == Init /\ [][Next]_result
=============================================================================
