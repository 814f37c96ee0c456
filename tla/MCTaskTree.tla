----------------------------- MODULE MCTaskTree -----------------------------
(* TaskTree on small uploads. *)
EXTENDS TaskTree

\* Two runs for the same VMs: the first with base, deep on the level below it
\* and aside in a branch of its own, the second with next.
RunsOf == [base |-> 1, peer |-> 1, deep |-> 1, aside |-> 1, next |-> 2]
Paths == [base |-> <<"g">>, peer |-> <<"g">>, deep |-> <<"g", "h">>, aside |-> <<"s">>, next |-> <<"g">>]
SameVersion == <<"v1", "v1">>
=============================================================================
