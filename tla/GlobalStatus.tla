---------------------------- MODULE GlobalStatus ----------------------------
(***************************************************************************)
(* GlobalStatusActor: the nodes and the number of VMs it reports.  The     *)
(* NodeMonitorActor of every node registers, answers the requests of a     *)
(* timer with its attributes, and deregisters when it stops; the VMActors  *)
(* of the node count themselves in and out.  Nodes are stopped, crash and  *)
(* come back with the same address: <<h, l>> is the l-th NodeActor of h,   *)
(* with its monitor and its VMs.                                           *)
(***************************************************************************)
EXTENDS Naturals, Sequences, FiniteSets, SequencesExt

CONSTANTS
  Hosts,      \* the addresses
  MaxLives,   \* bound: how many NodeActors an address sees
  VMs,        \* the VMs a NodeActor can create
  Overtake    \* Terminated may overtake what the actor has sent before

ASSUME StatusAssumption ==
  /\ MaxLives \in Nat \ {0}
  /\ IsFiniteSet(VMs)
  /\ Overtake \in BOOLEAN

Refs == Hosts \X (1 .. MaxLives)

VARIABLES
  node,      \* the NodeActors
  monitor,   \* the NodeMonitorActors that have registered
  chan,      \* what each of them has sent to the GlobalStatusActor
  vm,        \* the VMActors
  vmChan,    \* what each of them has sent to the GlobalStatusActor
  status     \* the GlobalStatusActor

vars == <<node, monitor, chan, vm, vmChan, status>>

(* Every channel holds what its actor sends, in the order it sends it, and  *)
(* the number of VMs of an address is one its VMActors can account for.     *)
(* A node that went is "stopped" once those who watch it are told.          *)
TypeOK ==
  /\ node \in [Refs -> {"none", "up", "lost", "stopped"}]
  /\ monitor \in [Refs -> BOOLEAN]
  /\ \A r \in Refs : \A i \in DOMAIN chan[r] : chan[r][i] \in {"Register", "Attributes", "Deregister"}
  /\ vm \in [Refs -> [VMs -> {"none", "up", "over", "lost"}]]
  /\ vmChan \in [Refs -> [VMs -> {<<>>, <<"RegisterVm">>, <<"DeregisterVm">>,
                                  <<"RegisterVm", "DeregisterVm">>}]]
  /\ status.nodeMonitorActors \subseteq Refs /\ status.watched \subseteq Refs
  /\ status.nodeAttributes \subseteq Refs
  /\ status.nodeVms \in [Hosts -> 0 .. MaxLives * Cardinality(VMs)]

Init ==
  /\ node = [r \in Refs |-> "none"]
  /\ monitor = [r \in Refs |-> FALSE]
  /\ chan = [r \in Refs |-> <<>>]
  /\ vm = [r \in Refs |-> [v \in VMs |-> "none"]]
  /\ vmChan = [r \in Refs |-> [v \in VMs |-> <<>>]]
  /\ status = [nodeMonitorActors |-> {}, watched |-> {}, nodeAttributes |-> {},
               nodeVms |-> [h \in Hosts |-> 0]]

-----------------------------------------------------------------------------
(* The nodes *)

\* NodeMasterActor creates a NodeActor, after the former one has gone.
NodeStarts(r) ==
  /\ node[r] = "none"
  /\ \A k \in 1 .. r[2] - 1 : node[<<r[1], k>>] \in {"lost", "stopped"}
  /\ node' = [node EXCEPT ![r] = "up"]
  /\ UNCHANGED <<monitor, chan, vm, vmChan, status>>

\* handlerSetGlobalStatusActor of the NodeMonitorActor
MonitorRegisters(r) ==
  /\ node[r] = "up" /\ ~monitor[r]
  /\ monitor' = [monitor EXCEPT ![r] = TRUE]
  /\ chan' = [chan EXCEPT ![r] = Append(@, "Register")]
  /\ UNCHANGED <<node, vm, vmChan, status>>

\* The timer of a registered monitor asks for its attributes, and the monitor
\* answers; the first answer stands for all.
MonitorAnswers(r) ==
  /\ r \in status.nodeMonitorActors /\ node[r] = "up"
  /\ r \notin status.nodeAttributes /\ ~Contains(chan[r], "Attributes")
  /\ chan' = [chan EXCEPT ![r] = Append(@, "Attributes")]
  /\ UNCHANGED <<node, monitor, vm, vmChan, status>>

\* finishProvisionVm: the VM runs, and its VMActor counts itself in.
VmRegisters(r, v) ==
  /\ node[r] = "up" /\ vm[r][v] = "none"
  /\ vm' = [vm EXCEPT ![r][v] = "up"]
  /\ vmChan' = [vmChan EXCEPT ![r][v] = <<"RegisterVm">>]
  /\ UNCHANGED <<node, monitor, chan, status>>

\* VmDestroy: the VMActor counts itself out and stops.
VmDestroyed(r, v) ==
  /\ node[r] = "up" /\ vm[r][v] = "up"
  /\ vm' = [vm EXCEPT ![r][v] = "over"]
  /\ vmChan' = [vmChan EXCEPT ![r][v] = Append(@, "DeregisterVm")]
  /\ UNCHANGED <<node, monitor, chan, status>>

\* The actors of a node end where they are: VMActors send nothing, the monitor
\* sends goodbye.  Of the messages on the way a last part may be lost: with
\* drop, a VM that was not counted yet never is, and one that was stays.
NodeGoes(r, told, goodbye, drop) ==
  LET sent == IF monitor[r] THEN chan[r] \o goodbye ELSE chan[r]
      uncounted(v) == Contains(vmChan[r][v], "RegisterVm")
      pending(v) == vmChan[r][v] # <<>>
  IN /\ node[r] = "up"
     /\ node' = [node EXCEPT ![r] = IF told THEN "stopped" ELSE "lost"]
     /\ \E k \in IF drop THEN 0 .. Len(sent) ELSE {Len(sent)} :
          chan' = [chan EXCEPT ![r] = SubSeq(sent, 1, k)]
     /\ vm' = [vm EXCEPT ![r] = [v \in VMs |->
                 CASE drop /\ uncounted(v) -> "over"
                   [] drop /\ ~uncounted(v) /\ pending(v) -> "lost"
                   [] OTHER -> IF vm[r][v] = "up" THEN "lost" ELSE vm[r][v]]]
     /\ vmChan' = IF drop THEN [vmChan EXCEPT ![r] = [v \in VMs |-> <<>>]] ELSE vmChan
     /\ UNCHANGED <<monitor, status>>

\* The client is stopped, or the NodeMasterActor stops the NodeActor.
NodeStops(r) == \E told, drop \in BOOLEAN : NodeGoes(r, told, <<"Deregister">>, drop)

NodeCrashes(r) == \E drop \in BOOLEAN : NodeGoes(r, FALSE, <<>>, drop)

\* The cluster removes the node, and the watchers of its actors are told.
NodeRemoved(r) ==
  /\ node[r] = "lost"
  /\ node' = [node EXCEPT ![r] = "stopped"]
  /\ UNCHANGED <<monitor, chan, vm, vmChan, status>>

-----------------------------------------------------------------------------
(* GlobalStatusActor *)

\* Mutant: the actor is not watched.
RegisterMonitorUnwatched(r) == [status EXCEPT !.nodeMonitorActors = @ \cup {r}]

RegisterMonitor(r) ==
  [status EXCEPT !.nodeMonitorActors = @ \cup {r}, !.watched = @ \cup {r}]

DeregisterMonitor(r) ==
  IF r \in status.nodeMonitorActors
  THEN [status EXCEPT !.nodeMonitorActors = @ \ {r}, !.nodeAttributes = @ \ {r}]
  ELSE status

SetAttributes(r) == [status EXCEPT !.nodeAttributes = @ \cup {r}]

\* Mutant: an address that is new starts with no VM.
RegisterVmFromZero(h) == [status EXCEPT !.nodeVms[h] = IF @ > 0 THEN @ + 1 ELSE 0]

RegisterVm(h) == [status EXCEPT !.nodeVms[h] = @ + 1]

\* Mutant: the number goes up.
DeregisterVmAdds(h) == [status EXCEPT !.nodeVms[h] = IF @ > 0 THEN @ + 1 ELSE @]

DeregisterVm(h) == [status EXCEPT !.nodeVms[h] = IF @ > 0 THEN @ - 1 ELSE @]

ReceivesFromMonitor(r) ==
  /\ chan[r] # <<>>
  /\ chan' = [chan EXCEPT ![r] = Tail(@)]
  /\ \/ Head(chan[r]) = "Register" /\ status' = RegisterMonitor(r)
     \/ Head(chan[r]) = "Attributes" /\ status' = SetAttributes(r)
     \/ Head(chan[r]) = "Deregister" /\ status' = DeregisterMonitor(r)
  /\ UNCHANGED <<node, monitor, vm, vmChan>>

ReceivesFromVm(r, v) ==
  /\ vmChan[r][v] # <<>>
  /\ vmChan' = [vmChan EXCEPT ![r][v] = Tail(@)]
  /\ \/ Head(vmChan[r][v]) = "RegisterVm" /\ status' = RegisterVm(r[1])
     \/ Head(vmChan[r][v]) = "DeregisterVm" /\ status' = DeregisterVm(r[1])
  /\ UNCHANGED <<node, monitor, chan, vm>>

\* Terminated; Akka does not order it and what the actor has sent before.
ReceivesTerminated(r) ==
  /\ r \in status.watched /\ node[r] = "stopped"
  /\ Overtake \/ chan[r] = <<>>
  /\ status' = [DeregisterMonitor(r) EXCEPT !.watched = @ \ {r}]
  /\ UNCHANGED <<node, monitor, chan, vm, vmChan>>

-----------------------------------------------------------------------------
Next ==
  \E r \in Refs :
    \/ NodeStarts(r) \/ NodeStops(r) \/ NodeCrashes(r) \/ NodeRemoved(r)
    \/ MonitorRegisters(r) \/ MonitorAnswers(r)
    \/ ReceivesFromMonitor(r) \/ ReceivesTerminated(r)
    \/ \E v \in VMs : VmRegisters(r, v) \/ VmDestroyed(r, v) \/ ReceivesFromVm(r, v)

Spec == Init /\ [][Next]_vars

\* Actors handle their mail, timers fire, and the cluster removes dead nodes.
Fairness ==
  \A r \in Refs :
    /\ WF_vars(NodeRemoved(r)) /\ WF_vars(MonitorRegisters(r)) /\ WF_vars(MonitorAnswers(r))
    /\ WF_vars(ReceivesFromMonitor(r)) /\ WF_vars(ReceivesTerminated(r))

FairSpec == Spec /\ Fairness

-----------------------------------------------------------------------------
(* Properties *)

(* handlerRegisterVmActor, handlerDeregisterVmActor: when nothing is on the *)
(* way, the number of VMs of an address is that of its running VMs and of   *)
(* those that went with their node, which never count themselves out.       *)
CountDriftsOnlyByLoss ==
  \A h \in Hosts :
    (\A r \in Refs, v \in VMs : r[1] = h => vmChan[r][v] = <<>>) =>
      status.nodeVms[h] =
        Cardinality({x \in Refs \X VMs : x[1][1] = h /\ vm[x[1]][x[2]] \in {"up", "lost"}})

(* handlerDeregisterNodeMonitorActor: a monitor whose node was stopped or   *)
(* crashed is forgotten at last, with its timer and its attributes.         *)
MonitorIsForgotten ==
  \A r \in Refs :
    r \in status.nodeMonitorActors \cup status.nodeAttributes /\ node[r] # "up"
      ~> r \notin status.nodeMonitorActors \cup status.nodeAttributes
=============================================================================
