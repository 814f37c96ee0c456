---------------------------- MODULE NodeLifecycle ----------------------------
(***************************************************************************)
(* One node with the role vm: how its NodeActor starts, how it adds one VM *)
(* after the other, how a VMActor provisions its VM, tells the VMProxyActor*)
(* and the NodeActor, and how both actors of a VM go when InstanceActor    *)
(* has no more tasks for them.                                             *)
(*                                                                         *)
(* Every actor has a FIFO mailbox; scheduler.scheduleOnce puts a message   *)
(* into the bag timers, from where it is delivered at any later time.  The *)
(* tests that run on a VM are the subject of TaskExecution: here a         *)
(* VMProxyActor only asks for tasks until it is told that there are none.  *)
(***************************************************************************)
EXTENDS Naturals, Sequences, FiniteSets, Bags

CONSTANTS
  Uuids,     \* the VMs the node can ever create
  Versions,  \* the runs, each with a version of its own, in upload order
  Faults,    \* "runDone", "vagrantError", "notRunning", "badPath", "helperCrash"
  None

ASSUME LifecycleAssumption ==
  /\ IsFiniteSet(Uuids) /\ Versions \subseteq Nat /\ None \notin Versions
  /\ Faults \subseteq {"runDone", "vagrantError", "notRunning", "badPath", "helperCrash"}

\* The actors
Node == <<"node">>
Monitor == <<"monitor">>
Master == <<"master">>
Instances == <<"instances">>
Status == <<"status">>
VM(u) == <<"vm", u>>
Proxy(u) == <<"proxy", u>>
Actors == {Node, Monitor, Master, Instances, Status} \cup
          {VM(u) : u \in Uuids} \cup {Proxy(u) : u \in Uuids}

VARIABLES
  mail,      \* the mailboxes
  timers,    \* what the schedulers will deliver once
  node,      \* the NodeActor
  monitor,   \* the NodeMonitorActor
  vm,        \* the VMActors
  proxy,     \* the VMProxyActors
  helper,    \* the VMActorHelpers of each VM, by what they are to do
  runs,      \* the versions of the InstanceActor, and of those still to come
  count      \* nodeVms of the GlobalStatusActor for this node

vars == <<mail, timers, node, monitor, vm, proxy, helper, runs, count>>

NoVM == [state |-> "none", ready |-> FALSE, refs |-> {}, config |-> None, attributes |-> FALSE,
         provisioned |-> FALSE, asks |-> FALSE]
NoProxy == [state |-> "none", ready |-> FALSE, refs |-> {}, config |-> None, timer |-> "none"]

VMState == [state : {"none", "up", "gone"}, ready : BOOLEAN,
            refs : SUBSET {"instance", "proxy", "monitor", "status"},
            config : Versions \cup {None}, attributes : BOOLEAN,
            provisioned : BOOLEAN, asks : BOOLEAN]
ProxyState == [state : {"none", "up", "gone"}, ready : BOOLEAN, refs : SUBSET {"vm", "instance"},
               config : Versions \cup {None}, timer : {"none", "polls", "nobody"}]

(* The fields of every actor hold what the code assigns to them, and a      *)
(* message is sent by one actor to another.                                 *)
TypeOK ==
  /\ \A a \in Actors : \A i \in DOMAIN mail[a] : mail[a][i].from \in Actors
  /\ \A tm \in DOMAIN timers : tm.to \in Actors /\ tm.msg.from \in Actors
  /\ node.refs \subseteq {"instance", "status"}
  /\ node.ready \in BOOLEAN /\ node.timer \in BOOLEAN /\ node.config \in BOOLEAN
  /\ node.vmActors \subseteq Uuids \X {"vm", "proxy"}
  /\ monitor \in [state : {"none", "up"}, ready : BOOLEAN, vagrant : BOOLEAN]
  /\ vm \in [Uuids -> VMState] /\ proxy \in [Uuids -> ProxyState]
  /\ \A u \in Uuids : DOMAIN helper[u] \subseteq {"provision", "destroy"}
  /\ runs.present \cup runs.future \subseteq Versions
  /\ count \in 0 .. Cardinality(Uuids)

\* The bag B with one x more, and with one x less
With(B, x) == B (+) SetToBag({x})
Without(B, x) == B (-) SetToBag({x})

\* A message without or with data
Msg(m, a) == [m |-> m, from |-> a]
MsgWith(m, a, x) == [m |-> m, from |-> a, data |-> x]

Init ==
  /\ mail = [a \in Actors |-> IF a = Node THEN <<Msg("Init", Node)>> ELSE <<>>]
  /\ timers = EmptyBag
  /\ node = [ready |-> FALSE, refs |-> {}, timer |-> FALSE, config |-> FALSE, vmActors |-> {}]
  /\ monitor = [state |-> "none", ready |-> FALSE, vagrant |-> FALSE]
  /\ vm = [u \in Uuids |-> NoVM]
  /\ proxy = [u \in Uuids |-> NoProxy]
  /\ helper = [u \in Uuids |-> EmptyBag]
  /\ runs = [present |-> {}, future |-> Versions]
  /\ count = 0

-----------------------------------------------------------------------------
(* Mailboxes and timers *)

Receives(a, m) == mail[a] # <<>> /\ Head(mail[a]).m = m
Data(a) == Head(mail[a]).data
Sender(a) == Head(mail[a]).from

\* The mailboxes after a has handled its first message and sent sends, a set of
\* pairs of a receiver and the messages for it.
Handled(a, sends) ==
  [b \in Actors |->
     LET rest == IF b = a THEN Tail(mail[b]) ELSE mail[b]
     IN IF \E s \in sends : s[1] = b
        THEN rest \o (CHOOSE s \in sends : s[1] = b)[2]
        ELSE rest]

Scheduled(to, msg) == With(timers, [to |-> to, msg |-> msg])

\* scheduler.scheduleOnce fires.
Fire(tm) ==
  /\ BagIn(tm, timers)
  /\ timers' = Without(timers, tm)
  /\ mail' = [mail EXCEPT ![tm.to] = Append(@, tm.msg)]
  /\ UNCHANGED <<node, monitor, vm, proxy, helper, runs, count>>

-----------------------------------------------------------------------------
(* NodeActor *)

NodeInit ==
  /\ Receives(Node, "Init")
  /\ node' = [node EXCEPT !.ready = FALSE]
  /\ mail' = Handled(Node, {<<Master, <<Msg("GetInstanceActor", Node),
                                        Msg("GetGlobalStatusActor", Node)>> >>})
  /\ UNCHANGED <<timers, monitor, vm, proxy, helper, runs, count>>

\* The NodeMasterActor, which is ready: it has created this NodeActor.
MasterAnswers ==
  /\ mail[Master] # <<>>
  /\ mail' = Handled(Master,
       {<<Sender(Master),
          <<MsgWith("SetActor", Master,
                    IF Head(mail[Master]).m = "GetInstanceActor" THEN "instance" ELSE "status")>> >>})
  /\ UNCHANGED <<timers, node, monitor, vm, proxy, helper, runs, count>>

\* The node after scheduleOnceAddVmActor, which each caller guards
AddVmLater(n) == [n EXCEPT !.timer = TRUE]
AddVmTimer == IF node.timer THEN timers ELSE Scheduled(Node, Msg("AddVmActor", Node))

\* initNodeMonitorActor: both actors are known for the first time.
InitNodeMonitorActor(n) == n.refs = {"instance", "status"} /\ monitor.state = "none"

\* handlerSetInstanceActor, handlerSetGlobalStatusActor
NodeSetActor ==
  /\ Receives(Node, "SetActor")
  /\ LET known == [node EXCEPT !.refs = @ \cup {Data(Node)}]
         start == InitNodeMonitorActor(known)
     IN /\ node' = IF start THEN AddVmLater([known EXCEPT !.ready = TRUE]) ELSE known
        /\ timers' = IF start THEN AddVmTimer ELSE timers
        /\ monitor' = IF start THEN [monitor EXCEPT !.state = "up"] ELSE monitor
        /\ mail' = Handled(Node, IF start THEN {<<Monitor, <<Msg("Init", Monitor)>> >>} ELSE {})
  /\ UNCHANGED <<vm, proxy, helper, runs, count>>

\* What the NodeActor is asked for, and by whom: the two actors of a VM name
\* each other by their uuid.
Asked == [GetInstanceActor |-> "instance", GetGlobalStatusActor |-> "status",
          GetNodeMonitorActor |-> "monitor", GetVmProxyActor |-> "proxy", GetVmActor |-> "vm"]

\* handlerGet*: null is sent for an actor of a VM that is not in the map.
NodeAnswers ==
  /\ node.ready /\ mail[Node] # <<>> /\ Head(mail[Node]).m \in DOMAIN Asked
  /\ LET ref == Asked[Head(mail[Node]).m]
         who == Sender(Node)
         null == ref \in {"vm", "proxy"} /\ <<who[2], ref>> \notin node.vmActors
     IN mail' = Handled(Node, {<<who, <<MsgWith("SetActor", Node, IF null THEN "null" ELSE ref)>> >>})
  /\ UNCHANGED <<timers, node, monitor, vm, proxy, helper, runs, count>>

NodeAddVmActor ==
  /\ node.ready /\ Receives(Node, "AddVmActor")
  /\ node' = [node EXCEPT !.timer = FALSE]
  /\ mail' = Handled(Node, {<<Instances, <<Msg("GetDeployInfo", Node)>> >>})
  /\ UNCHANGED <<timers, monitor, vm, proxy, helper, runs, count>>

NodeNoDeployInfo ==
  /\ node.ready /\ Receives(Node, "NoDeployInfo")
  /\ node' = AddVmLater([node EXCEPT !.config = FALSE])
  /\ timers' = AddVmTimer
  /\ mail' = Handled(Node, {})
  /\ UNCHANGED <<monitor, vm, proxy, helper, runs, count>>

NodeDeployInfo ==
  /\ node.ready /\ Receives(Node, "DeployInfo")
  /\ node' = [node EXCEPT !.config = TRUE]
  /\ mail' = Handled(Node, {<<Monitor, <<Msg("GetSystemAttributes", Node)>> >>})
  /\ UNCHANGED <<timers, monitor, vm, proxy, helper, runs, count>>

\* Mutant: the next VM is scheduled before this one is provisioned.
NodeAddVmAtOnce(u) ==
  /\ node.ready /\ Receives(Node, "SystemAttributes") /\ node.config
  /\ monitor.vagrant /\ vm[u].state = "none"
  /\ vm' = [vm EXCEPT ![u].state = "up"]
  /\ proxy' = [proxy EXCEPT ![u].state = "up"]
  /\ node' = AddVmLater([node EXCEPT !.vmActors = @ \cup {<<u, "vm">>, <<u, "proxy">>}])
  /\ timers' = AddVmTimer
  /\ mail' = Handled(Node, {<<a, <<Msg("Init", a)>> >> : a \in {VM(u), Proxy(u)}})
  /\ UNCHANGED <<monitor, helper, runs, count>>

\* handlerSystemAttributes, addVm: the memory is enough for a VM.
NodeAddVm(u) ==
  /\ node.ready /\ Receives(Node, "SystemAttributes") /\ node.config
  /\ monitor.vagrant /\ vm[u].state = "none"
  /\ vm' = [vm EXCEPT ![u].state = "up"]
  /\ proxy' = [proxy EXCEPT ![u].state = "up"]
  /\ node' = [node EXCEPT !.vmActors = @ \cup {<<u, "vm">>, <<u, "proxy">>}]
  /\ mail' = Handled(Node, {<<a, <<Msg("Init", a)>> >> : a \in {VM(u), Proxy(u)}})
  /\ UNCHANGED <<timers, monitor, helper, runs, count>>

\* The memory is not enough: another try, later
NodeCannotAddVm ==
  /\ node.ready /\ Receives(Node, "SystemAttributes") /\ node.config
  /\ node' = AddVmLater(node)
  /\ timers' = AddVmTimer
  /\ mail' = Handled(Node, {})
  /\ UNCHANGED <<monitor, vm, proxy, helper, runs, count>>

NodeVmProvisioned ==
  /\ node.ready /\ Receives(Node, "VmProvisioned")
  /\ node' = AddVmLater(node)
  /\ timers' = AddVmTimer
  /\ mail' = Handled(Node, {})
  /\ UNCHANGED <<monitor, vm, proxy, helper, runs, count>>

\* Mutant: the other actor of the VM is removed as well.
NodeRemoveBoth ==
  /\ node.ready /\ Receives(Node, "RemoveVmActor")
  /\ node' = [node EXCEPT !.vmActors = @ \ {<<Sender(Node)[2], k>> : k \in {"vm", "proxy"}}]
  /\ mail' = Handled(Node, {})
  /\ UNCHANGED <<timers, monitor, vm, proxy, helper, runs, count>>

\* The name of the actor tells its VM and which of the two it is.
NodeRemoveVmActor ==
  /\ node.ready /\ Receives(Node, "RemoveVmActor")
  /\ node' = [node EXCEPT !.vmActors = @ \ {<<Sender(Node)[2], Sender(Node)[1]>>}]
  /\ mail' = Handled(Node, {})
  /\ UNCHANGED <<timers, monitor, vm, proxy, helper, runs, count>>

\* handlerNotReadyJet: the message again, later
NodeNotReadyJet ==
  /\ Receives(Node, "NotReadyJet")
  /\ timers' = Scheduled(Sender(Node), Msg(Data(Node), Node))
  /\ mail' = Handled(Node, {})
  /\ UNCHANGED <<node, monitor, vm, proxy, helper, runs, count>>

-----------------------------------------------------------------------------
(* NodeMonitorActor *)

MonitorInit ==
  /\ Receives(Monitor, "Init")
  /\ monitor' = [monitor EXCEPT !.ready = FALSE]
  /\ mail' = Handled(Monitor, {<<Node, <<Msg("GetGlobalStatusActor", Monitor)>> >>})
  /\ UNCHANGED <<timers, node, vm, proxy, helper, runs, count>>

\* handlerSetGlobalStatusActor: checkVagrant finds Vagrant installed or not.
MonitorSetActor ==
  /\ Receives(Monitor, "SetActor")
  /\ \E found \in BOOLEAN : monitor' = [monitor EXCEPT !.ready = TRUE, !.vagrant = found]
  /\ mail' = Handled(Monitor, {})
  /\ UNCHANGED <<timers, node, vm, proxy, helper, runs, count>>

\* handlerGetSystemAttributes, handlerNotReady
MonitorGetSystemAttributes ==
  /\ Receives(Monitor, "GetSystemAttributes")
  /\ mail' = Handled(Monitor,
       {<<Sender(Monitor),
          <<IF monitor.ready THEN Msg("SystemAttributes", Monitor)
            ELSE MsgWith("NotReadyJet", Monitor, "GetSystemAttributes")>> >>})
  /\ UNCHANGED <<timers, node, monitor, vm, proxy, helper, runs, count>>

-----------------------------------------------------------------------------
(* InstanceActor; the tree below it is the subject of TaskTree. *)

Upload(v) ==
  /\ v \in runs.future
  /\ runs' = [present |-> runs.present \cup {v}, future |-> runs.future \ {v}]
  /\ UNCHANGED <<mail, timers, node, monitor, vm, proxy, helper, count>>

RunDone(v) ==
  /\ "runDone" \in Faults /\ v \in runs.present
  /\ runs' = [runs EXCEPT !.present = @ \ {v}]
  /\ UNCHANGED <<mail, timers, node, monitor, vm, proxy, helper, count>>

\* handleGetDeployInfo: the oldest run
InstGetDeployInfo ==
  /\ Receives(Instances, "GetDeployInfo")
  /\ LET oldest == CHOOSE v \in runs.present : \A w \in runs.present : v <= w
         reply == IF runs.present = {} THEN Msg("NoDeployInfo", Instances)
                  ELSE MsgWith("DeployInfo", Instances, oldest)
     IN mail' = Handled(Instances, {<<Sender(Instances), <<reply>> >>})
  /\ UNCHANGED <<timers, node, monitor, vm, proxy, helper, runs, count>>

\* handleGetTask
InstGetTask ==
  /\ Receives(Instances, "GetTask")
  /\ mail' = Handled(Instances,
       IF Data(Instances) \in runs.present THEN {}
       ELSE {<<Sender(Instances), <<Msg("NoMoreTasks", Instances)>> >>})
  /\ UNCHANGED <<timers, node, monitor, vm, proxy, helper, runs, count>>

-----------------------------------------------------------------------------
(* VMActor and VMActorHelper *)

VMInit(u) ==
  /\ Receives(VM(u), "Init")
  /\ vm' = [vm EXCEPT ![u].ready = FALSE, ![u].provisioned = FALSE]
  /\ mail' = Handled(VM(u), {<<Node, <<Msg("GetInstanceActor", VM(u)), Msg("GetVmProxyActor", VM(u)),
                                       Msg("GetNodeMonitorActor", VM(u)),
                                       Msg("GetGlobalStatusActor", VM(u))>> >>})
  /\ UNCHANGED <<timers, node, monitor, proxy, helper, runs, count>>

\* checkReady
CheckReady(x) == x.refs = {"instance", "proxy", "monitor", "status"}

\* handlerSet*: the VM is ready when all four actors are known.
VMSetActor(u) ==
  /\ Receives(VM(u), "SetActor")
  /\ LET known == [vm[u] EXCEPT !.refs = @ \cup ({Data(VM(u))} \ {"null"})]
         ready == CheckReady(known)
     IN /\ vm' = [vm EXCEPT ![u] = IF ready THEN [known EXCEPT !.ready = TRUE, !.asks = TRUE]
                                   ELSE known]
        /\ timers' = IF ready /\ ~vm[u].asks THEN Scheduled(Instances, Msg("GetDeployInfo", VM(u)))
                     ELSE timers
        /\ mail' = Handled(VM(u), IF ready THEN {<<Monitor, <<Msg("GetSystemAttributes", VM(u))>> >>}
                                  ELSE {})
  /\ UNCHANGED <<node, monitor, proxy, helper, runs, count>>

\* Mutant: the attributes of the system are not waited for.
PrepareAtOnce(u, x) ==
  /\ vm' = [vm EXCEPT ![u] = x]
  /\ helper' = IF x.config # None THEN [helper EXCEPT ![u] = With(@, "provision")] ELSE helper
  /\ mail' = Handled(VM(u), {})

\* prepareProvisionVm in the state x of the VMActor: a VMActorHelper is to provision
\* the VM; if the path is no directory the VMActor fails and its parent restarts it.
Prepare(u, x) ==
  IF x.attributes /\ monitor.vagrant /\ x.config # None
  THEN \/ /\ vm' = [vm EXCEPT ![u] = x]
          /\ helper' = [helper EXCEPT ![u] = With(@, "provision")]
          /\ mail' = Handled(VM(u), {})
       \/ /\ "badPath" \in Faults
          /\ vm' = [vm EXCEPT ![u] = [NoVM EXCEPT !.state = "up"]]
          /\ mail' = Handled(VM(u), {<<VM(u), <<Msg("Init", VM(u))>> >>})
          /\ UNCHANGED helper
  ELSE /\ vm' = [vm EXCEPT ![u] = x]
       /\ mail' = Handled(VM(u), {})
       /\ UNCHANGED helper

VMDeployInfo(u) ==
  /\ vm[u].ready /\ Receives(VM(u), "DeployInfo")
  /\ Prepare(u, [vm[u] EXCEPT !.asks = FALSE, !.config = Data(VM(u))])
  /\ UNCHANGED <<timers, node, monitor, proxy, runs, count>>

VMNoDeployInfo(u) ==
  /\ vm[u].ready /\ Receives(VM(u), "NoDeployInfo")
  /\ LET again == vm[u].attributes /\ monitor.vagrant
     IN /\ vm' = [vm EXCEPT ![u].asks = again, ![u].config = None]
        /\ timers' = IF again THEN Scheduled(Instances, Msg("GetDeployInfo", VM(u))) ELSE timers
  /\ mail' = Handled(VM(u), {})
  /\ UNCHANGED <<node, monitor, proxy, helper, runs, count>>

VMSystemAttributes(u) ==
  /\ vm[u].ready /\ Receives(VM(u), "SystemAttributes")
  /\ Prepare(u, [vm[u] EXCEPT !.attributes = TRUE])
  /\ UNCHANGED <<timers, node, monitor, proxy, runs, count>>

\* Mutant: the VM is registered before its boxes are looked at.
VMNotRunningRegisters(u) ==
  /\ vm[u].ready /\ Receives(VM(u), "NotRunning")
  /\ helper' = [helper EXCEPT ![u] = With(@, "provision")]
  /\ mail' = Handled(VM(u), {<<Status, <<Msg("RegisterVmActor", VM(u))>> >>})
  /\ UNCHANGED <<timers, node, monitor, vm, proxy, runs, count>>

\* finishProvisionVm: not all boxes are running, once more.
VMNotRunning(u) ==
  /\ vm[u].ready /\ Receives(VM(u), "NotRunning")
  /\ Prepare(u, [vm[u] EXCEPT !.provisioned = FALSE])
  /\ UNCHANGED <<timers, node, monitor, proxy, runs, count>>

\* finishProvisionVm
VMProvisioned(u) ==
  /\ vm[u].ready /\ Receives(VM(u), "Running")
  /\ vm' = [vm EXCEPT ![u].provisioned = TRUE]
  /\ mail' = Handled(VM(u), {<<Node, <<Msg("VmProvisioned", VM(u))>> >>,
                             <<Proxy(u), <<MsgWith("SetConfig", VM(u), vm[u].config)>> >>,
                             <<Status, <<Msg("RegisterVmActor", VM(u))>> >>})
  /\ UNCHANGED <<timers, node, monitor, proxy, helper, runs, count>>

VMNoMoreTasks(u) ==
  /\ vm[u].provisioned /\ Receives(VM(u), "NoMoreTasks")
  /\ helper' = [helper EXCEPT ![u] = With(@, "destroy")]
  /\ mail' = Handled(VM(u), {})
  /\ UNCHANGED <<timers, node, monitor, vm, proxy, runs, count>>

\* handlerVmTaskResult of VmDestroy; postStop
VMDestroyed(u) ==
  /\ vm[u].ready /\ Receives(VM(u), "VmDestroy")
  /\ vm' = [vm EXCEPT ![u] = [NoVM EXCEPT !.state = "gone"]]
  /\ mail' = [Handled(VM(u), {<<Node, <<Msg("RemoveVmActor", VM(u))>> >>,
                              <<Status, <<Msg("DeregisterVmActor", VM(u))>> >>}) EXCEPT ![VM(u)] = <<>>]
  /\ UNCHANGED <<timers, node, monitor, proxy, helper, runs, count>>

\* The runnable of prepareProvisionVm, in another thread
HelperUp(u) ==
  /\ BagIn("provision", helper[u])
  /\ helper' = [helper EXCEPT ![u] = Without(@, "provision")]
  /\ UNCHANGED <<timers, node, monitor, vm, proxy, runs, count>>

\* All boxes are running.
HelperProvisions(u) ==
  /\ HelperUp(u)
  /\ mail' = [mail EXCEPT ![VM(u)] = Append(@, Msg("Running", VM(u)))]

\* Not all boxes are running, or vagrant throws and the VMActor is to get another
\* DeployInfo, or the clean-up throws as well and nobody is told.
HelperFails(u) ==
  /\ HelperUp(u)
  /\ \/ /\ "notRunning" \in Faults
        /\ mail' = [mail EXCEPT ![VM(u)] = Append(@, Msg("NotRunning", VM(u)))]
     \/ /\ "vagrantError" \in Faults
        /\ mail' = [mail EXCEPT ![Instances] = Append(@, Msg("GetDeployInfo", VM(u)))]
     \/ "helperCrash" \in Faults /\ UNCHANGED mail

\* The runnable of handlerNoMoreTasks
HelperDestroys(u) ==
  /\ BagIn("destroy", helper[u])
  /\ helper' = [helper EXCEPT ![u] = Without(@, "destroy")]
  /\ mail' = [mail EXCEPT ![VM(u)] = Append(@, Msg("VmDestroy", VM(u)))]
  /\ UNCHANGED <<timers, node, monitor, vm, proxy, runs, count>>

-----------------------------------------------------------------------------
(* VMProxyActor *)

ProxyInit(u) ==
  /\ Receives(Proxy(u), "Init")
  /\ proxy' = [proxy EXCEPT ![u].ready = FALSE]
  /\ mail' = Handled(Proxy(u), {<<Node, <<Msg("GetVmActor", Proxy(u)),
                                          Msg("GetInstanceActor", Proxy(u))>> >>})
  /\ UNCHANGED <<timers, node, monitor, vm, helper, runs, count>>

\* checkReady
Ready(p) == [p EXCEPT !.ready = @ \/ (p.refs = {"vm", "instance"} /\ p.config # None)]

ProxySetActor(u) ==
  /\ Receives(Proxy(u), "SetActor")
  /\ LET p == proxy[u]
     IN proxy' = [proxy EXCEPT ![u] = Ready([p EXCEPT !.refs = p.refs \cup ({Data(Proxy(u))} \ {"null"})])]
  /\ mail' = Handled(Proxy(u), {})
  /\ UNCHANGED <<timers, node, monitor, vm, helper, runs, count>>

\* Mutant: no timer.
ProxySetConfigNoTimer(u) ==
  /\ Receives(Proxy(u), "SetConfig")
  /\ proxy' = [proxy EXCEPT ![u] = Ready([@ EXCEPT !.config = Data(Proxy(u))])]
  /\ mail' = Handled(Proxy(u), {})
  /\ UNCHANGED <<timers, node, monitor, vm, helper, runs, count>>

\* handlerSetVagrantEnvironmentConfig: the timer is for the InstanceActor the proxy
\* knows by now.
ProxySetConfig(u) ==
  /\ Receives(Proxy(u), "SetConfig")
  /\ LET p == proxy[u]
         target == IF "instance" \in p.refs THEN "polls" ELSE "nobody"
         timer == IF p.timer = "none" THEN target ELSE p.timer
     IN proxy' = [proxy EXCEPT ![u] = Ready([p EXCEPT !.config = Data(Proxy(u)), !.timer = timer])]
  /\ mail' = Handled(Proxy(u), {})
  /\ UNCHANGED <<timers, node, monitor, vm, helper, runs, count>>

\* The bound on the GetTask messages: the last one of the VM has been answered.
OnePoll(u) ==
  /\ \A i \in DOMAIN mail[Instances] :
       ~(mail[Instances][i].m = "GetTask" /\ mail[Instances][i].from = Proxy(u))
  /\ \A i \in DOMAIN mail[Proxy(u)] : mail[Proxy(u)][i].m # "NoMoreTasks"

\* The timer
ProxyPolls(u) ==
  /\ proxy[u].timer = "polls" /\ OnePoll(u)
  /\ mail' = [mail EXCEPT ![Instances] = Append(@, MsgWith("GetTask", Proxy(u), proxy[u].config))]
  /\ UNCHANGED <<timers, node, monitor, vm, proxy, helper, runs, count>>

\* Mutant: the VMActor is not told.
ProxyNoMoreTasksSilent(u) ==
  /\ proxy[u].ready /\ Receives(Proxy(u), "NoMoreTasks")
  /\ proxy' = [proxy EXCEPT ![u] = [NoProxy EXCEPT !.state = "gone"]]
  /\ mail' = Handled(Proxy(u), {<<Node, <<Msg("RemoveVmActor", Proxy(u))>> >>})
  /\ UNCHANGED <<timers, node, monitor, vm, helper, runs, count>>

\* handlerNoMoreTasks.  A proxy that polls is ready: the reference it asks for
\* last is the one of the InstanceActor, so handlerNotReady is never called.
ProxyNoMoreTasks(u) ==
  /\ proxy[u].ready /\ Receives(Proxy(u), "NoMoreTasks")
  /\ proxy' = [proxy EXCEPT ![u] = [NoProxy EXCEPT !.state = "gone"]]
  /\ mail' = [Handled(Proxy(u), {<<VM(u), <<Msg("NoMoreTasks", Proxy(u))>> >>,
                                 <<Node, <<Msg("RemoveVmActor", Proxy(u))>> >>}) EXCEPT ![Proxy(u)] = <<>>]
  /\ UNCHANGED <<timers, node, monitor, vm, helper, runs, count>>

-----------------------------------------------------------------------------
(* GlobalStatusActor *)

\* handlerRegisterVmActor, handlerDeregisterVmActor
StatusRegisterVmActor ==
  /\ Receives(Status, "RegisterVmActor")
  /\ count' = count + 1
  /\ mail' = Handled(Status, {})
  /\ UNCHANGED <<timers, node, monitor, vm, proxy, helper, runs>>

StatusDeregisterVmActor ==
  /\ Receives(Status, "DeregisterVmActor")
  /\ count' = IF count > 0 THEN count - 1 ELSE count
  /\ mail' = Handled(Status, {})
  /\ UNCHANGED <<timers, node, monitor, vm, proxy, helper, runs>>

-----------------------------------------------------------------------------
NodeStep ==
  \/ NodeInit \/ NodeSetActor \/ NodeAnswers \/ NodeAddVmActor \/ NodeNoDeployInfo
  \/ NodeDeployInfo \/ NodeCannotAddVm \/ NodeVmProvisioned \/ NodeRemoveVmActor
  \/ NodeNotReadyJet
  \/ \E u \in Uuids : NodeAddVm(u)

MonitorStep == MonitorInit \/ MonitorSetActor \/ MonitorGetSystemAttributes

MasterStep ==
  \/ MasterAnswers \/ InstGetDeployInfo \/ InstGetTask
  \/ StatusRegisterVmActor \/ StatusDeregisterVmActor

VMStep(u) ==
  \/ VMInit(u) \/ VMSetActor(u) \/ VMDeployInfo(u) \/ VMNoDeployInfo(u) \/ VMSystemAttributes(u)
  \/ VMNotRunning(u) \/ VMProvisioned(u) \/ VMNoMoreTasks(u) \/ VMDestroyed(u)

HelperStep(u) == HelperProvisions(u) \/ HelperFails(u) \/ HelperDestroys(u)

ProxyStep(u) ==
  \/ ProxyInit(u) \/ ProxySetActor(u) \/ ProxySetConfig(u)
  \/ ProxyNoMoreTasks(u)

Next ==
  \/ NodeStep \/ MonitorStep \/ MasterStep
  \/ \E v \in Versions : Upload(v) \/ RunDone(v)
  \/ \E tm \in DOMAIN timers : Fire(tm)
  \/ \E u \in Uuids : VMStep(u) \/ HelperStep(u) \/ ProxyStep(u) \/ ProxyPolls(u)

Spec == Init /\ [][Next]_vars

\* What the code schedules with scheduleOnce
Scheduling ==
  {[to |-> Node, msg |-> Msg("AddVmActor", Node)],
   [to |-> Monitor, msg |-> Msg("GetSystemAttributes", Node)]} \cup
  {[to |-> Instances, msg |-> Msg("GetDeployInfo", VM(u))] : u \in Uuids}

(***************************************************************************)
(* Fairness: the dispatchers run every actor with mail, the schedulers     *)
(* fire, vagrant comes to an end and succeeds when it is tried again and   *)
(* again, and the VMs keep asking.  Whether and when runs are uploaded and *)
(* done is left to the users.                                              *)
(***************************************************************************)
Fairness ==
  /\ WF_vars(NodeStep) /\ WF_vars(MonitorStep) /\ WF_vars(MasterAnswers)
  /\ WF_vars(InstGetDeployInfo \/ InstGetTask)
  /\ WF_vars(StatusRegisterVmActor \/ StatusDeregisterVmActor)
  /\ \A tm \in Scheduling : WF_vars(Fire(tm))
  /\ \A u \in Uuids : /\ WF_vars(VMStep(u))
                      /\ SF_vars(HelperProvisions(u)) /\ WF_vars(HelperDestroys(u))
                      /\ WF_vars(ProxyStep(u)) /\ WF_vars(ProxyPolls(u))

FairSpec == Spec /\ Fairness

-----------------------------------------------------------------------------
(* Properties *)

InMail(a, m, from) == \E i \in DOMAIN mail[a] : mail[a][i].m = m /\ mail[a][i].from = from

(* At most one VM of a node is being provisioned: addVm compares the memory *)
(* it needs with the free memory, which a VM on its way up does not show.   *)
OneVmAtATime ==
  Cardinality({u \in Uuids : vm[u].state = "up" /\ ~vm[u].provisioned}) <= 1

(* When the attributes of the system come, the NodeActor still has the      *)
(* config that addVm reads: no NoDeployInfo has cleared it in between.      *)
AddVmKnowsConfig == Receives(Node, "SystemAttributes") => node.config

(* A VMActor has one VMActorHelper at a time, and its config is not cleared *)
(* while the thread of the helper reads it.                                 *)
HelperAlone ==
  \A u \in Uuids : /\ \A x, y \in DOMAIN helper[u] : x = y /\ helper[u][x] = 1
                   /\ BagIn("provision", helper[u]) => vm[u].config # None /\ ~vm[u].provisioned
                   /\ BagIn("destroy", helper[u]) => vm[u].provisioned

(* The map of the NodeActor names an actor of a VM exactly while it lives,  *)
(* or until its RemoveVmActor message is handled.                           *)
VmMapMatches ==
  \A u \in Uuids :
    /\ <<u, "vm">> \in node.vmActors <=>
         vm[u].state = "up" \/ InMail(Node, "RemoveVmActor", VM(u))
    /\ <<u, "proxy">> \in node.vmActors <=>
         proxy[u].state = "up" \/ InMail(Node, "RemoveVmActor", Proxy(u))

(* A VM outlives its proxy only to be destroyed: the VMActor is told, and   *)
(* can handle it.                                                           *)
OrphanIsDestroyed ==
  \A u \in Uuids : proxy[u].state = "gone" /\ vm[u].state = "up" =>
    /\ vm[u].provisioned
    /\ \/ InMail(VM(u), "NoMoreTasks", Proxy(u)) \/ BagIn("destroy", helper[u])
       \/ InMail(VM(u), "VmDestroy", VM(u))

(* As long as there are runs the NodeActor tries again and again to add a   *)
(* VM ("eventually more and more VMs will be started", README.md).  The code*)
(* does not keep it: NoDeployInfo that reaches a VM before its attributes   *)
(* ends the chain of the one VM the NodeActor waits for.                    *)
KeepsAddingVMs == <>[](runs.present # {}) => []<>(node.timer)

(* A VM whose run is done is destroyed, whatever fails while it is made;    *)
(* unless its VMProxyActor got the config before it knew the InstanceActor, *)
(* so that its timer asks nobody for tasks.                                 *)
IdleVmIsDestroyed ==
  \A u \in Uuids :
    (vm[u].provisioned /\ vm[u].config \notin runs.present)
      ~> (vm[u].state = "gone" \/ proxy[u].timer = "nobody")
=============================================================================
