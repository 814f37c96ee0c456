------------------------- MODULE NodeLifecycleProofs -------------------------
(***************************************************************************)
(* Theorems about NodeLifecycle, for every finite set of VMs, any versions *)
(* and every combination of faults.                                        *)
(*                                                                         *)
(* The argument follows tokens.  What the NodeActor does to add a VM is a  *)
(* chain of messages, timers and states of which one at a time is there:   *)
(* it has one token.  So has every chain of a VM: each reference its       *)
(* VMActor asks for, the attributes of the system, the configuration up to *)
(* a VM that is provisioned, and its end.                                  *)
(***************************************************************************)
EXTENDS NodeLifecycle, FiniteSetTheorems, SequenceTheorems, TLAPS

-----------------------------------------------------------------------------
(* Mailboxes as sets *)

VMs == {VM(u) : u \in Uuids}
Proxies == {Proxy(u) : u \in Uuids}
Kinds == {"instance", "proxy", "monitor", "status"}

\* A SetActor message is named by what it is about.
Name(x) == IF x.m = "SetActor" THEN x.data ELSE x.m

\* The messages a chain is made of
ChainNames == {"AddVmActor", "DeployInfo", "NoDeployInfo", "NotReadyJet", "SystemAttributes",
               "RemoveVmActor", "GetDeployInfo", "GetSystemAttributes"}
Tracked(b, m, f) == m \in ChainNames \/ b \in VMs \/ f \in VMs

Names == ChainNames \cup Kinds \cup
  {"vm", "null", "Init", "GetInstanceActor", "GetGlobalStatusActor", "GetNodeMonitorActor",
   "GetVmProxyActor", "GetVmActor", "VmProvisioned", "GetTask", "RegisterVmActor",
   "DeregisterVmActor", "Running", "NotRunning", "VmDestroy", "NoMoreTasks", "SetConfig"}

Messages ==
  [m : Names \cup {"SetActor"}, from : Actors] \cup
  [m : Names \cup {"SetActor"}, from : Actors, data : Names \cup Versions \cup {None}]

\* x is a message that b may get.
MayGet(b, x) ==
  /\ b = Node =>
       \/ x.m \in {"Init", "AddVmActor"} /\ x.from = Node
       \/ x.m = "SetActor" /\ x.from = Master /\ x.data \in {"instance", "status"}
       \/ x.m = "NoDeployInfo" /\ x.from = Instances
       \/ x.m = "DeployInfo" /\ x.from = Instances
       \/ x.m \in {"SystemAttributes", "GetGlobalStatusActor"} /\ x.from = Monitor
       \/ x.m = "NotReadyJet" /\ x.from = Monitor /\ x.data = "GetSystemAttributes"
       \/ x.from \in VMs /\ x.m \in {"GetInstanceActor", "GetGlobalStatusActor", "GetVmProxyActor",
                                     "GetNodeMonitorActor", "VmProvisioned", "RemoveVmActor"}
       \/ x.from \in Proxies /\ x.m \in {"GetVmActor", "GetInstanceActor", "RemoveVmActor"}
  /\ b = Master => x.from = Node /\ x.m \in {"GetInstanceActor", "GetGlobalStatusActor"}
  /\ b = Monitor =>
       \/ x.m = "Init" /\ x.from = Monitor
       \/ x.m = "SetActor" /\ x.from = Node /\ x.data = "status"
       \/ x.m = "GetSystemAttributes" /\ x.from \in VMs \cup {Node}
  /\ b = Instances =>
       \/ x.m = "GetDeployInfo" /\ x.from \in VMs \cup {Node}
       \/ x.m = "GetTask" /\ x.from \in Proxies
  /\ b = Status => x.m \in {"RegisterVmActor", "DeregisterVmActor"} /\ x.from \in VMs
  /\ \A u \in Uuids : b = VM(u) =>
       \/ x.m \in {"Init", "Running", "NotRunning", "VmDestroy"} /\ x.from = VM(u)
       \/ x.m = "SetActor" /\ x.from = Node /\ x.data \in Kinds \cup {"null"}
       \/ x.m = "NoDeployInfo" /\ x.from = Instances
       \/ x.m = "DeployInfo" /\ x.from = Instances /\ x.data \in Versions
       \/ x.m \in {"SystemAttributes", "NotReadyJet"} /\ x.from = Monitor
       \/ x.m = "NoMoreTasks" /\ x.from = Proxy(u)
  /\ \A u \in Uuids : b = Proxy(u) =>
       \/ x.m = "Init" /\ x.from = Proxy(u)
       \/ x.m = "SetActor" /\ x.from = Node /\ x.data \in {"vm", "instance", "null"}
       \/ x.m = "NoMoreTasks" /\ x.from = Instances
       \/ x.m = "SetConfig" /\ x.from = VM(u) /\ x.data \in Versions

In(q, m, f) == \E i \in 1 .. Len(q) : Name(q[i]) = m /\ q[i].from = f
Once(q, m, f) ==
  \A i, j \in 1 .. Len(q) :
    Name(q[i]) = m /\ q[i].from = f /\ Name(q[j]) = m /\ q[j].from = f => i = j

\* The senders of the messages of a chain
box == [b \in Actors |-> [m \in Names |-> {f \in Actors : Tracked(b, m, f) /\ In(mail[b], m, f)}]]
Has(b, m, f) == f \in box[b][m]

MailShape ==
  /\ DOMAIN mail = Actors
  /\ \A b \in Actors : mail[b] \in Seq(Messages)
  /\ \A b \in Actors : \A i \in 1 .. Len(mail[b]) : MayGet(b, mail[b][i])

\* A mailbox never holds the same message of a chain twice.
MailOnce ==
  \A b, f \in Actors : \A m \in Names : Tracked(b, m, f) => Once(mail[b], m, f)

-----------------------------------------------------------------------------
(* Types *)

AddTimer == [to |-> Node, msg |-> Msg("AddVmActor", Node)]
RetryTimer == [to |-> Monitor, msg |-> Msg("GetSystemAttributes", Node)]
AskTimer(u) == [to |-> Instances, msg |-> Msg("GetDeployInfo", VM(u))]

Shape ==
  /\ DOMAIN timers \subseteq Scheduling /\ \A tm \in DOMAIN timers : timers[tm] = 1
  /\ node \in [ready : BOOLEAN, refs : SUBSET {"instance", "status"}, timer : BOOLEAN,
               config : BOOLEAN, vmActors : SUBSET (Uuids \X {"vm", "proxy"})]
  /\ monitor \in [state : {"none", "up"}, ready : BOOLEAN, vagrant : BOOLEAN]
  /\ vm \in [Uuids -> VMState] /\ proxy \in [Uuids -> ProxyState]
  /\ DOMAIN helper = Uuids
  /\ runs \in [present : SUBSET Versions, future : SUBSET Versions]
  /\ count \in Nat

-----------------------------------------------------------------------------
(* The token of the NodeActor *)

ChainOfNode == {"start", "timer", "add", "ask", "deploy", "none", "measure", "again", "retry",
                "attributes", "vm", "provisioned"}

\* Where the token may be: a stage, and a VM where that matters
TokenAt(p, u) ==
  \/ p = "start"      /\ u = None /\ monitor.state = "none"
  \/ p = "timer"      /\ u = None /\ AddTimer \in DOMAIN timers
  \/ p = "add"        /\ u = None /\ Has(Node, "AddVmActor", Node)
  \/ p = "ask"        /\ u = None /\ Has(Instances, "GetDeployInfo", Node)
  \/ p = "deploy"     /\ u = None /\ Has(Node, "DeployInfo", Instances)
  \/ p = "none"       /\ u = None /\ Has(Node, "NoDeployInfo", Instances)
  \/ p = "measure"    /\ u = None /\ Has(Monitor, "GetSystemAttributes", Node)
  \/ p = "again"      /\ u = None /\ Has(Node, "NotReadyJet", Monitor)
  \/ p = "retry"      /\ u = None /\ RetryTimer \in DOMAIN timers
  \/ p = "attributes" /\ u = None /\ Has(Node, "SystemAttributes", Monitor)
  \/ p = "vm"          /\ u \in Uuids /\ vm[u].state = "up" /\ ~vm[u].provisioned
  \/ p = "provisioned" /\ u \in Uuids /\ Has(Node, "VmProvisioned", VM(u))

OneToken ==
  \A p, q \in ChainOfNode : \A u, v \in Uuids \cup {None} :
    TokenAt(p, u) /\ TokenAt(q, v) => p = q /\ u = v

ConfigKnown ==
  \A p \in {"measure", "again", "retry", "attributes"} : TokenAt(p, None) => node.config

-----------------------------------------------------------------------------
(* The chains of a VM *)

Getter(k) ==
  CASE k = "instance" -> "GetInstanceActor" [] k = "proxy" -> "GetVmProxyActor"
    [] k = "monitor" -> "GetNodeMonitorActor" [] OTHER -> "GetGlobalStatusActor"

\* An answer about k; null is an answer about the proxy.
AnswerTo(u, k) == Has(VM(u), k, Node) \/ (k = "proxy" /\ Has(VM(u), "null", Node))

OneReference(u) ==
  /\ Has(VM(u), "Init", VM(u)) => vm[u].refs = {}
  /\ ~(Has(VM(u), "proxy", Node) /\ Has(VM(u), "null", Node))
  /\ \A k \in Kinds :
       /\ Has(VM(u), "Init", VM(u)) => ~Has(Node, Getter(k), VM(u)) /\ ~AnswerTo(u, k)
       /\ Has(Node, Getter(k), VM(u)) => ~AnswerTo(u, k)
       /\ Has(Node, Getter(k), VM(u)) \/ AnswerTo(u, k) => k \notin vm[u].refs

AttributesAt(u, p) ==
  \/ p = "asked"    /\ Has(Monitor, "GetSystemAttributes", VM(u))
  \/ p = "answered" /\ Has(VM(u), "SystemAttributes", Monitor)
  \/ p = "refused"  /\ Has(VM(u), "NotReadyJet", Monitor)
  \/ p = "known"    /\ vm[u].attributes

ConfigAt(u, p) ==
  \/ p = "timer"   /\ AskTimer(u) \in DOMAIN timers
  \/ p = "asked"   /\ Has(Instances, "GetDeployInfo", VM(u))
  \/ p = "deploy"  /\ Has(VM(u), "DeployInfo", Instances)
  \/ p = "none"    /\ Has(VM(u), "NoDeployInfo", Instances)
  \/ p = "waits"   /\ vm[u].config # None /\ ~vm[u].attributes
  \/ p = "helper"  /\ "provision" \in DOMAIN helper[u]
  \/ p = "running" /\ Has(VM(u), "Running", VM(u))
  \/ p = "not"     /\ Has(VM(u), "NotRunning", VM(u))
  \/ p = "done"    /\ vm[u].provisioned

EndAt(u, p) ==
  \/ p = "told"   /\ Has(VM(u), "NoMoreTasks", Proxy(u))
  \/ p = "helper" /\ "destroy" \in DOMAIN helper[u]
  \/ p = "over"   /\ Has(VM(u), "VmDestroy", VM(u))

ChainOfVm == {"asked", "answered", "refused", "known", "timer", "deploy", "none", "waits", "helper",
              "running", "not", "done", "told", "over"}

OneOfEach(u) ==
  \A p, q \in ChainOfVm :
    /\ AttributesAt(u, p) /\ AttributesAt(u, q) => p = q
    /\ ConfigAt(u, p) /\ ConfigAt(u, q) => p = q
    /\ EndAt(u, p) /\ EndAt(u, q) => p = q

\* The chains begin when the VMActor knows all actors.
ChainsBegin(u) ==
  ~CheckReady(vm[u]) => \A p \in ChainOfVm : ~AttributesAt(u, p) /\ ~ConfigAt(u, p)

\* A VMActor that is not there has nothing under way.
VmAbsent(u) ==
  vm[u].state # "up" =>
    /\ ~vm[u].ready /\ vm[u].refs = {}
    /\ \A p \in ChainOfVm : ~AttributesAt(u, p) /\ ~ConfigAt(u, p) /\ ~EndAt(u, p)
    /\ ~Has(VM(u), "Init", VM(u))
    /\ \A k \in Kinds : ~Has(Node, Getter(k), VM(u)) /\ ~AnswerTo(u, k)

NotYet(u) ==
  vm[u].state = "none" <=> proxy[u].state = "none"

HelperShape(u) ==
  /\ DOMAIN helper[u] \subseteq {"provision", "destroy"}
  /\ \A x \in DOMAIN helper[u] : helper[u][x] = 1
  /\ \A p \in {"helper", "running", "not", "done"} : ConfigAt(u, p) => vm[u].config # None

\* The VMProxyActor goes after its VM is provisioned, and before it.
ProxyAndVm(u) ==
  /\ vm[u].ready => CheckReady(vm[u])
  /\ vm[u].state = "gone" => proxy[u].state = "gone"
  /\ Has(Proxy(u), "SetConfig", VM(u)) \/ proxy[u].config # None =>
       vm[u].provisioned /\ proxy[u].state = "up"
  /\ proxy[u].ready => proxy[u].config # None
  /\ \A p \in ChainOfVm : EndAt(u, p) => proxy[u].state = "gone"
  /\ proxy[u].state = "gone" /\ vm[u].state = "up" =>
       vm[u].provisioned /\ \E p \in ChainOfVm : EndAt(u, p)

\* The VM was provisioned once.
Served(u) == vm[u].provisioned \/ vm[u].state = "gone"

Reports(u) ==
  /\ Has(Node, "RemoveVmActor", VM(u)) => vm[u].state = "gone"
  /\ Has(Node, "RemoveVmActor", Proxy(u)) => proxy[u].state = "gone"
  /\ Has(Status, "DeregisterVmActor", VM(u)) => vm[u].state = "gone"
  /\ Has(Status, "RegisterVmActor", VM(u)) => Served(u)
  /\ Has(Node, "VmProvisioned", VM(u)) => Served(u)

InMap(u) ==
  /\ <<u, "vm">> \in node.vmActors <=> vm[u].state = "up" \/ Has(Node, "RemoveVmActor", VM(u))
  /\ <<u, "proxy">> \in node.vmActors <=> proxy[u].state = "up" \/ Has(Node, "RemoveVmActor", Proxy(u))

Registered == {u \in Uuids : Served(u) /\ ~Has(Status, "RegisterVmActor", VM(u))}

VmInv(u) ==
  /\ OneReference(u) /\ OneOfEach(u) /\ ChainsBegin(u) /\ VmAbsent(u) /\ NotYet(u)
  /\ HelperShape(u) /\ ProxyAndVm(u) /\ Reports(u) /\ InMap(u)

NodeInv ==
  /\ MailShape /\ MailOnce /\ Shape
  /\ OneToken /\ ConfigKnown
  /\ \A u \in Uuids : VmInv(u)
  /\ count <= Cardinality(Registered)

-----------------------------------------------------------------------------
(* The actors *)

LEMMA ActorsDiffer ==
  /\ Node \in Actors /\ Monitor \in Actors /\ Master \in Actors
  /\ Instances \in Actors /\ Status \in Actors
  /\ Node # Monitor /\ Node # Master /\ Node # Instances /\ Node # Status
  /\ Monitor # Master /\ Monitor # Instances /\ Monitor # Status
  /\ Master # Instances /\ Master # Status /\ Instances # Status
<1>1. /\ Node # Monitor /\ Node # Master /\ Node # Instances /\ Node # Status
      /\ Monitor # Master /\ Monitor # Instances /\ Monitor # Status
      /\ Master # Instances /\ Master # Status /\ Instances # Status
  BY DEF Node, Monitor, Master, Instances, Status
<1> QED
  BY <1>1 DEF Actors

LEMMA VmActorsDiffer ==
  ASSUME NEW u \in Uuids
  PROVE  /\ VM(u) \in Actors /\ Proxy(u) \in Actors /\ VM(u) \in VMs /\ Proxy(u) \in Proxies
         /\ VM(u) \notin {Node, Monitor, Master, Instances, Status}
         /\ Proxy(u) \notin {Node, Monitor, Master, Instances, Status}
         /\ \A v \in Uuids : VM(u) # Proxy(v) /\ Proxy(u) # VM(v)
         /\ \A v \in Uuids : VM(u) = VM(v) \/ Proxy(u) = Proxy(v) => u = v
         /\ Proxy(u) \notin VMs /\ VM(u) \notin Proxies
         /\ VM(u)[1] = "vm" /\ VM(u)[2] = u /\ Proxy(u)[1] = "proxy" /\ Proxy(u)[2] = u
<1>1. VM(u)[1] = "vm" /\ VM(u)[2] = u /\ Proxy(u)[1] = "proxy" /\ Proxy(u)[2] = u
  BY DEF VM, Proxy
<1>2. \A v \in Uuids : VM(v)[1] = "vm" /\ VM(v)[2] = v /\ Proxy(v)[1] = "proxy" /\ Proxy(v)[2] = v
  BY DEF VM, Proxy
<1>3. \A v \in Uuids : /\ VM(u) # Proxy(v) /\ Proxy(u) # VM(v)
                       /\ VM(u) = VM(v) \/ Proxy(u) = Proxy(v) => u = v
  BY <1>1, <1>2
<1>4. /\ VM(u) \notin {Node, Monitor, Master, Instances, Status}
      /\ Proxy(u) \notin {Node, Monitor, Master, Instances, Status}
  BY DEF VM, Proxy, Node, Monitor, Master, Instances, Status
<1>5. Proxy(u) \notin VMs /\ VM(u) \notin Proxies
  BY <1>3 DEF VMs, Proxies
<1>6. VM(u) \in Actors /\ Proxy(u) \in Actors /\ VM(u) \in VMs /\ Proxy(u) \in Proxies
  BY DEF Actors, VMs, Proxies
<1> QED
  BY <1>1, <1>3, <1>4, <1>5, <1>6

LEMMA OthersAreNoVms ==
  \A b \in {Node, Monitor, Master, Instances, Status} : b \notin VMs /\ b \notin Proxies
  BY VmActorsDiffer DEF VMs, Proxies

-----------------------------------------------------------------------------
(* What is in a mailbox *)

LEMMA InTail ==
  ASSUME NEW q \in Seq(Messages), q # <<>>, NEW m, NEW f, Once(q, m, f)
  PROVE  /\ In(Tail(q), m, f) <=> In(q, m, f) /\ ~(m = Name(Head(q)) /\ f = Head(q).from)
         /\ Once(Tail(q), m, f)
<1> DEFINE k == Len(q)
<1>1. k \in Nat \ {0} /\ Len(Tail(q)) = k - 1 /\ Head(q) = q[1]
  OBVIOUS
<1>2. \A i \in 1 .. k - 1 : Tail(q)[i] = q[i + 1] /\ i + 1 \in 1 .. k
  BY <1>1
<1>3. \A i \in 2 .. k : i - 1 \in 1 .. k - 1 /\ Tail(q)[i - 1] = q[i]
  BY <1>1
<1>4. Once(Tail(q), m, f)
  <2> SUFFICES ASSUME NEW i \in 1 .. k - 1, NEW j \in 1 .. k - 1,
                      Name(Tail(q)[i]) = m, Tail(q)[i].from = f,
                      Name(Tail(q)[j]) = m, Tail(q)[j].from = f
               PROVE  i = j
    BY <1>1 DEF Once
  <2>1. i + 1 = j + 1
    BY <1>2 DEF Once
  <2> QED
    BY <2>1
<1>5. ASSUME In(Tail(q), m, f)
      PROVE  In(q, m, f) /\ ~(m = Name(Head(q)) /\ f = Head(q).from)
  <2>1. PICK i \in 1 .. k - 1 : Name(Tail(q)[i]) = m /\ Tail(q)[i].from = f
    BY <1>1, <1>5 DEF In
  <2>2. i + 1 \in 1 .. k /\ Name(q[i + 1]) = m /\ q[i + 1].from = f
    BY <1>2, <2>1
  <2>3. ASSUME m = Name(Head(q)), f = Head(q).from PROVE FALSE
    <3>1. 1 \in 1 .. k /\ Name(q[1]) = m /\ q[1].from = f
      BY <1>1, <2>3
    <3>2. i + 1 = 1
      BY <2>2, <3>1 DEF Once
    <3> QED
      BY <3>2
  <2> QED
    BY <2>2, <2>3 DEF In
<1>6. ASSUME In(q, m, f), ~(m = Name(Head(q)) /\ f = Head(q).from)
      PROVE  In(Tail(q), m, f)
  <2>1. PICK i \in 1 .. k : Name(q[i]) = m /\ q[i].from = f
    BY <1>6 DEF In
  <2>2. i \in 2 .. k
    BY <1>1, <1>6, <2>1
  <2> QED
    BY <1>1, <1>3, <2>1, <2>2 DEF In
<1> QED
  BY <1>4, <1>5, <1>6

LEMMA InConcat ==
  ASSUME NEW q \in Seq(Messages), NEW r \in Seq(Messages), NEW m, NEW f
  PROVE  /\ In(q \o r, m, f) <=> In(q, m, f) \/ In(r, m, f)
         /\ Once(q, m, f) /\ Once(r, m, f) /\ ~(In(q, m, f) /\ In(r, m, f)) => Once(q \o r, m, f)
<1> DEFINE k == Len(q)
           l == Len(r)
           s == q \o r
<1>1. k \in Nat /\ l \in Nat /\ Len(s) = k + l
  OBVIOUS
<1>2. \A i \in 1 .. k : s[i] = q[i] /\ i \in 1 .. Len(s)
  BY <1>1
<1>3. \A i \in 1 .. l : s[k + i] = r[i] /\ k + i \in 1 .. Len(s)
  BY <1>1
<1>4. \A i \in 1 .. Len(s) : i \in 1 .. k \/ (i - k \in 1 .. l /\ i = k + (i - k))
  BY <1>1
<1> HIDE DEF s, k, l
<1>5. ASSUME NEW i \in 1 .. Len(s), i \notin 1 .. k PROVE i - k \in 1 .. l /\ s[i] = r[i - k]
  BY <1>3, <1>4, <1>5
<1>6. In(s, m, f) <=> In(q, m, f) \/ In(r, m, f)
  <2>1. ASSUME In(s, m, f) PROVE In(q, m, f) \/ In(r, m, f)
    <3>1. PICK i \in 1 .. Len(s) : Name(s[i]) = m /\ s[i].from = f
      BY <2>1 DEF In
    <3> QED
      BY <1>2, <1>5, <3>1 DEF In, k, l
  <2>2. ASSUME In(q, m, f) PROVE In(s, m, f)
    BY <1>2, <2>2 DEF In, k
  <2>3. ASSUME In(r, m, f) PROVE In(s, m, f)
    BY <1>3, <2>3 DEF In, l
  <2> QED
    BY <2>1, <2>2, <2>3
<1>7. ASSUME Once(q, m, f), Once(r, m, f), ~(In(q, m, f) /\ In(r, m, f)) PROVE Once(s, m, f)
  <2> SUFFICES ASSUME NEW i \in 1 .. Len(s), NEW j \in 1 .. Len(s),
                      Name(s[i]) = m, s[i].from = f, Name(s[j]) = m, s[j].from = f
               PROVE  i = j
    BY DEF Once
  <2>1. CASE i \in 1 .. k /\ j \in 1 .. k
    BY <1>2, <1>7, <2>1 DEF Once, k
  <2>2. CASE i \notin 1 .. k /\ j \notin 1 .. k
    <3>1. i - k = j - k
      BY <1>5, <1>7, <2>2 DEF Once, l
    <3> QED
      BY <1>1, <3>1
  <2>3. CASE i \in 1 .. k /\ j \notin 1 .. k
    BY <1>2, <1>5, <1>7, <2>3 DEF In, k, l
  <2>4. CASE i \notin 1 .. k /\ j \in 1 .. k
    BY <1>2, <1>5, <1>7, <2>4 DEF In, k, l
  <2> QED
    BY <2>1, <2>2, <2>3, <2>4
<1> QED
  BY <1>6, <1>7 DEF s

LEMMA InEmpty ==
  ASSUME NEW m, NEW f
  PROVE  ~In(<<>>, m, f) /\ Once(<<>>, m, f)
  BY DEF In, Once

LEMMA InSingle ==
  ASSUME NEW x, NEW m, NEW f
  PROVE  (In(<<x>>, m, f) <=> m = Name(x) /\ f = x.from) /\ Once(<<x>>, m, f)
  BY DEF In, Once

-----------------------------------------------------------------------------
(* What a step does to the mailboxes *)

LEMMA HasDef ==
  ASSUME NEW b \in Actors, NEW f \in Actors, NEW m \in Names
  PROVE  /\ Has(b, m, f) <=> Tracked(b, m, f) /\ In(mail[b], m, f)
         /\ Has(b, m, f)' <=> Tracked(b, m, f) /\ In(mail'[b], m, f)
<1>1. Has(b, m, f) <=> Tracked(b, m, f) /\ In(mail[b], m, f)
  BY DEF Has, box
<1>2. Has(b, m, f)' <=> Tracked(b, m, f) /\ In(mail'[b], m, f)
  <2>1. box' = [c \in Actors |-> [n \in Names |-> {g \in Actors : Tracked(c, n, g) /\ In(mail'[c], n, g)}]]
    BY DEF box, Tracked, In, Name
  <2> QED
    BY <2>1 DEF Has
<1> QED
  BY <1>1, <1>2

\* Message x is sent to b, and was not there.
MaySend(b, x) ==
  /\ b \in Actors /\ x \in Messages /\ MayGet(b, x)
  /\ Tracked(b, Name(x), x.from) => Name(x) \in Names /\ ~Has(b, Name(x), x.from)

Sent(sends, b, m, f) == \E s \in sends : s[1] = b /\ In(s[2], m, f)

\* sends holds the messages for each receiver, and each of them once.
Sendable(sends) ==
  /\ \A s \in sends : s[2] \in Seq(Messages) /\ \A i \in 1 .. Len(s[2]) : MaySend(s[1], s[2][i])
  /\ \A s \in sends : \A m \in Names : \A f \in Actors : Tracked(s[1], m, f) => Once(s[2], m, f)
  /\ \A s, t \in sends : s[1] = t[1] => s = t

\* M are mailboxes with the right messages in them, and none twice.
GoodMail(M) ==
  /\ DOMAIN M = Actors
  /\ \A b \in Actors : M[b] \in Seq(Messages) /\ \A i \in 1 .. Len(M[b]) : MayGet(b, M[b][i])
  /\ \A b, f \in Actors : \A m \in Names : Tracked(b, m, f) => Once(M[b], m, f)

LEMMA GoodMailIs ==
  /\ GoodMail(mail) <=> MailShape /\ MailOnce
  /\ GoodMail(mail') <=> MailShape' /\ MailOnce'
<1>1. GoodMail(mail) <=> MailShape /\ MailOnce
  BY DEF GoodMail, MailShape, MailOnce
<1>2. GoodMail(mail') <=> MailShape' /\ MailOnce'
  BY DEF GoodMail, MailShape, MailOnce
<1> QED
  BY <1>1, <1>2

LEMMA HandledMail ==
  ASSUME MailShape, MailOnce, NEW a \in Actors, mail[a] # <<>>, NEW sends, Sendable(sends),
         NEW M, M = Handled(a, sends)
  PROVE  /\ GoodMail(M)
         /\ \A b, f \in Actors : \A m \in Names : Tracked(b, m, f) =>
              (In(M[b], m, f) <=>
                \/ In(mail[b], m, f) /\ ~(b = a /\ m = Name(Head(mail[a])) /\ f = Head(mail[a]).from)
                \/ Sent(sends, b, m, f))
<1> DEFINE Rest(b) == IF b = a THEN Tail(mail[b]) ELSE mail[b]
<1>1. DOMAIN M = Actors
  BY DEF Handled
<1>2. \A b \in Actors : Rest(b) \in Seq(Messages)
  BY DEF MailShape
<1>3. \A b \in Actors : \A i \in 1 .. Len(Rest(b)) : MayGet(b, Rest(b)[i])
  <2> SUFFICES ASSUME NEW b \in Actors, NEW i \in 1 .. Len(Rest(b)) PROVE MayGet(b, Rest(b)[i])
    OBVIOUS
  <2>1. CASE b # a
    BY <2>1 DEF MailShape
  <2>2. CASE b = a
    <3>1. mail[a] \in Seq(Messages)
      BY DEF MailShape
    <3>2. Rest(b) = Tail(mail[a])
      BY <2>2
    <3> HIDE DEF Rest
    <3>3. i + 1 \in 1 .. Len(mail[a]) /\ Rest(b)[i] = mail[a][i + 1]
      BY <3>1, <3>2
    <3> QED
      BY <2>2, <3>3 DEF MailShape
  <2> QED
    BY <2>1, <2>2
<1>4. ASSUME NEW b \in Actors, NEW f \in Actors, NEW m \in Names, Tracked(b, m, f)
      PROVE  /\ Once(Rest(b), m, f)
             /\ In(Rest(b), m, f) <=>
                  In(mail[b], m, f) /\ ~(b = a /\ m = Name(Head(mail[a])) /\ f = Head(mail[a]).from)
  <2>1. mail[b] \in Seq(Messages) /\ Once(mail[b], m, f)
    BY <1>4 DEF MailShape, MailOnce
  <2>2. CASE b = a
    BY <2>1, <2>2, InTail
  <2>3. CASE b # a
    BY <2>1, <2>3
  <2> QED
    BY <2>2, <2>3
<1>5. ASSUME NEW s \in sends, s[1] \in Actors PROVE M[s[1]] = Rest(s[1]) \o s[2]
  <2>1. (CHOOSE t \in sends : t[1] = s[1]) = s
    BY DEF Sendable
  <2> QED
    BY <1>5, <2>1 DEF Handled
<1>6. ASSUME NEW b \in Actors, \A s \in sends : s[1] # b PROVE M[b] = Rest(b)
  BY <1>6 DEF Handled
<1> HIDE DEF Rest
<1>7. ASSUME NEW b \in Actors
      PROVE  /\ M[b] \in Seq(Messages)
             /\ \A i \in 1 .. Len(M[b]) : MayGet(b, M[b][i])
             /\ \A f \in Actors : \A m \in Names : Tracked(b, m, f) =>
                  /\ Once(M[b], m, f)
                  /\ In(M[b], m, f) <=> In(Rest(b), m, f) \/ Sent(sends, b, m, f)
  <2>1. CASE \A s \in sends : s[1] # b
    BY <1>2, <1>3, <1>4, <1>6, <2>1 DEF Sent
  <2>2. CASE \E s \in sends : s[1] = b
    <3>1. PICK s \in sends : s[1] = b
      BY <2>2
    <3> DEFINE q == s[2]
               r == Rest(b)
    <3>2. q \in Seq(Messages) /\ \A i \in 1 .. Len(q) : MaySend(b, q[i])
      BY <3>1 DEF Sendable
    <3>3. M[b] = r \o q
      BY <1>5, <3>1
    <3>4. \A f \in Actors : \A m \in Names : Tracked(b, m, f) => Once(q, m, f)
      BY <3>1 DEF Sendable
    <3>5. \A m, f : Sent(sends, b, m, f) <=> In(q, m, f)
      BY <3>1 DEF Sent, Sendable
    <3>6. r \in Seq(Messages) /\ \A i \in 1 .. Len(r) : MayGet(b, r[i])
      BY <1>2, <1>3
    <3> HIDE DEF q, r
    <3>7. M[b] \in Seq(Messages)
      BY <3>2, <3>3, <3>6
    <3>8. ASSUME NEW i \in 1 .. Len(M[b]) PROVE MayGet(b, M[b][i])
      <4>1. \A j \in 1 .. Len(q) : MayGet(b, q[j])
        BY <3>2 DEF MaySend
      <4>2. Len(M[b]) = Len(r) + Len(q) /\ Len(r) \in Nat /\ Len(q) \in Nat
        BY <3>2, <3>3, <3>6
      <4>3. CASE i \in 1 .. Len(r)
        <5>1. M[b][i] = r[i]
          BY <3>2, <3>3, <3>6, <4>3
        <5> QED
          BY <3>6, <4>3, <5>1
      <4>4. CASE i \notin 1 .. Len(r)
        <5>1. i - Len(r) \in 1 .. Len(q) /\ M[b][i] = q[i - Len(r)]
          BY <3>2, <3>3, <3>6, <4>2, <4>4
        <5> QED
          BY <4>1, <5>1
      <4> QED
        BY <4>3, <4>4
    <3>9. ASSUME NEW f \in Actors, NEW m \in Names, Tracked(b, m, f)
          PROVE  /\ Once(M[b], m, f)
                 /\ In(M[b], m, f) <=> In(r, m, f) \/ In(q, m, f)
      <4>1. Once(r, m, f) /\ Once(q, m, f)
        BY <1>4, <3>4, <3>9 DEF r
      <4>2. ~(In(r, m, f) /\ In(q, m, f))
        <5> SUFFICES ASSUME In(r, m, f), In(q, m, f) PROVE FALSE
          OBVIOUS
        <5>1. In(mail[b], m, f)
          BY <1>4, <3>9 DEF r
        <5>2. Has(b, m, f)
          BY <3>9, <5>1, HasDef
        <5>3. PICK i \in 1 .. Len(q) : Name(q[i]) = m /\ q[i].from = f
          BY DEF In
        <5>4. ~Has(b, Name(q[i]), q[i].from)
          BY <3>2, <3>9, <5>3 DEF MaySend
        <5> QED
          BY <5>2, <5>3, <5>4
      <4> QED
        BY <3>2, <3>3, <3>6, <4>1, <4>2, InConcat
    <3> QED
      BY <3>5, <3>7, <3>8, <3>9 DEF r
  <2> QED
    BY <2>1, <2>2
<1>8. GoodMail(M)
  BY <1>1, <1>7 DEF GoodMail
<1> QED
  BY <1>4, <1>7, <1>8

\* The first message of a is taken.
Taken(a, b, m, f) == b = a /\ m = Name(Head(mail[a])) /\ f = Head(mail[a]).from

LEMMA HandledBoxes ==
  ASSUME MailShape, MailOnce, NEW a \in Actors, mail[a] # <<>>, NEW sends, Sendable(sends),
         mail' = Handled(a, sends)
  PROVE  /\ MailShape' /\ MailOnce'
         /\ \A b, f \in Actors : \A m \in Names :
              Has(b, m, f)' <=>
                \/ Has(b, m, f) /\ ~Taken(a, b, m, f)
                \/ Tracked(b, m, f) /\ Sent(sends, b, m, f)
<1> DEFINE M == mail'
<1>1. M = Handled(a, sends)
  OBVIOUS
<1> HIDE DEF M
<1>2. /\ GoodMail(M)
      /\ \A b, f \in Actors : \A m \in Names : Tracked(b, m, f) =>
           (In(M[b], m, f) <=>
             \/ In(mail[b], m, f) /\ ~(b = a /\ m = Name(Head(mail[a])) /\ f = Head(mail[a]).from)
             \/ Sent(sends, b, m, f))
  BY <1>1, HandledMail
<1> QED
  BY <1>2, GoodMailIs, HasDef DEF M, Taken

(* The actor a stops after it has handled its message: its mailbox is lost. *)
LEMMA StoppedBoxes ==
  ASSUME MailShape, MailOnce, NEW a \in Actors, mail[a] # <<>>, NEW sends, Sendable(sends),
         mail' = [Handled(a, sends) EXCEPT ![a] = <<>>]
  PROVE  /\ MailShape' /\ MailOnce'
         /\ \A b, f \in Actors : \A m \in Names :
              Has(b, m, f)' <=>
                b # a /\ (Has(b, m, f) \/ (Tracked(b, m, f) /\ Sent(sends, b, m, f)))
<1> DEFINE M == Handled(a, sends)
<1>1. /\ GoodMail(M)
      /\ \A b, f \in Actors : \A m \in Names : Tracked(b, m, f) =>
           (In(M[b], m, f) <=>
             \/ In(mail[b], m, f) /\ ~(b = a /\ m = Name(Head(mail[a])) /\ f = Head(mail[a]).from)
             \/ Sent(sends, b, m, f))
  BY HandledMail
<1> HIDE DEF M
<1>2. mail' = [M EXCEPT ![a] = <<>>]
  BY DEF M
<1>3. DOMAIN mail' = Actors /\ mail'[a] = <<>> /\ \A b \in Actors : b # a => mail'[b] = M[b]
  BY <1>1, <1>2 DEF GoodMail
<1>4. GoodMail(mail')
  BY <1>1, <1>3, InEmpty DEF GoodMail
<1>5. ASSUME NEW b \in Actors, NEW f \in Actors, NEW m \in Names
      PROVE  Has(b, m, f)' <=>
               b # a /\ (Has(b, m, f) \/ (Tracked(b, m, f) /\ Sent(sends, b, m, f)))
  <2>1. CASE b = a
    BY <1>3, <2>1, HasDef, InEmpty
  <2>2. CASE b # a
    <3>1. mail'[b] = M[b]
      BY <1>3, <2>2
    <3> QED
      BY <1>1, <2>2, <3>1, HasDef
  <2> QED
    BY <2>1, <2>2
<1> QED
  BY <1>4, <1>5, GoodMailIs

(* One message is sent from outside. *)
LEMMA AppendedBoxes ==
  ASSUME MailShape, MailOnce, NEW c, NEW x, MaySend(c, x),
         mail' = [mail EXCEPT ![c] = Append(@, x)]
  PROVE  /\ MailShape' /\ MailOnce'
         /\ \A b, f \in Actors : \A m \in Names :
              Has(b, m, f)' <=>
                Has(b, m, f) \/ (Tracked(b, m, f) /\ b = c /\ m = Name(x) /\ f = x.from)
<1>1. c \in Actors /\ x \in Messages /\ MayGet(c, x)
  BY DEF MaySend
<1>2. mail[c] \in Seq(Messages) /\ <<x>> \in Seq(Messages)
  BY <1>1 DEF MailShape
<1>3. Append(mail[c], x) = mail[c] \o <<x>>
  BY <1>1, <1>2, AppendIsConcat
<1>4. DOMAIN mail' = Actors /\ mail'[c] = mail[c] \o <<x>> /\ \A b \in Actors : b # c => mail'[b] = mail[b]
  BY <1>1, <1>3 DEF MailShape
<1>5. ASSUME NEW f \in Actors, NEW m \in Names, Tracked(c, m, f)
      PROVE  /\ In(mail'[c], m, f) <=> In(mail[c], m, f) \/ (m = Name(x) /\ f = x.from)
             /\ Once(mail'[c], m, f)
  <2>1. Once(mail[c], m, f) /\ Once(<<x>>, m, f)
    BY <1>1, <1>5, InSingle DEF MailOnce
  <2>2. In(<<x>>, m, f) <=> m = Name(x) /\ f = x.from
    BY InSingle
  <2>3. ~(In(mail[c], m, f) /\ In(<<x>>, m, f))
    BY <1>1, <1>5, <2>2, HasDef DEF MaySend
  <2>4. /\ In(mail[c] \o <<x>>, m, f) <=> In(mail[c], m, f) \/ In(<<x>>, m, f)
        /\ Once(mail[c] \o <<x>>, m, f)
    <3> DEFINE q == mail[c]
               r == <<x>>
    <3>1. q \in Seq(Messages) /\ r \in Seq(Messages) /\ Once(q, m, f) /\ Once(r, m, f)
      BY <1>2, <2>1
    <3>2. ~(In(q, m, f) /\ In(r, m, f))
      BY <2>3
    <3> HIDE DEF q, r
    <3>3. In(q \o r, m, f) <=> In(q, m, f) \/ In(r, m, f)
      BY <3>1, InConcat
    <3>4. Once(q \o r, m, f)
      BY <3>1, <3>2, InConcat
    <3> QED
      BY <3>3, <3>4 DEF q, r
  <2> QED
    BY <1>4, <2>2, <2>4
<1>6. mail'[c] \in Seq(Messages) /\ \A i \in 1 .. Len(mail'[c]) : MayGet(c, mail'[c][i])
  <2>1. mail'[c] = Append(mail[c], x)
    BY <1>3, <1>4
  <2>2. \A i \in 1 .. Len(mail[c]) : MayGet(c, mail[c][i])
    BY <1>1 DEF MailShape
  <2>3. /\ mail'[c] \in Seq(Messages) /\ Len(mail'[c]) = Len(mail[c]) + 1
        /\ \A i \in 1 .. Len(mail[c]) : mail'[c][i] = mail[c][i]
        /\ mail'[c][Len(mail[c]) + 1] = x /\ Len(mail[c]) \in Nat
    BY <1>1, <1>2, <2>1, AppendProperties
  <2>4. \A i \in 1 .. Len(mail'[c]) : i \in 1 .. Len(mail[c]) \/ i = Len(mail[c]) + 1
    BY <2>3
  <2> QED
    BY <1>1, <2>2, <2>3, <2>4
<1>7. GoodMail(mail')
  BY <1>4, <1>5, <1>6 DEF GoodMail, MailShape, MailOnce
<1> QED
  BY <1>4, <1>5, <1>7, GoodMailIs, HasDef

(* The forms sends has in the actions *)
LEMMA SendNone == Sendable({}) /\ \A b, m, f : ~Sent({}, b, m, f)
  BY DEF Sendable, Sent

LEMMA SendOne ==
  ASSUME NEW c, NEW x, MaySend(c, x)
  PROVE  /\ Sendable({<<c, <<x>> >>})
         /\ \A b, m, f : Sent({<<c, <<x>> >>}, b, m, f) <=> b = c /\ m = Name(x) /\ f = x.from
<1>1. <<x>> \in Seq(Messages) /\ Len(<<x>>) = 1 /\ <<x>>[1] = x
  BY DEF MaySend
<1>2. Sendable({<<c, <<x>> >>})
  BY <1>1, InSingle DEF Sendable
<1> QED
  BY <1>2, InSingle DEF Sent

LEMMA SendTwo ==
  ASSUME NEW c, NEW x, MaySend(c, x), NEW d, NEW y, MaySend(d, y), c # d
  PROVE  /\ Sendable({<<c, <<x>> >>, <<d, <<y>> >>})
         /\ \A b, m, f : Sent({<<c, <<x>> >>, <<d, <<y>> >>}, b, m, f) <=>
              \/ b = c /\ m = Name(x) /\ f = x.from
              \/ b = d /\ m = Name(y) /\ f = y.from
<1>1. <<x>> \in Seq(Messages) /\ Len(<<x>>) = 1 /\ <<x>>[1] = x
  BY DEF MaySend
<1>2. <<y>> \in Seq(Messages) /\ Len(<<y>>) = 1 /\ <<y>>[1] = y
  BY DEF MaySend
<1>3. Sendable({<<c, <<x>> >>, <<d, <<y>> >>})
  BY <1>1, <1>2, InSingle DEF Sendable
<1> QED
  BY <1>3, InSingle DEF Sent

LEMMA SendThree ==
  ASSUME NEW c, NEW x, MaySend(c, x), NEW d, NEW y, MaySend(d, y), NEW e, NEW z, MaySend(e, z),
         c # d, c # e, d # e
  PROVE  /\ Sendable({<<c, <<x>> >>, <<d, <<y>> >>, <<e, <<z>> >>})
         /\ \A b, m, f : Sent({<<c, <<x>> >>, <<d, <<y>> >>, <<e, <<z>> >>}, b, m, f) <=>
              \/ b = c /\ m = Name(x) /\ f = x.from
              \/ b = d /\ m = Name(y) /\ f = y.from
              \/ b = e /\ m = Name(z) /\ f = z.from
<1>1. <<x>> \in Seq(Messages) /\ Len(<<x>>) = 1 /\ <<x>>[1] = x
  BY DEF MaySend
<1>2. <<y>> \in Seq(Messages) /\ Len(<<y>>) = 1 /\ <<y>>[1] = y
  BY DEF MaySend
<1>3. <<z>> \in Seq(Messages) /\ Len(<<z>>) = 1 /\ <<z>>[1] = z
  BY DEF MaySend
<1>4. Sendable({<<c, <<x>> >>, <<d, <<y>> >>, <<e, <<z>> >>})
  BY <1>1, <1>2, <1>3, InSingle DEF Sendable
<1> QED
  BY <1>4, InSingle DEF Sent

\* Several messages for one receiver, all of different names
LEMMA SendSeveral ==
  ASSUME NEW c, NEW q \in Seq(Messages), \A i \in 1 .. Len(q) : MaySend(c, q[i]),
         \A i, j \in 1 .. Len(q) : Name(q[i]) = Name(q[j]) => i = j
  PROVE  /\ Sendable({<<c, q>>})
         /\ \A b, m, f : Sent({<<c, q>>}, b, m, f) <=> b = c /\ In(q, m, f)
<1>1. \A m, f : Once(q, m, f)
  BY DEF Once
<1> QED
  BY <1>1 DEF Sendable, Sent

(* What a is sent by an actor that names it. *)
LEMMA MsgType ==
  ASSUME NEW m \in Names, NEW f \in Actors, m # "SetActor"
  PROVE  /\ Msg(m, f) \in Messages /\ Name(Msg(m, f)) = m /\ Msg(m, f).m = m
         /\ Msg(m, f).from = f
  BY DEF Msg, Messages, Name

LEMMA MsgWithType ==
  ASSUME NEW m \in Names \cup {"SetActor"}, NEW f \in Actors, NEW x \in Names \cup Versions \cup {None}
  PROVE  /\ MsgWith(m, f, x) \in Messages /\ MsgWith(m, f, x).m = m
         /\ MsgWith(m, f, x).from = f /\ MsgWith(m, f, x).data = x
         /\ Name(MsgWith(m, f, x)) = IF m = "SetActor" THEN x ELSE m
  BY DEF MsgWith, Messages, Name

-----------------------------------------------------------------------------
(* What a step does to the token of the NodeActor *)

LEMMA TokenStays ==
  ASSUME OneToken, ConfigKnown, node.config => node'.config,
         \A p \in ChainOfNode : \A u \in Uuids \cup {None} : TokenAt(p, u)' => TokenAt(p, u)
  PROVE  OneToken' /\ ConfigKnown'
<1>1. OneToken'
  BY DEF OneToken
<1>2. ConfigKnown'
  BY DEF ConfigKnown, ChainOfNode
<1> QED
  BY <1>1, <1>2

LEMMA TokenMoves ==
  ASSUME OneToken, NEW p0 \in ChainOfNode, NEW u0 \in Uuids \cup {None}, TokenAt(p0, u0),
         NEW q0, NEW v0, q0 \in {"measure", "again", "retry", "attributes"} => node'.config,
         \A p \in ChainOfNode : \A u \in Uuids \cup {None} : TokenAt(p, u)' =>
           (p = q0 /\ u = v0) \/ (TokenAt(p, u) /\ ~(p = p0 /\ u = u0))
  PROVE  OneToken' /\ ConfigKnown'
<1>1. \A p \in ChainOfNode : \A u \in Uuids \cup {None} : TokenAt(p, u)' => p = q0 /\ u = v0
  BY DEF OneToken
<1>2. OneToken'
  BY <1>1 DEF OneToken
<1>3. ConfigKnown'
  BY <1>1 DEF ConfigKnown, ChainOfNode
<1> QED
  BY <1>2, <1>3

-----------------------------------------------------------------------------
(* What a step does to a VM *)

Reg(u) == Served(u) /\ ~Has(Status, "RegisterVmActor", VM(u))

Keeps(u) == VmInv(u)' /\ (Reg(u) => Reg(u)')

\* No new message of VM u; those that something depends on stay.
BoxFades(u) ==
  \A b, f \in Actors : \A m \in Names :
    (b \in {VM(u), Proxy(u)} \/ f \in {VM(u), Proxy(u)}) =>
      /\ Has(b, m, f)' => Has(b, m, f)
      /\ m \in {"NoMoreTasks", "VmDestroy"} => (Has(b, m, f)' <=> Has(b, m, f))

\* Nothing new happens to VM u.
VmFades(u) ==
  /\ vm'[u] = vm[u] /\ helper'[u] = helper[u]
  /\ proxy'[u].state = proxy[u].state
  /\ proxy'[u].config # None => proxy[u].config # None \/ Has(Proxy(u), "SetConfig", VM(u))
  /\ proxy'[u].ready => proxy'[u].config # None
  /\ AskTimer(u) \in DOMAIN timers' => AskTimer(u) \in DOMAIN timers
  /\ BoxFades(u)

\* The NodeActor's map of VM u stays.
MapStays(u) ==
  /\ \A k \in {"vm", "proxy"} : <<u, k>> \in node'.vmActors <=> <<u, k>> \in node.vmActors
  /\ \A f \in {VM(u), Proxy(u)} : Has(Node, "RemoveVmActor", f)' <=> Has(Node, "RemoveVmActor", f)

LEMMA FadingKeeps ==
  ASSUME NEW u \in Uuids, VmInv(u), VmFades(u), MapStays(u) \/ InMap(u)'
  PROVE  Keeps(u)
<1> USE DEF VmFades, BoxFades
<1>1. /\ VM(u) \in Actors /\ Proxy(u) \in Actors /\ Node \in Actors /\ Monitor \in Actors
      /\ Instances \in Actors /\ Status \in Actors
  BY ActorsDiffer, VmActorsDiffer
<1>2. \A k \in Kinds : Getter(k) \in Names /\ k \in Names
  BY DEF Kinds, Getter, Names, ChainNames
<1>3. \A m \in Names : \A b \in Actors : /\ Has(VM(u), m, b)' => Has(VM(u), m, b)
                                         /\ Has(b, m, VM(u))' => Has(b, m, VM(u))
  BY <1>1
<1>4. \A k \in Kinds : AnswerTo(u, k)' => AnswerTo(u, k)
  BY <1>1, <1>2, <1>3 DEF AnswerTo, Names
<1>5. OneReference(u)'
  <2>1. /\ Has(VM(u), "Init", VM(u))' => Has(VM(u), "Init", VM(u))
        /\ Has(VM(u), "proxy", Node)' => Has(VM(u), "proxy", Node)
        /\ Has(VM(u), "null", Node)' => Has(VM(u), "null", Node)
    BY <1>1, <1>3 DEF Names, Kinds
  <2>2. \A k \in Kinds : Has(Node, Getter(k), VM(u))' => Has(Node, Getter(k), VM(u))
    BY <1>1, <1>2, <1>3
  <2>3. OneReference(u) /\ vm'[u].refs = vm[u].refs
    BY DEF VmInv
  <2> QED
    BY <1>4, <2>1, <2>2, <2>3, Zenon DEF OneReference
<1>6. \A p \in ChainOfVm : AttributesAt(u, p)' => AttributesAt(u, p)
  BY <1>1, <1>3 DEF AttributesAt, Names, ChainNames
<1>7. \A p \in ChainOfVm : ConfigAt(u, p)' => ConfigAt(u, p)
  BY <1>1, <1>3 DEF ConfigAt, Names, ChainNames
<1>8. \A p \in ChainOfVm : EndAt(u, p)' <=> EndAt(u, p)
  BY <1>1 DEF EndAt, Names
<1>9. OneOfEach(u)'
  BY <1>6, <1>7, <1>8 DEF VmInv, OneOfEach
<1>10. ChainsBegin(u)' /\ NotYet(u)' /\ HelperShape(u)'
  <2>1. ChainsBegin(u)'
    BY <1>6, <1>7 DEF VmInv, ChainsBegin, CheckReady
  <2>2. NotYet(u)'
    BY DEF VmInv, NotYet
  <2>3. HelperShape(u)'
    BY <1>7 DEF VmInv, HelperShape, ChainOfVm
  <2> QED
    BY <2>1, <2>2, <2>3
<1>11. VmAbsent(u)'
  BY <1>1, <1>2, <1>3, <1>4, <1>6, <1>7, <1>8 DEF VmInv, VmAbsent, Names
<1>12. ProxyAndVm(u)'
  <2>1. Has(Proxy(u), "SetConfig", VM(u))' => Has(Proxy(u), "SetConfig", VM(u))
    BY <1>1, <1>3 DEF Names
  <2> QED
    BY <1>8, <2>1 DEF VmInv, ProxyAndVm, CheckReady
<1>13. Reports(u)'
  BY <1>1, <1>3 DEF VmInv, Reports, Served, Names, ChainNames
<1>14. InMap(u)'
  BY <1>1 DEF VmInv, InMap, MapStays
<1>15. Reg(u) => Reg(u)'
  BY <1>1, <1>3 DEF Reg, Served, Names
<1> QED
  BY <1>5, <1>9, <1>10, <1>11, <1>12, <1>13, <1>14, <1>15 DEF Keeps, VmInv

(* The actors of VM u have nothing to do with the step. *)
LEMMA QuietKeeps ==
  ASSUME NEW u \in Uuids, VmInv(u), BoxFades(u),
         vm'[u] = vm[u], proxy'[u] = proxy[u], helper'[u] = helper[u],
         AskTimer(u) \in DOMAIN timers' => AskTimer(u) \in DOMAIN timers,
         node'.vmActors = node.vmActors,
         \A f \in {VM(u), Proxy(u)} : Has(Node, "RemoveVmActor", f)' <=> Has(Node, "RemoveVmActor", f)
  PROVE  Keeps(u)
<1>1. VmFades(u) /\ MapStays(u)
  BY DEF VmFades, MapStays, VmInv, ProxyAndVm
<1> QED
  BY <1>1, FadingKeeps

-----------------------------------------------------------------------------
(* How the actions take and send messages *)

LEMMA HeadHas ==
  ASSUME MailShape, NEW a \in Actors, mail[a] # <<>>
  PROVE  /\ MayGet(a, Head(mail[a])) /\ Head(mail[a]) \in Messages /\ Head(mail[a]).from \in Actors
         /\ (Name(Head(mail[a])) \in Names /\ Tracked(a, Name(Head(mail[a])), Head(mail[a]).from)) =>
              Has(a, Name(Head(mail[a])), Head(mail[a]).from)
<1> DEFINE q == mail[a]
           h == Head(q)
<1>1. q \in Seq(Messages) /\ q # <<>>
  BY DEF MailShape
<1>2. h = q[1] /\ 1 \in 1 .. Len(q) /\ h \in Messages
  BY <1>1
<1>3. MayGet(a, h) /\ h.from \in Actors
  BY <1>2 DEF MailShape, Messages
<1>4. In(q, Name(h), h.from)
  BY <1>2 DEF In
<1> HIDE DEF h
<1>5. (Name(h) \in Names /\ Tracked(a, Name(h), h.from)) => Has(a, Name(h), h.from)
  BY <1>3, <1>4, HasDef
<1> QED
  BY <1>2, <1>3, <1>5 DEF h

LEMMA NoneForOne ==
  ASSUME MailShape, MailOnce, NEW a \in Actors, mail[a] # <<>>, mail' = Handled(a, {}),
         NEW m0, NEW f0, Name(Head(mail[a])) = m0, Head(mail[a]).from = f0
  PROVE  /\ MailShape' /\ MailOnce'
         /\ \A b, f \in Actors : \A m \in Names :
              Has(b, m, f)' <=> Has(b, m, f) /\ ~(b = a /\ m = m0 /\ f = f0)
  BY SendNone, HandledBoxes, Zenon DEF Taken

LEMMA OneForOne ==
  ASSUME MailShape, MailOnce, NEW a \in Actors, mail[a] # <<>>, NEW c, NEW x, MaySend(c, x),
         mail' = Handled(a, {<<c, <<x>> >>}),
         NEW m0, NEW f0, Name(Head(mail[a])) = m0, Head(mail[a]).from = f0,
         NEW m1, NEW f1, Name(x) = m1, x.from = f1
  PROVE  /\ MailShape' /\ MailOnce'
         /\ \A b, f \in Actors : \A m \in Names :
              Has(b, m, f)' <=> \/ Has(b, m, f) /\ ~(b = a /\ m = m0 /\ f = f0)
                                \/ Tracked(b, m, f) /\ b = c /\ m = m1 /\ f = f1
<1> DEFINE sends == {<<c, <<x>> >>}
<1>1. Sendable(sends) /\ \A b, m, f : Sent(sends, b, m, f) <=> b = c /\ m = m1 /\ f = f1
  BY SendOne
<1>2. mail' = Handled(a, sends)
  OBVIOUS
<1> HIDE DEF sends
<1>3. /\ MailShape' /\ MailOnce'
      /\ \A b, f \in Actors : \A m \in Names :
           Has(b, m, f)' <=> (Has(b, m, f) /\ ~Taken(a, b, m, f)) \/ (Tracked(b, m, f) /\ Sent(sends, b, m, f))
  BY <1>1, <1>2, HandledBoxes
<1> QED
  BY <1>1, <1>3, Zenon DEF Taken

LEMMA TwoForOne ==
  ASSUME MailShape, MailOnce, NEW a \in Actors, mail[a] # <<>>,
         NEW c, NEW x, MaySend(c, x), NEW d, NEW y, MaySend(d, y), c # d,
         mail' = Handled(a, {<<c, <<x>> >>, <<d, <<y>> >>}),
         NEW m0, NEW f0, Name(Head(mail[a])) = m0, Head(mail[a]).from = f0,
         NEW m1, NEW f1, Name(x) = m1, x.from = f1, NEW m2, NEW f2, Name(y) = m2, y.from = f2
  PROVE  /\ MailShape' /\ MailOnce'
         /\ \A b, f \in Actors : \A m \in Names :
              Has(b, m, f)' <=> \/ Has(b, m, f) /\ ~(b = a /\ m = m0 /\ f = f0)
                                \/ Tracked(b, m, f) /\ b = c /\ m = m1 /\ f = f1
                                \/ Tracked(b, m, f) /\ b = d /\ m = m2 /\ f = f2
<1> DEFINE sends == {<<c, <<x>> >>, <<d, <<y>> >>}
<1>1. /\ Sendable(sends)
      /\ \A b, m, f : Sent(sends, b, m, f) <=> (b = c /\ m = m1 /\ f = f1) \/ (b = d /\ m = m2 /\ f = f2)
  <2>1. \A b, m, f : Sent(sends, b, m, f) <=>
              \/ b = c /\ m = Name(x) /\ f = x.from
              \/ b = d /\ m = Name(y) /\ f = y.from
    BY InSingle DEF Sent
  <2>2. Sendable(sends)
    BY SendTwo
  <2> HIDE DEF sends
  <2> QED
    BY <2>1, <2>2
<1>2. mail' = Handled(a, sends)
  OBVIOUS
<1> HIDE DEF sends
<1>3. /\ MailShape' /\ MailOnce'
      /\ \A b, f \in Actors : \A m \in Names :
           Has(b, m, f)' <=> (Has(b, m, f) /\ ~Taken(a, b, m, f)) \/ (Tracked(b, m, f) /\ Sent(sends, b, m, f))
  BY <1>1, <1>2, HandledBoxes
<1>4. \A b, m, f : Taken(a, b, m, f) <=> b = a /\ m = m0 /\ f = f0
  BY DEF Taken
<1> HIDE DEF Taken
<1> QED
  BY <1>1, <1>3, <1>4

LEMMA ThreeForOne ==
  ASSUME MailShape, MailOnce, NEW a \in Actors, mail[a] # <<>>,
         NEW c, NEW x, MaySend(c, x), NEW d, NEW y, MaySend(d, y), NEW e, NEW z, MaySend(e, z),
         c # d, c # e, d # e,
         mail' = Handled(a, {<<c, <<x>> >>, <<d, <<y>> >>, <<e, <<z>> >>}),
         NEW m0, NEW f0, Name(Head(mail[a])) = m0, Head(mail[a]).from = f0,
         NEW m1, NEW f1, Name(x) = m1, x.from = f1, NEW m2, NEW f2, Name(y) = m2, y.from = f2,
         NEW m3, NEW f3, Name(z) = m3, z.from = f3
  PROVE  /\ MailShape' /\ MailOnce'
         /\ \A b, f \in Actors : \A m \in Names :
              Has(b, m, f)' <=> \/ Has(b, m, f) /\ ~(b = a /\ m = m0 /\ f = f0)
                                \/ Tracked(b, m, f) /\ b = c /\ m = m1 /\ f = f1
                                \/ Tracked(b, m, f) /\ b = d /\ m = m2 /\ f = f2
                                \/ Tracked(b, m, f) /\ b = e /\ m = m3 /\ f = f3
<1> DEFINE sends == {<<c, <<x>> >>, <<d, <<y>> >>, <<e, <<z>> >>}
<1>1. /\ Sendable(sends)
      /\ \A b, m, f : Sent(sends, b, m, f) <=>
           (b = c /\ m = m1 /\ f = f1) \/ (b = d /\ m = m2 /\ f = f2) \/ (b = e /\ m = m3 /\ f = f3)
  <2>1. \A b, m, f : Sent(sends, b, m, f) <=>
              \/ b = c /\ m = Name(x) /\ f = x.from
              \/ b = d /\ m = Name(y) /\ f = y.from
              \/ b = e /\ m = Name(z) /\ f = z.from
    BY InSingle DEF Sent
  <2>2. Sendable(sends)
    BY SendThree
  <2> HIDE DEF sends
  <2> QED
    BY <2>1, <2>2
<1>2. mail' = Handled(a, sends)
  OBVIOUS
<1> HIDE DEF sends
<1>3. /\ MailShape' /\ MailOnce'
      /\ \A b, f \in Actors : \A m \in Names :
           Has(b, m, f)' <=> (Has(b, m, f) /\ ~Taken(a, b, m, f)) \/ (Tracked(b, m, f) /\ Sent(sends, b, m, f))
  BY <1>1, <1>2, HandledBoxes
<1>4. \A b, m, f : Taken(a, b, m, f) <=> b = a /\ m = m0 /\ f = f0
  BY DEF Taken
<1> HIDE DEF Taken
<1> QED
  BY <1>1, <1>3, <1>4

(* Who may get what *)
LEMMA MayGetIs ==
  ASSUME NEW x
  PROVE
  /\ MayGet(Node, x) <=>
       \/ x.m \in {"Init", "AddVmActor"} /\ x.from = Node
       \/ x.m = "SetActor" /\ x.from = Master /\ x.data \in {"instance", "status"}
       \/ x.m = "NoDeployInfo" /\ x.from = Instances
       \/ x.m = "DeployInfo" /\ x.from = Instances
       \/ x.m \in {"SystemAttributes", "GetGlobalStatusActor"} /\ x.from = Monitor
       \/ x.m = "NotReadyJet" /\ x.from = Monitor /\ x.data = "GetSystemAttributes"
       \/ x.from \in VMs /\ x.m \in {"GetInstanceActor", "GetGlobalStatusActor", "GetVmProxyActor",
                                     "GetNodeMonitorActor", "VmProvisioned", "RemoveVmActor"}
       \/ x.from \in Proxies /\ x.m \in {"GetVmActor", "GetInstanceActor", "RemoveVmActor"}
  /\ MayGet(Master, x) <=> x.from = Node /\ x.m \in {"GetInstanceActor", "GetGlobalStatusActor"}
  /\ MayGet(Monitor, x) <=>
       \/ x.m = "Init" /\ x.from = Monitor
       \/ x.m = "SetActor" /\ x.from = Node /\ x.data = "status"
       \/ x.m = "GetSystemAttributes" /\ x.from \in VMs \cup {Node}
  /\ MayGet(Instances, x) <=>
       \/ x.m = "GetDeployInfo" /\ x.from \in VMs \cup {Node}
       \/ x.m = "GetTask" /\ x.from \in Proxies
  /\ MayGet(Status, x) <=> x.m \in {"RegisterVmActor", "DeregisterVmActor"} /\ x.from \in VMs
  /\ \A u \in Uuids : MayGet(VM(u), x) <=>
       \/ x.m \in {"Init", "Running", "NotRunning", "VmDestroy"} /\ x.from = VM(u)
       \/ x.m = "SetActor" /\ x.from = Node /\ x.data \in Kinds \cup {"null"}
       \/ x.m = "NoDeployInfo" /\ x.from = Instances
       \/ x.m = "DeployInfo" /\ x.from = Instances /\ x.data \in Versions
       \/ x.m \in {"SystemAttributes", "NotReadyJet"} /\ x.from = Monitor
       \/ x.m = "NoMoreTasks" /\ x.from = Proxy(u)
  /\ \A u \in Uuids : MayGet(Proxy(u), x) <=>
       \/ x.m = "Init" /\ x.from = Proxy(u)
       \/ x.m = "SetActor" /\ x.from = Node /\ x.data \in {"vm", "instance", "null"}
       \/ x.m = "NoMoreTasks" /\ x.from = Instances
       \/ x.m = "SetConfig" /\ x.from = VM(u) /\ x.data \in Versions
<1>1. \A u \in Uuids : /\ VM(u) \notin {Node, Monitor, Master, Instances, Status}
                       /\ Proxy(u) \notin {Node, Monitor, Master, Instances, Status}
                       /\ \A v \in Uuids : VM(u) # Proxy(v) /\ ((VM(u) = VM(v) \/ Proxy(u) = Proxy(v)) => u = v)
  BY VmActorsDiffer
<1>2. MayGet(Node, x) <=>
       \/ x.m \in {"Init", "AddVmActor"} /\ x.from = Node
       \/ x.m = "SetActor" /\ x.from = Master /\ x.data \in {"instance", "status"}
       \/ x.m = "NoDeployInfo" /\ x.from = Instances
       \/ x.m = "DeployInfo" /\ x.from = Instances
       \/ x.m \in {"SystemAttributes", "GetGlobalStatusActor"} /\ x.from = Monitor
       \/ x.m = "NotReadyJet" /\ x.from = Monitor /\ x.data = "GetSystemAttributes"
       \/ x.from \in VMs /\ x.m \in {"GetInstanceActor", "GetGlobalStatusActor", "GetVmProxyActor",
                                     "GetNodeMonitorActor", "VmProvisioned", "RemoveVmActor"}
       \/ x.from \in Proxies /\ x.m \in {"GetVmActor", "GetInstanceActor", "RemoveVmActor"}
  BY <1>1, ActorsDiffer, Zenon DEF MayGet
<1>3. MayGet(Master, x) <=> x.from = Node /\ x.m \in {"GetInstanceActor", "GetGlobalStatusActor"}
  BY <1>1, ActorsDiffer, Zenon DEF MayGet
<1>4. MayGet(Monitor, x) <=>
       \/ x.m = "Init" /\ x.from = Monitor
       \/ x.m = "SetActor" /\ x.from = Node /\ x.data = "status"
       \/ x.m = "GetSystemAttributes" /\ x.from \in VMs \cup {Node}
  BY <1>1, ActorsDiffer, Zenon DEF MayGet
<1>5. MayGet(Instances, x) <=>
       \/ x.m = "GetDeployInfo" /\ x.from \in VMs \cup {Node}
       \/ x.m = "GetTask" /\ x.from \in Proxies
  BY <1>1, ActorsDiffer, Zenon DEF MayGet
<1>6. MayGet(Status, x) <=> x.m \in {"RegisterVmActor", "DeregisterVmActor"} /\ x.from \in VMs
  BY <1>1, ActorsDiffer, Zenon DEF MayGet
<1>7. \A u \in Uuids : MayGet(VM(u), x) <=>
       \/ x.m \in {"Init", "Running", "NotRunning", "VmDestroy"} /\ x.from = VM(u)
       \/ x.m = "SetActor" /\ x.from = Node /\ x.data \in Kinds \cup {"null"}
       \/ x.m = "NoDeployInfo" /\ x.from = Instances
       \/ x.m = "DeployInfo" /\ x.from = Instances /\ x.data \in Versions
       \/ x.m \in {"SystemAttributes", "NotReadyJet"} /\ x.from = Monitor
       \/ x.m = "NoMoreTasks" /\ x.from = Proxy(u)
  BY <1>1, ActorsDiffer DEF MayGet
<1>8. \A u \in Uuids : MayGet(Proxy(u), x) <=>
       \/ x.m = "Init" /\ x.from = Proxy(u)
       \/ x.m = "SetActor" /\ x.from = Node /\ x.data \in {"vm", "instance", "null"}
       \/ x.m = "NoMoreTasks" /\ x.from = Instances
       \/ x.m = "SetConfig" /\ x.from = VM(u) /\ x.data \in Versions
  BY <1>1, ActorsDiffer DEF MayGet
<1> QED
  BY <1>2, <1>3, <1>4, <1>5, <1>6, <1>7, <1>8, Zenon

(* The places of the token *)
LEMMA TokenPlaces ==
  /\ TokenAt("start", None) <=> monitor.state = "none"
  /\ TokenAt("timer", None) <=> AddTimer \in DOMAIN timers
  /\ TokenAt("add", None) <=> Has(Node, "AddVmActor", Node)
  /\ TokenAt("ask", None) <=> Has(Instances, "GetDeployInfo", Node)
  /\ TokenAt("deploy", None) <=> Has(Node, "DeployInfo", Instances)
  /\ TokenAt("none", None) <=> Has(Node, "NoDeployInfo", Instances)
  /\ TokenAt("measure", None) <=> Has(Monitor, "GetSystemAttributes", Node)
  /\ TokenAt("again", None) <=> Has(Node, "NotReadyJet", Monitor)
  /\ TokenAt("retry", None) <=> RetryTimer \in DOMAIN timers
  /\ TokenAt("attributes", None) <=> Has(Node, "SystemAttributes", Monitor)
  /\ \A u \in Uuids : /\ TokenAt("vm", u) <=> vm[u].state = "up" /\ ~vm[u].provisioned
                      /\ TokenAt("provisioned", u) <=> Has(Node, "VmProvisioned", VM(u))
<1>1. /\ TokenAt("start", None) <=> monitor.state = "none"
      /\ TokenAt("timer", None) <=> AddTimer \in DOMAIN timers
      /\ TokenAt("add", None) <=> Has(Node, "AddVmActor", Node)
      /\ TokenAt("ask", None) <=> Has(Instances, "GetDeployInfo", Node)
      /\ TokenAt("deploy", None) <=> Has(Node, "DeployInfo", Instances)
  BY DEF TokenAt
<1>2. /\ TokenAt("none", None) <=> Has(Node, "NoDeployInfo", Instances)
      /\ TokenAt("measure", None) <=> Has(Monitor, "GetSystemAttributes", Node)
      /\ TokenAt("again", None) <=> Has(Node, "NotReadyJet", Monitor)
      /\ TokenAt("retry", None) <=> RetryTimer \in DOMAIN timers
      /\ TokenAt("attributes", None) <=> Has(Node, "SystemAttributes", Monitor)
  BY DEF TokenAt
<1>3. \A u \in Uuids : /\ TokenAt("vm", u) <=> vm[u].state = "up" /\ ~vm[u].provisioned
                       /\ TokenAt("provisioned", u) <=> Has(Node, "VmProvisioned", VM(u))
  BY DEF TokenAt
<1> QED
  BY <1>1, <1>2, <1>3

LEMMA TokenAlone ==
  ASSUME OneToken, NEW p \in ChainOfNode, NEW u \in Uuids \cup {None}, TokenAt(p, u),
         NEW q \in ChainOfNode, NEW v \in Uuids \cup {None}, p # q \/ u # v
  PROVE  ~TokenAt(q, v)
  BY DEF OneToken

-----------------------------------------------------------------------------
(* What every step keeps *)

Inv ==
  /\ MailShape /\ MailOnce /\ Shape
  /\ OneToken /\ ConfigKnown
  /\ \A u \in Uuids : VmInv(u)

Kept ==
  /\ MailShape' /\ MailOnce' /\ Shape'
  /\ OneToken' /\ ConfigKnown'
  /\ \A u \in Uuids : Keeps(u)

LEMMA TimersDiffer ==
  /\ AddTimer # RetryTimer /\ AddTimer \in Scheduling /\ RetryTimer \in Scheduling
  /\ \A u \in Uuids : AskTimer(u) \in Scheduling /\ AskTimer(u) # AddTimer /\ AskTimer(u) # RetryTimer
  /\ \A u, v \in Uuids : AskTimer(u) = AskTimer(v) => u = v
<1>1. AddTimer # RetryTimer
  BY ActorsDiffer DEF AddTimer, RetryTimer
<1>2. \A u \in Uuids : AskTimer(u) # AddTimer /\ AskTimer(u) # RetryTimer
  BY ActorsDiffer DEF AddTimer, RetryTimer, AskTimer
<1>3. \A u, v \in Uuids : AskTimer(u) = AskTimer(v) => u = v
  <2> SUFFICES ASSUME NEW u \in Uuids, NEW v \in Uuids, AskTimer(u) = AskTimer(v) PROVE u = v
    OBVIOUS
  <2>1. AskTimer(u).msg.from = VM(u) /\ AskTimer(v).msg.from = VM(v)
    BY DEF AskTimer, Msg
  <2> QED
    BY <2>1, VmActorsDiffer
<1>4. AddTimer \in Scheduling /\ RetryTimer \in Scheduling /\ \A u \in Uuids : AskTimer(u) \in Scheduling
  BY DEF Scheduling, AddTimer, RetryTimer, AskTimer
<1> QED
  BY <1>1, <1>2, <1>3, <1>4

TimersShape == DOMAIN timers \subseteq Scheduling /\ \A tm \in DOMAIN timers : timers[tm] = 1

\* Bags without duplicates
Single(B) == \A x \in DOMAIN B : B[x] = 1

LEMMA WithOne ==
  ASSUME NEW B, Single(B), NEW x, x \notin DOMAIN B
  PROVE  DOMAIN With(B, x) = DOMAIN B \cup {x} /\ Single(With(B, x))
  BY DEF Single, With, (+), SetToBag

LEMMA WithoutOne ==
  ASSUME NEW B, Single(B), NEW x, x \in DOMAIN B
  PROVE  DOMAIN Without(B, x) = DOMAIN B \ {x} /\ Single(Without(B, x))
  BY DEF Single, Without, (-), SetToBag

LEMMA TimerAdded ==
  ASSUME TimersShape, NEW tm \in Scheduling, tm \notin DOMAIN timers, timers' = With(timers, tm)
  PROVE  TimersShape' /\ DOMAIN timers' = DOMAIN timers \cup {tm}
<1>1. Single(timers) /\ DOMAIN timers \subseteq Scheduling
  BY DEF TimersShape, Single
<1>2. DOMAIN timers' = DOMAIN timers \cup {tm} /\ Single(timers')
  BY <1>1, WithOne
<1> QED
  BY <1>1, <1>2 DEF TimersShape, Single

LEMMA TimerFired ==
  ASSUME TimersShape, NEW tm \in DOMAIN timers, timers' = Without(timers, tm)
  PROVE  TimersShape' /\ DOMAIN timers' = DOMAIN timers \ {tm}
<1>1. Single(timers) /\ DOMAIN timers \subseteq Scheduling
  BY DEF TimersShape, Single
<1>2. DOMAIN timers' = DOMAIN timers \ {tm} /\ Single(timers')
  BY <1>1, WithoutOne
<1> QED
  BY <1>1, <1>2 DEF TimersShape, Single

\* AddVmTimer when no timer is set
LEMMA AddTimerSet ==
  ASSUME TimersShape, AddTimer \notin DOMAIN timers, timers' = AddVmTimer
  PROVE  TimersShape' /\ DOMAIN timers' \subseteq DOMAIN timers \cup {AddTimer}
<1>1. CASE node.timer
  BY <1>1 DEF AddVmTimer, TimersShape
<1>2. CASE ~node.timer
  <2>1. timers' = With(timers, AddTimer)
    BY <1>2 DEF AddVmTimer, Scheduled, AddTimer
  <2> QED
    BY <2>1, TimerAdded, TimersDiffer
<1> QED
  BY <1>1, <1>2

(* The step concerns no VM. *)
LEMMA FarKeeps ==
  ASSUME Inv, vm' = vm, proxy' = proxy, helper' = helper, node'.vmActors = node.vmActors,
         \A u \in Uuids : AskTimer(u) \in DOMAIN timers' => AskTimer(u) \in DOMAIN timers,
         \A b, f \in Actors : \A m \in Names :
           (b \in VMs \cup Proxies \/ f \in VMs \cup Proxies) =>
             /\ Has(b, m, f)' => Has(b, m, f)
             /\ m \in {"RemoveVmActor", "NoMoreTasks", "VmDestroy"} => (Has(b, m, f)' <=> Has(b, m, f))
  PROVE  \A u \in Uuids : Keeps(u)
<1> SUFFICES ASSUME NEW u \in Uuids PROVE Keeps(u)
  OBVIOUS
<1>1. VM(u) \in VMs \cup Proxies /\ Proxy(u) \in VMs \cup Proxies
  BY VmActorsDiffer
<1>2. BoxFades(u)
  BY <1>1 DEF BoxFades
<1>3. \A f \in {VM(u), Proxy(u)} : Has(Node, "RemoveVmActor", f)' <=> Has(Node, "RemoveVmActor", f)
  BY <1>1, ActorsDiffer, VmActorsDiffer DEF Names, ChainNames
<1> QED
  BY <1>2, <1>3, QuietKeeps DEF Inv

(* The first message of each actor *)
LEMMA NodeHead ==
  ASSUME MailShape, mail[Node] # <<>>, NEW h, h = Head(mail[Node])
  PROVE  /\ h.from \in Actors
         /\ h.m = "Init" => h.from = Node /\ Name(h) = "Init"
         /\ h.m = "SetActor" => h.from = Master /\ h.data \in {"instance", "status"} /\ Name(h) = h.data
         /\ h.m = "AddVmActor" => h.from = Node /\ Name(h) = "AddVmActor" /\ Has(Node, "AddVmActor", Node)
         /\ h.m = "NoDeployInfo" =>
              h.from = Instances /\ Name(h) = "NoDeployInfo" /\ Has(Node, "NoDeployInfo", Instances)
         /\ h.m = "DeployInfo" =>
              h.from = Instances /\ Name(h) = "DeployInfo" /\ Has(Node, "DeployInfo", Instances)
         /\ h.m = "SystemAttributes" =>
              h.from = Monitor /\ Name(h) = "SystemAttributes" /\ Has(Node, "SystemAttributes", Monitor)
         /\ h.m = "NotReadyJet" =>
              /\ h.from = Monitor /\ Name(h) = "NotReadyJet" /\ h.data = "GetSystemAttributes"
              /\ Has(Node, "NotReadyJet", Monitor)
         /\ h.m = "VmProvisioned" =>
              h.from \in VMs /\ Name(h) = "VmProvisioned" /\ Has(Node, "VmProvisioned", h.from)
         /\ h.m = "RemoveVmActor" =>
              h.from \in VMs \cup Proxies /\ Name(h) = "RemoveVmActor" /\ Has(Node, "RemoveVmActor", h.from)
<1>1. /\ MayGet(Node, h) /\ h.from \in Actors
      /\ (Name(h) \in Names /\ Tracked(Node, Name(h), h.from)) => Has(Node, Name(h), h.from)
  BY HeadHas, ActorsDiffer
<1>2. \/ h.m \in {"Init", "AddVmActor"} /\ h.from = Node
      \/ h.m = "SetActor" /\ h.from = Master /\ h.data \in {"instance", "status"}
      \/ h.m = "NoDeployInfo" /\ h.from = Instances
      \/ h.m = "DeployInfo" /\ h.from = Instances
      \/ h.m \in {"SystemAttributes", "GetGlobalStatusActor"} /\ h.from = Monitor
      \/ h.m = "NotReadyJet" /\ h.from = Monitor /\ h.data = "GetSystemAttributes"
      \/ h.from \in VMs /\ h.m \in {"GetInstanceActor", "GetGlobalStatusActor", "GetVmProxyActor",
                                    "GetNodeMonitorActor", "VmProvisioned", "RemoveVmActor"}
      \/ h.from \in Proxies /\ h.m \in {"GetVmActor", "GetInstanceActor", "RemoveVmActor"}
  BY <1>1, MayGetIs
<1>3. h.m = "SetActor" => Name(h) = h.data
  BY DEF Name
<1>4. h.m # "SetActor" => Name(h) = h.m
  BY DEF Name
<1>5. \A m \in ChainNames \cup {"VmProvisioned"} :
        (h.m = m /\ (m \in ChainNames \/ h.from \in VMs)) => Has(Node, m, h.from)
  BY <1>1, <1>4 DEF Tracked, ChainNames, Names
<1> QED
  BY <1>1, <1>2, <1>3, <1>4, <1>5 DEF ChainNames

(* AddVmActor: the InstanceActor is asked for a run. *)
LEMMA NodeAddVmActorKeeps ==
  ASSUME Inv, NodeAddVmActor
  PROVE  Kept
<1>1. /\ mail[Node] # <<>> /\ Head(mail[Node]).m = "AddVmActor"
      /\ Head(mail[Node]).from = Node /\ Name(Head(mail[Node])) = "AddVmActor" /\ Has(Node, "AddVmActor", Node)
  BY NodeHead DEF Receives, NodeAddVmActor, Inv
<1>2. ~Has(Instances, "GetDeployInfo", Node)
  BY <1>1, TokenPlaces, TokenAlone DEF ChainOfNode, Inv
<1> DEFINE x == Msg("GetDeployInfo", Node)
<1>3. x \in Messages /\ Name(x) = "GetDeployInfo" /\ x.m = "GetDeployInfo" /\ x.from = Node
  BY MsgType, ActorsDiffer DEF Names, ChainNames
<1> HIDE DEF x
<1>4. MaySend(Instances, x)
  BY <1>2, <1>3, MayGetIs, ActorsDiffer DEF MaySend, Names, ChainNames
<1>5. mail' = Handled(Node, {<<Instances, <<x>> >>})
  BY DEF x, NodeAddVmActor
<1>6. /\ MailShape' /\ MailOnce'
      /\ \A b, f \in Actors : \A m \in Names :
           Has(b, m, f)' <=>
             \/ Has(b, m, f) /\ ~(b = Node /\ m = "AddVmActor" /\ f = Node)
             \/ Tracked(b, m, f) /\ b = Instances /\ m = "GetDeployInfo" /\ f = Node
  BY <1>1, <1>3, <1>4, <1>5, OneForOne, ActorsDiffer DEF Inv
<1>7. /\ Shape' /\ node'.config = node.config /\ node'.vmActors = node.vmActors
      /\ timers' = timers /\ monitor' = monitor /\ vm' = vm
  BY DEF Shape, NodeAddVmActor, Inv
<1>8. OneToken' /\ ConfigKnown'
  <2>1. \A p \in ChainOfNode : \A u \in Uuids \cup {None} :
          TokenAt(p, u)' => (p = "ask" /\ u = None) \/ (TokenAt(p, u) /\ ~(p = "add" /\ u = None))
    BY <1>6, <1>7, ActorsDiffer, VmActorsDiffer DEF TokenAt, Names, ChainNames
  <2>2. TokenAt("add", None) /\ "add" \in ChainOfNode
    BY <1>1, TokenPlaces DEF ChainOfNode
  <2> QED
    BY <1>7, <2>1, <2>2, TokenMoves DEF Inv
<1>9. \A u \in Uuids : Keeps(u)
  BY <1>6, <1>7, FarKeeps, OthersAreNoVms DEF NodeAddVmActor
<1> QED
  BY <1>6, <1>7, <1>8, <1>9 DEF Kept

(* Two and four messages for one receiver *)
LEMMA InPair ==
  ASSUME NEW x, NEW y, NEW m, NEW f
  PROVE  In(<<x, y>>, m, f) <=> (m = Name(x) /\ f = x.from) \/ (m = Name(y) /\ f = y.from)
  BY DEF In

LEMMA PairForOne ==
  ASSUME MailShape, MailOnce, NEW a \in Actors, mail[a] # <<>>,
         NEW c, NEW x, MaySend(c, x), NEW y, MaySend(c, y), Name(x) # Name(y),
         mail' = Handled(a, {<<c, <<x, y>> >>}),
         NEW m0, NEW f0, Name(Head(mail[a])) = m0, Head(mail[a]).from = f0,
         NEW m1, NEW f1, Name(x) = m1, x.from = f1, NEW m2, NEW f2, Name(y) = m2, y.from = f2
  PROVE  /\ MailShape' /\ MailOnce'
         /\ \A b, f \in Actors : \A m \in Names :
              Has(b, m, f)' <=>
                \/ Has(b, m, f) /\ ~(b = a /\ m = m0 /\ f = f0)
                \/ Tracked(b, m, f) /\ b = c /\ m = m1 /\ f = f1
                \/ Tracked(b, m, f) /\ b = c /\ m = m2 /\ f = f2
<1> DEFINE q == <<x, y>>
           sends == {<<c, q>>}
<1>1. q \in Seq(Messages) /\ Len(q) = 2 /\ q[1] = x /\ q[2] = y
  BY DEF MaySend
<1>2. \A m, f : In(q, m, f) <=> (m = m1 /\ f = f1) \/ (m = m2 /\ f = f2)
  BY InPair
<1>3. mail' = Handled(a, sends)
  OBVIOUS
<1> HIDE DEF q
<1>4. \A i \in 1 .. Len(q) : MaySend(c, q[i])
  BY <1>1
<1>5. \A i, j \in 1 .. Len(q) : Name(q[i]) = Name(q[j]) => i = j
  BY <1>1
<1>6. Sendable(sends) /\ \A b, m, f : Sent(sends, b, m, f) <=> b = c /\ In(q, m, f)
  BY <1>1, <1>4, <1>5, SendSeveral
<1> HIDE DEF sends
<1>7. /\ MailShape' /\ MailOnce'
      /\ \A b, f \in Actors : \A m \in Names :
           Has(b, m, f)' <=> (Has(b, m, f) /\ ~Taken(a, b, m, f)) \/ (Tracked(b, m, f) /\ Sent(sends, b, m, f))
  BY <1>3, <1>6, HandledBoxes
<1>8. \A b, m, f : Taken(a, b, m, f) <=> b = a /\ m = m0 /\ f = f0
  BY DEF Taken
<1> QED
  BY <1>2, <1>6, <1>7, <1>8

(* Init: the NodeActor asks for the actors it needs. *)
LEMMA NodeInitKeeps ==
  ASSUME Inv, NodeInit
  PROVE  Kept
<1>1. mail[Node] # <<>> /\ Head(mail[Node]).from = Node /\ Name(Head(mail[Node])) = "Init"
  BY NodeHead DEF Receives, NodeInit, Inv
<1> DEFINE x == Msg("GetInstanceActor", Node)
           y == Msg("GetGlobalStatusActor", Node)
<1>2. /\ x \in Messages /\ Name(x) = "GetInstanceActor" /\ x.m = "GetInstanceActor" /\ x.from = Node
      /\ y \in Messages /\ Name(y) = "GetGlobalStatusActor" /\ y.m = "GetGlobalStatusActor" /\ y.from = Node
  BY MsgType, ActorsDiffer DEF Names, ChainNames
<1>3. mail' = Handled(Node, {<<Master, <<x, y>> >>})
  BY DEF NodeInit
<1> HIDE DEF x, y
<1>4. ~Tracked(Master, Name(x), Node) /\ ~Tracked(Master, Name(y), Node)
  BY <1>2, OthersAreNoVms DEF Tracked, ChainNames
<1>5. MaySend(Master, x) /\ MaySend(Master, y)
  BY <1>2, <1>4, MayGetIs, ActorsDiffer DEF MaySend
<1>6. /\ MailShape' /\ MailOnce'
      /\ \A b, f \in Actors : \A m \in Names :
           Has(b, m, f)' <=>
             \/ Has(b, m, f) /\ ~(b = Node /\ m = "Init" /\ f = Node)
             \/ Tracked(b, m, f) /\ b = Master /\ m = "GetInstanceActor" /\ f = Node
             \/ Tracked(b, m, f) /\ b = Master /\ m = "GetGlobalStatusActor" /\ f = Node
  BY <1>1, <1>2, <1>3, <1>5, PairForOne, ActorsDiffer DEF Inv
<1>7. ~Tracked(Node, "Init", Node)
  BY OthersAreNoVms DEF Tracked, ChainNames
<1>8. \A b, f \in Actors : \A m \in Names : Has(b, m, f)' <=> Has(b, m, f)
  BY <1>2, <1>4, <1>6, <1>7, HasDef
<1>9. /\ Shape' /\ node'.config = node.config /\ node'.vmActors = node.vmActors
      /\ timers' = timers /\ monitor' = monitor /\ vm' = vm /\ proxy' = proxy /\ helper' = helper
  BY DEF Shape, NodeInit, Inv
<1>10. OneToken' /\ ConfigKnown'
  <2>1. \A p \in ChainOfNode : \A u \in Uuids \cup {None} : TokenAt(p, u)' => TokenAt(p, u)
    BY <1>8, <1>9, ActorsDiffer, VmActorsDiffer DEF TokenAt, Names, ChainNames
  <2> QED
    BY <1>9, <2>1, TokenStays DEF Inv
<1>11. \A u \in Uuids : Keeps(u)
  BY <1>8, <1>9, FarKeeps
<1> QED
  BY <1>6, <1>9, <1>10, <1>11 DEF Kept

(* NoDeployInfo: another try later *)
LEMMA NodeNoDeployInfoKeeps ==
  ASSUME Inv, NodeNoDeployInfo
  PROVE  Kept
<1>1. /\ mail[Node] # <<>> /\ Has(Node, "NoDeployInfo", Instances)
      /\ Head(mail[Node]).from = Instances /\ Name(Head(mail[Node])) = "NoDeployInfo"
  BY NodeHead DEF Receives, NodeNoDeployInfo, Inv
<1>2. AddTimer \notin DOMAIN timers
  BY <1>1, TokenPlaces, TokenAlone DEF ChainOfNode, Inv
<1>3. /\ MailShape' /\ MailOnce'
      /\ \A b, f \in Actors : \A m \in Names :
           Has(b, m, f)' <=> Has(b, m, f) /\ ~(b = Node /\ m = "NoDeployInfo" /\ f = Instances)
  BY <1>1, NoneForOne, ActorsDiffer DEF Inv, NodeNoDeployInfo
<1>4. TimersShape' /\ DOMAIN timers' \subseteq DOMAIN timers \cup {AddTimer}
  BY <1>2, AddTimerSet DEF NodeNoDeployInfo, Inv, Shape, TimersShape
<1>5. /\ Shape' /\ node'.vmActors = node.vmActors
      /\ monitor' = monitor /\ vm' = vm /\ proxy' = proxy /\ helper' = helper
  BY <1>4 DEF Shape, TimersShape, NodeNoDeployInfo, AddVmLater, Inv
<1>6. OneToken' /\ ConfigKnown'
  <2>1. \A p \in ChainOfNode : \A u \in Uuids \cup {None} :
          TokenAt(p, u)' => (p = "timer" /\ u = None) \/ (TokenAt(p, u) /\ ~(p = "none" /\ u = None))
    BY <1>3, <1>4, <1>5, ActorsDiffer, VmActorsDiffer, TimersDiffer DEF TokenAt, Names, ChainNames
  <2>2. TokenAt("none", None) /\ "none" \in ChainOfNode
    BY <1>1, TokenPlaces DEF ChainOfNode
  <2> QED
    BY <2>1, <2>2, TokenMoves DEF Inv
<1>7. \A u \in Uuids : Keeps(u)
  BY <1>3, <1>4, <1>5, FarKeeps, OthersAreNoVms, TimersDiffer
<1> QED
  BY <1>3, <1>5, <1>6, <1>7 DEF Kept

(* DeployInfo: the NodeMonitorActor is asked for the attributes of the system. *)
LEMMA NodeDeployInfoKeeps ==
  ASSUME Inv, NodeDeployInfo
  PROVE  Kept
<1>1. /\ mail[Node] # <<>> /\ Has(Node, "DeployInfo", Instances)
      /\ Head(mail[Node]).from = Instances /\ Name(Head(mail[Node])) = "DeployInfo"
  BY NodeHead DEF Receives, NodeDeployInfo, Inv
<1>2. ~Has(Monitor, "GetSystemAttributes", Node)
  BY <1>1, TokenPlaces, TokenAlone DEF ChainOfNode, Inv
<1> DEFINE x == Msg("GetSystemAttributes", Node)
<1>3. x \in Messages /\ Name(x) = "GetSystemAttributes" /\ x.m = "GetSystemAttributes" /\ x.from = Node
  BY MsgType, ActorsDiffer DEF Names, ChainNames
<1>4. mail' = Handled(Node, {<<Monitor, <<x>> >>})
  BY DEF NodeDeployInfo
<1> HIDE DEF x
<1>5. MaySend(Monitor, x)
  BY <1>2, <1>3, MayGetIs, ActorsDiffer DEF MaySend, Names, ChainNames
<1>6. /\ MailShape' /\ MailOnce'
      /\ \A b, f \in Actors : \A m \in Names :
           Has(b, m, f)' <=>
             \/ Has(b, m, f) /\ ~(b = Node /\ m = "DeployInfo" /\ f = Instances)
             \/ Tracked(b, m, f) /\ b = Monitor /\ m = "GetSystemAttributes" /\ f = Node
  BY <1>1, <1>3, <1>4, <1>5, OneForOne, ActorsDiffer DEF Inv
<1>7. /\ Shape' /\ node'.config /\ node'.vmActors = node.vmActors
      /\ timers' = timers /\ monitor' = monitor /\ vm' = vm /\ proxy' = proxy /\ helper' = helper
  BY DEF Shape, NodeDeployInfo, Inv
<1>8. OneToken' /\ ConfigKnown'
  <2>1. \A p \in ChainOfNode : \A u \in Uuids \cup {None} :
          TokenAt(p, u)' => (p = "measure" /\ u = None) \/ (TokenAt(p, u) /\ ~(p = "deploy" /\ u = None))
    BY <1>6, <1>7, ActorsDiffer, VmActorsDiffer DEF TokenAt, Names, ChainNames
  <2>2. TokenAt("deploy", None) /\ "deploy" \in ChainOfNode
    BY <1>1, TokenPlaces DEF ChainOfNode
  <2> QED
    BY <1>7, <2>1, <2>2, TokenMoves DEF Inv
<1>9. \A u \in Uuids : Keeps(u)
  BY <1>6, <1>7, FarKeeps, OthersAreNoVms
<1> QED
  BY <1>6, <1>7, <1>8, <1>9 DEF Kept

(* SystemAttributes without memory for a VM: another try later *)
LEMMA NodeCannotAddVmKeeps ==
  ASSUME Inv, NodeCannotAddVm
  PROVE  Kept
<1>1. /\ mail[Node] # <<>> /\ Has(Node, "SystemAttributes", Monitor)
      /\ Head(mail[Node]).from = Monitor /\ Name(Head(mail[Node])) = "SystemAttributes"
  BY NodeHead DEF Receives, NodeCannotAddVm, Inv
<1>2. AddTimer \notin DOMAIN timers
  BY <1>1, TokenPlaces, TokenAlone DEF ChainOfNode, Inv
<1>3. /\ MailShape' /\ MailOnce'
      /\ \A b, f \in Actors : \A m \in Names :
           Has(b, m, f)' <=> Has(b, m, f) /\ ~(b = Node /\ m = "SystemAttributes" /\ f = Monitor)
  BY <1>1, NoneForOne, ActorsDiffer DEF Inv, NodeCannotAddVm
<1>4. TimersShape' /\ DOMAIN timers' \subseteq DOMAIN timers \cup {AddTimer}
  BY <1>2, AddTimerSet DEF NodeCannotAddVm, Inv, Shape, TimersShape
<1>5. /\ Shape' /\ node'.vmActors = node.vmActors
      /\ monitor' = monitor /\ vm' = vm /\ proxy' = proxy /\ helper' = helper
  BY <1>4 DEF Shape, TimersShape, NodeCannotAddVm, AddVmLater, Inv
<1>6. OneToken' /\ ConfigKnown'
  <2>1. \A p \in ChainOfNode : \A u \in Uuids \cup {None} :
          TokenAt(p, u)' => (p = "timer" /\ u = None) \/ (TokenAt(p, u) /\ ~(p = "attributes" /\ u = None))
    BY <1>3, <1>4, <1>5, ActorsDiffer, VmActorsDiffer, TimersDiffer DEF TokenAt, Names, ChainNames
  <2>2. TokenAt("attributes", None) /\ "attributes" \in ChainOfNode
    BY <1>1, TokenPlaces DEF ChainOfNode
  <2> QED
    BY <2>1, <2>2, TokenMoves DEF Inv
<1>7. \A u \in Uuids : Keeps(u)
  BY <1>3, <1>4, <1>5, FarKeeps, OthersAreNoVms, TimersDiffer
<1> QED
  BY <1>3, <1>5, <1>6, <1>7 DEF Kept

(* VmProvisioned: the next VM can be added. *)
LEMMA NodeVmProvisionedKeeps ==
  ASSUME Inv, NodeVmProvisioned
  PROVE  Kept
<1>1. /\ mail[Node] # <<>> /\ Head(mail[Node]).from \in VMs
      /\ Name(Head(mail[Node])) = "VmProvisioned" /\ Has(Node, "VmProvisioned", Head(mail[Node]).from)
  BY NodeHead DEF Receives, NodeVmProvisioned, Inv
<1>2. PICK w \in Uuids : Head(mail[Node]).from = VM(w)
  BY <1>1 DEF VMs
<1>3. Has(Node, "VmProvisioned", VM(w))
  BY <1>1, <1>2
<1>4. TokenAt("provisioned", w) /\ "provisioned" \in ChainOfNode
  BY <1>3, TokenPlaces DEF ChainOfNode
<1>5. AddTimer \notin DOMAIN timers
  BY <1>4, TokenPlaces, TokenAlone DEF ChainOfNode, Inv
<1>6. /\ MailShape' /\ MailOnce'
      /\ \A b, f \in Actors : \A m \in Names :
           Has(b, m, f)' <=> Has(b, m, f) /\ ~(b = Node /\ m = "VmProvisioned" /\ f = VM(w))
  BY <1>1, <1>2, NoneForOne, ActorsDiffer DEF Inv, NodeVmProvisioned
<1>7. TimersShape' /\ DOMAIN timers' \subseteq DOMAIN timers \cup {AddTimer}
  BY <1>5, AddTimerSet DEF NodeVmProvisioned, Inv, Shape, TimersShape
<1>8. /\ Shape' /\ node'.vmActors = node.vmActors
      /\ monitor' = monitor /\ vm' = vm /\ proxy' = proxy /\ helper' = helper
  BY <1>7 DEF Shape, TimersShape, NodeVmProvisioned, AddVmLater, Inv
<1>9. OneToken' /\ ConfigKnown'
  <2>1. \A p \in ChainOfNode : \A u \in Uuids \cup {None} :
          TokenAt(p, u)' => (p = "timer" /\ u = None) \/ (TokenAt(p, u) /\ ~(p = "provisioned" /\ u = w))
    BY <1>6, <1>7, <1>8, ActorsDiffer, VmActorsDiffer, TimersDiffer DEF TokenAt, Names, ChainNames
  <2> QED
    BY <1>4, <2>1, TokenMoves DEF Inv
<1>10. \A u \in Uuids : Keeps(u)
  BY <1>6, <1>7, <1>8, FarKeeps, OthersAreNoVms, TimersDiffer
<1> QED
  BY <1>6, <1>8, <1>9, <1>10 DEF Kept

(* NotReadyJet: the NodeMonitorActor is asked again, later. *)
LEMMA NodeNotReadyJetKeeps ==
  ASSUME Inv, NodeNotReadyJet
  PROVE  Kept
<1>1. /\ mail[Node] # <<>> /\ Has(Node, "NotReadyJet", Monitor) /\ Head(mail[Node]).from = Monitor
      /\ Head(mail[Node]).data = "GetSystemAttributes" /\ Name(Head(mail[Node])) = "NotReadyJet"
  BY NodeHead DEF Receives, NodeNotReadyJet, Inv
<1>2. RetryTimer \notin DOMAIN timers
  BY <1>1, TokenPlaces, TokenAlone DEF ChainOfNode, Inv
<1>3. /\ MailShape' /\ MailOnce'
      /\ \A b, f \in Actors : \A m \in Names :
           Has(b, m, f)' <=> Has(b, m, f) /\ ~(b = Node /\ m = "NotReadyJet" /\ f = Monitor)
  BY <1>1, NoneForOne, ActorsDiffer DEF Inv, NodeNotReadyJet
<1>4. timers' = With(timers, RetryTimer)
  BY <1>1 DEF NodeNotReadyJet, Scheduled, Sender, Data, RetryTimer
<1>5. TimersShape' /\ DOMAIN timers' = DOMAIN timers \cup {RetryTimer}
  BY <1>2, <1>4, TimerAdded, TimersDiffer DEF Inv, Shape, TimersShape
<1>6. /\ Shape' /\ node' = node
      /\ monitor' = monitor /\ vm' = vm /\ proxy' = proxy /\ helper' = helper
  BY <1>5 DEF Shape, TimersShape, NodeNotReadyJet, Inv
<1>7. TokenAt("again", None) /\ "again" \in ChainOfNode
  BY <1>1, TokenPlaces DEF ChainOfNode
<1>8. node.config
  BY <1>7 DEF Inv, ConfigKnown
<1>9. OneToken' /\ ConfigKnown'
  <2>1. \A p \in ChainOfNode : \A u \in Uuids \cup {None} :
          TokenAt(p, u)' => (p = "retry" /\ u = None) \/ (TokenAt(p, u) /\ ~(p = "again" /\ u = None))
    BY <1>3, <1>5, <1>6, ActorsDiffer, VmActorsDiffer, TimersDiffer DEF TokenAt, Names, ChainNames
  <2> QED
    BY <1>6, <1>7, <1>8, <2>1, TokenMoves DEF Inv
<1>10. \A u \in Uuids : Keeps(u)
  BY <1>3, <1>5, <1>6, FarKeeps, OthersAreNoVms, TimersDiffer
<1> QED
  BY <1>3, <1>6, <1>9, <1>10 DEF Kept

(* Nothing of what the chains are made of changes. *)
LEMMA CalmKeeps ==
  ASSUME Inv, \A b, f \in Actors : \A m \in Names : Has(b, m, f)' <=> Has(b, m, f),
         Shape', node' = node, timers' = timers, monitor'.state = monitor.state,
         vm' = vm, proxy' = proxy, helper' = helper
  PROVE  OneToken' /\ ConfigKnown' /\ \A u \in Uuids : Keeps(u)
<1>1. OneToken' /\ ConfigKnown'
  <2>1. \A p \in ChainOfNode : \A u \in Uuids \cup {None} : TokenAt(p, u)' => TokenAt(p, u)
    BY ActorsDiffer, VmActorsDiffer DEF TokenAt, Names, ChainNames
  <2> QED
    BY <2>1, TokenStays DEF Inv
<1>2. \A u \in Uuids : Keeps(u)
  BY FarKeeps
<1> QED
  BY <1>1, <1>2

(* SetActor: the second answer starts the NodeMonitorActor. *)
LEMMA NodeSetActorKeeps ==
  ASSUME Inv, NodeSetActor
  PROVE  Kept
<1> DEFINE known == [node EXCEPT !.refs = @ \cup {Data(Node)}]
           start == InitNodeMonitorActor(known)
<1>1. /\ mail[Node] # <<>> /\ Head(mail[Node]).from = Master
      /\ Head(mail[Node]).data \in {"instance", "status"}
      /\ Name(Head(mail[Node])) = Head(mail[Node]).data
  BY NodeHead DEF Receives, NodeSetActor, Inv
<1>2. PICK d \in {"instance", "status"} : Head(mail[Node]).data = d
  BY <1>1
<1>3. ~Tracked(Node, d, Master)
  BY OthersAreNoVms DEF Tracked, ChainNames
<1>4. /\ known.refs = node.refs \cup {d} /\ known.ready = node.ready /\ known.timer = node.timer
      /\ known.config = node.config /\ known.vmActors = node.vmActors
      /\ known \in [ready : BOOLEAN, refs : SUBSET {"instance", "status"}, timer : BOOLEAN,
                    config : BOOLEAN, vmActors : SUBSET (Uuids \X {"vm", "proxy"})]
  BY <1>2 DEF Data, Inv, Shape
<1>5. /\ node' = IF start THEN AddVmLater([known EXCEPT !.ready = TRUE]) ELSE known
      /\ timers' = IF start THEN AddVmTimer ELSE timers
      /\ monitor' = IF start THEN [monitor EXCEPT !.state = "up"] ELSE monitor
      /\ mail' = Handled(Node, IF start THEN {<<Monitor, <<Msg("Init", Monitor)>> >>} ELSE {})
      /\ UNCHANGED <<vm, proxy, helper, runs, count>>
  BY DEF NodeSetActor
<1>6. start => monitor.state = "none"
  BY DEF InitNodeMonitorActor
<1> HIDE DEF known, start
<1>7. CASE start
  <2> DEFINE x == Msg("Init", Monitor)
  <2>1. x \in Messages /\ Name(x) = "Init" /\ x.m = "Init" /\ x.from = Monitor
    BY MsgType, ActorsDiffer DEF Names
  <2>2. mail' = Handled(Node, {<<Monitor, <<x>> >>})
    BY <1>5, <1>7
  <2> HIDE DEF x
  <2>3. ~Tracked(Monitor, "Init", Monitor)
    BY OthersAreNoVms DEF Tracked, ChainNames
  <2>4. MaySend(Monitor, x)
    BY <2>1, <2>3, MayGetIs, ActorsDiffer DEF MaySend
  <2>5. /\ MailShape' /\ MailOnce'
        /\ \A b, f \in Actors : \A m \in Names :
             Has(b, m, f)' <=>
               \/ Has(b, m, f) /\ ~(b = Node /\ m = d /\ f = Master)
               \/ Tracked(b, m, f) /\ b = Monitor /\ m = "Init" /\ f = Monitor
    BY <1>1, <1>2, <2>1, <2>2, <2>4, OneForOne, ActorsDiffer DEF Inv
  <2>6. \A b, f \in Actors : \A m \in Names : Has(b, m, f)' <=> Has(b, m, f)
    BY <1>3, <2>3, <2>5, HasDef
  <2>7. TokenAt("start", None) /\ "start" \in ChainOfNode
    BY <1>6, <1>7, TokenPlaces DEF ChainOfNode
  <2>8. AddTimer \notin DOMAIN timers
    BY <2>7, TokenPlaces, TokenAlone DEF ChainOfNode, Inv
  <2>9. TimersShape' /\ DOMAIN timers' \subseteq DOMAIN timers \cup {AddTimer}
    BY <1>5, <1>7, <2>8, AddTimerSet DEF Inv, Shape, TimersShape
  <2>10. node' = [known EXCEPT !.ready = TRUE, !.timer = TRUE] /\ monitor' = [monitor EXCEPT !.state = "up"]
    BY <1>4, <1>5, <1>7 DEF AddVmLater
  <2>11. /\ Shape' /\ node'.vmActors = node.vmActors /\ monitor'.state = "up"
         /\ vm' = vm /\ proxy' = proxy /\ helper' = helper
    BY <1>4, <1>5, <2>9, <2>10 DEF Shape, TimersShape, Inv
  <2>12. OneToken' /\ ConfigKnown'
    <3>1. \A p \in ChainOfNode : \A u \in Uuids \cup {None} :
            TokenAt(p, u)' => (p = "timer" /\ u = None) \/ (TokenAt(p, u) /\ ~(p = "start" /\ u = None))
      BY <2>6, <2>9, <2>11, ActorsDiffer, VmActorsDiffer, TimersDiffer DEF TokenAt, Names, ChainNames
    <3> QED
      BY <2>7, <3>1, TokenMoves DEF Inv
  <2>13. \A u \in Uuids : Keeps(u)
    BY <2>6, <2>9, <2>11, FarKeeps, TimersDiffer
  <2> QED
    BY <2>5, <2>11, <2>12, <2>13 DEF Kept
<1>8. CASE ~start
  <2>1. mail' = Handled(Node, {})
    BY <1>5, <1>8
  <2>2. /\ MailShape' /\ MailOnce'
        /\ \A b, f \in Actors : \A m \in Names :
             Has(b, m, f)' <=> Has(b, m, f) /\ ~(b = Node /\ m = d /\ f = Master)
    BY <1>1, <1>2, <2>1, NoneForOne, ActorsDiffer DEF Inv
  <2>3. \A b, f \in Actors : \A m \in Names : Has(b, m, f)' <=> Has(b, m, f)
    BY <1>3, <2>2, HasDef
  <2>4. /\ Shape' /\ node'.vmActors = node.vmActors /\ node'.config = node.config /\ monitor' = monitor
        /\ vm' = vm /\ proxy' = proxy /\ helper' = helper /\ timers' = timers
    BY <1>4, <1>5, <1>8 DEF Shape, Inv
  <2>5. OneToken' /\ ConfigKnown'
    <3>1. \A p \in ChainOfNode : \A u \in Uuids \cup {None} : TokenAt(p, u)' => TokenAt(p, u)
      BY <2>3, <2>4, ActorsDiffer, VmActorsDiffer DEF TokenAt, Names, ChainNames
    <3> QED
      BY <2>4, <3>1, TokenStays DEF Inv
  <2>6. \A u \in Uuids : Keeps(u)
    BY <2>3, <2>4, FarKeeps
  <2> QED
    BY <2>2, <2>4, <2>5, <2>6 DEF Kept
<1> QED
  BY <1>7, <1>8

(* Runs come and go. *)
LEMMA RunsKeep ==
  ASSUME Inv, NEW v \in Versions, Upload(v) \/ RunDone(v)
  PROVE  Kept
<1>1. UNCHANGED <<mail, timers, node, monitor, vm, proxy, helper, count>>
  BY DEF Upload, RunDone
<1>2. runs' \in [present : SUBSET Versions, future : SUBSET Versions]
  BY DEF Upload, RunDone, Inv, Shape
<1>3. Shape'
  BY <1>1, <1>2 DEF Inv, Shape
<1>4. MailShape' /\ MailOnce'
  BY <1>1, GoodMailIs DEF Inv
<1>5. \A b, f \in Actors : \A m \in Names : Has(b, m, f)' <=> Has(b, m, f)
  BY <1>1, HasDef
<1> QED
  BY <1>1, <1>3, <1>4, <1>5, CalmKeeps DEF Kept

-----------------------------------------------------------------------------
(* NodeMonitorActor, NodeMasterActor *)

LEMMA MonitorHead ==
  ASSUME MailShape, mail[Monitor] # <<>>, NEW h, h = Head(mail[Monitor])
  PROVE  /\ h.m = "Init" => h.from = Monitor /\ Name(h) = "Init"
         /\ h.m = "SetActor" => h.from = Node /\ Name(h) = "status"
         /\ h.m = "GetSystemAttributes" =>
              /\ h.from \in VMs \cup {Node} /\ Name(h) = "GetSystemAttributes"
              /\ Has(Monitor, "GetSystemAttributes", h.from)
<1>1. /\ MayGet(Monitor, h) /\ h.from \in Actors
      /\ (Name(h) \in Names /\ Tracked(Monitor, Name(h), h.from)) => Has(Monitor, Name(h), h.from)
  BY HeadHas, ActorsDiffer
<1>2. \/ h.m = "Init" /\ h.from = Monitor
      \/ h.m = "SetActor" /\ h.from = Node /\ h.data = "status"
      \/ h.m = "GetSystemAttributes" /\ h.from \in VMs \cup {Node}
  BY <1>1, MayGetIs
<1>3. Name(h) = IF h.m = "SetActor" THEN h.data ELSE h.m
  BY DEF Name
<1> QED
  BY <1>1, <1>2, <1>3 DEF Tracked, ChainNames, Names

LEMMA MonitorInitKeeps ==
  ASSUME Inv, MonitorInit
  PROVE  Kept
<1>1. mail[Monitor] # <<>> /\ Head(mail[Monitor]).from = Monitor /\ Name(Head(mail[Monitor])) = "Init"
  BY MonitorHead DEF Receives, MonitorInit, Inv
<1> DEFINE x == Msg("GetGlobalStatusActor", Monitor)
<1>2. x \in Messages /\ Name(x) = "GetGlobalStatusActor" /\ x.m = "GetGlobalStatusActor" /\ x.from = Monitor
  BY MsgType, ActorsDiffer DEF Names
<1>3. mail' = Handled(Monitor, {<<Node, <<x>> >>})
  BY DEF MonitorInit
<1> HIDE DEF x
<1>4. ~Tracked(Node, "GetGlobalStatusActor", Monitor) /\ ~Tracked(Monitor, "Init", Monitor)
  BY OthersAreNoVms DEF Tracked, ChainNames
<1>5. MaySend(Node, x)
  BY <1>2, <1>4, MayGetIs, ActorsDiffer DEF MaySend
<1>6. /\ MailShape' /\ MailOnce'
      /\ \A b, f \in Actors : \A m \in Names :
           Has(b, m, f)' <=>
             \/ Has(b, m, f) /\ ~(b = Monitor /\ m = "Init" /\ f = Monitor)
             \/ Tracked(b, m, f) /\ b = Node /\ m = "GetGlobalStatusActor" /\ f = Monitor
  BY <1>1, <1>2, <1>3, <1>5, OneForOne, ActorsDiffer DEF Inv
<1>7. \A b, f \in Actors : \A m \in Names : Has(b, m, f)' <=> Has(b, m, f)
  BY <1>4, <1>6, HasDef
<1>8. /\ Shape' /\ node' = node /\ timers' = timers /\ monitor'.state = monitor.state
      /\ vm' = vm /\ proxy' = proxy /\ helper' = helper
  BY DEF Shape, MonitorInit, Inv
<1> QED
  BY <1>6, <1>7, <1>8, CalmKeeps DEF Kept

LEMMA MonitorSetActorKeeps ==
  ASSUME Inv, MonitorSetActor
  PROVE  Kept
<1>1. mail[Monitor] # <<>> /\ Head(mail[Monitor]).from = Node /\ Name(Head(mail[Monitor])) = "status"
  BY MonitorHead DEF Receives, MonitorSetActor, Inv
<1>2. ~Tracked(Monitor, "status", Node)
  BY OthersAreNoVms DEF Tracked, ChainNames
<1>3. /\ MailShape' /\ MailOnce'
      /\ \A b, f \in Actors : \A m \in Names :
           Has(b, m, f)' <=> Has(b, m, f) /\ ~(b = Monitor /\ m = "status" /\ f = Node)
  BY <1>1, NoneForOne, ActorsDiffer DEF Inv, MonitorSetActor
<1>4. \A b, f \in Actors : \A m \in Names : Has(b, m, f)' <=> Has(b, m, f)
  BY <1>2, <1>3, HasDef
<1>5. /\ Shape' /\ node' = node /\ timers' = timers /\ monitor'.state = monitor.state
      /\ vm' = vm /\ proxy' = proxy /\ helper' = helper
  BY DEF Shape, MonitorSetActor, Inv
<1> QED
  BY <1>3, <1>4, <1>5, CalmKeeps DEF Kept

LEMMA MasterAnswersKeeps ==
  ASSUME Inv, MasterAnswers
  PROVE  Kept
<1> DEFINE h == Head(mail[Master])
<1>1. mail[Master] # <<>> /\ Master \in Actors
  BY ActorsDiffer DEF MasterAnswers
<1>2. MayGet(Master, h)
  BY <1>1, HeadHas DEF Inv
<1>3. h.from = Node /\ h.m \in {"GetInstanceActor", "GetGlobalStatusActor"}
  BY <1>2, MayGetIs
<1>4. Name(h) = h.m
  BY <1>3 DEF Name
<1> DEFINE d == IF h.m = "GetInstanceActor" THEN "instance" ELSE "status"
           x == MsgWith("SetActor", Master, d)
<1>5. mail' = Handled(Master, {<<Node, <<x>> >>})
  BY <1>3 DEF MasterAnswers, Sender
<1>6. d \in {"instance", "status"} /\ d \in Names \cup Versions \cup {None}
  BY DEF Names, Kinds
<1> HIDE DEF d
<1>7. x \in Messages /\ Name(x) = d /\ x.m = "SetActor" /\ x.from = Master /\ x.data = d
  BY <1>1, <1>6, MsgWithType
<1> HIDE DEF x, h
<1>8. ~Tracked(Node, d, Master) /\ ~Tracked(Master, h.m, Node)
  BY <1>3, <1>6, OthersAreNoVms DEF Tracked, ChainNames
<1>9. MaySend(Node, x)
  BY <1>6, <1>7, <1>8, MayGetIs, ActorsDiffer DEF MaySend
<1>10. PICK e : h.m = e
  OBVIOUS
<1>11. PICK g : d = g
  OBVIOUS
<1>12. PICK y : x = y
  OBVIOUS
<1>13. /\ MailShape' /\ MailOnce'
       /\ \A b, f \in Actors : \A m \in Names :
            Has(b, m, f)' <=>
              \/ Has(b, m, f) /\ ~(b = Master /\ m = e /\ f = Node)
              \/ Tracked(b, m, f) /\ b = Node /\ m = g /\ f = Master
  BY <1>1, <1>3, <1>4, <1>5, <1>7, <1>9, <1>10, <1>11, <1>12, OneForOne DEF Inv, h
<1>14. \A b, f \in Actors : \A m \in Names : Has(b, m, f)' <=> Has(b, m, f)
  BY <1>8, <1>10, <1>11, <1>13, HasDef
<1>15. /\ Shape' /\ node' = node /\ timers' = timers /\ monitor' = monitor
       /\ vm' = vm /\ proxy' = proxy /\ helper' = helper
  BY DEF Shape, MasterAnswers, Inv
<1> QED
  BY <1>13, <1>14, <1>15, CalmKeeps DEF Kept

-----------------------------------------------------------------------------
(* A chain of a VM moves on while its actors wait. *)

Busy(u) == \E p \in ChainOfVm : AttributesAt(u, p) \/ ConfigAt(u, p)

OneAttributesAt(u) == \A p, q \in ChainOfVm : AttributesAt(u, p) /\ AttributesAt(u, q) => p = q
OneConfigAt(u) == \A p, q \in ChainOfVm : ConfigAt(u, p) /\ ConfigAt(u, q) => p = q
OneEndAt(u) == \A p, q \in ChainOfVm : EndAt(u, p) /\ EndAt(u, q) => p = q

LEMMA EachIsOne ==
  ASSUME NEW u \in Uuids
  PROVE  /\ OneOfEach(u) <=> OneAttributesAt(u) /\ OneConfigAt(u) /\ OneEndAt(u)
         /\ OneOfEach(u)' <=> OneAttributesAt(u)' /\ OneConfigAt(u)' /\ OneEndAt(u)'
  BY DEF OneOfEach, OneAttributesAt, OneConfigAt, OneEndAt

LEMMA BusyIsReady ==
  ASSUME NEW u \in Uuids, VmInv(u), Busy(u)
  PROVE  CheckReady(vm[u]) /\ vm[u].state = "up"
  BY DEF VmInv, Busy, ChainsBegin, VmAbsent

LEMMA AttributesMove ==
  ASSUME NEW u \in Uuids, VmInv(u), NEW p0 \in ChainOfVm, AttributesAt(u, p0), NEW q0,
         \A p \in ChainOfVm : AttributesAt(u, p)' => p = q0 \/ (AttributesAt(u, p) /\ p # p0)
  PROVE  OneAttributesAt(u)'
<1>1. OneAttributesAt(u)
  BY EachIsOne DEF VmInv
<1>2. \A p \in ChainOfVm : AttributesAt(u, p)' => p = q0
  BY <1>1 DEF OneAttributesAt
<1> QED
  BY <1>2 DEF OneAttributesAt

LEMMA ConfigMoves ==
  ASSUME NEW u \in Uuids, VmInv(u), NEW p0 \in ChainOfVm, ConfigAt(u, p0), NEW q0,
         \A p \in ChainOfVm : ConfigAt(u, p)' => p = q0 \/ (ConfigAt(u, p) /\ p # p0)
  PROVE  OneConfigAt(u)'
<1>1. OneConfigAt(u)
  BY EachIsOne DEF VmInv
<1>2. \A p \in ChainOfVm : ConfigAt(u, p)' => p = q0
  BY <1>1 DEF OneConfigAt
<1> QED
  BY <1>2 DEF OneConfigAt

LEMMA EndMoves ==
  ASSUME NEW u \in Uuids, VmInv(u), NEW p0 \in ChainOfVm, EndAt(u, p0), NEW q0,
         \A p \in ChainOfVm : EndAt(u, p)' => p = q0 \/ (EndAt(u, p) /\ p # p0)
  PROVE  OneEndAt(u)'
<1>1. OneEndAt(u)
  BY EachIsOne DEF VmInv
<1>2. \A p \in ChainOfVm : EndAt(u, p)' => p = q0
  BY <1>1 DEF OneEndAt
<1> QED
  BY <1>2 DEF OneEndAt

LEMMA AttributesStay ==
  ASSUME NEW u \in Uuids, VmInv(u), \A p \in ChainOfVm : AttributesAt(u, p)' => AttributesAt(u, p)
  PROVE  OneAttributesAt(u)'
<1>1. OneAttributesAt(u)
  BY EachIsOne DEF VmInv
<1> QED
  BY <1>1 DEF OneAttributesAt

LEMMA ConfigStays ==
  ASSUME NEW u \in Uuids, VmInv(u), \A p \in ChainOfVm : ConfigAt(u, p)' => ConfigAt(u, p)
  PROVE  OneConfigAt(u)'
<1>1. OneConfigAt(u)
  BY EachIsOne DEF VmInv
<1> QED
  BY <1>1 DEF OneConfigAt

LEMMA EndStays ==
  ASSUME NEW u \in Uuids, VmInv(u), \A p \in ChainOfVm : EndAt(u, p)' => EndAt(u, p)
  PROVE  OneEndAt(u)'
<1>1. OneEndAt(u)
  BY EachIsOne DEF VmInv
<1> QED
  BY <1>1 DEF OneEndAt

HopNames == {"GetSystemAttributes", "SystemAttributes", "NotReadyJet",
             "GetDeployInfo", "DeployInfo", "NoDeployInfo"}

LEMMA HopKeeps ==
  ASSUME NEW u \in Uuids, VmInv(u), Busy(u),
         vm'[u] = vm[u], proxy'[u] = proxy[u], helper'[u] = helper[u], node'.vmActors = node.vmActors,
         \A b, f \in Actors : \A m \in Names \ HopNames :
           (b \in {VM(u), Proxy(u)} \/ f \in {VM(u), Proxy(u)}) => (Has(b, m, f)' <=> Has(b, m, f)),
         OneAttributesAt(u)', OneConfigAt(u)'
  PROVE  Keeps(u)
<1>1. /\ VM(u) \in Actors /\ Proxy(u) \in Actors /\ Node \in Actors /\ Monitor \in Actors
      /\ Instances \in Actors /\ Status \in Actors
  BY ActorsDiffer, VmActorsDiffer
<1>2. \A k \in Kinds : Getter(k) \in Names \ HopNames /\ k \in Names \ HopNames
  BY DEF Kinds, Getter, Names, ChainNames, HopNames
<1>3. CheckReady(vm[u]) /\ vm[u].state = "up"
  BY BusyIsReady
<1>4. \A m \in Names \ HopNames : \A b \in Actors :
        (Has(VM(u), m, b)' <=> Has(VM(u), m, b)) /\ (Has(b, m, VM(u))' <=> Has(b, m, VM(u)))
  BY <1>1
<1>5. /\ Has(VM(u), "Init", VM(u))' <=> Has(VM(u), "Init", VM(u))
      /\ Has(VM(u), "proxy", Node)' <=> Has(VM(u), "proxy", Node)
      /\ Has(VM(u), "null", Node)' <=> Has(VM(u), "null", Node)
  BY <1>1, <1>4 DEF Names, Kinds, HopNames
<1>6. \A k \in Kinds : /\ AnswerTo(u, k)' <=> AnswerTo(u, k)
                       /\ Has(Node, Getter(k), VM(u))' <=> Has(Node, Getter(k), VM(u))
  BY <1>1, <1>2, <1>4, <1>5 DEF AnswerTo
<1>7. OneReference(u)'
  <2>1. OneReference(u) /\ vm'[u].refs = vm[u].refs
    BY DEF VmInv
  <2> QED
    BY <1>5, <1>6, <2>1, Zenon DEF OneReference
<1>8. \A p \in ChainOfVm : EndAt(u, p)' <=> EndAt(u, p)
  BY <1>1 DEF EndAt, Names, HopNames
<1>9. OneOfEach(u)'
  BY <1>8, EachIsOne, EndStays
<1>10. ChainsBegin(u)' /\ VmAbsent(u)' /\ NotYet(u)' /\ HelperShape(u)'
  <2>1. ChainsBegin(u)' /\ VmAbsent(u)'
    BY <1>3 DEF ChainsBegin, VmAbsent, CheckReady
  <2>2. NotYet(u)'
    BY DEF VmInv, NotYet
  <2>3. HelperShape(u)'
    <3>1. \A p \in {"helper", "running", "not", "done"} : ConfigAt(u, p)' => ConfigAt(u, p)
      BY <1>1, <1>4 DEF ConfigAt, Names, HopNames
    <3> QED
      BY <3>1 DEF VmInv, HelperShape
  <2> QED
    BY <2>1, <2>2, <2>3
<1>11. ProxyAndVm(u)'
  <2>1. Has(Proxy(u), "SetConfig", VM(u))' <=> Has(Proxy(u), "SetConfig", VM(u))
    BY <1>1, <1>4 DEF Names, HopNames
  <2> QED
    BY <1>8, <2>1 DEF VmInv, ProxyAndVm, CheckReady
<1>12. Reports(u)'
  BY <1>1 DEF VmInv, Reports, Served, Names, ChainNames, HopNames
<1>13. InMap(u)'
  BY <1>1 DEF VmInv, InMap, Names, ChainNames, HopNames
<1>14. Reg(u) => Reg(u)'
  BY <1>1, <1>4 DEF Reg, Served, Names, HopNames
<1> QED
  BY <1>7, <1>9, <1>10, <1>11, <1>12, <1>13, <1>14 DEF Keeps, VmInv

(* The other VMs, when a step concerns one *)
Untouched(u) ==
  /\ vm'[u] = vm[u] /\ proxy'[u] = proxy[u] /\ helper'[u] = helper[u]
  /\ \A k \in {"vm", "proxy"} : <<u, k>> \in node'.vmActors <=> <<u, k>> \in node.vmActors
  /\ AskTimer(u) \in DOMAIN timers' => AskTimer(u) \in DOMAIN timers
  /\ \A b, f \in Actors : \A m \in Names :
       (b \in {VM(u), Proxy(u)} \/ f \in {VM(u), Proxy(u)}) => (Has(b, m, f)' <=> Has(b, m, f))

LEMMA UntouchedKeeps ==
  ASSUME Inv, NEW u \in Uuids, Untouched(u)
  PROVE  Keeps(u)
<1>1. VmFades(u)
  BY DEF VmFades, BoxFades, Untouched, Inv, VmInv, ProxyAndVm
<1>2. MapStays(u)
  BY ActorsDiffer, VmActorsDiffer DEF MapStays, Untouched, Names, ChainNames
<1> QED
  BY <1>1, <1>2, FadingKeeps DEF Inv

(* GetSystemAttributes, of the NodeActor or of a VMActor *)
LEMMA MonitorGetSystemAttributesKeeps ==
  ASSUME Inv, MonitorGetSystemAttributes
  PROVE  Kept
<1>1. /\ mail[Monitor] # <<>> /\ Head(mail[Monitor]).from \in VMs \cup {Node}
      /\ Name(Head(mail[Monitor])) = "GetSystemAttributes"
      /\ Has(Monitor, "GetSystemAttributes", Head(mail[Monitor]).from)
  BY MonitorHead DEF Receives, MonitorGetSystemAttributes, Inv
<1>2. PICK c : c = Head(mail[Monitor]).from
  OBVIOUS
<1>3. PICK n : n = IF monitor.ready THEN "SystemAttributes" ELSE "NotReadyJet"
  OBVIOUS
<1>4. PICK x : x = IF monitor.ready THEN Msg("SystemAttributes", Monitor)
                   ELSE MsgWith("NotReadyJet", Monitor, "GetSystemAttributes")
  OBVIOUS
<1>5. /\ n \in {"SystemAttributes", "NotReadyJet"} /\ c \in VMs \cup {Node}
      /\ Has(Monitor, "GetSystemAttributes", c)
  BY <1>1, <1>2, <1>3
<1>6. x \in Messages /\ Name(x) = n /\ x.m = n /\ x.from = Monitor /\ (n = "NotReadyJet" => x.data = "GetSystemAttributes")
  <2>1. CASE monitor.ready
    BY <1>3, <1>4, <2>1, MsgType, ActorsDiffer DEF Names, ChainNames
  <2>2. CASE ~monitor.ready
    BY <1>3, <1>4, <2>2, MsgWithType, ActorsDiffer DEF Names, ChainNames
  <2> QED
    BY <2>1, <2>2
<1>7. mail' = Handled(Monitor, {<<c, <<x>> >>})
  BY <1>2, <1>4 DEF MonitorGetSystemAttributes, Sender
<1>8. /\ Shape' /\ node' = node /\ timers' = timers /\ monitor' = monitor
      /\ vm' = vm /\ proxy' = proxy /\ helper' = helper
  BY DEF Shape, MonitorGetSystemAttributes, Inv
<1>9. CASE c = Node
  <2>1. TokenAt("measure", None) /\ "measure" \in ChainOfNode
    BY <1>5, <1>9, TokenPlaces DEF ChainOfNode
  <2>2. ~Has(Node, n, Monitor)
    BY <1>5, <2>1, TokenPlaces, TokenAlone DEF ChainOfNode, Inv
  <2>3. MaySend(c, x)
    BY <1>5, <1>6, <1>9, <2>2, MayGetIs, ActorsDiffer DEF MaySend, Names, ChainNames
  <2>4. /\ MailShape' /\ MailOnce'
        /\ \A b, f \in Actors : \A m \in Names :
             Has(b, m, f)' <=>
               \/ Has(b, m, f) /\ ~(b = Monitor /\ m = "GetSystemAttributes" /\ f = Node)
               \/ Tracked(b, m, f) /\ b = Node /\ m = n /\ f = Monitor
    BY <1>1, <1>2, <1>6, <1>7, <1>9, <2>3, OneForOne, ActorsDiffer DEF Inv
  <2>5. node.config
    BY <2>1 DEF Inv, ConfigKnown
  <2>6. PICK q0 : q0 = IF n = "SystemAttributes" THEN "attributes" ELSE "again"
    OBVIOUS
  <2>7. OneToken' /\ ConfigKnown'
    <3>1. \A p \in ChainOfNode : \A u \in Uuids \cup {None} :
            TokenAt(p, u)' => (p = q0 /\ u = None) \/ (TokenAt(p, u) /\ ~(p = "measure" /\ u = None))
      BY <1>5, <1>8, <2>4, <2>6, ActorsDiffer, VmActorsDiffer DEF TokenAt, Names, ChainNames
    <3> QED
      BY <1>8, <2>1, <2>5, <3>1, TokenMoves DEF Inv
  <2>8. \A u \in Uuids : Keeps(u)
    BY <1>8, <2>4, FarKeeps, OthersAreNoVms
  <2> QED
    BY <1>8, <2>4, <2>7, <2>8 DEF Kept
<1>10. CASE c \in VMs
  <2>1. PICK w \in Uuids : c = VM(w)
    BY <1>10 DEF VMs
  <2>2. AttributesAt(w, "asked") /\ "asked" \in ChainOfVm
    BY <1>5, <2>1 DEF AttributesAt, ChainOfVm
  <2>3. ~Has(VM(w), n, Monitor)
    <3>1. OneAttributesAt(w)
      BY EachIsOne DEF Inv, VmInv
    <3>2. ~AttributesAt(w, "answered") /\ ~AttributesAt(w, "refused")
      BY <2>2, <3>1 DEF OneAttributesAt, ChainOfVm
    <3> QED
      BY <1>5, <3>2 DEF AttributesAt
  <2>4. MaySend(c, x)
    BY <1>5, <1>6, <2>1, <2>3, MayGetIs, VmActorsDiffer DEF MaySend, Names, ChainNames
  <2>5. /\ MailShape' /\ MailOnce'
        /\ \A b, f \in Actors : \A m \in Names :
             Has(b, m, f)' <=>
               \/ Has(b, m, f) /\ ~(b = Monitor /\ m = "GetSystemAttributes" /\ f = VM(w))
               \/ Tracked(b, m, f) /\ b = VM(w) /\ m = n /\ f = Monitor
    BY <1>1, <1>2, <1>6, <1>7, <2>1, <2>4, OneForOne, ActorsDiffer DEF Inv
  <2>6. OneToken' /\ ConfigKnown'
    <3>1. \A p \in ChainOfNode : \A u \in Uuids \cup {None} : TokenAt(p, u)' => TokenAt(p, u)
      BY <1>8, <2>5, ActorsDiffer, VmActorsDiffer DEF TokenAt, Names, ChainNames
    <3> QED
      BY <1>8, <3>1, TokenStays DEF Inv
  <2>7. PICK q0 : q0 = IF n = "SystemAttributes" THEN "answered" ELSE "refused"
    OBVIOUS
  <2>8. Keeps(w)
    <3>1. \A p \in ChainOfVm : AttributesAt(w, p)' => p = q0 \/ (AttributesAt(w, p) /\ p # "asked")
      BY <1>5, <1>8, <2>5, <2>7, ActorsDiffer, VmActorsDiffer DEF AttributesAt, Names, ChainNames
    <3>2. OneAttributesAt(w)'
      BY <2>2, <3>1, AttributesMove DEF Inv
    <3>3. \A p \in ChainOfVm : ConfigAt(w, p)' => ConfigAt(w, p)
      BY <1>5, <1>8, <2>5, ActorsDiffer, VmActorsDiffer DEF ConfigAt, Names, ChainNames
    <3>4. OneConfigAt(w)' /\ Busy(w)
      BY <2>2, <3>3, ConfigStays DEF Inv, Busy
    <3>5. \A b, f \in Actors : \A m \in Names \ HopNames : Has(b, m, f)' <=> Has(b, m, f)
      BY <1>5, <2>5 DEF HopNames
    <3> QED
      BY <1>8, <3>2, <3>4, <3>5, HopKeeps DEF Inv
  <2>9. ASSUME NEW u \in Uuids, u # w PROVE Keeps(u)
    <3>1. Untouched(u)
      BY <1>8, <2>5, <2>9, VmActorsDiffer DEF Untouched
    <3> QED
      BY <3>1, UntouchedKeeps
  <2> QED
    BY <1>8, <2>5, <2>6, <2>8, <2>9 DEF Kept
<1> QED
  BY <1>5, <1>9, <1>10

-----------------------------------------------------------------------------
(* InstanceActor, GlobalStatusActor *)

LEMMA InstancesHead ==
  ASSUME MailShape, mail[Instances] # <<>>, NEW h, h = Head(mail[Instances])
  PROVE  /\ h.m = "GetDeployInfo" =>
              /\ h.from \in VMs \cup {Node} /\ Name(h) = "GetDeployInfo"
              /\ Has(Instances, "GetDeployInfo", h.from)
         /\ h.m = "GetTask" => h.from \in Proxies /\ Name(h) = "GetTask"
<1>1. /\ MayGet(Instances, h) /\ h.from \in Actors
      /\ (Name(h) \in Names /\ Tracked(Instances, Name(h), h.from)) => Has(Instances, Name(h), h.from)
  BY HeadHas, ActorsDiffer
<1>2. \/ h.m = "GetDeployInfo" /\ h.from \in VMs \cup {Node}
      \/ h.m = "GetTask" /\ h.from \in Proxies
  BY <1>1, MayGetIs
<1>3. Name(h) = IF h.m = "SetActor" THEN h.data ELSE h.m
  BY DEF Name
<1> QED
  BY <1>1, <1>2, <1>3 DEF Tracked, ChainNames, Names

LEMMA StatusHead ==
  ASSUME MailShape, mail[Status] # <<>>, NEW h, h = Head(mail[Status])
  PROVE  /\ h.from \in VMs /\ Name(h) = h.m /\ h.m \in {"RegisterVmActor", "DeregisterVmActor"}
         /\ Has(Status, h.m, h.from)
<1>1. /\ MayGet(Status, h) /\ h.from \in Actors
      /\ (Name(h) \in Names /\ Tracked(Status, Name(h), h.from)) => Has(Status, Name(h), h.from)
  BY HeadHas, ActorsDiffer
<1>2. h.m \in {"RegisterVmActor", "DeregisterVmActor"} /\ h.from \in VMs
  BY <1>1, MayGetIs
<1>3. Name(h) = h.m
  BY <1>2 DEF Name
<1> QED
  BY <1>1, <1>2, <1>3 DEF Tracked, Names

LEMMA OldestRun ==
  ASSUME NEW T, T \subseteq Versions, T # {}
  PROVE  (CHOOSE v \in T : \A w \in T : v <= w) \in Versions
<1> DEFINE R == {ss \in Nat \X Nat : ss[1] < ss[2]}
<1>1. T \subseteq Nat
  BY LifecycleAssumption
<1>2. IsWellFoundedOn(R, Nat)
  BY NatLessThanWellFounded DEF OpToRel
<1>3. \A y, x \in Nat : <<y, x>> \in R <=> y < x
  OBVIOUS
<1> HIDE DEF R
<1>4. \E x \in T : \A y \in T : ~(<<y, x>> \in R)
  BY <1>1, <1>2, WFMin
<1>5. PICK x \in T : \A y \in T : ~(<<y, x>> \in R)
  BY <1>4
<1>6. \A y \in T : x <= y
  <2> SUFFICES ASSUME NEW y \in T PROVE x <= y
    OBVIOUS
  <2>1. ~(y < x) /\ x \in Nat /\ y \in Nat
    BY <1>1, <1>3, <1>5
  <2> QED
    BY <2>1
<1>7. (CHOOSE v \in T : \A w \in T : v <= w) \in T
  BY <1>5, <1>6
<1> QED
  BY <1>7

(* GetDeployInfo, of the NodeActor or of a VMActor *)
LEMMA InstGetDeployInfoKeeps ==
  ASSUME Inv, InstGetDeployInfo
  PROVE  Kept
<1>1. /\ mail[Instances] # <<>> /\ Head(mail[Instances]).from \in VMs \cup {Node}
      /\ Name(Head(mail[Instances])) = "GetDeployInfo"
      /\ Has(Instances, "GetDeployInfo", Head(mail[Instances]).from)
  BY InstancesHead DEF Receives, InstGetDeployInfo, Inv
<1>2. PICK c : c = Head(mail[Instances]).from
  OBVIOUS
<1>3. PICK n : n = IF runs.present = {} THEN "NoDeployInfo" ELSE "DeployInfo"
  OBVIOUS
<1>4. PICK o : o = CHOOSE v \in runs.present : \A w \in runs.present : v <= w
  OBVIOUS
<1>5. PICK x : x = IF runs.present = {} THEN Msg("NoDeployInfo", Instances)
                   ELSE MsgWith("DeployInfo", Instances, o)
  OBVIOUS
<1>6. /\ n \in {"NoDeployInfo", "DeployInfo"} /\ c \in VMs \cup {Node}
      /\ Has(Instances, "GetDeployInfo", c)
  BY <1>1, <1>2, <1>3
<1>7. runs.present # {} => o \in Versions
  BY <1>4, OldestRun DEF Inv, Shape
<1>8. x \in Messages /\ Name(x) = n /\ x.m = n /\ x.from = Instances /\ (n = "DeployInfo" => x.data \in Versions)
  <2>1. CASE runs.present = {}
    BY <1>3, <1>5, <2>1, MsgType, ActorsDiffer DEF Names, ChainNames
  <2>2. CASE runs.present # {}
    <3>1. o \in Names \cup Versions \cup {None} /\ o \in Versions
      BY <1>7, <2>2
    <3>2. x = MsgWith("DeployInfo", Instances, o) /\ n = "DeployInfo"
      BY <1>3, <1>5, <2>2
    <3>3. "DeployInfo" \in Names \cup {"SetActor"}
      BY DEF Names, ChainNames
    <3> QED
      BY <3>1, <3>2, <3>3, MsgWithType, ActorsDiffer
  <2> QED
    BY <2>1, <2>2
<1>9. mail' = Handled(Instances, {<<c, <<x>> >>})
  BY <1>2, <1>4, <1>5 DEF InstGetDeployInfo, Sender
<1>10. /\ Shape' /\ node' = node /\ timers' = timers /\ monitor' = monitor
       /\ vm' = vm /\ proxy' = proxy /\ helper' = helper
  BY DEF Shape, InstGetDeployInfo, Inv
<1>11. CASE c = Node
  <2>1. TokenAt("ask", None) /\ "ask" \in ChainOfNode
    BY <1>6, <1>11, TokenPlaces DEF ChainOfNode
  <2>2. ~Has(Node, n, Instances)
    BY <1>6, <2>1, TokenPlaces, TokenAlone DEF ChainOfNode, Inv
  <2>3. MaySend(c, x)
    BY <1>6, <1>8, <1>11, <2>2, MayGetIs, ActorsDiffer DEF MaySend, Names, ChainNames
  <2>4. /\ MailShape' /\ MailOnce'
        /\ \A b, f \in Actors : \A m \in Names :
             Has(b, m, f)' <=>
               \/ Has(b, m, f) /\ ~(b = Instances /\ m = "GetDeployInfo" /\ f = Node)
               \/ Tracked(b, m, f) /\ b = Node /\ m = n /\ f = Instances
    BY <1>1, <1>2, <1>8, <1>9, <1>11, <2>3, OneForOne, ActorsDiffer DEF Inv
  <2>5. PICK q0 : q0 = IF n = "DeployInfo" THEN "deploy" ELSE "none"
    OBVIOUS
  <2>6. OneToken' /\ ConfigKnown'
    <3>1. \A p \in ChainOfNode : \A u \in Uuids \cup {None} :
            TokenAt(p, u)' => (p = q0 /\ u = None) \/ (TokenAt(p, u) /\ ~(p = "ask" /\ u = None))
      BY <1>6, <1>10, <2>4, <2>5, ActorsDiffer, VmActorsDiffer DEF TokenAt, Names, ChainNames
    <3>2. q0 \notin {"measure", "again", "retry", "attributes"}
      BY <2>5
    <3> QED
      BY <2>1, <3>1, <3>2, TokenMoves DEF Inv
  <2>7. \A u \in Uuids : Keeps(u)
    BY <1>10, <2>4, FarKeeps, OthersAreNoVms
  <2> QED
    BY <1>10, <2>4, <2>6, <2>7 DEF Kept
<1>12. CASE c \in VMs
  <2>1. PICK w \in Uuids : c = VM(w)
    BY <1>12 DEF VMs
  <2>2. ConfigAt(w, "asked") /\ "asked" \in ChainOfVm
    BY <1>6, <2>1 DEF ConfigAt, ChainOfVm
  <2>3. ~Has(VM(w), n, Instances)
    <3>1. OneConfigAt(w)
      BY EachIsOne DEF Inv, VmInv
    <3>2. ~ConfigAt(w, "deploy") /\ ~ConfigAt(w, "none")
      BY <2>2, <3>1 DEF OneConfigAt, ChainOfVm
    <3> QED
      BY <1>6, <3>2 DEF ConfigAt
  <2>4. MaySend(c, x)
    BY <1>6, <1>8, <2>1, <2>3, MayGetIs, VmActorsDiffer DEF MaySend, Names, ChainNames
  <2>5. /\ MailShape' /\ MailOnce'
        /\ \A b, f \in Actors : \A m \in Names :
             Has(b, m, f)' <=>
               \/ Has(b, m, f) /\ ~(b = Instances /\ m = "GetDeployInfo" /\ f = VM(w))
               \/ Tracked(b, m, f) /\ b = VM(w) /\ m = n /\ f = Instances
    BY <1>1, <1>2, <1>8, <1>9, <2>1, <2>4, OneForOne, ActorsDiffer DEF Inv
  <2>6. OneToken' /\ ConfigKnown'
    <3>1. \A p \in ChainOfNode : \A u \in Uuids \cup {None} : TokenAt(p, u)' => TokenAt(p, u)
      BY <1>10, <2>5, ActorsDiffer, VmActorsDiffer DEF TokenAt, Names, ChainNames
    <3> QED
      BY <1>10, <3>1, TokenStays DEF Inv
  <2>7. PICK q0 : q0 = IF n = "DeployInfo" THEN "deploy" ELSE "none"
    OBVIOUS
  <2>8. Keeps(w)
    <3>1. \A p \in ChainOfVm : ConfigAt(w, p)' => p = q0 \/ (ConfigAt(w, p) /\ p # "asked")
      BY <1>6, <1>10, <2>5, <2>7, ActorsDiffer, VmActorsDiffer DEF ConfigAt, Names, ChainNames
    <3>2. OneConfigAt(w)'
      BY <2>2, <3>1, ConfigMoves DEF Inv
    <3>3. \A p \in ChainOfVm : AttributesAt(w, p)' => AttributesAt(w, p)
      BY <1>6, <1>10, <2>5, ActorsDiffer, VmActorsDiffer DEF AttributesAt, Names, ChainNames
    <3>4. OneAttributesAt(w)' /\ Busy(w)
      BY <2>2, <3>3, AttributesStay DEF Inv, Busy
    <3>5. \A b, f \in Actors : \A m \in Names \ HopNames : Has(b, m, f)' <=> Has(b, m, f)
      BY <1>6, <2>5 DEF HopNames
    <3> QED
      BY <1>10, <3>2, <3>4, <3>5, HopKeeps DEF Inv
  <2>9. ASSUME NEW u \in Uuids, u # w PROVE Keeps(u)
    <3>1. Untouched(u)
      BY <1>10, <2>5, <2>9, VmActorsDiffer DEF Untouched
    <3> QED
      BY <3>1, UntouchedKeeps
  <2> QED
    BY <1>10, <2>5, <2>6, <2>8, <2>9 DEF Kept
<1> QED
  BY <1>6, <1>11, <1>12

(* GetTask of a VMProxyActor *)
LEMMA InstGetTaskKeeps ==
  ASSUME Inv, InstGetTask
  PROVE  Kept
<1>1. /\ mail[Instances] # <<>> /\ Head(mail[Instances]).from \in Proxies
      /\ Name(Head(mail[Instances])) = "GetTask"
  BY InstancesHead DEF Receives, InstGetTask, Inv
<1>2. PICK w \in Uuids : Head(mail[Instances]).from = Proxy(w)
  BY <1>1 DEF Proxies
<1>3. ~Tracked(Instances, "GetTask", Proxy(w)) /\ ~Tracked(Proxy(w), "NoMoreTasks", Instances)
  BY OthersAreNoVms, VmActorsDiffer DEF Tracked, ChainNames
<1> DEFINE x == Msg("NoMoreTasks", Instances)
<1>4. x \in Messages /\ Name(x) = "NoMoreTasks" /\ x.m = "NoMoreTasks" /\ x.from = Instances
  BY MsgType, ActorsDiffer DEF Names, ChainNames
<1>5. mail' = Handled(Instances, {}) \/ mail' = Handled(Instances, {<<Proxy(w), <<x>> >>})
  BY <1>2 DEF InstGetTask, Sender
<1> HIDE DEF x
<1>6. MaySend(Proxy(w), x)
  BY <1>3, <1>4, MayGetIs, VmActorsDiffer DEF MaySend
<1>7. MailShape' /\ MailOnce' /\ \A b, f \in Actors : \A m \in Names : Has(b, m, f)' <=> Has(b, m, f)
  <2>1. CASE mail' = Handled(Instances, {})
    <3>1. /\ MailShape' /\ MailOnce'
          /\ \A b, f \in Actors : \A m \in Names :
               Has(b, m, f)' <=> Has(b, m, f) /\ ~(b = Instances /\ m = "GetTask" /\ f = Proxy(w))
      BY <1>1, <1>2, <2>1, NoneForOne, ActorsDiffer DEF Inv
    <3> QED
      BY <1>3, <3>1, HasDef
  <2>2. CASE mail' = Handled(Instances, {<<Proxy(w), <<x>> >>})
    <3>1. /\ MailShape' /\ MailOnce'
          /\ \A b, f \in Actors : \A m \in Names :
               Has(b, m, f)' <=>
                 \/ Has(b, m, f) /\ ~(b = Instances /\ m = "GetTask" /\ f = Proxy(w))
                 \/ Tracked(b, m, f) /\ b = Proxy(w) /\ m = "NoMoreTasks" /\ f = Instances
      BY <1>1, <1>2, <1>4, <1>6, <2>2, OneForOne, ActorsDiffer DEF Inv
    <3> QED
      BY <1>3, <3>1, HasDef
  <2> QED
    BY <1>5, <2>1, <2>2
<1>8. /\ Shape' /\ node' = node /\ timers' = timers /\ monitor' = monitor
      /\ vm' = vm /\ proxy' = proxy /\ helper' = helper
  BY DEF Shape, InstGetTask, Inv
<1> QED
  BY <1>7, <1>8, CalmKeeps DEF Kept

(* RegisterVmActor, DeregisterVmActor *)
LEMMA StatusKeeps ==
  ASSUME Inv, StatusRegisterVmActor \/ StatusDeregisterVmActor
  PROVE  /\ Kept
         /\ \E w \in Uuids : \E n \in {"RegisterVmActor", "DeregisterVmActor"} :
              /\ Head(mail[Status]).m = n /\ Has(Status, n, VM(w))
              /\ ~Has(Status, n, VM(w))'
<1>1. mail[Status] # <<>> /\ mail' = Handled(Status, {})
  BY DEF Receives, StatusRegisterVmActor, StatusDeregisterVmActor
<1>2. PICK n : n = Head(mail[Status]).m
  OBVIOUS
<1>3. /\ Head(mail[Status]).from \in VMs /\ Name(Head(mail[Status])) = n
      /\ n \in {"RegisterVmActor", "DeregisterVmActor"} /\ Has(Status, n, Head(mail[Status]).from)
  BY <1>1, <1>2, StatusHead DEF Inv
<1>4. PICK w \in Uuids : Head(mail[Status]).from = VM(w)
  BY <1>3 DEF VMs
<1>5. /\ MailShape' /\ MailOnce'
      /\ \A b, f \in Actors : \A m \in Names :
           Has(b, m, f)' <=> Has(b, m, f) /\ ~(b = Status /\ m = n /\ f = VM(w))
  BY <1>1, <1>3, <1>4, NoneForOne, ActorsDiffer DEF Inv
<1>6. /\ node' = node /\ timers' = timers /\ monitor' = monitor
      /\ vm' = vm /\ proxy' = proxy /\ helper' = helper /\ runs' = runs
  BY DEF StatusRegisterVmActor, StatusDeregisterVmActor
<1>7. count' \in Nat
  BY DEF StatusRegisterVmActor, StatusDeregisterVmActor, Inv, Shape
<1>8. Shape'
  BY <1>6, <1>7 DEF Inv, Shape
<1>9. OneToken' /\ ConfigKnown'
  <2>1. \A p \in ChainOfNode : \A u \in Uuids \cup {None} : TokenAt(p, u)' => TokenAt(p, u)
    BY <1>5, <1>6, ActorsDiffer, VmActorsDiffer DEF TokenAt, Names, ChainNames
  <2> QED
    BY <1>6, <2>1, TokenStays DEF Inv
<1>10. \A u \in Uuids : Keeps(u)
  BY <1>3, <1>5, <1>6, FarKeeps
<1>11. Has(Status, n, VM(w)) /\ ~Has(Status, n, VM(w))'
  BY <1>3, <1>4, <1>5, ActorsDiffer, VmActorsDiffer DEF Names
<1> QED
  BY <1>2, <1>3, <1>5, <1>8, <1>9, <1>10, <1>11 DEF Kept

-----------------------------------------------------------------------------
(* The timers *)

LEMMA FireKeeps ==
  ASSUME Inv, NEW tm \in DOMAIN timers, Fire(tm)
  PROVE  Kept
<1>1. TimersShape' /\ DOMAIN timers' = DOMAIN timers \ {tm}
  BY TimerFired DEF Inv, Shape, TimersShape, Fire
<1>2. /\ Shape' /\ node' = node /\ monitor' = monitor /\ vm' = vm /\ proxy' = proxy /\ helper' = helper
  BY <1>1 DEF Inv, Shape, TimersShape, Fire
<1>3. \/ tm = AddTimer \/ tm = RetryTimer \/ \E w \in Uuids : tm = AskTimer(w)
  BY DEF Inv, Shape, Scheduling, AddTimer, RetryTimer, AskTimer
<1>4. PICK c, x : tm.to = c /\ tm.msg = x
  OBVIOUS
<1>5. mail' = [mail EXCEPT ![c] = Append(@, x)]
  BY <1>4 DEF Fire
<1>6. CASE tm = AddTimer
  <2>1. c = Node /\ x = Msg("AddVmActor", Node)
    BY <1>4, <1>6 DEF AddTimer
  <2>2. x \in Messages /\ Name(x) = "AddVmActor" /\ x.m = "AddVmActor" /\ x.from = Node
    BY <2>1, MsgType, ActorsDiffer DEF Names, ChainNames
  <2>3. TokenAt("timer", None) /\ "timer" \in ChainOfNode
    BY <1>6, TokenPlaces DEF ChainOfNode
  <2>4. ~Has(Node, "AddVmActor", Node)
    BY <2>3, TokenPlaces, TokenAlone DEF ChainOfNode, Inv
  <2>5. MaySend(c, x)
    BY <2>1, <2>2, <2>4, MayGetIs, ActorsDiffer DEF MaySend, Names, ChainNames
  <2>6. /\ MailShape' /\ MailOnce'
        /\ \A b, f \in Actors : \A m \in Names :
             Has(b, m, f)' <=>
               \/ Has(b, m, f)
               \/ Tracked(b, m, f) /\ b = Node /\ m = "AddVmActor" /\ f = Node
    BY <1>5, <2>1, <2>2, <2>5, AppendedBoxes DEF Inv
  <2>7. OneToken' /\ ConfigKnown'
    <3>1. \A p \in ChainOfNode : \A u \in Uuids \cup {None} :
            TokenAt(p, u)' => (p = "add" /\ u = None) \/ (TokenAt(p, u) /\ ~(p = "timer" /\ u = None))
      BY <1>1, <1>2, <1>6, <2>6, ActorsDiffer, VmActorsDiffer, TimersDiffer DEF TokenAt, Names, ChainNames
    <3> QED
      BY <2>3, <3>1, TokenMoves DEF Inv
  <2>8. \A u \in Uuids : Keeps(u)
    BY <1>1, <1>2, <2>6, FarKeeps, OthersAreNoVms
  <2> QED
    BY <1>2, <2>6, <2>7, <2>8 DEF Kept
<1>7. CASE tm = RetryTimer
  <2>1. c = Monitor /\ x = Msg("GetSystemAttributes", Node)
    BY <1>4, <1>7 DEF RetryTimer
  <2>2. x \in Messages /\ Name(x) = "GetSystemAttributes" /\ x.m = "GetSystemAttributes" /\ x.from = Node
    BY <2>1, MsgType, ActorsDiffer DEF Names, ChainNames
  <2>3. TokenAt("retry", None) /\ "retry" \in ChainOfNode
    BY <1>7, TokenPlaces DEF ChainOfNode
  <2>4. ~Has(Monitor, "GetSystemAttributes", Node) /\ node.config
    BY <2>3, TokenPlaces, TokenAlone DEF ChainOfNode, Inv, ConfigKnown
  <2>5. MaySend(c, x)
    BY <2>1, <2>2, <2>4, MayGetIs, ActorsDiffer DEF MaySend, Names, ChainNames
  <2>6. /\ MailShape' /\ MailOnce'
        /\ \A b, f \in Actors : \A m \in Names :
             Has(b, m, f)' <=>
               \/ Has(b, m, f)
               \/ Tracked(b, m, f) /\ b = Monitor /\ m = "GetSystemAttributes" /\ f = Node
    BY <1>5, <2>1, <2>2, <2>5, AppendedBoxes DEF Inv
  <2>7. OneToken' /\ ConfigKnown'
    <3>1. \A p \in ChainOfNode : \A u \in Uuids \cup {None} :
            TokenAt(p, u)' => (p = "measure" /\ u = None) \/ (TokenAt(p, u) /\ ~(p = "retry" /\ u = None))
      BY <1>1, <1>2, <1>7, <2>6, ActorsDiffer, VmActorsDiffer, TimersDiffer DEF TokenAt, Names, ChainNames
    <3> QED
      BY <1>2, <2>3, <2>4, <3>1, TokenMoves DEF Inv
  <2>8. \A u \in Uuids : Keeps(u)
    BY <1>1, <1>2, <2>6, FarKeeps, OthersAreNoVms
  <2> QED
    BY <1>2, <2>6, <2>7, <2>8 DEF Kept
<1>8. ASSUME NEW w \in Uuids, tm = AskTimer(w) PROVE Kept
  <2>1. c = Instances /\ x = Msg("GetDeployInfo", VM(w))
    BY <1>4, <1>8 DEF AskTimer
  <2>2. x \in Messages /\ Name(x) = "GetDeployInfo" /\ x.m = "GetDeployInfo" /\ x.from = VM(w)
    BY <2>1, MsgType, VmActorsDiffer DEF Names, ChainNames
  <2>3. ConfigAt(w, "timer") /\ "timer" \in ChainOfVm
    BY <1>8 DEF ConfigAt, ChainOfVm
  <2>4. ~Has(Instances, "GetDeployInfo", VM(w))
    <3>1. OneConfigAt(w)
      BY EachIsOne DEF Inv, VmInv
    <3>2. ~ConfigAt(w, "asked")
      BY <2>3, <3>1 DEF OneConfigAt, ChainOfVm
    <3> QED
      BY <3>2 DEF ConfigAt
  <2>5. MaySend(c, x)
    BY <2>1, <2>2, <2>4, MayGetIs, ActorsDiffer, VmActorsDiffer DEF MaySend, Names, ChainNames
  <2>6. /\ MailShape' /\ MailOnce'
        /\ \A b, f \in Actors : \A m \in Names :
             Has(b, m, f)' <=>
               \/ Has(b, m, f)
               \/ Tracked(b, m, f) /\ b = Instances /\ m = "GetDeployInfo" /\ f = VM(w)
    BY <1>5, <2>1, <2>2, <2>5, AppendedBoxes DEF Inv
  <2>7. OneToken' /\ ConfigKnown'
    <3>1. \A p \in ChainOfNode : \A u \in Uuids \cup {None} : TokenAt(p, u)' => TokenAt(p, u)
      BY <1>1, <1>2, <2>6, ActorsDiffer, VmActorsDiffer DEF TokenAt, Names, ChainNames
    <3> QED
      BY <1>2, <3>1, TokenStays DEF Inv
  <2>8. Keeps(w)
    <3>1. \A p \in ChainOfVm : ConfigAt(w, p)' => p = "asked" \/ (ConfigAt(w, p) /\ p # "timer")
      BY <1>1, <1>2, <1>8, <2>6, ActorsDiffer, VmActorsDiffer DEF ConfigAt, Names, ChainNames
    <3>2. OneConfigAt(w)'
      BY <2>3, <3>1, ConfigMoves DEF Inv
    <3>3. \A p \in ChainOfVm : AttributesAt(w, p)' => AttributesAt(w, p)
      BY <1>2, <2>6, ActorsDiffer, VmActorsDiffer DEF AttributesAt, Names, ChainNames
    <3>4. OneAttributesAt(w)' /\ Busy(w)
      BY <2>3, <3>3, AttributesStay DEF Inv, Busy
    <3>5. \A b, f \in Actors : \A m \in Names \ HopNames : Has(b, m, f)' <=> Has(b, m, f)
      BY <2>6 DEF HopNames
    <3> QED
      BY <1>2, <3>2, <3>4, <3>5, HopKeeps DEF Inv
  <2>9. ASSUME NEW u \in Uuids, u # w PROVE Keeps(u)
    <3>1. Untouched(u)
      BY <1>1, <1>2, <2>6, <2>9, VmActorsDiffer DEF Untouched
    <3> QED
      BY <3>1, UntouchedKeeps
  <2> QED
    BY <1>2, <2>6, <2>7, <2>8, <2>9 DEF Kept
<1> QED
  BY <1>3, <1>6, <1>7, <1>8

-----------------------------------------------------------------------------
(* The NodeActor and the actors of a VM *)

(* RemoveVmActor: the actor is no longer in the map. *)
LEMMA NodeRemoveVmActorKeeps ==
  ASSUME Inv, NodeRemoveVmActor
  PROVE  Kept
<1>1. /\ mail[Node] # <<>> /\ Head(mail[Node]).from \in VMs \cup Proxies
      /\ Name(Head(mail[Node])) = "RemoveVmActor" /\ Has(Node, "RemoveVmActor", Head(mail[Node]).from)
  BY NodeHead DEF Receives, NodeRemoveVmActor, Inv
<1>2. PICK w \in Uuids : Head(mail[Node]).from \in {VM(w), Proxy(w)}
  BY <1>1 DEF VMs, Proxies
<1>3. PICK c \in {VM(w), Proxy(w)} : Head(mail[Node]).from = c
  BY <1>2
<1>4. PICK k \in {"vm", "proxy"} : c[1] = k /\ c[2] = w /\ (k = "vm" <=> c = VM(w)) /\ (k = "proxy" <=> c = Proxy(w))
  BY VmActorsDiffer
<1>5. /\ MailShape' /\ MailOnce'
      /\ \A b, f \in Actors : \A m \in Names :
           Has(b, m, f)' <=> Has(b, m, f) /\ ~(b = Node /\ m = "RemoveVmActor" /\ f = c)
  BY <1>1, <1>3, NoneForOne, ActorsDiffer DEF Inv, NodeRemoveVmActor
<1>6. node' = [node EXCEPT !.vmActors = @ \ {<<w, k>>}]
  BY <1>3, <1>4 DEF NodeRemoveVmActor, Sender
<1>7. /\ Shape' /\ node'.vmActors = node.vmActors \ {<<w, k>>} /\ node'.config = node.config
      /\ timers' = timers /\ monitor' = monitor /\ vm' = vm /\ proxy' = proxy /\ helper' = helper
  BY <1>6 DEF Shape, NodeRemoveVmActor, Inv
<1>8. OneToken' /\ ConfigKnown'
  <2>1. \A p \in ChainOfNode : \A u \in Uuids \cup {None} : TokenAt(p, u)' => TokenAt(p, u)
    BY <1>5, <1>7, ActorsDiffer, VmActorsDiffer DEF TokenAt, Names, ChainNames
  <2> QED
    BY <1>7, <2>1, TokenStays DEF Inv
<1>9. Keeps(w)
  <2>1. Has(Node, "RemoveVmActor", c)
    BY <1>1, <1>3
  <2>2. /\ k = "vm" => vm[w].state = "gone"
        /\ k = "proxy" => proxy[w].state = "gone"
    BY <1>4, <2>1 DEF Inv, VmInv, Reports
  <2>3. /\ Has(Node, "RemoveVmActor", VM(w))' <=> Has(Node, "RemoveVmActor", VM(w)) /\ k # "vm"
        /\ Has(Node, "RemoveVmActor", Proxy(w))' <=> Has(Node, "RemoveVmActor", Proxy(w)) /\ k # "proxy"
    BY <1>4, <1>5, ActorsDiffer, VmActorsDiffer DEF Names, ChainNames
  <2>4. InMap(w)'
    BY <1>7, <2>2, <2>3 DEF Inv, VmInv, InMap
  <2>5. VmFades(w)
    BY <1>5, <1>7 DEF VmFades, BoxFades, Inv, VmInv, ProxyAndVm
  <2> QED
    BY <2>4, <2>5, FadingKeeps DEF Inv
<1>10. ASSUME NEW u \in Uuids, u # w PROVE Keeps(u)
  <2>1. Untouched(u)
    BY <1>5, <1>7, <1>10, ActorsDiffer, VmActorsDiffer DEF Untouched
  <2> QED
    BY <2>1, UntouchedKeeps
<1> QED
  BY <1>5, <1>7, <1>8, <1>9, <1>10 DEF Kept

LEMMA Getters ==
  /\ \A k \in Kinds : Getter(k) \in {"GetInstanceActor", "GetVmProxyActor", "GetNodeMonitorActor",
                                     "GetGlobalStatusActor"}
  /\ \A k, l \in Kinds : Getter(k) = Getter(l) => k = l
  /\ Getter("instance") = "GetInstanceActor" /\ Getter("proxy") = "GetVmProxyActor"
  /\ Getter("monitor") = "GetNodeMonitorActor" /\ Getter("status") = "GetGlobalStatusActor"
  BY DEF Kinds, Getter

(* Messages about references come and go, and the VM stays as it is. *)
RefNames == Kinds \cup {"null", "Init", "GetInstanceActor", "GetGlobalStatusActor",
                        "GetNodeMonitorActor", "GetVmProxyActor"}

LEMMA RefKeeps ==
  ASSUME NEW u \in Uuids, VmInv(u), vm[u].state = "up",
         vm'[u] = vm[u], proxy'[u] = proxy[u], helper'[u] = helper[u], node'.vmActors = node.vmActors,
         AskTimer(u) \in DOMAIN timers' => AskTimer(u) \in DOMAIN timers,
         \A b, f \in Actors : \A m \in Names \ RefNames : Has(b, m, f)' <=> Has(b, m, f),
         OneReference(u)'
  PROVE  Keeps(u)
<1>1. /\ VM(u) \in Actors /\ Proxy(u) \in Actors /\ Node \in Actors /\ Monitor \in Actors
      /\ Instances \in Actors /\ Status \in Actors
  BY ActorsDiffer, VmActorsDiffer
<1>2. \A p \in ChainOfVm : EndAt(u, p)' <=> EndAt(u, p)
  BY <1>1 DEF EndAt, Names, RefNames, Kinds
<1>3. \A p \in ChainOfVm : AttributesAt(u, p)' => AttributesAt(u, p)
  BY <1>1 DEF AttributesAt, Names, ChainNames, RefNames, Kinds
<1>4. \A p \in ChainOfVm : ConfigAt(u, p)' => ConfigAt(u, p)
  BY <1>1 DEF ConfigAt, Names, ChainNames, RefNames, Kinds
<1>5. OneOfEach(u)'
  BY <1>2, <1>3, <1>4, EachIsOne, EndStays, AttributesStay, ConfigStays
<1>6. ChainsBegin(u)' /\ VmAbsent(u)' /\ NotYet(u)' /\ HelperShape(u)'
  <2>1. ChainsBegin(u)'
    BY <1>3, <1>4 DEF VmInv, ChainsBegin, CheckReady
  <2>2. VmAbsent(u)'
    BY DEF VmAbsent
  <2>3. NotYet(u)'
    BY DEF VmInv, NotYet
  <2>4. HelperShape(u)'
    BY <1>4 DEF VmInv, HelperShape, ChainOfVm
  <2> QED
    BY <2>1, <2>2, <2>3, <2>4
<1>7. ProxyAndVm(u)'
  <2>1. Has(Proxy(u), "SetConfig", VM(u))' <=> Has(Proxy(u), "SetConfig", VM(u))
    BY <1>1 DEF Names, RefNames, Kinds
  <2> QED
    BY <1>2, <2>1 DEF VmInv, ProxyAndVm, CheckReady
<1>8. Reports(u)'
  BY <1>1 DEF VmInv, Reports, Served, Names, ChainNames, RefNames, Kinds
<1>9. InMap(u)'
  BY <1>1 DEF VmInv, InMap, Names, ChainNames, RefNames, Kinds
<1>10. Reg(u) => Reg(u)'
  BY <1>1 DEF Reg, Served, Names, RefNames, Kinds
<1> QED
  BY <1>5, <1>6, <1>7, <1>8, <1>9, <1>10 DEF Keeps, VmInv

(* GetInstanceActor ... of a VMActor, its VMProxyActor or the NodeMonitorActor *)
LEMMA NodeAnswersKeeps ==
  ASSUME Inv, NodeAnswers
  PROVE  Kept
<1> DEFINE h == Head(mail[Node])
           null == Asked[h.m] \in {"vm", "proxy"} /\ <<h.from[2], Asked[h.m]>> \notin node.vmActors
           e == IF null THEN "null" ELSE Asked[h.m]
<1>1. mail[Node] # <<>> /\ h.m \in DOMAIN Asked /\ Node \in Actors
  BY ActorsDiffer DEF NodeAnswers
<1>2. /\ MayGet(Node, h) /\ h.from \in Actors
      /\ (Name(h) \in Names /\ Tracked(Node, Name(h), h.from)) => Has(Node, Name(h), h.from)
  BY <1>1, HeadHas DEF Inv
<1>3. mail' = Handled(Node, {<<h.from, <<MsgWith("SetActor", Node, e)>> >>})
  BY DEF NodeAnswers, Sender
<1>4. PICK c : c = h.from
  OBVIOUS
<1>5. PICK n : n = h.m
  OBVIOUS
<1>6. n \in {"GetInstanceActor", "GetGlobalStatusActor", "GetNodeMonitorActor", "GetVmProxyActor", "GetVmActor"}
  BY <1>1, <1>5 DEF Asked
<1>7. Name(h) = n
  BY <1>5, <1>6 DEF Name
<1>8. \/ c = Monitor /\ n = "GetGlobalStatusActor"
      \/ c \in VMs /\ n \in {"GetInstanceActor", "GetGlobalStatusActor", "GetVmProxyActor", "GetNodeMonitorActor"}
      \/ c \in Proxies /\ n \in {"GetVmActor", "GetInstanceActor"}
  BY <1>2, <1>4, <1>5, <1>6, MayGetIs
<1>9. PICK d : d = e
  OBVIOUS
<1>10. \/ n = "GetInstanceActor" /\ d = "instance"
       \/ n = "GetGlobalStatusActor" /\ d = "status"
       \/ n = "GetNodeMonitorActor" /\ d = "monitor"
       \/ n = "GetVmProxyActor" /\ d \in {"proxy", "null"}
       \/ n = "GetVmActor" /\ d \in {"vm", "null"}
  BY <1>5, <1>6, <1>9 DEF Asked
<1> DEFINE x == MsgWith("SetActor", Node, d)
<1>11. mail' = Handled(Node, {<<c, <<x>> >>})
  BY <1>3, <1>4, <1>9
<1>12. d \in Names \cup Versions \cup {None}
  BY <1>10 DEF Names, Kinds
<1>13. x \in Messages /\ Name(x) = d /\ x.m = "SetActor" /\ x.from = Node /\ x.data = d
  <2> HIDE DEF h, e, null
  <2>1. x \in Messages /\ x.m = "SetActor" /\ x.from = Node /\ x.data = d
    BY <1>12, ActorsDiffer, MsgWithType
  <2>2. Name(x) = d
    BY <2>1 DEF Name
  <2> QED
    BY <2>1, <2>2
<1>14. /\ Shape' /\ node' = node /\ timers' = timers /\ monitor' = monitor
       /\ vm' = vm /\ proxy' = proxy /\ helper' = helper
  BY DEF Shape, NodeAnswers, Inv
<1>15. c \in Actors /\ ((n \in Names /\ Tracked(Node, n, c)) => Has(Node, n, c))
  BY <1>2, <1>4, <1>7
<1>16. Name(Head(mail[Node])) = n /\ Head(mail[Node]).from = c
  BY <1>4, <1>7
<1> HIDE DEF x, h, e
<1>17. CASE c \notin VMs
  <2>1. ~Tracked(Node, n, c) /\ ~Tracked(c, d, Node)
    BY <1>6, <1>10, <1>17, OthersAreNoVms DEF Tracked, ChainNames
  <2>2. MayGet(c, x)
    <3>1. CASE c = Monitor
      BY <1>8, <1>10, <1>13, <3>1, ActorsDiffer, OthersAreNoVms, MayGetIs
    <3>2. CASE c \in Proxies
      <4>1. PICK w \in Uuids : c = Proxy(w)
        BY <3>2 DEF Proxies
      <4>2. c # Monitor
        BY <4>1, VmActorsDiffer
      <4>3. d \in {"vm", "instance", "null"}
        BY <1>8, <1>10, <1>17, <4>2
      <4> QED
        BY <1>13, <4>1, <4>3, MayGetIs
    <3> QED
      BY <1>8, <1>17, <3>1, <3>2
  <2>3. MaySend(c, x)
    BY <1>13, <1>15, <2>1, <2>2 DEF MaySend
  <2>4. /\ MailShape' /\ MailOnce'
        /\ \A b, f \in Actors : \A m \in Names :
             Has(b, m, f)' <=>
               \/ Has(b, m, f) /\ ~(b = Node /\ m = n /\ f = c)
               \/ Tracked(b, m, f) /\ b = c /\ m = d /\ f = Node
    BY <1>1, <1>11, <1>13, <1>16, <2>3, OneForOne DEF Inv
  <2>5. \A b, f \in Actors : \A m \in Names : Has(b, m, f)' <=> Has(b, m, f)
    BY <2>1, <2>4, HasDef
  <2> QED
    BY <1>14, <2>4, <2>5, CalmKeeps DEF Kept
<1>18. CASE c \in VMs
  <2>1. PICK w \in Uuids : c = VM(w)
    BY <1>18 DEF VMs
  <2>2. c # Monitor /\ c \notin Proxies
    BY <2>1, VmActorsDiffer
  <2>3. PICK k \in Kinds : n = Getter(k) /\ (d = k \/ (k = "proxy" /\ d = "null"))
    BY <1>8, <1>10, <2>2, Getters DEF Kinds
  <2>4. n \in Names /\ d \in Names
    BY <1>6, <1>10 DEF Names, Kinds
  <2>5. Has(Node, Getter(k), VM(w))
    BY <1>15, <1>18, <2>1, <2>3, <2>4 DEF Tracked
  <2>6. vm[w].state = "up" /\ ~AnswerTo(w, k) /\ k \notin vm[w].refs /\ ~Has(VM(w), "Init", VM(w))
    BY <2>5 DEF Inv, VmInv, OneReference, VmAbsent
  <2>7. ~Has(VM(w), d, Node)
    BY <2>3, <2>6 DEF AnswerTo
  <2>8. MaySend(c, x)
    <3>1. MayGet(c, x)
      BY <1>13, <2>1, <2>3, MayGetIs
    <3> QED
      BY <1>13, <1>15, <2>1, <2>4, <2>7, <3>1 DEF MaySend
  <2>9. /\ MailShape' /\ MailOnce'
        /\ \A b, f \in Actors : \A m \in Names :
             Has(b, m, f)' <=>
               \/ Has(b, m, f) /\ ~(b = Node /\ m = n /\ f = VM(w))
               \/ Tracked(b, m, f) /\ b = VM(w) /\ m = d /\ f = Node
    BY <1>1, <1>11, <1>13, <1>16, <2>1, <2>8, OneForOne DEF Inv
  <2>10. OneToken' /\ ConfigKnown'
    <3>1. \A p \in ChainOfNode : \A u \in Uuids \cup {None} : TokenAt(p, u)' => TokenAt(p, u)
      BY <1>10, <1>14, <2>9, ActorsDiffer, VmActorsDiffer DEF TokenAt, Names, ChainNames
    <3> QED
      BY <1>14, <3>1, TokenStays DEF Inv
  <2>11. Keeps(w)
    <3>1. \A l \in Kinds : /\ l \in Names /\ Getter(l) \in Names
                           /\ Getter(l) \notin Kinds \cup {"null"}
      BY Getters DEF Kinds, Names
    <3>2. VM(w) \in Actors /\ VM(w) # Node
      BY VmActorsDiffer
    <3>3. \A l \in Kinds : Has(Node, Getter(l), VM(w))' <=> Has(Node, Getter(l), VM(w)) /\ l # k
      BY <1>1, <2>3, <2>9, <3>1, <3>2, Getters
    <3>4. ~Has(VM(w), "Init", VM(w))'
      BY <1>10, <2>6, <2>9, <3>2 DEF Names
    <3>5. /\ Has(VM(w), "null", Node)' <=> Has(VM(w), "null", Node) \/ d = "null"
          /\ \A l \in Kinds : Has(VM(w), l, Node)' <=> Has(VM(w), l, Node) \/ d = l
      BY <1>1, <1>18, <2>1, <2>9, <3>1, <3>2 DEF Tracked, Names
    <3>6. \A l \in Kinds : l # k => (AnswerTo(w, l)' <=> AnswerTo(w, l))
      BY <2>3, <3>5 DEF AnswerTo, Kinds
    <3>7. ~(Has(VM(w), "proxy", Node)' /\ Has(VM(w), "null", Node)')
      <4>1. OneReference(w)
        BY DEF Inv, VmInv
      <4>2. ~(Has(VM(w), "proxy", Node) /\ Has(VM(w), "null", Node))
        BY <4>1 DEF OneReference
      <4>3. k = "proxy" => ~Has(VM(w), "proxy", Node) /\ ~Has(VM(w), "null", Node)
        BY <2>6 DEF AnswerTo
      <4> QED
        BY <2>3, <3>5, <4>2, <4>3 DEF Kinds
    <3>8. OneReference(w)'
      <4>1. OneReference(w) /\ vm' = vm
        BY <1>14 DEF Inv, VmInv
      <4> QED
        BY <2>6, <3>3, <3>4, <3>6, <3>7, <4>1 DEF OneReference
    <3>9. \A b, f \in Actors : \A m \in Names \ RefNames : Has(b, m, f)' <=> Has(b, m, f)
      BY <1>10, <2>2, <1>8, <1>18, <2>9 DEF RefNames, Kinds
    <3> QED
      BY <1>14, <2>6, <3>8, <3>9, RefKeeps DEF Inv
  <2>12. ASSUME NEW u \in Uuids, u # w PROVE Keeps(u)
    <3>1. Untouched(u)
      BY <1>14, <2>9, <2>12, ActorsDiffer, VmActorsDiffer DEF Untouched
    <3> QED
      BY <3>1, UntouchedKeeps
  <2> QED
    BY <1>14, <2>9, <2>10, <2>11, <2>12 DEF Kept
<1> QED
  BY <1>17, <1>18

(* SystemAttributes with enough memory: a VM is added. *)
LEMMA NodeAddVmKeeps ==
  ASSUME Inv, NEW w \in Uuids, NodeAddVm(w)
  PROVE  Kept
<1>1. /\ mail[Node] # <<>> /\ Has(Node, "SystemAttributes", Monitor)
      /\ Head(mail[Node]).from = Monitor /\ Name(Head(mail[Node])) = "SystemAttributes"
  BY NodeHead DEF Receives, NodeAddVm, Inv
<1>2. vm[w].state = "none" /\ VmInv(w)
  BY DEF NodeAddVm, Inv
<1>3. /\ ~vm[w].ready /\ vm[w].refs = {} /\ proxy[w].state = "none" /\ ~Has(VM(w), "Init", VM(w))
      /\ \A p \in ChainOfVm : ~AttributesAt(w, p) /\ ~ConfigAt(w, p) /\ ~EndAt(w, p)
      /\ \A k \in Kinds : ~Has(Node, Getter(k), VM(w)) /\ ~AnswerTo(w, k)
  BY <1>2 DEF VmInv, VmAbsent, NotYet
<1> DEFINE x == Msg("Init", VM(w))
           y == Msg("Init", Proxy(w))
<1>4. /\ x \in Messages /\ Name(x) = "Init" /\ x.m = "Init" /\ x.from = VM(w)
      /\ y \in Messages /\ Name(y) = "Init" /\ y.m = "Init" /\ y.from = Proxy(w)
  <2>1. "Init" \in Names
    BY DEF Names
  <2> QED
    BY <2>1, MsgType, VmActorsDiffer
<1>5. mail' = Handled(Node, {<<VM(w), <<x>> >>, <<Proxy(w), <<y>> >>})
  <2>1. {<<a, <<Msg("Init", a)>> >> : a \in {VM(w), Proxy(w)}} = {<<VM(w), <<x>> >>, <<Proxy(w), <<y>> >>}
    OBVIOUS
  <2> QED
    BY <2>1, Zenon DEF NodeAddVm
<1> HIDE DEF x, y
<1>6. ~Tracked(Proxy(w), "Init", Proxy(w))
  BY VmActorsDiffer DEF Tracked, ChainNames
<1>7. MaySend(VM(w), x) /\ MaySend(Proxy(w), y)
  <2>1. MayGet(VM(w), x) /\ MayGet(Proxy(w), y)
    BY <1>4, MayGetIs
  <2> QED
    BY <1>3, <1>4, <1>6, <2>1, VmActorsDiffer DEF MaySend, Names
<1>8. /\ MailShape' /\ MailOnce'
      /\ \A b, f \in Actors : \A m \in Names :
           Has(b, m, f)' <=>
             \/ Has(b, m, f) /\ ~(b = Node /\ m = "SystemAttributes" /\ f = Monitor)
             \/ Tracked(b, m, f) /\ b = VM(w) /\ m = "Init" /\ f = VM(w)
             \/ Tracked(b, m, f) /\ b = Proxy(w) /\ m = "Init" /\ f = Proxy(w)
  BY <1>1, <1>4, <1>5, <1>7, TwoForOne, ActorsDiffer, VmActorsDiffer DEF Inv
<1>9. \A b, f \in Actors : \A m \in Names :
        Has(b, m, f)' <=>
          \/ Has(b, m, f) /\ ~(b = Node /\ m = "SystemAttributes" /\ f = Monitor)
          \/ b = VM(w) /\ m = "Init" /\ f = VM(w)
  BY <1>6, <1>8, VmActorsDiffer DEF Tracked
<1>10. /\ vm' = [vm EXCEPT ![w].state = "up"] /\ proxy' = [proxy EXCEPT ![w].state = "up"]
       /\ node' = [node EXCEPT !.vmActors = @ \cup {<<w, "vm">>, <<w, "proxy">>}]
       /\ timers' = timers /\ monitor' = monitor /\ helper' = helper /\ runs' = runs /\ count' = count
  BY DEF NodeAddVm
<1>11. /\ vm'[w] = [vm[w] EXCEPT !.state = "up"] /\ proxy'[w] = [proxy[w] EXCEPT !.state = "up"]
       /\ \A u \in Uuids : u # w => vm'[u] = vm[u] /\ proxy'[u] = proxy[u]
       /\ vm[w] \in VMState /\ proxy[w] \in ProxyState
       /\ node'.vmActors = node.vmActors \cup {<<w, "vm">>, <<w, "proxy">>} /\ node'.config = node.config
  BY <1>10 DEF Inv, Shape
<1>12. /\ vm'[w].state = "up" /\ vm'[w].ready = vm[w].ready /\ vm'[w].refs = vm[w].refs
       /\ vm'[w].config = vm[w].config /\ vm'[w].attributes = vm[w].attributes
       /\ vm'[w].provisioned = vm[w].provisioned /\ vm'[w] \in VMState
  BY <1>11 DEF VMState
<1>13. /\ proxy'[w].state = "up" /\ proxy'[w].ready = proxy[w].ready
       /\ proxy'[w].config = proxy[w].config /\ proxy'[w] \in ProxyState
  BY <1>11 DEF ProxyState
<1>14. Shape'
  <2>1. vm' \in [Uuids -> VMState]
    BY <1>10, <1>11, <1>12 DEF Inv, Shape
  <2>2. proxy' \in [Uuids -> ProxyState]
    BY <1>10, <1>11, <1>13 DEF Inv, Shape
  <2>3. node' \in [ready : BOOLEAN, refs : SUBSET {"instance", "status"}, timer : BOOLEAN,
                   config : BOOLEAN, vmActors : SUBSET (Uuids \X {"vm", "proxy"})]
    BY <1>10 DEF Inv, Shape
  <2> QED
    BY <1>10, <2>1, <2>2, <2>3 DEF Inv, Shape
<1>15. OneToken' /\ ConfigKnown'
  <2>1. \A p \in ChainOfNode : \A u \in Uuids \cup {None} :
          TokenAt(p, u)' => (p = "vm" /\ u = w) \/ (TokenAt(p, u) /\ ~(p = "attributes" /\ u = None))
    BY <1>9, <1>10, <1>11, ActorsDiffer, VmActorsDiffer DEF TokenAt, Names, ChainNames
  <2>2. TokenAt("attributes", None) /\ "attributes" \in ChainOfNode
    BY <1>1, TokenPlaces DEF ChainOfNode
  <2> QED
    BY <2>1, <2>2, TokenMoves DEF Inv
<1>16. Keeps(w)
  <2>1. /\ ~vm[w].provisioned /\ ~Has(Proxy(w), "SetConfig", VM(w)) /\ proxy[w].config = None
        /\ ~Has(Node, "RemoveVmActor", VM(w)) /\ ~Has(Node, "RemoveVmActor", Proxy(w))
        /\ ~Has(Status, "DeregisterVmActor", VM(w)) /\ ~Has(Status, "RegisterVmActor", VM(w))
        /\ ~Has(Node, "VmProvisioned", VM(w))
    BY <1>2, <1>3 DEF VmInv, ProxyAndVm, Reports, Served, ConfigAt, ChainOfVm
  <2>2. /\ ~Has(Proxy(w), "SetConfig", VM(w))'
        /\ ~Has(Node, "RemoveVmActor", VM(w))' /\ ~Has(Node, "RemoveVmActor", Proxy(w))'
        /\ ~Has(Status, "DeregisterVmActor", VM(w))' /\ ~Has(Status, "RegisterVmActor", VM(w))'
        /\ ~Has(Node, "VmProvisioned", VM(w))'
    BY <1>9, <2>1, ActorsDiffer, VmActorsDiffer DEF Names, ChainNames
  <2>3. \A p \in ChainOfVm : ~AttributesAt(w, p)' /\ ~ConfigAt(w, p)' /\ ~EndAt(w, p)'
    <3>1. \A p \in ChainOfVm : AttributesAt(w, p)' => AttributesAt(w, p)
      BY <1>9, <1>12, ActorsDiffer, VmActorsDiffer DEF AttributesAt, Names, ChainNames
    <3>2. \A p \in ChainOfVm : ConfigAt(w, p)' => ConfigAt(w, p)
      BY <1>9, <1>10, <1>12, ActorsDiffer, VmActorsDiffer DEF ConfigAt, Names, ChainNames
    <3>3. \A p \in ChainOfVm : EndAt(w, p)' => EndAt(w, p)
      BY <1>9, <1>10, ActorsDiffer, VmActorsDiffer DEF EndAt, Names, ChainNames
    <3> QED
      BY <1>3, <3>1, <3>2, <3>3
  <2>4. \A k \in Kinds : ~Has(Node, Getter(k), VM(w))' /\ ~AnswerTo(w, k)'
    <3>1. \A k \in Kinds : Getter(k) \in Names /\ k \in Names /\ Getter(k) # "Init" /\ k # "Init"
      BY Getters DEF Kinds, Names
    <3>2. \A k \in Kinds : Has(Node, Getter(k), VM(w))' => Has(Node, Getter(k), VM(w))
      BY <1>9, <3>1, ActorsDiffer, VmActorsDiffer
    <3>3. /\ \A k \in Kinds : Has(VM(w), k, Node)' => Has(VM(w), k, Node)
          /\ Has(VM(w), "null", Node)' => Has(VM(w), "null", Node)
      BY <1>9, <3>1, ActorsDiffer, VmActorsDiffer DEF Names
    <3> QED
      BY <1>3, <3>2, <3>3 DEF AnswerTo
  <2>5. OneReference(w)'
    <3>1. ~(Has(VM(w), "proxy", Node)' /\ Has(VM(w), "null", Node)')
      BY <2>4 DEF AnswerTo, Kinds
    <3> QED
      BY <1>3, <1>12, <2>4, <3>1 DEF OneReference
  <2>6. OneOfEach(w)'
    BY <2>3 DEF OneOfEach
  <2>7. ChainsBegin(w)' /\ VmAbsent(w)' /\ NotYet(w)'
    BY <1>12, <1>13, <2>3 DEF ChainsBegin, VmAbsent, NotYet
  <2>8. HelperShape(w)'
    BY <1>2, <1>10, <2>3 DEF VmInv, HelperShape, ChainOfVm
  <2>9. ProxyAndVm(w)'
    BY <1>2, <1>3, <1>12, <1>13, <2>1, <2>2, <2>3 DEF VmInv, ProxyAndVm
  <2>10. Reports(w)'
    BY <2>2 DEF Reports
  <2>11. InMap(w)'
    BY <1>11, <1>12, <1>13, <2>2 DEF InMap
  <2>12. ~Reg(w)
    BY <1>2, <2>1 DEF Reg, Served
  <2> QED
    BY <2>5, <2>6, <2>7, <2>8, <2>9, <2>10, <2>11, <2>12 DEF Keeps, VmInv
<1>17. ASSUME NEW u \in Uuids, u # w PROVE Keeps(u)
  <2>1. Untouched(u)
    <3>1. /\ \A k \in {"vm", "proxy"} : <<u, k>> \in node'.vmActors <=> <<u, k>> \in node.vmActors
      BY <1>11, <1>17
    <3>2. VM(u) # VM(w) /\ Proxy(u) # VM(w) /\ VM(u) \notin {Node, Monitor} /\ Proxy(u) \notin {Node, Monitor}
      BY <1>17, VmActorsDiffer
    <3>3. \A b, f \in Actors : \A m \in Names :
            (b \in {VM(u), Proxy(u)} \/ f \in {VM(u), Proxy(u)}) => (Has(b, m, f)' <=> Has(b, m, f))
      BY <1>9, <3>2
    <3> QED
      BY <1>10, <1>11, <1>17, <3>1, <3>3 DEF Untouched
  <2> QED
    BY <2>1, UntouchedKeeps
<1> QED
  BY <1>8, <1>14, <1>15, <1>16, <1>17 DEF Kept

-----------------------------------------------------------------------------
(* VMActor and VMActorHelper *)

LEMMA VMHead ==
  ASSUME MailShape, NEW w \in Uuids, mail[VM(w)] # <<>>, NEW h, h = Head(mail[VM(w)])
  PROVE  /\ Name(h) \in Names /\ h.from \in Actors /\ Has(VM(w), Name(h), h.from)
         /\ h.m \in {"Init", "Running", "NotRunning", "VmDestroy"} => h.from = VM(w) /\ Name(h) = h.m
         /\ h.m = "SetActor" => h.from = Node /\ Name(h) = h.data /\ h.data \in Kinds \cup {"null"}
         /\ h.m = "NoDeployInfo" => h.from = Instances /\ Name(h) = h.m
         /\ h.m = "DeployInfo" => h.from = Instances /\ Name(h) = h.m /\ h.data \in Versions
         /\ h.m = "SystemAttributes" => h.from = Monitor /\ Name(h) = h.m
         /\ h.m = "NoMoreTasks" => h.from = Proxy(w) /\ Name(h) = h.m
<1>1. VM(w) \in Actors /\ VM(w) \in VMs
  BY VmActorsDiffer
<1>2. /\ MayGet(VM(w), h) /\ h.from \in Actors
      /\ (Name(h) \in Names /\ Tracked(VM(w), Name(h), h.from)) => Has(VM(w), Name(h), h.from)
  BY <1>1, HeadHas
<1>3. \/ h.m \in {"Init", "Running", "NotRunning", "VmDestroy"} /\ h.from = VM(w)
      \/ h.m = "SetActor" /\ h.from = Node /\ h.data \in Kinds \cup {"null"}
      \/ h.m = "NoDeployInfo" /\ h.from = Instances
      \/ h.m = "DeployInfo" /\ h.from = Instances /\ h.data \in Versions
      \/ h.m \in {"SystemAttributes", "NotReadyJet"} /\ h.from = Monitor
      \/ h.m = "NoMoreTasks" /\ h.from = Proxy(w)
  BY <1>2, MayGetIs
<1>4. /\ h.m = "SetActor" => Name(h) = h.data
      /\ h.m # "SetActor" => Name(h) = h.m
  BY DEF Name
<1>5. Name(h) \in Names
  BY <1>3, <1>4 DEF Names, ChainNames, Kinds
<1>6. Has(VM(w), Name(h), h.from)
  BY <1>1, <1>2, <1>5 DEF Tracked
<1> QED
  BY <1>2, <1>3, <1>4, <1>5, <1>6

WorkNames == HopNames \cup {"Running", "NotRunning", "NoMoreTasks", "VmDestroy"}

(* A VMActor that knows all actors works. *)
LEMMA ReadyKeeps ==
  ASSUME NEW u \in Uuids, VmInv(u), CheckReady(vm[u]), vm[u].state = "up",
         vm'[u].state = "up", vm'[u].refs = vm[u].refs, vm'[u].provisioned = vm[u].provisioned,
         proxy'[u] = proxy[u], node'.vmActors = node.vmActors,
         HelperShape(u)', OneAttributesAt(u)', OneConfigAt(u)', OneEndAt(u)',
         (\E p \in ChainOfVm : EndAt(u, p)') <=> (\E p \in ChainOfVm : EndAt(u, p)),
         \A b, f \in Actors : \A m \in Names \ WorkNames : Has(b, m, f)' <=> Has(b, m, f)
  PROVE  Keeps(u)
<1>1. /\ VM(u) \in Actors /\ Proxy(u) \in Actors /\ Node \in Actors /\ Monitor \in Actors
      /\ Instances \in Actors /\ Status \in Actors
  BY ActorsDiffer, VmActorsDiffer
<1>2. \A k \in Kinds : Getter(k) \in Names \ WorkNames /\ k \in Names \ WorkNames
  BY DEF Kinds, Getter, Names, ChainNames, HopNames, WorkNames
<1>3. /\ Has(VM(u), "Init", VM(u))' <=> Has(VM(u), "Init", VM(u))
      /\ Has(VM(u), "proxy", Node)' <=> Has(VM(u), "proxy", Node)
      /\ Has(VM(u), "null", Node)' <=> Has(VM(u), "null", Node)
  BY <1>1 DEF Names, Kinds, HopNames, WorkNames
<1>4. \A k \in Kinds : /\ AnswerTo(u, k)' <=> AnswerTo(u, k)
                       /\ Has(Node, Getter(k), VM(u))' <=> Has(Node, Getter(k), VM(u))
  BY <1>1, <1>2, <1>3 DEF AnswerTo
<1>5. OneReference(u)'
  <2>1. OneReference(u) /\ vm'[u].refs = vm[u].refs
    BY DEF VmInv
  <2> QED
    BY <1>3, <1>4, <2>1, Zenon DEF OneReference
<1>6. OneOfEach(u)'
  BY EachIsOne
<1>7. ChainsBegin(u)' /\ VmAbsent(u)' /\ NotYet(u)'
  BY DEF VmInv, ChainsBegin, VmAbsent, NotYet, CheckReady
<1>8. ProxyAndVm(u)'
  <2>1. Has(Proxy(u), "SetConfig", VM(u))' <=> Has(Proxy(u), "SetConfig", VM(u))
    BY <1>1 DEF Names, HopNames, WorkNames
  <2> QED
    BY <2>1 DEF VmInv, ProxyAndVm, CheckReady
<1>9. Reports(u)'
  BY <1>1 DEF VmInv, Reports, Served, Names, ChainNames, HopNames, WorkNames
<1>10. InMap(u)'
  BY <1>1 DEF VmInv, InMap, Names, ChainNames, HopNames, WorkNames
<1>11. Reg(u) => Reg(u)'
  BY <1>1 DEF Reg, Served, Names, HopNames, WorkNames
<1> QED
  BY <1>5, <1>6, <1>7, <1>8, <1>9, <1>10, <1>11 DEF Keeps, VmInv

(* The NodeActor restarts a VMActor that failed: it begins anew. *)
LEMMA RestartKeeps ==
  ASSUME NEW u \in Uuids, VmInv(u), CheckReady(vm[u]), vm[u].state = "up", ~vm[u].provisioned,
         vm'[u] = [NoVM EXCEPT !.state = "up"], proxy'[u] = proxy[u], helper'[u] = helper[u],
         node'.vmActors = node.vmActors, "provision" \notin DOMAIN helper[u],
         \A p \in ChainOfVm : ~AttributesAt(u, p)' /\ ~ConfigAt(u, p)' /\ (EndAt(u, p)' <=> EndAt(u, p)),
         \A b, f \in Actors : \A m \in Names \ WorkNames :
           m # "Init" => (Has(b, m, f)' <=> Has(b, m, f))
  PROVE  Keeps(u)
<1>1. /\ VM(u) \in Actors /\ Proxy(u) \in Actors /\ Node \in Actors /\ Monitor \in Actors
      /\ Instances \in Actors /\ Status \in Actors
  BY ActorsDiffer, VmActorsDiffer
<1>2. /\ vm'[u].state = "up" /\ ~vm'[u].ready /\ vm'[u].refs = {} /\ vm'[u].config = None
      /\ ~vm'[u].attributes /\ ~vm'[u].provisioned
  BY DEF NoVM
<1>3. \A k \in Kinds : Getter(k) \in Names \ WorkNames /\ k \in Names \ WorkNames /\ k # "Init" /\ Getter(k) # "Init"
  BY DEF Kinds, Getter, Names, ChainNames, HopNames, WorkNames
<1>4. \A k \in Kinds : ~Has(Node, Getter(k), VM(u)) /\ ~AnswerTo(u, k)
  BY DEF VmInv, OneReference, CheckReady, Kinds
<1>5. \A k \in Kinds : ~Has(Node, Getter(k), VM(u))' /\ ~AnswerTo(u, k)'
  <2>1. Has(VM(u), "null", Node)' <=> Has(VM(u), "null", Node)
    BY <1>1 DEF Names, HopNames, WorkNames
  <2> QED
    BY <1>1, <1>3, <1>4, <2>1 DEF AnswerTo
<1>6. OneReference(u)'
  <2>1. ~(Has(VM(u), "proxy", Node)' /\ Has(VM(u), "null", Node)')
    BY <1>5 DEF AnswerTo, Kinds
  <2> QED
    BY <1>2, <1>5, <2>1 DEF OneReference
<1>7. OneOfEach(u)'
  BY DEF OneOfEach, VmInv
<1>8. ChainsBegin(u)' /\ VmAbsent(u)' /\ NotYet(u)'
  BY <1>2 DEF VmInv, ChainsBegin, VmAbsent, NotYet
<1>9. HelperShape(u)'
  BY DEF VmInv, HelperShape, ChainOfVm
<1>10. ProxyAndVm(u)'
  <2>1. Has(Proxy(u), "SetConfig", VM(u))' <=> Has(Proxy(u), "SetConfig", VM(u))
    BY <1>1 DEF Names, HopNames, WorkNames
  <2> QED
    BY <1>2, <2>1 DEF VmInv, ProxyAndVm
<1>11. Reports(u)'
  <2>1. Reports(u)
    BY DEF VmInv
  <2>2. /\ Has(Node, "RemoveVmActor", VM(u))' <=> Has(Node, "RemoveVmActor", VM(u))
        /\ Has(Node, "RemoveVmActor", Proxy(u))' <=> Has(Node, "RemoveVmActor", Proxy(u))
        /\ Has(Status, "DeregisterVmActor", VM(u))' <=> Has(Status, "DeregisterVmActor", VM(u))
        /\ Has(Status, "RegisterVmActor", VM(u))' <=> Has(Status, "RegisterVmActor", VM(u))
        /\ Has(Node, "VmProvisioned", VM(u))' <=> Has(Node, "VmProvisioned", VM(u))
    BY <1>1 DEF Names, ChainNames, HopNames, WorkNames
  <2> QED
    BY <2>1, <2>2 DEF Reports, Served
<1>12. InMap(u)'
  BY <1>1, <1>2 DEF VmInv, InMap, Names, ChainNames, HopNames, WorkNames
<1>13. ~Reg(u)
  BY DEF Reg, Served
<1> QED
  BY <1>6, <1>7, <1>8, <1>9, <1>10, <1>11, <1>12, <1>13 DEF Keeps, VmInv

(* A step of the actors of VM w *)
Own(w) == {VM(w), Proxy(w), Node, Monitor, Instances, Status}

Between(w, b, f) ==
  (b \in {VM(w), Proxy(w)} /\ f \in Own(w)) \/ (b \in Own(w) /\ f \in {VM(w), Proxy(w)})

OwnStep(w) ==
  /\ node' = node /\ monitor' = monitor
  /\ \A u \in Uuids : u # w => vm'[u] = vm[u] /\ proxy'[u] = proxy[u] /\ helper'[u] = helper[u]
  /\ \A tm \in DOMAIN timers' : tm \in DOMAIN timers \/ tm = AskTimer(w)
  /\ \A b, f \in Actors : \A m \in Names : ~Between(w, b, f) => (Has(b, m, f)' <=> Has(b, m, f))

LEMMA OthersKeep ==
  ASSUME Inv, NEW w \in Uuids, OwnStep(w)
  PROVE  \A u \in Uuids : u # w => Keeps(u)
<1> SUFFICES ASSUME NEW u \in Uuids, u # w PROVE Keeps(u)
  OBVIOUS
<1>1. {VM(u), Proxy(u)} \cap Own(w) = {}
  BY VmActorsDiffer DEF Own
<1>2. \A b, f \in Actors : (b \in {VM(u), Proxy(u)} \/ f \in {VM(u), Proxy(u)}) => ~Between(w, b, f)
  BY <1>1 DEF Between, Own
<1>3. AskTimer(u) # AskTimer(w)
  BY TimersDiffer
<1>4. Untouched(u)
  BY <1>2, <1>3 DEF Untouched, OwnStep
<1> QED
  BY <1>4, UntouchedKeeps

LEMMA OwnTokenStays ==
  ASSUME Inv, NEW w \in Uuids, OwnStep(w),
         TokenAt("vm", w)' => TokenAt("vm", w),
         Has(Node, "VmProvisioned", VM(w))' => Has(Node, "VmProvisioned", VM(w))
  PROVE  OneToken' /\ ConfigKnown'
<1>1. \A f \in {Node, Monitor, Master, Instances, Status} : \A b \in {Node, Monitor, Master, Instances, Status} :
        ~Between(w, b, f)
  BY VmActorsDiffer DEF Between
<1>2. \A u \in Uuids : u # w => ~Between(w, Node, VM(u))
  BY VmActorsDiffer DEF Between, Own
<1>3. \A f \in {Node, Monitor, Instances} : \A b \in {Node, Monitor, Instances} : \A m \in Names :
        Has(b, m, f)' <=> Has(b, m, f)
  BY <1>1, ActorsDiffer DEF OwnStep
<1>4. \A u \in Uuids : Has(Node, "VmProvisioned", VM(u))' => Has(Node, "VmProvisioned", VM(u))
  BY <1>2, ActorsDiffer, VmActorsDiffer DEF OwnStep, Names
<1>5. \A u \in Uuids : TokenAt("vm", u)' => TokenAt("vm", u)
  BY TokenPlaces DEF OwnStep, TokenAt
<1>6. \A tm \in {AddTimer, RetryTimer} : tm \in DOMAIN timers' => tm \in DOMAIN timers
  BY TimersDiffer DEF OwnStep
<1>7. ASSUME NEW p \in ChainOfNode, NEW u \in Uuids \cup {None}, TokenAt(p, u)' PROVE TokenAt(p, u)
  <2>1. CASE p = "vm"
    BY <1>5, <1>7, <2>1 DEF TokenAt
  <2>2. CASE p # "vm"
    BY <1>3, <1>4, <1>6, <1>7, <2>2 DEF TokenAt, OwnStep, Names, ChainNames
  <2> QED
    BY <2>1, <2>2
<1> QED
  BY <1>7, TokenStays DEF Inv, OwnStep

(* Four messages for one receiver *)
LEMMA FourForOne ==
  ASSUME MailShape, MailOnce, NEW a \in Actors, mail[a] # <<>>,
         NEW c, NEW x, MaySend(c, x), NEW y, MaySend(c, y), NEW z, MaySend(c, z), NEW t, MaySend(c, t),
         mail' = Handled(a, {<<c, <<x, y, z, t>> >>}),
         NEW m0, NEW f0, Name(Head(mail[a])) = m0, Head(mail[a]).from = f0,
         NEW f1, x.from = f1, y.from = f1, z.from = f1, t.from = f1,
         NEW m1, NEW m2, NEW m3, NEW m4, Name(x) = m1, Name(y) = m2, Name(z) = m3, Name(t) = m4,
         m1 # m2, m1 # m3, m1 # m4, m2 # m3, m2 # m4, m3 # m4
  PROVE  /\ MailShape' /\ MailOnce'
         /\ \A b, f \in Actors : \A m \in Names :
              Has(b, m, f)' <=>
                \/ Has(b, m, f) /\ ~(b = a /\ m = m0 /\ f = f0)
                \/ Tracked(b, m, f) /\ b = c /\ m \in {m1, m2, m3, m4} /\ f = f1
<1> DEFINE q == <<x, y, z, t>>
           sends == {<<c, q>>}
<1>1. /\ x \in Messages /\ y \in Messages /\ z \in Messages /\ t \in Messages
  BY DEF MaySend
<1>2. q \in Seq(Messages) /\ Len(q) = 4 /\ q[1] = x /\ q[2] = y /\ q[3] = z /\ q[4] = t
  BY <1>1
<1>3. mail' = Handled(a, sends)
  OBVIOUS
<1> HIDE DEF q
<1>4. \A i \in 1 .. Len(q) : i = 1 \/ i = 2 \/ i = 3 \/ i = 4
  BY <1>2
<1>5. 1 \in 1 .. Len(q) /\ 2 \in 1 .. Len(q) /\ 3 \in 1 .. Len(q) /\ 4 \in 1 .. Len(q)
  BY <1>2
<1>6. \A m, f : In(q, m, f) <=> m \in {m1, m2, m3, m4} /\ f = f1
  <2> SUFFICES ASSUME NEW m, NEW f PROVE In(q, m, f) <=> m \in {m1, m2, m3, m4} /\ f = f1
    OBVIOUS
  <2>1. In(q, m, f) => m \in {m1, m2, m3, m4} /\ f = f1
    BY <1>2, <1>4 DEF In
  <2>2. m \in {m1, m2, m3, m4} /\ f = f1 => In(q, m, f)
    BY <1>2, <1>5 DEF In
  <2> QED
    BY <2>1, <2>2
<1>7. \A i \in 1 .. Len(q) : MaySend(c, q[i])
  BY <1>2, <1>4
<1>8. \A i, j \in 1 .. Len(q) : Name(q[i]) = Name(q[j]) => i = j
  BY <1>2, <1>4
<1>9. Sendable(sends) /\ \A b, m, f : Sent(sends, b, m, f) <=> b = c /\ In(q, m, f)
  BY <1>2, <1>7, <1>8, SendSeveral
<1> HIDE DEF sends
<1>10. /\ MailShape' /\ MailOnce'
       /\ \A b, f \in Actors : \A m \in Names :
            Has(b, m, f)' <=> (Has(b, m, f) /\ ~Taken(a, b, m, f)) \/ (Tracked(b, m, f) /\ Sent(sends, b, m, f))
  BY <1>3, <1>9, HandledBoxes
<1>11. \A b, m, f : Taken(a, b, m, f) <=> b = a /\ m = m0 /\ f = f0
  BY DEF Taken
<1> HIDE DEF Taken
<1> QED
  BY <1>6, <1>9, <1>10, <1>11

(* Init: the VMActor asks for the actors it needs. *)
LEMMA VMInitKeeps ==
  ASSUME Inv, NEW w \in Uuids, VMInit(w)
  PROVE  Kept
<1> DEFINE a == VM(w)
<1>1. /\ mail[a] # <<>> /\ Head(mail[a]).from = a /\ Name(Head(mail[a])) = "Init" /\ Has(a, "Init", a)
  BY VMHead DEF Receives, VMInit, Inv
<1>2. /\ a \in Actors /\ a \in VMs /\ VmInv(w) /\ Node \in Actors /\ a # Node
  BY ActorsDiffer, VmActorsDiffer DEF Inv
<1>3. /\ vm[w].refs = {} /\ vm[w].state = "up"
      /\ \A k \in Kinds : ~Has(Node, Getter(k), a) /\ ~AnswerTo(w, k)
  BY <1>1, <1>2 DEF VmInv, OneReference, VmAbsent
<1>4. ~CheckReady(vm[w])
  BY <1>3 DEF CheckReady
<1>5. ~vm[w].ready /\ ~vm[w].provisioned
  BY <1>2, <1>4 DEF VmInv, ProxyAndVm, ChainsBegin, ConfigAt, ChainOfVm
<1>6. vm' = vm
  <2>1. vm \in [Uuids -> VMState] /\ vm[w] \in VMState
    BY DEF Inv, Shape
  <2>2. vm[w].ready = FALSE /\ vm[w].provisioned = FALSE
    BY <1>5, <2>1 DEF VMState
  <2>3. [vm[w] EXCEPT !.ready = FALSE] = vm[w]
    BY <2>1, <2>2 DEF VMState
  <2>4. [vm[w] EXCEPT !.provisioned = FALSE] = vm[w]
    BY <2>1, <2>2 DEF VMState
  <2>5. [vm EXCEPT ![w].ready = FALSE] = vm
    BY <2>1, <2>3
  <2>6. [vm EXCEPT ![w].provisioned = FALSE] = vm
    BY <2>1, <2>4
  <2>7. vm' = [[vm EXCEPT ![w].ready = FALSE] EXCEPT ![w].provisioned = FALSE]
    BY DEF VMInit
  <2> QED
    BY <2>5, <2>6, <2>7
<1> DEFINE x == Msg("GetInstanceActor", a)
           y == Msg("GetVmProxyActor", a)
           z == Msg("GetNodeMonitorActor", a)
           t == Msg("GetGlobalStatusActor", a)
<1>7. /\ x \in Messages /\ Name(x) = "GetInstanceActor" /\ x.m = "GetInstanceActor" /\ x.from = a
      /\ y \in Messages /\ Name(y) = "GetVmProxyActor" /\ y.m = "GetVmProxyActor" /\ y.from = a
      /\ z \in Messages /\ Name(z) = "GetNodeMonitorActor" /\ z.m = "GetNodeMonitorActor" /\ z.from = a
      /\ t \in Messages /\ Name(t) = "GetGlobalStatusActor" /\ t.m = "GetGlobalStatusActor" /\ t.from = a
  <2>1. {"GetInstanceActor", "GetVmProxyActor", "GetNodeMonitorActor", "GetGlobalStatusActor"} \subseteq Names
    BY DEF Names
  <2> QED
    BY <1>2, <2>1, MsgType
<1>8. mail' = Handled(a, {<<Node, <<x, y, z, t>> >>})
  BY DEF VMInit
<1> HIDE DEF a, x, y, z, t
<1>9. MayGet(Node, x) /\ MayGet(Node, y) /\ MayGet(Node, z) /\ MayGet(Node, t)
  BY <1>2, <1>7, MayGetIs
<1>10. /\ ~Has(Node, "GetInstanceActor", a) /\ ~Has(Node, "GetVmProxyActor", a)
       /\ ~Has(Node, "GetNodeMonitorActor", a) /\ ~Has(Node, "GetGlobalStatusActor", a)
  BY <1>3, Getters DEF Kinds
<1>11. MaySend(Node, x) /\ MaySend(Node, y) /\ MaySend(Node, z) /\ MaySend(Node, t)
  BY <1>2, <1>7, <1>9, <1>10 DEF MaySend, Names
<1>12. /\ MailShape' /\ MailOnce'
       /\ \A b, f \in Actors : \A m \in Names :
            Has(b, m, f)' <=>
              \/ Has(b, m, f) /\ ~(b = a /\ m = "Init" /\ f = a)
              \/ /\ Tracked(b, m, f) /\ b = Node /\ f = a
                 /\ m \in {"GetInstanceActor", "GetVmProxyActor", "GetNodeMonitorActor", "GetGlobalStatusActor"}
  BY <1>1, <1>2, <1>7, <1>8, <1>11, FourForOne DEF Inv
<1>13. /\ Shape' /\ node' = node /\ timers' = timers /\ monitor' = monitor /\ proxy' = proxy /\ helper' = helper
  BY <1>6 DEF Shape, VMInit, Inv
<1>14. OwnStep(w)
  BY <1>6, <1>12, <1>13 DEF OwnStep, Between, Own, a
<1>15. OneToken' /\ ConfigKnown'
  <2>1. Has(Node, "VmProvisioned", VM(w))' => Has(Node, "VmProvisioned", VM(w))
    BY <1>2, <1>12 DEF Names, a
  <2>2. TokenAt("vm", w)' => TokenAt("vm", w)
    BY <1>6 DEF TokenAt
  <2> QED
    BY <1>14, <2>1, <2>2, OwnTokenStays
<1>16. Keeps(w)
  <2>1. OneReference(w)'
    <3>1. \A k \in Kinds : k \in Names /\ k # "Init"
      BY DEF Kinds, Names
    <3>2. \A k \in Kinds : ~AnswerTo(w, k)'
      <4>1. \A k \in Kinds : Has(a, k, Node)' => Has(a, k, Node)
        BY <1>2, <1>12, <3>1
      <4>2. Has(a, "null", Node)' => Has(a, "null", Node)
        BY <1>2, <1>12 DEF Names
      <4> QED
        BY <1>3, <4>1, <4>2 DEF AnswerTo, a
    <3>3. ~(Has(a, "proxy", Node)' /\ Has(a, "null", Node)')
      BY <3>2 DEF AnswerTo, Kinds, a
    <3>4. ~Has(a, "Init", a)'
      BY <1>2, <1>12 DEF Names
    <3> QED
      BY <1>3, <1>6, <3>2, <3>3, <3>4 DEF OneReference, a
  <2>2. \A b, f \in Actors : \A m \in Names \ RefNames : Has(b, m, f)' <=> Has(b, m, f)
    BY <1>12 DEF RefNames
  <2> QED
    BY <1>2, <1>3, <1>6, <1>13, <2>1, <2>2, RefKeeps
<1> QED
  BY <1>12, <1>13, <1>14, <1>15, <1>16, OthersKeep DEF Kept

(* A VMActor gets to know an actor. *)
LEMMA LearnsKeeps ==
  ASSUME NEW u \in Uuids, VmInv(u), ~CheckReady(vm[u]), vm[u].state = "up",
         vm'[u].state = "up", vm'[u].provisioned = vm[u].provisioned, vm'[u].config = vm[u].config,
         vm'[u].ready => CheckReady(vm'[u]), proxy'[u] = proxy[u], helper'[u] = helper[u], node' = node,
         OneReference(u)', OneAttributesAt(u)', OneConfigAt(u)',
         ~CheckReady(vm'[u]) => \A p \in ChainOfVm : ~AttributesAt(u, p)' /\ ~ConfigAt(u, p)',
         \A b, f \in Actors : \A m \in Names \ (RefNames \cup HopNames) : Has(b, m, f)' <=> Has(b, m, f)
  PROVE  Keeps(u)
<1>1. /\ VM(u) \in Actors /\ Proxy(u) \in Actors /\ Node \in Actors /\ Monitor \in Actors
      /\ Instances \in Actors /\ Status \in Actors
  BY ActorsDiffer, VmActorsDiffer
<1>2. \A p \in ChainOfVm : EndAt(u, p)' <=> EndAt(u, p)
  BY <1>1 DEF EndAt, Names, RefNames, HopNames, Kinds
<1>3. OneOfEach(u)'
  BY <1>2, EachIsOne, EndStays
<1>4. ChainsBegin(u)' /\ VmAbsent(u)' /\ NotYet(u)'
  BY DEF VmInv, ChainsBegin, VmAbsent, NotYet, CheckReady
<1>5. HelperShape(u)'
  <2>1. \A p \in {"helper", "running", "not", "done"} : ConfigAt(u, p)' => ConfigAt(u, p)
    BY <1>1 DEF ConfigAt, Names, RefNames, HopNames, Kinds
  <2> QED
    BY <2>1 DEF VmInv, HelperShape
<1>6. ProxyAndVm(u)'
  <2>1. Has(Proxy(u), "SetConfig", VM(u))' <=> Has(Proxy(u), "SetConfig", VM(u))
    BY <1>1 DEF Names, RefNames, HopNames, Kinds
  <2> QED
    BY <1>2, <2>1 DEF VmInv, ProxyAndVm, CheckReady
<1>7. Reports(u)'
  BY <1>1 DEF VmInv, Reports, Served, Names, ChainNames, RefNames, HopNames, Kinds
<1>8. InMap(u)'
  BY <1>1 DEF VmInv, InMap, Names, ChainNames, RefNames, HopNames, Kinds
<1>9. Reg(u) => Reg(u)'
  BY <1>1 DEF Reg, Served, Names, RefNames, HopNames, Kinds
<1> QED
  BY <1>3, <1>4, <1>5, <1>6, <1>7, <1>8, <1>9 DEF Keeps, VmInv

(* SetInstanceActor ...: the last one starts the VMActor. *)
LEMMA VMSetActorKeeps ==
  ASSUME Inv, NEW w \in Uuids, VMSetActor(w)
  PROVE  Kept
<1> DEFINE a == VM(w)
<1>1. PICK d : d = Head(mail[VM(w)]).data
  OBVIOUS
<1>2. /\ mail[a] # <<>> /\ Head(mail[a]).from = Node /\ Name(Head(mail[a])) = d /\ Has(a, d, Node)
      /\ d \in Kinds \cup {"null"}
  BY <1>1, VMHead DEF Receives, VMSetActor, Inv
<1>3. /\ a \in Actors /\ a \in VMs /\ VmInv(w) /\ Node \in Actors /\ Monitor \in Actors /\ a # Node
      /\ Instances \in Actors /\ a # Monitor /\ a # Instances /\ Monitor # Node
  BY ActorsDiffer, VmActorsDiffer DEF Inv
<1>4. PICK k \in Kinds : d = k \/ (k = "proxy" /\ d = "null")
  BY <1>2 DEF Kinds
<1>5. AnswerTo(w, k)
  BY <1>2, <1>4 DEF AnswerTo
<1>6. k \notin vm[w].refs /\ vm[w].state = "up" /\ ~Has(a, "Init", a) /\ ~Has(Node, Getter(k), a)
  BY <1>3, <1>5 DEF VmInv, OneReference, VmAbsent
<1>7. ~CheckReady(vm[w])
  BY <1>6 DEF CheckReady, Kinds
<1>8. \A p \in ChainOfVm : ~AttributesAt(w, p) /\ ~ConfigAt(w, p)
  BY <1>3, <1>7 DEF VmInv, ChainsBegin
<1>9. PICK x0 : x0 = [vm[w] EXCEPT !.refs = @ \cup ({d} \ {"null"})]
  OBVIOUS
<1>10. PICK r \in BOOLEAN : r = CheckReady(x0)
  BY DEF CheckReady
<1>11. PICK y0 : y0 = IF r THEN [x0 EXCEPT !.ready = TRUE, !.asks = TRUE] ELSE x0
  OBVIOUS
<1>12. /\ vm' = [vm EXCEPT ![w] = y0]
       /\ timers' = IF r /\ ~vm[w].asks THEN With(timers, AskTimer(w)) ELSE timers
       /\ mail' = Handled(a, IF r THEN {<<Monitor, <<Msg("GetSystemAttributes", a)>> >>} ELSE {})
       /\ node' = node /\ monitor' = monitor /\ proxy' = proxy /\ helper' = helper /\ runs' = runs /\ count' = count
  BY <1>1, <1>9, <1>10, <1>11 DEF VMSetActor, Data, Scheduled, AskTimer
<1>13. vm[w] \in VMState /\ vm \in [Uuids -> VMState]
  BY DEF Inv, Shape
<1>14. /\ x0 \in VMState /\ x0.refs = vm[w].refs \cup ({d} \ {"null"})
       /\ x0.state = vm[w].state /\ x0.ready = vm[w].ready /\ x0.config = vm[w].config
       /\ x0.attributes = vm[w].attributes /\ x0.provisioned = vm[w].provisioned
  BY <1>2, <1>9, <1>13 DEF VMState, Kinds
<1>15. /\ y0 \in VMState /\ y0.refs = x0.refs /\ y0.state = "up" /\ y0.config = vm[w].config
       /\ y0.attributes = vm[w].attributes /\ y0.provisioned = vm[w].provisioned
       /\ y0.ready = (r \/ vm[w].ready)
  <2>1. CASE r
    <3>1. y0 = [x0 EXCEPT !.ready = TRUE, !.asks = TRUE]
      BY <1>11, <2>1
    <3> QED
      BY <1>6, <1>14, <2>1, <3>1 DEF VMState
  <2>2. CASE ~r
    <3>1. y0 = x0
      BY <1>11, <2>2
    <3>2. vm[w].ready \in BOOLEAN
      BY <1>13 DEF VMState
    <3> QED
      BY <1>6, <1>14, <2>2, <3>1, <3>2
  <2> QED
    BY <2>1, <2>2
<1>16. vm'[w] = y0 /\ vm' \in [Uuids -> VMState] /\ \A u \in Uuids : u # w => vm'[u] = vm[u]
  BY <1>12, <1>13, <1>15
<1>17. ~vm[w].ready
  BY <1>3, <1>7 DEF VmInv, ProxyAndVm
<1>18. CheckReady(vm'[w]) <=> r
  BY <1>10, <1>15, <1>16 DEF CheckReady
<1>19. AskTimer(w) \notin DOMAIN timers
  BY <1>8 DEF ConfigAt, ChainOfVm
<1>20. TimersShape' /\ \A tm \in DOMAIN timers' : tm \in DOMAIN timers \/ (r /\ tm = AskTimer(w))
  <2>1. TimersShape
    BY DEF Inv, Shape, TimersShape
  <2>2. CASE r /\ ~vm[w].asks
    BY <1>12, <1>19, <2>1, <2>2, TimerAdded, TimersDiffer
  <2>3. CASE ~(r /\ ~vm[w].asks)
    BY <1>12, <2>1, <2>3 DEF TimersShape
  <2> QED
    BY <2>2, <2>3
<1>21. Shape'
  BY <1>12, <1>16, <1>20 DEF Inv, Shape, TimersShape
<1>22. /\ MailShape' /\ MailOnce'
       /\ \A b, f \in Actors : \A m \in Names :
            Has(b, m, f)' <=>
              \/ Has(b, m, f) /\ ~(b = a /\ m = d /\ f = Node)
              \/ Tracked(b, m, f) /\ r /\ b = Monitor /\ m = "GetSystemAttributes" /\ f = a
  <2> HIDE DEF a
  <2>1. CASE ~r
    <3>1. mail' = Handled(a, {})
      BY <1>12, <2>1
    <3> QED
      BY <1>2, <1>3, <2>1, <3>1, NoneForOne DEF Inv
  <2>2. CASE r
    <3> DEFINE x == Msg("GetSystemAttributes", a)
    <3>1. "GetSystemAttributes" \in Names
      BY DEF Names, ChainNames
    <3>2. x \in Messages /\ Name(x) = "GetSystemAttributes" /\ x.m = "GetSystemAttributes" /\ x.from = a
      BY <1>3, <3>1, MsgType
    <3>3. mail' = Handled(a, {<<Monitor, <<x>> >>})
      BY <1>12, <2>2
    <3> HIDE DEF x
    <3>4. ~Has(Monitor, "GetSystemAttributes", a)
      BY <1>8 DEF AttributesAt, ChainOfVm, a
    <3>5. MayGet(Monitor, x)
      BY <1>3, <3>2, MayGetIs
    <3>6. MaySend(Monitor, x)
      BY <1>3, <3>1, <3>2, <3>4, <3>5 DEF MaySend
    <3>7. /\ MailShape' /\ MailOnce'
          /\ \A b, f \in Actors : \A m \in Names :
               Has(b, m, f)' <=>
                 \/ Has(b, m, f) /\ ~(b = a /\ m = d /\ f = Node)
                 \/ Tracked(b, m, f) /\ b = Monitor /\ m = "GetSystemAttributes" /\ f = a
      BY <1>2, <1>3, <3>2, <3>3, <3>6, OneForOne DEF Inv
    <3> QED
      BY <2>2, <3>7
  <2> QED
    BY <2>1, <2>2
<1>23. OwnStep(w)
  BY <1>12, <1>16, <1>20, <1>22 DEF OwnStep, Between, Own
<1>24. OneToken' /\ ConfigKnown'
  <2>1. Has(Node, "VmProvisioned", VM(w))' => Has(Node, "VmProvisioned", VM(w))
    BY <1>3, <1>22 DEF Names
  <2>2. TokenAt("vm", w)' => TokenAt("vm", w)
    BY <1>6, <1>15, <1>16, TokenPlaces DEF TokenAt
  <2> QED
    BY <1>23, <2>1, <2>2, OwnTokenStays
<1>25. Keeps(w)
  <2>1. \A p \in ChainOfVm : AttributesAt(w, p)' => r /\ p = "asked"
    <3>1. \A p \in ChainOfVm : AttributesAt(w, p)' => (r /\ p = "asked") \/ AttributesAt(w, p)
      BY <1>3, <1>15, <1>16, <1>22 DEF AttributesAt, Names, ChainNames
    <3> QED
      BY <1>8, <3>1
  <2>2. \A p \in ChainOfVm : ConfigAt(w, p)' => r /\ p = "timer"
    <3>1. \A p \in ChainOfVm : ConfigAt(w, p)' => (r /\ p = "timer") \/ ConfigAt(w, p)
      BY <1>3, <1>12, <1>15, <1>16, <1>20, <1>22 DEF ConfigAt, Names, ChainNames
    <3> QED
      BY <1>8, <3>1
  <2>3. OneAttributesAt(w)' /\ OneConfigAt(w)'
    BY <2>1, <2>2 DEF OneAttributesAt, OneConfigAt
  <2>4. OneReference(w)'
    <3>1. \A l \in Kinds : l \in Names /\ Getter(l) \in Names /\ l # "GetSystemAttributes"
      BY Getters DEF Kinds, Names
    <3>2. ~Has(a, "Init", a)'
      BY <1>3, <1>6, <1>22 DEF Names
    <3>3. \A l \in Kinds : Has(Node, Getter(l), a)' => Has(Node, Getter(l), a)
      BY <1>3, <1>22, <3>1
    <3>4. /\ \A l \in Kinds : Has(a, l, Node)' <=> Has(a, l, Node) /\ l # d
          /\ Has(a, "null", Node)' <=> Has(a, "null", Node) /\ d # "null"
      BY <1>3, <1>22, <3>1 DEF Names
    <3>5. OneReference(w)
      BY <1>3 DEF VmInv
    <3>6. /\ ~AnswerTo(w, k)' /\ \A l \in Kinds : AnswerTo(w, l)' => AnswerTo(w, l)
      <4>1. ~(Has(a, "proxy", Node) /\ Has(a, "null", Node))
        BY <3>5 DEF OneReference
      <4>2. "proxy" \in Kinds
        BY DEF Kinds
      <4>3. ~AnswerTo(w, k)'
        BY <1>2, <1>4, <3>4, <4>1, <4>2 DEF AnswerTo
      <4>4. \A l \in Kinds : AnswerTo(w, l)' => AnswerTo(w, l)
        BY <3>4 DEF AnswerTo
      <4> QED
        BY <4>3, <4>4
    <3>7. \A l \in Kinds : Has(Node, Getter(l), a)' \/ AnswerTo(w, l)' => l \notin vm'[w].refs
      <4>1. \A l \in Kinds : Has(Node, Getter(l), a)' \/ AnswerTo(w, l)' => l \notin vm[w].refs /\ l # k
        BY <1>6, <3>3, <3>5, <3>6 DEF OneReference
      <4>2. \A l \in Kinds : l \in vm'[w].refs => l \in vm[w].refs \/ l = k
        BY <1>4, <1>14, <1>15, <1>16 DEF Kinds
      <4> QED
        BY <4>1, <4>2
    <3>8. \A l \in Kinds : Has(Node, Getter(l), a)' => ~AnswerTo(w, l)'
      BY <3>3, <3>5, <3>6 DEF OneReference
    <3>9. ~(Has(a, "proxy", Node)' /\ Has(a, "null", Node)')
      BY <3>4, <3>5 DEF OneReference, Kinds
    <3> QED
      BY <3>2, <3>7, <3>8, <3>9 DEF OneReference
  <2>5. \A b, f \in Actors : \A m \in Names \ (RefNames \cup HopNames) : Has(b, m, f)' <=> Has(b, m, f)
    BY <1>2, <1>22 DEF RefNames, HopNames
  <2>6. vm'[w].ready => CheckReady(vm'[w])
    BY <1>15, <1>16, <1>17, <1>18
  <2> QED
    BY <1>3, <1>6, <1>7, <1>12, <1>15, <1>16, <1>18, <2>1, <2>2, <2>3, <2>4, <2>5, <2>6, LearnsKeeps
<1> QED
  BY <1>21, <1>22, <1>23, <1>24, <1>25, OthersKeep DEF Kept

(* A VMActor that is ready takes n from its mailbox and prepares its VM. *)
LEMMA PrepareKeeps ==
  ASSUME Inv, NEW w \in Uuids, NEW n \in {"DeployInfo", "SystemAttributes", "NotRunning"},
         NEW f0 \in Actors, mail[VM(w)] # <<>>, Name(Head(mail[VM(w)])) = n,
         Head(mail[VM(w)]).from = f0, Has(VM(w), n, f0), vm[w].state = "up", CheckReady(vm[w]),
         f0 \in {Instances, Monitor, VM(w)},
         NEW x0 \in VMState, x0.state = "up", x0.refs = vm[w].refs, x0.provisioned = vm[w].provisioned,
         x0.attributes = vm[w].attributes \/ (n = "SystemAttributes" /\ f0 = Monitor /\ x0.attributes),
         vm[w].config # None => x0.config # None,
         x0.config # None => \/ n = "DeployInfo" /\ f0 = Instances
                             \/ n = "NotRunning" /\ f0 = VM(w)
                             \/ ConfigAt(w, "waits"),
         Prepare(w, x0), UNCHANGED <<timers, node, monitor, proxy, runs, count>>
  PROVE  Kept
<1> DEFINE a == VM(w)
<1>1. /\ a \in Actors /\ a \in VMs /\ VmInv(w) /\ Node \in Actors /\ Monitor \in Actors /\ a # Node
      /\ Instances \in Actors /\ Proxy(w) \in Actors /\ a # Monitor /\ a # Instances /\ Monitor # Node
      /\ a # Proxy(w) /\ n \in Names /\ n # "Init"
  BY ActorsDiffer, VmActorsDiffer DEF Inv, Names, ChainNames
<1>2. OneAttributesAt(w) /\ OneConfigAt(w) /\ OneEndAt(w) /\ HelperShape(w)
  BY <1>1, EachIsOne DEF VmInv
<1>3. /\ node' = node /\ monitor' = monitor /\ timers' = timers /\ proxy' = proxy /\ runs' = runs /\ count' = count
  OBVIOUS
<1>4. /\ Has(a, "DeployInfo", Instances) => ConfigAt(w, "deploy")
      /\ Has(a, "NotRunning", a) => ConfigAt(w, "not")
      /\ Has(a, "SystemAttributes", Monitor) => AttributesAt(w, "answered")
  BY DEF ConfigAt, AttributesAt
<1>5. ASSUME x0.config # None
      PROVE  \E p0 \in {"deploy", "not", "waits"} :
               /\ ConfigAt(w, p0)
               /\ p0 = "deploy" => n = "DeployInfo" /\ f0 = Instances
               /\ p0 = "not" => n = "NotRunning" /\ f0 = a
  BY <1>4, <1>5
<1>6. ASSUME vm' = [vm EXCEPT ![w] = x0], mail' = Handled(a, {}),
             \/ helper' = helper
             \/ /\ helper' = [helper EXCEPT ![w] = With(@, "provision")]
                /\ x0.config # None /\ x0.attributes
      PROVE  Kept
  <2>1. vm'[w] = x0 /\ vm' \in [Uuids -> VMState] /\ \A u \in Uuids : u # w => vm'[u] = vm[u]
    BY <1>6 DEF Inv, Shape
  <2>2. /\ DOMAIN helper' = Uuids /\ \A u \in Uuids : u # w => helper'[u] = helper[u]
        /\ \/ helper'[w] = helper[w]
           \/ helper'[w] = With(helper[w], "provision") /\ x0.config # None /\ x0.attributes
    BY <1>6 DEF Inv, Shape
  <2>3. Shape'
    BY <1>3, <2>1, <2>2 DEF Inv, Shape
  <2>4. /\ MailShape' /\ MailOnce'
        /\ \A b, f \in Actors : \A m \in Names :
             Has(b, m, f)' <=> Has(b, m, f) /\ ~(b = a /\ m = n /\ f = f0)
    <3> HIDE DEF a
    <3> QED
      BY <1>1, <1>6, NoneForOne DEF Inv, a
  <2>5. OwnStep(w)
    BY <1>3, <2>1, <2>2, <2>4 DEF OwnStep, Between, Own
  <2>6. OneToken' /\ ConfigKnown'
    <3>1. Has(Node, "VmProvisioned", VM(w))' => Has(Node, "VmProvisioned", VM(w))
      BY <1>1, <2>4 DEF Names
    <3>2. TokenAt("vm", w)' => TokenAt("vm", w)
      BY <2>1, TokenPlaces DEF TokenAt
    <3> QED
      BY <2>5, <3>1, <3>2, OwnTokenStays
  <2>7. /\ \A x \in DOMAIN helper'[w] : x \in DOMAIN helper[w] \/ (x = "provision" /\ x0.config # None /\ x0.attributes)
        /\ \A x \in DOMAIN helper[w] : x \in DOMAIN helper'[w]
        /\ \A x \in DOMAIN helper'[w] : helper'[w][x] = 1
    <3>1. CASE helper'[w] = helper[w]
      BY <1>2, <3>1 DEF HelperShape
    <3>2. CASE helper'[w] = With(helper[w], "provision") /\ x0.config # None /\ x0.attributes
      <4>1. PICK p0 \in {"deploy", "not", "waits"} : ConfigAt(w, p0)
        BY <1>5, <3>2
      <4>2. ~ConfigAt(w, "helper")
        BY <1>2, <4>1 DEF OneConfigAt, ChainOfVm
      <4>3. "provision" \notin DOMAIN helper[w]
        BY <4>2 DEF ConfigAt
      <4>4. Single(helper[w])
        BY <1>2 DEF HelperShape, Single
      <4>5. PICK B : B = helper[w]
        OBVIOUS
      <4>6. DOMAIN With(B, "provision") = DOMAIN B \cup {"provision"} /\ Single(With(B, "provision"))
        BY <4>3, <4>4, <4>5, WithOne
      <4> QED
        BY <3>2, <4>5, <4>6 DEF Single
    <3> QED
      BY <2>2, <3>1, <3>2
  <2>8. OneAttributesAt(w)'
    <3>1. CASE x0.attributes = vm[w].attributes
      <4>1. \A p \in ChainOfVm : AttributesAt(w, p)' => AttributesAt(w, p)
        BY <1>1, <2>1, <2>4, <3>1 DEF AttributesAt, Names, ChainNames
      <4> QED
        BY <1>1, <4>1, AttributesStay
    <3>2. CASE n = "SystemAttributes" /\ f0 = Monitor /\ x0.attributes
      <4>1. \A p \in ChainOfVm : AttributesAt(w, p)' => p = "known" \/ (AttributesAt(w, p) /\ p # "answered")
        BY <1>1, <2>1, <2>4, <3>2 DEF AttributesAt, Names, ChainNames
      <4>2. AttributesAt(w, "answered") /\ "answered" \in ChainOfVm
        BY <1>4, <3>2 DEF ChainOfVm
      <4> QED
        BY <1>1, <4>1, <4>2, AttributesMove
    <3> QED
      BY <3>1, <3>2
  <2>9. OneConfigAt(w)'
    <3>1. \A p \in ChainOfVm : p \notin {"waits", "helper"} => (ConfigAt(w, p)' => ConfigAt(w, p))
      BY <1>1, <1>3, <2>1, <2>4 DEF ConfigAt, Names, ChainNames
    <3>2. ConfigAt(w, "waits")' => x0.config # None /\ ~x0.attributes
      BY <2>1 DEF ConfigAt
    <3>3. ConfigAt(w, "helper")' => ConfigAt(w, "helper") \/ (x0.config # None /\ x0.attributes)
      BY <2>7 DEF ConfigAt
    <3>4. CASE x0.config = None
      <4>1. \A p \in ChainOfVm : ConfigAt(w, p)' => ConfigAt(w, p)
        BY <3>1, <3>2, <3>3, <3>4
      <4> QED
        BY <1>1, <4>1, ConfigStays
    <3>5. CASE x0.config # None
      <4>1. PICK p0 \in {"deploy", "not", "waits"} :
              /\ ConfigAt(w, p0)
              /\ p0 = "deploy" => n = "DeployInfo" /\ f0 = Instances
              /\ p0 = "not" => n = "NotRunning" /\ f0 = a
        BY <1>5, <3>5
      <4>2. p0 \in ChainOfVm /\ p0 # "helper"
        BY DEF ChainOfVm
      <4>3. p0 \in {"deploy", "not"} => ~ConfigAt(w, p0)'
        BY <1>1, <2>4, <4>1 DEF ConfigAt, Names, ChainNames
      <4>4. CASE x0.attributes
        <5>1. \A p \in ChainOfVm : ConfigAt(w, p)' => p = "helper" \/ (ConfigAt(w, p) /\ p # p0)
          BY <3>1, <3>2, <4>3, <4>4
        <5> QED
          BY <1>1, <4>1, <4>2, <5>1, ConfigMoves
      <4>5. CASE ~x0.attributes
        <5>1. \A p \in ChainOfVm : ConfigAt(w, p)' => p = "waits" \/ (ConfigAt(w, p) /\ p # p0)
          BY <3>1, <3>3, <4>2, <4>3, <4>5
        <5> QED
          BY <1>1, <4>1, <4>2, <5>1, ConfigMoves
      <4> QED
        BY <4>4, <4>5
    <3> QED
      BY <3>4, <3>5
  <2>10. \A p \in ChainOfVm : EndAt(w, p)' <=> EndAt(w, p)
    BY <1>1, <2>4, <2>7 DEF EndAt, Names
  <2>11. HelperShape(w)'
    <3>1. \A p \in {"running", "not", "done"} : ConfigAt(w, p)' => ConfigAt(w, p)
      BY <1>1, <2>1, <2>4 DEF ConfigAt, Names
    <3>2. ConfigAt(w, "helper")' => ConfigAt(w, "helper") \/ x0.config # None
      BY <2>7 DEF ConfigAt
    <3> QED
      BY <1>2, <2>1, <2>7, <3>1, <3>2 DEF HelperShape
  <2>12. \A b, f \in Actors : \A m \in Names \ WorkNames : Has(b, m, f)' <=> Has(b, m, f)
    BY <2>4 DEF WorkNames, HopNames
  <2>13. OneEndAt(w)'
    BY <1>1, <2>10, EndStays
  <2>14. Keeps(w)
    BY <1>1, <1>3, <2>1, <2>8, <2>9, <2>10, <2>11, <2>12, <2>13, ReadyKeeps
  <2> QED
    BY <2>3, <2>4, <2>5, <2>6, <2>14, OthersKeep DEF Kept
<1>7. ASSUME x0.attributes, x0.config # None, vm' = [vm EXCEPT ![w] = [NoVM EXCEPT !.state = "up"]],
             mail' = Handled(a, {<<a, <<Msg("Init", a)>> >>}), helper' = helper
      PROVE  Kept
  <2>1. PICK y0 : y0 = [NoVM EXCEPT !.state = "up"]
    OBVIOUS
  <2>2. /\ y0 \in VMState /\ y0.state = "up" /\ ~y0.provisioned /\ ~y0.attributes /\ y0.config = None
    BY <2>1, LifecycleAssumption DEF NoVM, VMState
  <2>3. vm'[w] = y0 /\ vm' \in [Uuids -> VMState] /\ \A u \in Uuids : u # w => vm'[u] = vm[u]
    BY <1>7, <2>1, <2>2 DEF Inv, Shape
  <2>4. Shape'
    BY <1>3, <1>7, <2>3 DEF Inv, Shape
  <2> DEFINE x == Msg("Init", a)
  <2>5. "Init" \in Names
    BY DEF Names
  <2>6. x \in Messages /\ Name(x) = "Init" /\ x.m = "Init" /\ x.from = a
    BY <1>1, <2>5, MsgType
  <2>7. mail' = Handled(a, {<<a, <<x>> >>})
    BY <1>7
  <2>8. ~Has(a, "Init", a)
    BY <1>1 DEF VmInv, OneReference, CheckReady
  <2> HIDE DEF x, a
  <2>9. MayGet(a, x)
    BY <2>6, MayGetIs DEF a
  <2>10. MaySend(a, x)
    BY <1>1, <2>5, <2>6, <2>8, <2>9 DEF MaySend
  <2>11. mail[a] # <<>> /\ Name(Head(mail[a])) = n /\ Head(mail[a]).from = f0
    BY DEF a
  <2>12. /\ MailShape' /\ MailOnce'
         /\ \A b, f \in Actors : \A m \in Names :
              Has(b, m, f)' <=>
                \/ Has(b, m, f) /\ ~(b = a /\ m = n /\ f = f0)
                \/ Tracked(b, m, f) /\ b = a /\ m = "Init" /\ f = a
    BY <1>1, <2>6, <2>7, <2>10, <2>11, OneForOne DEF Inv
  <2>13. OwnStep(w)
    BY <1>3, <1>7, <2>3, <2>12 DEF OwnStep, Between, Own, a
  <2>14. PICK p0 \in {"deploy", "not", "waits"} :
           /\ ConfigAt(w, p0)
           /\ p0 = "deploy" => n = "DeployInfo" /\ f0 = Instances
           /\ p0 = "not" => n = "NotRunning" /\ f0 = a
    BY <1>5, <1>7
  <2>15. ~vm[w].provisioned /\ "provision" \notin DOMAIN helper[w]
    <3>1. ~ConfigAt(w, "done") /\ ~ConfigAt(w, "helper")
      BY <1>2, <2>14 DEF OneConfigAt, ChainOfVm
    <3> QED
      BY <3>1 DEF ConfigAt
  <2>16. OneToken' /\ ConfigKnown'
    <3>1. Has(Node, "VmProvisioned", VM(w))' => Has(Node, "VmProvisioned", VM(w))
      BY <1>1, <2>12 DEF Names, a
    <3>2. TokenAt("vm", w)' => TokenAt("vm", w)
      BY <2>15, TokenPlaces DEF TokenAt
    <3> QED
      BY <2>13, <3>1, <3>2, OwnTokenStays
  <2>17. \A p \in ChainOfVm : ~ConfigAt(w, p)'
    <3>1. \A p \in ChainOfVm : p \notin {"waits", "done"} => (ConfigAt(w, p)' => ConfigAt(w, p))
      BY <1>1, <1>3, <1>7, <2>12 DEF ConfigAt, Names, ChainNames, a
    <3>2. ~ConfigAt(w, "waits")' /\ ~ConfigAt(w, "done")'
      BY <2>2, <2>3 DEF ConfigAt
    <3>3. p0 \in {"deploy", "not"} => ~ConfigAt(w, p0)'
      BY <1>1, <2>12, <2>14 DEF ConfigAt, Names, ChainNames, a
    <3> QED
      BY <1>2, <2>14, <3>1, <3>2, <3>3 DEF OneConfigAt, ChainOfVm
  <2>18. \A p \in ChainOfVm : ~AttributesAt(w, p)'
    <3>1. PICK p1 \in {"known", "answered"} :
            AttributesAt(w, p1) /\ (p1 = "answered" => n = "SystemAttributes" /\ f0 = Monitor)
      <4>1. vm[w].attributes => AttributesAt(w, "known")
        BY DEF AttributesAt
      <4> QED
        BY <1>4, <1>7, <4>1 DEF a
    <3>2. \A p \in ChainOfVm : AttributesAt(w, p)' => AttributesAt(w, p) /\ p # p1
      BY <1>1, <2>2, <2>3, <2>12, <3>1 DEF AttributesAt, Names, ChainNames, a
    <3> QED
      BY <1>2, <3>1, <3>2 DEF OneAttributesAt, ChainOfVm
  <2>19. \A p \in ChainOfVm : EndAt(w, p)' <=> EndAt(w, p)
    BY <1>1, <1>7, <2>12 DEF EndAt, Names, a
  <2>20. \A b, f \in Actors : \A m \in Names \ WorkNames :
           m # "Init" => (Has(b, m, f)' <=> Has(b, m, f))
    BY <2>12 DEF WorkNames, HopNames
  <2>21. Keeps(w)
    BY <1>1, <1>3, <1>7, <2>1, <2>3, <2>15, <2>17, <2>18, <2>19, <2>20, RestartKeeps
  <2> QED
    BY <2>4, <2>12, <2>13, <2>16, <2>21, OthersKeep DEF Kept
<1> HIDE DEF a
<1>8. CASE x0.attributes /\ monitor.vagrant /\ x0.config # None
  BY <1>6, <1>7, <1>8 DEF Prepare, a
<1>9. CASE ~(x0.attributes /\ monitor.vagrant /\ x0.config # None)
  BY <1>6, <1>9 DEF Prepare, a
<1> QED
  BY <1>8, <1>9

LEMMA ReadyIsUp ==
  ASSUME Inv, NEW w \in Uuids, vm[w].ready
  PROVE  /\ CheckReady(vm[w]) /\ vm[w].state = "up" /\ VmInv(w) /\ vm[w] \in VMState
         /\ OneAttributesAt(w) /\ OneConfigAt(w) /\ OneEndAt(w)
  BY EachIsOne DEF Inv, Shape, VmInv, ProxyAndVm, VmAbsent

LEMMA VMDeployInfoKeeps ==
  ASSUME Inv, NEW w \in Uuids, VMDeployInfo(w)
  PROVE  Kept
<1>1. PICK d : d = Head(mail[VM(w)]).data
  OBVIOUS
<1>2. /\ mail[VM(w)] # <<>> /\ Head(mail[VM(w)]).from = Instances
      /\ Name(Head(mail[VM(w)])) = "DeployInfo" /\ Has(VM(w), "DeployInfo", Instances) /\ d \in Versions
  BY <1>1, VMHead DEF Receives, VMDeployInfo, Inv
<1>3. CheckReady(vm[w]) /\ vm[w].state = "up" /\ vm[w] \in VMState
  BY ReadyIsUp DEF VMDeployInfo
<1>4. PICK x0 : x0 = [vm[w] EXCEPT !.asks = FALSE, !.config = d]
  OBVIOUS
<1>5. /\ x0 \in VMState /\ x0.state = "up" /\ x0.refs = vm[w].refs /\ x0.provisioned = vm[w].provisioned
      /\ x0.attributes = vm[w].attributes /\ x0.config = d
  BY <1>2, <1>3, <1>4 DEF VMState
<1>6. x0.config # None
  BY <1>2, <1>5, LifecycleAssumption
<1>7. Prepare(w, x0) /\ UNCHANGED <<timers, node, monitor, proxy, runs, count>>
  BY <1>1, <1>4 DEF VMDeployInfo, Data
<1> QED
  BY <1>2, <1>3, <1>5, <1>6, <1>7, PrepareKeeps, ActorsDiffer

LEMMA VMSystemAttributesKeeps ==
  ASSUME Inv, NEW w \in Uuids, VMSystemAttributes(w)
  PROVE  Kept
<1>1. /\ mail[VM(w)] # <<>> /\ Head(mail[VM(w)]).from = Monitor
      /\ Name(Head(mail[VM(w)])) = "SystemAttributes" /\ Has(VM(w), "SystemAttributes", Monitor)
  BY VMHead DEF Receives, VMSystemAttributes, Inv
<1>2. CheckReady(vm[w]) /\ vm[w].state = "up" /\ vm[w] \in VMState /\ OneAttributesAt(w)
  BY ReadyIsUp DEF VMSystemAttributes
<1>3. PICK x0 : x0 = [vm[w] EXCEPT !.attributes = TRUE]
  OBVIOUS
<1>4. /\ x0 \in VMState /\ x0.state = "up" /\ x0.refs = vm[w].refs /\ x0.provisioned = vm[w].provisioned
      /\ x0.attributes /\ x0.config = vm[w].config
  BY <1>2, <1>3 DEF VMState
<1>5. ~vm[w].attributes
  <2>1. AttributesAt(w, "answered")
    BY <1>1 DEF AttributesAt
  <2>2. ~AttributesAt(w, "known")
    BY <1>2, <2>1 DEF OneAttributesAt, ChainOfVm
  <2> QED
    BY <2>2 DEF AttributesAt
<1>6. x0.config # None => ConfigAt(w, "waits")
  BY <1>4, <1>5 DEF ConfigAt
<1>7. Prepare(w, x0) /\ UNCHANGED <<timers, node, monitor, proxy, runs, count>>
  BY <1>3 DEF VMSystemAttributes
<1> QED
  BY <1>1, <1>2, <1>4, <1>6, <1>7, PrepareKeeps, ActorsDiffer

LEMMA VMNotRunningKeeps ==
  ASSUME Inv, NEW w \in Uuids, VMNotRunning(w)
  PROVE  Kept
<1>1. /\ mail[VM(w)] # <<>> /\ Head(mail[VM(w)]).from = VM(w)
      /\ Name(Head(mail[VM(w)])) = "NotRunning" /\ Has(VM(w), "NotRunning", VM(w))
  BY VMHead DEF Receives, VMNotRunning, Inv
<1>2. CheckReady(vm[w]) /\ vm[w].state = "up" /\ vm[w] \in VMState /\ OneConfigAt(w)
  BY ReadyIsUp DEF VMNotRunning
<1>3. vm[w].provisioned = FALSE
  <2>1. ConfigAt(w, "not")
    BY <1>1 DEF ConfigAt
  <2>2. ~ConfigAt(w, "done")
    BY <1>2, <2>1 DEF OneConfigAt, ChainOfVm
  <2>3. ~vm[w].provisioned
    BY <2>2 DEF ConfigAt
  <2> QED
    BY <1>2, <2>3 DEF VMState
<1>4. PICK x0 : x0 = [vm[w] EXCEPT !.provisioned = FALSE]
  OBVIOUS
<1>5. /\ x0 \in VMState /\ x0.state = "up" /\ x0.refs = vm[w].refs /\ x0.provisioned = vm[w].provisioned
      /\ x0.attributes = vm[w].attributes /\ x0.config = vm[w].config
  BY <1>2, <1>3, <1>4 DEF VMState
<1>6. Prepare(w, x0) /\ UNCHANGED <<timers, node, monitor, proxy, runs, count>>
  BY <1>4 DEF VMNotRunning
<1> QED
  BY <1>1, <1>2, <1>5, <1>6, PrepareKeeps, VmActorsDiffer

(* NoDeployInfo: another try later, if the VMActor knows what the system has. *)
LEMMA VMNoDeployInfoKeeps ==
  ASSUME Inv, NEW w \in Uuids, VMNoDeployInfo(w)
  PROVE  Kept
<1> DEFINE a == VM(w)
<1>1. /\ mail[a] # <<>> /\ Head(mail[a]).from = Instances
      /\ Name(Head(mail[a])) = "NoDeployInfo" /\ Has(a, "NoDeployInfo", Instances)
  BY VMHead DEF Receives, VMNoDeployInfo, Inv
<1>2. CheckReady(vm[w]) /\ vm[w].state = "up" /\ VmInv(w) /\ vm[w] \in VMState /\ OneConfigAt(w)
  BY ReadyIsUp DEF VMNoDeployInfo
<1>3. /\ a \in Actors /\ Node \in Actors /\ Instances \in Actors /\ a # Node /\ a # Instances /\ a # Monitor
      /\ Monitor \in Actors /\ Proxy(w) \in Actors /\ a # Proxy(w)
  BY ActorsDiffer, VmActorsDiffer
<1>4. ConfigAt(w, "none") /\ "none" \in ChainOfVm
  BY <1>1 DEF ConfigAt, ChainOfVm
<1>5. AskTimer(w) \notin DOMAIN timers /\ "provision" \notin DOMAIN helper[w]
  <2>1. ~ConfigAt(w, "timer") /\ ~ConfigAt(w, "helper")
    BY <1>2, <1>4 DEF OneConfigAt, ChainOfVm
  <2> QED
    BY <2>1 DEF ConfigAt
<1>6. PICK again : again = (vm[w].attributes /\ monitor.vagrant)
  OBVIOUS
<1>7. again \in BOOLEAN
  BY <1>2, <1>6 DEF Inv, Shape, VMState
<1>8. PICK y0 : y0 = [vm[w] EXCEPT !.asks = again, !.config = None]
  OBVIOUS
<1>9. /\ y0 \in VMState /\ y0.state = "up" /\ y0.refs = vm[w].refs /\ y0.provisioned = vm[w].provisioned
      /\ y0.attributes = vm[w].attributes /\ y0.config = None
  BY <1>2, <1>7, <1>8 DEF VMState
<1>10. vm'[w] = y0 /\ vm' \in [Uuids -> VMState] /\ \A u \in Uuids : u # w => vm'[u] = vm[u]
  <2>1. vm' = [vm EXCEPT ![w].asks = again, ![w].config = None]
    BY <1>6 DEF VMNoDeployInfo
  <2>2. vm \in [Uuids -> VMState]
    BY DEF Inv, Shape
  <2> QED
    BY <1>8, <1>9, <2>1, <2>2
<1>11. /\ node' = node /\ monitor' = monitor /\ proxy' = proxy /\ helper' = helper /\ runs' = runs /\ count' = count
       /\ mail' = Handled(a, {})
  BY DEF VMNoDeployInfo
<1>12. TimersShape' /\ \A tm \in DOMAIN timers' : tm \in DOMAIN timers \/ tm = AskTimer(w)
  <2>1. TimersShape
    BY DEF Inv, Shape, TimersShape
  <2>2. timers' = With(timers, AskTimer(w)) \/ timers' = timers
    BY DEF VMNoDeployInfo, Scheduled, AskTimer
  <2>3. CASE timers' = With(timers, AskTimer(w))
    BY <1>5, <2>1, <2>3, TimerAdded, TimersDiffer
  <2>4. CASE timers' = timers
    BY <2>1, <2>4 DEF TimersShape
  <2> QED
    BY <2>2, <2>3, <2>4
<1>13. Shape'
  BY <1>10, <1>11, <1>12 DEF Inv, Shape, TimersShape
<1>14. /\ MailShape' /\ MailOnce'
       /\ \A b, f \in Actors : \A m \in Names :
            Has(b, m, f)' <=> Has(b, m, f) /\ ~(b = a /\ m = "NoDeployInfo" /\ f = Instances)
  <2> HIDE DEF a
  <2> QED
    BY <1>1, <1>3, <1>11, NoneForOne DEF Inv
<1>15. OwnStep(w)
  BY <1>10, <1>11, <1>12, <1>14 DEF OwnStep, Between, Own
<1>16. OneToken' /\ ConfigKnown'
  <2>1. Has(Node, "VmProvisioned", VM(w))' => Has(Node, "VmProvisioned", VM(w))
    BY <1>3, <1>14 DEF Names
  <2>2. TokenAt("vm", w)' => TokenAt("vm", w)
    BY <1>2, <1>9, <1>10, TokenPlaces DEF TokenAt
  <2> QED
    BY <1>15, <2>1, <2>2, OwnTokenStays
<1>17. Keeps(w)
  <2>1. \A p \in ChainOfVm : AttributesAt(w, p)' => AttributesAt(w, p)
    BY <1>3, <1>9, <1>10, <1>14 DEF AttributesAt, Names, ChainNames
  <2>2. \A p \in ChainOfVm : ConfigAt(w, p)' => p = "timer" \/ (ConfigAt(w, p) /\ p # "none")
    BY <1>3, <1>9, <1>10, <1>11, <1>12, <1>14 DEF ConfigAt, Names, ChainNames
  <2>3. \A p \in ChainOfVm : EndAt(w, p)' <=> EndAt(w, p)
    BY <1>3, <1>11, <1>14 DEF EndAt, Names
  <2>4. OneAttributesAt(w)' /\ OneConfigAt(w)' /\ OneEndAt(w)'
    BY <1>2, <1>4, <2>1, <2>2, <2>3, AttributesStay, ConfigMoves, EndStays
  <2>5. HelperShape(w)'
    <3>1. \A p \in {"helper", "running", "not", "done"} : ~ConfigAt(w, p)'
      BY <1>2, <1>4, <2>2 DEF OneConfigAt, ChainOfVm
    <3> QED
      BY <1>2, <1>11, <3>1 DEF VmInv, HelperShape
  <2>6. \A b, f \in Actors : \A m \in Names \ WorkNames : Has(b, m, f)' <=> Has(b, m, f)
    BY <1>14 DEF WorkNames, HopNames
  <2> QED
    BY <1>2, <1>9, <1>10, <1>11, <2>3, <2>4, <2>5, <2>6, ReadyKeeps
<1> QED
  BY <1>13, <1>14, <1>15, <1>16, <1>17, OthersKeep DEF Kept

(* NoMoreTasks: a VMActorHelper is to destroy the VM. *)
LEMMA VMNoMoreTasksKeeps ==
  ASSUME Inv, NEW w \in Uuids, VMNoMoreTasks(w)
  PROVE  Kept
<1> DEFINE a == VM(w)
<1>1. /\ mail[a] # <<>> /\ Head(mail[a]).from = Proxy(w)
      /\ Name(Head(mail[a])) = "NoMoreTasks" /\ Has(a, "NoMoreTasks", Proxy(w))
  BY VMHead DEF Receives, VMNoMoreTasks, Inv
<1>2. EndAt(w, "told") /\ "told" \in ChainOfVm /\ ConfigAt(w, "done") /\ "done" \in ChainOfVm
  BY <1>1 DEF EndAt, ChainOfVm, ConfigAt, VMNoMoreTasks
<1>3. VmInv(w) /\ OneConfigAt(w) /\ OneEndAt(w) /\ HelperShape(w)
  BY EachIsOne DEF Inv, VmInv
<1>4. CheckReady(vm[w]) /\ vm[w].state = "up"
  BY <1>2, <1>3, BusyIsReady DEF Busy
<1>5. /\ a \in Actors /\ Node \in Actors /\ Instances \in Actors /\ a # Node /\ a # Instances /\ a # Monitor
      /\ Monitor \in Actors /\ Proxy(w) \in Actors /\ a # Proxy(w) /\ Proxy(w) # Instances /\ Proxy(w) # Monitor
      /\ Proxy(w) # Node
  BY ActorsDiffer, VmActorsDiffer
<1>6. DOMAIN helper[w] = {}
  <2>1. ~ConfigAt(w, "helper") /\ ~EndAt(w, "helper")
    BY <1>2, <1>3 DEF OneConfigAt, OneEndAt, ChainOfVm
  <2> QED
    BY <1>3, <2>1 DEF ConfigAt, EndAt, HelperShape
<1>7. /\ node' = node /\ monitor' = monitor /\ timers' = timers /\ vm' = vm /\ proxy' = proxy
      /\ runs' = runs /\ count' = count /\ mail' = Handled(a, {})
  BY DEF VMNoMoreTasks
<1>8. /\ DOMAIN helper' = Uuids /\ \A u \in Uuids : u # w => helper'[u] = helper[u]
      /\ helper'[w] = With(helper[w], "destroy")
  BY DEF VMNoMoreTasks, Inv, Shape
<1>9. DOMAIN helper'[w] = {"destroy"} /\ \A x \in DOMAIN helper'[w] : helper'[w][x] = 1
  <2>1. PICK B : B = helper[w]
    OBVIOUS
  <2>2. Single(B) /\ "destroy" \notin DOMAIN B /\ DOMAIN B = {}
    BY <1>6, <2>1 DEF Single
  <2>3. DOMAIN With(B, "destroy") = DOMAIN B \cup {"destroy"} /\ Single(With(B, "destroy"))
    BY <2>2, WithOne
  <2> QED
    BY <1>8, <2>1, <2>2, <2>3 DEF Single
<1>10. Shape'
  BY <1>7, <1>8 DEF Inv, Shape
<1>11. /\ MailShape' /\ MailOnce'
       /\ \A b, f \in Actors : \A m \in Names :
            Has(b, m, f)' <=> Has(b, m, f) /\ ~(b = a /\ m = "NoMoreTasks" /\ f = Proxy(w))
  <2> HIDE DEF a
  <2> QED
    BY <1>1, <1>5, <1>7, NoneForOne DEF Inv
<1>12. OwnStep(w)
  BY <1>7, <1>8, <1>11 DEF OwnStep, Between, Own
<1>13. OneToken' /\ ConfigKnown'
  <2>1. Has(Node, "VmProvisioned", VM(w))' => Has(Node, "VmProvisioned", VM(w))
    BY <1>5, <1>11 DEF Names
  <2>2. TokenAt("vm", w)' => TokenAt("vm", w)
    BY <1>7 DEF TokenAt
  <2> QED
    BY <1>12, <2>1, <2>2, OwnTokenStays
<1>14. Keeps(w)
  <2>1. \A p \in ChainOfVm : AttributesAt(w, p)' => AttributesAt(w, p)
    BY <1>5, <1>7, <1>11 DEF AttributesAt, Names, ChainNames
  <2>2. \A p \in ChainOfVm : ConfigAt(w, p)' => ConfigAt(w, p)
    BY <1>5, <1>7, <1>9, <1>11 DEF ConfigAt, Names, ChainNames
  <2>3. \A p \in ChainOfVm : EndAt(w, p)' => p = "helper" \/ (EndAt(w, p) /\ p # "told")
    BY <1>5, <1>11 DEF EndAt, Names
  <2>4. EndAt(w, "helper")' /\ "helper" \in ChainOfVm
    BY <1>9 DEF EndAt, ChainOfVm
  <2>5. OneAttributesAt(w)' /\ OneConfigAt(w)' /\ OneEndAt(w)'
    BY <1>2, <1>3, <2>1, <2>2, <2>3, AttributesStay, ConfigStays, EndMoves
  <2>6. HelperShape(w)'
    BY <1>3, <1>7, <1>9, <2>2 DEF HelperShape, ChainOfVm
  <2>7. \A b, f \in Actors : \A m \in Names \ WorkNames : Has(b, m, f)' <=> Has(b, m, f)
    BY <1>11 DEF WorkNames
  <2>8. (\E p \in ChainOfVm : EndAt(w, p)') <=> (\E p \in ChainOfVm : EndAt(w, p))
    BY <1>2, <2>4
  <2> QED
    BY <1>3, <1>4, <1>7, <2>5, <2>6, <2>7, <2>8, ReadyKeeps
<1> QED
  BY <1>10, <1>11, <1>12, <1>13, <1>14, OthersKeep DEF Kept

(* Running: the VM is provisioned, and everybody is told. *)
LEMMA VMProvisionedKeeps ==
  ASSUME Inv, NEW w \in Uuids, VMProvisioned(w)
  PROVE  Kept
<1> DEFINE a == VM(w)
           pr == Proxy(w)
<1>1. /\ mail[a] # <<>> /\ Head(mail[a]).from = a
      /\ Name(Head(mail[a])) = "Running" /\ Has(a, "Running", a)
  BY VMHead DEF Receives, VMProvisioned, Inv
<1>2. CheckReady(vm[w]) /\ vm[w].state = "up" /\ VmInv(w) /\ vm[w] \in VMState /\ OneConfigAt(w)
  BY ReadyIsUp DEF VMProvisioned
<1>3. /\ a \in Actors /\ a \in VMs /\ Node \in Actors /\ Instances \in Actors /\ Monitor \in Actors
      /\ Status \in Actors /\ pr \in Actors /\ a \notin {Node, Instances, Monitor, Status, pr}
      /\ pr \notin {Node, Instances, Monitor, Status} /\ Node # Status /\ Instances # Status /\ Monitor # Status
      /\ Node # Instances /\ Node # Monitor
  BY ActorsDiffer, VmActorsDiffer
<1>4. ConfigAt(w, "running") /\ "running" \in ChainOfVm
  BY <1>1 DEF ConfigAt, ChainOfVm
<1>5. ~vm[w].provisioned /\ vm[w].config # None
  <2>1. ~ConfigAt(w, "done")
    BY <1>2, <1>4 DEF OneConfigAt, ChainOfVm
  <2> QED
    BY <1>2, <1>4, <2>1 DEF ConfigAt, VmInv, HelperShape
<1>6. proxy[w].state = "up"
  <2>1. proxy[w] \in ProxyState
    BY DEF Inv, Shape
  <2> QED
    BY <1>2, <1>5, <2>1 DEF VmInv, NotYet, ProxyAndVm, ProxyState
<1>7. TokenAt("vm", w) /\ "vm" \in ChainOfNode
  BY <1>2, <1>5, TokenPlaces DEF ChainOfNode
<1>8. /\ ~Has(Node, "VmProvisioned", a) /\ ~Has(pr, "SetConfig", a) /\ ~Has(Status, "RegisterVmActor", a)
  <2>1. ~TokenAt("provisioned", w)
    BY <1>7, TokenAlone DEF ChainOfNode, Inv
  <2> QED
    BY <1>2, <1>5, <2>1, TokenPlaces DEF VmInv, ProxyAndVm, Reports, Served
<1>9. PICK y0 : y0 = [vm[w] EXCEPT !.provisioned = TRUE]
  OBVIOUS
<1>10. /\ y0 \in VMState /\ y0.state = "up" /\ y0.refs = vm[w].refs /\ y0.provisioned
       /\ y0.attributes = vm[w].attributes /\ y0.config = vm[w].config /\ y0.ready = vm[w].ready
  BY <1>2, <1>9 DEF VMState
<1>11. vm'[w] = y0 /\ vm' \in [Uuids -> VMState] /\ \A u \in Uuids : u # w => vm'[u] = vm[u]
  BY <1>9, <1>10 DEF VMProvisioned, Inv, Shape
<1>12. /\ node' = node /\ monitor' = monitor /\ timers' = timers /\ proxy' = proxy /\ helper' = helper
       /\ runs' = runs /\ count' = count
  BY DEF VMProvisioned
<1>13. Shape'
  BY <1>11, <1>12 DEF Inv, Shape
<1>14. PICK d : d = vm[w].config
  OBVIOUS
<1>15. d \in Versions
  BY <1>2, <1>5, <1>14 DEF VMState
<1> DEFINE x == Msg("VmProvisioned", a)
           y == MsgWith("SetConfig", a, d)
           z == Msg("RegisterVmActor", a)
<1>16. "VmProvisioned" \in Names /\ "SetConfig" \in Names /\ "RegisterVmActor" \in Names
  BY DEF Names
<1>17. /\ x \in Messages /\ Name(x) = "VmProvisioned" /\ x.m = "VmProvisioned" /\ x.from = a
       /\ z \in Messages /\ Name(z) = "RegisterVmActor" /\ z.m = "RegisterVmActor" /\ z.from = a
  BY <1>3, <1>16, MsgType
<1>18. /\ y \in Messages /\ Name(y) = "SetConfig" /\ y.m = "SetConfig" /\ y.from = a /\ y.data = d
  BY <1>3, <1>15, <1>16, MsgWithType
<1>19. mail' = Handled(a, {<<Node, <<x>> >>, <<pr, <<y>> >>, <<Status, <<z>> >>})
  BY <1>14 DEF VMProvisioned
<1> HIDE DEF x, y, z
<1>20. MayGet(Node, x) /\ MayGet(pr, y) /\ MayGet(Status, z)
  <2>1. MayGet(Node, x)
    BY <1>3, <1>17, MayGetIs
  <2>2. MayGet(pr, y)
    BY <1>15, <1>18, MayGetIs
  <2>3. MayGet(Status, z)
    BY <1>3, <1>17, MayGetIs
  <2> QED
    BY <2>1, <2>2, <2>3
<1>21. MaySend(Node, x) /\ MaySend(pr, y) /\ MaySend(Status, z)
  BY <1>3, <1>8, <1>16, <1>17, <1>18, <1>20 DEF MaySend
<1>22. /\ MailShape' /\ MailOnce'
       /\ \A b, f \in Actors : \A m \in Names :
            Has(b, m, f)' <=>
              \/ Has(b, m, f) /\ ~(b = a /\ m = "Running" /\ f = a)
              \/ Tracked(b, m, f) /\ b = Node /\ m = "VmProvisioned" /\ f = a
              \/ Tracked(b, m, f) /\ b = pr /\ m = "SetConfig" /\ f = a
              \/ Tracked(b, m, f) /\ b = Status /\ m = "RegisterVmActor" /\ f = a
  <2> HIDE DEF a, pr
  <2> QED
    BY <1>1, <1>3, <1>17, <1>18, <1>19, <1>21, ThreeForOne DEF Inv
<1>23. OwnStep(w)
  BY <1>11, <1>12, <1>22 DEF OwnStep, Between, Own
<1>24. OneToken' /\ ConfigKnown'
  <2>1. \A p \in ChainOfNode : \A u \in Uuids \cup {None} :
          TokenAt(p, u)' => (p = "provisioned" /\ u = w) \/ (TokenAt(p, u) /\ ~(p = "vm" /\ u = w))
    BY <1>3, <1>10, <1>11, <1>12, <1>22, VmActorsDiffer DEF TokenAt, Names, ChainNames
  <2> QED
    BY <1>7, <2>1, TokenMoves DEF Inv
<1>25. Keeps(w)
  <2>1. \A p \in ChainOfVm : AttributesAt(w, p)' => AttributesAt(w, p)
    BY <1>3, <1>10, <1>11, <1>22 DEF AttributesAt, Names, ChainNames
  <2>2. \A p \in ChainOfVm : ConfigAt(w, p)' => p = "done" \/ (ConfigAt(w, p) /\ p # "running")
    BY <1>3, <1>10, <1>11, <1>12, <1>22 DEF ConfigAt, Names, ChainNames
  <2>3. \A p \in ChainOfVm : EndAt(w, p)' => EndAt(w, p)
    BY <1>3, <1>12, <1>22 DEF EndAt, Names
  <2>4. OneOfEach(w)'
    BY <1>2, <1>4, <2>1, <2>2, <2>3, AttributesStay, ConfigMoves, EndStays, EachIsOne
  <2>5. \A p \in ChainOfVm : ~EndAt(w, p)'
    BY <1>2, <1>6, <2>3 DEF VmInv, ProxyAndVm
  <2>6. OneReference(w)'
    <3>1. \A k \in Kinds : Getter(k) \in Names /\ k \in Names /\ Getter(k) # "VmProvisioned" /\ k # "Running"
      BY Getters DEF Kinds, Names
    <3>2. /\ Has(a, "Init", a)' <=> Has(a, "Init", a)
          /\ Has(a, "proxy", Node)' <=> Has(a, "proxy", Node)
          /\ Has(a, "null", Node)' <=> Has(a, "null", Node)
      BY <1>3, <1>22 DEF Names, Kinds
    <3>3. \A k \in Kinds : /\ AnswerTo(w, k)' <=> AnswerTo(w, k)
                           /\ Has(Node, Getter(k), a)' <=> Has(Node, Getter(k), a)
      BY <1>3, <1>22, <3>1, <3>2 DEF AnswerTo
    <3>4. OneReference(w) /\ vm'[w].refs = vm[w].refs
      BY <1>2, <1>10, <1>11 DEF VmInv
    <3> QED
      BY <3>2, <3>3, <3>4, Zenon DEF OneReference
  <2>7. ChainsBegin(w)' /\ VmAbsent(w)' /\ NotYet(w)'
    BY <1>2, <1>10, <1>11, <1>12 DEF VmInv, ChainsBegin, VmAbsent, NotYet, CheckReady
  <2>8. HelperShape(w)'
    BY <1>2, <1>5, <1>10, <1>11, <1>12 DEF VmInv, HelperShape
  <2>9. ProxyAndVm(w)'
    BY <1>2, <1>6, <1>10, <1>11, <1>12, <2>5 DEF VmInv, ProxyAndVm, CheckReady
  <2>10. Reports(w)'
    BY <1>2, <1>3, <1>10, <1>11, <1>12, <1>22 DEF VmInv, Reports, Served, Names, ChainNames
  <2>11. InMap(w)'
    BY <1>2, <1>3, <1>10, <1>11, <1>12, <1>22 DEF VmInv, InMap, Names, ChainNames
  <2>12. ~Reg(w)
    BY <1>2, <1>5 DEF Reg, Served
  <2> QED
    BY <2>4, <2>6, <2>7, <2>8, <2>9, <2>10, <2>11, <2>12 DEF Keeps, VmInv
<1> QED
  BY <1>13, <1>22, <1>23, <1>24, <1>25, OthersKeep DEF Kept

(* VmDestroy: the VMActor stops. *)
LEMMA VMDestroyedKeeps ==
  ASSUME Inv, NEW w \in Uuids, VMDestroyed(w)
  PROVE  Kept
<1> DEFINE a == VM(w)
           pr == Proxy(w)
<1>1. /\ mail[a] # <<>> /\ Head(mail[a]).from = a
      /\ Name(Head(mail[a])) = "VmDestroy" /\ Has(a, "VmDestroy", a)
  BY VMHead DEF Receives, VMDestroyed, Inv
<1>2. /\ CheckReady(vm[w]) /\ vm[w].state = "up" /\ VmInv(w) /\ vm[w] \in VMState
      /\ OneAttributesAt(w) /\ OneConfigAt(w) /\ OneEndAt(w)
  BY ReadyIsUp DEF VMDestroyed
<1>3. /\ a \in Actors /\ a \in VMs /\ Node \in Actors /\ Instances \in Actors /\ Monitor \in Actors
      /\ Status \in Actors /\ pr \in Actors /\ a \notin {Node, Instances, Monitor, Status, pr}
      /\ pr \notin {Node, Instances, Monitor, Status} /\ Node # Status /\ Instances # Status /\ Monitor # Status
      /\ Node # Instances /\ Node # Monitor
  BY ActorsDiffer, VmActorsDiffer
<1>4. EndAt(w, "over") /\ "over" \in ChainOfVm
  BY <1>1 DEF EndAt, ChainOfVm
<1>5. proxy[w].state = "gone" /\ vm[w].provisioned
  BY <1>2, <1>4 DEF VmInv, ProxyAndVm
<1>6. ConfigAt(w, "done") /\ "done" \in ChainOfVm
  BY <1>5 DEF ConfigAt, ChainOfVm
<1>7. AttributesAt(w, "known")
  <2>1. vm[w].config # None
    BY <1>2, <1>6 DEF VmInv, HelperShape
  <2>2. ~ConfigAt(w, "waits")
    BY <1>2, <1>6 DEF OneConfigAt, ChainOfVm
  <2> QED
    BY <2>1, <2>2 DEF ConfigAt, AttributesAt
<1>8. PICK y0 : y0 = [NoVM EXCEPT !.state = "gone"]
  OBVIOUS
<1>9. /\ y0 \in VMState /\ y0.state = "gone" /\ y0.refs = {} /\ ~y0.provisioned
      /\ ~y0.attributes /\ y0.config = None /\ ~y0.ready
  BY <1>8 DEF VMState, NoVM
<1>10. vm'[w] = y0 /\ vm' \in [Uuids -> VMState] /\ \A u \in Uuids : u # w => vm'[u] = vm[u]
  BY <1>8, <1>9 DEF VMDestroyed, Inv, Shape
<1>11. /\ node' = node /\ monitor' = monitor /\ timers' = timers /\ proxy' = proxy /\ helper' = helper
       /\ runs' = runs /\ count' = count
  BY DEF VMDestroyed
<1>12. Shape'
  BY <1>10, <1>11 DEF Inv, Shape
<1> DEFINE x == Msg("RemoveVmActor", a)
           y == Msg("DeregisterVmActor", a)
           sends == {<<Node, <<x>> >>, <<Status, <<y>> >>}
<1>13. "RemoveVmActor" \in Names /\ "DeregisterVmActor" \in Names
  BY DEF Names, ChainNames
<1>14. /\ x \in Messages /\ Name(x) = "RemoveVmActor" /\ x.m = "RemoveVmActor" /\ x.from = a
       /\ y \in Messages /\ Name(y) = "DeregisterVmActor" /\ y.m = "DeregisterVmActor" /\ y.from = a
  BY <1>3, <1>13, MsgType
<1>15. mail' = [Handled(a, sends) EXCEPT ![a] = <<>>]
  BY DEF VMDestroyed
<1> HIDE DEF x, y
<1>16. MayGet(Node, x) /\ MayGet(Status, y)
  BY <1>3, <1>14, MayGetIs
<1>17. ~Has(Node, "RemoveVmActor", a) /\ ~Has(Status, "DeregisterVmActor", a)
  BY <1>2 DEF VmInv, Reports
<1>18. MaySend(Node, x) /\ MaySend(Status, y)
  BY <1>3, <1>13, <1>14, <1>16, <1>17 DEF MaySend
<1>19. /\ Sendable(sends)
       /\ \A b, m, f : Sent(sends, b, m, f) <=> \/ b = Node /\ m = "RemoveVmActor" /\ f = a
                                                \/ b = Status /\ m = "DeregisterVmActor" /\ f = a
  <2> HIDE DEF a
  <2> QED
    BY <1>3, <1>14, <1>18, SendTwo
<1> HIDE DEF sends
<1>20. /\ MailShape' /\ MailOnce'
       /\ \A b, f \in Actors : \A m \in Names :
            Has(b, m, f)' <=> b # a /\ (Has(b, m, f) \/ (Tracked(b, m, f) /\ Sent(sends, b, m, f)))
  <2> HIDE DEF a
  <2> QED
    BY <1>1, <1>3, <1>15, <1>19, StoppedBoxes DEF Inv
<1>21. \A b, f \in Actors : \A m \in Names :
         Has(b, m, f)' <=>
           /\ b # a
           /\ \/ Has(b, m, f)
              \/ b = Node /\ m = "RemoveVmActor" /\ f = a
              \/ b = Status /\ m = "DeregisterVmActor" /\ f = a
  BY <1>3, <1>19, <1>20 DEF Tracked
<1>22. \A f \in Actors : \A m \in Names : Has(a, m, f) => f \in Own(w)
  <2> SUFFICES ASSUME NEW f \in Actors, NEW m \in Names, Has(a, m, f) PROVE f \in Own(w)
    OBVIOUS
  <2>1. In(mail[a], m, f)
    BY <1>3, HasDef
  <2>2. PICK i \in 1 .. Len(mail[a]) : mail[a][i].from = f
    BY <2>1 DEF In
  <2>3. MayGet(a, mail[a][i])
    BY <1>3 DEF Inv, MailShape
  <2> QED
    BY <2>2, <2>3, MayGetIs DEF Own
<1>23. OwnStep(w)
  <2>1. \A b, f \in Actors : \A m \in Names : ~Between(w, b, f) => (Has(b, m, f)' <=> Has(b, m, f))
    BY <1>21, <1>22 DEF Between, Own
  <2> QED
    BY <1>10, <1>11, <2>1 DEF OwnStep
<1>24. OneToken' /\ ConfigKnown'
  <2>1. Has(Node, "VmProvisioned", VM(w))' => Has(Node, "VmProvisioned", VM(w))
    BY <1>3, <1>21 DEF Names
  <2>2. ~TokenAt("vm", w)'
    BY <1>9, <1>10 DEF TokenAt
  <2> QED
    BY <1>23, <2>1, <2>2, OwnTokenStays
<1>25. Keeps(w)
  <2>1. \A p \in ChainOfVm : ~AttributesAt(w, p)'
    <3>1. \A p \in ChainOfVm : AttributesAt(w, p)' => AttributesAt(w, p) /\ p # "known"
      BY <1>3, <1>9, <1>10, <1>21 DEF AttributesAt, Names, ChainNames
    <3> QED
      BY <1>2, <1>7, <3>1 DEF OneAttributesAt, ChainOfVm
  <2>2. \A p \in ChainOfVm : ~ConfigAt(w, p)'
    <3>1. \A p \in ChainOfVm : ConfigAt(w, p)' => ConfigAt(w, p) /\ p # "done"
      BY <1>3, <1>9, <1>10, <1>11, <1>21 DEF ConfigAt, Names, ChainNames
    <3> QED
      BY <1>2, <1>6, <3>1 DEF OneConfigAt
  <2>3. \A p \in ChainOfVm : ~EndAt(w, p)'
    <3>1. \A p \in ChainOfVm : EndAt(w, p)' => EndAt(w, p) /\ p # "over"
      BY <1>3, <1>11, <1>21 DEF EndAt, Names
    <3> QED
      BY <1>2, <1>4, <3>1 DEF OneEndAt
  <2>4. \A k \in Kinds : ~Has(Node, Getter(k), a)' /\ ~AnswerTo(w, k)'
    <3>1. \A k \in Kinds : Getter(k) \in Names /\ k \in Names /\ Getter(k) # "RemoveVmActor"
      BY Getters DEF Kinds, Names
    <3>2. \A k \in Kinds : ~Has(Node, Getter(k), a)
      BY <1>2 DEF VmInv, OneReference, CheckReady, Kinds
    <3>3. ~Has(a, "null", Node)' /\ \A k \in Kinds : ~Has(a, k, Node)'
      BY <1>3, <1>21, <3>1 DEF Names
    <3> QED
      BY <1>3, <1>21, <3>1, <3>2, <3>3 DEF AnswerTo
  <2>5. ~Has(a, "Init", a)'
    BY <1>3, <1>21 DEF Names
  <2>6. OneReference(w)'
    <3>1. ~(Has(a, "proxy", Node)' /\ Has(a, "null", Node)')
      BY <2>4 DEF AnswerTo, Kinds
    <3> QED
      BY <2>4, <2>5, <3>1 DEF OneReference
  <2>7. OneOfEach(w)'
    BY <2>1, <2>2, <2>3 DEF OneOfEach
  <2>8. ChainsBegin(w)' /\ VmAbsent(w)'
    BY <1>9, <1>10, <2>1, <2>2, <2>3, <2>4, <2>5 DEF ChainsBegin, VmAbsent
  <2>9. NotYet(w)'
    BY <1>5, <1>9, <1>10, <1>11 DEF NotYet
  <2>10. HelperShape(w)'
    BY <1>2, <1>11, <2>2 DEF VmInv, HelperShape, ChainOfVm
  <2>11. ProxyAndVm(w)'
    <3>1. Has(pr, "SetConfig", a)' => Has(pr, "SetConfig", a)
      BY <1>3, <1>21 DEF Names
    <3>2. ~Has(pr, "SetConfig", a) /\ proxy[w].config = None
      BY <1>2, <1>5 DEF VmInv, ProxyAndVm
    <3> QED
      BY <1>2, <1>5, <1>9, <1>10, <1>11, <2>3, <3>1, <3>2 DEF VmInv, ProxyAndVm
  <2>12. Reports(w)'
    <3>1. /\ vm'[w].state = "gone" /\ proxy'[w].state = "gone"
      BY <1>5, <1>9, <1>10, <1>11
    <3> QED
      BY <3>1 DEF Reports, Served
  <2>13. InMap(w)'
    BY <1>2, <1>3, <1>5, <1>9, <1>10, <1>11, <1>13, <1>21 DEF VmInv, InMap
  <2>14. Reg(w) => Reg(w)'
    BY <1>3, <1>9, <1>10, <1>21 DEF Reg, Served, Names
  <2> QED
    BY <2>6, <2>7, <2>8, <2>9, <2>10, <2>11, <2>12, <2>13, <2>14 DEF Keeps, VmInv
<1> QED
  BY <1>12, <1>20, <1>23, <1>24, <1>25, OthersKeep DEF Kept

(* A VMActorHelper that was to provision comes to an end; a message may tell. *)
LEMMA HelperUpKeeps ==
  ASSUME Inv, NEW w \in Uuids, HelperUp(w), NEW c, NEW n,
         \/ c = VM(w) /\ n \in {"Running", "NotRunning"}
         \/ c = Instances /\ n = "GetDeployInfo",
         mail' = mail \/ mail' = [mail EXCEPT ![c] = Append(@, Msg(n, VM(w)))]
  PROVE  Kept
<1> DEFINE a == VM(w)
<1>1. /\ a \in Actors /\ a \in VMs /\ Node \in Actors /\ Instances \in Actors /\ Monitor \in Actors
      /\ Status \in Actors /\ Proxy(w) \in Actors /\ a \notin {Node, Instances, Monitor, Status, Proxy(w)}
      /\ Instances \notin {Node, Monitor, Status} /\ c \in Actors /\ n \in Names
  BY ActorsDiffer, VmActorsDiffer DEF Names, ChainNames
<1>2. "provision" \in DOMAIN helper[w]
  BY DEF HelperUp, BagIn, BagToSet
<1>3. ConfigAt(w, "helper") /\ "helper" \in ChainOfVm
  BY <1>2 DEF ConfigAt, ChainOfVm
<1>4. VmInv(w) /\ OneConfigAt(w) /\ HelperShape(w) /\ vm[w].config # None
  BY <1>3, EachIsOne DEF Inv, VmInv, HelperShape
<1>5. CheckReady(vm[w]) /\ vm[w].state = "up"
  BY <1>3, <1>4, BusyIsReady DEF Busy
<1>6. PICK q0 \in {"running", "not", "asked"} :
        /\ ConfigAt(w, q0) <=> Has(c, n, a)
        /\ q0 = "running" <=> n = "Running"
        /\ q0 = "not" <=> n = "NotRunning"
        /\ q0 = "asked" <=> n = "GetDeployInfo"
  <2>1. /\ ConfigAt(w, "running") <=> Has(a, "Running", a)
        /\ ConfigAt(w, "not") <=> Has(a, "NotRunning", a)
        /\ ConfigAt(w, "asked") <=> Has(Instances, "GetDeployInfo", a)
    BY DEF ConfigAt
  <2> QED
    BY <2>1
<1>7. ~Has(c, n, a)
  BY <1>3, <1>4, <1>6 DEF OneConfigAt, ChainOfVm
<1>8. /\ node' = node /\ monitor' = monitor /\ timers' = timers /\ vm' = vm /\ proxy' = proxy
      /\ runs' = runs /\ count' = count
  BY DEF HelperUp
<1>9. /\ DOMAIN helper' = Uuids /\ \A u \in Uuids : u # w => helper'[u] = helper[u]
      /\ helper'[w] = Without(helper[w], "provision")
  BY DEF HelperUp, Inv, Shape
<1>10. /\ DOMAIN helper'[w] = DOMAIN helper[w] \ {"provision"}
       /\ \A x \in DOMAIN helper'[w] : helper'[w][x] = 1
  <2>1. PICK B : B = helper[w]
    OBVIOUS
  <2>2. Single(B) /\ "provision" \in DOMAIN B
    BY <1>2, <1>4, <2>1 DEF Single, HelperShape
  <2>3. DOMAIN Without(B, "provision") = DOMAIN B \ {"provision"} /\ Single(Without(B, "provision"))
    BY <2>2, WithoutOne
  <2> QED
    BY <1>9, <2>1, <2>3 DEF Single
<1>11. Shape'
  BY <1>8, <1>9 DEF Inv, Shape
<1>12. /\ MailShape' /\ MailOnce'
       /\ \A b, f \in Actors : \A m \in Names :
            /\ Has(b, m, f) => Has(b, m, f)'
            /\ Has(b, m, f)' => Has(b, m, f) \/ (b = c /\ m = n /\ f = a)
  <2>1. CASE mail' = mail
    BY <2>1 DEF Inv, MailShape, MailOnce, Has, box
  <2>2. CASE mail' # mail
    <3> DEFINE x == Msg(n, a)
    <3>1. x \in Messages /\ Name(x) = n /\ x.m = n /\ x.from = a
      BY <1>1, MsgType
    <3>2. mail' = [mail EXCEPT ![c] = Append(@, x)]
      BY <2>2
    <3> HIDE DEF x
    <3>3. MayGet(c, x)
      BY <1>1, <3>1, MayGetIs
    <3>4. MaySend(c, x)
      BY <1>1, <1>7, <3>1, <3>3 DEF MaySend
    <3> HIDE DEF a
    <3> QED
      BY <3>1, <3>2, <3>4, AppendedBoxes DEF Inv
  <2> QED
    BY <2>1, <2>2
<1>13. OwnStep(w)
  BY <1>8, <1>9, <1>12 DEF OwnStep, Between, Own
<1>14. OneToken' /\ ConfigKnown'
  <2>1. Has(Node, "VmProvisioned", VM(w))' => Has(Node, "VmProvisioned", VM(w))
    BY <1>1, <1>12 DEF Names
  <2>2. TokenAt("vm", w)' => TokenAt("vm", w)
    BY <1>8 DEF TokenAt
  <2> QED
    BY <1>13, <2>1, <2>2, OwnTokenStays
<1>15. Keeps(w)
  <2>1. \A p \in ChainOfVm : AttributesAt(w, p)' => AttributesAt(w, p)
    BY <1>1, <1>8, <1>12 DEF AttributesAt, Names, ChainNames
  <2>2. \A p \in ChainOfVm : ConfigAt(w, p)' => p = q0 \/ (ConfigAt(w, p) /\ p # "helper")
    BY <1>1, <1>6, <1>8, <1>10, <1>12 DEF ConfigAt, Names, ChainNames
  <2>3. \A p \in ChainOfVm : EndAt(w, p)' <=> EndAt(w, p)
    BY <1>1, <1>10, <1>12 DEF EndAt, Names
  <2>4. OneAttributesAt(w)' /\ OneConfigAt(w)' /\ OneEndAt(w)'
    BY <1>3, <1>4, <2>1, <2>2, <2>3, AttributesStay, ConfigMoves, EndStays
  <2>5. HelperShape(w)'
    BY <1>4, <1>8, <1>10 DEF HelperShape
  <2>6. \A b, f \in Actors : \A m \in Names \ WorkNames : Has(b, m, f)' <=> Has(b, m, f)
    BY <1>12 DEF WorkNames, HopNames
  <2> QED
    BY <1>4, <1>5, <1>8, <2>3, <2>4, <2>5, <2>6, ReadyKeeps
<1> QED
  BY <1>11, <1>12, <1>13, <1>14, <1>15, OthersKeep DEF Kept

LEMMA HelperProvisionsKeeps ==
  ASSUME Inv, NEW w \in Uuids, HelperProvisions(w) \/ HelperFails(w)
  PROVE  Kept
<1>1. HelperUp(w)
  BY DEF HelperProvisions, HelperFails
<1>2. CASE mail' = mail
  BY <1>1, <1>2, HelperUpKeeps
<1>3. CASE mail' = [mail EXCEPT ![VM(w)] = Append(@, Msg("Running", VM(w)))]
  BY <1>1, <1>3, HelperUpKeeps
<1>4. CASE mail' = [mail EXCEPT ![VM(w)] = Append(@, Msg("NotRunning", VM(w)))]
  BY <1>1, <1>4, HelperUpKeeps
<1>5. CASE mail' = [mail EXCEPT ![Instances] = Append(@, Msg("GetDeployInfo", VM(w)))]
  BY <1>1, <1>5, HelperUpKeeps
<1> QED
  BY <1>2, <1>3, <1>4, <1>5 DEF HelperProvisions, HelperFails

(* A VMActorHelper has destroyed the VM. *)
LEMMA HelperDestroysKeeps ==
  ASSUME Inv, NEW w \in Uuids, HelperDestroys(w)
  PROVE  Kept
<1> DEFINE a == VM(w)
<1>1. /\ a \in Actors /\ a \in VMs /\ Node \in Actors /\ Instances \in Actors /\ Monitor \in Actors
      /\ Status \in Actors /\ Proxy(w) \in Actors /\ a \notin {Node, Instances, Monitor, Status, Proxy(w)}
      /\ "VmDestroy" \in Names
  BY ActorsDiffer, VmActorsDiffer DEF Names
<1>2. "destroy" \in DOMAIN helper[w]
  BY DEF HelperDestroys, BagIn, BagToSet
<1>3. EndAt(w, "helper") /\ "helper" \in ChainOfVm
  BY <1>2 DEF EndAt, ChainOfVm
<1>4. VmInv(w) /\ OneEndAt(w) /\ HelperShape(w)
  BY EachIsOne DEF Inv, VmInv
<1>5. vm[w].state = "up" /\ vm[w].provisioned
  BY <1>3, <1>4 DEF VmInv, VmAbsent, ProxyAndVm
<1>6. CheckReady(vm[w])
  <2>1. ConfigAt(w, "done") /\ "done" \in ChainOfVm
    BY <1>5 DEF ConfigAt, ChainOfVm
  <2> QED
    BY <1>4, <2>1, BusyIsReady DEF Busy
<1>7. ~Has(a, "VmDestroy", a)
  <2>1. ~EndAt(w, "over")
    BY <1>3, <1>4 DEF OneEndAt, ChainOfVm
  <2> QED
    BY <2>1 DEF EndAt
<1>8. /\ node' = node /\ monitor' = monitor /\ timers' = timers /\ vm' = vm /\ proxy' = proxy
      /\ runs' = runs /\ count' = count
  BY DEF HelperDestroys
<1>9. /\ DOMAIN helper' = Uuids /\ \A u \in Uuids : u # w => helper'[u] = helper[u]
      /\ helper'[w] = Without(helper[w], "destroy")
  BY DEF HelperDestroys, Inv, Shape
<1>10. /\ DOMAIN helper'[w] = DOMAIN helper[w] \ {"destroy"}
       /\ \A x \in DOMAIN helper'[w] : helper'[w][x] = 1
  <2>1. PICK B : B = helper[w]
    OBVIOUS
  <2>2. Single(B) /\ "destroy" \in DOMAIN B
    BY <1>2, <1>4, <2>1 DEF Single, HelperShape
  <2>3. DOMAIN Without(B, "destroy") = DOMAIN B \ {"destroy"} /\ Single(Without(B, "destroy"))
    BY <2>2, WithoutOne
  <2> QED
    BY <1>9, <2>1, <2>3 DEF Single
<1>11. Shape'
  BY <1>8, <1>9 DEF Inv, Shape
<1> DEFINE x == Msg("VmDestroy", a)
<1>12. x \in Messages /\ Name(x) = "VmDestroy" /\ x.m = "VmDestroy" /\ x.from = a
  BY <1>1, MsgType
<1>13. mail' = [mail EXCEPT ![a] = Append(@, x)]
  BY DEF HelperDestroys
<1> HIDE DEF x
<1>14. MayGet(a, x)
  BY <1>12, MayGetIs
<1>15. MaySend(a, x)
  BY <1>1, <1>7, <1>12, <1>14 DEF MaySend
<1>16. /\ MailShape' /\ MailOnce'
       /\ \A b, f \in Actors : \A m \in Names :
            Has(b, m, f)' <=> Has(b, m, f) \/ (Tracked(b, m, f) /\ b = a /\ m = "VmDestroy" /\ f = a)
  <2> HIDE DEF a
  <2> QED
    BY <1>12, <1>13, <1>15, AppendedBoxes DEF Inv
<1>17. OwnStep(w)
  BY <1>8, <1>9, <1>16 DEF OwnStep, Between, Own
<1>18. OneToken' /\ ConfigKnown'
  <2>1. Has(Node, "VmProvisioned", VM(w))' => Has(Node, "VmProvisioned", VM(w))
    BY <1>1, <1>16 DEF Names
  <2>2. TokenAt("vm", w)' => TokenAt("vm", w)
    BY <1>8 DEF TokenAt
  <2> QED
    BY <1>17, <2>1, <2>2, OwnTokenStays
<1>19. Keeps(w)
  <2>1. \A p \in ChainOfVm : AttributesAt(w, p)' => AttributesAt(w, p)
    BY <1>1, <1>8, <1>16 DEF AttributesAt, Names, ChainNames
  <2>2. \A p \in ChainOfVm : ConfigAt(w, p)' => ConfigAt(w, p)
    BY <1>1, <1>8, <1>10, <1>16 DEF ConfigAt, Names, ChainNames
  <2>3. \A p \in ChainOfVm : EndAt(w, p)' => p = "over" \/ (EndAt(w, p) /\ p # "helper")
    BY <1>1, <1>10, <1>16 DEF EndAt, Names
  <2>4. EndAt(w, "over")' /\ "over" \in ChainOfVm
    BY <1>1, <1>16 DEF EndAt, ChainOfVm, Tracked
  <2>5. OneAttributesAt(w)' /\ OneConfigAt(w)' /\ OneEndAt(w)'
    BY <1>3, <1>4, <2>1, <2>2, <2>3, AttributesStay, ConfigStays, EndMoves
  <2>6. HelperShape(w)'
    BY <1>4, <1>8, <1>10, <2>2 DEF HelperShape, ChainOfVm
  <2>7. \A b, f \in Actors : \A m \in Names \ WorkNames : Has(b, m, f)' <=> Has(b, m, f)
    BY <1>16 DEF WorkNames
  <2>8. (\E p \in ChainOfVm : EndAt(w, p)') <=> (\E p \in ChainOfVm : EndAt(w, p))
    BY <1>3, <2>4
  <2> QED
    BY <1>4, <1>5, <1>6, <1>8, <2>5, <2>6, <2>7, <2>8, ReadyKeeps
<1> QED
  BY <1>11, <1>16, <1>17, <1>18, <1>19, OthersKeep DEF Kept

-----------------------------------------------------------------------------
(* VMProxyActor *)

LEMMA ProxyHead ==
  ASSUME MailShape, NEW w \in Uuids, mail[Proxy(w)] # <<>>, NEW h, h = Head(mail[Proxy(w)])
  PROVE  /\ h.from \in Actors
         /\ h.m = "Init" => h.from = Proxy(w) /\ Name(h) = "Init"
         /\ h.m = "SetActor" => h.from = Node /\ Name(h) = h.data /\ h.data \in {"vm", "instance", "null"}
         /\ h.m = "NoMoreTasks" => h.from = Instances /\ Name(h) = "NoMoreTasks"
         /\ h.m = "SetConfig" => /\ h.from = VM(w) /\ Name(h) = "SetConfig" /\ h.data \in Versions
                                 /\ Has(Proxy(w), "SetConfig", VM(w))
<1>1. Proxy(w) \in Actors /\ VM(w) \in VMs
  BY VmActorsDiffer
<1>2. /\ MayGet(Proxy(w), h) /\ h.from \in Actors
      /\ (Name(h) \in Names /\ Tracked(Proxy(w), Name(h), h.from)) => Has(Proxy(w), Name(h), h.from)
  BY <1>1, HeadHas
<1>3. \/ h.m = "Init" /\ h.from = Proxy(w)
      \/ h.m = "SetActor" /\ h.from = Node /\ h.data \in {"vm", "instance", "null"}
      \/ h.m = "NoMoreTasks" /\ h.from = Instances
      \/ h.m = "SetConfig" /\ h.from = VM(w) /\ h.data \in Versions
  BY <1>2, MayGetIs
<1>4. /\ h.m = "SetActor" => Name(h) = h.data
      /\ h.m # "SetActor" => Name(h) = h.m
  BY DEF Name
<1>5. h.m = "SetConfig" => Has(Proxy(w), "SetConfig", VM(w))
  BY <1>1, <1>2, <1>3, <1>4 DEF Tracked, Names
<1> QED
  BY <1>2, <1>3, <1>4, <1>5

(* A step of a VMProxyActor that goes on *)
LEMMA ProxyStepKeeps ==
  ASSUME Inv, NEW w \in Uuids, MailShape', MailOnce',
         UNCHANGED <<timers, node, monitor, vm, helper, runs, count>>,
         NEW y0 \in ProxyState, proxy' = [proxy EXCEPT ![w] = y0], y0.state = proxy[w].state,
         y0.config # None => proxy[w].config # None \/ Has(Proxy(w), "SetConfig", VM(w)),
         y0.ready => y0.config # None,
         \A b, f \in Actors : \A m \in Names :
           /\ Has(b, m, f)' => Has(b, m, f)
           /\ ~(b = Proxy(w) /\ m = "SetConfig" /\ f = VM(w)) => (Has(b, m, f)' <=> Has(b, m, f))
  PROVE  Kept
<1>1. proxy'[w] = y0 /\ proxy' \in [Uuids -> ProxyState] /\ \A u \in Uuids : u # w => proxy'[u] = proxy[u]
  BY DEF Inv, Shape
<1>2. Shape'
  BY <1>1 DEF Inv, Shape
<1>3. /\ VM(w) \in Actors /\ Proxy(w) \in Actors /\ Node \in Actors /\ Proxy(w) # Node
  BY ActorsDiffer, VmActorsDiffer
<1>4. OwnStep(w)
  BY <1>1 DEF OwnStep, Between, Own
<1>5. OneToken' /\ ConfigKnown'
  <2>1. Has(Node, "VmProvisioned", VM(w))' => Has(Node, "VmProvisioned", VM(w))
    BY <1>3 DEF Names
  <2>2. TokenAt("vm", w)' => TokenAt("vm", w)
    BY DEF TokenAt
  <2> QED
    BY <1>4, <2>1, <2>2, OwnTokenStays
<1>6. Keeps(w)
  <2>1. BoxFades(w)
    BY DEF BoxFades
  <2>2. VmFades(w)
    BY <1>1, <2>1 DEF VmFades
  <2>3. MapStays(w)
    BY <1>3 DEF MapStays, Names, ChainNames
  <2> QED
    BY <2>2, <2>3, FadingKeeps DEF Inv
<1> QED
  BY <1>2, <1>4, <1>5, <1>6, OthersKeep DEF Kept

LEMMA ProxyInitKeeps ==
  ASSUME Inv, NEW w \in Uuids, ProxyInit(w)
  PROVE  Kept
<1> DEFINE a == Proxy(w)
<1>1. mail[a] # <<>> /\ Head(mail[a]).from = a /\ Name(Head(mail[a])) = "Init"
  BY ProxyHead DEF Receives, ProxyInit, Inv
<1>2. a \in Actors /\ a \in Proxies /\ a \notin VMs /\ Node \in Actors /\ a # Node /\ Node \notin VMs
  BY ActorsDiffer, VmActorsDiffer, OthersAreNoVms
<1> DEFINE x == Msg("GetVmActor", a)
           y == Msg("GetInstanceActor", a)
<1>3. "GetVmActor" \in Names /\ "GetInstanceActor" \in Names
  BY DEF Names
<1>4. /\ x \in Messages /\ Name(x) = "GetVmActor" /\ x.m = "GetVmActor" /\ x.from = a
      /\ y \in Messages /\ Name(y) = "GetInstanceActor" /\ y.m = "GetInstanceActor" /\ y.from = a
  BY <1>2, <1>3, MsgType
<1>5. mail' = Handled(a, {<<Node, <<x, y>> >>})
  BY DEF ProxyInit
<1> HIDE DEF x, y
<1>6. /\ ~Tracked(Node, "GetVmActor", a) /\ ~Tracked(Node, "GetInstanceActor", a)
      /\ ~Tracked(a, "Init", a)
  BY <1>2 DEF Tracked, ChainNames
<1>7. MayGet(Node, x) /\ MayGet(Node, y)
  BY <1>2, <1>4, MayGetIs
<1>8. MaySend(Node, x) /\ MaySend(Node, y)
  BY <1>2, <1>4, <1>6, <1>7 DEF MaySend
<1>9. /\ MailShape' /\ MailOnce'
      /\ \A b, f \in Actors : \A m \in Names :
           Has(b, m, f)' <=>
             \/ Has(b, m, f) /\ ~(b = a /\ m = "Init" /\ f = a)
             \/ Tracked(b, m, f) /\ b = Node /\ m = "GetVmActor" /\ f = a
             \/ Tracked(b, m, f) /\ b = Node /\ m = "GetInstanceActor" /\ f = a
  <2> HIDE DEF a
  <2> QED
    BY <1>1, <1>2, <1>4, <1>5, <1>8, PairForOne DEF Inv
<1>10. \A b, f \in Actors : \A m \in Names : Has(b, m, f)' <=> Has(b, m, f)
  BY <1>2, <1>6, <1>9, HasDef
<1>11. PICK y0 : y0 = [proxy[w] EXCEPT !.ready = FALSE]
  OBVIOUS
<1>12. proxy[w] \in ProxyState
  BY DEF Inv, Shape
<1>13. y0 \in ProxyState /\ y0.state = proxy[w].state /\ y0.config = proxy[w].config /\ ~y0.ready
  BY <1>11, <1>12 DEF ProxyState
<1>14. proxy' = [proxy EXCEPT ![w] = y0]
  BY <1>11 DEF ProxyInit
<1> QED
  BY <1>9, <1>10, <1>13, <1>14, ProxyStepKeeps DEF ProxyInit

LEMMA ProxySetActorKeeps ==
  ASSUME Inv, NEW w \in Uuids, ProxySetActor(w)
  PROVE  Kept
<1> DEFINE a == Proxy(w)
<1>1. PICK d : d = Head(mail[Proxy(w)]).data
  OBVIOUS
<1>2. /\ mail[a] # <<>> /\ Head(mail[a]).from = Node /\ Name(Head(mail[a])) = d
      /\ d \in {"vm", "instance", "null"}
  BY <1>1, ProxyHead DEF Receives, ProxySetActor, Inv
<1>3. a \in Actors /\ a \notin VMs /\ Node \in Actors /\ Node \notin VMs
  BY ActorsDiffer, VmActorsDiffer, OthersAreNoVms
<1>4. ~Tracked(a, d, Node)
  BY <1>2, <1>3 DEF Tracked, ChainNames
<1>5. /\ MailShape' /\ MailOnce'
      /\ \A b, f \in Actors : \A m \in Names :
           Has(b, m, f)' <=> Has(b, m, f) /\ ~(b = a /\ m = d /\ f = Node)
  <2> HIDE DEF a
  <2> QED
    BY <1>2, <1>3, NoneForOne DEF Inv, ProxySetActor, a
<1>6. \A b, f \in Actors : \A m \in Names : Has(b, m, f)' <=> Has(b, m, f)
  BY <1>3, <1>4, <1>5, HasDef
<1>7. PICK y1 : y1 = [proxy[w] EXCEPT !.refs = proxy[w].refs \cup ({d} \ {"null"})]
  OBVIOUS
<1>8. PICK y0 : y0 = Ready(y1)
  OBVIOUS
<1>9. proxy[w] \in ProxyState /\ (proxy[w].ready => proxy[w].config # None)
  BY DEF Inv, Shape, VmInv, ProxyAndVm
<1>10. /\ y1 \in ProxyState /\ y1.state = proxy[w].state /\ y1.config = proxy[w].config
       /\ y1.ready = proxy[w].ready
  BY <1>2, <1>7, <1>9 DEF ProxyState
<1>11. /\ y0 \in ProxyState /\ y0.state = proxy[w].state /\ y0.config = proxy[w].config
       /\ y0.ready => y0.config # None
  BY <1>8, <1>9, <1>10 DEF Ready, ProxyState
<1>12. proxy' = [proxy EXCEPT ![w] = y0]
  BY <1>1, <1>7, <1>8 DEF ProxySetActor, Data
<1> QED
  BY <1>5, <1>6, <1>11, <1>12, ProxyStepKeeps DEF ProxySetActor

(* SetVagrantEnvironmentConfig: the VMProxyActor gets to know its config. *)
LEMMA ProxySetConfigKeeps ==
  ASSUME Inv, NEW w \in Uuids, ProxySetConfig(w)
  PROVE  Kept
<1> DEFINE a == Proxy(w)
<1>1. PICK d : d = Head(mail[Proxy(w)]).data
  OBVIOUS
<1>2. /\ mail[a] # <<>> /\ Head(mail[a]).from = VM(w) /\ Name(Head(mail[a])) = "SetConfig"
      /\ d \in Versions /\ Has(a, "SetConfig", VM(w))
  BY <1>1, ProxyHead DEF Receives, ProxySetConfig, Inv
<1>3. a \in Actors /\ VM(w) \in Actors
  BY VmActorsDiffer
<1>4. /\ MailShape' /\ MailOnce'
      /\ \A b, f \in Actors : \A m \in Names :
           Has(b, m, f)' <=> Has(b, m, f) /\ ~(b = a /\ m = "SetConfig" /\ f = VM(w))
  <2> HIDE DEF a
  <2> QED
    BY <1>2, <1>3, NoneForOne DEF Inv, ProxySetConfig, a
<1>5. PICK t \in {"none", "polls", "nobody"} :
        t = IF proxy[w].timer = "none"
            THEN IF "instance" \in proxy[w].refs THEN "polls" ELSE "nobody"
            ELSE proxy[w].timer
  BY DEF Inv, Shape, ProxyState
<1>6. PICK y1 : y1 = [proxy[w] EXCEPT !.config = d, !.timer = t]
  OBVIOUS
<1>7. PICK y0 : y0 = Ready(y1)
  OBVIOUS
<1>8. proxy[w] \in ProxyState /\ d # None
  BY <1>2, LifecycleAssumption DEF Inv, Shape
<1>9. /\ y1 \in ProxyState /\ y1.state = proxy[w].state /\ y1.config = d
  BY <1>2, <1>6, <1>8 DEF ProxyState
<1>10. y0 \in ProxyState /\ y0.state = proxy[w].state /\ y0.config = d
  BY <1>7, <1>9 DEF Ready, ProxyState
<1>11. proxy' = [proxy EXCEPT ![w] = y0]
  BY <1>1, <1>5, <1>6, <1>7 DEF ProxySetConfig, Data
<1> QED
  BY <1>2, <1>4, <1>8, <1>10, <1>11, ProxyStepKeeps DEF ProxySetConfig

(* The timer of the VMProxyActor *)
LEMMA ProxyPollsKeeps ==
  ASSUME Inv, NEW w \in Uuids, ProxyPolls(w)
  PROVE  Kept
<1> DEFINE a == Proxy(w)
<1>1. a \in Actors /\ a \in Proxies /\ a \notin VMs /\ Instances \in Actors /\ Instances \notin VMs
  BY ActorsDiffer, VmActorsDiffer, OthersAreNoVms
<1>2. PICK d : d = proxy[w].config
  OBVIOUS
<1>3. d \in Versions \cup {None}
  BY <1>2 DEF Inv, Shape, ProxyState
<1> DEFINE x == MsgWith("GetTask", a, d)
<1>4. "GetTask" \in Names
  BY DEF Names
<1>5. x \in Messages /\ Name(x) = "GetTask" /\ x.m = "GetTask" /\ x.from = a
  BY <1>1, <1>3, <1>4, MsgWithType
<1>6. mail' = [mail EXCEPT ![Instances] = Append(@, x)]
  BY <1>2 DEF ProxyPolls
<1> HIDE DEF x
<1>7. ~Tracked(Instances, "GetTask", a)
  BY <1>1 DEF Tracked, ChainNames
<1>8. MayGet(Instances, x)
  BY <1>1, <1>5, MayGetIs
<1>9. MaySend(Instances, x)
  BY <1>1, <1>5, <1>7, <1>8 DEF MaySend
<1>10. /\ MailShape' /\ MailOnce'
       /\ \A b, f \in Actors : \A m \in Names :
            Has(b, m, f)' <=> Has(b, m, f) \/ (Tracked(b, m, f) /\ b = Instances /\ m = "GetTask" /\ f = a)
  <2> HIDE DEF a
  <2>1. PICK c : c = Instances
    OBVIOUS
  <2>2. MaySend(c, x) /\ mail' = [mail EXCEPT ![c] = Append(@, x)]
    BY <1>6, <1>9, <2>1
  <2>3. /\ MailShape' /\ MailOnce'
        /\ \A b, f \in Actors : \A m \in Names :
             Has(b, m, f)' <=> Has(b, m, f) \/ (Tracked(b, m, f) /\ b = c /\ m = Name(x) /\ f = x.from)
    BY <2>2, AppendedBoxes DEF Inv
  <2> QED
    BY <1>5, <2>1, <2>3
<1>11. \A b, f \in Actors : \A m \in Names : Has(b, m, f)' <=> Has(b, m, f)
  BY <1>7, <1>10
<1>12. /\ node' = node /\ monitor' = monitor /\ timers' = timers /\ vm' = vm /\ proxy' = proxy
       /\ helper' = helper /\ Shape'
  BY DEF ProxyPolls, Inv, Shape
<1> QED
  BY <1>10, <1>11, <1>12, CalmKeeps DEF Kept

(* NoMoreTasks: the VMProxyActor tells its VMActor and goes. *)
LEMMA ProxyNoMoreTasksKeeps ==
  ASSUME Inv, NEW w \in Uuids, ProxyNoMoreTasks(w)
  PROVE  Kept
<1> DEFINE a == VM(w)
           pr == Proxy(w)
<1>1. /\ mail[pr] # <<>> /\ Head(mail[pr]).from = Instances
      /\ Name(Head(mail[pr])) = "NoMoreTasks"
  BY ProxyHead DEF Receives, ProxyNoMoreTasks, Inv
<1>2. /\ VmInv(w) /\ OneEndAt(w) /\ proxy[w].ready
  BY EachIsOne DEF Inv, VmInv, ProxyNoMoreTasks
<1>3. proxy[w].config # None /\ vm[w].provisioned /\ proxy[w].state = "up"
  BY <1>2 DEF VmInv, ProxyAndVm
<1>4. ConfigAt(w, "done") /\ "done" \in ChainOfVm
  BY <1>3 DEF ConfigAt, ChainOfVm
<1>5. CheckReady(vm[w]) /\ vm[w].state = "up"
  BY <1>2, <1>4, BusyIsReady DEF Busy
<1>6. \A p \in ChainOfVm : ~EndAt(w, p)
  BY <1>2, <1>3 DEF VmInv, ProxyAndVm
<1>7. /\ a \in Actors /\ a \in VMs /\ Node \in Actors /\ Instances \in Actors /\ Monitor \in Actors
      /\ Status \in Actors /\ pr \in Actors /\ a \notin {Node, Instances, Monitor, Status, pr}
      /\ pr \notin {Node, Instances, Monitor, Status} /\ Node # Status /\ Instances # Status /\ Monitor # Status
      /\ Node # Instances /\ Node # Monitor /\ pr \in Proxies
  BY ActorsDiffer, VmActorsDiffer
<1>8. PICK y0 : y0 = [NoProxy EXCEPT !.state = "gone"]
  OBVIOUS
<1>9. y0 \in ProxyState /\ y0.state = "gone" /\ y0.config = None /\ ~y0.ready
  BY <1>8 DEF ProxyState, NoProxy
<1>10. proxy'[w] = y0 /\ proxy' \in [Uuids -> ProxyState] /\ \A u \in Uuids : u # w => proxy'[u] = proxy[u]
  BY <1>8, <1>9 DEF ProxyNoMoreTasks, Inv, Shape
<1>11. /\ node' = node /\ monitor' = monitor /\ timers' = timers /\ vm' = vm /\ helper' = helper
       /\ runs' = runs /\ count' = count
  BY DEF ProxyNoMoreTasks
<1>12. Shape'
  BY <1>10, <1>11 DEF Inv, Shape
<1> DEFINE x == Msg("NoMoreTasks", pr)
           y == Msg("RemoveVmActor", pr)
           sends == {<<a, <<x>> >>, <<Node, <<y>> >>}
<1>13. "RemoveVmActor" \in Names /\ "NoMoreTasks" \in Names
  BY DEF Names, ChainNames
<1>14. /\ x \in Messages /\ Name(x) = "NoMoreTasks" /\ x.m = "NoMoreTasks" /\ x.from = pr
       /\ y \in Messages /\ Name(y) = "RemoveVmActor" /\ y.m = "RemoveVmActor" /\ y.from = pr
  BY <1>7, <1>13, MsgType
<1>15. mail' = [Handled(pr, sends) EXCEPT ![pr] = <<>>]
  BY DEF ProxyNoMoreTasks
<1> HIDE DEF x, y
<1>16. MayGet(a, x) /\ MayGet(Node, y)
  BY <1>7, <1>14, MayGetIs
<1>17. ~Has(a, "NoMoreTasks", pr) /\ ~Has(Node, "RemoveVmActor", pr)
  <2>1. ~EndAt(w, "told")
    BY <1>6 DEF ChainOfVm
  <2>2. ~Has(Node, "RemoveVmActor", pr)
    BY <1>2, <1>3 DEF VmInv, Reports
  <2> QED
    BY <2>1, <2>2 DEF EndAt
<1>18. MaySend(a, x) /\ MaySend(Node, y)
  BY <1>7, <1>13, <1>14, <1>16, <1>17 DEF MaySend
<1>19. /\ Sendable(sends)
       /\ \A b, m, f : Sent(sends, b, m, f) <=> \/ b = a /\ m = "NoMoreTasks" /\ f = pr
                                                \/ b = Node /\ m = "RemoveVmActor" /\ f = pr
  <2> HIDE DEF a, pr
  <2> QED
    BY <1>7, <1>14, <1>18, SendTwo
<1> HIDE DEF sends
<1>20. /\ MailShape' /\ MailOnce'
       /\ \A b, f \in Actors : \A m \in Names :
            Has(b, m, f)' <=> b # pr /\ (Has(b, m, f) \/ (Tracked(b, m, f) /\ Sent(sends, b, m, f)))
  <2> HIDE DEF a, pr
  <2> QED
    BY <1>1, <1>7, <1>15, <1>19, StoppedBoxes DEF Inv
<1>21. \A b, f \in Actors : \A m \in Names :
         Has(b, m, f)' <=>
           /\ b # pr
           /\ \/ Has(b, m, f)
              \/ b = a /\ m = "NoMoreTasks" /\ f = pr
              \/ b = Node /\ m = "RemoveVmActor" /\ f = pr
  BY <1>7, <1>19, <1>20 DEF Tracked, ChainNames
<1>22. \A f \in Actors : \A m \in Names : Has(pr, m, f) => f \in Own(w)
  <2> SUFFICES ASSUME NEW f \in Actors, NEW m \in Names, Has(pr, m, f) PROVE f \in Own(w)
    OBVIOUS
  <2>1. In(mail[pr], m, f)
    BY <1>7, HasDef
  <2>2. PICK i \in 1 .. Len(mail[pr]) : mail[pr][i].from = f
    BY <2>1 DEF In
  <2>3. MayGet(pr, mail[pr][i])
    BY <1>7 DEF Inv, MailShape
  <2> QED
    BY <2>2, <2>3, MayGetIs DEF Own
<1>23. OwnStep(w)
  <2>1. \A b, f \in Actors : \A m \in Names : ~Between(w, b, f) => (Has(b, m, f)' <=> Has(b, m, f))
    BY <1>21, <1>22 DEF Between, Own
  <2> QED
    BY <1>10, <1>11, <2>1 DEF OwnStep
<1>24. OneToken' /\ ConfigKnown'
  <2>1. Has(Node, "VmProvisioned", VM(w))' => Has(Node, "VmProvisioned", VM(w))
    BY <1>7, <1>21 DEF Names
  <2>2. TokenAt("vm", w)' => TokenAt("vm", w)
    BY <1>11 DEF TokenAt
  <2> QED
    BY <1>23, <2>1, <2>2, OwnTokenStays
<1>25. \A b, f \in Actors : \A m \in Names :
         b # pr /\ f # pr => (Has(b, m, f)' <=> Has(b, m, f))
  BY <1>21
<1>26. Keeps(w)
  <2>1. \A p \in ChainOfVm : AttributesAt(w, p)' => AttributesAt(w, p)
    BY <1>7, <1>11, <1>25 DEF AttributesAt, Names, ChainNames
  <2>2. \A p \in ChainOfVm : ConfigAt(w, p)' => ConfigAt(w, p)
    BY <1>7, <1>11, <1>25 DEF ConfigAt, Names, ChainNames
  <2>3. \A p \in ChainOfVm : EndAt(w, p)' => p = "told"
    <3>1. \A p \in ChainOfVm : EndAt(w, p)' => EndAt(w, p) \/ p = "told"
      BY <1>7, <1>11, <1>25 DEF EndAt, Names
    <3> QED
      BY <1>6, <3>1
  <2>4. EndAt(w, "told")' /\ "told" \in ChainOfVm
    BY <1>7, <1>13, <1>21 DEF EndAt, ChainOfVm
  <2>5. OneAttributesAt(w)' /\ OneConfigAt(w)' /\ OneEndAt(w)'
    BY <1>2, <2>1, <2>2, <2>3, AttributesStay, ConfigStays DEF OneEndAt
  <2>6. OneReference(w)'
    <3>1. \A k \in Kinds : Getter(k) \in Names /\ k \in Names
      BY Getters DEF Kinds, Names
    <3>2. /\ Has(a, "Init", a)' <=> Has(a, "Init", a)
          /\ Has(a, "proxy", Node)' <=> Has(a, "proxy", Node)
          /\ Has(a, "null", Node)' <=> Has(a, "null", Node)
      BY <1>7, <1>25 DEF Names, Kinds
    <3>3. \A k \in Kinds : /\ AnswerTo(w, k)' <=> AnswerTo(w, k)
                           /\ Has(Node, Getter(k), a)' <=> Has(Node, Getter(k), a)
      BY <1>7, <1>25, <3>1, <3>2 DEF AnswerTo
    <3>4. OneReference(w) /\ vm'[w].refs = vm[w].refs
      BY <1>2, <1>11 DEF VmInv
    <3> QED
      BY <3>2, <3>3, <3>4, Zenon DEF OneReference
  <2>7. OneOfEach(w)'
    BY <2>5, EachIsOne
  <2>8. ChainsBegin(w)' /\ VmAbsent(w)' /\ NotYet(w)'
    BY <1>5, <1>9, <1>10, <1>11 DEF ChainsBegin, VmAbsent, NotYet, CheckReady
  <2>9. HelperShape(w)'
    BY <1>2, <1>11, <2>2 DEF VmInv, HelperShape, ChainOfVm
  <2>10. ProxyAndVm(w)'
    <3>1. ~Has(pr, "SetConfig", a)'
      BY <1>7, <1>21 DEF Names
    <3> QED
      BY <1>2, <1>3, <1>5, <1>9, <1>10, <1>11, <2>4, <3>1 DEF VmInv, ProxyAndVm, CheckReady
  <2>11. Reports(w)'
    <3>1. /\ Has(Node, "RemoveVmActor", a)' <=> Has(Node, "RemoveVmActor", a)
          /\ Has(Status, "DeregisterVmActor", a)' <=> Has(Status, "DeregisterVmActor", a)
          /\ Has(Status, "RegisterVmActor", a)' <=> Has(Status, "RegisterVmActor", a)
          /\ Has(Node, "VmProvisioned", a)' <=> Has(Node, "VmProvisioned", a)
      BY <1>7, <1>13, <1>25 DEF Names
    <3> QED
      BY <1>2, <1>9, <1>10, <1>11, <3>1 DEF VmInv, Reports, Served
  <2>12. InMap(w)'
    <3>1. /\ Has(Node, "RemoveVmActor", a)' <=> Has(Node, "RemoveVmActor", a)
          /\ Has(Node, "RemoveVmActor", pr)'
      BY <1>7, <1>13, <1>21
    <3> QED
      BY <1>2, <1>3, <1>11, <3>1 DEF VmInv, InMap
  <2>13. Reg(w) => Reg(w)'
    BY <1>7, <1>11, <1>25 DEF Reg, Served, Names
  <2> QED
    BY <2>6, <2>7, <2>8, <2>9, <2>10, <2>11, <2>12, <2>13 DEF Keeps, VmInv
<1> QED
  BY <1>12, <1>20, <1>23, <1>24, <1>26, OthersKeep DEF Kept

-----------------------------------------------------------------------------
(* The count of the GlobalStatusActor *)

LEMMA RegisteredFinite ==
  IsFiniteSet(Registered) /\ Cardinality(Registered) \in Nat /\ Cardinality(Registered) <= Cardinality(Uuids)
<1>1. PICK R : R = Registered
  OBVIOUS
<1>2. R \in SUBSET Uuids
  BY <1>1 DEF Registered
<1> QED
  BY <1>1, <1>2, LifecycleAssumption, FS_Subset, FS_CardinalityType

LEMMA RegisteredGrows ==
  ASSUME Kept
  PROVE  /\ Registered \subseteq Registered' /\ Registered' \subseteq Uuids
         /\ Cardinality(Registered) <= Cardinality(Registered')
<1>1. PICK R : R = Registered
  OBVIOUS
<1>2. PICK S : S = Registered'
  OBVIOUS
<1>3. R \subseteq S /\ S \subseteq Uuids
  BY <1>1, <1>2 DEF Registered, Kept, Keeps, Reg
<1>4. IsFiniteSet(S)
  BY <1>3, LifecycleAssumption, FS_Subset
<1>5. Cardinality(R) <= Cardinality(S)
  BY <1>3, <1>4, FS_Subset
<1> QED
  BY <1>1, <1>2, <1>3, <1>5

LEMMA CountStays ==
  ASSUME NodeInv, Kept, count' = count
  PROVE  NodeInv'
<1>1. PICK k : k = Cardinality(Registered)
  OBVIOUS
<1>2. PICK l : l = Cardinality(Registered')
  OBVIOUS
<1>3. k \in Nat /\ l \in Nat
  <2>1. IsFiniteSet(Registered')
    BY RegisteredGrows, LifecycleAssumption, FS_Subset
  <2> QED
    BY <1>1, <1>2, <2>1, RegisteredFinite, FS_CardinalityType
<1>4. k <= l
  BY <1>1, <1>2, RegisteredGrows
<1>5. count <= k /\ count \in Nat
  BY <1>1 DEF NodeInv, Shape
<1>6. count' <= l
  BY <1>3, <1>4, <1>5
<1> QED
  BY <1>2, <1>6 DEF NodeInv, Kept, Keeps

LEMMA StatusCounts ==
  ASSUME NodeInv, StatusRegisterVmActor \/ StatusDeregisterVmActor
  PROVE  NodeInv'
<1>1. Inv
  BY DEF Inv, NodeInv
<1>2. PICK w \in Uuids : \E n \in {"RegisterVmActor", "DeregisterVmActor"} :
        Head(mail[Status]).m = n /\ Has(Status, n, VM(w)) /\ ~Has(Status, n, VM(w))'
  BY <1>1, StatusKeeps
<1>3. Kept
  BY <1>1, StatusKeeps
<1>4. PICK R : R = Registered
  OBVIOUS
<1>5. PICK S : S = Registered'
  OBVIOUS
<1>6. R \subseteq S /\ S \subseteq Uuids
  BY <1>3, <1>4, <1>5, RegisteredGrows
<1>7. IsFiniteSet(S) /\ IsFiniteSet(R)
  BY <1>6, LifecycleAssumption, FS_Subset
<1>8. Cardinality(S) \in Nat /\ Cardinality(R) \in Nat /\ Cardinality(R) <= Cardinality(S)
  BY <1>6, <1>7, FS_CardinalityType, FS_Subset
<1>9. count \in Nat /\ count <= Cardinality(R)
  BY <1>4 DEF NodeInv, Shape
<1>10. CASE StatusRegisterVmActor
  <2>1. Has(Status, "RegisterVmActor", VM(w)) /\ ~Has(Status, "RegisterVmActor", VM(w))'
    BY <1>2, <1>10 DEF StatusRegisterVmActor, Receives
  <2>2. Served(w) /\ vm' = vm
    BY <1>10, <2>1 DEF NodeInv, VmInv, Reports, StatusRegisterVmActor
  <2>3. w \notin R /\ w \in S
    BY <1>4, <1>5, <2>1, <2>2 DEF Registered, Served
  <2>4. Cardinality(R \cup {w}) = Cardinality(R) + 1 /\ IsFiniteSet(R \cup {w})
    BY <1>7, <2>3, FS_AddElement
  <2>5. R \cup {w} \subseteq S
    BY <1>6, <2>3
  <2>6. Cardinality(R \cup {w}) <= Cardinality(S)
    BY <1>7, <2>5, FS_Subset
  <2>7. count' <= Cardinality(S)
    BY <1>8, <1>9, <1>10, <2>4, <2>6 DEF StatusRegisterVmActor
  <2> QED
    BY <1>3, <1>5, <2>7 DEF NodeInv, Kept, Keeps
<1>11. CASE StatusDeregisterVmActor
  <2>1. count' <= Cardinality(S)
    BY <1>8, <1>9, <1>11 DEF StatusDeregisterVmActor
  <2> QED
    BY <1>3, <1>5, <2>1 DEF NodeInv, Kept, Keeps
<1> QED
  BY <1>10, <1>11

-----------------------------------------------------------------------------
(* The invariant is inductive *)

LEMMA NodeInvInit == Init => NodeInv
<1> SUFFICES ASSUME Init PROVE NodeInv
  OBVIOUS
<1> DEFINE x == Msg("Init", Node)
<1>1. Node \in Actors /\ Node \notin VMs /\ Node \notin Proxies
  BY ActorsDiffer, OthersAreNoVms
<1>2. x \in Messages /\ Name(x) = "Init" /\ x.m = "Init" /\ x.from = Node
  <2>1. "Init" \in Names
    BY DEF Names
  <2> QED
    BY <1>1, <2>1, MsgType
<1>3. /\ DOMAIN mail = Actors /\ mail[Node] = <<x>>
      /\ \A b \in Actors : b # Node => mail[b] = <<>>
  BY <1>1 DEF Init
<1>4. MayGet(Node, x)
  BY <1>2, MayGetIs
<1> HIDE DEF x
<1>5. MailShape
  <2>1. <<x>> \in Seq(Messages) /\ Len(<<x>>) = 1 /\ <<x>>[1] = x
    BY <1>2
  <2>2. <<>> \in Seq(Messages) /\ Len(<<>>) = 0
    OBVIOUS
  <2>3. ASSUME NEW b \in Actors
        PROVE  mail[b] \in Seq(Messages) /\ \A i \in 1 .. Len(mail[b]) : MayGet(b, mail[b][i])
    <3>1. CASE b = Node
      <4>1. mail[b] = <<x>> /\ \A i \in 1 .. 1 : i = 1
        BY <1>3, <3>1
      <4>2. Len(mail[b]) = 1 /\ mail[b][1] = x /\ mail[b] \in Seq(Messages)
        BY <2>1, <4>1
      <4> QED
        BY <1>4, <3>1, <4>1, <4>2
    <3>2. CASE b # Node
      <4>1. mail[b] = <<>> /\ 1 .. 0 = {}
        BY <1>3, <3>2
      <4>2. Len(mail[b]) = 0 /\ mail[b] \in Seq(Messages)
        BY <2>2, <4>1
      <4> QED
        BY <4>1, <4>2
    <3> QED
      BY <3>1, <3>2
  <2> QED
    BY <1>3, <2>3 DEF MailShape
<1>6. \A b, f \in Actors : \A m \in Names : Tracked(b, m, f) => Once(mail[b], m, f) /\ ~In(mail[b], m, f)
  <2> SUFFICES ASSUME NEW b \in Actors, NEW f \in Actors, NEW m \in Names, Tracked(b, m, f)
               PROVE  Once(mail[b], m, f) /\ ~In(mail[b], m, f)
    OBVIOUS
  <2>1. CASE b = Node
    <3>1. ~(m = Name(x) /\ f = x.from)
      BY <1>1, <1>2, <2>1 DEF Tracked, ChainNames
    <3> QED
      BY <1>3, <2>1, <3>1, InSingle
  <2>2. CASE b # Node
    BY <1>3, <2>2, InEmpty
  <2> QED
    BY <2>1, <2>2
<1>7. MailOnce /\ \A b, f \in Actors : \A m \in Names : ~Has(b, m, f)
  BY <1>6, HasDef DEF MailOnce
<1>8. /\ timers = EmptyBag /\ monitor.state = "none" /\ node.vmActors = {} /\ count = 0
      /\ \A u \in Uuids : vm[u] = NoVM /\ proxy[u] = NoProxy /\ helper[u] = EmptyBag
  BY DEF Init
<1>9. DOMAIN EmptyBag = {}
  BY DEF EmptyBag, SetToBag
<1>10. Shape
  BY <1>8, <1>9 DEF Init, Shape, VMState, ProxyState, NoVM, NoProxy
<1>11. /\ Node \in Actors /\ Monitor \in Actors /\ Instances \in Actors /\ Status \in Actors
       /\ \A u \in Uuids : VM(u) \in Actors /\ Proxy(u) \in Actors
  BY ActorsDiffer, VmActorsDiffer
<1>12. \A p \in ChainOfNode : \A u \in Uuids \cup {None} : TokenAt(p, u) => p = "start" /\ u = None
  BY <1>7, <1>8, <1>9, <1>11 DEF TokenAt, Names, ChainNames, NoVM
<1>13. OneToken /\ ConfigKnown
  <2>1. OneToken
    BY <1>12 DEF OneToken
  <2>2. ConfigKnown
    BY <1>12 DEF ConfigKnown, ChainOfNode
  <2> QED
    BY <2>1, <2>2
<1>14. ASSUME NEW u \in Uuids PROVE VmInv(u)
  <2>1. /\ vm[u].state = "none" /\ ~vm[u].ready /\ vm[u].refs = {} /\ vm[u].config = None
        /\ ~vm[u].attributes /\ ~vm[u].provisioned
        /\ proxy[u].state = "none" /\ ~proxy[u].ready /\ proxy[u].config = None
    BY <1>8 DEF NoVM, NoProxy
  <2>2. \A p \in ChainOfVm : ~AttributesAt(u, p) /\ ~ConfigAt(u, p) /\ ~EndAt(u, p)
    BY <1>7, <1>8, <1>9, <1>11, <2>1 DEF AttributesAt, ConfigAt, EndAt, Names, ChainNames
  <2>3. \A k \in Kinds : ~Has(Node, Getter(k), VM(u)) /\ ~AnswerTo(u, k)
    <3>1. \A k \in Kinds : Getter(k) \in Names /\ k \in Names
      BY Getters DEF Kinds, Names
    <3> QED
      BY <1>7, <1>11, <3>1 DEF AnswerTo, Names
  <2>4. /\ ~Has(VM(u), "Init", VM(u)) /\ ~Has(VM(u), "null", Node) /\ ~Has(Proxy(u), "SetConfig", VM(u))
        /\ ~Has(Node, "RemoveVmActor", VM(u)) /\ ~Has(Node, "RemoveVmActor", Proxy(u))
        /\ ~Has(Status, "DeregisterVmActor", VM(u)) /\ ~Has(Status, "RegisterVmActor", VM(u))
        /\ ~Has(Node, "VmProvisioned", VM(u))
    BY <1>7, <1>11 DEF Names, ChainNames
  <2>5. OneReference(u)
    BY <2>3, <2>4 DEF OneReference
  <2>6. OneOfEach(u) /\ ChainsBegin(u) /\ VmAbsent(u) /\ NotYet(u)
    BY <2>1, <2>2, <2>3, <2>4 DEF OneOfEach, ChainsBegin, VmAbsent, NotYet
  <2>7. HelperShape(u)
    <3>1. \A p \in {"helper", "running", "not", "done"} : p \in ChainOfVm
      BY DEF ChainOfVm
    <3> QED
      BY <1>8, <1>9, <2>2, <3>1 DEF HelperShape
  <2>8. ProxyAndVm(u) /\ Reports(u) /\ InMap(u)
    BY <1>8, <2>1, <2>2, <2>4 DEF ProxyAndVm, Reports, InMap
  <2> QED
    BY <2>5, <2>6, <2>7, <2>8 DEF VmInv
<1>15. count <= Cardinality(Registered)
  BY <1>8, RegisteredFinite
<1> QED
  BY <1>5, <1>7, <1>10, <1>13, <1>14, <1>15 DEF NodeInv

LEMMA StutterKeeps ==
  ASSUME Inv, UNCHANGED vars
  PROVE  Kept
<1>1. /\ mail' = mail /\ timers' = timers /\ node' = node /\ monitor' = monitor /\ vm' = vm
      /\ proxy' = proxy /\ helper' = helper /\ runs' = runs /\ count' = count
  BY DEF vars
<1>2. Shape'
  BY <1>1 DEF Inv, Shape
<1>3. MailShape' /\ MailOnce'
  BY <1>1 DEF Inv, MailShape, MailOnce
<1>4. \A b, f \in Actors : \A m \in Names : Has(b, m, f)' <=> Has(b, m, f)
  BY <1>1, HasDef
<1> QED
  BY <1>1, <1>2, <1>3, <1>4, CalmKeeps DEF Kept

LEMMA NodeInvStep == NodeInv /\ [Next]_vars => NodeInv'
<1> SUFFICES ASSUME NodeInv, [Next]_vars PROVE NodeInv'
  OBVIOUS
<1>1. Inv
  BY DEF Inv, NodeInv
<1>2. CASE UNCHANGED vars
  BY <1>1, <1>2, StutterKeeps, CountStays DEF vars
<1>3. CASE NodeStep
  <2>1. ASSUME NEW u \in Uuids, NodeAddVm(u) PROVE Kept
    BY <1>1, <2>1, NodeAddVmKeeps
  <2>2. Kept
    BY <1>1, <1>3, <2>1, NodeInitKeeps, NodeSetActorKeeps, NodeAnswersKeeps, NodeAddVmActorKeeps,
       NodeNoDeployInfoKeeps, NodeDeployInfoKeeps, NodeCannotAddVmKeeps, NodeVmProvisionedKeeps,
       NodeRemoveVmActorKeeps, NodeNotReadyJetKeeps DEF NodeStep
  <2>3. count' = count
    BY <1>3 DEF NodeStep, NodeInit, NodeSetActor, NodeAnswers, NodeAddVmActor, NodeNoDeployInfo,
       NodeDeployInfo, NodeCannotAddVm, NodeVmProvisioned, NodeRemoveVmActor, NodeNotReadyJet, NodeAddVm
  <2> QED
    BY <2>2, <2>3, CountStays
<1>4. CASE MonitorStep
  <2>1. Kept
    BY <1>1, <1>4, MonitorInitKeeps, MonitorSetActorKeeps, MonitorGetSystemAttributesKeeps DEF MonitorStep
  <2>2. count' = count
    BY <1>4 DEF MonitorStep, MonitorInit, MonitorSetActor, MonitorGetSystemAttributes
  <2> QED
    BY <2>1, <2>2, CountStays
<1>5. CASE MasterStep
  <2>1. CASE MasterAnswers \/ InstGetDeployInfo \/ InstGetTask
    <3>1. Kept
      BY <1>1, <2>1, MasterAnswersKeeps, InstGetDeployInfoKeeps, InstGetTaskKeeps
    <3>2. count' = count
      BY <2>1 DEF MasterAnswers, InstGetDeployInfo, InstGetTask
    <3> QED
      BY <3>1, <3>2, CountStays
  <2>2. CASE StatusRegisterVmActor \/ StatusDeregisterVmActor
    BY <2>2, StatusCounts
  <2> QED
    BY <1>5, <2>1, <2>2 DEF MasterStep
<1>6. ASSUME NEW v \in Versions, Upload(v) \/ RunDone(v) PROVE NodeInv'
  <2>1. count' = count
    BY <1>6 DEF Upload, RunDone
  <2> QED
    BY <1>1, <1>6, <2>1, RunsKeep, CountStays
<1>7. ASSUME NEW tm \in DOMAIN timers, Fire(tm) PROVE NodeInv'
  <2>1. count' = count
    BY <1>7 DEF Fire
  <2>2. Kept
    BY <1>1, <1>7, FireKeeps
  <2> QED
    BY <2>1, <2>2, CountStays
<1>8. ASSUME NEW u \in Uuids, VMStep(u) PROVE NodeInv'
  <2>1. Kept
    BY <1>1, <1>8, VMInitKeeps, VMSetActorKeeps, VMDeployInfoKeeps, VMNoDeployInfoKeeps,
       VMSystemAttributesKeeps, VMNotRunningKeeps, VMProvisionedKeeps, VMNoMoreTasksKeeps,
       VMDestroyedKeeps DEF VMStep
  <2>2. count' = count
    BY <1>8 DEF VMStep, VMInit, VMSetActor, VMDeployInfo, VMNoDeployInfo, VMSystemAttributes,
       VMNotRunning, VMProvisioned, VMNoMoreTasks, VMDestroyed
  <2> QED
    BY <2>1, <2>2, CountStays
<1>9. ASSUME NEW u \in Uuids, HelperStep(u) PROVE NodeInv'
  <2>1. Kept
    BY <1>1, <1>9, HelperProvisionsKeeps, HelperDestroysKeeps DEF HelperStep
  <2>2. count' = count
    BY <1>9 DEF HelperStep, HelperProvisions, HelperFails, HelperUp, HelperDestroys
  <2> QED
    BY <2>1, <2>2, CountStays
<1>10. ASSUME NEW u \in Uuids, ProxyStep(u) \/ ProxyPolls(u) PROVE NodeInv'
  <2>1. Kept
    BY <1>1, <1>10, ProxyInitKeeps, ProxySetActorKeeps, ProxySetConfigKeeps, ProxyNoMoreTasksKeeps,
       ProxyPollsKeeps DEF ProxyStep
  <2>2. count' = count
    BY <1>10 DEF ProxyStep, ProxyInit, ProxySetActor, ProxySetConfig, ProxyNoMoreTasks, ProxyPolls
  <2> QED
    BY <2>1, <2>2, CountStays
<1> QED
  BY <1>2, <1>3, <1>4, <1>5, <1>6, <1>7, <1>8, <1>9, <1>10 DEF Next

-----------------------------------------------------------------------------
(* What the invariant implies *)

LEMMA InvTypes == NodeInv => TypeOK
<1> SUFFICES ASSUME NodeInv PROVE TypeOK
  OBVIOUS
<1>1. \A a \in Actors : \A i \in DOMAIN mail[a] : mail[a][i].from \in Actors
  <2> SUFFICES ASSUME NEW a \in Actors, NEW i \in DOMAIN mail[a] PROVE mail[a][i].from \in Actors
    OBVIOUS
  <2>1. mail[a] \in Seq(Messages)
    BY DEF NodeInv, MailShape
  <2>2. mail[a][i] \in Messages
    BY <2>1
  <2> QED
    BY <2>2 DEF Messages
<1>2. \A tm \in DOMAIN timers : tm.to \in Actors /\ tm.msg.from \in Actors
  <2>1. \A tm \in Scheduling : tm.to \in Actors /\ tm.msg.from \in Actors
    BY ActorsDiffer, VmActorsDiffer DEF Scheduling, Msg
  <2> QED
    BY <2>1 DEF NodeInv, Shape
<1>3. \A u \in Uuids : DOMAIN helper[u] \subseteq {"provision", "destroy"}
  BY DEF NodeInv, VmInv, HelperShape
<1>4. count \in 0 .. Cardinality(Uuids)
  <2>1. PICK k : k = Cardinality(Registered)
    OBVIOUS
  <2>2. PICK n : n = Cardinality(Uuids)
    OBVIOUS
  <2>3. k \in Nat /\ n \in Nat /\ k <= n
    BY <2>1, <2>2, RegisteredFinite, LifecycleAssumption, FS_CardinalityType
  <2>4. count \in Nat /\ count <= k
    BY <2>1 DEF NodeInv, Shape
  <2>5. count \in 0 .. n
    BY <2>3, <2>4
  <2> QED
    BY <2>2, <2>5
<1>5. /\ node.refs \subseteq {"instance", "status"}
      /\ node.ready \in BOOLEAN /\ node.timer \in BOOLEAN /\ node.config \in BOOLEAN
      /\ node.vmActors \subseteq Uuids \X {"vm", "proxy"}
      /\ runs.present \cup runs.future \subseteq Versions
  BY DEF NodeInv, Shape
<1>6. /\ monitor \in [state : {"none", "up"}, ready : BOOLEAN, vagrant : BOOLEAN]
      /\ vm \in [Uuids -> VMState] /\ proxy \in [Uuids -> ProxyState]
  BY DEF NodeInv, Shape
<1> QED
  BY <1>1, <1>2, <1>3, <1>4, <1>5, <1>6 DEF TypeOK

\* A message that is not a SetActor message is in a mailbox under its own name.
LEMMA InMailIsHas ==
  ASSUME MailShape, NEW b \in Actors, NEW f \in Actors, NEW m \in {"RemoveVmActor", "NoMoreTasks", "VmDestroy"},
         Tracked(b, m, f), b = Node \/ b \in VMs
  PROVE  InMail(b, m, f) <=> Has(b, m, f)
<1>1. mail[b] \in Seq(Messages) /\ \A i \in 1 .. Len(mail[b]) : MayGet(b, mail[b][i])
  BY DEF MailShape
<1>2. DOMAIN mail[b] = 1 .. Len(mail[b])
  BY <1>1
<1>3. m \in Names /\ m \notin Kinds \cup {"null"} /\ m # "SetActor"
  BY DEF Names, ChainNames, Kinds
<1>4. ASSUME NEW i \in 1 .. Len(mail[b]) PROVE Name(mail[b][i]) = m <=> mail[b][i].m = m
  <2>1. PICK x : x = mail[b][i]
    OBVIOUS
  <2>2. MayGet(b, x)
    BY <1>1, <2>1
  <2>3. x.m = "SetActor" => x.data \in Kinds \cup {"null"}
    <3>1. CASE b = Node
      BY <2>2, <3>1, MayGetIs, OthersAreNoVms DEF Kinds
    <3>2. CASE b \in VMs
      <4>1. PICK u \in Uuids : b = VM(u)
        BY <3>2 DEF VMs
      <4> QED
        BY <2>2, <4>1, MayGetIs
    <3> QED
      BY <3>1, <3>2
  <2>4. Name(x) = m <=> x.m = m
    BY <1>3, <2>3 DEF Name
  <2> QED
    BY <2>1, <2>4
<1>5. InMail(b, m, f) <=> In(mail[b], m, f)
  BY <1>2, <1>4 DEF InMail, In
<1> QED
  BY <1>3, <1>5, HasDef

LEMMA InvOneVm == NodeInv => OneVmAtATime
<1> SUFFICES ASSUME NodeInv PROVE OneVmAtATime
  OBVIOUS
<1>1. PICK S : S = {u \in Uuids : vm[u].state = "up" /\ ~vm[u].provisioned}
  OBVIOUS
<1>2. ASSUME NEW u \in S, NEW v \in S PROVE u = v
  <2>1. u \in Uuids /\ v \in Uuids /\ TokenAt("vm", u) /\ TokenAt("vm", v)
    BY <1>1 DEF TokenAt
  <2> QED
    BY <2>1 DEF NodeInv, OneToken, ChainOfNode
<1>3. S = {} \/ \E u : S = {u}
  BY <1>2
<1>4. Cardinality(S) = 0 \/ Cardinality(S) = 1
  BY <1>3, FS_EmptySet, FS_Singleton
<1>5. Cardinality(S) <= 1
  BY <1>4
<1> QED
  BY <1>1, <1>5 DEF OneVmAtATime

LEMMA InvConfig == NodeInv => AddVmKnowsConfig
<1> SUFFICES ASSUME NodeInv, Receives(Node, "SystemAttributes") PROVE node.config
  BY DEF AddVmKnowsConfig
<1>1. mail[Node] # <<>> /\ Head(mail[Node]).m = "SystemAttributes" /\ MailShape /\ Node \in Actors
  BY ActorsDiffer DEF Receives, NodeInv
<1>2. PICK h : h = Head(mail[Node])
  OBVIOUS
<1>3. MayGet(Node, h) /\ h.m = "SystemAttributes" /\ Name(h) = "SystemAttributes"
  BY <1>1, <1>2, HeadHas DEF Name
<1>4. h.from = Monitor
  BY <1>3, MayGetIs
<1>5. Has(Node, "SystemAttributes", Monitor)
  BY <1>1, <1>2, <1>3, <1>4, HeadHas DEF Names, ChainNames, Tracked
<1>6. TokenAt("attributes", None)
  BY <1>5 DEF TokenAt
<1> QED
  BY <1>6 DEF NodeInv, ConfigKnown

LEMMA InvHelper == NodeInv => HelperAlone
<1> SUFFICES ASSUME NodeInv, NEW u \in Uuids
             PROVE  /\ \A x, y \in DOMAIN helper[u] : x = y /\ helper[u][x] = 1
                    /\ BagIn("provision", helper[u]) => vm[u].config # None /\ ~vm[u].provisioned
                    /\ BagIn("destroy", helper[u]) => vm[u].provisioned
  BY DEF HelperAlone
<1>1. VmInv(u) /\ HelperShape(u) /\ OneConfigAt(u) /\ ProxyAndVm(u)
  BY EachIsOne DEF NodeInv, VmInv
<1>2. /\ "helper" \in ChainOfVm /\ "done" \in ChainOfVm
      /\ BagIn("provision", helper[u]) <=> ConfigAt(u, "helper")
      /\ BagIn("destroy", helper[u]) <=> EndAt(u, "helper")
      /\ vm[u].provisioned <=> ConfigAt(u, "done")
  BY DEF ChainOfVm, BagIn, BagToSet, ConfigAt, EndAt
<1>3. ~(ConfigAt(u, "helper") /\ ConfigAt(u, "done"))
  BY <1>1, <1>2 DEF OneConfigAt
<1>4. EndAt(u, "helper") => vm[u].provisioned
  <2>1. EndAt(u, "helper") => proxy[u].state = "gone" /\ vm[u].state = "up"
    BY <1>1, <1>2 DEF ProxyAndVm, VmInv, VmAbsent, VMState
  <2> QED
    BY <1>1, <2>1 DEF ProxyAndVm
<1>5. \A x, y \in DOMAIN helper[u] : x = y /\ helper[u][x] = 1
  BY <1>1, <1>2, <1>3, <1>4 DEF HelperShape, BagIn, BagToSet
<1>6. ConfigAt(u, "helper") => vm[u].config # None
  BY <1>1 DEF HelperShape
<1> QED
  BY <1>2, <1>3, <1>4, <1>5, <1>6

LEMMA InvMap == NodeInv => VmMapMatches
<1> SUFFICES ASSUME NodeInv, NEW u \in Uuids
             PROVE  /\ <<u, "vm">> \in node.vmActors <=>
                         vm[u].state = "up" \/ InMail(Node, "RemoveVmActor", VM(u))
                    /\ <<u, "proxy">> \in node.vmActors <=>
                         proxy[u].state = "up" \/ InMail(Node, "RemoveVmActor", Proxy(u))
  BY DEF VmMapMatches
<1>1. MailShape /\ InMap(u)
  BY DEF NodeInv, VmInv
<1>2. /\ Tracked(Node, "RemoveVmActor", VM(u)) /\ Tracked(Node, "RemoveVmActor", Proxy(u))
      /\ Node \in Actors /\ VM(u) \in Actors /\ Proxy(u) \in Actors
  BY ActorsDiffer, VmActorsDiffer DEF Tracked, ChainNames
<1>3. /\ InMail(Node, "RemoveVmActor", VM(u)) <=> Has(Node, "RemoveVmActor", VM(u))
      /\ InMail(Node, "RemoveVmActor", Proxy(u)) <=> Has(Node, "RemoveVmActor", Proxy(u))
  BY <1>1, <1>2, InMailIsHas
<1> QED
  BY <1>1, <1>3 DEF InMap

LEMMA InvOrphan == NodeInv => OrphanIsDestroyed
<1> SUFFICES ASSUME NodeInv, NEW u \in Uuids, proxy[u].state = "gone", vm[u].state = "up"
             PROVE  /\ vm[u].provisioned
                    /\ \/ InMail(VM(u), "NoMoreTasks", Proxy(u)) \/ BagIn("destroy", helper[u])
                       \/ InMail(VM(u), "VmDestroy", VM(u))
  BY DEF OrphanIsDestroyed
<1>1. MailShape /\ ProxyAndVm(u)
  BY DEF NodeInv, VmInv
<1>2. PICK p \in ChainOfVm : EndAt(u, p)
  BY <1>1 DEF ProxyAndVm
<1>3. /\ VM(u) \in VMs /\ VM(u) \in Actors /\ Proxy(u) \in Actors
      /\ Tracked(VM(u), "NoMoreTasks", Proxy(u)) /\ Tracked(VM(u), "VmDestroy", VM(u))
  BY VmActorsDiffer DEF Tracked
<1>4. /\ InMail(VM(u), "NoMoreTasks", Proxy(u)) <=> Has(VM(u), "NoMoreTasks", Proxy(u))
      /\ InMail(VM(u), "VmDestroy", VM(u)) <=> Has(VM(u), "VmDestroy", VM(u))
  BY <1>1, <1>3, InMailIsHas
<1> QED
  BY <1>1, <1>2, <1>4 DEF ProxyAndVm, EndAt, BagIn, BagToSet

-----------------------------------------------------------------------------
(* Theorems *)

(* Every field of the NodeActor, the NodeMonitorActor, the VMActors and the  *)
(* VMProxyActors has its type, and the GlobalStatusActor never counts more   *)
(* VMs than the node has.                                                    *)
THEOREM TypeCorrect == Spec => []TypeOK
  BY NodeInvInit, NodeInvStep, InvTypes, PTL DEF Spec

(* NodeActor: of any number of VMs at most one is on its way up, whatever    *)
(* vagrant does and however often a VMActor is restarted, so that the memory *)
(* addVm compares with is not promised to two VMs.                           *)
THEOREM AddsOneVmAtATime == Spec => []OneVmAtATime
  BY NodeInvInit, NodeInvStep, InvOneVm, PTL DEF Spec

(* NodeActor: addVm, which reads vagrantEnvironmentConfig without looking    *)
(* whether it is null, only runs when it is known.                           *)
THEOREM ConfigIsKnown == Spec => []AddVmKnowsConfig
  BY NodeInvInit, NodeInvStep, InvConfig, PTL DEF Spec

(* VMActor: it starts a VMActorHelper only when the one before has come to   *)
(* its end, and leaves the config alone that the helper reads in its thread. *)
THEOREM HelpersTakeTurns == Spec => []HelperAlone
  BY NodeInvInit, NodeInvStep, InvHelper, PTL DEF Spec

(* NodeActor: vmActors names the actors of a VM that live, and those whose   *)
(* RemoveVmActor message is still to come.                                   *)
THEOREM MapIsExact == Spec => []VmMapMatches
  BY NodeInvInit, NodeInvStep, InvMap, PTL DEF Spec

(* VMProxyActor and VMActor: when the proxy has gone, the VMActor of the VM  *)
(* is told, destroys it, or is about to go; no VM is left without a proxy.   *)
THEOREM NoVmIsLeft == Spec => []OrphanIsDestroyed
  BY NodeInvInit, NodeInvStep, InvOrphan, PTL DEF Spec
==============================================================================
