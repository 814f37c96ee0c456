------------------------- MODULE GlobalStatusProofs -------------------------
(***************************************************************************)
(* Theorems about GlobalStatus, for every set of addresses, any number of  *)
(* NodeActors on each, and every finite set of VMs.                        *)
(***************************************************************************)
EXTENDS GlobalStatus, FiniteSetTheorems, SequenceTheorems, TLAPS

-----------------------------------------------------------------------------
(* The inductive invariant *)

MonitorMessages == {"Register", "Attributes", "Deregister"}
VmStates == {"none", "up", "over", "lost"}
VmChannels == {<<>>, <<"RegisterVm">>, <<"DeregisterVm">>, <<"RegisterVm", "DeregisterVm">>}
StatusActor == [nodeMonitorActors : SUBSET Refs, watched : SUBSET Refs,
                nodeAttributes : SUBSET Refs, nodeVms : [Hosts -> Nat]]

\* The types, without the bound of the number of VMs.
Shape ==
  /\ node \in [Refs -> {"none", "up", "lost", "stopped"}]
  /\ monitor \in [Refs -> BOOLEAN]
  /\ chan \in [Refs -> Seq(MonitorMessages)]
  /\ vm \in [Refs -> [VMs -> VmStates]]
  /\ vmChan \in [Refs -> [VMs -> VmChannels]]
  /\ status \in StatusActor

\* The GlobalStatusActor has counted VM v of r in, and not yet out.
Counted(r, v) ==
  \/ vmChan[r][v] = <<"DeregisterVm">>
  \/ vmChan[r][v] = <<>> /\ vm[r][v] \in {"up", "lost"}

CountedVms(h) == {x \in Refs \X VMs : x[1][1] = h /\ Counted(x[1], x[2])}

\* A VMActor has sent what its state says.
ChannelsMatch ==
  \A r \in Refs : \A v \in VMs :
    /\ vm[r][v] = "none" => vmChan[r][v] = <<>>
    /\ vmChan[r][v] = <<"RegisterVm">> => vm[r][v] \in {"up", "lost"}
    /\ vmChan[r][v] \in {<<"DeregisterVm">>, <<"RegisterVm", "DeregisterVm">>} => vm[r][v] = "over"

NumbersMatch == \A h \in Hosts : status.nodeVms[h] = Cardinality(CountedVms(h))

StatusInv == Shape /\ ChannelsMatch /\ NumbersMatch

-----------------------------------------------------------------------------
(* Numbers of VMs *)

(* An address has finitely many VMs, at most those of all its lives. *)
LEMMA VmsOfHost ==
  ASSUME NEW h \in Hosts, NEW S, S \subseteq {x \in Refs \X VMs : x[1][1] = h}
  PROVE  IsFiniteSet(S) /\ Cardinality(S) \in 0 .. MaxLives * Cardinality(VMs)
<1> DEFINE L == {h} \X (1 .. MaxLives)
<1>1. MaxLives \in Nat /\ IsFiniteSet(VMs)
  BY StatusAssumption
<1>2. IsFiniteSet(1 .. MaxLives) /\ Cardinality(1 .. MaxLives) = MaxLives
  BY <1>1, FS_Interval, StatusAssumption
<1>3. IsFiniteSet({h}) /\ Cardinality({h}) = 1
  BY FS_Singleton
<1>4. IsFiniteSet(L) /\ Cardinality(L) = MaxLives
  <2>1. IsFiniteSet(L) /\ Cardinality(L) = 1 * MaxLives
    BY <1>2, <1>3, FS_Product
  <2> QED
    BY <1>1, <2>1
<1> HIDE DEF L
<1>5. IsFiniteSet(L \X VMs) /\ Cardinality(L \X VMs) = MaxLives * Cardinality(VMs)
  BY <1>1, <1>4, FS_Product
<1>6. S \in SUBSET (L \X VMs)
  BY DEF L, Refs
<1>7. IsFiniteSet(S) /\ Cardinality(S) <= Cardinality(L \X VMs)
  BY <1>5, <1>6, FS_Subset
<1>8. Cardinality(S) \in Nat /\ Cardinality(VMs) \in Nat
  BY <1>1, <1>7, FS_CardinalityType
<1> QED
  BY <1>1, <1>5, <1>7, <1>8

(* The VMActors' messages that are left after one is taken. *)
LEMMA VmTail ==
  ASSUME NEW s \in VmChannels, s # <<>>
  PROVE  /\ Tail(s) \in VmChannels
         /\ Head(s) = "RegisterVm" => s \in {<<"RegisterVm">>, <<"RegisterVm", "DeregisterVm">>}
         /\ Head(s) = "DeregisterVm" => s = <<"DeregisterVm">>
         /\ s = <<"RegisterVm">> => Tail(s) = <<>>
         /\ s = <<"DeregisterVm">> => Tail(s) = <<>>
         /\ s = <<"RegisterVm", "DeregisterVm">> => Tail(s) = <<"DeregisterVm">>
<1>1. Tail(<<"RegisterVm">>) = <<>> /\ Head(<<"RegisterVm">>) = "RegisterVm"
  OBVIOUS
<1>2. Tail(<<"DeregisterVm">>) = <<>> /\ Head(<<"DeregisterVm">>) = "DeregisterVm"
  OBVIOUS
<1>3. /\ Tail(<<"RegisterVm", "DeregisterVm">>) = <<"DeregisterVm">>
      /\ Head(<<"RegisterVm", "DeregisterVm">>) = "RegisterVm"
  OBVIOUS
<1> QED
  BY <1>1, <1>2, <1>3 DEF VmChannels

(* A VMActor's channel has four forms, which differ. *)
LEMMA VmChannelsDiffer ==
  /\ <<>> # <<"RegisterVm">> /\ <<>> # <<"DeregisterVm">> /\ <<>> # <<"RegisterVm", "DeregisterVm">>
  /\ <<"RegisterVm">> # <<"DeregisterVm">>
  /\ <<"RegisterVm">> # <<"RegisterVm", "DeregisterVm">>
  /\ <<"DeregisterVm">> # <<"RegisterVm", "DeregisterVm">>
  OBVIOUS

(* The messages of a VMActor after it has counted itself out. *)
LEMMA VmAppend ==
  /\ Append(<<>>, "DeregisterVm") = <<"DeregisterVm">>
  /\ Append(<<"RegisterVm">>, "DeregisterVm") = <<"RegisterVm", "DeregisterVm">>
<1> DEFINE M == {"RegisterVm", "DeregisterVm"}
           s == Append(<<"RegisterVm">>, "DeregisterVm")
           u == <<"RegisterVm", "DeregisterVm">>
<1>1. Append(<<>>, "DeregisterVm") = <<"DeregisterVm">>
  OBVIOUS
<1>2. <<"RegisterVm">> \in Seq(M) /\ Len(<<"RegisterVm">>) = 1
  OBVIOUS
<1>3. s \in Seq(M) /\ Len(s) = 2
  BY <1>2
<1>4. s[1] = "RegisterVm" /\ s[2] = "DeregisterVm"
  BY <1>2
<1>5. u \in Seq(M) /\ Len(u) = 2 /\ u[1] = "RegisterVm" /\ u[2] = "DeregisterVm"
  OBVIOUS
<1> HIDE DEF s, u, M
<1>6. \A i \in 1 .. Len(s) : s[i] = u[i]
  BY <1>3, <1>4, <1>5
<1>7. s = u
  BY <1>3, <1>5, <1>6, SeqEqual
<1> QED
  BY <1>1, <1>7 DEF s, u

(* Which channels hold RegisterVm. *)
LEMMA VmContains ==
  ASSUME NEW s \in VmChannels
  PROVE  Contains(s, "RegisterVm") <=> s \in {<<"RegisterVm">>, <<"RegisterVm", "DeregisterVm">>}
<1>1. ~Contains(<<>>, "RegisterVm")
  BY DEF Contains
<1>2. Contains(<<"RegisterVm">>, "RegisterVm")
  BY DEF Contains
<1>3. ~Contains(<<"DeregisterVm">>, "RegisterVm")
  BY DEF Contains
<1>4. Contains(<<"RegisterVm", "DeregisterVm">>, "RegisterVm")
  BY DEF Contains
<1> QED
  BY <1>1, <1>2, <1>3, <1>4, VmChannelsDiffer, Zenon DEF VmChannels

-----------------------------------------------------------------------------
(* Steps *)

\* The part of a step that concerns VMs: the numbers follow what is counted.
VmsKept ==
  /\ vm' \in [Refs -> [VMs -> VmStates]]
  /\ vmChan' \in [Refs -> [VMs -> VmChannels]]
  /\ ChannelsMatch' /\ NumbersMatch'

\* The part of a step that concerns nodes and monitors.
NodesKept ==
  /\ node' \in [Refs -> {"none", "up", "lost", "stopped"}]
  /\ monitor' \in [Refs -> BOOLEAN]
  /\ chan' \in [Refs -> Seq(MonitorMessages)]

(* The two parts make the invariant. *)
LEMMA PartsKeep ==
  ASSUME VmsKept, NodesKept, status' \in StatusActor
  PROVE  StatusInv'
  BY DEF VmsKept, NodesKept, StatusInv, Shape

(* A step that counts no VM in or out keeps the numbers. *)
LEMMA SameCount ==
  ASSUME NumbersMatch, status'.nodeVms = status.nodeVms,
         \A r \in Refs : \A v \in VMs : Counted(r, v)' <=> Counted(r, v)
  PROVE  NumbersMatch'
<1> SUFFICES ASSUME NEW h \in Hosts PROVE CountedVms(h)' = CountedVms(h)
  BY DEF NumbersMatch
<1> QED
  BY DEF CountedVms

(* A step that leaves the VMs and their numbers alone. *)
LEMMA SameVms ==
  ASSUME StatusInv, UNCHANGED <<vm, vmChan>>, status'.nodeVms = status.nodeVms
  PROVE  VmsKept
<1>1. \A r \in Refs : \A v \in VMs : Counted(r, v)' <=> Counted(r, v)
  BY DEF Counted
<1> QED
  BY <1>1, SameCount DEF VmsKept, StatusInv, Shape, ChannelsMatch

(* The steps of the GlobalStatusActor for a monitor keep its fields. *)
LEMMA MonitorFields ==
  ASSUME status \in StatusActor, NEW r \in Refs
  PROVE  /\ RegisterMonitor(r) \in StatusActor /\ RegisterMonitor(r).nodeVms = status.nodeVms
         /\ SetAttributes(r) \in StatusActor /\ SetAttributes(r).nodeVms = status.nodeVms
         /\ DeregisterMonitor(r) \in StatusActor /\ DeregisterMonitor(r).nodeVms = status.nodeVms
  BY DEF StatusActor, RegisterMonitor, SetAttributes, DeregisterMonitor

(* The nodes and the monitors count no VMs. *)
LEMMA MonitorStep ==
  ASSUME StatusInv, NEW r \in Refs,
         \/ NodeStarts(r) \/ NodeRemoved(r) \/ MonitorRegisters(r) \/ MonitorAnswers(r)
         \/ ReceivesFromMonitor(r) \/ ReceivesTerminated(r)
  PROVE  StatusInv'
<1>s. Shape
  BY DEF StatusInv
<1>1. UNCHANGED <<vm, vmChan>>
  BY DEF NodeStarts, NodeRemoved, MonitorRegisters, MonitorAnswers, ReceivesFromMonitor,
         ReceivesTerminated
<1>2. status' \in StatusActor /\ status'.nodeVms = status.nodeVms
  <2>0. status \in StatusActor
    BY <1>s DEF Shape
  <2>1. CASE NodeStarts(r) \/ NodeRemoved(r) \/ MonitorRegisters(r) \/ MonitorAnswers(r)
    BY <2>0, <2>1 DEF NodeStarts, NodeRemoved, MonitorRegisters, MonitorAnswers
  <2>2. CASE ReceivesFromMonitor(r)
    BY <2>0, <2>2, MonitorFields DEF ReceivesFromMonitor
  <2>3. CASE ReceivesTerminated(r)
    BY <2>0, <2>3, MonitorFields DEF ReceivesTerminated, StatusActor
  <2> QED
    BY <2>1, <2>2, <2>3
<1>3. NodesKept
  <2>0. /\ node \in [Refs -> {"none", "up", "lost", "stopped"}]
        /\ monitor \in [Refs -> BOOLEAN]
        /\ chan \in [Refs -> Seq(MonitorMessages)]
    BY <1>s DEF Shape
  <2>1. CASE NodeStarts(r) \/ NodeRemoved(r) \/ ReceivesTerminated(r)
    BY <2>0, <2>1 DEF NodeStarts, NodeRemoved, ReceivesTerminated, NodesKept
  <2>2. CASE MonitorRegisters(r) \/ MonitorAnswers(r)
    <3>1. PICK m \in MonitorMessages : chan' = [chan EXCEPT ![r] = Append(@, m)]
      BY <2>2 DEF MonitorRegisters, MonitorAnswers, MonitorMessages
    <3>2. node' = node /\ monitor' \in [Refs -> BOOLEAN]
      BY <2>0, <2>2 DEF MonitorRegisters, MonitorAnswers
    <3>3. Append(chan[r], m) \in Seq(MonitorMessages)
      BY <2>0, <3>1
    <3>4. chan' \in [Refs -> Seq(MonitorMessages)]
      BY <2>0, <3>1, <3>3
    <3> QED
      BY <2>0, <3>2, <3>4 DEF NodesKept
  <2>3. CASE ReceivesFromMonitor(r)
    BY <2>0, <2>3 DEF ReceivesFromMonitor, NodesKept
  <2> QED
    BY <2>1, <2>2, <2>3
<1> QED
  BY <1>1, <1>2, <1>3, SameVms, PartsKeep

(* When a node goes, with or without what it has sent, no VM is counted in  *)
(* or out.                                                                  *)
LEMMA NodeGoesStep ==
  ASSUME StatusInv, NEW r \in Refs, NEW told \in BOOLEAN, NEW drop \in BOOLEAN,
         NEW goodbye \in Seq(MonitorMessages), NodeGoes(r, told, goodbye, drop)
  PROVE  StatusInv'
<1>s. Shape
  BY DEF StatusInv
<1>1. UNCHANGED <<monitor, status>> /\ status' \in StatusActor
  BY <1>s DEF NodeGoes, Shape
<1>2. NodesKept
  <2>1. node' \in [Refs -> {"none", "up", "lost", "stopped"}]
    BY <1>s DEF NodeGoes, Shape
  <2>2. chan[r] \in Seq(MonitorMessages)
    BY <1>s DEF Shape
  <2>3. PICK sent \in Seq(MonitorMessages) :
          \E k \in 0 .. Len(sent) : chan' = [chan EXCEPT ![r] = SubSeq(sent, 1, k)]
    <3>1. chan[r] \o goodbye \in Seq(MonitorMessages)
      BY <2>2
    <3>2. Len(chan[r]) \in Nat /\ Len(chan[r] \o goodbye) \in Nat
      BY <2>2, <3>1
    <3> DEFINE s == IF monitor[r] THEN chan[r] \o goodbye ELSE chan[r]
    <3>3. s \in Seq(MonitorMessages) /\ Len(s) \in Nat
      BY <2>2, <3>1, <3>2
    <3>4. \E k \in IF drop THEN 0 .. Len(s) ELSE {Len(s)} :
            chan' = [chan EXCEPT ![r] = SubSeq(s, 1, k)]
      BY Zenon DEF NodeGoes
    <3> HIDE DEF s
    <3>5. (IF drop THEN 0 .. Len(s) ELSE {Len(s)}) \subseteq 0 .. Len(s)
      BY <3>3
    <3> QED
      BY <3>3, <3>4, <3>5
  <2>4. PICK k \in 0 .. Len(sent) : chan' = [chan EXCEPT ![r] = SubSeq(sent, 1, k)]
    BY <2>3
  <2>5. SubSeq(sent, 1, k) \in Seq(MonitorMessages)
    BY <2>4
  <2>6. chan' \in [Refs -> Seq(MonitorMessages)]
    BY <1>s, <2>4, <2>5 DEF Shape
  <2> QED
    BY <1>1, <1>s, <2>1, <2>6 DEF NodesKept, Shape
<1>v. vm \in [Refs -> [VMs -> VmStates]] /\ vmChan \in [Refs -> [VMs -> VmChannels]]
  BY <1>s DEF Shape
<1> DEFINE uncounted(v) == Contains(vmChan[r][v], "RegisterVm")
           pending(v) == vmChan[r][v] # <<>>
           f == [v \in VMs |->
                   CASE drop /\ uncounted(v) -> "over"
                     [] drop /\ ~uncounted(v) /\ pending(v) -> "lost"
                     [] OTHER -> IF vm[r][v] = "up" THEN "lost" ELSE vm[r][v]]
<1>3. vm' = [vm EXCEPT ![r] = f]
  BY DEF NodeGoes
<1>4. vmChan' = IF drop THEN [vmChan EXCEPT ![r] = [v \in VMs |-> <<>>]] ELSE vmChan
  BY DEF NodeGoes
<1>5. ASSUME NEW v \in VMs
      PROVE  /\ f[v] \in VmStates
             /\ ~drop \/ vmChan[r][v] = <<>> =>
                  f[v] = IF vm[r][v] = "up" THEN "lost" ELSE vm[r][v]
             /\ drop /\ vmChan[r][v] = <<"DeregisterVm">> => f[v] = "lost"
             /\ drop /\ vmChan[r][v] \in {<<"RegisterVm">>, <<"RegisterVm", "DeregisterVm">>}
                  => f[v] = "over"
  <2>1. vmChan[r][v] \in VmChannels /\ vm[r][v] \in VmStates
    BY <1>v
  <2>2. /\ vmChan[r][v] = <<>> => ~uncounted(v)
        /\ vmChan[r][v] = <<"DeregisterVm">> => ~uncounted(v)
        /\ vmChan[r][v] \in {<<"RegisterVm">>, <<"RegisterVm", "DeregisterVm">>} => uncounted(v)
    BY <2>1, VmContains, VmChannelsDiffer
  <2>3. vmChan[r][v] = <<"DeregisterVm">> => pending(v)
    BY VmChannelsDiffer
  <2> HIDE DEF uncounted, pending
  <2>4. f[v] = CASE drop /\ uncounted(v) -> "over"
                 [] drop /\ ~uncounted(v) /\ pending(v) -> "lost"
                 [] OTHER -> IF vm[r][v] = "up" THEN "lost" ELSE vm[r][v]
    OBVIOUS
  <2>5. vmChan[r][v] = <<>> => ~pending(v)
    BY DEF pending
  <2> HIDE DEF f
  <2> QED
    BY <2>1, <2>2, <2>3, <2>4, <2>5 DEF VmStates
<1> HIDE DEF f
<1>6. /\ vm'[r] = f /\ \A q \in Refs : q # r => vm'[q] = vm[q]
      /\ \A q \in Refs : q # r => vmChan'[q] = vmChan[q]
      /\ \A v \in VMs : vmChan'[r][v] = IF drop THEN <<>> ELSE vmChan[r][v]
  BY <1>v, <1>3, <1>4
<1>7. VmsKept
  <2>1. \A q \in Refs : \A v \in VMs : Counted(q, v)' <=> Counted(q, v)
    <3> SUFFICES ASSUME NEW v \in VMs PROVE Counted(r, v)' <=> Counted(r, v)
      BY <1>6 DEF Counted
    <3>1. vmChan[r][v] \in VmChannels
      BY <1>v
    <3>2. CASE ~drop
      BY <1>5, <1>6, <3>2 DEF Counted
    <3>3. CASE drop
      BY <1>5, <1>6, <3>1, <3>3, VmChannelsDiffer DEF Counted, VmChannels
    <3> QED
      BY <3>2, <3>3
  <2>2. ChannelsMatch'
    <3> SUFFICES ASSUME NEW v \in VMs
                 PROVE  /\ vm'[r][v] = "none" => vmChan'[r][v] = <<>>
                        /\ vmChan'[r][v] = <<"RegisterVm">> => vm'[r][v] \in {"up", "lost"}
                        /\ vmChan'[r][v] \in {<<"DeregisterVm">>, <<"RegisterVm", "DeregisterVm">>}
                             => vm'[r][v] = "over"
      BY <1>6 DEF ChannelsMatch, StatusInv
    <3>1. /\ vm[r][v] = "none" => vmChan[r][v] = <<>>
          /\ vmChan[r][v] = <<"RegisterVm">> => vm[r][v] \in {"up", "lost"}
          /\ vmChan[r][v] \in {<<"DeregisterVm">>, <<"RegisterVm", "DeregisterVm">>}
               => vm[r][v] = "over"
      BY DEF ChannelsMatch, StatusInv
    <3>2. CASE ~drop
      BY <1>5, <1>6, <3>1, <3>2
    <3>3. CASE drop
      BY <1>6, <3>3, VmChannelsDiffer
    <3> QED
      BY <3>2, <3>3
  <2>3. vm' \in [Refs -> [VMs -> VmStates]]
    <3>1. f \in [VMs -> VmStates]
      BY <1>5 DEF f
    <3> QED
      BY <1>v, <1>3, <3>1
  <2>4. vmChan' \in [Refs -> [VMs -> VmChannels]]
    BY <1>v, <1>4 DEF VmChannels
  <2> QED
    BY <1>1, <2>1, <2>2, <2>3, <2>4, SameCount DEF VmsKept, StatusInv
<1> QED
  BY <1>1, <1>2, <1>7, PartsKeep

(* A VMActor that counts itself in or out has not been counted by that. *)
LEMMA VmActorStep ==
  ASSUME StatusInv, NEW r \in Refs, NEW v \in VMs, VmRegisters(r, v) \/ VmDestroyed(r, v)
  PROVE  StatusInv'
<1>s. Shape
  BY DEF StatusInv
<1>v. vm \in [Refs -> [VMs -> VmStates]] /\ vmChan \in [Refs -> [VMs -> VmChannels]]
  BY <1>s DEF Shape
<1>m. /\ vm[r][v] = "none" => vmChan[r][v] = <<>>
      /\ vmChan[r][v] = <<"RegisterVm">> => vm[r][v] \in {"up", "lost"}
      /\ vmChan[r][v] \in {<<"DeregisterVm">>, <<"RegisterVm", "DeregisterVm">>} => vm[r][v] = "over"
  BY DEF StatusInv, ChannelsMatch
<1>1. UNCHANGED <<node, monitor, chan, status>>
  BY DEF VmRegisters, VmDestroyed
<1>2. NodesKept /\ status' \in StatusActor
  BY <1>1, <1>s DEF NodesKept, Shape
<1>3. PICK x \in VmStates, c \in VmChannels :
        /\ vm' = [vm EXCEPT ![r][v] = x] /\ vmChan' = [vmChan EXCEPT ![r][v] = c]
        /\ \/ vm[r][v] = "none" /\ x = "up" /\ c = <<"RegisterVm">>
           \/ vm[r][v] = "up" /\ x = "over" /\ vmChan[r][v] = <<>> /\ c = <<"DeregisterVm">>
           \/ /\ vm[r][v] = "up" /\ x = "over" /\ vmChan[r][v] = <<"RegisterVm">>
              /\ c = <<"RegisterVm", "DeregisterVm">>
  <2>1. CASE VmRegisters(r, v)
    BY <2>1 DEF VmRegisters, VmStates, VmChannels
  <2>2. CASE VmDestroyed(r, v)
    <3>1. vmChan[r][v] \in {<<>>, <<"RegisterVm">>}
      BY <2>2, <1>v, <1>m DEF VmDestroyed, VmChannels
    <3>2. /\ vm[r][v] = "up" /\ vm' = [vm EXCEPT ![r][v] = "over"]
          /\ vmChan' = [vmChan EXCEPT ![r][v] = Append(@, "DeregisterVm")]
      BY <2>2 DEF VmDestroyed
    <3> QED
      BY <3>1, <3>2, VmAppend DEF VmStates, VmChannels
  <2> QED
    BY <2>1, <2>2
<1>4. /\ vm'[r][v] = x /\ vmChan'[r][v] = c
      /\ \A q \in Refs : \A w \in VMs :
           q # r \/ w # v => vm'[q][w] = vm[q][w] /\ vmChan'[q][w] = vmChan[q][w]
  BY <1>v, <1>3
<1>5. \A q \in Refs : \A w \in VMs : Counted(q, w)' <=> Counted(q, w)
  <2>1. Counted(r, v)' <=> Counted(r, v)
    BY <1>3, <1>4, <1>m, VmChannelsDiffer DEF Counted
  <2> QED
    BY <1>4, <2>1 DEF Counted
<1>6. ChannelsMatch'
  <2>1. /\ vm'[r][v] = "none" => vmChan'[r][v] = <<>>
        /\ vmChan'[r][v] = <<"RegisterVm">> => vm'[r][v] \in {"up", "lost"}
        /\ vmChan'[r][v] \in {<<"DeregisterVm">>, <<"RegisterVm", "DeregisterVm">>}
             => vm'[r][v] = "over"
    BY <1>3, <1>4, VmChannelsDiffer
  <2> QED
    BY <1>4, <2>1 DEF StatusInv, ChannelsMatch
<1>7. vm' \in [Refs -> [VMs -> VmStates]] /\ vmChan' \in [Refs -> [VMs -> VmChannels]]
  BY <1>v, <1>3
<1> QED
  BY <1>1, <1>2, <1>5, <1>6, <1>7, SameCount, PartsKeep DEF VmsKept, StatusInv

(* The GlobalStatusActor counts a VM in or out of its address. *)
LEMMA CountStep ==
  ASSUME StatusInv, NEW r \in Refs, NEW v \in VMs, ReceivesFromVm(r, v)
  PROVE  StatusInv'
<1>s. Shape
  BY DEF StatusInv
<1>v. vm \in [Refs -> [VMs -> VmStates]] /\ vmChan \in [Refs -> [VMs -> VmChannels]]
  BY <1>s DEF Shape
<1>a. status \in StatusActor
  BY <1>s DEF Shape
<1>h. PICK h \in Hosts : h = r[1]
  BY DEF Refs
<1>x. <<r, v>> \in Refs \X VMs /\ <<r, v>>[1] = r /\ <<r, v>>[2] = v
  OBVIOUS
<1>m. /\ vmChan[r][v] = <<"RegisterVm">> => vm[r][v] \in {"up", "lost"}
      /\ vmChan[r][v] \in {<<"DeregisterVm">>, <<"RegisterVm", "DeregisterVm">>} => vm[r][v] = "over"
  BY DEF StatusInv, ChannelsMatch
<1>c. vmChan[r][v] \in VmChannels /\ vmChan[r][v] # <<>>
  BY <1>v DEF ReceivesFromVm
<1>1. UNCHANGED <<node, monitor, chan, vm>>
  BY DEF ReceivesFromVm
<1>2. NodesKept
  BY <1>1, <1>s DEF NodesKept, Shape
<1>3. PICK c \in VmChannels : c = Tail(vmChan[r][v])
  BY <1>c, VmTail
<1>4. /\ vmChan' = [vmChan EXCEPT ![r][v] = c]
      /\ vmChan'[r][v] = c
      /\ \A q \in Refs : \A w \in VMs : q # r \/ w # v => vmChan'[q][w] = vmChan[q][w]
  BY <1>3, <1>v DEF ReceivesFromVm
<1>5. vmChan' \in [Refs -> [VMs -> VmChannels]]
  BY <1>v, <1>4
<1>6. ChannelsMatch'
  <2>1. /\ c = <<"RegisterVm">> => FALSE
        /\ c \in {<<"DeregisterVm">>, <<"RegisterVm", "DeregisterVm">>} => vm[r][v] = "over"
        /\ vm[r][v] # "none"
    BY <1>c, <1>m, <1>3, VmTail, VmChannelsDiffer DEF VmChannels
  <2> QED
    BY <1>1, <1>4, <2>1 DEF StatusInv, ChannelsMatch
<1>7. ASSUME NEW q \in Refs, NEW w \in VMs, q # r \/ w # v PROVE Counted(q, w)' <=> Counted(q, w)
  BY <1>1, <1>4, <1>7 DEF Counted
<1>8. \A g \in Hosts : g # h => CountedVms(g)' = CountedVms(g)
  BY <1>h, <1>7 DEF CountedVms
<1>f. IsFiniteSet(CountedVms(h)) /\ Cardinality(CountedVms(h)) \in Nat
  BY VmsOfHost, StatusAssumption DEF CountedVms
<1>n. status.nodeVms \in [Hosts -> Nat] /\ status.nodeVms[h] = Cardinality(CountedVms(h))
  BY <1>a DEF StatusActor, StatusInv, NumbersMatch
<1>9. CASE Head(vmChan[r][v]) = "RegisterVm"
  <2>1. ~Counted(r, v) /\ Counted(r, v)'
    BY <1>c, <1>m, <1>1, <1>3, <1>4, <1>9, VmTail, VmChannelsDiffer DEF Counted
  <2>2. CountedVms(h)' = CountedVms(h) \cup {<<r, v>>} /\ <<r, v>> \notin CountedVms(h)
    BY <1>h, <1>x, <1>7, <2>1 DEF CountedVms
  <2>3. Cardinality(CountedVms(h) \cup {<<r, v>>}) = Cardinality(CountedVms(h)) + 1
    BY <1>f, <2>2, FS_AddElement
  <2>4. status' = [status EXCEPT !.nodeVms[h] = @ + 1]
    BY <1>c, <1>h, <1>9 DEF ReceivesFromVm, RegisterVm
  <2>5. status' \in StatusActor
    BY <1>a, <2>4 DEF StatusActor
  <2>6. status'.nodeVms = [status.nodeVms EXCEPT ![h] = @ + 1]
    BY <1>a, <2>4 DEF StatusActor
  <2>7. NumbersMatch'
    BY <1>8, <1>n, <2>2, <2>3, <2>6 DEF NumbersMatch, StatusInv
  <2> QED
    BY <1>v, <1>1, <1>2, <1>5, <1>6, <2>5, <2>7, PartsKeep DEF VmsKept
<1>10. CASE Head(vmChan[r][v]) = "DeregisterVm"
  <2>1. Counted(r, v) /\ ~Counted(r, v)'
    BY <1>c, <1>m, <1>1, <1>3, <1>4, <1>10, VmTail, VmChannelsDiffer DEF Counted
  <2>2. CountedVms(h)' = CountedVms(h) \ {<<r, v>>} /\ <<r, v>> \in CountedVms(h)
    BY <1>h, <1>x, <1>7, <2>1 DEF CountedVms
  <2>3. Cardinality(CountedVms(h) \ {<<r, v>>}) = Cardinality(CountedVms(h)) - 1
    BY <1>f, <2>2, FS_RemoveElement
  <2>4. Cardinality(CountedVms(h)) > 0
    <3>1. Cardinality(CountedVms(h)) # 0
      BY <1>f, <2>2, FS_EmptySet
    <3> QED
      BY <1>f, <3>1
  <2>5. status' = [status EXCEPT !.nodeVms[h] = IF @ > 0 THEN @ - 1 ELSE @]
    BY <1>c, <1>h, <1>10 DEF ReceivesFromVm, DeregisterVm
  <2>6. status'.nodeVms = [status.nodeVms EXCEPT ![h] = IF @ > 0 THEN @ - 1 ELSE @]
    BY <1>a, <2>5 DEF StatusActor
  <2>7. status' \in StatusActor
    <3>1. [status.nodeVms EXCEPT ![h] = IF @ > 0 THEN @ - 1 ELSE @] \in [Hosts -> Nat]
      BY <1>n
    <3> QED
      BY <1>a, <2>5, <3>1 DEF StatusActor
  <2>8. NumbersMatch'
    BY <1>8, <1>n, <2>2, <2>3, <2>4, <2>6 DEF NumbersMatch, StatusInv
  <2> QED
    BY <1>v, <1>1, <1>2, <1>5, <1>6, <2>7, <2>8, PartsKeep DEF VmsKept
<1> QED
  BY <1>9, <1>10 DEF ReceivesFromVm

-----------------------------------------------------------------------------
(* Theorems *)

(* The invariant holds of all reachable states. *)
LEMMA StatusInvariant == Spec => []StatusInv
<1>1. Init => StatusInv
  <2> SUFFICES ASSUME Init PROVE StatusInv
    OBVIOUS
  <2>1. Shape
    BY DEF Init, Shape, StatusActor, VmStates, VmChannels
  <2>2. ChannelsMatch
    BY VmChannelsDiffer DEF Init, ChannelsMatch
  <2>3. \A h \in Hosts : CountedVms(h) = {}
    BY VmChannelsDiffer DEF Init, CountedVms, Counted
  <2>4. NumbersMatch
    BY <2>3, FS_EmptySet DEF Init, NumbersMatch
  <2> QED
    BY <2>1, <2>2, <2>4 DEF StatusInv
<1>2. StatusInv /\ [Next]_vars => StatusInv'
  <2> SUFFICES ASSUME StatusInv, [Next]_vars PROVE StatusInv'
    OBVIOUS
  <2>1. CASE UNCHANGED vars
    BY <2>1, SameVms, PartsKeep DEF vars, NodesKept, StatusInv, Shape
  <2>2. ASSUME NEW r \in Refs, NodeStops(r) \/ NodeCrashes(r) PROVE StatusInv'
    <3>1. <<"Deregister">> \in Seq(MonitorMessages) /\ <<>> \in Seq(MonitorMessages)
      BY DEF MonitorMessages
    <3> QED
      BY <2>2, <3>1, NodeGoesStep DEF NodeStops, NodeCrashes
  <2> QED
    BY <2>1, <2>2, MonitorStep, VmActorStep, CountStep DEF Next
<1> QED
  BY <1>1, <1>2, PTL DEF Spec

(* TypeOK: in particular the number of VMs of an address never exceeds what *)
(* its NodeActors can have created, although crashed VMs are never counted  *)
(* out.                                                                     *)
THEOREM TypeCorrect == Spec => []TypeOK
<1>1. StatusInv => TypeOK
  <2> SUFFICES ASSUME StatusInv PROVE TypeOK
    OBVIOUS
  <2>1. Shape
    BY DEF StatusInv
  <2>2. \A h \in Hosts : status.nodeVms[h] \in 0 .. MaxLives * Cardinality(VMs)
    BY VmsOfHost DEF StatusInv, NumbersMatch, CountedVms
  <2>3. status.nodeVms \in [Hosts -> 0 .. MaxLives * Cardinality(VMs)]
    BY <2>1, <2>2 DEF Shape, StatusActor
  <2>4. \A r \in Refs : \A i \in DOMAIN chan[r] : chan[r][i] \in MonitorMessages
    BY <2>1 DEF Shape
  <2>5. /\ status.nodeMonitorActors \subseteq Refs /\ status.watched \subseteq Refs
        /\ status.nodeAttributes \subseteq Refs
    BY <2>1 DEF Shape, StatusActor
  <2> QED
    BY <2>1, <2>3, <2>4, <2>5 DEF Shape, TypeOK, MonitorMessages, VmStates, VmChannels
<1> QED
  BY <1>1, StatusInvariant, PTL

(* CountDriftsOnlyByLoss: once the messages of the VMActors have arrived,   *)
(* the number of VMs is that of the running ones and of those that went     *)
(* with their node, whatever was lost when nodes went.                      *)
THEOREM CountIsExact == Spec => []CountDriftsOnlyByLoss
<1>1. StatusInv => CountDriftsOnlyByLoss
  <2> SUFFICES ASSUME StatusInv, NEW h \in Hosts,
                      \A r \in Refs, v \in VMs : r[1] = h => vmChan[r][v] = <<>>
               PROVE  CountedVms(h) =
                        {x \in Refs \X VMs : x[1][1] = h /\ vm[x[1]][x[2]] \in {"up", "lost"}}
    BY DEF CountDriftsOnlyByLoss, StatusInv, NumbersMatch
  <2> QED
    BY VmChannelsDiffer DEF CountedVms, Counted
<1> QED
  BY <1>1, StatusInvariant, PTL
=============================================================================
