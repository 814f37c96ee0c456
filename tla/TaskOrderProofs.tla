--------------------------- MODULE TaskOrderProofs ---------------------------
(***************************************************************************)
(* What the tree owes to the order of its messages, for any tasks, paths   *)
(* and runs, when no VM asks for a task while a run is being uploaded      *)
(* (Undisturbed): no task is lost, a Distributor stops when all tasks of   *)
(* its run are processed, a VM is sent away only then, and a task is       *)
(* executed only when all tasks it depends on have succeeded.              *)
(***************************************************************************)
EXTENDS TaskTreeProofs

-----------------------------------------------------------------------------
(* More about the shape of the tree *)

LEMMA Comparable ==
  ASSUME NEW m \in Nodes, NEW n \in Nodes, NEW t \in Tasks, Below(m, t), Below(n, t)
  PROVE  m = n \/ Over(m, n) \/ Over(n, m)
<1>1. /\ m = <<m[1], m[2]>> /\ n = <<n[1], n[2]>> /\ m[2] \in Seq(Members) /\ n[2] \in Seq(Members)
      /\ Len(m[2]) \in Nat /\ Len(n[2]) \in Nat
  BY NodeType
<1>2. /\ m[1] = RunOf[t] /\ Len(m[2]) <= Len(Path[t]) /\ \A i \in 1 .. Len(m[2]) : m[2][i] = Path[t][i]
  BY <1>1, BelowIs
<1>3. /\ n[1] = RunOf[t] /\ Len(n[2]) <= Len(Path[t]) /\ \A i \in 1 .. Len(n[2]) : n[2][i] = Path[t][i]
  BY <1>1, BelowIs
<1>4. CASE Len(m[2]) < Len(n[2])
  <2>1. \A i \in 1 .. Len(m[2]) : m[2][i] = n[2][i]
    BY <1>1, <1>2, <1>3, <1>4
  <2> QED
    BY <1>2, <1>3, <1>4, <2>1, OverIs
<1>5. CASE Len(n[2]) < Len(m[2])
  <2>1. \A i \in 1 .. Len(n[2]) : n[2][i] = m[2][i]
    BY <1>1, <1>2, <1>3, <1>5
  <2> QED
    BY <1>2, <1>3, <1>5, <2>1, OverIs
<1>6. CASE Len(m[2]) = Len(n[2])
  <2>1. \A i \in 1 .. Len(m[2]) : m[2][i] = n[2][i]
    BY <1>1, <1>2, <1>3, <1>6
  <2>2. m[2] = n[2]
    BY <1>1, <1>6, <2>1, SameSeq
  <2> QED
    BY <1>1, <1>2, <1>3, <2>2
<1> QED
  BY <1>1, <1>4, <1>5, <1>6

LEMMA OverAsym ==
  ASSUME NEW m \in Nodes, NEW n \in Nodes, Over(m, n)
  PROVE  ~Over(n, m) /\ m # n
  BY OverTrans, OverIsOther

LEMMA BelowOver ==
  ASSUME NEW m \in Nodes, NEW n \in Nodes, NEW t \in Tasks, Below(n, t), Over(m, n)
  PROVE  Below(m, t)
<1>1. /\ m = <<m[1], m[2]>> /\ n = <<n[1], n[2]>> /\ m[2] \in Seq(Members) /\ n[2] \in Seq(Members)
      /\ Len(m[2]) \in Nat /\ Len(n[2]) \in Nat /\ Len(Path[t]) \in Nat
  BY NodeType, PathType
<1>2. /\ n[1] = RunOf[t] /\ Len(n[2]) <= Len(Path[t]) /\ \A i \in 1 .. Len(n[2]) : n[2][i] = Path[t][i]
  BY <1>1, BelowIs
<1>3. m[1] = n[1] /\ Len(m[2]) < Len(n[2]) /\ \A i \in 1 .. Len(m[2]) : m[2][i] = n[2][i]
  BY OverIs
<1>4. Len(m[2]) <= Len(Path[t]) /\ \A i \in 1 .. Len(m[2]) : m[2][i] = Path[t][i]
  BY <1>1, <1>2, <1>3
<1> QED
  BY <1>1, <1>2, <1>3, <1>4, BelowIs

LEMMA BelowHome ==
  ASSUME NEW n \in Nodes, NEW t \in Tasks
  PROVE  Below(n, t) <=> n = Home(t) \/ Over(n, Home(t))
<1>1. Home(t) \in Nodes /\ Below(Home(t), t)
  BY HomeIs
<1>2. Over(n, Home(t)) => Below(n, t)
  BY <1>1, BelowOver
<1>3. ASSUME Below(n, t), Over(Home(t), n) PROVE FALSE
  <2>1. n = <<n[1], n[2]>> /\ n[2] \in Seq(Members) /\ Len(n[2]) \in Nat /\ Len(Path[t]) \in Nat
    BY NodeType, PathType
  <2>2. Len(n[2]) <= Len(Path[t])
    BY <1>3, <2>1, BelowIs
  <2>3. Len(Home(t)[2]) < Len(n[2])
    BY <1>1, <1>3, OverIs
  <2>4. Home(t)[2] = Path[t]
    BY DEF Home
  <2> QED
    BY <2>1, <2>2, <2>3, <2>4
<1>4. Below(n, t) => n = Home(t) \/ Over(n, Home(t))
  BY <1>1, <1>3, Comparable
<1> QED
  BY <1>1, <1>2, <1>4

\* What is over c is over its parent, or the parent.
LEMMA OverAbove ==
  ASSUME NEW c \in Nodes, ~IsDistributor(c), NEW m \in Nodes
  PROVE  Over(m, c) <=> m = Above(c) \/ Over(m, Above(c))
<1>1. Above(c) \in Nodes /\ Over(Above(c), c)
  BY AboveIs
<1>2. Over(m, Above(c)) => Over(m, c)
  BY <1>1, OverTrans
<1>3. ASSUME Over(m, c) PROVE m = Above(c) \/ Over(m, Above(c))
  <2>1. PICK t \in Tasks : Below(c, t)
    BY NodeType
  <2>2. Below(m, t) /\ Below(Above(c), t)
    BY <1>1, <1>3, <2>1, BelowOver
  <2>3. ~Over(Above(c), m)
    <3>1. SUFFICES ASSUME Over(Above(c), m) PROVE FALSE
      OBVIOUS
    <3>2. Len(Above(c)[2]) < Len(m[2]) /\ Len(m[2]) < Len(c[2])
      BY <1>1, <1>3, <3>1, OverIs
    <3>3. c[2] \in Seq(Members) /\ Len(c[2]) \in Nat /\ Len(m[2]) \in Nat /\ c[2] # <<>>
      BY NodeType DEF IsDistributor
    <3>4. Len(c[2]) - 1 \in 0 .. Len(c[2])
      BY <3>3
    <3>5. Len(Above(c)[2]) = Len(c[2]) - 1
      <4>1. Above(c)[2] = SubSeq(c[2], 1, Len(c[2]) - 1)
        BY DEF Above, Front
      <4> QED
        BY <3>3, <3>4, <4>1, Prefix
    <3> QED
      BY <3>2, <3>3, <3>5
  <2> QED
    BY <1>1, <2>2, <2>3, Comparable
<1> QED
  BY <1>1, <1>2, <1>3

\* The way from n to t leads over the child of n toward t.
LEMMA TowardOver ==
  ASSUME NEW n \in Nodes, NEW m \in Nodes, NEW t \in Tasks, Below(m, t), Over(n, m)
  PROVE  /\ Below(n, t) /\ Home(t) # n
         /\ Toward(n, t) = m \/ Over(Toward(n, t), m)
<1>1. Below(n, t)
  BY BelowOver
<1>2. Home(t) # n
  <2>1. m = Home(t) \/ Over(m, Home(t))
    BY BelowHome
  <2> QED
    BY <2>1, OverAsym, HomeIs
<1>3. /\ Toward(n, t) \in Nodes /\ Below(Toward(n, t), t) /\ ~IsDistributor(Toward(n, t))
      /\ Above(Toward(n, t)) = n
  BY <1>1, <1>2, TowardIs
<1>4. ~Over(m, Toward(n, t))
  BY <1>3, OverAbove, OverAsym
<1> QED
  BY <1>1, <1>2, <1>3, <1>4, Comparable

LEMMA DistributorOver ==
  ASSUME NEW d \in Nodes, IsDistributor(d)
  PROVE  /\ \A m \in Nodes : ~Over(m, d)
         /\ \A t \in Tasks : (Below(d, t) <=> RunOf[t] = d[1]) /\ (RunOf[t] = d[1] => d = Distributor(RunOf[t]))
<1>1. d = <<d[1], d[2]>> /\ d[2] = <<>> /\ Len(d[2]) = 0
  BY NodeType DEF IsDistributor
<1>2. \A m \in Nodes : ~Over(m, d)
  <2>1. \A m \in Nodes : Len(m[2]) \in Nat
    BY NodeType
  <2> QED
    BY <1>1, <2>1, OverIs
<1>3. \A t \in Tasks : RunOf[t] = d[1] => d = Distributor(RunOf[t])
  BY <1>1 DEF Distributor
<1>4. \A t \in Tasks : Below(d, t) <=> RunOf[t] = d[1]
  BY <1>3, DistributorIs DEF Below
<1> QED
  BY <1>2, <1>3, <1>4

LEMMA UnderDistributor ==
  ASSUME NEW n \in Nodes, NEW t \in Tasks, Below(n, t)
  PROVE  n = Distributor(RunOf[t]) \/ Over(Distributor(RunOf[t]), n)
  BY Comparable, DistributorIs, DistributorOver

-----------------------------------------------------------------------------
(* The order of messages in a mailbox *)

\* A message that is no AddTask; no AddTask is behind one.
Other(mail) == \E i \in DOMAIN mail : mail[i].kind # "AddTask"
Flushed(mail) == \A i, k \in DOMAIN mail : i < k /\ mail[i].kind # "AddTask" => mail[k].kind # "AddTask"

LEMMA FlushedEmpty == Flushed(<<>>) /\ ~Other(<<>>)
  BY DEF Flushed, Other

LEMMA FlushedTail ==
  ASSUME NEW S, NEW mail \in Seq(S), mail # <<>>
  PROVE  /\ Other(Tail(mail)) => Other(mail)
         /\ Head(mail).kind # "AddTask" => Other(mail)
         /\ Flushed(mail) => Flushed(Tail(mail))
         /\ Flushed(mail) /\ Head(mail).kind # "AddTask" => \A t \in Tasks : ~Has(mail, AddTask(t))
<1>1. /\ Tail(mail) \in Seq(S) /\ Len(mail) \in Nat \ {0}
      /\ DOMAIN mail = 1 .. Len(mail) /\ DOMAIN Tail(mail) = 1 .. Len(mail) - 1
      /\ \A i \in 1 .. Len(mail) - 1 : Tail(mail)[i] = mail[i + 1] /\ i + 1 \in 1 .. Len(mail)
      /\ Head(mail) = mail[1] /\ 1 \in 1 .. Len(mail)
  OBVIOUS
<1>2. Other(Tail(mail)) => Other(mail)
  BY <1>1 DEF Other
<1>3. Head(mail).kind # "AddTask" => Other(mail)
  BY <1>1 DEF Other
<1>4. Flushed(mail) => Flushed(Tail(mail))
  <2>1. SUFFICES ASSUME Flushed(mail), NEW i \in 1 .. Len(mail) - 1, NEW k \in 1 .. Len(mail) - 1,
                        i < k, Tail(mail)[i].kind # "AddTask"
                 PROVE  Tail(mail)[k].kind # "AddTask"
    BY <1>1 DEF Flushed
  <2>2. i + 1 < k + 1
    BY <2>1
  <2> QED
    BY <1>1, <2>1, <2>2 DEF Flushed
<1>5. Flushed(mail) /\ Head(mail).kind # "AddTask" => \A t \in Tasks : ~Has(mail, AddTask(t))
  <2>1. SUFFICES ASSUME Flushed(mail), Head(mail).kind # "AddTask", NEW t \in Tasks,
                        NEW k \in 1 .. Len(mail), mail[k] = AddTask(t)
                 PROVE  FALSE
    BY <1>1 DEF Has
  <2>2. mail[k].kind = "AddTask"
    BY <2>1, MsgKinds
  <2>3. k # 1 /\ 1 < k
    BY <1>1, <2>1, <2>2
  <2> QED
    BY <1>1, <2>1, <2>2, <2>3 DEF Flushed
<1> QED
  BY <1>2, <1>3, <1>4, <1>5

LEMMA FlushedAppend ==
  ASSUME NEW S, NEW mail \in Seq(S), NEW m \in S
  PROVE  /\ Other(Append(mail, m)) <=> Other(mail) \/ m.kind # "AddTask"
         /\ Flushed(mail) /\ (m.kind # "AddTask" \/ ~Other(mail)) => Flushed(Append(mail, m))
<1>1. PICK q : q = Append(mail, m)
  OBVIOUS
<1>2. /\ Len(mail) \in Nat /\ DOMAIN mail = 1 .. Len(mail) /\ DOMAIN q = 1 .. Len(mail) + 1
      /\ \A i \in 1 .. Len(mail) : q[i] = mail[i]
      /\ q[Len(mail) + 1] = m
  BY <1>1
<1>3. Other(q) <=> Other(mail) \/ m.kind # "AddTask"
  BY <1>2 DEF Other
<1>4. Flushed(mail) /\ (m.kind # "AddTask" \/ ~Other(mail)) => Flushed(q)
  BY <1>2 DEF Flushed, Other
<1> QED
  BY <1>1, <1>3, <1>4

-----------------------------------------------------------------------------
(* An AddTask only goes down *)

\* t has not reached the InstanceActor, or is in its mailbox.
Waiting(t) == tsk[t].state = "new" \/ Has(inst.mail, AddTask(t))

\* Every task whose way leads through n is behind n.
Passed(n) ==
  \A t \in Tasks : Below(n, t) =>
    ~Waiting(t) /\ \A m \in Nodes : m = n \/ Over(m, n) => ~Has(node[m].mail, AddTask(t))

\* The same for all levels above n as well; for all levels above n alone.
PassedUp(n) == \A m \in Nodes : m = n \/ Over(m, n) => Passed(m)
Closed(n) ==
  /\ \A m \in Nodes : Over(m, n) => Passed(m)
  /\ \A t \in Tasks : Below(n, t) => ~Waiting(t)

GoesDown(t) ==
  /\ tsk'[t].state = "new" => tsk[t].state = "new"
  /\ Has(inst'.mail, AddTask(t)) => Waiting(t)
  /\ \A m \in Nodes : Has(node'[m].mail, AddTask(t)) =>
       \/ Has(node[m].mail, AddTask(t))
       \/ Waiting(t)
       \/ ~IsDistributor(m) /\ Has(node[Above(m)].mail, AddTask(t))

LEMMA PassedStays ==
  ASSUME \A t \in Tasks : GoesDown(t)
  PROVE  \A n \in Nodes : /\ Passed(n) => Passed(n)'
                          /\ PassedUp(n) => PassedUp(n)'
                          /\ Closed(n) => Closed(n)'
<1>1. \A t \in Tasks : Waiting(t)' => Waiting(t)
  BY DEF GoesDown, Waiting
<1>2. ASSUME NEW n \in Nodes, Passed(n) PROVE Passed(n)'
  <2>1. SUFFICES ASSUME NEW t \in Tasks, Below(n, t), NEW m \in Nodes, m = n \/ Over(m, n),
                        Has(node'[m].mail, AddTask(t))
                 PROVE  FALSE
    BY <1>1, <1>2 DEF Passed
  <2>2. ~Waiting(t) /\ \A l \in Nodes : l = n \/ Over(l, n) => ~Has(node[l].mail, AddTask(t))
    BY <1>2, <2>1 DEF Passed
  <2>3. ~IsDistributor(m) /\ Has(node[Above(m)].mail, AddTask(t))
    BY <2>1, <2>2 DEF GoesDown
  <2>4. Above(m) \in Nodes /\ Over(Above(m), m)
    BY <2>3, AboveIs
  <2>5. Over(Above(m), n)
    BY <2>1, <2>4, OverTrans
  <2> QED
    BY <2>2, <2>3, <2>4, <2>5
<1>3. ASSUME NEW n \in Nodes, PassedUp(n) PROVE PassedUp(n)'
  BY <1>2, <1>3 DEF PassedUp
<1>4. ASSUME NEW n \in Nodes, Closed(n) PROVE Closed(n)'
  BY <1>1, <1>2, <1>4 DEF Closed
<1> QED
  BY <1>2, <1>3, <1>4

LEMMA PassedUpIs ==
  ASSUME NEW n \in Nodes
  PROVE  /\ PassedUp(n) => Closed(n)
         /\ PassedUp(n) => \A c \in Nodes : ~IsDistributor(c) /\ Above(c) = n => Closed(c)
         /\ PassedUp(n) /\ ~IsDistributor(n) => Closed(Above(n))
         /\ Closed(n) /\ (\A t \in Tasks : ~Has(node[n].mail, AddTask(t))) => PassedUp(n)
<1>1. PassedUp(n) => Closed(n)
  BY DEF PassedUp, Closed, Passed
<1>2. ASSUME PassedUp(n), NEW c \in Nodes, ~IsDistributor(c), Above(c) = n PROVE Closed(c)
  <2>1. \A m \in Nodes : Over(m, c) => m = n \/ Over(m, n)
    BY <1>2, OverAbove
  <2>2. Over(n, c)
    BY <1>2, AboveIs
  <2>3. \A t \in Tasks : Below(c, t) => Below(n, t)
    BY <2>2, BelowOver
  <2> QED
    BY <1>2, <2>1, <2>3 DEF PassedUp, Closed, Passed
<1>3. ASSUME PassedUp(n), ~IsDistributor(n) PROVE Closed(Above(n))
  <2>1. Above(n) \in Nodes /\ Over(Above(n), n)
    BY <1>3, AboveIs
  <2>2. \A m \in Nodes : Over(m, Above(n)) => Over(m, n)
    BY <2>1, OverTrans
  <2>3. Passed(Above(n))
    BY <1>3, <2>1 DEF PassedUp
  <2> QED
    BY <1>3, <2>2, <2>3 DEF PassedUp, Closed, Passed
<1>4. ASSUME Closed(n), \A t \in Tasks : ~Has(node[n].mail, AddTask(t)) PROVE PassedUp(n)
  <2>1. Passed(n)
    <3>1. SUFFICES ASSUME NEW t \in Tasks, Below(n, t), NEW m \in Nodes, m = n \/ Over(m, n),
                          Has(node[m].mail, AddTask(t))
                   PROVE  FALSE
      BY <1>4 DEF Passed, Closed
    <3>2. Over(m, n)
      BY <1>4, <3>1
    <3>3. Below(m, t)
      BY <3>1, <3>2, BelowOver
    <3> QED
      BY <1>4, <3>1, <3>2, <3>3 DEF Closed, Passed
  <2> QED
    BY <1>4, <2>1 DEF PassedUp, Closed
<1> QED
  BY <1>1, <1>2, <1>3, <1>4

AllQuiet == \A x \in Nodes : Quiet(node[x].mail, node'[x].mail)

LEMMA ForwardsQuiet ==
  ASSUME Typed, Delivery, NEW n \in Nodes, NEW to, NEW m \in NodeMsgs, m.kind # "AddTask", Forwards(n, to, m)
  PROVE  AllQuiet
<1>1. \A x \in Nodes \ {n} : Sent(x, to, m)
  BY DEF Forwards
<1>2. \A x \in Nodes \ {n} : Quiet(node[x].mail, node'[x].mail)
  BY <1>1, SentKeeps
<1>3. node'[n].mail = Tail(node[n].mail) /\ node[n].mail # <<>> /\ node[n].mail \in Seq(NodeMsgs)
  BY NodeStateIs DEF Typed, Forwards, Done
<1> QED
  BY <1>2, <1>3, QuietTail DEF AllQuiet

LEMMA StopsQuiet ==
  ASSUME NEW n \in Nodes, Stops(n)
  PROVE  AllQuiet
<1>1. node'[n].mail = <<>> /\ \A x \in Nodes \ {n} : node'[x] = node[x]
  BY DEF Stops
<1> QED
  BY <1>1, QuietEmpty, QuietSame DEF AllQuiet

LEMMA ArrivesQuiet ==
  ASSUME Typed, NEW n \in Nodes, NEW t, Arrives(n, t)
  PROVE  AllQuiet
<1>1. /\ node'[n].mail = Tail(node[n].mail) /\ node[n].mail # <<>> /\ node[n].mail \in Seq(NodeMsgs)
      /\ \A x \in Nodes \ {n} : node'[x] = node[x]
  BY NodeStateIs DEF Typed, Arrives, Done
<1> QED
  BY <1>1, QuietTail, QuietSame DEF AllQuiet

LEMMA StrikesQuiet ==
  ASSUME Typed, Delivery, NEW n \in Nodes, NEW t, NEW to, NEW m \in NodeMsgs, m.kind # "AddTask",
         Strikes(n, t, to, m)
  PROVE  AllQuiet
<1>1. node'[n].mail = node[n].mail /\ \A x \in Nodes \ {n} : Sent(x, to, m)
  BY DEF Strikes
<1>2. \A x \in Nodes \ {n} : Quiet(node[x].mail, node'[x].mail)
  BY <1>1, SentKeeps
<1> QED
  BY <1>1, <1>2, QuietSame DEF AllQuiet

LEMMA GoneQuiet ==
  ASSUME Typed, Delivery, NEW n \in Nodes, Gone(n)
  PROVE  AllQuiet /\ Quiet(inst.mail, inst'.mail)
<1>1. PICK m : m = Terminated(Ref(n))
  OBVIOUS
<1>2. m \in NodeMsgs /\ m \in InstMsgs /\ m.kind # "AddTask"
  <2>1. Ref(n) \in Refs
    BY NodeStateIs DEF Typed, Ref, Refs
  <2> QED
    BY <1>1, <2>1, MsgKinds DEF NodeMsgs, InstMsgs
<1>3. /\ Leaves(n)
      /\ IsDistributor(n) => /\ inst'.mail = Append(inst.mail, m)
                             /\ \A x \in Nodes \ {n} : node'[x] = node[x]
      /\ ~IsDistributor(n) => UNCHANGED inst /\ \A x \in Nodes \ {n} : Sent(x, {Above(n)}, m)
  BY <1>1, GoneIs
<1>4. node'[n].mail = <<>>
  BY <1>3 DEF Leaves
<1>5. Quiet(node[n].mail, node'[n].mail)
  BY <1>4, QuietEmpty
<1>6. CASE IsDistributor(n)
  <2>1. inst.mail \in Seq(InstMsgs)
    BY DEF Typed
  <2>2. Quiet(inst.mail, inst'.mail)
    BY <1>2, <1>3, <1>6, <2>1, QuietAppend
  <2> QED
    BY <1>3, <1>5, <1>6, <2>2, QuietSame DEF AllQuiet
<1>7. CASE ~IsDistributor(n)
  <2>1. \A x \in Nodes \ {n} : Quiet(node[x].mail, node'[x].mail)
    BY <1>2, <1>3, <1>7, SentKeeps
  <2>2. Quiet(inst.mail, inst'.mail)
    BY <1>3, <1>7, QuietSame
  <2> QED
    BY <1>5, <2>1, <2>2 DEF AllQuiet
<1> QED
  BY <1>6, <1>7

LEMMA GoesDownQuiet ==
  ASSUME AllQuiet, Quiet(inst.mail, inst'.mail), \A t \in Tasks : tsk'[t].state = "new" => tsk[t].state = "new"
  PROVE  \A t \in Tasks : GoesDown(t)
  BY DEF AllQuiet, Quiet, GoesDown, Waiting

\* A task that gets lost is not new again.
LEMMA LoseNotNew ==
  ASSUME Typed, NEW lost, tsk' = Lose(lost)
  PROVE  \A t \in Tasks : tsk'[t].state = "new" => tsk[t].state = "new"
<1>1. \A t \in Tasks : t \in lost => tsk'[t].state = "lost"
  BY LoseIs
<1>2. \A t \in Tasks : t \notin lost => tsk'[t] = tsk[t]
  BY LoseIs
<1> QED
  BY <1>1, <1>2

LEMMA DeliveredGoes ==
  ASSUME Typed, NEW c \in Nodes, NEW t \in Tasks, Delivered(t, c)
  PROVE  /\ \A u \in Tasks : Has(node'[c].mail, AddTask(u)) => Has(node[c].mail, AddTask(u)) \/ u = t
         /\ \A u \in Tasks : tsk'[u].state = "new" => tsk[u].state = "new"
<1>1. node[c].mail \in Seq(NodeMsgs) /\ AddTask(t) \in NodeMsgs
  BY NodeStateIs, NodeMsgKinds DEF Typed
<1>2. \A u \in Tasks : Has(node'[c].mail, AddTask(u)) => Has(node[c].mail, AddTask(u)) \/ u = t
  <2>1. CASE node[c].state = "stopping"
    BY <2>1 DEF Delivered
  <2>2. CASE node[c].state # "stopping"
    <3>1. node'[c].mail = Append(node[c].mail, AddTask(t))
      BY <2>2 DEF Delivered
    <3>2. \A u \in Tasks : Has(node'[c].mail, AddTask(u)) <=> Has(node[c].mail, AddTask(u)) \/ AddTask(u) = AddTask(t)
      BY <1>1, <3>1, HasAppend
    <3> QED
      BY <3>2, MsgKinds
  <2> QED
    BY <2>1, <2>2
<1>3. \A u \in Tasks : tsk'[u].state = "new" => tsk[u].state = "new"
  BY LoseNotNew DEF Delivered
<1> QED
  BY <1>2, <1>3

LEMMA PassesGoes ==
  ASSUME Typed, Delivery, NEW n \in Nodes, NEW t \in Tasks, Below(n, t), Home(t) # n,
         Passes(n, t, Toward(n, t)), UNCHANGED inst
  PROVE  \A u \in Tasks : GoesDown(u)
<1>1. PICK c \in Nodes : c = Toward(n, t)
  BY TowardIs
<1>2. ~IsDistributor(c) /\ Above(c) = n
  BY <1>1, TowardIs
<1>3. /\ Delivered(t, c) /\ node[n].mail # <<>> /\ Head(node[n].mail) = AddTask(t)
      /\ node'[n].mail = Tail(node[n].mail) /\ \A x \in Nodes \ {n, c} : node'[x] = node[x]
  BY <1>1 DEF Passes, Done
<1>4. Has(node[n].mail, AddTask(t))
  BY <1>3, HeadIsSent
<1>5. node[n].mail \in Seq(NodeMsgs)
  BY NodeStateIs DEF Typed
<1>6. \A u \in Tasks : Has(node'[n].mail, AddTask(u)) => Has(node[n].mail, AddTask(u))
  BY <1>3, <1>5, HasTail
<1>7. /\ \A u \in Tasks : Has(node'[c].mail, AddTask(u)) => Has(node[c].mail, AddTask(u)) \/ u = t
      /\ \A u \in Tasks : tsk'[u].state = "new" => tsk[u].state = "new"
  BY <1>3, DeliveredGoes
<1>8. \A u \in Tasks, x \in Nodes : Has(node'[x].mail, AddTask(u)) =>
        Has(node[x].mail, AddTask(u)) \/ (~IsDistributor(x) /\ Has(node[Above(x)].mail, AddTask(u)))
  BY <1>2, <1>3, <1>4, <1>6, <1>7
<1> QED
  BY <1>7, <1>8 DEF GoesDown, Waiting

LEMMA GoesDownStep ==
  ASSUME Typed, Delivery, [Next]_vars
  PROVE  \A t \in Tasks : GoesDown(t)
<1> DEFINE NotNew == \A t \in Tasks : tsk'[t].state = "new" => tsk[t].state = "new"
           Goal == \A t \in Tasks : GoesDown(t)
<1>0. ASSUME AllQuiet, UNCHANGED inst, NotNew PROVE Goal
  BY <1>0, QuietSame, GoesDownQuiet
<1>1. CASE UNCHANGED vars
  <2>1. UNCHANGED <<inst, node, tsk>>
    BY <1>1 DEF vars
  <2> QED
    BY <1>0, <2>1, QuietSame DEF AllQuiet
<1>2. ASSUME NEW t \in Tasks, Upload(t) PROVE Goal
  <2>1. /\ UNCHANGED node /\ tsk[t].state = "new" /\ TaskTo(t, "sent")
        /\ inst'.mail = Append(inst.mail, AddTask(t))
    BY <1>2, UploadIs
  <2>2. inst.mail \in Seq(InstMsgs) /\ AddTask(t) \in InstMsgs
    BY DEF Typed, InstMsgs
  <2>3. \A u \in Tasks : Has(inst'.mail, AddTask(u)) => Has(inst.mail, AddTask(u)) \/ u = t
    BY <2>1, <2>2, HasAppend, MsgKinds
  <2> QED
    BY <2>1, <2>3 DEF GoesDown, Waiting, TaskTo
<1>3. ASSUME NEW t \in Tasks, TaskStep(t) PROVE Goal
  <2>1. CASE TaskTake(t) \/ TaskNotTaken(t) \/ TaskReset(t) \/ TaskEnds(t)
    <3>1. UNCHANGED <<inst, node>> /\ NotNew
      BY <2>1, TaskMovesIs DEF TaskTo
    <3> QED
      BY <1>0, <3>1, QuietSame DEF AllQuiet
  <2>2. CASE HandleSuccess(t)
    <3>1. UNCHANGED inst /\ TaskTo(t, "stopping") /\ Strikes(Home(t), t, {}, GetTask)
      BY <2>2, HandleSuccessIs
    <3>2. NotNew
      BY <3>1 DEF TaskTo
    <3> QED
      BY <1>0, <3>1, <3>2, StrikesQuiet, HomeIs, NodeMsgKinds
  <2>3. CASE HandleFailure(t)
    <3>1. /\ UNCHANGED inst /\ tsk'[t].state = "stopping"
          /\ \A u \in Tasks \ {t} : tsk'[u] = Advised(TaskChildren(Home(t)))[u]
          /\ Strikes(Home(t), t, SubNodes(Home(t)), PersistAndSuicide)
      BY <2>3, HandleFailureIs
    <3>2. NotNew
      BY <3>1, AdvisedIs
    <3> QED
      BY <1>0, <3>1, <3>2, StrikesQuiet, HomeIs, NodeMsgKinds
  <2>4. CASE TaskSuicide(t)
    <3>1. UNCHANGED <<inst, node>> /\ NotNew
      BY <2>4, TaskSuicideIs DEF TaskTo
    <3> QED
      BY <1>0, <3>1, QuietSame DEF AllQuiet
  <2>5. CASE TaskGone(t)
    <3>1. UNCHANGED inst /\ TaskTo(t, "gone") /\ \A x \in Nodes : Sent(x, {Home(t)}, TaskTerminated)
      BY <2>5, TaskGoneIs
    <3>2. NotNew
      BY <3>1 DEF TaskTo
    <3>3. AllQuiet
      BY <3>1, SentKeeps, NodeMsgKinds DEF AllQuiet
    <3> QED
      BY <1>0, <3>1, <3>2, <3>3
  <2> QED
    BY <1>3, <2>1, <2>2, <2>3, <2>4, <2>5 DEF TaskStep
<1>4. ASSUME NEW ver \in Versions, Poll(ver) PROVE Goal
  <2>1. UNCHANGED <<node, tsk>> /\ inst'.mail = Append(inst.mail, GetTaskOf(ver))
    BY <1>4, PollIs
  <2>2. inst.mail \in Seq(InstMsgs) /\ GetTaskOf(ver) \in InstMsgs /\ GetTaskOf(ver).kind # "AddTask"
    BY MsgKinds DEF Typed, InstMsgs
  <2>3. Quiet(inst.mail, inst'.mail)
    BY <2>1, <2>2, QuietAppend
  <2>4. AllQuiet
    BY <2>1, QuietSame DEF AllQuiet
  <2> QED
    BY <2>1, <2>3, <2>4, GoesDownQuiet
<1>5. ASSUME InstStep PROVE Goal
  <2>0. inst.mail \in Seq(InstMsgs)
    BY DEF Typed
  <2>1. CASE InstAddTask
    <3>1. PICK t \in Tasks : /\ inst.mail # <<>> /\ inst'.mail = Tail(inst.mail) /\ Has(inst.mail, AddTask(t))
                             /\ Delivered(t, Distributor(RunOf[t]))
                             /\ \A x \in Nodes \ {Distributor(RunOf[t])} : node'[x] = node[x]
      BY <2>1, InstAddTaskIs
    <3>2. PICK d \in Nodes : d = Distributor(RunOf[t])
      BY DistributorIs
    <3>3. /\ \A u \in Tasks : Has(node'[d].mail, AddTask(u)) => Has(node[d].mail, AddTask(u)) \/ u = t
          /\ NotNew
      BY <3>1, <3>2, DeliveredGoes
    <3>4. \A u \in Tasks : Has(inst'.mail, AddTask(u)) => Has(inst.mail, AddTask(u))
      BY <2>0, <3>1, HasTail
    <3>5. \A u \in Tasks, x \in Nodes : Has(node'[x].mail, AddTask(u)) => Has(node[x].mail, AddTask(u)) \/ Waiting(u)
      BY <3>1, <3>2, <3>3 DEF Waiting
    <3> QED
      BY <3>3, <3>4, <3>5 DEF GoesDown, Waiting
  <2>2. CASE InstGetTask \/ InstTerminated \/ \E ver \in Versions : NoMoreTasks(ver)
    <3>1. UNCHANGED tsk /\ InstDone /\ \E to : \A x \in Nodes : Sent(x, to, GetTask)
      <4>1. CASE InstGetTask
        BY <4>1, InstGetTaskIs
      <4>2. CASE InstTerminated \/ \E ver \in Versions : NoMoreTasks(ver)
        <5>1. UNCHANGED <<node, tsk>> /\ InstDone
          BY <4>2, InstTerminatedIs, NoMoreTasksIs
        <5>2. \A x \in Nodes : Sent(x, {}, GetTask)
          BY <5>1 DEF Sent
        <5> QED
          BY <5>1, <5>2
      <4> QED
        BY <2>2, <4>1, <4>2
    <3>2. AllQuiet
      BY <3>1, SentKeeps, NodeMsgKinds DEF AllQuiet
    <3>3. Quiet(inst.mail, inst'.mail)
      BY <2>0, <3>1, QuietTail DEF InstDone
    <3> QED
      BY <3>1, <3>2, <3>3, GoesDownQuiet
  <2> QED
    BY <1>5, <2>1, <2>2 DEF InstStep
<1>6. ASSUME NEW n \in Nodes, NodeStep(n) PROVE Goal
  <2>1. ASSUME Stops(n), UNCHANGED inst PROVE Goal
    <3>1. NotNew
      BY <2>1, LoseNotNew DEF Stops
    <3> QED
      BY <1>0, <2>1, <3>1, StopsQuiet
  <2>2. ASSUME NEW to, NEW m \in NodeMsgs, m.kind # "AddTask", Forwards(n, to, m), UNCHANGED inst,
               \A t \in Tasks : tsk'[t].state = tsk[t].state
        PROVE  Goal
    BY <1>0, <2>2, ForwardsQuiet
  <2>3. CASE DistAddTask(n)
    BY <2>3, DistAddTaskIs, PassesGoes
  <2>4. CASE DistGetTask(n)
    BY <2>1, <2>2, <2>4, DistGetTaskIs, NodeMsgKinds
  <2>5. CASE DistTerminated(n)
    BY <2>1, <2>2, <2>5, DistTerminatedIs, NodeMsgKinds
  <2>6. CASE SubAddTask(n)
    <3>1. ASSUME NEW t \in Tasks, Arrives(n, t), UNCHANGED inst PROVE Goal
      <4>1. NotNew
        BY <3>1 DEF Arrives
      <4> QED
        BY <1>0, <3>1, <4>1, ArrivesQuiet
    <3> QED
      BY <2>6, <3>1, SubAddTaskIs, PassesGoes
  <2>7. CASE SubGetTask(n)
    BY <2>1, <2>2, <2>7, SubGetTaskIs, OfferedIs, NodeMsgKinds
  <2>8. CASE SubTerminated(n)
    BY <2>1, <2>2, <2>8, SubTerminatedIs, NodeMsgKinds
  <2>9. CASE SubPersistAndSuicide(n)
    BY <2>2, <2>9, SubPersistAndSuicideIs, AdvisedIs, NodeMsgKinds
  <2>10. CASE Gone(n)
    <3>1. UNCHANGED tsk
      BY <2>10, GoneIs
    <3> QED
      BY <2>10, <3>1, GoneQuiet, GoesDownQuiet
  <2> QED
    BY <1>6, <2>3, <2>4, <2>5, <2>6, <2>7, <2>8, <2>9, <2>10 DEF NodeStep
<1> QED
  BY <1>1, <1>2, <1>3, <1>4, <1>5, <1>6 DEF Next

-----------------------------------------------------------------------------
(* The order of a mailbox and of the levels: what comes to an actor other   *)
(* than AddTask comes when all AddTasks of its branch are past its parent   *)

\* An actor of the tree; the mailbox has the AddTasks first.
NodeOrder(n) ==
  /\ Flushed(node[n].mail)
  /\ Other(node[n].mail) => Closed(n)
  /\ node[n].state = "stopping" => PassedUp(n)
  /\ \A t \in node[n].tasks : Home(t) = n
  /\ node[n].state # "none" => \E t \in Tasks : Below(n, t) /\ ~Waiting(t)

Touched(t) ==
  tsk[t].offered \/ tsk[t].suicide \/ tsk[t].state \in {"taken", "success", "failure", "stopping", "gone"}

TaskOrder(t) == Touched(t) => PassedUp(Home(t))

\* The AddTask of t is to come behind message i of the InstanceActor.
Late(t, i) == tsk[t].state = "new" \/ \E k \in DOMAIN inst.mail : i < k /\ inst.mail[k] = AddTask(t)

\* A GetTask comes before all tasks of a run or after all of them.
InstOrder ==
  \A i \in DOMAIN inst.mail : inst.mail[i].kind = "GetTask" =>
    \A t, u \in Tasks : RunOf[t] = RunOf[u] => (Late(t, i) <=> Late(u, i))

Order == InstOrder /\ (\A n \in Nodes : NodeOrder(n)) /\ (\A t \in Tasks : TaskOrder(t))

LEMMA HeadOther ==
  ASSUME Typed, NEW n \in Nodes, NodeOrder(n), node[n].mail # <<>>, Head(node[n].mail).kind # "AddTask"
  PROVE  PassedUp(n) /\ LostWith(node, n) = {}
<1>1. node[n].mail \in Seq(NodeMsgs)
  BY NodeStateIs DEF Typed
<1>2. Flushed(node[n].mail) /\ (Other(node[n].mail) => Closed(n))
  BY DEF NodeOrder
<1>3. Other(node[n].mail) /\ \A t \in Tasks : ~Has(node[n].mail, AddTask(t))
  BY <1>1, <1>2, FlushedTail
<1>4. PassedUp(n)
  BY <1>2, <1>3, PassedUpIs
<1>5. LostWith(node, n) = {}
  BY <1>3 DEF LostWith, Has
<1> QED
  BY <1>4, <1>5

\* Below an AddTask on its way no actor stops or has other mail.
LEMMA WayIsOpen ==
  ASSUME NEW n \in Nodes, NEW c \in Nodes, NEW t \in Tasks, ~IsDistributor(c), Above(c) = n, Below(c, t),
         NodeOrder(c), Has(node[n].mail, AddTask(t))
  PROVE  node[c].state # "stopping" /\ ~Other(node[c].mail)
<1>1. Over(n, c)
  BY AboveIs
<1>2. Below(n, t)
  BY <1>1, BelowOver
<1>3. ~Passed(n)
  BY <1>2 DEF Passed
<1>4. ~Closed(c) /\ ~PassedUp(c)
  BY <1>1, <1>3 DEF Closed, PassedUp
<1> QED
  BY <1>4 DEF NodeOrder

LEMMA WayIsOpenAtTop ==
  ASSUME NEW d \in Nodes, NEW t \in Tasks, Below(d, t), NodeOrder(d), Waiting(t)
  PROVE  node[d].state # "stopping" /\ ~Other(node[d].mail)
<1>1. ~Closed(d) /\ ~PassedUp(d)
  BY DEF Closed, PassedUp, Passed
<1> QED
  BY <1>1 DEF NodeOrder

LEMMA NotWaiting ==
  ASSUME \A t \in Tasks : GoesDown(t)
  PROVE  \A t \in Tasks : ~Waiting(t) => ~Waiting(t)'
  BY DEF GoesDown, Waiting

LEMMA OrderSame ==
  ASSUME \A t \in Tasks : GoesDown(t), NEW x \in Nodes, NodeOrder(x),
         node'[x].state = node[x].state, node'[x].mail = node[x].mail, node'[x].tasks \subseteq node[x].tasks
  PROVE  NodeOrder(x)'
<1>1. /\ Flushed(node'[x].mail) /\ (Other(node'[x].mail) => Closed(x))
      /\ node'[x].state = "stopping" => PassedUp(x)
      /\ \A t \in node'[x].tasks : Home(t) = x
      /\ node'[x].state # "none" => \E t \in Tasks : Below(x, t) /\ ~Waiting(t)
  BY DEF NodeOrder
<1>2. Other(node'[x].mail) => Closed(x)'
  BY <1>1, PassedStays
<1>3. node'[x].state = "stopping" => PassedUp(x)'
  BY <1>1, PassedStays
<1>4. node'[x].state # "none" => \E t \in Tasks : Below(x, t) /\ ~Waiting(t)'
  BY <1>1, NotWaiting
<1> QED
  BY <1>1, <1>2, <1>3, <1>4 DEF NodeOrder

LEMMA OrderSent ==
  ASSUME Typed, \A t \in Tasks : GoesDown(t), NEW x \in Nodes, NodeOrder(x), NEW to,
         NEW m \in NodeMsgs, m.kind # "AddTask", Sent(x, to, m), x \in to /\ node[x].state = "up" => Closed(x)
  PROVE  NodeOrder(x)'
<1>1. CASE ~(x \in to /\ node[x].state = "up")
  BY <1>1, OrderSame DEF Sent
<1>2. CASE x \in to /\ node[x].state = "up"
  <2>1. node'[x].mail = Append(node[x].mail, m) /\ node'[x].state = "up" /\ node'[x].tasks = node[x].tasks
    BY <1>2 DEF Sent
  <2>2. node[x].mail \in Seq(NodeMsgs)
    BY NodeStateIs DEF Typed
  <2>3. Flushed(node'[x].mail)
    BY <2>1, <2>2, FlushedAppend DEF NodeOrder
  <2>4. Closed(x)'
    BY <1>2, PassedStays
  <2>5. \E t \in Tasks : Below(x, t) /\ ~Waiting(t)'
    BY <1>2, NotWaiting DEF NodeOrder
  <2> QED
    BY <2>1, <2>3, <2>4, <2>5 DEF NodeOrder
<1> QED
  BY <1>1, <1>2

LEMMA OrderDone ==
  ASSUME Typed, \A t \in Tasks : GoesDown(t), NEW x \in Nodes, NodeOrder(x), Done(x),
         \A t \in node'[x].tasks : Home(t) = x
  PROVE  NodeOrder(x)'
<1>1. /\ node'[x].mail = Tail(node[x].mail) /\ node'[x].state = "up" /\ node[x].mail # <<>>
      /\ node[x].mail \in Seq(NodeMsgs) /\ node[x].state = "up"
  BY NodeStateIs DEF Typed, Done
<1>2. Flushed(node'[x].mail) /\ (Other(node'[x].mail) => Closed(x))
  BY <1>1, FlushedTail DEF NodeOrder
<1>3. Other(node'[x].mail) => Closed(x)'
  BY <1>2, PassedStays
<1>4. \E t \in Tasks : Below(x, t) /\ ~Waiting(t)'
  BY <1>1, NotWaiting DEF NodeOrder
<1> QED
  BY <1>1, <1>2, <1>3, <1>4 DEF NodeOrder

LEMMA OrderDelivered ==
  ASSUME Typed, Delivery, \A u \in Tasks : GoesDown(u), NEW c \in Nodes, NodeOrder(c), NEW t \in Tasks, Below(c, t),
         Delivered(t, c), node[c].state # "stopping", ~Other(node[c].mail), ~Waiting(t)'
  PROVE  NodeOrder(c)'
<1>1. node[c].mail \in Seq(NodeMsgs) /\ AddTask(t) \in NodeMsgs /\ AddTask(t).kind = "AddTask"
  BY NodeStateIs, NodeMsgKinds, MsgKinds DEF Typed
<1>2. node'[c].state = "up" /\ node'[c].mail = Append(node[c].mail, AddTask(t))
  BY DEF Delivered
<1>3. Flushed(node'[c].mail) /\ ~Other(node'[c].mail)
  BY <1>1, <1>2, FlushedAppend DEF NodeOrder
<1>4. \A u \in node'[c].tasks : Home(u) = c
  <2>1. node[c].state \in {"none", "up"}
    BY NodeStateIs DEF Typed
  <2> QED
    BY <2>1 DEF Delivered, NodeOrder
<1> QED
  BY <1>2, <1>3, <1>4 DEF NodeOrder

LEMMA LoseNothing ==
  ASSUME Typed, tsk' = Lose({})
  PROVE  UNCHANGED tsk
<1>1. \A t \in Tasks : tsk'[t] = tsk[t]
  BY LoseIs
<1>2. tsk' \in [Tasks -> TaskStates] /\ tsk \in [Tasks -> TaskStates]
  BY LoseIs DEF Typed
<1> QED
  BY <1>1, <1>2

LEMMA OrderStops ==
  ASSUME Typed, Delivery, Order, \A t \in Tasks : GoesDown(t), NEW n \in Nodes, Stops(n)
  PROVE  (\A x \in Nodes : NodeOrder(x)') /\ UNCHANGED tsk
<1>0. NodeOrder(n)
  BY DEF Order
<1>1. PassedUp(n) /\ LostWith(node, n) = {}
  BY <1>0, HeadOther DEF Stops
<1>2. /\ node'[n].state = "stopping" /\ node'[n].mail = <<>> /\ node'[n].tasks = node[n].tasks
      /\ node[n].state = "up"
  BY DEF Stops
<1>3. PassedUp(n)'
  BY <1>1, PassedStays
<1>4. \E t \in Tasks : Below(n, t) /\ ~Waiting(t)'
  BY <1>0, <1>2, NotWaiting DEF NodeOrder
<1>5. NodeOrder(n)'
  BY <1>0, <1>2, <1>3, <1>4, FlushedEmpty DEF NodeOrder
<1>6. \A x \in Nodes \ {n} : NodeOrder(x)'
  <2>1. \A x \in Nodes \ {n} : node'[x] = node[x]
    BY DEF Stops
  <2> QED
    BY <2>1, OrderSame DEF Order
<1>7. UNCHANGED tsk
  <2>1. tsk' = Lose({})
    BY <1>1 DEF Stops
  <2> QED
    BY <2>1, LoseNothing
<1> QED
  BY <1>5, <1>6, <1>7

LEMMA OrderForwards ==
  ASSUME Typed, Delivery, Order, \A t \in Tasks : GoesDown(t), NEW n \in Nodes, NEW to \in SUBSET Children(n),
         NEW m \in NodeMsgs, m.kind # "AddTask", Forwards(n, to, m), node'[n].tasks \subseteq node[n].tasks
  PROVE  (\A x \in Nodes : NodeOrder(x)') /\ PassedUp(n)
<1>0. NodeOrder(n)
  BY DEF Order
<1>1. Done(n) /\ PassedUp(n)
  BY <1>0, HeadOther DEF Forwards, Done
<1>2. NodeOrder(n)'
  BY <1>0, <1>1, OrderDone DEF NodeOrder
<1>3. \A x \in Nodes : x \in to => Closed(x)
  BY <1>1, PassedUpIs DEF Children
<1>4. \A x \in Nodes \ {n} : NodeOrder(x)'
  <2>1. ASSUME NEW x \in Nodes \ {n} PROVE NodeOrder(x)'
    <3>1. NodeOrder(x) /\ Sent(x, to, m)
      BY DEF Order, Forwards
    <3> QED
      BY <1>3, <3>1, OrderSent
  <2> QED
    BY <2>1
<1> QED
  BY <1>1, <1>2, <1>4

LEMMA OrderPasses ==
  ASSUME Typed, Delivery, Order, \A u \in Tasks : GoesDown(u), NEW n \in Nodes, NEW t \in Tasks, Below(n, t),
         Home(t) # n, Passes(n, t, Toward(n, t))
  PROVE  (\A x \in Nodes : NodeOrder(x)') /\ UNCHANGED tsk
<1>1. PICK c \in Nodes : c = Toward(n, t)
  BY TowardIs
<1>2. ~IsDistributor(c) /\ Above(c) = n /\ Below(c, t) /\ c # n
  BY <1>1, TowardIs, AboveIs, OverAsym
<1>3. /\ Delivered(t, c) /\ Done(n) /\ node[n].mail # <<>> /\ Head(node[n].mail) = AddTask(t)
      /\ node'[n].tasks = node[n].tasks /\ \A x \in Nodes \ {n, c} : node'[x] = node[x]
  BY <1>1 DEF Passes, Done
<1>4. tsk[t].state = "sent" /\ Has(node[n].mail, AddTask(t))
  BY <1>3, HeadIsSent
<1>5. ~Waiting(t)
  BY <1>4 DEF Waiting, Delivery
<1>6. ~Waiting(t)'
  BY <1>5, NotWaiting
<1>7. NodeOrder(c) /\ NodeOrder(n)
  BY DEF Order
<1>8. node[c].state # "stopping" /\ ~Other(node[c].mail)
  BY <1>2, <1>4, <1>7, WayIsOpen
<1>9. NodeOrder(c)'
  BY <1>2, <1>3, <1>6, <1>7, <1>8, OrderDelivered
<1>10. NodeOrder(n)'
  BY <1>3, <1>7, OrderDone DEF NodeOrder
<1>11. \A x \in Nodes \ {n, c} : NodeOrder(x)'
  BY <1>3, OrderSame DEF Order
<1>12. UNCHANGED tsk
  <2>1. tsk' = Lose({})
    BY <1>3, <1>8 DEF Delivered
  <2> QED
    BY <2>1, LoseNothing
<1> QED
  BY <1>9, <1>10, <1>11, <1>12

LEMMA OrderStrikes ==
  ASSUME Typed, Delivery, Order, \A u \in Tasks : GoesDown(u), NEW t \in Tasks, Touched(t),
         NEW to \in SUBSET Children(Home(t)), NEW m \in NodeMsgs, m.kind # "AddTask", Strikes(Home(t), t, to, m)
  PROVE  \A x \in Nodes : NodeOrder(x)'
<1>1. PICK n \in Nodes : n = Home(t)
  BY HomeIs
<1>2. PassedUp(n)
  BY <1>1 DEF Order, TaskOrder
<1>3. NodeOrder(n)'
  BY <1>1, OrderSame DEF Strikes, Order
<1>4. \A x \in Nodes : x \in to => Closed(x)
  BY <1>1, <1>2, PassedUpIs DEF Children
<1>5. ASSUME NEW x \in Nodes \ {n} PROVE NodeOrder(x)'
  <2>1. NodeOrder(x) /\ Sent(x, to, m)
    BY <1>1 DEF Order, Strikes
  <2> QED
    BY <1>4, <2>1, OrderSent
<1> QED
  BY <1>3, <1>5

\* Terminated goes to the parent, which is closed.
LEMMA OrderGone ==
  ASSUME Typed, Delivery, Order, \A u \in Tasks : GoesDown(u), NEW n \in Nodes, Gone(n)
  PROVE  \A x \in Nodes : NodeOrder(x)'
<1>0. PICK m : m = Terminated(Ref(n))
  OBVIOUS
<1>1. m \in NodeMsgs /\ m.kind # "AddTask"
  <2>1. Ref(n) \in Refs
    BY NodeStateIs DEF Typed, Ref, Refs
  <2> QED
    BY <1>0, <2>1, NodeMsgKinds
<1>2. Leaves(n) /\ PassedUp(n)
  BY GoneIs DEF Leaves, Order, NodeOrder
<1>3. NodeOrder(n)'
  <2>1. node'[n].state = "none" /\ node'[n].mail = <<>> /\ node'[n].tasks = {}
    BY <1>2 DEF Leaves
  <2> QED
    BY <2>1, FlushedEmpty DEF NodeOrder
<1>4. CASE IsDistributor(n)
  <2>1. \A x \in Nodes \ {n} : node'[x] = node[x]
    BY <1>4, GoneIs
  <2> QED
    BY <1>3, <2>1, OrderSame DEF Order
<1>5. CASE ~IsDistributor(n)
  <2>1. \A x \in Nodes \ {n} : Sent(x, {Above(n)}, m)
    BY <1>0, <1>5, GoneIs
  <2>2. Closed(Above(n))
    BY <1>2, <1>5, PassedUpIs
  <2>3. ASSUME NEW x \in Nodes \ {n} PROVE NodeOrder(x)'
    <3>1. NodeOrder(x) /\ Sent(x, {Above(n)}, m) /\ (x \in {Above(n)} => Closed(x))
      BY <2>1, <2>2 DEF Order
    <3> QED
      BY <1>1, <3>1, OrderSent
  <2> QED
    BY <1>3, <2>3
<1> QED
  BY <1>4, <1>5

-----------------------------------------------------------------------------
(* The InstanceActor: a GetTask does not come between the tasks of a run *)

LEMMA InstOrderSame ==
  ASSUME InstOrder, inst'.mail = inst.mail, \A t \in Tasks : tsk'[t].state = "new" <=> tsk[t].state = "new"
  PROVE  InstOrder'
<1>1. \A t \in Tasks : \A i \in DOMAIN inst.mail : Late(t, i)' <=> Late(t, i)
  BY DEF Late
<1> QED
  BY <1>1 DEF InstOrder

LEMMA InstOrderTail ==
  ASSUME Typed, InstOrder, inst.mail # <<>>, inst'.mail = Tail(inst.mail),
         \A t \in Tasks : tsk'[t].state = "new" <=> tsk[t].state = "new"
  PROVE  InstOrder'
<1>1. /\ inst.mail \in Seq(InstMsgs) /\ inst'.mail \in Seq(InstMsgs)
      /\ Len(inst.mail) \in Nat \ {0} /\ DOMAIN inst.mail = 1 .. Len(inst.mail)
      /\ DOMAIN inst'.mail = 1 .. Len(inst.mail) - 1
      /\ \A i \in 1 .. Len(inst.mail) - 1 : inst'.mail[i] = inst.mail[i + 1] /\ i + 1 \in 1 .. Len(inst.mail)
      /\ \A k \in 1 .. Len(inst.mail) : k # 1 => k - 1 \in 1 .. Len(inst.mail) - 1 /\ inst'.mail[k - 1] = inst.mail[k]
  BY DEF Typed
<1>2. ASSUME NEW t \in Tasks, NEW i \in 1 .. Len(inst.mail) - 1 PROVE Late(t, i)' <=> Late(t, i + 1)
  <2>1. ASSUME NEW k \in 1 .. Len(inst.mail) - 1, i < k, inst'.mail[k] = AddTask(t) PROVE Late(t, i + 1)
    <3>1. k + 1 \in DOMAIN inst.mail /\ i + 1 < k + 1 /\ inst.mail[k + 1] = AddTask(t)
      BY <1>1, <2>1
    <3> QED
      BY <3>1 DEF Late
  <2>2. ASSUME NEW k \in 1 .. Len(inst.mail), i + 1 < k, inst.mail[k] = AddTask(t) PROVE Late(t, i)'
    <3>1. k - 1 \in DOMAIN inst'.mail /\ i < k - 1 /\ inst'.mail[k - 1] = AddTask(t)
      BY <1>1, <2>2
    <3> QED
      BY <3>1 DEF Late
  <2> QED
    BY <1>1, <2>1, <2>2 DEF Late
<1>3. SUFFICES ASSUME NEW i \in 1 .. Len(inst.mail) - 1, inst'.mail[i].kind = "GetTask",
                      NEW t \in Tasks, NEW u \in Tasks, RunOf[t] = RunOf[u]
               PROVE  Late(t, i)' <=> Late(u, i)'
  BY <1>1 DEF InstOrder
<1>4. i + 1 \in DOMAIN inst.mail /\ inst.mail[i + 1].kind = "GetTask"
  BY <1>1, <1>3
<1>5. Late(t, i + 1) <=> Late(u, i + 1)
  BY <1>3, <1>4 DEF InstOrder
<1> QED
  BY <1>2, <1>3, <1>5

LEMMA InstOrderAppend ==
  ASSUME Typed, InstOrder, NEW m \in InstMsgs, inst'.mail = Append(inst.mail, m),
         \A t \in Tasks : tsk'[t].state = "new" => tsk[t].state = "new",
         \A t \in Tasks : tsk[t].state = "new" => tsk'[t].state = "new" \/ m = AddTask(t),
         \A t \in Tasks : m = AddTask(t) => tsk[t].state = "new",
         m.kind = "GetTask" => \A t, u \in Tasks :
           RunOf[t] = RunOf[u] => (tsk'[t].state = "new") = (tsk'[u].state = "new")
  PROVE  InstOrder'
<1>1. /\ inst.mail \in Seq(InstMsgs) /\ Len(inst.mail) \in Nat /\ DOMAIN inst.mail = 1 .. Len(inst.mail)
      /\ DOMAIN inst'.mail = 1 .. Len(inst.mail) + 1
      /\ \A i \in 1 .. Len(inst.mail) : inst'.mail[i] = inst.mail[i] /\ i \in 1 .. Len(inst.mail) + 1
      /\ inst'.mail[Len(inst.mail) + 1] = m
  BY DEF Typed
<1>2. ASSUME NEW t \in Tasks, NEW i \in 1 .. Len(inst.mail) PROVE Late(t, i)' <=> Late(t, i)
  <2>1. ASSUME NEW k \in 1 .. Len(inst.mail) + 1, i < k, inst'.mail[k] = AddTask(t) PROVE Late(t, i)
    <3>1. CASE k \in 1 .. Len(inst.mail)
      BY <1>1, <2>1, <3>1 DEF Late
    <3>2. CASE k = Len(inst.mail) + 1
      BY <1>1, <2>1, <3>2 DEF Late
    <3> QED
      BY <1>1, <3>1, <3>2
  <2>2. ASSUME NEW k \in 1 .. Len(inst.mail), i < k, inst.mail[k] = AddTask(t) PROVE Late(t, i)'
    BY <1>1, <2>2 DEF Late
  <2>3. ASSUME m = AddTask(t) PROVE Late(t, i)'
    <3>1. Len(inst.mail) + 1 \in DOMAIN inst'.mail /\ i < Len(inst.mail) + 1
      BY <1>1
    <3> QED
      BY <1>1, <2>3, <3>1 DEF Late
  <2> QED
    BY <1>1, <2>1, <2>2, <2>3 DEF Late
<1>3. SUFFICES ASSUME NEW i \in 1 .. Len(inst.mail) + 1, inst'.mail[i].kind = "GetTask",
                      NEW t \in Tasks, NEW u \in Tasks, RunOf[t] = RunOf[u]
               PROVE  Late(t, i)' <=> Late(u, i)'
  BY <1>1 DEF InstOrder
<1>4. CASE i \in 1 .. Len(inst.mail)
  <2>1. Late(t, i) <=> Late(u, i)
    BY <1>1, <1>3, <1>4 DEF InstOrder
  <2> QED
    BY <1>2, <1>3, <1>4, <2>1
<1>5. CASE i = Len(inst.mail) + 1
  <2>1. \A k \in DOMAIN inst'.mail : ~(i < k)
    BY <1>1, <1>5
  <2>2. (tsk'[t].state = "new") = (tsk'[u].state = "new")
    BY <1>1, <1>3, <1>5
  <2> QED
    BY <2>1, <2>2 DEF Late
<1> QED
  BY <1>1, <1>4, <1>5

\* The GetTask that comes to a Distributor comes after all tasks of its run.
LEMMA InstGetTaskIsLate ==
  ASSUME Typed, InstOrder, NEW d \in Nodes, IsDistributor(d), NodeOrder(d), node[d].state = "up",
         inst.mail # <<>>, Head(inst.mail).kind = "GetTask"
  PROVE  Closed(d)
<1>1. PICK u \in Tasks : Below(d, u) /\ ~Waiting(u)
  BY DEF NodeOrder
<1>2. inst.mail \in Seq(InstMsgs) /\ 1 \in DOMAIN inst.mail /\ inst.mail[1].kind = "GetTask"
  BY DEF Typed
<1>3. ~Late(u, 1)
  BY <1>1 DEF Late, Waiting, Has
<1>4. ASSUME NEW t \in Tasks, Below(d, t) PROVE ~Waiting(t)
  <2>1. RunOf[t] = RunOf[u]
    BY <1>1, <1>4, DistributorOver
  <2>2. ~Late(t, 1)
    BY <1>2, <1>3, <2>1 DEF InstOrder
  <2>3. \A k \in DOMAIN inst.mail : inst.mail[k] = AddTask(t) => 1 < k
    <3>1. inst.mail[1] # AddTask(t)
      BY <1>2, MsgKinds
    <3>2. \A k \in DOMAIN inst.mail : k \in Nat /\ k >= 1
      BY <1>2
    <3> QED
      BY <3>1, <3>2
  <2> QED
    BY <2>2, <2>3 DEF Late, Waiting, Has
<1>5. \A m \in Nodes : ~Over(m, d)
  BY DistributorOver
<1> QED
  BY <1>4, <1>5 DEF Closed

-----------------------------------------------------------------------------
(* Every step keeps the order *)

LEMMA OrderKeeps ==
  ASSUME Order, \A t \in Tasks : GoesDown(t), \A x \in Nodes : NodeOrder(x)', InstOrder',
         \A t \in Tasks : Touched(t)' => Touched(t) \/ PassedUp(Home(t))
  PROVE  Order'
<1>1. ASSUME NEW t \in Tasks PROVE TaskOrder(t)'
  <2>1. Touched(t)' => PassedUp(Home(t))
    BY DEF Order, TaskOrder
  <2>2. Home(t) \in Nodes
    BY HomeIs
  <2> QED
    BY <2>1, <2>2, PassedStays DEF TaskOrder
<1> QED
  BY <1>1 DEF Order

LEMMA TouchedSame ==
  ASSUME NEW t, tsk'[t] = tsk[t]
  PROVE  Touched(t)' => Touched(t)
  BY DEF Touched

LEMMA OrderInit ==
  ASSUME Init
  PROVE  Order
<1>1. inst.mail = <<>> /\ \A n \in Nodes : node[n] = Absent
  BY DEF Init
<1>2. \A n \in Nodes : node[n].mail = <<>> /\ node[n].state = "none" /\ node[n].tasks = {}
  BY <1>1 DEF Absent
<1>3. \A t \in Tasks : tsk[t].state = "new" /\ ~tsk[t].offered /\ ~tsk[t].suicide
  BY DEF Init
<1>4. \A n \in Nodes : NodeOrder(n)
  BY <1>2, FlushedEmpty DEF NodeOrder
<1>5. \A t \in Tasks : TaskOrder(t)
  BY <1>3 DEF TaskOrder, Touched
<1>6. InstOrder
  BY <1>1 DEF InstOrder
<1> QED
  BY <1>4, <1>5, <1>6 DEF Order

LEMMA OrderTaskStep ==
  ASSUME Typed, Delivery, Order, \A u \in Tasks : GoesDown(u), NEW t \in Tasks, TaskStep(t)
  PROVE  Order'
<1>0. \A u \in Tasks : TaskOrder(u)
  BY DEF Order
<1>1. ASSUME \A x \in Nodes : node'[x] = node[x] PROVE \A x \in Nodes : NodeOrder(x)'
  BY <1>1, OrderSame DEF Order
<1>2. ASSUME UNCHANGED inst, \A u \in Tasks : tsk'[u].state = "new" <=> tsk[u].state = "new" PROVE InstOrder'
  BY <1>2, InstOrderSame DEF Order
<1>3. CASE TaskTake(t) \/ TaskNotTaken(t) \/ TaskReset(t) \/ TaskEnds(t)
  <2>1. /\ UNCHANGED <<inst, node>> /\ tsk[t].state \in {"up", "taken"} /\ (tsk[t].state = "taken" \/ tsk[t].offered)
        /\ \E s \in {"up", "taken", "success", "failure"} : TaskTo(t, s)
    BY <1>3, TaskMovesIs
  <2>2. \A u \in Tasks : tsk'[u].state = "new" <=> tsk[u].state = "new"
    BY <2>1 DEF TaskTo
  <2>3. Touched(t) /\ \A u \in Tasks \ {t} : tsk'[u] = tsk[u]
    BY <2>1 DEF Touched, TaskTo
  <2> QED
    BY <1>1, <1>2, <2>1, <2>2, <2>3, TouchedSame, OrderKeeps
<1>4. CASE HandleSuccess(t)
  <2>1. UNCHANGED inst /\ tsk[t].state = "success" /\ TaskTo(t, "stopping") /\ Strikes(Home(t), t, {}, GetTask)
    BY <1>4, HandleSuccessIs
  <2>2. \A u \in Tasks : tsk'[u].state = "new" <=> tsk[u].state = "new"
    BY <2>1 DEF TaskTo
  <2>3. Touched(t) /\ \A u \in Tasks \ {t} : tsk'[u] = tsk[u]
    BY <2>1 DEF Touched, TaskTo
  <2>4. \A x \in Nodes : NodeOrder(x)'
    BY <2>1, <2>3, OrderStrikes, NodeMsgKinds
  <2> QED
    BY <1>2, <2>1, <2>2, <2>3, <2>4, TouchedSame, OrderKeeps
<1>5. CASE HandleFailure(t)
  <2>1. /\ UNCHANGED inst /\ tsk[t].state = "failure" /\ tsk'[t].state = "stopping"
        /\ \A u \in Tasks \ {t} : tsk'[u] = Advised(TaskChildren(Home(t)))[u]
        /\ Strikes(Home(t), t, SubNodes(Home(t)), PersistAndSuicide)
    BY <1>5, HandleFailureIs
  <2>2. \A u \in Tasks : tsk'[u].state = "new" <=> tsk[u].state = "new"
    BY <2>1, AdvisedIs
  <2>3. Touched(t) /\ PassedUp(Home(t))
    BY <1>0, <2>1 DEF Touched, TaskOrder
  <2>4. \A x \in Nodes : NodeOrder(x)'
    <3>1. SubNodes(Home(t)) \in SUBSET Children(Home(t))
      BY HomeIs, ChildrenAre
    <3> QED
      BY <2>1, <2>3, <3>1, OrderStrikes, NodeMsgKinds
  <2>5. ASSUME NEW u \in Tasks \ {t} PROVE Touched(u)' => Touched(u) \/ PassedUp(Home(u))
    <3>1. CASE u \in TaskChildren(Home(t))
      BY <2>3, <3>1 DEF TaskChildren
    <3>2. CASE u \notin TaskChildren(Home(t))
      <4>1. tsk'[u] = tsk[u]
        BY <2>1, <3>2, AdvisedIs
      <4> QED
        BY <4>1, TouchedSame
    <3> QED
      BY <3>1, <3>2
  <2> QED
    BY <1>2, <2>1, <2>2, <2>3, <2>4, <2>5, OrderKeeps
<1>6. CASE TaskSuicide(t)
  <2>1. UNCHANGED <<inst, node>> /\ tsk[t].state \in {"up", "taken"} /\ tsk[t].suicide /\ TaskTo(t, "stopping")
    BY <1>6, TaskSuicideIs
  <2>2. \A u \in Tasks : tsk'[u].state = "new" <=> tsk[u].state = "new"
    BY <2>1 DEF TaskTo
  <2>3. Touched(t) /\ \A u \in Tasks \ {t} : tsk'[u] = tsk[u]
    BY <2>1 DEF Touched, TaskTo
  <2> QED
    BY <1>1, <1>2, <2>1, <2>2, <2>3, TouchedSame, OrderKeeps
<1>7. CASE TaskGone(t)
  <2>1. /\ UNCHANGED inst /\ tsk[t].state = "stopping" /\ TaskTo(t, "gone")
        /\ \A x \in Nodes : Sent(x, {Home(t)}, TaskTerminated)
    BY <1>7, TaskGoneIs
  <2>2. \A u \in Tasks : tsk'[u].state = "new" <=> tsk[u].state = "new"
    BY <2>1 DEF TaskTo
  <2>3. Touched(t) /\ \A u \in Tasks \ {t} : tsk'[u] = tsk[u]
    BY <2>1 DEF Touched, TaskTo
  <2>4. Closed(Home(t))
    BY <1>0, <2>3, PassedUpIs, HomeIs DEF TaskOrder
  <2>5. ASSUME NEW x \in Nodes PROVE NodeOrder(x)'
    <3>1. NodeOrder(x) /\ Sent(x, {Home(t)}, TaskTerminated) /\ (x \in {Home(t)} => Closed(x))
      BY <2>1, <2>4 DEF Order
    <3> QED
      BY <3>1, OrderSent, NodeMsgKinds
  <2> QED
    BY <1>2, <2>1, <2>2, <2>3, <2>5, TouchedSame, OrderKeeps
<1> QED
  BY <1>3, <1>4, <1>5, <1>6, <1>7 DEF TaskStep

\* The InstanceActor finds the Distributor of the run up, or creates it.
InstHandsOn(t, d) ==
  /\ UNCHANGED <<tsk, end>> /\ d = Distributor(RunOf[t]) /\ IsDistributor(d) /\ Below(d, t)
  /\ inst.mail # <<>> /\ Head(inst.mail) = AddTask(t) /\ inst'.mail = Tail(inst.mail)
  /\ inst'.instances = inst.instances \cup IF node[d].state = "none" THEN {<<d, node[d].born + 1>>} ELSE {}
  /\ Delivered(t, d) /\ node[d].state # "stopping" /\ ~Other(node[d].mail)
  /\ \A x \in Nodes \ {d} : node'[x] = node[x]

LEMMA InstAddTaskInOrder ==
  ASSUME Typed, Delivery, Order, InstAddTask
  PROVE  \E t \in Tasks, d \in Nodes : InstHandsOn(t, d)
<1>1. PICK t \in Tasks : /\ inst.mail # <<>> /\ Head(inst.mail) = AddTask(t) /\ inst'.mail = Tail(inst.mail)
                         /\ Has(inst.mail, AddTask(t))
                         /\ inst'.instances = inst.instances \cup
                              IF node[Distributor(RunOf[t])].state = "none"
                              THEN {<<Distributor(RunOf[t]), node[Distributor(RunOf[t])].born + 1>>} ELSE {}
                         /\ Delivered(t, Distributor(RunOf[t])) /\ UNCHANGED end
                         /\ \A x \in Nodes \ {Distributor(RunOf[t])} : node'[x] = node[x]
  BY InstAddTaskIs
<1>2. PICK d \in Nodes : d = Distributor(RunOf[t]) /\ Below(d, t) /\ IsDistributor(d)
  BY DistributorIs DEF IsDistributor, Distributor
<1>3. node[d].state # "stopping" /\ ~Other(node[d].mail)
  BY <1>1, <1>2, WayIsOpenAtTop DEF Waiting, Order
<1>4. UNCHANGED tsk
  <2>1. tsk' = Lose({})
    BY <1>1, <1>2, <1>3 DEF Delivered
  <2> QED
    BY <2>1, LoseNothing
<1> QED
  BY <1>1, <1>2, <1>3, <1>4 DEF InstHandsOn

LEMMA OrderInstStep ==
  ASSUME Typed, Delivery, Order, \A u \in Tasks : GoesDown(u), InstStep
  PROVE  Order'
<1>0. InstOrder /\ \A x \in Nodes : NodeOrder(x)
  BY DEF Order
<1>1. CASE InstAddTask
  <2>1. PICK t \in Tasks, d \in Nodes : InstHandsOn(t, d)
    BY <1>1, InstAddTaskInOrder
  <2>2. /\ UNCHANGED tsk /\ inst.mail # <<>> /\ Head(inst.mail) = AddTask(t) /\ inst'.mail = Tail(inst.mail)
        /\ Below(d, t) /\ Delivered(t, d) /\ node[d].state # "stopping" /\ ~Other(node[d].mail)
        /\ \A x \in Nodes \ {d} : node'[x] = node[x]
    BY <2>1 DEF InstHandsOn
  <2>3. ~Waiting(t)'
    <3>1. inst.mail \in Seq(InstMsgs) /\ Has(inst.mail, AddTask(t))
      BY <2>2, HasTail DEF Typed
    <3>2. Once(inst.mail, AddTask(t)) /\ tsk[t].state = "sent"
      BY <3>1 DEF Delivery
    <3>3. ~Has(Tail(inst.mail), AddTask(t))
      BY <2>2, <3>1, <3>2, HasTail
    <3> QED
      BY <2>2, <3>2, <3>3 DEF Waiting
  <2>4. NodeOrder(d)'
    BY <1>0, <2>2, <2>3, OrderDelivered
  <2>5. \A x \in Nodes \ {d} : NodeOrder(x)'
    BY <1>0, <2>2, OrderSame
  <2>6. InstOrder'
    BY <1>0, <2>2, InstOrderTail
  <2> QED
    BY <2>2, <2>4, <2>5, <2>6, TouchedSame, OrderKeeps
<1>2. CASE InstGetTask
  <2>1. /\ UNCHANGED tsk /\ inst.mail # <<>> /\ inst'.mail = Tail(inst.mail) /\ Head(inst.mail).kind = "GetTask"
        /\ \E to \in SUBSET {d \in Nodes : IsDistributor(d)} : \A x \in Nodes : Sent(x, to, GetTask)
    BY <1>2, InstGetTaskIs DEF InstDone
  <2>2. PICK to \in SUBSET {d \in Nodes : IsDistributor(d)} : \A x \in Nodes : Sent(x, to, GetTask)
    BY <2>1
  <2>3. ASSUME NEW x \in Nodes PROVE NodeOrder(x)'
    <3>1. x \in to /\ node[x].state = "up" => Closed(x)
      BY <1>0, <2>1, InstGetTaskIsLate
    <3> QED
      BY <1>0, <2>2, <3>1, OrderSent, NodeMsgKinds
  <2>4. InstOrder'
    BY <1>0, <2>1, InstOrderTail
  <2> QED
    BY <2>1, <2>3, <2>4, TouchedSame, OrderKeeps
<1>3. CASE InstTerminated \/ \E ver \in Versions : NoMoreTasks(ver)
  <2>1. UNCHANGED <<node, tsk>> /\ inst.mail # <<>> /\ inst'.mail = Tail(inst.mail)
    BY <1>3, InstTerminatedIs, NoMoreTasksIs DEF InstDone
  <2>2. InstOrder'
    BY <1>0, <2>1, InstOrderTail
  <2>3. \A x \in Nodes : NodeOrder(x)'
    BY <1>0, <2>1, OrderSame
  <2> QED
    BY <2>1, <2>2, <2>3, TouchedSame, OrderKeeps
<1> QED
  BY <1>1, <1>2, <1>3 DEF InstStep

LEMMA OrderNodeStep ==
  ASSUME Typed, Delivery, Order, \A u \in Tasks : GoesDown(u), NEW n \in Nodes, NodeStep(n)
  PROVE  Order'
<1>0. /\ InstOrder /\ NodeOrder(n)
      /\ SubNodes(n) \in SUBSET Children(n) /\ {} \in SUBSET Children(n)
  BY ChildrenAre DEF Order
<1>1. ASSUME UNCHANGED inst, \A u \in Tasks : tsk'[u].state = "new" <=> tsk[u].state = "new" PROVE InstOrder'
  BY <1>0, <1>1, InstOrderSame
<1>2. ASSUME Stops(n), UNCHANGED inst PROVE Order'
  <2>1. (\A x \in Nodes : NodeOrder(x)') /\ UNCHANGED tsk
    BY <1>2, OrderStops
  <2> QED
    BY <1>1, <1>2, <2>1, TouchedSame, OrderKeeps
<1>3. ASSUME NEW to \in SUBSET Children(n), NEW m \in NodeMsgs, m.kind # "AddTask", Forwards(n, to, m),
             UNCHANGED inst, node'[n].tasks \subseteq node[n].tasks,
             \A u \in Tasks : tsk'[u].state = tsk[u].state,
             \A u \in Tasks : Home(u) = n \/ tsk'[u] = tsk[u]
      PROVE  Order'
  <2>1. (\A x \in Nodes : NodeOrder(x)') /\ PassedUp(n)
    BY <1>3, OrderForwards
  <2>2. \A u \in Tasks : Touched(u)' => Touched(u) \/ PassedUp(Home(u))
    BY <1>3, <2>1, TouchedSame
  <2> QED
    BY <1>1, <1>3, <2>1, <2>2, OrderKeeps
<1>4. ASSUME NEW t \in Tasks, Below(n, t), Home(t) # n, Passes(n, t, Toward(n, t)), UNCHANGED inst PROVE Order'
  <2>1. (\A x \in Nodes : NodeOrder(x)') /\ UNCHANGED tsk
    BY <1>4, OrderPasses
  <2> QED
    BY <1>1, <1>4, <2>1, TouchedSame, OrderKeeps
<1>5. CASE DistAddTask(n)
  BY <1>4, <1>5, DistAddTaskIs
<1>6. CASE DistGetTask(n)
  BY <1>2, <1>3, <1>6, DistGetTaskIs, NodeMsgKinds
<1>7. CASE DistTerminated(n)
  BY <1>0, <1>2, <1>3, <1>7, DistTerminatedIs, NodeMsgKinds
<1>8. CASE SubAddTask(n)
  <2>1. ASSUME NEW t \in Tasks, Home(t) = n, Arrives(n, t), UNCHANGED inst PROVE Order'
    <3>1. /\ Done(n) /\ node'[n].tasks = node[n].tasks \cup {t} /\ \A x \in Nodes \ {n} : node'[x] = node[x]
          /\ node[n].mail # <<>> /\ Head(node[n].mail) = AddTask(t)
      BY <2>1 DEF Arrives, Done
    <3>2. tsk[t].state = "sent"
      BY <3>1, HeadIsSent
    <3>3. NodeOrder(n)'
      BY <1>0, <2>1, <3>1, OrderDone DEF NodeOrder
    <3>4. \A x \in Nodes \ {n} : NodeOrder(x)'
      BY <3>1, OrderSame DEF Order
    <3>5. \A u \in Tasks : Touched(u)' => Touched(u)
      BY <2>1 DEF Arrives, Touched
    <3>6. InstOrder'
      BY <1>1, <2>1, <3>2 DEF Arrives
    <3> QED
      BY <3>3, <3>4, <3>5, <3>6, OrderKeeps
  <2> QED
    BY <1>4, <1>8, <2>1, SubAddTaskIs
<1>9. CASE SubGetTask(n)
  <2>1. ASSUME NEW ts, \A u \in Tasks : u \in ts => Home(u) = n, tsk' = Offered(ts)
        PROVE  \A u \in Tasks : tsk'[u].state = tsk[u].state /\ (Home(u) = n \/ tsk'[u] = tsk[u])
    BY <2>1, OfferedIs
  <2>2. /\ \A u \in Tasks : u \in node[n].tasks => Home(u) = n
        /\ \A u \in Tasks : u \in TaskChildren(n) => Home(u) = n
    BY <1>0 DEF NodeOrder, TaskChildren
  <2>3. UNCHANGED inst
    BY <1>9, SubGetTaskIs
  <2>4. CASE Stops(n)
    BY <1>2, <2>3, <2>4
  <2>5. CASE node'[n].tasks = node[n].tasks /\ tsk' = Offered(node[n].tasks) /\ Forwards(n, {}, GetTask)
    BY <1>0, <1>3, <2>1, <2>2, <2>3, <2>5, NodeMsgKinds
  <2>6. CASE node'[n].tasks = node[n].tasks /\ tsk' = Offered(TaskChildren(n)) /\ Forwards(n, SubNodes(n), GetTask)
    BY <1>0, <1>3, <2>1, <2>2, <2>3, <2>6, NodeMsgKinds
  <2> QED
    BY <1>9, <2>4, <2>5, <2>6, SubGetTaskIs
<1>10. CASE SubTerminated(n)
  BY <1>0, <1>2, <1>3, <1>10, SubTerminatedIs, NodeMsgKinds
<1>11. CASE SubPersistAndSuicide(n)
  <2>1. /\ UNCHANGED inst /\ node'[n].tasks = {} /\ tsk' = Advised(TaskChildren(n))
        /\ Forwards(n, SubNodes(n), PersistAndSuicide)
    BY <1>11, SubPersistAndSuicideIs
  <2>2. \A u \in Tasks : tsk'[u].state = tsk[u].state /\ (Home(u) = n \/ tsk'[u] = tsk[u])
    BY <2>1, AdvisedIs DEF TaskChildren
  <2> QED
    BY <1>0, <1>3, <2>1, <2>2, NodeMsgKinds
<1>12. CASE Gone(n)
  <2>1. UNCHANGED tsk
    BY <1>12, GoneIs
  <2>2. \A x \in Nodes : NodeOrder(x)'
    BY <1>12, OrderGone
  <2>3. InstOrder'
    <3>1. CASE IsDistributor(n)
      <4>1. PICK m : m = Terminated(Ref(n))
        OBVIOUS
      <4>2. inst'.mail = Append(inst.mail, m)
        BY <1>12, <3>1, <4>1, GoneIs
      <4>3. m \in InstMsgs /\ m.kind = "Terminated"
        <5>1. Ref(n) \in Refs
          BY NodeStateIs DEF Typed, Ref, Refs
        <5> QED
          BY <4>1, <5>1, MsgKinds DEF InstMsgs
      <4>4. \A t \in Tasks : m # AddTask(t)
        BY <4>3, MsgKinds
      <4> QED
        BY <1>0, <2>1, <4>2, <4>3, <4>4, InstOrderAppend
    <3>2. CASE ~IsDistributor(n)
      BY <1>1, <1>12, <2>1, <3>2, GoneIs
    <3> QED
      BY <3>1, <3>2
  <2> QED
    BY <2>1, <2>2, <2>3, TouchedSame, OrderKeeps
<1> QED
  BY <1>5, <1>6, <1>7, <1>8, <1>9, <1>10, <1>11, <1>12 DEF NodeStep

LEMMA OrderStep ==
  ASSUME Undisturbed = TRUE, Typed, Delivery, Order, [Next]_vars
  PROVE  Order'
<1>0. \A t \in Tasks : GoesDown(t)
  BY GoesDownStep
<1>1. CASE UNCHANGED vars
  BY <1>1 DEF vars, Order, InstOrder, Late, NodeOrder, TaskOrder, Touched, Closed, PassedUp, Passed, Waiting
<1>2. ASSUME NEW t \in Tasks, Upload(t) PROVE Order'
  <2>1. /\ UNCHANGED node /\ tsk[t].state = "new" /\ TaskTo(t, "sent") /\ tsk'[t].offered = tsk[t].offered
        /\ inst'.mail = Append(inst.mail, AddTask(t))
    BY <1>2, UploadIs
  <2>2. AddTask(t) \in InstMsgs /\ AddTask(t).kind = "AddTask" /\ \A u \in Tasks : AddTask(t) = AddTask(u) => u = t
    BY MsgKinds DEF InstMsgs
  <2>3. InstOrder'
    BY <2>1, <2>2, InstOrderAppend DEF TaskTo, Order
  <2>4. \A x \in Nodes : NodeOrder(x)'
    BY <1>0, <2>1, OrderSame DEF Order
  <2>5. \A u \in Tasks : Touched(u)' => Touched(u)
    BY <2>1 DEF TaskTo, Touched
  <2> QED
    BY <1>0, <2>3, <2>4, <2>5, OrderKeeps
<1>3. ASSUME NEW t \in Tasks, TaskStep(t) PROVE Order'
  BY <1>0, <1>3, OrderTaskStep
<1>4. ASSUME NEW ver \in Versions, Poll(ver) PROVE Order'
  <2>1. /\ UNCHANGED <<node, tsk>> /\ inst'.mail = Append(inst.mail, GetTaskOf(ver))
        /\ \A t, u \in Tasks : RunOf[t] = RunOf[u] => (tsk[t].state = "new") = (tsk[u].state = "new")
    BY <1>4, PollIs
  <2>2. GetTaskOf(ver) \in InstMsgs /\ \A u \in Tasks : GetTaskOf(ver) # AddTask(u)
    <3>1. GetTaskOf(ver).kind = "GetTask" /\ \A u \in Tasks : AddTask(u).kind = "AddTask"
      BY MsgKinds
    <3> QED
      BY <3>1 DEF InstMsgs
  <2>3. InstOrder'
    BY <2>1, <2>2, InstOrderAppend DEF Order
  <2>4. \A x \in Nodes : NodeOrder(x)'
    BY <1>0, <2>1, OrderSame DEF Order
  <2> QED
    BY <1>0, <2>1, <2>3, <2>4, TouchedSame, OrderKeeps
<1>5. ASSUME InstStep PROVE Order'
  BY <1>0, <1>5, OrderInstStep
<1>6. ASSUME NEW n \in Nodes, NodeStep(n) PROVE Order'
  BY <1>0, <1>6, OrderNodeStep
<1> QED
  BY <1>1, <1>2, <1>3, <1>4, <1>5, <1>6 DEF Next

-----------------------------------------------------------------------------
(* What an actor of the tree does with its next message, as long as nothing *)
(* gets lost                                                                *)

Halts(n) == Stops(n) /\ UNCHANGED <<inst, tsk, end>>

Relays(n) ==
  /\ UNCHANGED <<inst, end>>
  /\ \A u \in Tasks : tsk'[u].state = tsk[u].state /\ (tsk[u].suicide => tsk'[u].suicide)
  /\ \E to \in SUBSET Children(n), m \in NodeMsgs : m.kind # "AddTask" /\ Forwards(n, to, m)

HandsOn(n) ==
  /\ UNCHANGED <<inst, tsk, end>>
  /\ \E t \in Tasks : /\ Below(n, t) /\ Home(t) # n /\ Passes(n, t, Toward(n, t))
                      /\ node[Toward(n, t)].state # "stopping"

TakesIn(n) ==
  /\ UNCHANGED <<inst, end>>
  /\ \E t \in Tasks : Home(t) = n /\ Arrives(n, t)

LEMMA NodeStepIs ==
  ASSUME Typed, Delivery, Order, [Next]_vars, NEW n \in Nodes, NodeStep(n)
  PROVE  Halts(n) \/ Relays(n) \/ HandsOn(n) \/ TakesIn(n) \/ Gone(n)
<1>0. /\ SubNodes(n) \in SUBSET Children(n) /\ {} \in SUBSET Children(n)
      /\ \A u \in Tasks : GoesDown(u)
  BY ChildrenAre, GoesDownStep
<1>1. ASSUME Stops(n), UNCHANGED <<inst, end>> PROVE Halts(n)
  BY <1>0, <1>1, OrderStops DEF Halts
<1>2. ASSUME NEW to \in SUBSET Children(n), NEW m \in NodeMsgs, m.kind # "AddTask", Forwards(n, to, m),
             UNCHANGED <<inst, end>>,
             \A u \in Tasks : tsk'[u].state = tsk[u].state /\ (tsk[u].suicide => tsk'[u].suicide)
      PROVE  Relays(n)
  BY <1>2 DEF Relays
<1>3. ASSUME NEW t \in Tasks, Below(n, t), Home(t) # n, Passes(n, t, Toward(n, t)), UNCHANGED <<inst, end>>
      PROVE  HandsOn(n)
  <2>1. UNCHANGED tsk
    BY <1>0, <1>3, OrderPasses
  <2>2. PICK c \in Nodes : c = Toward(n, t)
    BY <1>3, TowardIs
  <2>3. ~IsDistributor(c) /\ Above(c) = n /\ Below(c, t) /\ NodeOrder(c)
    BY <1>3, <2>2, TowardIs DEF Order
  <2>4. Has(node[n].mail, AddTask(t))
    BY <1>3, HeadIsSent DEF Passes, Done
  <2>5. node[c].state # "stopping"
    BY <2>3, <2>4, WayIsOpen
  <2> QED
    BY <1>3, <2>1, <2>2, <2>5 DEF HandsOn
<1>5. CASE DistAddTask(n)
  BY <1>3, <1>5, DistAddTaskIs
<1>6. CASE DistGetTask(n)
  BY <1>1, <1>2, <1>6, DistGetTaskIs, NodeMsgKinds
<1>7. CASE DistTerminated(n)
  BY <1>0, <1>1, <1>2, <1>7, DistTerminatedIs, NodeMsgKinds
<1>8. CASE SubAddTask(n)
  BY <1>3, <1>8, SubAddTaskIs DEF TakesIn
<1>9. CASE SubGetTask(n)
  BY <1>0, <1>1, <1>2, <1>9, SubGetTaskIs, OfferedIs, NodeMsgKinds
<1>10. CASE SubTerminated(n)
  BY <1>0, <1>1, <1>2, <1>10, SubTerminatedIs, NodeMsgKinds
<1>11. CASE SubPersistAndSuicide(n)
  <2>1. /\ UNCHANGED <<inst, end>> /\ tsk' = Advised(TaskChildren(n))
        /\ Forwards(n, SubNodes(n), PersistAndSuicide)
    BY <1>11, SubPersistAndSuicideIs
  <2>2. \A u \in Tasks : tsk'[u].state = tsk[u].state /\ (tsk[u].suicide => tsk'[u].suicide)
    BY <2>1, AdvisedIs
  <2> QED
    BY <1>0, <1>2, <2>1, <2>2, NodeMsgKinds
<1> QED
  BY <1>5, <1>6, <1>7, <1>8, <1>9, <1>10, <1>11 DEF NodeStep

-----------------------------------------------------------------------------
(* What lives has its parents *)

Lives(t) == tsk[t].state \in {"up", "taken", "success", "failure", "stopping"}

Levels ==
  /\ \A t \in Tasks : Lives(t) => node[Home(t)].state = "up"
  /\ \A m, n \in Nodes : Over(m, n) /\ node[n].state # "none" => node[m].state = "up"

LEMMA LevelsSame ==
  ASSUME Levels, \A x \in Nodes : node'[x].state = node[x].state,
         \A t \in Tasks : Lives(t)' => Lives(t) \/ node[Home(t)].state = "up"
  PROVE  Levels'
<1>1. \A t \in Tasks : Home(t) \in Nodes
  BY HomeIs
<1> QED
  BY <1>1 DEF Levels

\* An actor that stops has nothing below it.
LEMMA StopsAlone ==
  ASSUME Levels, NEW n \in Nodes, NoChildren(n)
  PROVE  /\ \A x \in Nodes : Over(n, x) => node[x].state = "none"
         /\ \A t \in Tasks : Home(t) = n => ~Lives(t)
<1>1. ASSUME NEW x \in Nodes, Over(n, x), node[x].state # "none" PROVE FALSE
  <2>1. PICK t \in Tasks : Below(x, t)
    BY NodeType
  <2>2. PICK c : c = Toward(n, t)
    OBVIOUS
  <2>3. /\ c \in Nodes /\ ~IsDistributor(c) /\ Above(c) = n
        /\ c = x \/ Over(c, x)
    BY <1>1, <2>1, <2>2, TowardOver, TowardIs
  <2>4. node[c].state # "none"
    BY <1>1, <2>3 DEF Levels
  <2>5. c \in SubNodes(n)
    BY <2>3, <2>4 DEF SubNodes
  <2> QED
    BY <2>5 DEF NoChildren
<1>2. \A t \in Tasks : Home(t) = n => ~Lives(t)
  BY DEF NoChildren, TaskChildren, Lives
<1> QED
  BY <1>1, <1>2

LEMMA LevelsStops ==
  ASSUME Levels, NEW n \in Nodes, Stops(n), UNCHANGED tsk
  PROVE  Levels'
<1>1. /\ node'[n].state = "stopping" /\ node[n].state = "up" /\ NoChildren(n)
      /\ \A x \in Nodes \ {n} : node'[x] = node[x]
  BY DEF Stops
<1>2. /\ \A x \in Nodes : Over(n, x) => node[x].state = "none"
      /\ \A t \in Tasks : Home(t) = n => ~Lives(t)
  BY <1>1, StopsAlone
<1>3. \A t \in Tasks : Lives(t)' => node'[Home(t)].state = "up"
  BY <1>1, <1>2, HomeIs DEF Levels, Lives
<1>4. ASSUME NEW m \in Nodes, NEW x \in Nodes, Over(m, x), node'[x].state # "none" PROVE node'[m].state = "up"
  <2>1. node[x].state # "none"
    BY <1>1, <1>4
  <2>2. node[m].state = "up" /\ m # n
    BY <1>2, <1>4, <2>1 DEF Levels
  <2> QED
    BY <1>1, <2>2
<1> QED
  BY <1>3, <1>4 DEF Levels

LEMMA LevelsGone ==
  ASSUME Typed, Delivery, Levels, NEW n \in Nodes, Gone(n)
  PROVE  Levels'
<1>1. UNCHANGED tsk /\ node[n].state = "stopping" /\ node'[n].state = "none"
  BY GoneIs DEF Leaves
<1>2. \A x \in Nodes \ {n} : node'[x].state = node[x].state
  <2>1. CASE IsDistributor(n)
    BY <2>1, GoneIs
  <2>2. CASE ~IsDistributor(n)
    <3>1. \A x \in Nodes \ {n} : Sent(x, {Above(n)}, Terminated(Ref(n)))
      BY <2>2, GoneIs
    <3> QED
      BY <3>1 DEF Sent
  <2> QED
    BY <2>1, <2>2
<1>3. \A t \in Tasks : Lives(t)' => node'[Home(t)].state = "up"
  BY <1>1, <1>2, HomeIs DEF Levels, Lives
<1>4. ASSUME NEW m \in Nodes, NEW x \in Nodes, Over(m, x), node'[x].state # "none" PROVE node'[m].state = "up"
  BY <1>1, <1>2, <1>4 DEF Levels
<1> QED
  BY <1>3, <1>4 DEF Levels

LEMMA LevelsDelivered ==
  ASSUME Typed, Levels, NEW c \in Nodes, NEW t \in Tasks, Delivered(t, c), node[c].state # "stopping", UNCHANGED tsk,
         ~IsDistributor(c) => node[Above(c)].state = "up",
         \A x \in Nodes \ {c} : node'[x].state = node[x].state
  PROVE  Levels'
<1>1. node'[c].state = "up"
  BY DEF Delivered
<1>2. \A u \in Tasks : Lives(u)' => node'[Home(u)].state = "up"
  BY <1>1, HomeIs DEF Levels, Lives
<1>3. ASSUME NEW m \in Nodes, NEW x \in Nodes, Over(m, x), node'[x].state # "none" PROVE node'[m].state = "up"
  <2>1. CASE x = c
    <3>1. ~IsDistributor(c)
      BY <1>3, <2>1, DistributorOver
    <3>2. Above(c) \in Nodes /\ (m = Above(c) \/ Over(m, Above(c)))
      BY <1>3, <2>1, <3>1, OverAbove, AboveIs
    <3>3. node[Above(c)].state = "up"
      BY <3>1
    <3>4. node[m].state = "up"
      BY <3>2, <3>3 DEF Levels
    <3> QED
      BY <1>1, <3>4
  <2>2. CASE x # c
    BY <1>1, <1>3, <2>2 DEF Levels
  <2> QED
    BY <2>1, <2>2
<1> QED
  BY <1>2, <1>3 DEF Levels

LEMMA SentState ==
  ASSUME NEW x, NEW to, NEW m, Sent(x, to, m)
  PROVE  node'[x].state = node[x].state /\ node'[x].born = node[x].born
  BY DEF Sent

LEMMA LevelsStep ==
  ASSUME Typed, Delivery, Order, Levels, [Next]_vars
  PROVE  Levels'
<1>1. CASE UNCHANGED vars
  <2>1. UNCHANGED <<node, tsk>>
    BY <1>1 DEF vars
  <2> QED
    BY <2>1, LevelsSame DEF Lives
<1>2. ASSUME NEW t \in Tasks, Upload(t) PROVE Levels'
  <2>1. UNCHANGED node /\ TaskTo(t, "sent")
    BY <1>2, UploadIs
  <2> QED
    BY <2>1, LevelsSame DEF Lives, TaskTo
<1>3. ASSUME NEW t \in Tasks, TaskStep(t) PROVE Levels'
  <2>1. /\ \A x \in Nodes : node'[x].state = node[x].state
        /\ Lives(t) /\ \A u \in Tasks \ {t} : tsk'[u].state = tsk[u].state
    <3>1. CASE TaskTake(t) \/ TaskNotTaken(t) \/ TaskReset(t) \/ TaskEnds(t)
      BY <3>1, TaskMovesIs DEF TaskTo, Lives
    <3>2. CASE HandleSuccess(t)
      <4>1. tsk[t].state = "success" /\ TaskTo(t, "stopping") /\ Strikes(Home(t), t, {}, GetTask)
        BY <3>2, HandleSuccessIs
      <4> QED
        BY <4>1, SentState DEF TaskTo, Lives, Strikes
    <3>3. CASE HandleFailure(t)
      <4>1. /\ tsk[t].state = "failure" /\ Strikes(Home(t), t, SubNodes(Home(t)), PersistAndSuicide)
            /\ \A u \in Tasks \ {t} : tsk'[u] = Advised(TaskChildren(Home(t)))[u]
        BY <3>3, HandleFailureIs
      <4> QED
        BY <4>1, SentState, AdvisedIs DEF Lives, Strikes
    <3>4. CASE TaskSuicide(t)
      BY <3>4, TaskSuicideIs DEF TaskTo, Lives
    <3>5. CASE TaskGone(t)
      <4>1. /\ tsk[t].state = "stopping" /\ TaskTo(t, "gone")
            /\ \A x \in Nodes : Sent(x, {Home(t)}, TaskTerminated)
        BY <3>5, TaskGoneIs
      <4> QED
        BY <4>1, SentState DEF TaskTo, Lives
    <3> QED
      BY <1>3, <3>1, <3>2, <3>3, <3>4, <3>5 DEF TaskStep
  <2> QED
    BY <2>1, LevelsSame DEF Lives
<1>4. ASSUME NEW ver \in Versions, Poll(ver) PROVE Levels'
  BY <1>4, PollIs, LevelsSame DEF Lives
<1>5. ASSUME InstStep PROVE Levels'
  <2>1. CASE InstAddTask
    <3>1. PICK t \in Tasks, d \in Nodes : InstHandsOn(t, d)
      BY <2>1, InstAddTaskInOrder
    <3> QED
      BY <3>1, LevelsDelivered DEF InstHandsOn
  <2>2. CASE InstGetTask
    BY <2>2, InstGetTaskIs, SentState, LevelsSame DEF Lives
  <2>3. CASE InstTerminated \/ \E ver \in Versions : NoMoreTasks(ver)
    BY <2>3, InstTerminatedIs, NoMoreTasksIs, LevelsSame DEF Lives
  <2> QED
    BY <1>5, <2>1, <2>2, <2>3 DEF InstStep
<1>6. ASSUME NEW n \in Nodes, NodeStep(n) PROVE Levels'
  <2>1. CASE Halts(n)
    BY <2>1, LevelsStops DEF Halts
  <2>2. CASE Relays(n)
    <3>1. \A x \in Nodes : node'[x].state = node[x].state
      BY <2>2, SentState DEF Relays, Forwards, Done
    <3> QED
      BY <2>2, <3>1, LevelsSame DEF Relays, Lives
  <2>3. CASE HandsOn(n)
    <3>1. PICK t \in Tasks : /\ Below(n, t) /\ Home(t) # n /\ Passes(n, t, Toward(n, t))
                             /\ node[Toward(n, t)].state # "stopping"
      BY <2>3 DEF HandsOn
    <3>2. PICK c \in Nodes : c = Toward(n, t)
      BY <3>1, TowardIs
    <3>3. /\ Above(c) = n /\ Delivered(t, c) /\ node[n].state = "up" /\ node'[n].state = "up"
          /\ \A x \in Nodes \ {n, c} : node'[x] = node[x]
      BY <3>1, <3>2, TowardIs DEF Passes, Done
    <3>4. UNCHANGED tsk /\ node[c].state # "stopping"
      BY <2>3, <3>1, <3>2 DEF HandsOn
    <3> QED
      BY <3>3, <3>4, LevelsDelivered
  <2>4. CASE TakesIn(n)
    <3>1. PICK t \in Tasks : Home(t) = n /\ Arrives(n, t)
      BY <2>4 DEF TakesIn
    <3>2. /\ node[n].state = "up" /\ \A x \in Nodes : node'[x].state = node[x].state
          /\ \A u \in Tasks \ {t} : tsk'[u] = tsk[u]
      BY <3>1 DEF Arrives, Done
    <3> QED
      BY <3>1, <3>2, LevelsSame DEF Lives
  <2>5. CASE Gone(n)
    BY <2>5, LevelsGone
  <2> QED
    BY <1>6, <2>1, <2>2, <2>3, <2>4, <2>5, NodeStepIs
<1> QED
  BY <1>1, <1>2, <1>3, <1>4, <1>5, <1>6 DEF Next

-----------------------------------------------------------------------------
(* No task is lost *)

InMail(t) == Has(inst.mail, AddTask(t)) \/ \E n \in Nodes : Has(node[n].mail, AddTask(t))

Found ==
  \A t \in Tasks : /\ tsk[t].state # "lost"
                   /\ tsk[t].state = "sent" => InMail(t)
                   /\ tsk[t].state \in {"stopping", "gone"} => end[t] # "NONE"

\* What keeps the AddTasks.
Keeps(mail, mail2) == \A t \in Tasks : Has(mail, AddTask(t)) => Has(mail2, AddTask(t))

LEMMA KeepsAppend ==
  ASSUME NEW S, NEW mail \in Seq(S), NEW m \in S
  PROVE  Keeps(mail, Append(mail, m)) /\ Has(Append(mail, m), m)
  BY HasAppend DEF Keeps

LEMMA KeepsTail ==
  ASSUME NEW S, NEW mail \in Seq(S), mail # <<>>
  PROVE  /\ Head(mail).kind # "AddTask" => Keeps(mail, Tail(mail))
         /\ \A t \in Tasks : Head(mail) # AddTask(t) /\ Has(mail, AddTask(t)) => Has(Tail(mail), AddTask(t))
<1>1. \A t \in Tasks : Head(mail) # AddTask(t) /\ Has(mail, AddTask(t)) => Has(Tail(mail), AddTask(t))
  BY HasTail
<1>2. Head(mail).kind # "AddTask" => \A t \in Tasks : Head(mail) # AddTask(t)
  BY MsgKinds
<1> QED
  BY <1>1, <1>2 DEF Keeps

LEMMA KeepsSent ==
  ASSUME Typed, NEW x \in Nodes, NEW to, NEW m \in NodeMsgs, Sent(x, to, m)
  PROVE  Keeps(node[x].mail, node'[x].mail)
<1>1. node[x].mail \in Seq(NodeMsgs)
  BY NodeStateIs DEF Typed
<1>2. CASE x \in to /\ node[x].state = "up"
  <2>1. node'[x].mail = Append(node[x].mail, m)
    BY <1>2 DEF Sent
  <2> QED
    BY <1>1, <2>1, KeepsAppend
<1>3. CASE ~(x \in to /\ node[x].state = "up")
  BY <1>3 DEF Sent, Keeps
<1> QED
  BY <1>2, <1>3

LEMMA FoundKeeps ==
  ASSUME Found, Keeps(inst.mail, inst'.mail), \A x \in Nodes : Keeps(node[x].mail, node'[x].mail),
         \A t \in Tasks : tsk'[t].state = "sent" => tsk[t].state = "sent",
         \A t \in Tasks : tsk'[t].state = "lost" => tsk[t].state = "lost",
         \A t \in Tasks : tsk'[t].state \in {"stopping", "gone"} =>
           \/ tsk[t].state \in {"stopping", "gone"} /\ end'[t] = end[t]
           \/ end'[t] # "NONE"
  PROVE  Found'
<1>1. \A t \in Tasks : InMail(t) => InMail(t)'
  BY DEF InMail, Keeps
<1> QED
  BY <1>1 DEF Found

LEMMA FoundMoved ==
  ASSUME Found, NEW t \in Tasks, UNCHANGED end, UNCHANGED tsk, InMail(t)',
         \A u \in Tasks \ {t} : InMail(u) => InMail(u)'
  PROVE  Found'
  BY DEF Found

LEMMA DeliveredFinds ==
  ASSUME Typed, NEW c \in Nodes, NEW t \in Tasks, Delivered(t, c), node[c].state # "stopping"
  PROVE  Has(node'[c].mail, AddTask(t)) /\ Keeps(node[c].mail, node'[c].mail)
<1>1. node[c].mail \in Seq(NodeMsgs) /\ AddTask(t) \in NodeMsgs
  BY NodeStateIs, NodeMsgKinds DEF Typed
<1>2. node'[c].mail = Append(node[c].mail, AddTask(t))
  BY DEF Delivered
<1> QED
  BY <1>1, <1>2, KeepsAppend

LEMMA FoundTaskStep ==
  ASSUME Typed, Delivery, Found, NEW t \in Tasks, TaskStep(t)
  PROVE  Found'
<1>0. ASSUME \A x \in Nodes : node'[x].mail = node[x].mail PROVE \A x \in Nodes : Keeps(node[x].mail, node'[x].mail)
  BY <1>0 DEF Keeps
<1>1. Keeps(inst.mail, inst.mail)
  BY DEF Keeps
<1>2. ASSUME NEW to, NEW m \in NodeMsgs, Strikes(Home(t), t, to, m)
      PROVE  \A x \in Nodes : Keeps(node[x].mail, node'[x].mail)
  BY <1>2, KeepsSent DEF Strikes, Keeps
<1>3. CASE TaskTake(t) \/ TaskNotTaken(t) \/ TaskReset(t) \/ TaskEnds(t)
  <2>1. /\ UNCHANGED <<inst, node, end>>
        /\ \E s \in {"up", "taken", "success", "failure"} : TaskTo(t, s)
    BY <1>3, TaskMovesIs
  <2> QED
    BY <1>0, <1>1, <2>1, FoundKeeps DEF TaskTo
<1>4. CASE HandleSuccess(t)
  <2>1. /\ UNCHANGED inst /\ TaskTo(t, "stopping") /\ Strikes(Home(t), t, {}, GetTask)
        /\ end'[t] = "SUCCESS" /\ \A u \in Tasks \ {t} : end'[u] = end[u]
    BY <1>4, HandleSuccessIs
  <2>2. \A x \in Nodes : Keeps(node[x].mail, node'[x].mail)
    BY <1>2, <2>1, NodeMsgKinds
  <2> QED
    BY <1>1, <2>1, <2>2, FoundKeeps DEF TaskTo
<1>5. CASE HandleFailure(t)
  <2>1. /\ UNCHANGED inst /\ tsk'[t].state = "stopping"
        /\ \A u \in Tasks \ {t} : tsk'[u] = Advised(TaskChildren(Home(t)))[u]
        /\ Strikes(Home(t), t, SubNodes(Home(t)), PersistAndSuicide)
        /\ end'[t] = "FAILURE" /\ \A u \in Tasks \ {t} : end'[u] = end[u]
    BY <1>5, HandleFailureIs
  <2>2. \A x \in Nodes : Keeps(node[x].mail, node'[x].mail)
    BY <1>2, <2>1, NodeMsgKinds
  <2>3. \A u \in Tasks \ {t} : tsk'[u].state = tsk[u].state
    BY <2>1, AdvisedIs
  <2> QED
    BY <1>1, <2>1, <2>2, <2>3, FoundKeeps
<1>6. CASE TaskSuicide(t)
  <2>1. /\ UNCHANGED <<inst, node>> /\ TaskTo(t, "stopping")
        /\ end'[t] = "ABANDONED" /\ \A u \in Tasks \ {t} : end'[u] = end[u]
    BY <1>6, TaskSuicideIs
  <2> QED
    BY <1>0, <1>1, <2>1, FoundKeeps DEF TaskTo
<1>7. CASE TaskGone(t)
  <2>1. /\ UNCHANGED <<inst, end>> /\ tsk[t].state = "stopping" /\ TaskTo(t, "gone")
        /\ \A x \in Nodes : Sent(x, {Home(t)}, TaskTerminated)
    BY <1>7, TaskGoneIs
  <2>2. \A x \in Nodes : Keeps(node[x].mail, node'[x].mail)
    BY <2>1, KeepsSent, NodeMsgKinds
  <2> QED
    BY <1>1, <2>1, <2>2, FoundKeeps DEF TaskTo
<1> QED
  BY <1>3, <1>4, <1>5, <1>6, <1>7 DEF TaskStep

LEMMA FoundInstStep ==
  ASSUME Typed, Delivery, Order, Found, InstStep
  PROVE  Found'
<1>0. inst.mail \in Seq(InstMsgs)
  BY DEF Typed
<1>1. CASE InstAddTask
  <2>1. PICK t \in Tasks, d \in Nodes : InstHandsOn(t, d)
    BY <1>1, InstAddTaskInOrder
  <2>2. /\ UNCHANGED <<tsk, end>> /\ inst.mail # <<>> /\ Head(inst.mail) = AddTask(t) /\ inst'.mail = Tail(inst.mail)
        /\ Delivered(t, d) /\ node[d].state # "stopping" /\ \A x \in Nodes \ {d} : node'[x] = node[x]
    BY <2>1 DEF InstHandsOn
  <2>3. Has(node'[d].mail, AddTask(t)) /\ Keeps(node[d].mail, node'[d].mail)
    BY <2>2, DeliveredFinds
  <2>4. InMail(t)'
    BY <2>3 DEF InMail
  <2>5. ASSUME NEW u \in Tasks \ {t}, InMail(u) PROVE InMail(u)'
    <3>1. Head(inst.mail) # AddTask(u)
      BY <2>2, MsgKinds
    <3>2. Has(inst.mail, AddTask(u)) => Has(inst'.mail, AddTask(u))
      BY <1>0, <2>2, <3>1, KeepsTail
    <3>3. \A x \in Nodes : Has(node[x].mail, AddTask(u)) => Has(node'[x].mail, AddTask(u))
      BY <2>2, <2>3 DEF Keeps
    <3> QED
      BY <2>5, <3>2, <3>3 DEF InMail
  <2> QED
    BY <2>2, <2>4, <2>5, FoundMoved
<1>2. CASE InstGetTask \/ InstTerminated \/ \E ver \in Versions : NoMoreTasks(ver)
  <2>1. UNCHANGED <<tsk, end>> /\ InstDone /\ \E to : \A x \in Nodes : Sent(x, to, GetTask)
    <3>1. CASE InstGetTask
      BY <3>1, InstGetTaskIs
    <3>2. CASE InstTerminated \/ \E ver \in Versions : NoMoreTasks(ver)
      <4>1. UNCHANGED <<node, tsk, end>> /\ InstDone
        BY <3>2, InstTerminatedIs, NoMoreTasksIs
      <4>2. \A x \in Nodes : Sent(x, {}, GetTask)
        BY <4>1 DEF Sent
      <4> QED
        BY <4>1, <4>2
    <3> QED
      BY <1>2, <3>1, <3>2
  <2>2. \A x \in Nodes : Keeps(node[x].mail, node'[x].mail)
    BY <2>1, KeepsSent, NodeMsgKinds
  <2>3. Keeps(inst.mail, inst'.mail)
    BY <1>0, <2>1, KeepsTail DEF InstDone
  <2> QED
    BY <2>1, <2>2, <2>3, FoundKeeps
<1> QED
  BY <1>1, <1>2 DEF InstStep

LEMMA FoundNodeStep ==
  ASSUME Typed, Delivery, Order, Found, [Next]_vars, NEW n \in Nodes, NodeStep(n)
  PROVE  Found'
<1>0. Keeps(inst.mail, inst.mail) /\ node[n].mail \in Seq(NodeMsgs)
  BY NodeStateIs DEF Keeps, Typed
<1>1. CASE Halts(n)
  <2>1. /\ UNCHANGED <<inst, tsk, end>> /\ node[n].mail # <<>> /\ Head(node[n].mail).kind # "AddTask"
        /\ \A x \in Nodes \ {n} : node'[x] = node[x]
    BY <1>1 DEF Halts, Stops
  <2>2. LostWith(node, n) = {}
    BY <2>1, HeadOther DEF Order
  <2>3. \A x \in Nodes : Keeps(node[x].mail, node'[x].mail)
    BY <2>1, <2>2 DEF Keeps, LostWith, Has
  <2> QED
    BY <1>0, <2>1, <2>3, FoundKeeps
<1>2. CASE Relays(n)
  <2>1. /\ UNCHANGED <<inst, end>> /\ \A u \in Tasks : tsk'[u].state = tsk[u].state
        /\ \E to \in SUBSET Children(n), m \in NodeMsgs : m.kind # "AddTask" /\ Forwards(n, to, m)
    BY <1>2 DEF Relays
  <2>2. PICK to \in SUBSET Children(n), m \in NodeMsgs : m.kind # "AddTask" /\ Forwards(n, to, m)
    BY <2>1
  <2>3. \A x \in Nodes \ {n} : Keeps(node[x].mail, node'[x].mail)
    BY <2>2, KeepsSent DEF Forwards
  <2>4. node[n].mail # <<>> /\ Head(node[n].mail).kind # "AddTask" /\ node'[n].mail = Tail(node[n].mail)
    BY <2>2 DEF Forwards, Done
  <2>5. Keeps(node[n].mail, node'[n].mail)
    BY <1>0, <2>4, KeepsTail
  <2> QED
    BY <1>0, <2>1, <2>3, <2>5, FoundKeeps
<1>3. CASE HandsOn(n)
  <2>1. PICK t \in Tasks : /\ Below(n, t) /\ Home(t) # n /\ Passes(n, t, Toward(n, t))
                           /\ node[Toward(n, t)].state # "stopping"
    BY <1>3 DEF HandsOn
  <2>2. PICK c \in Nodes : c = Toward(n, t)
    BY <2>1, TowardIs
  <2>3. /\ node[n].mail # <<>> /\ Head(node[n].mail) = AddTask(t) /\ node'[n].mail = Tail(node[n].mail)
        /\ Delivered(t, c) /\ \A x \in Nodes \ {n, c} : node'[x] = node[x]
    BY <2>1, <2>2 DEF Passes, Done
  <2>4. Has(node'[c].mail, AddTask(t)) /\ Keeps(node[c].mail, node'[c].mail)
    BY <2>1, <2>2, <2>3, DeliveredFinds
  <2>5. UNCHANGED <<inst, tsk, end>> /\ InMail(t)'
    BY <1>3, <2>4 DEF HandsOn, InMail
  <2>6. ASSUME NEW u \in Tasks \ {t}, InMail(u) PROVE InMail(u)'
    <3>1. Head(node[n].mail) # AddTask(u)
      BY <2>3, MsgKinds
    <3>2. Has(node[n].mail, AddTask(u)) => Has(node'[n].mail, AddTask(u))
      BY <1>0, <2>3, <3>1, KeepsTail
    <3>3. \A x \in Nodes : Has(node[x].mail, AddTask(u)) => Has(node'[x].mail, AddTask(u))
      BY <2>3, <2>4, <3>2 DEF Keeps
    <3> QED
      BY <2>5, <2>6, <3>3 DEF InMail
  <2> QED
    BY <2>5, <2>6, FoundMoved
<1>4. CASE TakesIn(n)
  <2>1. PICK t \in Tasks : Home(t) = n /\ Arrives(n, t)
    BY <1>4 DEF TakesIn
  <2>2. /\ node[n].mail # <<>> /\ Head(node[n].mail) = AddTask(t) /\ node'[n].mail = Tail(node[n].mail)
        /\ \A x \in Nodes \ {n} : node'[x] = node[x]
        /\ tsk'[t].state = "up" /\ \A u \in Tasks \ {t} : tsk'[u] = tsk[u]
    BY <2>1 DEF Arrives, Done
  <2>3. UNCHANGED <<inst, end>>
    BY <1>4 DEF TakesIn
  <2>4. ASSUME NEW u \in Tasks \ {t}, InMail(u) PROVE InMail(u)'
    <3>1. Head(node[n].mail) # AddTask(u)
      BY <2>2, MsgKinds
    <3>2. Has(node[n].mail, AddTask(u)) => Has(node'[n].mail, AddTask(u))
      BY <1>0, <2>2, <3>1, KeepsTail
    <3>3. \A x \in Nodes : Has(node[x].mail, AddTask(u)) => Has(node'[x].mail, AddTask(u))
      BY <2>2, <3>2
    <3> QED
      BY <2>3, <2>4, <3>3 DEF InMail
  <2> QED
    BY <2>2, <2>3, <2>4 DEF Found
<1>5. CASE Gone(n)
  <2>1. UNCHANGED <<tsk, end>> /\ node[n].state = "stopping"
    BY <1>5, GoneIs DEF Leaves
  <2>2. node[n].mail = <<>>
    BY <2>1 DEF Delivery
  <2>3. Keeps(node[n].mail, node'[n].mail)
    BY <2>2 DEF Keeps, Has
  <2>4. PICK m : m = Terminated(Ref(n))
    OBVIOUS
  <2>5. m \in NodeMsgs /\ m \in InstMsgs
    <3>1. Ref(n) \in Refs
      BY NodeStateIs DEF Typed, Ref, Refs
    <3> QED
      BY <2>4, <3>1 DEF InstMsgs, NodeMsgs
  <2>6. CASE IsDistributor(n)
    <3>1. inst'.mail = Append(inst.mail, m) /\ \A x \in Nodes \ {n} : node'[x] = node[x]
      BY <1>5, <2>4, <2>6, GoneIs
    <3>2. inst.mail \in Seq(InstMsgs)
      BY DEF Typed
    <3>3. Keeps(inst.mail, inst'.mail)
      BY <2>5, <3>1, <3>2, KeepsAppend
    <3>4. \A x \in Nodes : Keeps(node[x].mail, node'[x].mail)
      BY <2>3, <3>1 DEF Keeps
    <3> QED
      BY <2>1, <3>3, <3>4, FoundKeeps
  <2>7. CASE ~IsDistributor(n)
    <3>1. UNCHANGED inst /\ \A x \in Nodes \ {n} : Sent(x, {Above(n)}, m)
      BY <1>5, <2>4, <2>7, GoneIs
    <3>2. \A x \in Nodes : Keeps(node[x].mail, node'[x].mail)
      BY <2>3, <2>5, <3>1, KeepsSent
    <3> QED
      BY <1>0, <2>1, <3>1, <3>2, FoundKeeps
  <2> QED
    BY <2>6, <2>7
<1> QED
  BY <1>1, <1>2, <1>3, <1>4, <1>5, NodeStepIs

LEMMA FoundStep ==
  ASSUME Typed, Delivery, Order, Found, [Next]_vars
  PROVE  Found'
<1>1. CASE UNCHANGED vars
  BY <1>1 DEF vars, Found, InMail
<1>2. ASSUME NEW t \in Tasks, Upload(t) PROVE Found'
  <2>1. UNCHANGED <<node, end>> /\ TaskTo(t, "sent") /\ inst'.mail = Append(inst.mail, AddTask(t))
    BY <1>2, UploadIs
  <2>2. inst.mail \in Seq(InstMsgs) /\ AddTask(t) \in InstMsgs
    BY DEF Typed, InstMsgs
  <2>3. Keeps(inst.mail, inst'.mail) /\ Has(inst'.mail, AddTask(t))
    BY <2>1, <2>2, KeepsAppend
  <2>4. \A u \in Tasks : InMail(u) => InMail(u)'
    BY <2>1, <2>3 DEF InMail, Keeps
  <2>5. InMail(t)'
    BY <2>3 DEF InMail
  <2> QED
    BY <2>1, <2>4, <2>5 DEF Found, TaskTo
<1>3. ASSUME NEW t \in Tasks, TaskStep(t) PROVE Found'
  BY <1>3, FoundTaskStep
<1>4. ASSUME NEW ver \in Versions, Poll(ver) PROVE Found'
  <2>1. UNCHANGED <<node, tsk, end>> /\ inst'.mail = Append(inst.mail, GetTaskOf(ver))
    BY <1>4, PollIs
  <2>2. inst.mail \in Seq(InstMsgs) /\ GetTaskOf(ver) \in InstMsgs
    BY DEF Typed, InstMsgs
  <2>3. Keeps(inst.mail, inst'.mail) /\ \A x \in Nodes : Keeps(node[x].mail, node'[x].mail)
    BY <2>1, <2>2, KeepsAppend DEF Keeps
  <2> QED
    BY <2>1, <2>3, FoundKeeps
<1>5. ASSUME InstStep PROVE Found'
  BY <1>5, FoundInstStep
<1>6. ASSUME NEW n \in Nodes, NodeStep(n) PROVE Found'
  BY <1>6, FoundNodeStep
<1> QED
  BY <1>1, <1>2, <1>3, <1>4, <1>5, <1>6 DEF Next

-----------------------------------------------------------------------------
(* The InstanceActor has every Distributor that lives in its list *)

Known ==
  /\ \A d \in Nodes : IsDistributor(d) /\ node[d].state = "up" => <<d, node[d].born>> \in inst.instances
  /\ \A ref \in Refs : Has(inst.mail, Terminated(ref)) =>
       /\ ref[2] <= node[ref[1]].born
       /\ node[ref[1]].state # "none" => ref[2] < node[ref[1]].born

\* A node that is created is a new reference; otherwise it keeps its own.
Ages(x) ==
  /\ node'[x].state = "up" => node[x].state # "stopping"
  /\ node[x].state = "none" /\ node'[x].state # "none" => node'[x].born = node[x].born + 1
  /\ node[x].state # "none" \/ node'[x].state = "none" => node'[x].born = node[x].born

LEMMA KnownKeeps ==
  ASSUME Typed, Typed', Known, \A x \in Nodes : Ages(x),
         \A ref \in Refs : Has(inst'.mail, Terminated(ref)) => Has(inst.mail, Terminated(ref)),
         \A d \in Nodes : IsDistributor(d) /\ node'[d].state = "up" /\ node[d].state = "none" =>
           <<d, node'[d].born>> \in inst'.instances,
         \A ref \in inst.instances : ref \notin inst'.instances => Has(inst.mail, Terminated(ref))
  PROVE  Known'
<1>1. \A x \in Nodes : /\ node[x].born \in Nat /\ node'[x].born \in Nat
                       /\ node[x].state \in {"none", "up", "stopping"}
  BY NodeStateIs DEF Typed
<1>2. ASSUME NEW d \in Nodes, IsDistributor(d), node'[d].state = "up" PROVE <<d, node'[d].born>> \in inst'.instances
  <2>1. CASE node[d].state = "none"
    BY <1>2, <2>1
  <2>2. CASE node[d].state = "up"
    <3>1. PICK ref : ref = <<d, node[d].born>>
      OBVIOUS
    <3>2. node'[d].born = node[d].born /\ ref \in inst.instances
      BY <1>2, <2>2, <3>1 DEF Ages, Known
    <3>3. ref \in Refs /\ ref[1] = d /\ ref[2] = node[d].born
      BY <1>1, <3>1 DEF Refs
    <3>4. ~Has(inst.mail, Terminated(ref))
      BY <1>1, <2>2, <3>3 DEF Known
    <3> QED
      BY <3>1, <3>2, <3>4
  <2> QED
    BY <1>1, <1>2, <2>1, <2>2 DEF Ages
<1>3. ASSUME NEW ref \in Refs, Has(inst'.mail, Terminated(ref))
      PROVE  /\ ref[2] <= node'[ref[1]].born
             /\ node'[ref[1]].state # "none" => ref[2] < node'[ref[1]].born
  <2>1. PICK x \in Nodes : x = ref[1]
    BY DEF Refs
  <2>2. ref[2] \in Nat
    BY DEF Refs
  <2>3. ref[2] <= node[x].born /\ (node[x].state # "none" => ref[2] < node[x].born)
    BY <1>3, <2>1 DEF Known
  <2>4. Ages(x)
    OBVIOUS
  <2> QED
    BY <1>1, <2>1, <2>2, <2>3, <2>4 DEF Ages
<1> QED
  BY <1>2, <1>3 DEF Known

LEMMA AgesSame ==
  ASSUME Typed, NEW x \in Nodes, node'[x].born = node[x].born,
         node'[x].state = node[x].state \/ (node[x].state = "up" /\ node'[x].state = "stopping")
           \/ (node[x].state = "stopping" /\ node'[x].state = "none")
  PROVE  Ages(x)
  BY DEF Ages

LEMMA AgesDelivered ==
  ASSUME Typed, NEW c \in Nodes, NEW t \in Tasks, Delivered(t, c), node[c].state # "stopping"
  PROVE  Ages(c)
<1>1. node[c].state \in {"none", "up"}
  BY NodeStateIs DEF Typed
<1> QED
  BY <1>1 DEF Delivered, Ages

LEMMA KnownQuiet ==
  ASSUME Typed, Typed', Known, \A x \in Nodes : Ages(x), UNCHANGED inst,
         \A d \in Nodes : IsDistributor(d) => ~(node'[d].state = "up" /\ node[d].state = "none")
  PROVE  Known'
  BY KnownKeeps

LEMMA KnownNodeStep ==
  ASSUME Typed, Typed', Delivery, Order, Known, [Next]_vars, NEW n \in Nodes, NodeStep(n)
  PROVE  Known'
<1>1. CASE Halts(n)
  <2>1. /\ UNCHANGED inst /\ node[n].state = "up" /\ node'[n].state = "stopping" /\ node'[n].born = node[n].born
        /\ \A x \in Nodes \ {n} : node'[x] = node[x]
    BY <1>1 DEF Halts, Stops
  <2>2. \A x \in Nodes : Ages(x)
    BY <2>1, AgesSame
  <2> QED
    BY <2>1, <2>2, KnownQuiet
<1>2. CASE Relays(n)
  <2>1. UNCHANGED inst /\ \A x \in Nodes : node'[x].state = node[x].state /\ node'[x].born = node[x].born
    BY <1>2, SentState DEF Relays, Forwards, Done
  <2>2. \A x \in Nodes : Ages(x)
    BY <2>1, AgesSame
  <2> QED
    BY <2>1, <2>2, KnownQuiet
<1>3. CASE HandsOn(n)
  <2>1. PICK t \in Tasks : /\ Below(n, t) /\ Home(t) # n /\ Passes(n, t, Toward(n, t))
                           /\ node[Toward(n, t)].state # "stopping"
    BY <1>3 DEF HandsOn
  <2>2. PICK c \in Nodes : c = Toward(n, t) /\ ~IsDistributor(c)
    BY <2>1, TowardIs
  <2>3. /\ Delivered(t, c) /\ node[n].state = "up" /\ node'[n].state = "up" /\ node'[n].born = node[n].born
        /\ \A x \in Nodes \ {n, c} : node'[x] = node[x]
    BY <2>1, <2>2 DEF Passes, Done
  <2>4. Ages(c)
    BY <2>1, <2>2, <2>3, AgesDelivered
  <2>5. \A x \in Nodes \ {c} : Ages(x)
    BY <2>3, AgesSame
  <2>6. UNCHANGED inst /\ \A d \in Nodes : IsDistributor(d) => ~(node'[d].state = "up" /\ node[d].state = "none")
    BY <1>3, <2>2, <2>3 DEF HandsOn
  <2> QED
    BY <2>4, <2>5, <2>6, KnownQuiet
<1>4. CASE TakesIn(n)
  <2>1. UNCHANGED inst /\ \A x \in Nodes : node'[x].state = node[x].state /\ node'[x].born = node[x].born
    BY <1>4 DEF TakesIn, Arrives, Done
  <2>2. \A x \in Nodes : Ages(x)
    BY <2>1, AgesSame
  <2> QED
    BY <2>1, <2>2, KnownQuiet
<1>5. CASE Gone(n)
  <2>1. /\ node[n].state = "stopping" /\ node'[n].state = "none" /\ node'[n].born = node[n].born
        /\ inst'.instances = inst.instances
    BY <1>5, GoneIs DEF Leaves
  <2>2. CASE ~IsDistributor(n)
    <3>1. UNCHANGED inst /\ \A x \in Nodes \ {n} : node'[x].state = node[x].state /\ node'[x].born = node[x].born
      BY <1>5, <2>2, GoneIs, SentState
    <3>2. \A x \in Nodes : Ages(x)
      BY <2>1, <3>1, AgesSame
    <3> QED
      BY <2>1, <3>1, <3>2, KnownQuiet
  <2>3. CASE IsDistributor(n)
    <3>1. PICK r \in Refs : r = Ref(n)
      BY NodeStateIs DEF Typed, Ref, Refs
    <3>2. inst'.mail = Append(inst.mail, Terminated(r)) /\ \A x \in Nodes \ {n} : node'[x] = node[x]
      BY <1>5, <2>3, <3>1, GoneIs
    <3>3. inst.mail \in Seq(InstMsgs) /\ Terminated(r) \in InstMsgs
      BY DEF Typed, InstMsgs
    <3>4. \A ref \in Refs : Has(inst'.mail, Terminated(ref)) => Has(inst.mail, Terminated(ref)) \/ ref = r
      <4>1. \A ref \in Refs : Has(inst'.mail, Terminated(ref)) <=>
              Has(inst.mail, Terminated(ref)) \/ Terminated(ref) = Terminated(r)
        BY <3>2, <3>3, HasAppend
      <4>2. \A ref \in Refs : Terminated(ref) = Terminated(r) => ref = r
        BY MsgKinds
      <4> QED
        BY <4>1, <4>2
    <3>5. r[1] = n /\ r[2] = node[n].born /\ node[n].born \in Nat
      BY <3>1, NodeStateIs DEF Ref, Typed
    <3>6. \A d \in Nodes : IsDistributor(d) /\ node'[d].state = "up" => <<d, node'[d].born>> \in inst'.instances
      BY <2>1, <3>2 DEF Known
    <3>7. ASSUME NEW ref \in Refs, Has(inst'.mail, Terminated(ref))
          PROVE  /\ ref[2] <= node'[ref[1]].born
                 /\ node'[ref[1]].state # "none" => ref[2] < node'[ref[1]].born
      <4>1. PICK x \in Nodes : x = ref[1]
        BY DEF Refs
      <4>2. CASE ref = r
        BY <2>1, <3>5, <4>2
      <4>3. CASE ref # r
        <5>1. ref[2] <= node[x].born /\ (node[x].state # "none" => ref[2] < node[x].born)
          BY <3>4, <3>7, <4>1, <4>3 DEF Known
        <5>2. node'[x].born = node[x].born /\ (node'[x].state # "none" => node[x].state # "none")
          BY <2>1, <3>2
        <5> QED
          BY <4>1, <5>1, <5>2
      <4> QED
        BY <4>2, <4>3
    <3> QED
      BY <3>6, <3>7 DEF Known
  <2> QED
    BY <2>2, <2>3
<1> QED
  BY <1>1, <1>2, <1>3, <1>4, <1>5, NodeStepIs

LEMMA KnownStep ==
  ASSUME Typed, Typed', Delivery, Order, Known, [Next]_vars
  PROVE  Known'
<1>0. inst.mail \in Seq(InstMsgs)
  BY DEF Typed
<1>1. ASSUME \A x \in Nodes : node'[x].state = node[x].state /\ node'[x].born = node[x].born
      PROVE  (\A x \in Nodes : Ages(x)) /\ \A d \in Nodes : ~(node'[d].state = "up" /\ node[d].state = "none")
  BY <1>1, AgesSame
<1>2. CASE UNCHANGED vars
  BY <1>1, <1>2, KnownQuiet DEF vars
<1>3. ASSUME NEW m \in InstMsgs, m.kind # "Terminated", inst'.mail = Append(inst.mail, m),
             inst'.instances = inst.instances, UNCHANGED node
      PROVE  Known'
  <2>1. \A ref \in Refs : Has(inst'.mail, Terminated(ref)) => Has(inst.mail, Terminated(ref))
    <3>1. \A ref \in Refs : Has(inst'.mail, Terminated(ref)) <=> Has(inst.mail, Terminated(ref)) \/ Terminated(ref) = m
      BY <1>0, <1>3, HasAppend
    <3> QED
      BY <1>3, <3>1, MsgKinds
  <2> QED
    BY <1>1, <1>3, <2>1, KnownKeeps
<1>4. ASSUME NEW t \in Tasks, Upload(t) PROVE Known'
  <2>1. AddTask(t) \in InstMsgs /\ AddTask(t).kind # "Terminated"
    BY MsgKinds DEF InstMsgs
  <2> QED
    BY <1>3, <1>4, <2>1, UploadIs
<1>5. ASSUME NEW ver \in Versions, Poll(ver) PROVE Known'
  <2>1. GetTaskOf(ver) \in InstMsgs /\ GetTaskOf(ver).kind # "Terminated"
    BY MsgKinds DEF InstMsgs
  <2> QED
    BY <1>3, <1>5, <2>1, PollIs
<1>6. ASSUME NEW t \in Tasks, TaskStep(t) PROVE Known'
  <2>1. UNCHANGED inst /\ \A x \in Nodes : node'[x].state = node[x].state /\ node'[x].born = node[x].born
    <3>1. CASE TaskTake(t) \/ TaskNotTaken(t) \/ TaskReset(t) \/ TaskEnds(t)
      BY <3>1, TaskMovesIs
    <3>2. CASE HandleSuccess(t)
      BY <3>2, HandleSuccessIs, SentState DEF Strikes
    <3>3. CASE HandleFailure(t)
      BY <3>3, HandleFailureIs, SentState DEF Strikes
    <3>4. CASE TaskSuicide(t)
      BY <3>4, TaskSuicideIs
    <3>5. CASE TaskGone(t)
      BY <3>5, TaskGoneIs, SentState
    <3> QED
      BY <1>6, <3>1, <3>2, <3>3, <3>4, <3>5 DEF TaskStep
  <2> QED
    BY <1>1, <2>1, KnownQuiet
<1>7. ASSUME InstStep PROVE Known'
  <2>0. ASSUME inst.mail # <<>>, inst'.mail = Tail(inst.mail)
        PROVE  \A ref \in Refs : Has(inst'.mail, Terminated(ref)) => Has(inst.mail, Terminated(ref))
    BY <1>0, <2>0, HasTail
  <2>1. CASE InstAddTask
    <3>1. PICK t \in Tasks, d \in Nodes : InstHandsOn(t, d)
      BY <2>1, InstAddTaskInOrder
    <3>2. /\ inst.mail # <<>> /\ inst'.mail = Tail(inst.mail) /\ inst.instances \subseteq inst'.instances
          /\ node[d].state = "none" => <<d, node[d].born + 1>> \in inst'.instances
          /\ Delivered(t, d) /\ node[d].state # "stopping" /\ \A x \in Nodes \ {d} : node'[x] = node[x]
      BY <3>1 DEF InstHandsOn
    <3>3. Ages(d) /\ \A x \in Nodes \ {d} : Ages(x)
      BY <3>2, AgesSame, AgesDelivered
    <3>4. node[d].state = "none" => <<d, node'[d].born>> \in inst'.instances
      BY <3>2 DEF Delivered
    <3> QED
      BY <2>0, <3>2, <3>3, <3>4, KnownKeeps
  <2>2. CASE InstGetTask
    <3>1. /\ inst.mail # <<>> /\ inst'.mail = Tail(inst.mail) /\ inst'.instances = inst.instances
          /\ \A x \in Nodes : node'[x].state = node[x].state /\ node'[x].born = node[x].born
      BY <2>2, InstGetTaskIs, SentState DEF InstDone
    <3> QED
      BY <1>1, <2>0, <3>1, KnownKeeps
  <2>3. CASE InstTerminated
    <3>1. UNCHANGED node /\ inst.mail # <<>> /\ inst'.mail = Tail(inst.mail)
      BY <2>3, InstTerminatedIs DEF InstDone
    <3>2. PICK ref \in Refs : Head(inst.mail) = Terminated(ref) /\ inst'.instances = inst.instances \ {ref}
      BY <2>3, InstTerminatedIs
    <3>3. Has(inst.mail, Terminated(ref))
      BY <1>0, <3>1, <3>2, HasTail
    <3> QED
      BY <1>1, <2>0, <3>1, <3>2, <3>3, KnownKeeps
  <2>4. CASE \E ver \in Versions : NoMoreTasks(ver)
    <3>1. UNCHANGED node /\ inst.mail # <<>> /\ inst'.mail = Tail(inst.mail) /\ inst'.instances = inst.instances
      BY <2>4, NoMoreTasksIs DEF InstDone
    <3> QED
      BY <1>1, <2>0, <3>1, KnownKeeps
  <2> QED
    BY <1>7, <2>1, <2>2, <2>3, <2>4 DEF InstStep
<1>8. ASSUME NEW n \in Nodes, NodeStep(n) PROVE Known'
  BY <1>8, KnownNodeStep
<1> QED
  BY <1>2, <1>4, <1>5, <1>6, <1>7, <1>8 DEF Next

-----------------------------------------------------------------------------
OrderInv == Typed /\ Delivery /\ Order /\ Levels /\ Found /\ Known

LEMMA OrderInvInit ==
  ASSUME Init
  PROVE  OrderInv
<1>1. Typed /\ Delivery /\ Order
  BY DeliveryInit, OrderInit
<1>2. inst.mail = <<>> /\ \A n \in Nodes : node[n].state = "none"
  BY DEF Init, Absent
<1>3. \A t \in Tasks : tsk[t].state = "new"
  BY DEF Init
<1>4. Levels
  BY <1>2, <1>3 DEF Levels, Lives
<1>5. Found
  BY <1>3 DEF Found
<1>6. Known
  BY <1>2, HasEmpty DEF Known
<1> QED
  BY <1>1, <1>4, <1>5, <1>6 DEF OrderInv

LEMMA OrderInvStep ==
  ASSUME Undisturbed = TRUE, OrderInv, [Next]_vars
  PROVE  OrderInv'
<1>1. Typed /\ Delivery /\ Order /\ Levels /\ Found /\ Known
  BY DEF OrderInv
<1>2. Typed' /\ Delivery'
  BY <1>1, DeliveryStep
<1>3. Order' /\ Levels' /\ Found'
  BY <1>1, OrderStep, LevelsStep, FoundStep
<1>4. Known'
  BY <1>1, <1>2, KnownStep
<1> QED
  BY <1>2, <1>3, <1>4 DEF OrderInv

\* A task without result has its Distributor, or is on its way to it.
LEMMA OpenHasDistributor ==
  ASSUME OrderInv, NEW t \in Tasks, end[t] = "NONE"
  PROVE  Waiting(t) \/ node[Distributor(RunOf[t])].state = "up"
<1>0. Typed /\ Delivery /\ Levels /\ Found
  BY DEF OrderInv
<1>1. PICK d \in Nodes : d = Distributor(RunOf[t])
  BY DistributorIs
<1>2. ASSUME NEW n \in Nodes, Below(n, t), node[n].state = "up" PROVE node[d].state = "up"
  <2>1. n = d \/ Over(d, n)
    BY <1>1, <1>2, UnderDistributor
  <2> QED
    BY <1>0, <1>2, <2>1 DEF Levels
<1>3. CASE tsk[t].state = "new"
  BY <1>3 DEF Waiting
<1>4. CASE tsk[t].state = "sent"
  <2>1. CASE Has(inst.mail, AddTask(t))
    BY <2>1 DEF Waiting
  <2>2. ASSUME NEW n \in Nodes, Has(node[n].mail, AddTask(t)) PROVE node[d].state = "up"
    <3>1. Below(n, t) /\ node[n].state = "up"
      BY <1>0, <2>2, HasEmpty DEF Delivery
    <3> QED
      BY <1>2, <3>1
  <2> QED
    BY <1>0, <1>1, <1>4, <2>1, <2>2 DEF Found, InMail
<1>5. CASE Lives(t)
  BY <1>0, <1>1, <1>2, <1>5, HomeIs DEF Levels
<1>6. tsk[t].state \notin {"lost", "gone"}
  BY <1>0 DEF Found
<1>7. tsk[t].state \in {"new", "sent", "lost", "up", "taken", "success", "failure", "stopping", "gone"}
  BY <1>0, TaskStateIs DEF Typed
<1> QED
  BY <1>3, <1>4, <1>5, <1>6, <1>7 DEF Lives

LEMMA StoppedWasPassed ==
  ASSUME OrderInv
  PROVE  RunDoneMeansProcessed
<1>1. SUFFICES ASSUME NEW t \in Tasks, node[Distributor(RunOf[t])].state = "stopping", end[t] = "NONE" PROVE FALSE
  BY DEF RunDoneMeansProcessed
<1>2. Waiting(t)
  BY <1>1, OpenHasDistributor
<1>3. PICK d \in Nodes : d = Distributor(RunOf[t]) /\ Below(d, t)
  BY DistributorIs
<1> QED
  BY <1>1, <1>2, <1>3, WayIsOpenAtTop DEF OrderInv, Order

(* If no VM asks for a task while a run is uploaded, a Distributor stops    *)
(* itself only when every task of its run has a result, in any tree         *)
(* (handleTermianted and getTask look at the children the Distributor has   *)
(* at that time, not at the tasks that are still to come).                  *)
THEOREM DistributorStopsWhenDone ==
  ASSUME Undisturbed = TRUE
  PROVE  Spec => []RunDoneMeansProcessed
<1>1. Init => OrderInv
  BY OrderInvInit
<1>2. OrderInv /\ [Next]_vars => OrderInv'
  BY OrderInvStep
<1>3. OrderInv => RunDoneMeansProcessed
  BY StoppedWasPassed
<1> QED
  BY <1>1, <1>2, <1>3, PTL DEF Spec

LEMMA NoMoreMeansDone ==
  ASSUME OrderInv, NEW ver \in Versions, NoMoreTasks(ver), NEW t \in Tasks, VersionOf[RunOf[t]] = ver, end[t] = "NONE"
  PROVE  OnTheWay(t)
<1>1. CASE Waiting(t)
  BY <1>1 DEF Waiting, OnTheWay, Has, Range
<1>2. CASE node[Distributor(RunOf[t])].state = "up"
  <2>1. PICK d \in Nodes : d = Distributor(RunOf[t]) /\ IsDistributor(d) /\ d[1] = RunOf[t]
    BY DistributorIs DEF IsDistributor, Distributor
  <2>2. <<d, node[d].born>> \in inst.instances
    BY <1>2, <2>1 DEF OrderInv, Known
  <2>3. <<d, node[d].born>> \in Matching(ver)
    BY <2>1, <2>2 DEF Matching
  <2> QED
    BY <2>3 DEF NoMoreTasks
<1> QED
  BY <1>1, <1>2, OpenHasDistributor

(* If no VM asks for a task while a run is uploaded, the InstanceActor      *)
(* answers NoMoreTasks only when every task of the version has a result or  *)
(* has not reached it yet: although a Distributor is created again under    *)
(* its old name, Terminated never takes a living one from the list.         *)
THEOREM NoVmIsSentAwayEarly ==
  ASSUME Undisturbed = TRUE
  PROVE  Spec => SentAwayOnlyWhenDone
<1>1. Init => OrderInv
  BY OrderInvInit
<1>2. OrderInv /\ [Next]_vars => OrderInv'
  BY OrderInvStep
<1>3. OrderInv => \A ver \in Versions : NoMoreTasks(ver) =>
        \A t \in Tasks : VersionOf[RunOf[t]] = ver => end[t] # "NONE" \/ OnTheWay(t)
  BY NoMoreMeansDone
<1> QED
  BY <1>1, <1>2, <1>3, PTL DEF Spec, SentAwayOnlyWhenDone

-----------------------------------------------------------------------------
(* Where a task is once its AddTask has passed a level *)

LEMMA Reach ==
  ASSUME OrderInv, NEW m \in Nodes, PassedUp(m), NEW t \in Tasks, Below(m, t), tsk[t].state # "gone"
  PROVE  /\ node[m].state = "up"
         /\ m # Home(t) => node[Toward(m, t)].state = "up"
         /\ m = Home(t) => Lives(t)
<1>0. Typed /\ Delivery /\ Levels /\ Found
  BY DEF OrderInv
<1>1. ~Waiting(t) /\ \A n \in Nodes : n = m \/ Over(n, m) => ~Has(node[n].mail, AddTask(t))
  BY DEF PassedUp, Passed
<1>2. ASSUME NEW n \in Nodes, Below(n, t), Over(m, n), node[n].state = "up"
      PROVE  node[m].state = "up" /\ node[Toward(m, t)].state = "up" /\ m # Home(t)
  <2>1. Home(t) # m /\ (Toward(m, t) = n \/ Over(Toward(m, t), n))
    BY <1>2, TowardOver
  <2>2. Toward(m, t) \in Nodes
    BY <2>1, TowardIs
  <2> QED
    BY <1>0, <1>2, <2>1, <2>2 DEF Levels
<1>3. CASE Lives(t)
  <2>1. Home(t) \in Nodes /\ Below(Home(t), t) /\ node[Home(t)].state = "up"
    BY <1>0, <1>3, HomeIs DEF Levels
  <2>2. m = Home(t) \/ Over(m, Home(t))
    BY BelowHome
  <2> QED
    BY <1>2, <1>3, <2>1, <2>2
<1>4. CASE tsk[t].state = "sent"
  <2>1. PICK n \in Nodes : Has(node[n].mail, AddTask(t))
    BY <1>0, <1>1, <1>4 DEF Found, InMail, Waiting
  <2>2. Below(n, t) /\ node[n].state = "up"
    BY <1>0, <2>1, HasEmpty DEF Delivery
  <2>3. Over(m, n)
    BY <1>1, <2>1, <2>2, Comparable
  <2> QED
    BY <1>2, <2>2, <2>3
<1>5. tsk[t].state \in {"new", "sent", "lost", "up", "taken", "success", "failure", "stopping", "gone"}
  BY <1>0, TaskStateIs DEF Typed
<1>6. tsk[t].state # "new" /\ tsk[t].state # "lost"
  BY <1>0, <1>1 DEF Waiting, Found
<1> QED
  BY <1>3, <1>4, <1>5, <1>6 DEF Lives

-----------------------------------------------------------------------------
(* PersistAndSuicide before GetTask *)

Guarded(mail) ==
  \A i \in DOMAIN mail : mail[i] = GetTask => \E j \in DOMAIN mail : j < i /\ mail[j] = PersistAndSuicide

LEMMA GuardedEmpty == Guarded(<<>>)
  BY DEF Guarded

LEMMA GuardedTail ==
  ASSUME NEW mail \in Seq(NodeMsgs), mail # <<>>
  PROVE  /\ Guarded(mail) => Head(mail) # GetTask
         /\ Guarded(mail) /\ Head(mail) # PersistAndSuicide => Guarded(Tail(mail))
<1>1. /\ Tail(mail) \in Seq(NodeMsgs) /\ Len(mail) \in Nat \ {0}
      /\ DOMAIN mail = 1 .. Len(mail) /\ DOMAIN Tail(mail) = 1 .. Len(mail) - 1
      /\ \A i \in 1 .. Len(mail) - 1 : Tail(mail)[i] = mail[i + 1] /\ i + 1 \in 1 .. Len(mail)
      /\ Head(mail) = mail[1] /\ 1 \in 1 .. Len(mail)
  OBVIOUS
<1>2. ASSUME Guarded(mail), Head(mail) = GetTask PROVE FALSE
  BY <1>1, <1>2 DEF Guarded
<1>3. ASSUME Guarded(mail), Head(mail) # PersistAndSuicide PROVE Guarded(Tail(mail))
  <2>1. SUFFICES ASSUME NEW i \in 1 .. Len(mail) - 1, Tail(mail)[i] = GetTask
                 PROVE  \E j \in 1 .. Len(mail) - 1 : j < i /\ Tail(mail)[j] = PersistAndSuicide
    BY <1>1 DEF Guarded
  <2>2. PICK j \in 1 .. Len(mail) : j < i + 1 /\ mail[j] = PersistAndSuicide
    BY <1>1, <1>3, <2>1 DEF Guarded
  <2>3. j # 1
    BY <1>1, <1>3, <2>2
  <2>4. j - 1 \in 1 .. Len(mail) - 1 /\ j - 1 < i /\ (j - 1) + 1 = j
    BY <1>1, <2>2, <2>3
  <2>5. Tail(mail)[j - 1] = mail[(j - 1) + 1]
    BY <1>1, <2>4
  <2> QED
    BY <2>2, <2>4, <2>5
<1> QED
  BY <1>2, <1>3

LEMMA GuardedAppend ==
  ASSUME NEW mail \in Seq(NodeMsgs), NEW m \in NodeMsgs, Guarded(mail), m = GetTask => Has(mail, PersistAndSuicide)
  PROVE  Guarded(Append(mail, m))
<1>1. PICK q : q = Append(mail, m)
  OBVIOUS
<1>2. /\ Len(mail) \in Nat /\ DOMAIN mail = 1 .. Len(mail) /\ DOMAIN q = 1 .. Len(mail) + 1
      /\ \A i \in 1 .. Len(mail) : q[i] = mail[i]
      /\ q[Len(mail) + 1] = m
  BY <1>1
<1>3. SUFFICES ASSUME NEW i \in 1 .. Len(mail) + 1, q[i] = GetTask
               PROVE  \E j \in 1 .. Len(mail) + 1 : j < i /\ q[j] = PersistAndSuicide
  BY <1>1, <1>2 DEF Guarded
<1>4. CASE i \in 1 .. Len(mail)
  <2>1. PICK j \in 1 .. Len(mail) : j < i /\ mail[j] = PersistAndSuicide
    BY <1>2, <1>3, <1>4 DEF Guarded
  <2> QED
    BY <1>2, <2>1
<1>5. CASE i = Len(mail) + 1
  <2>1. PICK j \in 1 .. Len(mail) : mail[j] = PersistAndSuicide
    BY <1>2, <1>3, <1>5 DEF Has
  <2> QED
    BY <1>2, <1>5, <2>1
<1> QED
  BY <1>2, <1>4, <1>5

-----------------------------------------------------------------------------
(* A task below one that has not succeeded is not offered *)

Safe(t) == tsk[t].suicide \/ tsk[t].state \in {"stopping", "gone"}

\* t is to give up, or a PersistAndSuicide comes to it from below n.
Doomed(n, t) ==
  Safe(t) \/ \E m \in Nodes : Over(n, m) /\ Below(m, t) /\ Has(node[m].mail, PersistAndSuicide)

Asked(t) == tsk[t].offered \/ tsk[t].state \in {"taken", "success", "failure"}

\* u is no longer in the list of its group.
Struck(u) == tsk[u].state \notin {"new", "sent", "lost"} /\ u \notin node[Home(u)].tasks

Deps ==
  /\ \A t, u \in Tasks : Over(Home(u), Home(t)) /\ Asked(t) => end[u] = "SUCCESS"
  /\ \A n \in Nodes, t, u \in Tasks :
       Below(n, t) /\ Over(Home(u), n) /\ end[u] # "SUCCESS" => Doomed(n, t) \/ Guarded(node[n].mail)
  /\ \A t, u \in Tasks :
       Over(Home(u), Home(t)) /\ Struck(u) /\ end[u] # "SUCCESS" => Doomed(Home(u), t)

\* What waits for a task that has not succeeded.
Open(t) == \E u \in Tasks : Over(Home(u), Home(t)) /\ end[u] # "SUCCESS"

LEMMA OpenBelow ==
  ASSUME NEW n \in Nodes, NEW t \in Tasks, NEW u \in Tasks, Below(n, t), Over(Home(u), n)
  PROVE  Over(Home(u), Home(t))
<1>1. Home(t) \in Nodes /\ Home(u) \in Nodes /\ (n = Home(t) \/ Over(n, Home(t)))
  BY HomeIs, BelowHome
<1> QED
  BY <1>1, OverTrans

LEMMA DepsKeeps ==
  ASSUME Deps, \A u \in Tasks : end[u] = "SUCCESS" => end'[u] = "SUCCESS",
         \A n \in Nodes, t \in Tasks : Open(t) /\ Doomed(n, t) => Doomed(n, t)',
         \A n \in Nodes, t, u \in Tasks :
           Below(n, t) /\ Over(Home(u), n) /\ end[u] # "SUCCESS" /\ Guarded(node[n].mail) =>
             Doomed(n, t)' \/ Guarded(node'[n].mail),
         \A t \in Tasks : Asked(t)' => Asked(t) \/ ~Open(t),
         \A t, u \in Tasks :
           Over(Home(u), Home(t)) /\ Struck(u)' /\ ~Struck(u) /\ end'[u] # "SUCCESS" => Doomed(Home(u), t)'
  PROVE  Deps'
<1>1. ASSUME NEW t \in Tasks, NEW u \in Tasks, Over(Home(u), Home(t)), Asked(t)' PROVE end'[u] = "SUCCESS"
  BY <1>1 DEF Deps, Open
<1>2. ASSUME NEW n \in Nodes, NEW t \in Tasks, NEW u \in Tasks, Below(n, t), Over(Home(u), n), end'[u] # "SUCCESS"
      PROVE  Doomed(n, t)' \/ Guarded(node'[n].mail)
  <2>1. end[u] # "SUCCESS" /\ Open(t)
    BY <1>2, OpenBelow DEF Open
  <2> QED
    BY <1>2, <2>1 DEF Deps
<1>3. ASSUME NEW t \in Tasks, NEW u \in Tasks, Over(Home(u), Home(t)), Struck(u)', end'[u] # "SUCCESS"
      PROVE  Doomed(Home(u), t)'
  <2>1. end[u] # "SUCCESS" /\ Open(t) /\ Home(u) \in Nodes
    BY <1>3, HomeIs DEF Open
  <2> QED
    BY <1>3, <2>1 DEF Deps
<1> QED
  BY <1>1, <1>2, <1>3 DEF Deps

LEMMA SafeStep ==
  ASSUME Typed, Delivery, Order, [Next]_vars
  PROVE  \A t \in Tasks : Safe(t) => Safe(t)'
<1> DEFINE Goal == \A t \in Tasks : Safe(t) => Safe(t)'
<1>0. ASSUME \A u \in Tasks : tsk'[u].state = tsk[u].state /\ (tsk[u].suicide => tsk'[u].suicide) PROVE Goal
  BY <1>0 DEF Safe
<1>1. ASSUME NEW t \in Tasks, NEW s, TaskTo(t, s), s \in {"stopping", "gone"} \/ tsk[t].state \notin {"stopping", "gone"}
      PROVE  Goal
  BY <1>1 DEF Safe, TaskTo
<1>2. CASE UNCHANGED vars
  BY <1>0, <1>2 DEF vars
<1>3. ASSUME NEW t \in Tasks, Upload(t) PROVE Goal
  BY <1>1, <1>3, UploadIs
<1>4. ASSUME NEW t \in Tasks, TaskStep(t) PROVE Goal
  <2>1. CASE TaskTake(t) \/ TaskNotTaken(t) \/ TaskReset(t) \/ TaskEnds(t)
    BY <1>1, <2>1, TaskMovesIs
  <2>2. CASE HandleSuccess(t) \/ TaskSuicide(t) \/ TaskGone(t)
    BY <1>1, <2>2, HandleSuccessIs, TaskSuicideIs, TaskGoneIs
  <2>3. CASE HandleFailure(t)
    <3>1. /\ tsk'[t].state = "stopping"
          /\ \A u \in Tasks \ {t} : tsk'[u] = Advised(TaskChildren(Home(t)))[u]
      BY <2>3, HandleFailureIs
    <3>2. \A u \in Tasks \ {t} : tsk'[u].state = tsk[u].state /\ (tsk[u].suicide => tsk'[u].suicide)
      BY <3>1, AdvisedIs
    <3> QED
      BY <3>1, <3>2 DEF Safe
  <2> QED
    BY <1>4, <2>1, <2>2, <2>3 DEF TaskStep
<1>5. ASSUME NEW ver \in Versions, Poll(ver) PROVE Goal
  BY <1>0, <1>5, PollIs
<1>6. ASSUME InstStep PROVE Goal
  <2>1. CASE InstAddTask
    BY <1>0, <2>1, InstAddTaskInOrder DEF InstHandsOn
  <2>2. CASE InstGetTask \/ InstTerminated \/ \E ver \in Versions : NoMoreTasks(ver)
    BY <1>0, <2>2, InstGetTaskIs, InstTerminatedIs, NoMoreTasksIs
  <2> QED
    BY <1>6, <2>1, <2>2 DEF InstStep
<1>7. ASSUME NEW n \in Nodes, NodeStep(n) PROVE Goal
  <2>1. CASE Halts(n) \/ HandsOn(n)
    BY <1>0, <2>1 DEF Halts, HandsOn
  <2>2. CASE Relays(n)
    BY <1>0, <2>2 DEF Relays
  <2>3. CASE TakesIn(n)
    <3>1. PICK t \in Tasks : Arrives(n, t)
      BY <2>3 DEF TakesIn
    <3>2. tsk[t].state = "sent"
      BY <3>1, HeadIsSent DEF Arrives, Done
    <3> QED
      BY <3>1, <3>2 DEF Arrives, Safe
  <2>4. CASE Gone(n)
    BY <1>0, <2>4, GoneIs
  <2> QED
    BY <1>7, <2>1, <2>2, <2>3, <2>4, NodeStepIs
<1> QED
  BY <1>2, <1>3, <1>4, <1>5, <1>6, <1>7 DEF Next

-----------------------------------------------------------------------------
(* Mailboxes that keep their PersistAndSuicides and get no GetTask *)

Steady(x) ==
  /\ Has(node[x].mail, PersistAndSuicide) => Has(node'[x].mail, PersistAndSuicide)
  /\ Guarded(node[x].mail) => Guarded(node'[x].mail)

LEMMA SteadySame ==
  ASSUME NEW x, node'[x].mail = node[x].mail
  PROVE  Steady(x)
  BY DEF Steady

LEMMA SteadyAppend ==
  ASSUME Typed, NEW x \in Nodes, NEW m \in NodeMsgs, node'[x].mail = Append(node[x].mail, m)
  PROVE  /\ Has(node[x].mail, PersistAndSuicide) => Has(node'[x].mail, PersistAndSuicide)
         /\ m = PersistAndSuicide => Has(node'[x].mail, PersistAndSuicide)
         /\ m # GetTask \/ Has(node[x].mail, PersistAndSuicide) => Steady(x)
<1>1. node[x].mail \in Seq(NodeMsgs)
  BY NodeStateIs DEF Typed
<1>2. Has(node'[x].mail, PersistAndSuicide) <=> Has(node[x].mail, PersistAndSuicide) \/ PersistAndSuicide = m
  BY <1>1, HasAppend
<1>3. m # GetTask \/ Has(node[x].mail, PersistAndSuicide) => (Guarded(node[x].mail) => Guarded(node'[x].mail))
  BY <1>1, GuardedAppend
<1> QED
  BY <1>2, <1>3 DEF Steady

LEMMA SteadySent ==
  ASSUME Typed, NEW x \in Nodes, NEW to, NEW m \in NodeMsgs, Sent(x, to, m)
  PROVE  /\ Has(node[x].mail, PersistAndSuicide) => Has(node'[x].mail, PersistAndSuicide)
         /\ m = PersistAndSuicide /\ x \in to /\ node[x].state = "up" => Has(node'[x].mail, PersistAndSuicide)
         /\ m # GetTask \/ x \notin to \/ Has(node[x].mail, PersistAndSuicide) => Steady(x)
<1>1. CASE x \in to /\ node[x].state = "up"
  <2>1. node'[x].mail = Append(node[x].mail, m)
    BY <1>1 DEF Sent
  <2> QED
    BY <1>1, <2>1, SteadyAppend
<1>2. CASE ~(x \in to /\ node[x].state = "up")
  BY <1>2, SteadySame DEF Sent
<1> QED
  BY <1>1, <1>2

LEMMA SteadyDone ==
  ASSUME Typed, NEW n \in Nodes, Done(n), Head(node[n].mail) # PersistAndSuicide
  PROVE  Steady(n)
<1>1. node[n].mail \in Seq(NodeMsgs) /\ node[n].mail # <<>> /\ node'[n].mail = Tail(node[n].mail)
  BY NodeStateIs DEF Typed, Done
<1>2. Has(node[n].mail, PersistAndSuicide) => Has(node'[n].mail, PersistAndSuicide)
  BY <1>1, HasTail
<1>3. Guarded(node[n].mail) => Guarded(node'[n].mail)
  BY <1>1, GuardedTail
<1> QED
  BY <1>2, <1>3 DEF Steady

LEMMA SteadyDelivered ==
  ASSUME Typed, NEW c \in Nodes, NEW t \in Tasks, Delivered(t, c), node[c].state # "stopping"
  PROVE  Steady(c)
<1>1. node'[c].mail = Append(node[c].mail, AddTask(t))
  BY DEF Delivered
<1>2. AddTask(t) \in NodeMsgs /\ AddTask(t) # GetTask
  <2>1. AddTask(t).kind = "AddTask" /\ GetTask.kind = "GetTask"
    BY MsgKinds
  <2> QED
    BY <2>1, NodeMsgKinds
<1> QED
  BY <1>1, <1>2, SteadyAppend

LEMMA DoomStays ==
  ASSUME \A t \in Tasks : Safe(t) => Safe(t)', NEW n \in Nodes, NEW t \in Tasks, Doomed(n, t),
         \A m \in Nodes : Over(n, m) /\ Below(m, t) /\ Has(node[m].mail, PersistAndSuicide) =>
           Has(node'[m].mail, PersistAndSuicide) \/ Doomed(m, t)'
  PROVE  Doomed(n, t)'
<1>1. CASE Safe(t)
  BY <1>1 DEF Doomed
<1>2. ASSUME NEW m \in Nodes, Over(n, m), Below(m, t), Has(node[m].mail, PersistAndSuicide) PROVE Doomed(n, t)'
  <2>1. CASE Has(node'[m].mail, PersistAndSuicide)
    BY <1>2, <2>1 DEF Doomed
  <2>2. CASE Doomed(m, t)'
    BY <1>2, <2>2, OverTrans DEF Doomed
  <2> QED
    BY <1>2, <2>1, <2>2
<1> QED
  BY <1>1, <1>2 DEF Doomed

LEMMA StruckSame ==
  ASSUME NEW u \in Tasks, tsk[u].state \in {"new", "sent", "lost"} => tsk'[u].state \in {"new", "sent", "lost"},
         node[Home(u)].tasks \subseteq node'[Home(u)].tasks
  PROVE  Struck(u)' => Struck(u)
  BY DEF Struck

SuccessStays == \A u \in Tasks : end[u] = "SUCCESS" => end'[u] = "SUCCESS"

LEMMA DepsSteady ==
  ASSUME Deps, SuccessStays, \A t \in Tasks : Safe(t) => Safe(t)', \A x \in Nodes : Steady(x),
         \A t \in Tasks : Asked(t)' => Asked(t),
         \A t, u \in Tasks :
           Over(Home(u), Home(t)) /\ Struck(u)' /\ ~Struck(u) /\ end'[u] # "SUCCESS" => Doomed(Home(u), t)'
  PROVE  Deps'
<1>1. \A n \in Nodes, t \in Tasks : Doomed(n, t) => Doomed(n, t)'
  BY DoomStays DEF Steady
<1>2. \A n \in Nodes : Guarded(node[n].mail) => Guarded(node'[n].mail)
  BY DEF Steady
<1> QED
  BY <1>1, <1>2, DepsKeeps DEF SuccessStays

-----------------------------------------------------------------------------
(* The messages that matter: PersistAndSuicide, GetTask, an actor that stops *)

\* The child of n on the way to t.
LEMMA OnTheWayIs ==
  ASSUME NEW n \in Nodes, NEW c \in Nodes, NEW t \in Tasks, ~IsDistributor(c), Above(c) = n, Below(c, t)
  PROVE  /\ Toward(n, t) = c /\ Below(n, t) /\ Home(t) # n /\ Over(n, c)
         /\ \A m \in Nodes : Over(n, m) /\ Below(m, t) => m = c \/ Over(c, m)
<1>1. Over(n, c)
  BY AboveIs
<1>2. Below(n, t) /\ Home(t) # n
  BY <1>1, TowardOver
<1>3. \A m \in Nodes : Over(n, m) => ~Over(m, c)
  BY OverAbove, OverAsym
<1>4. \A m \in Nodes : Over(n, m) /\ Below(m, t) => m = c \/ Over(c, m)
  BY <1>3, Comparable
<1>5. PICK d \in Nodes : d = Toward(n, t) /\ ~IsDistributor(d) /\ Above(d) = n /\ Below(d, t)
  BY <1>2, TowardIs
<1>6. Over(n, d) /\ ~Over(c, d)
  BY <1>1, <1>5, AboveIs, OverAbove, OverAsym
<1> QED
  BY <1>1, <1>2, <1>4, <1>5, <1>6

\* PersistAndSuicide goes to all that is below.
LEMMA SuicideDooms ==
  ASSUME OrderInv, Deps, [Next]_vars, NEW n \in Nodes, SubPersistAndSuicide(n), NEW t \in Tasks, Below(n, t), Open(t)
  PROVE  Doomed(n, t)'
<1>0. Typed /\ Delivery /\ Order
  BY DEF OrderInv
<1>1. /\ tsk' = Advised(TaskChildren(n)) /\ Forwards(n, SubNodes(n), PersistAndSuicide)
      /\ node[n].mail # <<>> /\ Head(node[n].mail).kind # "AddTask"
  BY <1>0, SubPersistAndSuicideIs DEF Forwards, Done
<1>2. PassedUp(n)
  BY <1>0, <1>1, HeadOther DEF Order
<1>3. \A u \in Tasks : Safe(u) => Safe(u)'
  BY <1>0, SafeStep
<1>4. CASE Safe(t)
  BY <1>3, <1>4 DEF Doomed
<1>5. CASE ~Safe(t) /\ n = Home(t)
  <2>1. Lives(t)
    BY <1>2, <1>5, Reach DEF Safe
  <2>2. ~Asked(t)
    BY DEF Open, Deps
  <2>3. t \in TaskChildren(n) /\ Handles(t)
    BY <1>5, <2>1, <2>2 DEF TaskChildren, Lives, Handles, Safe, Asked
  <2>4. tsk'[t].suicide
    BY <1>0, <1>1, <2>3, AdvisedIs
  <2> QED
    BY <2>4 DEF Doomed, Safe
<1>6. CASE ~Safe(t) /\ n # Home(t)
  <2>1. PICK c \in Nodes : c = Toward(n, t) /\ ~IsDistributor(c) /\ Above(c) = n /\ Below(c, t)
    BY <1>6, TowardIs
  <2>2. node[c].state = "up"
    BY <1>2, <1>6, <2>1, Reach DEF Safe
  <2>3. c \in SubNodes(n) /\ Over(n, c) /\ c # n
    BY <2>1, <2>2, AboveIs, OverAsym DEF SubNodes
  <2>4. Has(node'[c].mail, PersistAndSuicide)
    BY <1>0, <1>1, <2>2, <2>3, SteadySent, NodeMsgKinds DEF Forwards
  <2> QED
    BY <2>1, <2>3, <2>4 DEF Doomed
<1> QED
  BY <1>4, <1>5, <1>6

LEMMA DepsSuicide ==
  ASSUME OrderInv, Deps, SuccessStays, [Next]_vars, NEW n \in Nodes, SubPersistAndSuicide(n)
  PROVE  Deps'
<1>0. Typed /\ Delivery /\ Order
  BY DEF OrderInv
<1>1. /\ tsk' = Advised(TaskChildren(n)) /\ Forwards(n, SubNodes(n), PersistAndSuicide) /\ UNCHANGED end
  BY <1>0, SubPersistAndSuicideIs
<1>2. \A u \in Tasks : Safe(u) => Safe(u)'
  BY <1>0, SafeStep
<1>3. \A x \in Nodes \ {n} : Steady(x)
  <2>1. PersistAndSuicide # GetTask
    BY NodeMsgKinds
  <2> QED
    BY <1>0, <1>1, <2>1, SteadySent, NodeMsgKinds DEF Forwards
<1>4. \A t \in Tasks : Below(n, t) /\ Open(t) => Doomed(n, t)'
  BY SuicideDooms
<1>5. ASSUME NEW m \in Nodes, NEW t \in Tasks, Open(t), Doomed(m, t) PROVE Doomed(m, t)'
  BY <1>2, <1>3, <1>4, <1>5, DoomStays DEF Steady
<1>6. ASSUME NEW m \in Nodes, NEW t \in Tasks, NEW u \in Tasks, Below(m, t), Over(Home(u), m), end[u] # "SUCCESS",
             Guarded(node[m].mail)
      PROVE  Doomed(m, t)' \/ Guarded(node'[m].mail)
  <2>1. Open(t)
    BY <1>6, OpenBelow DEF Open
  <2> QED
    BY <1>3, <1>4, <1>6, <2>1 DEF Steady
<1>7. \A t \in Tasks : tsk'[t].state = tsk[t].state /\ tsk'[t].offered = tsk[t].offered
  BY <1>0, <1>1, AdvisedIs
<1>8. \A t \in Tasks : Asked(t)' => Asked(t)
  BY <1>7 DEF Asked
<1>9. ASSUME NEW t \in Tasks, NEW u \in Tasks, Over(Home(u), Home(t)), Struck(u)', ~Struck(u), end'[u] # "SUCCESS"
      PROVE  Doomed(Home(u), t)'
  <2>1. Home(u) = n
    <3>1. SUFFICES ASSUME Home(u) # n PROVE FALSE
      OBVIOUS
    <3>2. Home(u) \in Nodes \ {n}
      BY <3>1, HomeIs
    <3>3. node'[Home(u)].tasks = node[Home(u)].tasks
      BY <1>1, <3>2 DEF Forwards, Sent
    <3> QED
      BY <1>7, <1>9, <3>3, StruckSame
  <2>2. Open(t) /\ Below(n, t)
    BY <1>1, <1>9, <2>1, BelowHome DEF Open
  <2> QED
    BY <1>4, <2>1, <2>2
<1> QED
  BY <1>5, <1>6, <1>8, <1>9, DepsKeeps DEF SuccessStays

LEMMA DepsStops ==
  ASSUME OrderInv, Deps, SuccessStays, [Next]_vars, NEW n \in Nodes, Halts(n)
  PROVE  Deps'
<1>0. Typed /\ Delivery /\ Order /\ Levels
  BY DEF OrderInv
<1>1. /\ Stops(n) /\ UNCHANGED <<tsk, end>> /\ node'[n].mail = <<>> /\ node'[n].tasks = node[n].tasks
      /\ node[n].mail # <<>> /\ Head(node[n].mail).kind # "AddTask" /\ NoChildren(n)
      /\ \A x \in Nodes \ {n} : node'[x] = node[x]
  BY DEF Halts, Stops
<1>2. PassedUp(n)
  BY <1>0, <1>1, HeadOther DEF Order
<1>3. ASSUME NEW t \in Tasks, Below(n, t) PROVE tsk[t].state = "gone"
  <2>1. SUFFICES ASSUME tsk[t].state # "gone" PROVE FALSE
    OBVIOUS
  <2>2. CASE n = Home(t)
    BY <1>0, <1>1, <1>2, <1>3, <2>1, <2>2, Reach, StopsAlone
  <2>3. CASE n # Home(t)
    <3>1. PICK c \in Nodes : c = Toward(n, t) /\ ~IsDistributor(c) /\ Above(c) = n
      BY <1>3, <2>3, TowardIs
    <3>2. Over(n, c)
      BY <3>1, AboveIs
    <3>3. node[c].state = "up"
      BY <1>2, <1>3, <2>1, <2>3, <3>1, Reach
    <3> QED
      BY <1>0, <1>1, <3>2, <3>3, StopsAlone
  <2> QED
    BY <2>2, <2>3
<1>4. \A u \in Tasks : Safe(u) => Safe(u)'
  BY <1>0, SafeStep
<1>5. \A t \in Tasks : Below(n, t) => Doomed(n, t)'
  BY <1>1, <1>3 DEF Doomed, Safe
<1>6. ASSUME NEW m \in Nodes, NEW t \in Tasks, Doomed(m, t) PROVE Doomed(m, t)'
  BY <1>1, <1>4, <1>5, <1>6, DoomStays
<1>7. \A m \in Nodes : Guarded(node[m].mail) => Guarded(node'[m].mail)
  BY <1>1, GuardedEmpty
<1>8. \A t \in Tasks : Asked(t)' => Asked(t)
  BY <1>1 DEF Asked
<1>9. \A u \in Tasks : Struck(u)' => Struck(u)
  BY <1>1, StruckSame, HomeIs
<1> QED
  BY <1>6, <1>7, <1>8, <1>9, DepsKeeps DEF SuccessStays

\* GetTask reaches TaskActors only when nothing above them is open.
LEMMA OfferedIsFree ==
  ASSUME OrderInv, Deps, NEW n \in Nodes, node[n].mail # <<>>, Head(node[n].mail) = GetTask,
         NEW t \in Tasks, Home(t) = n, Handles(t)
  PROVE  ~Open(t)
<1>1. SUFFICES ASSUME NEW u \in Tasks, Over(Home(u), n), end[u] # "SUCCESS" PROVE FALSE
  BY DEF Open
<1>2. node[n].mail \in Seq(NodeMsgs)
  BY NodeStateIs DEF OrderInv, Typed
<1>3. ~Guarded(node[n].mail)
  BY <1>2, GuardedTail
<1>4. Below(n, t)
  BY HomeIs
<1>5. Doomed(n, t)
  BY <1>1, <1>3, <1>4 DEF Deps
<1>6. ~Safe(t)
  BY DEF Safe, Handles
<1>7. PICK m \in Nodes : Over(n, m) /\ Below(m, t)
  BY <1>5, <1>6 DEF Doomed
<1>8. m = n \/ Over(m, n)
  BY <1>7, BelowHome
<1> QED
  BY <1>7, <1>8, OverAsym

\* GetTask goes down when the list is empty: what is below n is doomed or free.
LEMMA GetTaskGoesDown ==
  ASSUME OrderInv, Deps, NEW n \in Nodes, ~IsDistributor(n), node[n].mail # <<>>, Head(node[n].mail) = GetTask,
         node[n].tasks = {}, NEW c \in Nodes, ~IsDistributor(c), Above(c) = n, NEW t \in Tasks, Below(c, t),
         NEW u \in Tasks, Over(Home(u), c), end[u] # "SUCCESS"
  PROVE  Doomed(c, t) \/ Has(node[c].mail, PersistAndSuicide)
<1>0. Typed /\ Delivery /\ Order /\ Found
  BY DEF OrderInv
<1>1. Below(n, t) /\ \A m \in Nodes : Over(n, m) /\ Below(m, t) => m = c \/ Over(c, m)
  BY OnTheWayIs
<1>2. Home(u) = n \/ Over(Home(u), n)
  BY OverAbove, HomeIs
<1>3. Doomed(n, t)
  <2>1. CASE Over(Home(u), n)
    <3>1. node[n].mail \in Seq(NodeMsgs)
      BY <1>0, NodeStateIs DEF Typed
    <3>2. ~Guarded(node[n].mail)
      BY <3>1, GuardedTail
    <3> QED
      BY <1>1, <2>1, <3>2 DEF Deps
  <2>2. CASE Home(u) = n
    <3>1. PassedUp(n)
      BY <1>0, HeadOther, NodeMsgKinds DEF Order
    <3>2. tsk[u].state = "gone" \/ Lives(u)
      BY <2>2, <3>1, Reach, HomeIs
    <3>3. Struck(u)
      BY <2>2, <3>2 DEF Struck, Lives
    <3>4. Over(Home(u), Home(t))
      BY OpenBelow
    <3> QED
      BY <2>2, <3>3, <3>4 DEF Deps
  <2> QED
    BY <1>2, <2>1, <2>2
<1> QED
  BY <1>1, <1>3 DEF Doomed

\* A step in which GetTask is sent, and nothing else changes a mailbox.
LEMMA DepsGetTask ==
  ASSUME OrderInv, Deps, SuccessStays, [Next]_vars, NEW to, NEW from, UNCHANGED end,
         \A x \in Nodes : Sent(x, to, GetTask) \/ (Steady(x) /\ x = from /\ node'[x].tasks = node[x].tasks),
         \A x \in Nodes, t, u \in Tasks :
           x \in to /\ Below(x, t) /\ Over(Home(u), x) /\ end[u] # "SUCCESS" =>
             Doomed(x, t) \/ Has(node[x].mail, PersistAndSuicide),
         \A t \in Tasks : tsk'[t].state = tsk[t].state,
         \A t \in Tasks : Asked(t)' => Asked(t) \/ ~Open(t)
  PROVE  Deps'
<1>0. Typed /\ Delivery /\ Order
  BY DEF OrderInv
<1>1. \A u \in Tasks : Safe(u) => Safe(u)'
  BY <1>0, SafeStep
<1>2. \A x \in Nodes : Has(node[x].mail, PersistAndSuicide) => Has(node'[x].mail, PersistAndSuicide)
  BY <1>0, SteadySent, NodeMsgKinds DEF Steady
<1>3. \A m \in Nodes, t \in Tasks : Doomed(m, t) => Doomed(m, t)'
  BY <1>1, <1>2, DoomStays
<1>4. ASSUME NEW x \in Nodes, NEW t \in Tasks, NEW u \in Tasks, Below(x, t), Over(Home(u), x), end[u] # "SUCCESS",
             Guarded(node[x].mail)
      PROVE  Doomed(x, t)' \/ Guarded(node'[x].mail)
  <2>1. CASE Steady(x)
    BY <1>4, <2>1 DEF Steady
  <2>2. CASE Sent(x, to, GetTask)
    <3>1. x \in to => Doomed(x, t) \/ Has(node[x].mail, PersistAndSuicide)
      BY <1>4
    <3>2. x \notin to \/ Has(node[x].mail, PersistAndSuicide) => Steady(x)
      BY <1>0, <2>2, SteadySent, NodeMsgKinds
    <3> QED
      BY <1>3, <1>4, <3>1, <3>2 DEF Steady
  <2> QED
    BY <2>1, <2>2
<1>5. \A u \in Tasks : Struck(u)' => Struck(u)
  <2>1. \A x \in Nodes : node'[x].tasks = node[x].tasks
    BY DEF Sent
  <2> QED
    BY <2>1, StruckSame, HomeIs
<1> QED
  BY <1>3, <1>4, <1>5, DepsKeeps DEF SuccessStays

\* AddTask finds no task of its group that has gone.
LEMMA CreatedNotStruck ==
  ASSUME OrderInv, \A t \in Tasks : Safe(t) => Safe(t)', NEW t \in Tasks, NEW u \in Tasks, Over(Home(u), Home(t)),
         node[Home(u)].state # "up", tsk[u].state \notin {"new", "sent", "lost"}
  PROVE  Doomed(Home(u), t)'
<1>0. Order /\ Levels /\ Typed
  BY DEF OrderInv
<1>1. ~Lives(u)
  BY <1>0 DEF Levels
<1>2. tsk[u].state = "gone"
  <2>1. tsk[u].state \in {"new", "sent", "lost", "up", "taken", "success", "failure", "stopping", "gone"}
    BY <1>0, TaskStateIs DEF Typed
  <2> QED
    BY <1>1, <2>1 DEF Lives
<1>3. Home(u) \in Nodes /\ PassedUp(Home(u)) /\ Below(Home(u), t)
  BY <1>0, <1>2, HomeIs, BelowHome DEF Order, TaskOrder, Touched
<1>4. tsk[t].state = "gone"
  BY <1>3, Reach
<1> QED
  BY <1>4 DEF Doomed, Safe

LEMMA DepsTaskStep ==
  ASSUME OrderInv, Deps, SuccessStays, [Next]_vars, NEW t \in Tasks, TaskStep(t)
  PROVE  Deps'
<1>0. Typed /\ Delivery /\ Order
  BY DEF OrderInv
<1>1. \A u \in Tasks : Safe(u) => Safe(u)'
  BY <1>0, SafeStep
<1>2. ASSUME \A x \in Nodes : Steady(x) /\ node'[x].tasks = node[x].tasks, \A u \in Tasks : Asked(u)' => Asked(u),
             \A u \in Tasks : tsk[u].state \in {"new", "sent", "lost"} => tsk'[u].state \in {"new", "sent", "lost"}
      PROVE  Deps'
  <2>1. \A u \in Tasks : Struck(u)' => Struck(u)
    BY <1>2, StruckSame, HomeIs
  <2> QED
    BY <1>1, <1>2, <2>1, DepsSteady
<1>3. CASE TaskTake(t) \/ TaskNotTaken(t) \/ TaskReset(t) \/ TaskEnds(t)
  <2>1. /\ UNCHANGED node /\ tsk[t].state \in {"up", "taken"} /\ (tsk[t].state = "taken" \/ tsk[t].offered)
        /\ \A u \in Tasks \ {t} : tsk'[u] = tsk[u]
    BY <1>0, <1>3, TaskMovesIs DEF TaskTo
  <2>2. \A u \in Tasks : Asked(u)' => Asked(u)
    BY <2>1 DEF Asked
  <2> QED
    BY <1>2, <2>1, <2>2, SteadySame
<1>4. CASE TaskSuicide(t)
  <2>1. /\ UNCHANGED node /\ tsk[t].state \in {"up", "taken"} /\ TaskTo(t, "stopping") /\ tsk'[t].offered = tsk[t].offered
    BY <1>0, <1>4, TaskSuicideIs
  <2>2. \A u \in Tasks : Asked(u)' => Asked(u)
    BY <2>1 DEF Asked, TaskTo
  <2> QED
    BY <1>2, <2>1, <2>2, SteadySame DEF TaskTo
<1>5. CASE TaskGone(t)
  <2>1. /\ tsk[t].state = "stopping" /\ TaskTo(t, "gone") /\ tsk'[t].offered = tsk[t].offered
        /\ \A x \in Nodes : Sent(x, {Home(t)}, TaskTerminated)
    BY <1>0, <1>5, TaskGoneIs
  <2>2. \A u \in Tasks : Asked(u)' => Asked(u)
    BY <2>1 DEF Asked, TaskTo
  <2>3. TaskTerminated # GetTask /\ TaskTerminated \in NodeMsgs
    BY NodeMsgKinds, MsgKinds
  <2>4. \A x \in Nodes : Steady(x) /\ node'[x].tasks = node[x].tasks
    BY <1>0, <2>1, <2>3, SteadySent DEF Sent
  <2> QED
    BY <1>2, <2>1, <2>2, <2>4 DEF TaskTo
<1>6. CASE HandleSuccess(t)
  <2>1. /\ tsk[t].state = "success" /\ TaskTo(t, "stopping") /\ tsk'[t].offered = tsk[t].offered
        /\ Strikes(Home(t), t, {}, GetTask) /\ end'[t] = "SUCCESS"
    BY <1>0, <1>6, HandleSuccessIs
  <2>2. \A u \in Tasks : Asked(u)' => Asked(u)
    BY <2>1 DEF Asked, TaskTo
  <2>3. \A x \in Nodes : Steady(x)
    BY <2>1, SteadySame DEF Strikes, Sent
  <2>4. \A u \in Tasks \ {t} : u \in node[Home(u)].tasks => u \in node'[Home(u)].tasks
    BY <2>1, HomeIs DEF Strikes, Sent
  <2>5. \A u \in Tasks \ {t} : Struck(u)' => Struck(u)
    BY <2>1, <2>4 DEF Struck, TaskTo
  <2> QED
    BY <1>1, <2>1, <2>2, <2>3, <2>5, DepsSteady
<1>7. CASE HandleFailure(t)
  <2>1. /\ tsk[t].state = "failure" /\ tsk'[t].state = "stopping" /\ tsk'[t].offered = tsk[t].offered
        /\ \A u \in Tasks \ {t} : tsk'[u] = Advised(TaskChildren(Home(t)))[u]
        /\ Strikes(Home(t), t, SubNodes(Home(t)), PersistAndSuicide)
    BY <1>0, <1>7, HandleFailureIs
  <2>2. \A u \in Tasks \ {t} : tsk'[u].state = tsk[u].state /\ tsk'[u].offered = tsk[u].offered
    BY <1>0, <2>1, AdvisedIs
  <2>3. \A u \in Tasks : Asked(u)' => Asked(u)
    BY <2>1, <2>2 DEF Asked
  <2>4. PICK n \in Nodes : n = Home(t)
    BY HomeIs
  <2>5. \A x \in Nodes \ {n} : Sent(x, SubNodes(n), PersistAndSuicide)
    BY <2>1, <2>4 DEF Strikes
  <2>6. PersistAndSuicide # GetTask /\ PersistAndSuicide \in NodeMsgs
    BY NodeMsgKinds
  <2>7. \A x \in Nodes : Steady(x)
    <3>1. Steady(n)
      BY <2>1, <2>4, SteadySame DEF Strikes
    <3> QED
      BY <1>0, <2>5, <2>6, <3>1, SteadySent
  <2>8. \A u \in Tasks \ {t} : u \in node[Home(u)].tasks => u \in node'[Home(u)].tasks
    BY <2>1, HomeIs DEF Strikes, Sent
  <2>9. \A u \in Tasks \ {t} : Struck(u)' => Struck(u)
    BY <2>2, <2>8 DEF Struck
  <2>10. ASSUME NEW v \in Tasks, Over(n, Home(v)) PROVE Doomed(n, v)'
    <3>1. PassedUp(n)
      BY <1>0, <2>1, <2>4 DEF Order, TaskOrder, Touched
    <3>2. Below(n, v) /\ n # Home(v)
      BY <2>10, BelowHome, OverAsym, HomeIs
    <3>3. CASE tsk[v].state = "gone"
      BY <1>1, <3>3 DEF Doomed, Safe
    <3>4. CASE tsk[v].state # "gone"
      <4>1. PICK c \in Nodes : c = Toward(n, v) /\ ~IsDistributor(c) /\ Above(c) = n /\ Below(c, v)
        BY <3>2, TowardIs
      <4>2. node[c].state = "up"
        BY <3>1, <3>2, <3>4, <4>1, Reach
      <4>3. c \in SubNodes(n) /\ Over(n, c) /\ c # n
        BY <4>1, <4>2, AboveIs, OverAsym DEF SubNodes
      <4>4. Has(node'[c].mail, PersistAndSuicide)
        BY <1>0, <2>5, <2>6, <4>2, <4>3, SteadySent
      <4> QED
        BY <4>1, <4>3, <4>4 DEF Doomed
    <3> QED
      BY <3>3, <3>4
  <2> QED
    BY <1>1, <2>3, <2>4, <2>7, <2>9, <2>10, DepsSteady
<1> QED
  BY <1>3, <1>4, <1>5, <1>6, <1>7 DEF TaskStep

LEMMA DepsInstStep ==
  ASSUME OrderInv, Deps, SuccessStays, [Next]_vars, InstStep
  PROVE  Deps'
<1>0. Typed /\ Delivery /\ Order
  BY DEF OrderInv
<1>1. \A u \in Tasks : Safe(u) => Safe(u)'
  BY <1>0, SafeStep
<1>2. CASE InstAddTask
  <2>1. PICK t \in Tasks, d \in Nodes : InstHandsOn(t, d)
    BY <1>0, <1>2, InstAddTaskInOrder
  <2>2. /\ UNCHANGED tsk /\ Delivered(t, d) /\ node[d].state # "stopping" /\ IsDistributor(d)
        /\ \A x \in Nodes \ {d} : node'[x] = node[x]
    BY <2>1 DEF InstHandsOn
  <2>3. \A x \in Nodes : Steady(x)
    BY <1>0, <2>2, SteadySame, SteadyDelivered
  <2>4. \A u \in Tasks : Struck(u)' => Struck(u)
    BY <2>2, HomeIs, StruckSame
  <2>5. \A u \in Tasks : Asked(u)' => Asked(u)
    BY <2>2 DEF Asked
  <2> QED
    BY <1>1, <2>3, <2>4, <2>5, DepsSteady
<1>3. CASE InstGetTask
  <2>1. UNCHANGED <<tsk, end>>
    BY <1>0, <1>3, InstGetTaskIs
  <2>2. PICK to \in SUBSET {d \in Nodes : IsDistributor(d)} : \A x \in Nodes : Sent(x, to, GetTask)
    BY <1>0, <1>3, InstGetTaskIs
  <2>3. \A x \in Nodes, u \in Tasks : x \in to => ~Over(Home(u), x)
    BY <2>2, DistributorOver, HomeIs
  <2>4. \A u \in Tasks : Asked(u)' => Asked(u)
    BY <2>1 DEF Asked
  <2> QED
    BY <2>1, <2>2, <2>3, <2>4, DepsGetTask
<1>4. CASE InstTerminated \/ \E ver \in Versions : NoMoreTasks(ver)
  <2>1. UNCHANGED <<node, tsk>>
    BY <1>0, <1>4, InstTerminatedIs, NoMoreTasksIs
  <2>2. \A x \in Nodes : Steady(x)
    BY <2>1, SteadySame
  <2>3. \A u \in Tasks : (Asked(u)' => Asked(u)) /\ (Struck(u)' => Struck(u))
    BY <2>1 DEF Asked, Struck
  <2> QED
    BY <1>1, <2>2, <2>3, DepsSteady
<1> QED
  BY <1>2, <1>3, <1>4 DEF InstStep

LEMMA DepsNodeStep ==
  ASSUME OrderInv, Deps, SuccessStays, [Next]_vars, NEW n \in Nodes, NodeStep(n)
  PROVE  Deps'
<1>0. Typed /\ Delivery /\ Order /\ \A x \in Nodes : NodeOrder(x)
  BY DEF OrderInv, Order
<1>1. \A u \in Tasks : Safe(u) => Safe(u)'
  BY <1>0, SafeStep
<1>2. ASSUME Stops(n), UNCHANGED <<inst, end>> PROVE Deps'
  <2>1. UNCHANGED tsk
    BY <1>0, <1>2, OrderStops, GoesDownStep
  <2> QED
    BY <1>2, <2>1, DepsStops DEF Halts
<1>3. ASSUME NEW t \in Tasks, Below(n, t), Home(t) # n, Passes(n, t, Toward(n, t)), UNCHANGED <<inst, end>> PROVE Deps'
  <2>1. PICK c \in Nodes : c = Toward(n, t) /\ ~IsDistributor(c) /\ Above(c) = n /\ Below(c, t)
    BY <1>3, TowardIs
  <2>2. /\ Delivered(t, c) /\ Done(n) /\ node[n].mail # <<>> /\ Head(node[n].mail) = AddTask(t)
        /\ node'[n].tasks = node[n].tasks /\ \A x \in Nodes \ {n, c} : node'[x] = node[x]
    BY <1>3, <2>1 DEF Passes, Done
  <2>3. Has(node[n].mail, AddTask(t))
    BY <1>0, <2>2, HeadIsSent
  <2>4. node[c].state # "stopping"
    BY <1>0, <2>1, <2>3, WayIsOpen
  <2>5. UNCHANGED tsk
    BY <1>0, <1>3, OrderPasses, GoesDownStep
  <2>6. Steady(c) /\ Steady(n)
    BY <1>0, <2>2, <2>4, SteadyDone, SteadyDelivered, NodeMsgKinds
  <2>7. \A x \in Nodes : Steady(x)
    BY <2>2, <2>6, SteadySame
  <2>8. ASSUME NEW v \in Tasks, NEW u \in Tasks, Over(Home(u), Home(v)), Struck(u)', ~Struck(u)
        PROVE  Doomed(Home(u), v)'
    <3>1. CASE Home(u) = c /\ node[c].state # "up"
      <4>1. tsk[u].state \notin {"new", "sent", "lost"}
        BY <2>5, <2>8 DEF Struck
      <4> QED
        BY <1>1, <2>8, <3>1, <4>1, CreatedNotStruck
    <3>2. CASE ~(Home(u) = c /\ node[c].state # "up")
      <4>1. node'[Home(u)].tasks = node[Home(u)].tasks
        BY <2>2, <3>2, HomeIs DEF Delivered
      <4> QED
        BY <2>5, <2>8, <4>1 DEF Struck
    <3> QED
      BY <3>1, <3>2
  <2>9. \A u \in Tasks : Asked(u)' => Asked(u)
    BY <2>5 DEF Asked
  <2> QED
    BY <1>1, <2>7, <2>8, <2>9, DepsSteady
<1>4. ASSUME Forwards(n, {}, GetTask), UNCHANGED <<tsk, end>>, node'[n].tasks = node[n].tasks,
             Head(node[n].mail).kind = "Terminated"
      PROVE  Deps'
  <2>1. Steady(n)
    BY <1>0, <1>4, SteadyDone, MsgKinds DEF Forwards
  <2>2. \A x \in Nodes : Steady(x) /\ node'[x].tasks = node[x].tasks
    BY <1>4, <2>1, SteadySame DEF Forwards, Sent
  <2>3. \A u \in Tasks : Asked(u)' => Asked(u)
    BY <1>4 DEF Asked
  <2>4. \A u \in Tasks : Struck(u)' => Struck(u)
    BY <1>4, <2>2, StruckSame, HomeIs
  <2> QED
    BY <1>1, <2>2, <2>3, <2>4, DepsSteady
<1>5. CASE DistAddTask(n)
  BY <1>0, <1>3, <1>5, DistAddTaskIs
<1>6. CASE DistGetTask(n)
  <2>1. UNCHANGED <<inst, end>> /\ Head(node[n].mail) = GetTask /\ IsDistributor(n)
    BY <1>0, <1>6, DistGetTaskIs DEF DistGetTask
  <2>2. CASE Stops(n)
    BY <1>2, <2>1, <2>2
  <2>3. ASSUME UNCHANGED tsk, node'[n].tasks = node[n].tasks,
               NEW to \in SUBSET Children(n), Forwards(n, to, GetTask)
        PROVE  Deps'
    <3>1. Steady(n)
      BY <1>0, <2>1, <2>3, SteadyDone, NodeMsgKinds DEF Forwards
    <3>2. \A x \in Nodes \ {n} : Sent(x, to, GetTask)
      BY <2>3 DEF Forwards
    <3>3. ASSUME NEW x \in Nodes, x \in to, NEW u \in Tasks, Over(Home(u), x) PROVE FALSE
      <4>1. ~IsDistributor(x) /\ Above(x) = n
        BY <3>3 DEF Children
      <4>2. Home(u) = n \/ Over(Home(u), n)
        BY <3>3, <4>1, OverAbove, HomeIs
      <4> QED
        BY <2>1, <4>2, HomeIs, DistributorOver
    <3>4. \A u \in Tasks : Asked(u)' => Asked(u)
      BY <2>3 DEF Asked
    <3> QED
      BY <2>1, <2>3, <3>1, <3>2, <3>3, <3>4, DepsGetTask
  <2> QED
    BY <1>0, <1>6, <2>2, <2>3, DistGetTaskIs
<1>7. CASE DistTerminated(n)
  BY <1>0, <1>2, <1>4, <1>7, DistTerminatedIs
<1>8. CASE SubAddTask(n)
  <2>1. ASSUME NEW t \in Tasks, Home(t) = n, Arrives(n, t), UNCHANGED end PROVE Deps'
    <3>1. /\ Done(n) /\ Head(node[n].mail) = AddTask(t) /\ node'[n].tasks = node[n].tasks \cup {t}
          /\ \A x \in Nodes \ {n} : node'[x] = node[x]
          /\ tsk'[t].state = "up" /\ tsk'[t].offered = tsk[t].offered
          /\ \A u \in Tasks \ {t} : tsk'[u] = tsk[u]
      BY <2>1 DEF Arrives
    <3>2. Steady(n)
      BY <1>0, <3>1, SteadyDone, NodeMsgKinds
    <3>3. \A x \in Nodes : Steady(x)
      BY <3>1, <3>2, SteadySame
    <3>4. \A u \in Tasks : Asked(u)' => Asked(u)
      BY <3>1 DEF Asked
    <3>5. \A u \in Tasks : Struck(u)' => Struck(u)
      BY <2>1, <3>1, HomeIs DEF Struck
    <3> QED
      BY <1>1, <3>3, <3>4, <3>5, DepsSteady
  <2> QED
    BY <1>0, <1>3, <1>8, <2>1, SubAddTaskIs
<1>9. CASE SubGetTask(n)
  <2>1. UNCHANGED <<inst, end>> /\ Head(node[n].mail) = GetTask /\ ~IsDistributor(n)
    BY <1>0, <1>9, SubGetTaskIs
  <2>2. CASE Stops(n)
    BY <1>2, <2>1, <2>2
  <2>3. ASSUME NEW ts, \A u \in Tasks : u \in ts => Home(u) = n, tsk' = Offered(ts), node[n].mail # <<>>
        PROVE  /\ \A u \in Tasks : tsk'[u].state = tsk[u].state
               /\ \A u \in Tasks : Asked(u)' => Asked(u) \/ ~Open(u)
    <3>1. \A u \in Tasks : tsk'[u].state = tsk[u].state /\ ((u \in ts /\ Handles(u)) \/ tsk'[u] = tsk[u])
      BY <1>0, <2>3, OfferedIs
    <3>2. \A u \in Tasks : u \in ts /\ Handles(u) => ~Open(u)
      BY <2>1, <2>3, OfferedIsFree
    <3> QED
      BY <3>1, <3>2 DEF Asked
  <2>4. ASSUME NEW to, Forwards(n, to, GetTask), node'[n].tasks = node[n].tasks
        PROVE  /\ node[n].mail # <<>>
               /\ \A x \in Nodes : Sent(x, to, GetTask) \/ (Steady(x) /\ x = n /\ node'[x].tasks = node[x].tasks)
    <3>1. Steady(n)
      BY <1>0, <2>1, <2>4, SteadyDone, NodeMsgKinds DEF Forwards
    <3> QED
      BY <2>4, <3>1 DEF Forwards, Done
  <2>5. CASE node'[n].tasks = node[n].tasks /\ tsk' = Offered(node[n].tasks) /\ Forwards(n, {}, GetTask)
    <3>1. \A u \in Tasks : u \in node[n].tasks => Home(u) = n
      BY <1>0 DEF NodeOrder
    <3>2. /\ \A u \in Tasks : tsk'[u].state = tsk[u].state
          /\ \A u \in Tasks : Asked(u)' => Asked(u) \/ ~Open(u)
      BY <2>3, <2>4, <2>5, <3>1
    <3>3. PICK to : to = {}
      OBVIOUS
    <3>4. \A x \in Nodes : Sent(x, to, GetTask) \/ (Steady(x) /\ x = n /\ node'[x].tasks = node[x].tasks)
      BY <2>4, <2>5, <3>3
    <3>5. \A x \in Nodes : x \notin to
      BY <3>3
    <3>6. /\ \A u \in Tasks : tsk'[u].state = tsk[u].state
          /\ UNCHANGED end
      BY <2>1, <3>2
    <3> QED
      BY <3>2, <3>4, <3>5, <3>6, DepsGetTask
  <2>6. CASE /\ node'[n].tasks = node[n].tasks /\ node[n].tasks = {}
             /\ tsk' = Offered(TaskChildren(n)) /\ Forwards(n, SubNodes(n), GetTask)
    <3>1. \A u \in Tasks : u \in TaskChildren(n) => Home(u) = n
      BY DEF TaskChildren
    <3>2. /\ \A u \in Tasks : tsk'[u].state = tsk[u].state
          /\ \A u \in Tasks : Asked(u)' => Asked(u) \/ ~Open(u)
      BY <2>3, <2>4, <2>6, <3>1
    <3>3. ASSUME NEW x \in Nodes, NEW t \in Tasks, NEW u \in Tasks, x \in SubNodes(n), Below(x, t), Over(Home(u), x),
                 end[u] # "SUCCESS"
          PROVE  Doomed(x, t) \/ Has(node[x].mail, PersistAndSuicide)
      <4>1. ~IsDistributor(x) /\ Above(x) = n
        BY <3>3 DEF SubNodes
      <4> QED
        BY <2>1, <2>4, <2>6, <3>3, <4>1, GetTaskGoesDown
    <3>4. PICK to : to = SubNodes(n)
      OBVIOUS
    <3>5. \A x \in Nodes : Sent(x, to, GetTask) \/ (Steady(x) /\ x = n /\ node'[x].tasks = node[x].tasks)
      BY <2>4, <2>6, <3>4
    <3>6. \A x \in Nodes, t, u \in Tasks :
            x \in to /\ Below(x, t) /\ Over(Home(u), x) /\ end[u] # "SUCCESS" =>
              Doomed(x, t) \/ Has(node[x].mail, PersistAndSuicide)
      BY <3>3, <3>4
    <3>7. UNCHANGED end
      BY <2>1
    <3> QED
      BY <3>2, <3>5, <3>6, <3>7, DepsGetTask
  <2> QED
    BY <1>0, <1>9, <2>2, <2>5, <2>6, SubGetTaskIs
<1>10. CASE SubTerminated(n)
  BY <1>0, <1>2, <1>4, <1>10, SubTerminatedIs
<1>11. CASE SubPersistAndSuicide(n)
  BY <1>11, DepsSuicide
<1>12. CASE Gone(n)
  <2>1. UNCHANGED <<tsk, end>> /\ node[n].state = "stopping" /\ node'[n].mail = <<>>
    BY <1>0, <1>12, GoneIs DEF Leaves
  <2>2. node[n].mail = <<>>
    BY <1>0, <2>1 DEF Delivery
  <2>3. PICK m : m = Terminated(Ref(n))
    OBVIOUS
  <2>4. m \in NodeMsgs /\ m # GetTask
    <3>1. Ref(n) \in Refs
      BY <1>0, NodeStateIs DEF Typed, Ref, Refs
    <3> QED
      BY <2>3, <3>1, MsgKinds, NodeMsgKinds
  <2>5. \A x \in Nodes \ {n} : Steady(x) /\ node'[x].tasks = node[x].tasks
    <3>1. CASE IsDistributor(n)
      BY <1>0, <1>12, <3>1, GoneIs, SteadySame
    <3>2. CASE ~IsDistributor(n)
      <4>1. \A x \in Nodes \ {n} : Sent(x, {Above(n)}, m)
        BY <1>0, <1>12, <2>3, <3>2, GoneIs
      <4> QED
        BY <1>0, <2>4, <4>1, SteadySent DEF Sent
    <3> QED
      BY <3>1, <3>2
  <2>6. \A x \in Nodes : Steady(x)
    BY <2>1, <2>2, <2>5, SteadySame
  <2>7. ASSUME NEW v \in Tasks, NEW u \in Tasks, Over(Home(u), Home(v)), Struck(u)', ~Struck(u)
        PROVE  Doomed(Home(u), v)'
    <3>1. CASE Home(u) = n
      <4>1. tsk[u].state \notin {"new", "sent", "lost"} /\ node[Home(u)].state # "up"
        BY <2>1, <2>7, <3>1 DEF Struck
      <4> QED
        BY <1>1, <2>7, <4>1, CreatedNotStruck
    <3>2. CASE Home(u) # n
      BY <2>1, <2>5, <2>7, <3>2, HomeIs DEF Struck
    <3> QED
      BY <3>1, <3>2
  <2>8. \A u \in Tasks : Asked(u)' => Asked(u)
    BY <2>1 DEF Asked
  <2> QED
    BY <1>1, <2>6, <2>7, <2>8, DepsSteady
<1> QED
  BY <1>5, <1>6, <1>7, <1>8, <1>9, <1>10, <1>11, <1>12 DEF NodeStep

LEMMA DepsStep ==
  ASSUME OrderInv, Ended, Deps, [Next]_vars
  PROVE  Deps'
<1>0. Typed /\ Delivery /\ Order
  BY DEF OrderInv
<1>1. \A u \in Tasks : Safe(u) => Safe(u)'
  BY <1>0, SafeStep
<1>2. SuccessStays
  BY <1>0, EndedStep DEF EndMoves, SuccessStays
<1>3. ASSUME UNCHANGED node, \A u \in Tasks : Asked(u)' => Asked(u),
             \A u \in Tasks : tsk[u].state \in {"new", "sent", "lost"} => tsk'[u].state \in {"new", "sent", "lost"}
      PROVE  Deps'
  <2>1. \A x \in Nodes : Steady(x)
    BY <1>3, SteadySame
  <2>2. \A u \in Tasks : Struck(u)' => Struck(u)
    BY <1>3, StruckSame
  <2> QED
    BY <1>1, <1>2, <1>3, <2>1, <2>2, DepsSteady
<1>4. CASE UNCHANGED vars
  <2>1. UNCHANGED <<node, tsk>>
    BY <1>4 DEF vars
  <2> QED
    BY <1>3, <2>1 DEF Asked
<1>5. ASSUME NEW t \in Tasks, Upload(t) PROVE Deps'
  <2>1. UNCHANGED node /\ tsk[t].state = "new" /\ TaskTo(t, "sent") /\ tsk'[t].offered = tsk[t].offered
    BY <1>0, <1>5, UploadIs
  <2> QED
    BY <1>3, <2>1 DEF Asked, TaskTo
<1>6. ASSUME NEW t \in Tasks, TaskStep(t) PROVE Deps'
  BY <1>2, <1>6, DepsTaskStep
<1>7. ASSUME NEW ver \in Versions, Poll(ver) PROVE Deps'
  <2>1. UNCHANGED <<node, tsk>>
    BY <1>0, <1>7, PollIs
  <2> QED
    BY <1>3, <2>1 DEF Asked
<1>8. ASSUME InstStep PROVE Deps'
  BY <1>2, <1>8, DepsInstStep
<1>9. ASSUME NEW n \in Nodes, NodeStep(n) PROVE Deps'
  BY <1>2, <1>9, DepsNodeStep
<1> QED
  BY <1>4, <1>5, <1>6, <1>7, <1>8, <1>9 DEF Next

DepsInv == OrderInv /\ Ended /\ Deps

LEMMA DepsInit ==
  ASSUME Init
  PROVE  DepsInv
<1>1. OrderInv /\ Ended
  BY OrderInvInit, BranchInit DEF BranchInv
<1>2. \A t \in Tasks : ~Asked(t) /\ ~Struck(t)
  BY DEF Init, Asked, Struck
<1>3. \A n \in Nodes : node[n].mail = <<>>
  BY DEF Init, Absent
<1>4. Deps
  BY <1>2, <1>3, GuardedEmpty DEF Deps
<1> QED
  BY <1>1, <1>4 DEF DepsInv

(* If no VM asks for a task while a run is uploaded, a task is executed     *)
(* only when all tasks on the levels above it have succeeded, in any tree   *)
(* and with any results (getTask passes GetTask on only when the list of    *)
(* the level is empty; a failure sends PersistAndSuicide down before any    *)
(* such GetTask).                                                           *)
THEOREM ExecutedInOrder ==
  ASSUME Undisturbed = TRUE
  PROVE  Spec => []DependenciesSucceeded
<1>1. Init => DepsInv
  BY DepsInit
<1>2. DepsInv /\ [Next]_vars => DepsInv'
  <2>1. SUFFICES ASSUME OrderInv, Ended, Deps, [Next]_vars PROVE DepsInv'
    BY DEF DepsInv
  <2>2. Ended'
    BY <2>1, EndedStep DEF OrderInv
  <2> QED
    BY <2>1, <2>2, OrderInvStep, DepsStep DEF DepsInv
<1>3. DepsInv => DependenciesSucceeded
  <2>1. \A t, u \in Tasks : DependsOn(t, u) => Over(Home(u), Home(t))
    BY DEF DependsOn, Over, Home
  <2> QED
    BY <2>1 DEF DepsInv, Deps, Asked, DependenciesSucceeded
<1> QED
  BY <1>1, <1>2, <1>3, PTL DEF Spec

-----------------------------------------------------------------------------
(* A list that names tasks which are gone *)

\* t is done, or comes to no GetTask any more.
Given(t) == Safe(t) \/ tsk[t].state \in {"success", "failure"}

\* Once a task has failed, all tasks of its level are done or to give up; one
\* that is done and still in the list of its group gave up for such a failure.
Stale ==
  /\ \A w \in Tasks : end[w] = "FAILURE" =>
       w \notin node[Home(w)].tasks /\ \A t \in Tasks : Home(t) = Home(w) => Given(t)
  /\ \A n \in Nodes : \A u \in node[n].tasks : Safe(u) =>
       \E w \in Tasks : Home(w) = n /\ end[w] = "FAILURE"

LEMMA StaleKeeps ==
  ASSUME Stale,
         \A w \in Tasks : end[w] = "FAILURE" <=> end'[w] = "FAILURE",
         \A x \in Nodes : node'[x].tasks \subseteq node[x].tasks,
         \A x \in Nodes : \A u \in node'[x].tasks : Safe(u)' => Safe(u),
         \A u \in Tasks : Given(u) => Given(u)'
  PROVE  Stale'
<1>1. ASSUME NEW w \in Tasks, end'[w] = "FAILURE"
      PROVE  w \notin node'[Home(w)].tasks /\ \A t \in Tasks : Home(t) = Home(w) => Given(t)'
  <2>1. w \notin node[Home(w)].tasks /\ \A t \in Tasks : Home(t) = Home(w) => Given(t)
    BY <1>1 DEF Stale
  <2> QED
    BY <2>1, HomeIs
<1>2. ASSUME NEW n \in Nodes, NEW u \in node'[n].tasks, Safe(u)'
      PROVE  \E w \in Tasks : Home(w) = n /\ end'[w] = "FAILURE"
  <2>1. u \in node[n].tasks /\ Safe(u)
    BY <1>2
  <2>2. PICK w \in Tasks : Home(w) = n /\ end[w] = "FAILURE"
    BY <2>1 DEF Stale
  <2> QED
    BY <2>2
<1> QED
  BY <1>1, <1>2 DEF Stale

\* A step that leaves the results alone and the TaskActors as they are.
LEMMA StaleSame ==
  ASSUME Stale, UNCHANGED end,
         \A u \in Tasks : tsk'[u].state = tsk[u].state /\ tsk'[u].suicide = tsk[u].suicide,
         \A x \in Nodes : node[x].tasks \in SUBSET Tasks /\ node'[x].tasks \subseteq node[x].tasks
  PROVE  Stale'
<1>1. \A u \in Tasks : (Safe(u)' => Safe(u)) /\ (Given(u) => Given(u)')
  BY DEF Safe, Given
<1> QED
  BY <1>1, StaleKeeps

LEMMA StaleFailure ==
  ASSUME OrderInv, Stale, [Next]_vars, NEW w \in Tasks, HandleFailure(w)
  PROVE  Stale'
<1>0. Typed /\ Delivery /\ Order /\ (\A x \in Nodes : NodeOrder(x)) /\ (\A u \in Tasks : TaskOrder(u))
  BY DEF OrderInv, Order
<1>1. PICK n \in Nodes : n = Home(w)
  BY HomeIs
<1>2. /\ tsk[w].state = "failure" /\ tsk'[w].state = "stopping"
      /\ \A u \in Tasks \ {w} : tsk'[u] = Advised(TaskChildren(n))[u]
      /\ Strikes(n, w, SubNodes(n), PersistAndSuicide)
      /\ end'[w] = "FAILURE" /\ \A u \in Tasks \ {w} : end'[u] = end[u]
  BY <1>0, <1>1, HandleFailureIs
<1>3. /\ node'[n].tasks = node[n].tasks \ {w}
      /\ \A x \in Nodes \ {n} : node'[x].tasks = node[x].tasks
  BY <1>2 DEF Strikes, Sent
<1>4. \A u \in Tasks \ {w} : /\ tsk'[u].state = tsk[u].state
                             /\ u \in TaskChildren(n) /\ Handles(u) => tsk'[u].suicide
                             /\ ~(u \in TaskChildren(n) /\ Handles(u)) => tsk'[u] = tsk[u]
  BY <1>0, <1>2, AdvisedIs
<1>5. \A u \in Tasks : Safe(u) => Safe(u)'
  BY <1>0, SafeStep
<1>6. \A u \in Tasks : Given(u) => Given(u)'
  BY <1>2, <1>4, <1>5 DEF Given, Safe
<1>7. PassedUp(n)
  BY <1>0, <1>1, <1>2 DEF TaskOrder, Touched
<1>8. ASSUME NEW u \in Tasks, Home(u) = n PROVE Given(u)'
  <2>1. CASE u = w \/ Given(u)
    BY <1>2, <1>6, <2>1 DEF Given, Safe
  <2>2. CASE u # w /\ ~Given(u)
    <3>1. Below(n, u)
      BY <1>8, BelowHome
    <3>2. Lives(u)
      BY <1>7, <1>8, <2>2, <3>1, Reach DEF Given, Safe
    <3>3. u \in TaskChildren(n) /\ Handles(u)
      BY <1>8, <2>2, <3>2 DEF TaskChildren, Lives, Handles, Given, Safe
    <3> QED
      BY <1>4, <2>2, <3>3 DEF Given, Safe
  <2> QED
    BY <2>1, <2>2
<1>9. ASSUME NEW v \in Tasks, end'[v] = "FAILURE"
      PROVE  v \notin node'[Home(v)].tasks /\ \A t \in Tasks : Home(t) = Home(v) => Given(t)'
  <2>1. CASE v = w
    BY <1>1, <1>3, <1>8, <2>1
  <2>2. CASE v # w
    <3>1. v \notin node[Home(v)].tasks /\ \A t \in Tasks : Home(t) = Home(v) => Given(t)
      BY <1>2, <1>9, <2>2 DEF Stale
    <3>2. v \notin node'[Home(v)].tasks
      BY <1>3, <3>1, HomeIs
    <3> QED
      BY <1>6, <3>1, <3>2
  <2> QED
    BY <2>1, <2>2
<1>10. ASSUME NEW x \in Nodes, NEW u \in node'[x].tasks, Safe(u)'
       PROVE  \E v \in Tasks : Home(v) = x /\ end'[v] = "FAILURE"
  <2>1. u \in node[x].tasks /\ (x = n => u # w)
    BY <1>3, <1>10
  <2>2. u \in Tasks /\ Home(u) = x
    BY <1>0, <2>1, NodeStateIs DEF Typed, NodeOrder
  <2>3. u # w
    BY <1>1, <2>1, <2>2
  <2>4. CASE Safe(u)
    <3>1. PICK v \in Tasks : Home(v) = x /\ end[v] = "FAILURE"
      BY <2>1, <2>4 DEF Stale
    <3> QED
      BY <1>2, <3>1
  <2>5. CASE ~Safe(u)
    <3>1. u \in TaskChildren(n)
      BY <1>4, <1>10, <2>2, <2>3, <2>5 DEF Safe
    <3>2. Home(w) = x
      BY <1>1, <2>2, <3>1 DEF TaskChildren
    <3> QED
      BY <1>2, <3>2
  <2> QED
    BY <2>4, <2>5
<1> QED
  BY <1>9, <1>10 DEF Stale

LEMMA StaleTaskStep ==
  ASSUME OrderInv, Ended, Stale, [Next]_vars, NEW t \in Tasks, TaskStep(t)
  PROVE  Stale'
<1>0. Typed /\ Delivery /\ Order /\ \A x \in Nodes : NodeOrder(x)
  BY DEF OrderInv, Order
<1>1. \A x \in Nodes : \A u \in node[x].tasks : u \in Tasks /\ Home(u) = x
  BY <1>0, NodeStateIs DEF Typed, NodeOrder
<1>2. \A u \in Tasks : Safe(u) => Safe(u)'
  BY <1>0, SafeStep
<1>3. ASSUME NEW s, TaskTo(t, s), s = "gone" \/ tsk[t].state # "stopping",
             tsk[t].state \in {"success", "failure"} => s = "stopping"
      PROVE  /\ \A u \in Tasks : Given(u) => Given(u)'
             /\ \A u \in Tasks : Safe(u)' => Safe(u) \/ (u = t /\ s \in {"stopping", "gone"})
  BY <1>2, <1>3 DEF TaskTo, Given, Safe
<1>4. CASE TaskTake(t) \/ TaskNotTaken(t) \/ TaskReset(t) \/ TaskEnds(t)
  <2>1. UNCHANGED <<node, end>> /\ tsk[t].state \in {"up", "taken"}
    BY <1>0, <1>4, TaskMovesIs
  <2>2. PICK s \in {"up", "taken", "success", "failure"} : TaskTo(t, s)
    BY <1>0, <1>4, TaskMovesIs
  <2> QED
    BY <1>1, <1>3, <2>1, <2>2, StaleKeeps
<1>5. CASE TaskSuicide(t)
  <2>1. /\ UNCHANGED node /\ tsk[t].state \in {"up", "taken"} /\ tsk[t].suicide /\ TaskTo(t, "stopping")
        /\ end'[t] = "ABANDONED" /\ \A u \in Tasks \ {t} : end'[u] = end[u]
    BY <1>0, <1>5, TaskSuicideIs
  <2>2. end[t] = "NONE"
    BY <2>1 DEF Ended
  <2>3. \A u \in Tasks : (Safe(u)' => Safe(u)) /\ (Given(u) => Given(u)')
    BY <1>3, <2>1 DEF Safe
  <2> QED
    BY <1>1, <2>1, <2>2, <2>3, StaleKeeps
<1>6. CASE TaskGone(t)
  <2>1. /\ UNCHANGED end /\ tsk[t].state = "stopping" /\ TaskTo(t, "gone")
        /\ \A x \in Nodes : Sent(x, {Home(t)}, TaskTerminated)
    BY <1>0, <1>6, TaskGoneIs
  <2>2. \A u \in Tasks : (Safe(u)' => Safe(u)) /\ (Given(u) => Given(u)')
    BY <1>3, <2>1 DEF Safe
  <2>3. \A x \in Nodes : node'[x].tasks = node[x].tasks
    BY <2>1 DEF Sent
  <2> QED
    BY <1>1, <2>1, <2>2, <2>3, StaleKeeps
<1>7. CASE HandleSuccess(t)
  <2>1. PICK n \in Nodes : n = Home(t)
    BY HomeIs
  <2>2. /\ tsk[t].state = "success" /\ TaskTo(t, "stopping") /\ Strikes(n, t, {}, GetTask)
        /\ end'[t] = "SUCCESS" /\ \A u \in Tasks \ {t} : end'[u] = end[u]
    BY <1>0, <1>7, <2>1, HandleSuccessIs
  <2>3. end[t] = "NONE"
    BY <1>0, <2>2 DEF Ended
  <2>4. node'[n].tasks = node[n].tasks \ {t} /\ \A x \in Nodes \ {n} : node'[x].tasks = node[x].tasks
    BY <2>2 DEF Strikes, Sent
  <2>5. /\ \A u \in Tasks : Given(u) => Given(u)'
        /\ \A u \in Tasks : Safe(u)' => Safe(u) \/ u = t
    BY <1>3, <2>2
  <2>6. \A x \in Nodes : \A u \in node'[x].tasks : u \in Tasks /\ u # t
    BY <1>1, <2>1, <2>4
  <2> QED
    BY <2>2, <2>3, <2>4, <2>5, <2>6, StaleKeeps
<1>8. CASE HandleFailure(t)
  BY <1>8, StaleFailure
<1> QED
  BY <1>4, <1>5, <1>6, <1>7, <1>8 DEF TaskStep

\* An AddTask is handed on, or a group of the tree goes.
LEMMA StaleDelivered ==
  ASSUME Typed, NEW c \in Nodes, NEW t \in Tasks, Delivered(t, c), node[c].state # "stopping"
  PROVE  node'[c].tasks \subseteq node[c].tasks
<1>1. node[c].state \in {"none", "up", "stopping"}
  BY NodeStateIs DEF Typed
<1> QED
  BY <1>1 DEF Delivered

\* The TaskActor of t is new in its list: no task of its level has failed.
LEMMA StaleArrives ==
  ASSUME OrderInv, Stale, [Next]_vars, NEW n \in Nodes, NEW t \in Tasks, Home(t) = n, Arrives(n, t), UNCHANGED end
  PROVE  Stale'
<1>0. Typed /\ Delivery /\ Order /\ TaskOrder(t)
  BY DEF OrderInv, Order
<1>1. /\ node[n].mail # <<>> /\ Head(node[n].mail) = AddTask(t)
      /\ node'[n].tasks = node[n].tasks \cup {t} /\ \A x \in Nodes \ {n} : node'[x] = node[x]
      /\ tsk'[t].state = "up" /\ tsk'[t].suicide = tsk[t].suicide
      /\ \A u \in Tasks \ {t} : tsk'[u] = tsk[u]
  BY DEF Arrives, Done
<1>2. tsk[t].state = "sent" /\ Has(node[n].mail, AddTask(t))
  BY <1>0, <1>1, HeadIsSent
<1>3. ~tsk[t].suicide
  <2>1. Below(n, t)
    BY BelowHome
  <2>2. ~PassedUp(n)
    BY <1>2, <2>1 DEF PassedUp, Passed
  <2> QED
    BY <1>0, <2>2 DEF TaskOrder, Touched
<1>4. ~Given(t) /\ ~Safe(t)'
  BY <1>1, <1>2, <1>3 DEF Given, Safe
<1>5. \A u \in Tasks \ {t} : (Safe(u)' => Safe(u)) /\ (Given(u) => Given(u)')
  BY <1>1 DEF Given, Safe
<1>6. ASSUME NEW w \in Tasks, end'[w] = "FAILURE"
      PROVE  w \notin node'[Home(w)].tasks /\ \A u \in Tasks : Home(u) = Home(w) => Given(u)'
  <2>1. w \notin node[Home(w)].tasks /\ \A u \in Tasks : Home(u) = Home(w) => Given(u)
    BY <1>6 DEF Stale
  <2>2. Home(w) # n /\ Home(w) \in Nodes
    BY <1>4, <2>1, HomeIs
  <2>3. w \notin node'[Home(w)].tasks
    BY <1>1, <2>1, <2>2
  <2> QED
    BY <1>5, <2>1, <2>2, <2>3
<1>7. ASSUME NEW x \in Nodes, NEW u \in node'[x].tasks, Safe(u)'
      PROVE  \E w \in Tasks : Home(w) = x /\ end'[w] = "FAILURE"
  <2>1. u # t
    BY <1>4, <1>7
  <2>2. u \in node[x].tasks
    BY <1>1, <1>7, <2>1
  <2>3. u \in Tasks
    BY <1>0, <2>2, NodeStateIs DEF Typed
  <2>4. Safe(u)
    BY <1>5, <1>7, <2>1, <2>3
  <2>5. PICK w \in Tasks : Home(w) = x /\ end[w] = "FAILURE"
    BY <2>2, <2>4 DEF Stale
  <2> QED
    BY <2>5
<1> QED
  BY <1>6, <1>7 DEF Stale

\* The list of n is emptied, the TaskActors of n are told.
LEMMA StaleSuicide ==
  ASSUME OrderInv, Stale, [Next]_vars, NEW n \in Nodes, SubPersistAndSuicide(n)
  PROVE  Stale'
<1>0. Typed /\ Delivery /\ Order /\ \A x \in Nodes : NodeOrder(x)
  BY DEF OrderInv, Order
<1>1. /\ UNCHANGED end /\ node'[n].tasks = {} /\ tsk' = Advised(TaskChildren(n))
      /\ Forwards(n, SubNodes(n), PersistAndSuicide)
  BY <1>0, SubPersistAndSuicideIs
<1>2. \A x \in Nodes \ {n} : node'[x].tasks = node[x].tasks
  BY <1>1 DEF Forwards, Sent
<1>3. \A u \in Tasks : tsk'[u].state = tsk[u].state /\ (u \notin TaskChildren(n) => tsk'[u] = tsk[u])
  BY <1>0, <1>1, AdvisedIs
<1>4. \A u \in Tasks : Safe(u) => Safe(u)'
  BY <1>0, SafeStep
<1>5. \A u \in Tasks : Given(u) => Given(u)'
  BY <1>3, <1>4 DEF Given
<1>6. ASSUME NEW x \in Nodes, NEW u \in node'[x].tasks, Safe(u)' PROVE Safe(u)
  <2>1. x # n /\ u \in node[x].tasks
    BY <1>1, <1>2, <1>6
  <2>2. u \in Tasks /\ Home(u) = x
    BY <1>0, <2>1, NodeStateIs DEF Typed, NodeOrder
  <2>3. u \notin TaskChildren(n)
    BY <2>1, <2>2 DEF TaskChildren
  <2> QED
    BY <1>3, <1>6, <2>2, <2>3 DEF Safe
<1> QED
  BY <1>1, <1>2, <1>5, <1>6, StaleKeeps

LEMMA StaleNodeStep ==
  ASSUME OrderInv, Stale, [Next]_vars, NEW n \in Nodes, NodeStep(n)
  PROVE  Stale'
<1>0. Typed /\ Delivery /\ Order /\ \A x \in Nodes : node[x].tasks \in SUBSET Tasks
  BY NodeStateIs DEF OrderInv, Typed
<1>1. ASSUME UNCHANGED <<tsk, end>>, \A x \in Nodes : node'[x].tasks \subseteq node[x].tasks
      PROVE  Stale'
  BY <1>0, <1>1, StaleSame
<1>2. ASSUME NEW to, NEW m, Forwards(n, to, m), node'[n].tasks = node[n].tasks, UNCHANGED end,
             \A u \in Tasks : tsk'[u].state = tsk[u].state /\ tsk'[u].suicide = tsk[u].suicide
      PROVE  Stale'
  <2>1. \A x \in Nodes : node'[x].tasks = node[x].tasks
    BY <1>2 DEF Forwards, Sent
  <2> QED
    BY <1>0, <1>2, <2>1, StaleSame
<1>3. CASE Halts(n)
  BY <1>1, <1>3 DEF Halts, Stops
<1>4. CASE HandsOn(n)
  <2>1. PICK t \in Tasks : /\ Below(n, t) /\ Home(t) # n /\ Passes(n, t, Toward(n, t))
                           /\ node[Toward(n, t)].state # "stopping"
    BY <1>4 DEF HandsOn
  <2>2. PICK c \in Nodes : c = Toward(n, t)
    BY <2>1, TowardIs
  <2>3. /\ Delivered(t, c) /\ node'[n].tasks = node[n].tasks
        /\ \A x \in Nodes \ {n, c} : node'[x] = node[x]
    BY <2>1, <2>2 DEF Passes
  <2>4. node'[c].tasks \subseteq node[c].tasks
    BY <1>0, <2>1, <2>2, <2>3, StaleDelivered
  <2> QED
    BY <1>1, <1>4, <2>3, <2>4 DEF HandsOn
<1>5. CASE TakesIn(n)
  BY <1>5, StaleArrives DEF TakesIn
<1>6. CASE Gone(n)
  <2>1. UNCHANGED <<tsk, end>> /\ node'[n].tasks = {}
    BY <1>0, <1>6, GoneIs DEF Leaves
  <2>2. \A x \in Nodes \ {n} : node'[x].tasks = node[x].tasks
    BY <1>0, <1>6, GoneIs DEF Sent
  <2> QED
    BY <1>1, <2>1, <2>2
<1>7. CASE Relays(n)
  <2>1. CASE DistGetTask(n) \/ DistTerminated(n) \/ SubTerminated(n)
    <3>1. UNCHANGED end
      BY <1>7 DEF Relays
    <3>2. \/ Stops(n)
          \/ /\ UNCHANGED tsk /\ node'[n].tasks = node[n].tasks
             /\ \E to : Forwards(n, to, GetTask)
      BY <1>0, <2>1, DistGetTaskIs, DistTerminatedIs, SubTerminatedIs
    <3>3. ~Stops(n)
      BY <1>7 DEF Relays, Forwards, Done, Stops
    <3> QED
      BY <1>2, <3>1, <3>2, <3>3
  <2>2. CASE SubGetTask(n)
    <3>1. /\ UNCHANGED end /\ ~Stops(n)
      BY <1>7 DEF Relays, Forwards, Done, Stops
    <3>2. /\ node'[n].tasks = node[n].tasks
          /\ \E ts : tsk' = Offered(ts)
          /\ \E to : Forwards(n, to, GetTask)
      BY <1>0, <2>2, <3>1, SubGetTaskIs
    <3>3. \A u \in Tasks : tsk'[u].state = tsk[u].state /\ tsk'[u].suicide = tsk[u].suicide
      BY <1>0, <3>2, OfferedIs
    <3> QED
      BY <1>2, <3>1, <3>2, <3>3
  <2>3. CASE SubPersistAndSuicide(n)
    BY <2>3, StaleSuicide
  <2>4. CASE DistAddTask(n) \/ SubAddTask(n)
    <3>1. Head(node[n].mail).kind = "AddTask"
      BY <2>4 DEF DistAddTask, SubAddTask, Receives
    <3> QED
      BY <1>7, <3>1 DEF Relays, Forwards
  <2> QED
    BY <1>6, <2>1, <2>2, <2>3, <2>4 DEF NodeStep
<1> QED
  BY <1>0, <1>3, <1>4, <1>5, <1>6, <1>7, NodeStepIs

LEMMA StaleStep ==
  ASSUME OrderInv, Ended, Stale, [Next]_vars
  PROVE  Stale'
<1>0. Typed /\ Delivery /\ Order /\ \A x \in Nodes : node[x].tasks \in SUBSET Tasks
  BY NodeStateIs DEF OrderInv, Typed
<1>1. ASSUME UNCHANGED <<tsk, end>>, \A x \in Nodes : node'[x].tasks \subseteq node[x].tasks
      PROVE  Stale'
  BY <1>0, <1>1, StaleSame
<1>2. CASE UNCHANGED vars
  BY <1>1, <1>2 DEF vars
<1>3. ASSUME NEW t \in Tasks, Upload(t) PROVE Stale'
  <2>1. UNCHANGED <<node, end>> /\ tsk[t].state = "new" /\ TaskTo(t, "sent")
    BY <1>0, <1>3, UploadIs
  <2>2. \A u \in Tasks : (Safe(u)' => Safe(u)) /\ (Given(u) => Given(u)')
    BY <2>1 DEF TaskTo, Given, Safe
  <2> QED
    BY <1>0, <2>1, <2>2, StaleKeeps
<1>4. ASSUME NEW t \in Tasks, TaskStep(t) PROVE Stale'
  BY <1>4, StaleTaskStep
<1>5. ASSUME NEW ver \in Versions, Poll(ver) PROVE Stale'
  BY <1>0, <1>1, <1>5, PollIs
<1>6. ASSUME InstStep PROVE Stale'
  <2>1. CASE InstAddTask
    <3>1. PICK t \in Tasks, d \in Nodes : InstHandsOn(t, d)
      BY <1>0, <2>1, InstAddTaskInOrder
    <3>2. /\ UNCHANGED <<tsk, end>> /\ Delivered(t, d) /\ node[d].state # "stopping"
          /\ \A x \in Nodes \ {d} : node'[x] = node[x]
      BY <3>1 DEF InstHandsOn
    <3>3. node'[d].tasks \subseteq node[d].tasks
      BY <1>0, <3>2, StaleDelivered
    <3> QED
      BY <1>1, <3>2, <3>3
  <2>2. CASE InstGetTask
    <3>1. UNCHANGED <<tsk, end>> /\ \A x \in Nodes : node'[x].tasks = node[x].tasks
      BY <1>0, <2>2, InstGetTaskIs DEF Sent
    <3> QED
      BY <1>1, <3>1
  <2>3. CASE InstTerminated \/ \E ver \in Versions : NoMoreTasks(ver)
    <3>1. UNCHANGED <<node, tsk, end>>
      BY <1>0, <2>3, InstTerminatedIs, NoMoreTasksIs
    <3> QED
      BY <1>1, <3>1
  <2> QED
    BY <1>6, <2>1, <2>2, <2>3 DEF InstStep
<1>7. ASSUME NEW n \in Nodes, NodeStep(n) PROVE Stale'
  BY <1>7, StaleNodeStep
<1> QED
  BY <1>2, <1>3, <1>4, <1>5, <1>6, <1>7 DEF Next

StaleInv == DepsInv /\ Stale

LEMMA StaleImplies ==
  ASSUME StaleInv
  PROVE  StaleListStarvesNobody
<1>1. Ended /\ Deps /\ Stale
  BY DEF StaleInv, DepsInv
<1>2. SUFFICES ASSUME NEW n \in Nodes, NEW u \in node[n].tasks, tsk[u].state \in {"stopping", "gone"},
                      NEW t \in Tasks, OnWay(n, n, t), tsk[t].state \in {"sent", "up", "taken"}
               PROVE  \/ tsk[t].suicide
                      \/ \E m \in Nodes : OnWay(n, m, t) /\ PersistAndSuicide \in Range(node[m].mail)
  BY DEF StaleListStarvesNobody
<1>3. PICK w \in Tasks : Home(w) = n /\ end[w] = "FAILURE"
  BY <1>1, <1>2 DEF Stale, Safe
<1>4. Below(n, t)
  BY <1>2 DEF OnWay, Below
<1>5. CASE Home(t) = n
  BY <1>1, <1>2, <1>3, <1>5 DEF Stale, Given, Safe
<1>6. CASE Home(t) # n
  <2>1. Over(Home(w), Home(t))
    BY <1>3, <1>4, <1>6, BelowHome
  <2>2. tsk[w].state \in {"stopping", "gone"} /\ w \notin node[Home(w)].tasks
    BY <1>1, <1>3 DEF Ended, Stale
  <2>3. Doomed(n, t)
    BY <1>1, <1>3, <2>1, <2>2 DEF Deps, Struck
  <2>4. ASSUME NEW m \in Nodes, Over(n, m), Below(m, t), Has(node[m].mail, PersistAndSuicide)
        PROVE  OnWay(n, m, t) /\ PersistAndSuicide \in Range(node[m].mail)
    BY <2>4 DEF Over, Below, OnWay, IsStrictPrefix, Has, Range
  <2> QED
    BY <1>2, <2>3, <2>4 DEF Doomed, Safe
<1> QED
  BY <1>5, <1>6

(* If no VM asks for a task while a run is uploaded, a list that still names *)
(* tasks that are gone keeps no task below it waiting: each of them has its  *)
(* PersistAndSuicide, or one is under way to it (handleFailure takes only    *)
(* the failed task off the list, PersistAndSuicide goes to all children).    *)
THEOREM StaleListsStarveNobody ==
  ASSUME Undisturbed = TRUE
  PROVE  Spec => []StaleListStarvesNobody
<1>1. Init => StaleInv
  <2>1. ASSUME Init PROVE Stale
    <3>1. \A w \in Tasks : end[w] = "NONE"
      BY <2>1 DEF Init
    <3>2. \A n \in Nodes : node[n].tasks = {}
      BY <2>1 DEF Init, Absent
    <3> QED
      BY <3>1, <3>2 DEF Stale
  <2> QED
    BY <2>1, DepsInit DEF StaleInv
<1>2. StaleInv /\ [Next]_vars => StaleInv'
  <2>1. SUFFICES ASSUME OrderInv, Ended, Deps, Stale, [Next]_vars PROVE StaleInv'
    BY DEF StaleInv, DepsInv
  <2>2. Ended'
    BY <2>1, EndedStep DEF OrderInv
  <2>3. Stale'
    BY <2>1, StaleStep
  <2> QED
    BY <2>1, <2>2, <2>3, OrderInvStep, DepsStep DEF StaleInv, DepsInv
<1>3. StaleInv => StaleListStarvesNobody
  BY StaleImplies
<1> QED
  BY <1>1, <1>2, <1>3, PTL DEF Spec
=============================================================================
