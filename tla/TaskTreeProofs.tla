--------------------------- MODULE TaskTreeProofs ---------------------------
(***************************************************************************)
(* Theorems about TaskTree, for any tasks, paths and runs.                 *)
(***************************************************************************)
EXTENDS TaskTree, SequenceTheorems, TLAPS

-----------------------------------------------------------------------------
(* The shape of the tree *)

\* The way of task t leads through n.
Below(n, t) == n[1] = RunOf[t] /\ IsPrefix(n[2], Path[t])

\* m is on a level above n, in the same branch.
Over(m, n) == m[1] = n[1] /\ IsStrictPrefix(m[2], n[2])

LEMMA PathType ==
  ASSUME NEW t \in Tasks
  PROVE  Path[t] \in Seq(Members) /\ Path[t] # <<>> /\ Len(Path[t]) \in Nat \ {0}
<1>1. Path[t] \in Seq(Members) /\ Path[t] # <<>>
  BY TreeAssumption
<1> QED
  BY <1>1

LEMMA Prefix ==
  ASSUME NEW s \in Seq(Members), NEW k \in 0 .. Len(s)
  PROVE  /\ SubSeq(s, 1, k) \in Seq(Members) /\ Len(SubSeq(s, 1, k)) = k
         /\ \A i \in 1 .. k : SubSeq(s, 1, k)[i] = s[i]
  OBVIOUS

LEMMA SameSeq ==
  ASSUME NEW s \in Seq(Members), NEW t \in Seq(Members), Len(s) = Len(t),
         \A i \in 1 .. Len(s) : s[i] = t[i]
  PROVE  s = t
  BY SeqEqual

LEMMA IsPrefixIs ==
  ASSUME NEW s \in Seq(Members), NEW t \in Seq(Members)
  PROVE  IsPrefix(s, t) <=> Len(s) <= Len(t) /\ \A i \in 1 .. Len(s) : s[i] = t[i]
<1>1. Len(s) \in Nat /\ Len(t) \in Nat /\ Len(s) \in 0 .. Len(s)
  OBVIOUS
<1>2. CASE Len(s) <= Len(t)
  <2>1. Len(s) \in 0 .. Len(t)
    BY <1>1, <1>2
  <2>2. /\ SubSeq(s, 1, Len(s)) \in Seq(Members) /\ Len(SubSeq(s, 1, Len(s))) = Len(s)
        /\ \A i \in 1 .. Len(s) : SubSeq(s, 1, Len(s))[i] = s[i]
    BY <1>1, Prefix
  <2>3. /\ SubSeq(t, 1, Len(s)) \in Seq(Members) /\ Len(SubSeq(t, 1, Len(s))) = Len(s)
        /\ \A i \in 1 .. Len(s) : SubSeq(t, 1, Len(s))[i] = t[i]
    BY <2>1, Prefix
  <2>4. SubSeq(s, 1, Len(s)) = SubSeq(t, 1, Len(s)) <=> \A i \in 1 .. Len(s) : s[i] = t[i]
    BY <2>2, <2>3, SameSeq
  <2> QED
    BY <1>2, <2>4 DEF IsPrefix
<1>3. CASE ~(Len(s) <= Len(t))
  BY <1>3 DEF IsPrefix
<1> QED
  BY <1>2, <1>3

LEMMA NodeIs ==
  ASSUME NEW n
  PROVE  n \in Nodes <=> \E t \in Tasks : \E k \in 0 .. Len(Path[t]) : n = <<RunOf[t], SubSeq(Path[t], 1, k)>>
  BY DEF Nodes

LEMMA NodeType ==
  ASSUME NEW n \in Nodes
  PROVE  /\ n = <<n[1], n[2]>> /\ n[2] \in Seq(Members) /\ Len(n[2]) \in Nat
         /\ \E t \in Tasks : Below(n, t)
<1>0. PICK t \in Tasks : \E k \in 0 .. Len(Path[t]) : n = <<RunOf[t], SubSeq(Path[t], 1, k)>>
  BY NodeIs
<1>1. PICK k \in 0 .. Len(Path[t]) : n = <<RunOf[t], SubSeq(Path[t], 1, k)>>
  BY <1>0
<1>2. Path[t] \in Seq(Members)
  BY PathType
<1>3. n[1] = RunOf[t] /\ n[2] = SubSeq(Path[t], 1, k) /\ n = <<n[1], n[2]>>
  BY <1>1
<1>4. n[2] \in Seq(Members) /\ Len(n[2]) = k /\ \A i \in 1 .. k : n[2][i] = Path[t][i]
  BY <1>2, <1>3, Prefix
<1>5. IsPrefix(n[2], Path[t])
  BY <1>2, <1>4, IsPrefixIs
<1> QED
  BY <1>3, <1>4, <1>5 DEF Below

\* A node is known by its run and the first members of a path.
LEMMA BelowIs ==
  ASSUME NEW n, n = <<n[1], n[2]>>, n[2] \in Seq(Members), NEW t \in Tasks
  PROVE  /\ Below(n, t) <=> n[1] = RunOf[t] /\ Len(n[2]) <= Len(Path[t]) /\ \A i \in 1 .. Len(n[2]) : n[2][i] = Path[t][i]
         /\ Below(n, t) => n \in Nodes /\ n[2] = SubSeq(Path[t], 1, Len(n[2]))
<1>1. Path[t] \in Seq(Members) /\ Len(n[2]) \in Nat
  BY PathType
<1>2. Below(n, t) <=> n[1] = RunOf[t] /\ Len(n[2]) <= Len(Path[t]) /\ \A i \in 1 .. Len(n[2]) : n[2][i] = Path[t][i]
  BY <1>1, IsPrefixIs DEF Below
<1>3. ASSUME Below(n, t) PROVE n \in Nodes /\ n[2] = SubSeq(Path[t], 1, Len(n[2]))
  <2>1. PICK k : k = Len(n[2])
    OBVIOUS
  <2>2. k \in 0 .. Len(Path[t]) /\ \A i \in 1 .. k : n[2][i] = Path[t][i]
    BY <1>1, <1>2, <1>3, <2>1, PathType
  <2>3. /\ SubSeq(Path[t], 1, k) \in Seq(Members) /\ Len(SubSeq(Path[t], 1, k)) = k
        /\ \A i \in 1 .. k : SubSeq(Path[t], 1, k)[i] = Path[t][i]
    BY <1>1, <2>2, Prefix
  <2>4. n[2] = SubSeq(Path[t], 1, k)
    <3>1. PICK p, q : p = n[2] /\ q = SubSeq(Path[t], 1, k)
      OBVIOUS
    <3>2. p \in Seq(Members) /\ q \in Seq(Members) /\ Len(p) = Len(q)
      BY <2>1, <2>3, <3>1
    <3>3. \A i \in 1 .. Len(p) : p[i] = q[i]
      BY <2>1, <2>2, <2>3, <3>1
    <3> QED
      BY <3>1, <3>2, <3>3, SameSeq
  <2>5. n = <<RunOf[t], SubSeq(Path[t], 1, k)>>
    BY <1>2, <1>3, <2>4
  <2> QED
    BY <2>1, <2>2, <2>4, <2>5, NodeIs
<1> QED
  BY <1>2, <1>3

\* m is over n when its path is a shorter part of n's.
LEMMA OverIs ==
  ASSUME NEW m \in Nodes, NEW n \in Nodes
  PROVE  Over(m, n) <=> /\ m[1] = n[1] /\ Len(m[2]) < Len(n[2])
                        /\ \A i \in 1 .. Len(m[2]) : m[2][i] = n[2][i]
<1>1. /\ m[2] \in Seq(Members) /\ n[2] \in Seq(Members)
      /\ Len(m[2]) \in Nat /\ Len(n[2]) \in Nat
  BY NodeType
<1>2. IsPrefix(m[2], n[2]) <=> Len(m[2]) <= Len(n[2]) /\ \A i \in 1 .. Len(m[2]) : m[2][i] = n[2][i]
  BY <1>1, IsPrefixIs
<1>3. IsPrefix(m[2], n[2]) /\ Len(m[2]) = Len(n[2]) => m[2] = n[2]
  BY <1>1, <1>2, SameSeq
<1>4. m[2] = n[2] => Len(m[2]) = Len(n[2])
  OBVIOUS
<1> QED
  BY <1>1, <1>2, <1>3, <1>4 DEF Over, IsStrictPrefix

LEMMA OverTrans ==
  ASSUME NEW l \in Nodes, NEW m \in Nodes, NEW n \in Nodes, Over(l, m), Over(m, n)
  PROVE  Over(l, n)
<1>1. Len(l[2]) \in Nat /\ Len(m[2]) \in Nat /\ Len(n[2]) \in Nat
  BY NodeType
<1>2. /\ l[1] = m[1] /\ Len(l[2]) < Len(m[2])
      /\ \A i \in 1 .. Len(l[2]) : l[2][i] = m[2][i]
  BY OverIs
<1>3. /\ m[1] = n[1] /\ Len(m[2]) < Len(n[2])
      /\ \A i \in 1 .. Len(m[2]) : m[2][i] = n[2][i]
  BY OverIs
<1>4. Len(l[2]) < Len(n[2])
  BY <1>1, <1>2, <1>3
<1>5. \A i \in 1 .. Len(l[2]) : l[2][i] = n[2][i]
  BY <1>1, <1>2, <1>3
<1> QED
  BY <1>2, <1>3, <1>4, <1>5, OverIs

LEMMA OverIsOther ==
  ASSUME NEW n \in Nodes
  PROVE  ~Over(n, n)
  BY NodeType, OverIs

LEMMA HomeIs ==
  ASSUME NEW t \in Tasks
  PROVE  Home(t) \in Nodes /\ Below(Home(t), t) /\ ~IsDistributor(Home(t))
<1>1. /\ Home(t) = <<Home(t)[1], Home(t)[2]>> /\ Home(t)[1] = RunOf[t] /\ Home(t)[2] = Path[t]
      /\ Path[t] \in Seq(Members) /\ Path[t] # <<>> /\ Len(Path[t]) \in Nat
  BY PathType DEF Home
<1>2. Below(Home(t), t)
  BY <1>1, BelowIs
<1> QED
  BY <1>1, <1>2, BelowIs DEF IsDistributor

LEMMA DistributorIs ==
  ASSUME NEW t \in Tasks
  PROVE  /\ Distributor(RunOf[t]) \in Nodes /\ Below(Distributor(RunOf[t]), t)
         /\ IsDistributor(Distributor(RunOf[t])) /\ Distributor(RunOf[t]) # Home(t)
<1> DEFINE d == Distributor(RunOf[t])
<1>1. d = <<d[1], d[2]>> /\ d[1] = RunOf[t] /\ d[2] = <<>> /\ d[2] \in Seq(Members) /\ Len(d[2]) = 0
  BY DEF Distributor
<1>2. Len(Path[t]) \in Nat
  BY PathType
<1>3. Below(d, t)
  <2> HIDE DEF d
  <2>1. Len(d[2]) <= Len(Path[t]) /\ \A i \in 1 .. Len(d[2]) : d[2][i] = Path[t][i]
    BY <1>1, <1>2
  <2> QED
    BY <1>1, <2>1, BelowIs
<1>4. d \in Nodes
  <2> HIDE DEF d
  <2> QED
    BY <1>1, <1>3, BelowIs
<1>5. IsDistributor(d)
  BY <1>1 DEF IsDistributor
<1> QED
  BY <1>3, <1>4, <1>5, HomeIs

\* The next actor on the way of t.
LEMMA TowardIs ==
  ASSUME NEW n \in Nodes, NEW t \in Tasks, Below(n, t), Home(t) # n
  PROVE  /\ Toward(n, t) \in Nodes /\ Below(Toward(n, t), t) /\ ~IsDistributor(Toward(n, t))
         /\ Above(Toward(n, t)) = n /\ Over(n, Toward(n, t)) /\ Toward(n, t) # n
<1>1. PICK k : k = Len(n[2])
  OBVIOUS
<1>2. PICK c : c = Toward(n, t)
  OBVIOUS
<1>3. n = <<n[1], n[2]>> /\ n[2] \in Seq(Members) /\ k \in Nat
  BY <1>1, NodeType
<1>4. Path[t] \in Seq(Members) /\ Len(Path[t]) \in Nat
  BY PathType
<1>5. n[1] = RunOf[t] /\ k <= Len(Path[t]) /\ \A i \in 1 .. k : n[2][i] = Path[t][i]
  BY <1>1, <1>3, BelowIs
<1>6. k < Len(Path[t])
  <2>1. SUFFICES ASSUME k = Len(Path[t]) PROVE FALSE
    BY <1>3, <1>4, <1>5
  <2>2. n[2] = Path[t]
    BY <2>1, <1>1, <1>3, <1>4, <1>5, SameSeq
  <2> QED
    BY <2>2, <1>3, <1>5 DEF Home
<1>7. k + 1 \in 0 .. Len(Path[t]) /\ k + 1 \in Nat
  BY <1>3, <1>4, <1>6
<1>8. c = <<c[1], c[2]>> /\ c[1] = n[1] /\ c[2] = SubSeq(Path[t], 1, k + 1)
  BY <1>1, <1>2 DEF Toward
<1>9. c[2] \in Seq(Members) /\ Len(c[2]) = k + 1 /\ \A i \in 1 .. k + 1 : c[2][i] = Path[t][i]
  BY <1>4, <1>7, <1>8, Prefix
<1>10. Below(c, t) /\ c \in Nodes
  <2>1. Len(c[2]) <= Len(Path[t]) /\ \A i \in 1 .. Len(c[2]) : c[2][i] = Path[t][i]
    BY <1>7, <1>9
  <2> QED
    BY <1>5, <1>8, <1>9, <2>1, BelowIs
<1>11. ~IsDistributor(c)
  BY <1>3, <1>9 DEF IsDistributor
<1>12. Above(c) = n
  <2>1. k \in 0 .. Len(c[2])
    BY <1>3, <1>9
  <2>2. /\ SubSeq(c[2], 1, k) \in Seq(Members) /\ Len(SubSeq(c[2], 1, k)) = k
        /\ \A i \in 1 .. k : SubSeq(c[2], 1, k)[i] = c[2][i]
    BY <1>9, <2>1, Prefix
  <2>3. SubSeq(c[2], 1, k) = n[2]
    <3>1. \A i \in 1 .. k : c[2][i] = n[2][i]
      BY <1>3, <1>5, <1>9
    <3> QED
      BY <1>1, <1>3, <2>2, <3>1, SameSeq
  <2>4. Len(c[2]) - 1 = k
    BY <1>3, <1>9
  <2>5. Front(c[2]) = n[2]
    BY <2>3, <2>4 DEF Front
  <2> QED
    BY <1>3, <1>8, <2>5 DEF Above
<1>13. Over(n, c)
  <2>1. \A i \in 1 .. k : n[2][i] = c[2][i]
    BY <1>3, <1>5, <1>9
  <2>2. k < Len(c[2])
    BY <1>3, <1>9
  <2> QED
    BY <1>1, <1>8, <1>10, <2>1, <2>2, OverIs
<1> QED
  BY <1>2, <1>10, <1>11, <1>12, <1>13, OverIsOther

\* The actor that has created c.
LEMMA AboveIs ==
  ASSUME NEW c \in Nodes, ~IsDistributor(c)
  PROVE  Above(c) \in Nodes /\ Over(Above(c), c) /\ Above(c) # c
<1>1. PICK n : n = Above(c)
  OBVIOUS
<1>2. c = <<c[1], c[2]>> /\ c[2] \in Seq(Members) /\ Len(c[2]) \in Nat
  BY NodeType
<1>3. c[2] # <<>>
  BY DEF IsDistributor
<1>4. PICK k : k = Len(c[2]) - 1
  OBVIOUS
<1>5. k \in Nat /\ k \in 0 .. Len(c[2]) /\ k < Len(c[2])
  BY <1>2, <1>3, <1>4
<1>6. n = <<n[1], n[2]>> /\ n[1] = c[1] /\ n[2] = SubSeq(c[2], 1, k)
  BY <1>1, <1>4 DEF Above, Front
<1>7. n[2] \in Seq(Members) /\ Len(n[2]) = k /\ \A i \in 1 .. k : n[2][i] = c[2][i]
  BY <1>2, <1>5, <1>6, Prefix
<1>8. PICK t \in Tasks : Below(c, t)
  BY NodeType
<1>9. /\ c[1] = RunOf[t] /\ Len(c[2]) <= Len(Path[t])
      /\ \A i \in 1 .. Len(c[2]) : c[2][i] = Path[t][i]
  BY <1>2, <1>8, BelowIs
<1>10. Len(Path[t]) \in Nat
  BY PathType
<1>11. k <= Len(Path[t]) /\ \A i \in 1 .. k : n[2][i] = Path[t][i]
  BY <1>2, <1>5, <1>7, <1>9, <1>10
<1>12. n \in Nodes
  BY <1>6, <1>7, <1>9, <1>11, BelowIs
<1>13. Over(n, c)
  BY <1>5, <1>6, <1>7, <1>12, OverIs
<1> QED
  BY <1>1, <1>12, <1>13, OverIsOther

-----------------------------------------------------------------------------
(* Mailboxes *)

Has(mail, m) == \E i \in DOMAIN mail : mail[i] = m
Once(mail, m) == \A i, j \in DOMAIN mail : mail[i] = m /\ mail[j] = m => i = j

LEMMA HasEmpty ==
  ASSUME NEW x
  PROVE  ~Has(<<>>, x) /\ Once(<<>>, x)
  BY DEF Has, Once

LEMMA HasTail ==
  ASSUME NEW S, NEW mail \in Seq(S), mail # <<>>, NEW x
  PROVE  /\ Tail(mail) \in Seq(S) /\ Head(mail) \in S /\ Has(mail, Head(mail))
         /\ Has(Tail(mail), x) => Has(mail, x)
         /\ Has(mail, x) => x = Head(mail) \/ Has(Tail(mail), x)
         /\ Once(mail, x) => Once(Tail(mail), x)
         /\ Once(mail, x) /\ x = Head(mail) => ~Has(Tail(mail), x)
<1>1. /\ Tail(mail) \in Seq(S) /\ Head(mail) \in S /\ Len(mail) \in Nat \ {0}
      /\ DOMAIN mail = 1 .. Len(mail) /\ DOMAIN Tail(mail) = 1 .. Len(mail) - 1
      /\ \A i \in 1 .. Len(mail) - 1 : Tail(mail)[i] = mail[i + 1]
      /\ Head(mail) = mail[1]
  OBVIOUS
<1>2. Has(mail, Head(mail))
  BY <1>1 DEF Has
<1>3. Has(Tail(mail), x) => Has(mail, x)
  <2>1. SUFFICES ASSUME NEW i \in 1 .. Len(mail) - 1, Tail(mail)[i] = x PROVE Has(mail, x)
    BY <1>1 DEF Has
  <2>2. i + 1 \in DOMAIN mail /\ mail[i + 1] = x
    BY <1>1, <2>1
  <2> QED
    BY <2>2 DEF Has
<1>4. Has(mail, x) => x = Head(mail) \/ Has(Tail(mail), x)
  <2>1. SUFFICES ASSUME NEW i \in 1 .. Len(mail), mail[i] = x PROVE x = Head(mail) \/ Has(Tail(mail), x)
    BY <1>1 DEF Has
  <2>2. CASE i = 1
    BY <1>1, <2>1, <2>2
  <2>3. CASE i # 1
    <3>1. i - 1 \in 1 .. Len(mail) - 1 /\ i - 1 + 1 = i
      BY <1>1, <2>3
    <3>2. Tail(mail)[i - 1] = x
      BY <1>1, <2>1, <3>1
    <3> QED
      BY <1>1, <3>1, <3>2 DEF Has
  <2> QED
    BY <2>2, <2>3
<1>5. Once(mail, x) => Once(Tail(mail), x)
  <2>1. SUFFICES ASSUME Once(mail, x), NEW i \in 1 .. Len(mail) - 1, NEW j \in 1 .. Len(mail) - 1,
                        Tail(mail)[i] = x, Tail(mail)[j] = x
                 PROVE  i = j
    BY <1>1 DEF Once
  <2>2. i + 1 \in DOMAIN mail /\ mail[i + 1] = x /\ j + 1 \in DOMAIN mail /\ mail[j + 1] = x
    BY <1>1, <2>1
  <2>3. i + 1 = j + 1
    BY <2>1, <2>2 DEF Once
  <2> QED
    BY <2>3
<1>6. Once(mail, x) /\ x = Head(mail) => ~Has(Tail(mail), x)
  <2>1. SUFFICES ASSUME Once(mail, x), x = Head(mail), NEW i \in 1 .. Len(mail) - 1, Tail(mail)[i] = x
                 PROVE  FALSE
    BY <1>1 DEF Has
  <2>2. i + 1 \in DOMAIN mail /\ mail[i + 1] = x /\ 1 \in DOMAIN mail /\ mail[1] = x
    BY <1>1, <2>1
  <2>3. i + 1 = 1
    BY <2>1, <2>2 DEF Once
  <2> QED
    BY <2>3
<1> QED
  BY <1>1, <1>2, <1>3, <1>4, <1>5, <1>6

LEMMA HasAppend ==
  ASSUME NEW S, NEW mail \in Seq(S), NEW m \in S, NEW x
  PROVE  /\ Append(mail, m) \in Seq(S)
         /\ Has(Append(mail, m), x) <=> Has(mail, x) \/ x = m
         /\ Once(mail, x) /\ (x # m \/ ~Has(mail, x)) => Once(Append(mail, m), x)
<1>1. PICK q : q = Append(mail, m)
  OBVIOUS
<1>2. /\ q \in Seq(S) /\ Len(mail) \in Nat
      /\ DOMAIN mail = 1 .. Len(mail) /\ DOMAIN q = 1 .. Len(mail) + 1
      /\ \A i \in 1 .. Len(mail) : q[i] = mail[i]
      /\ q[Len(mail) + 1] = m
  BY <1>1
<1>3. Has(q, x) <=> Has(mail, x) \/ x = m
  BY <1>2 DEF Has
<1>4. Once(mail, x) /\ (x # m \/ ~Has(mail, x)) => Once(q, x)
  BY <1>2 DEF Has, Once
<1> QED
  BY <1>1, <1>2, <1>3, <1>4

\* No AddTask comes in.
Quiet(mail, mail2) ==
  \A t \in Tasks : /\ Has(mail2, AddTask(t)) => Has(mail, AddTask(t))
                   /\ Once(mail, AddTask(t)) => Once(mail2, AddTask(t))

NodeMsgs ==
  {AddTask(t) : t \in Tasks} \cup {GetTask, PersistAndSuicide, TaskTerminated}
    \cup {Terminated(ref) : ref \in Refs}

InstMsgs ==
  {AddTask(t) : t \in Tasks} \cup {GetTaskOf(ver) : ver \in Versions}
    \cup {Terminated(ref) : ref \in Refs}

LEMMA MsgKinds ==
  /\ \A t, u \in Tasks : AddTask(t) = AddTask(u) => t = u
  /\ \A t \in Tasks : AddTask(t).kind = "AddTask" /\ AddTask(t).task = t
  /\ GetTask.kind = "GetTask" /\ PersistAndSuicide.kind = "PersistAndSuicide"
  /\ TaskTerminated.kind = "Terminated"
  /\ \A ver \in Versions : GetTaskOf(ver).kind = "GetTask"
  /\ \A ref \in Refs : Terminated(ref).kind = "Terminated" /\ Terminated(ref).ref = ref
  BY DEF AddTask, GetTask, PersistAndSuicide, TaskTerminated, GetTaskOf, Terminated

LEMMA NodeMsgIs ==
  ASSUME NEW m \in NodeMsgs
  PROVE  /\ m.kind = "AddTask" => m.task \in Tasks /\ m = AddTask(m.task)
         /\ m.kind = "GetTask" => m = GetTask
         /\ m.kind = "PersistAndSuicide" => m = PersistAndSuicide
         /\ \A t \in Tasks : m = AddTask(t) => m.kind = "AddTask" /\ m.task = t
  BY MsgKinds DEF NodeMsgs

LEMMA InstMsgIs ==
  ASSUME NEW m \in InstMsgs
  PROVE  /\ m.kind = "AddTask" => m.task \in Tasks /\ m = AddTask(m.task)
         /\ m.kind = "GetTask" => \E ver \in Versions : m = GetTaskOf(ver)
         /\ m.kind = "Terminated" => m.ref \in Refs /\ m = Terminated(m.ref)
         /\ \A t \in Tasks : m = AddTask(t) => m.kind = "AddTask" /\ m.task = t
  BY MsgKinds DEF InstMsgs

LEMMA QuietSame ==
  ASSUME NEW mail
  PROVE  Quiet(mail, mail)
  BY DEF Quiet

LEMMA QuietEmpty ==
  ASSUME NEW mail
  PROVE  Quiet(mail, <<>>)
  BY HasEmpty DEF Quiet

LEMMA QuietTail ==
  ASSUME NEW S, NEW mail \in Seq(S), mail # <<>>
  PROVE  Quiet(mail, Tail(mail))
  BY HasTail DEF Quiet

LEMMA QuietAppend ==
  ASSUME NEW S, NEW mail \in Seq(S), NEW m \in S, m.kind # "AddTask"
  PROVE  Quiet(mail, Append(mail, m))
<1>1. \A t \in Tasks : AddTask(t) # m
  BY MsgKinds
<1> QED
  BY <1>1, HasAppend DEF Quiet

LEMMA QuietTrans ==
  ASSUME NEW a, NEW b, NEW c, Quiet(a, b), Quiet(b, c)
  PROVE  Quiet(a, c)
  BY DEF Quiet

-----------------------------------------------------------------------------
(* Types *)

NodeStates ==
  [state : {"none", "up", "stopping"}, mail : Seq(NodeMsgs), tasks : SUBSET Tasks,
   singles : SUBSET Refs, groups : SUBSET Refs, born : Nat]

TaskStates ==
  [state : {"new", "sent", "lost", "up", "taken", "success", "failure", "stopping", "gone"},
   offered : BOOLEAN, suicide : BOOLEAN]

Typed ==
  /\ inst \in [mail : Seq(InstMsgs), instances : SUBSET Refs]
  /\ node \in [Nodes -> NodeStates]
  /\ tsk \in [Tasks -> TaskStates]
  /\ end \in [Tasks -> {"NONE", "SUCCESS", "FAILURE", "ABANDONED"}]

LEMMA NodeStateIs ==
  ASSUME NEW s \in NodeStates
  PROVE  /\ s.state \in {"none", "up", "stopping"} /\ s.mail \in Seq(NodeMsgs) /\ s.tasks \in SUBSET Tasks
         /\ s.singles \in SUBSET Refs /\ s.groups \in SUBSET Refs /\ s.born \in Nat
  BY DEF NodeStates

LEMMA PostIs ==
  ASSUME NEW nd \in [Nodes -> NodeStates], NEW to, NEW m \in NodeMsgs
  PROVE  /\ Post(nd, to, m) \in [Nodes -> NodeStates]
         /\ \A n \in Nodes :
              /\ n \in to /\ nd[n].state = "up" =>
                   /\ Post(nd, to, m)[n].mail = Append(nd[n].mail, m)
                   /\ Post(nd, to, m)[n].state = "up" /\ Post(nd, to, m)[n].tasks = nd[n].tasks
                   /\ Post(nd, to, m)[n].singles = nd[n].singles
                   /\ Post(nd, to, m)[n].groups = nd[n].groups /\ Post(nd, to, m)[n].born = nd[n].born
              /\ ~(n \in to /\ nd[n].state = "up") => Post(nd, to, m)[n] = nd[n]
<1>1. \A n \in Nodes : Post(nd, to, m)[n] = IF n \in to /\ nd[n].state = "up"
                                            THEN [nd[n] EXCEPT !.mail = Append(nd[n].mail, m)] ELSE nd[n]
  BY DEF Post
<1>2. ASSUME NEW n \in Nodes, n \in to, nd[n].state = "up"
      PROVE  /\ Post(nd, to, m)[n] \in NodeStates
             /\ Post(nd, to, m)[n].mail = Append(nd[n].mail, m)
             /\ Post(nd, to, m)[n].state = "up" /\ Post(nd, to, m)[n].tasks = nd[n].tasks
             /\ Post(nd, to, m)[n].singles = nd[n].singles
             /\ Post(nd, to, m)[n].groups = nd[n].groups /\ Post(nd, to, m)[n].born = nd[n].born
  <2>1. nd[n] \in NodeStates
    OBVIOUS
  <2>2. PICK a \in NodeStates : a = nd[n]
    BY <2>1
  <2>3. Append(a.mail, m) \in Seq(NodeMsgs)
    BY NodeStateIs, HasAppend
  <2>4. PICK b : b = Append(a.mail, m)
    OBVIOUS
  <2>5. PICK p : p = [a EXCEPT !.mail = b]
    OBVIOUS
  <2>6. /\ p \in NodeStates /\ p.mail = b /\ p.state = a.state /\ p.tasks = a.tasks
        /\ p.singles = a.singles /\ p.groups = a.groups /\ p.born = a.born
    BY <2>3, <2>4, <2>5 DEF NodeStates
  <2>7. Post(nd, to, m)[n] = p
    BY <1>1, <1>2, <2>2, <2>4, <2>5
  <2> QED
    BY <1>2, <2>2, <2>4, <2>6, <2>7
<1>3. \A n \in Nodes : Post(nd, to, m)[n] \in NodeStates
  BY <1>1, <1>2
<1>4. Post(nd, to, m) \in [Nodes -> NodeStates]
  BY <1>3 DEF Post
<1> QED
  BY <1>1, <1>2, <1>4

LEMMA HandledIs ==
  ASSUME Typed, NEW n \in Nodes, node[n].mail # <<>>
  PROVE  /\ Handled(n) \in [Nodes -> NodeStates]
         /\ Handled(n)[n].mail = Tail(node[n].mail) /\ Handled(n)[n].state = node[n].state
         /\ Handled(n)[n].tasks = node[n].tasks /\ Handled(n)[n].singles = node[n].singles
         /\ Handled(n)[n].groups = node[n].groups /\ Handled(n)[n].born = node[n].born
         /\ \A x \in Nodes \ {n} : Handled(n)[x] = node[x]
<1>1. PICK a \in NodeStates : a = node[n]
  BY DEF Typed
<1>2. PICK b : b = Tail(a.mail)
  OBVIOUS
<1>3. b \in Seq(NodeMsgs)
  BY <1>1, <1>2, NodeStateIs, HasTail
<1>4. PICK p : p = [a EXCEPT !.mail = b]
  OBVIOUS
<1>5. /\ p \in NodeStates /\ p.mail = b /\ p.state = a.state /\ p.tasks = a.tasks
      /\ p.singles = a.singles /\ p.groups = a.groups /\ p.born = a.born
  BY <1>3, <1>4 DEF NodeStates
<1>6. Handled(n) = [node EXCEPT ![n] = p]
  BY <1>1, <1>2, <1>4 DEF Handled
<1> QED
  BY <1>1, <1>2, <1>5, <1>6 DEF Typed

LEMMA CreatedIs ==
  ASSUME NEW nd \in [Nodes -> NodeStates], NEW n \in Nodes, NEW m \in NodeMsgs
  PROVE  /\ Created(nd, n, m) \in [Nodes -> NodeStates]
         /\ Created(nd, n, m)[n].mail = Append(<<>>, m) /\ Created(nd, n, m)[n].state = "up"
         /\ Created(nd, n, m)[n].tasks = {} /\ Created(nd, n, m)[n].singles = {}
         /\ Created(nd, n, m)[n].groups = {} /\ Created(nd, n, m)[n].born = nd[n].born + 1
         /\ \A x \in Nodes \ {n} : Created(nd, n, m)[x] = nd[x]
<1>1. PICK b : b = nd[n].born + 1
  OBVIOUS
<1>2. b \in Nat
  BY <1>1, NodeStateIs
<1>3. PICK q : q = <<m>>
  OBVIOUS
<1>4. q \in Seq(NodeMsgs) /\ q = Append(<<>>, m)
  BY <1>3
<1>5. PICK a \in NodeStates : a = Absent
  <2>1. <<>> \in Seq(NodeMsgs) /\ 0 \in Nat
    OBVIOUS
  <2> QED
    BY <2>1 DEF Absent, NodeStates
<1>6. a.tasks = {} /\ a.singles = {} /\ a.groups = {}
  BY <1>5 DEF Absent
<1>7. PICK p : p = [a EXCEPT !.state = "up", !.mail = q, !.born = b]
  OBVIOUS
<1>8. /\ p \in NodeStates /\ p.mail = q /\ p.state = "up" /\ p.tasks = a.tasks
      /\ p.singles = a.singles /\ p.groups = a.groups /\ p.born = b
  BY <1>2, <1>4, <1>7 DEF NodeStates
<1>9. Created(nd, n, m) = [nd EXCEPT ![n] = p]
  BY <1>1, <1>3, <1>5, <1>7 DEF Created
<1> QED
  BY <1>1, <1>4, <1>6, <1>8, <1>9

LEMMA StopIs ==
  ASSUME NEW nd \in [Nodes -> NodeStates], NEW n \in Nodes
  PROVE  /\ Stop(nd, n) \in [Nodes -> NodeStates]
         /\ Stop(nd, n)[n].mail = <<>> /\ Stop(nd, n)[n].state = "stopping"
         /\ Stop(nd, n)[n].tasks = nd[n].tasks /\ Stop(nd, n)[n].singles = nd[n].singles
         /\ Stop(nd, n)[n].groups = nd[n].groups /\ Stop(nd, n)[n].born = nd[n].born
         /\ \A x \in Nodes \ {n} : Stop(nd, n)[x] = nd[x]
<1>1. PICK a \in NodeStates : a = nd[n]
  OBVIOUS
<1>2. PICK p : p = [[a EXCEPT !.state = "stopping"] EXCEPT !.mail = <<>>]
  OBVIOUS
<1>3. <<>> \in Seq(NodeMsgs)
  OBVIOUS
<1>4. /\ p \in NodeStates /\ p.mail = <<>> /\ p.state = "stopping" /\ p.tasks = a.tasks
      /\ p.singles = a.singles /\ p.groups = a.groups /\ p.born = a.born
  BY <1>2, <1>3 DEF NodeStates
<1>5. Stop(nd, n) = [nd EXCEPT ![n] = p]
  <2>1. PICK a1 : a1 = [a EXCEPT !.state = "stopping"]
    OBVIOUS
  <2>2. PICK nd1 : nd1 = [nd EXCEPT ![n] = a1]
    OBVIOUS
  <2>3. nd1[n] = a1 /\ p = [a1 EXCEPT !.mail = <<>>]
    BY <1>2, <2>1, <2>2
  <2>4. Stop(nd, n) = [nd1 EXCEPT ![n].mail = <<>>]
    BY <1>1, <2>1, <2>2 DEF Stop
  <2>5. Stop(nd, n) = [nd1 EXCEPT ![n] = p]
    BY <2>3, <2>4
  <2> QED
    BY <2>2, <2>5
<1> QED
  BY <1>1, <1>4, <1>5

LEMMA TaskStateIs ==
  ASSUME NEW s \in TaskStates
  PROVE  /\ s.state \in {"new", "sent", "lost", "up", "taken", "success", "failure", "stopping", "gone"}
         /\ s.offered \in BOOLEAN /\ s.suicide \in BOOLEAN
  BY DEF TaskStates

LEMMA LoseIs ==
  ASSUME Typed, NEW lost
  PROVE  /\ Lose(lost) \in [Tasks -> TaskStates]
         /\ \A t \in Tasks : /\ Lose(lost)[t].offered = tsk[t].offered /\ Lose(lost)[t].suicide = tsk[t].suicide
                             /\ t \in lost => Lose(lost)[t].state = "lost"
                             /\ t \notin lost => Lose(lost)[t] = tsk[t]
<1>1. \A t \in Tasks : Lose(lost)[t] = IF t \in lost THEN [tsk[t] EXCEPT !.state = "lost"] ELSE tsk[t]
  BY DEF Lose
<1>2. \A s \in TaskStates : /\ [s EXCEPT !.state = "lost"] \in TaskStates
                            /\ [s EXCEPT !.state = "lost"].state = "lost"
                            /\ [s EXCEPT !.state = "lost"].offered = s.offered
                            /\ [s EXCEPT !.state = "lost"].suicide = s.suicide
  BY DEF TaskStates
<1>3. \A t \in Tasks : tsk[t] \in TaskStates
  BY DEF Typed
<1>4. \A t \in Tasks : Lose(lost)[t] \in TaskStates
  BY <1>1, <1>2, <1>3
<1>5. Lose(lost) \in [Tasks -> TaskStates]
  BY <1>4 DEF Lose
<1> QED
  BY <1>1, <1>2, <1>3, <1>5

LEMMA OfferedIs ==
  ASSUME Typed, NEW ts
  PROVE  /\ Offered(ts) \in [Tasks -> TaskStates]
         /\ \A t \in Tasks : /\ Offered(ts)[t].state = tsk[t].state /\ Offered(ts)[t].suicide = tsk[t].suicide
                             /\ t \in ts /\ Handles(t) => Offered(ts)[t].offered
                             /\ ~(t \in ts /\ Handles(t)) => Offered(ts)[t] = tsk[t]
<1>1. \A t \in Tasks : Offered(ts)[t] = IF t \in ts /\ Handles(t) THEN [tsk[t] EXCEPT !.offered = TRUE] ELSE tsk[t]
  BY DEF Offered
<1>2. \A s \in TaskStates : /\ [s EXCEPT !.offered = TRUE] \in TaskStates
                            /\ [s EXCEPT !.offered = TRUE].offered = TRUE
                            /\ [s EXCEPT !.offered = TRUE].state = s.state
                            /\ [s EXCEPT !.offered = TRUE].suicide = s.suicide
  BY DEF TaskStates
<1>3. \A t \in Tasks : tsk[t] \in TaskStates
  BY DEF Typed
<1>4. \A t \in Tasks : Offered(ts)[t] \in TaskStates
  BY <1>1, <1>2, <1>3
<1>5. Offered(ts) \in [Tasks -> TaskStates]
  BY <1>4 DEF Offered
<1> QED
  BY <1>1, <1>2, <1>3, <1>5

LEMMA AdvisedIs ==
  ASSUME Typed, NEW ts
  PROVE  /\ Advised(ts) \in [Tasks -> TaskStates]
         /\ \A t \in Tasks : /\ Advised(ts)[t].state = tsk[t].state /\ Advised(ts)[t].offered = tsk[t].offered
                             /\ t \in ts /\ Handles(t) => Advised(ts)[t].suicide
                             /\ ~(t \in ts /\ Handles(t)) => Advised(ts)[t] = tsk[t]
<1>1. \A t \in Tasks : Advised(ts)[t] = IF t \in ts /\ Handles(t) THEN [tsk[t] EXCEPT !.suicide = TRUE] ELSE tsk[t]
  BY DEF Advised
<1>2. \A s \in TaskStates : /\ [s EXCEPT !.suicide = TRUE] \in TaskStates
                            /\ [s EXCEPT !.suicide = TRUE].suicide = TRUE
                            /\ [s EXCEPT !.suicide = TRUE].state = s.state
                            /\ [s EXCEPT !.suicide = TRUE].offered = s.offered
  BY DEF TaskStates
<1>3. \A t \in Tasks : tsk[t] \in TaskStates
  BY DEF Typed
<1>4. \A t \in Tasks : Advised(ts)[t] \in TaskStates
  BY <1>1, <1>2, <1>3
<1>5. Advised(ts) \in [Tasks -> TaskStates]
  BY <1>4 DEF Advised
<1> QED
  BY <1>1, <1>2, <1>3, <1>5

-----------------------------------------------------------------------------
(* What the steps do to the mailboxes and the states of the actors *)

\* An actor that is not up has no mail, the lists of a Distributor name its
\* children, instances names Distributors, and an AddTask is on its way in one
\* mailbox.
Lists(n) == node[n].singles \cup node[n].groups

Delivery ==
  /\ \A n \in Nodes : node[n].state # "up" => node[n].mail = <<>>
  /\ \A n \in Nodes : \A ref \in Lists(n) : ~IsDistributor(ref[1]) /\ Above(ref[1]) = n
  /\ \A ref \in inst.instances : IsDistributor(ref[1])
  /\ \A t \in Tasks : Once(inst.mail, AddTask(t))
  /\ \A n \in Nodes, t \in Tasks : Once(node[n].mail, AddTask(t))
  /\ \A t \in Tasks : Has(inst.mail, AddTask(t)) =>
       tsk[t].state = "sent" /\ \A n \in Nodes : ~Has(node[n].mail, AddTask(t))
  /\ \A n \in Nodes, t \in Tasks : Has(node[n].mail, AddTask(t)) =>
       /\ tsk[t].state = "sent" /\ Below(n, t)
       /\ \A m \in Nodes : Has(node[m].mail, AddTask(t)) => m = n

\* Actor c, created if need be, is sent AddTask(t).
Delivered(t, c) ==
  /\ node[c].state = "stopping" => node'[c] = node[c]
  /\ node[c].state # "stopping" =>
       node'[c].state = "up" /\ node'[c].mail = Append(node[c].mail, AddTask(t))
  /\ node[c].state = "up" => /\ node'[c].tasks = node[c].tasks /\ node'[c].born = node[c].born
                             /\ Lists(c)' = Lists(c)
  /\ node[c].state = "none" => /\ node'[c].tasks = {} /\ node'[c].born = node[c].born + 1
                               /\ Lists(c)' = {}
  /\ tsk' = Lose(IF node[c].state = "stopping" THEN {t} ELSE {})

\* The first message of n is done.
Done(n) ==
  /\ node[n].state = "up" /\ node[n].mail # <<>>
  /\ node'[n].mail = Tail(node[n].mail) /\ node'[n].state = "up" /\ node'[n].born = node[n].born

\* n hands AddTask(t) on to its child c.
Passes(n, t, c) ==
  /\ Done(n) /\ Head(node[n].mail) = AddTask(t) /\ node'[n].tasks = node[n].tasks
  /\ Lists(n)' \subseteq Lists(n) \cup {<<c, node[c].born + 1>>}
  /\ Delivered(t, c)
  /\ \A x \in Nodes \ {n, c} : node'[x] = node[x]

\* n stops itself.
Stops(n) ==
  /\ node[n].state = "up" /\ node[n].mail # <<>> /\ Head(node[n].mail).kind # "AddTask"
  /\ NoChildren(n)
  /\ node'[n].state = "stopping" /\ node'[n].mail = <<>> /\ node'[n].born = node[n].born
  /\ node'[n].tasks = node[n].tasks /\ Lists(n)' = Lists(n)
  /\ \A x \in Nodes \ {n} : node'[x] = node[x]
  /\ tsk' = Lose(LostWith(node, n))

\* What becomes of x when the actors in to are sent m.
Sent(x, to, m) ==
  /\ ~(x \in to /\ node[x].state = "up") => node'[x] = node[x]
  /\ x \in to /\ node[x].state = "up" =>
       /\ node'[x].mail = Append(node[x].mail, m)
       /\ node'[x].state = "up" /\ node'[x].born = node[x].born
       /\ node'[x].tasks = node[x].tasks /\ Lists(x)' = Lists(x)

\* n is done with a message and sends m to the actors in to.
Forwards(n, to, m) ==
  /\ Done(n) /\ Head(node[n].mail).kind # "AddTask" /\ n \notin to
  /\ Lists(n)' \subseteq Lists(n)
  /\ \A x \in Nodes \ {n} : Sent(x, to, m)

LEMMA ReceivesIs ==
  ASSUME Typed, Delivery, NEW n \in Nodes, NEW k, Receives(n, k)
  PROVE  /\ node[n].state = "up" /\ node[n].mail # <<>> /\ node[n].mail \in Seq(NodeMsgs)
         /\ Head(node[n].mail) \in NodeMsgs /\ Head(node[n].mail).kind = k
         /\ k = "AddTask" => \E t \in Tasks : /\ Head(node[n].mail) = AddTask(t) /\ Head(node[n].mail).task = t
                                              /\ Has(node[n].mail, AddTask(t)) /\ Below(n, t)
<1>1. node[n].mail \in Seq(NodeMsgs)
  BY NodeStateIs DEF Typed
<1>2. node[n].state = "up" /\ node[n].mail # <<>> /\ Head(node[n].mail).kind = k
  BY DEF Receives
<1>3. Head(node[n].mail) \in NodeMsgs /\ Has(node[n].mail, Head(node[n].mail))
  BY <1>1, <1>2, HasTail
<1>4. ASSUME k = "AddTask"
      PROVE  \E t \in Tasks : /\ Head(node[n].mail) = AddTask(t) /\ Head(node[n].mail).task = t
                              /\ Has(node[n].mail, AddTask(t)) /\ Below(n, t)
  BY <1>2, <1>3, <1>4, NodeMsgIs DEF Delivery
<1> QED
  BY <1>1, <1>2, <1>3, <1>4

\* What a message to c does to nd, as an update of c alone.
Put(nd, c, t) ==
  IF node[c].state = "none" THEN Created(nd, c, AddTask(t)) ELSE Post(nd, {c}, AddTask(t))

IsPut(q, nd, c, t) ==
  /\ q \in [Nodes -> NodeStates]
  /\ node[c].state = "stopping" => q[c] = node[c]
  /\ node[c].state # "stopping" =>
       q[c].state = "up" /\ q[c].mail = Append(node[c].mail, AddTask(t))
  /\ node[c].state = "up" => /\ q[c].tasks = node[c].tasks /\ q[c].born = node[c].born
                             /\ q[c].singles = node[c].singles /\ q[c].groups = node[c].groups
  /\ node[c].state = "none" => /\ q[c].tasks = {} /\ q[c].born = node[c].born + 1
                               /\ q[c].singles = {} /\ q[c].groups = {}
  /\ \A x \in Nodes \ {c} : q[x] = nd[x]

LEMMA PutIs ==
  ASSUME Typed, Delivery, NEW nd \in [Nodes -> NodeStates], NEW c \in Nodes, NEW t \in Tasks, nd[c] = node[c]
  PROVE  IsPut(Put(nd, c, t), nd, c, t)
<1>0. PICK q : q = Put(nd, c, t)
  OBVIOUS
<1>1. AddTask(t) \in NodeMsgs
  BY DEF NodeMsgs
<1>2. node[c].state \in {"none", "up", "stopping"}
  BY NodeStateIs DEF Typed
<1>3. CASE node[c].state = "none"
  <2>1. node[c].mail = <<>>
    BY <1>3 DEF Delivery
  <2>2. q = Created(nd, c, AddTask(t))
    BY <1>0, <1>3 DEF Put
  <2>3. IsPut(q, nd, c, t)
    BY <1>1, <1>3, <2>1, <2>2, CreatedIs DEF IsPut
  <2> QED
    BY <1>0, <2>3
<1>4. CASE node[c].state # "none"
  <2>1. q = Post(nd, {c}, AddTask(t))
    BY <1>0, <1>4 DEF Put
  <2>2. IsPut(q, nd, c, t)
    BY <1>1, <1>2, <1>4, <2>1, PostIs DEF IsPut
  <2> QED
    BY <1>0, <2>2
<1> QED
  BY <1>3, <1>4

LEMMA InstAddTaskIs ==
  ASSUME Typed, Delivery, InstAddTask
  PROVE  /\ Typed'
         /\ \E t \in Tasks :
              /\ inst.mail # <<>> /\ Head(inst.mail) = AddTask(t) /\ inst'.mail = Tail(inst.mail)
              /\ Has(inst.mail, AddTask(t))
              /\ inst'.instances = inst.instances \cup
                   IF node[Distributor(RunOf[t])].state = "none"
                   THEN {<<Distributor(RunOf[t]), node[Distributor(RunOf[t])].born + 1>>} ELSE {}
              /\ Delivered(t, Distributor(RunOf[t]))
              /\ \A x \in Nodes \ {Distributor(RunOf[t])} : node'[x] = node[x]
              /\ UNCHANGED end
<1>1. inst.mail # <<>> /\ Head(inst.mail).kind = "AddTask" /\ inst.mail \in Seq(InstMsgs) /\ inst.instances \in SUBSET Refs
  BY DEF InstAddTask, InstReceives, Typed
<1>2. /\ Head(inst.mail) \in InstMsgs /\ Has(inst.mail, Head(inst.mail)) /\ Tail(inst.mail) \in Seq(InstMsgs)
  BY <1>1, HasTail
<1>3. PICK t \in Tasks : Head(inst.mail) = AddTask(t) /\ Head(inst.mail).task = t
  BY <1>1, <1>2, InstMsgIs
<1>4. PICK d \in Nodes : d = Distributor(RunOf[t])
  BY DistributorIs
<1>5. /\ node' = IF node[d].state = "none" THEN Created(node, d, AddTask(t)) ELSE Post(node, {d}, AddTask(t))
      /\ inst' = [mail |-> Tail(inst.mail),
                  instances |-> inst.instances \cup IF node[d].state = "none" THEN {<<d, node[d].born + 1>>} ELSE {}]
      /\ tsk' = Lose(IF node[d].state = "stopping" THEN {t} ELSE {})
      /\ end' = end
  BY <1>3, <1>4 DEF InstAddTask
<1>6. IsPut(node', node, d, t)
  <2>1. node \in [Nodes -> NodeStates]
    BY DEF Typed
  <2>2. node' = Put(node, d, t)
    BY <1>5 DEF Put
  <2> QED
    BY <2>1, <2>2, PutIs
<1>7. tsk' \in [Tasks -> TaskStates]
  BY <1>5, LoseIs
<1>8. inst' \in [mail : Seq(InstMsgs), instances : SUBSET Refs]
  <2>1. <<d, node[d].born + 1>> \in Refs
    BY NodeStateIs DEF Typed, Refs
  <2> QED
    BY <1>1, <1>2, <1>5, <2>1
<1>9. Typed'
  BY <1>5, <1>6, <1>7, <1>8 DEF Typed, IsPut
<1>10. Delivered(t, d)
  BY <1>5, <1>6 DEF Delivered, Lists, IsPut
<1>11. inst'.mail = Tail(inst.mail) /\ inst'.instances = inst.instances \cup IF node[d].state = "none" THEN {<<d, node[d].born + 1>>} ELSE {}
  BY <1>5
<1>12. /\ inst.mail # <<>> /\ Head(inst.mail) = AddTask(t) /\ Has(inst.mail, AddTask(t)) /\ UNCHANGED end
       /\ \A x \in Nodes \ {d} : node'[x] = node[x]
  BY <1>1, <1>2, <1>3, <1>5, <1>6 DEF IsPut
<1> QED
  BY <1>4, <1>9, <1>10, <1>11, <1>12

\* A Distributor and a group hand an AddTask on in the same way.
LEMMA DistAddTaskIs ==
  ASSUME Typed, Delivery, NEW d \in Nodes, DistAddTask(d)
  PROVE  /\ Typed' /\ UNCHANGED <<inst, end>>
         /\ \E t \in Tasks : Below(d, t) /\ Home(t) # d /\ Passes(d, t, Toward(d, t))
<1>1. IsDistributor(d) /\ Receives(d, "AddTask")
  BY DEF DistAddTask
<1>2. PICK t \in Tasks : /\ Head(node[d].mail) = AddTask(t) /\ Head(node[d].mail).task = t /\ Below(d, t)
  BY <1>1, ReceivesIs
<1>3. Home(t) # d
  BY <1>1, HomeIs
<1>4. PICK c \in Nodes : c = Toward(d, t)
  BY <1>2, <1>3, TowardIs
<1>5. c # d
  BY <1>2, <1>3, <1>4, TowardIs
<1>6. node[d].state = "up" /\ node[d].mail # <<>>
  BY <1>1, ReceivesIs
<1>7. PICK nd : nd = Handled(d)
  OBVIOUS
<1>8. /\ nd \in [Nodes -> NodeStates]
      /\ nd[d].mail = Tail(node[d].mail) /\ nd[d].state = node[d].state
      /\ nd[d].tasks = node[d].tasks /\ nd[d].singles = node[d].singles
      /\ nd[d].groups = node[d].groups /\ nd[d].born = node[d].born
      /\ \A x \in Nodes \ {d} : nd[x] = node[x]
  BY <1>6, <1>7, HandledIs
<1>9. PICK ref : ref = <<c, node[c].born + 1>>
  OBVIOUS
<1>10. ref \in Refs
  BY <1>9, NodeStateIs DEF Typed, Refs
<1>11. PICK s, g : s = (IF t \in Single THEN {ref} ELSE {}) /\ g = (IF t \in Single THEN {} ELSE {ref})
  OBVIOUS
<1>12. /\ node' = IF node[c].state # "none" THEN Post(nd, {c}, AddTask(t))
                  ELSE [Created(nd, c, AddTask(t)) EXCEPT ![d].singles = @ \cup s, ![d].groups = @ \cup g]
       /\ tsk' = Lose(IF node[c].state = "stopping" THEN {t} ELSE {})
       /\ UNCHANGED <<inst, end>>
  BY <1>2, <1>4, <1>7, <1>9, <1>11 DEF DistAddTask
<1>13. PICK q : q = Put(nd, c, t)
  OBVIOUS
<1>14. IsPut(q, nd, c, t)
  <2>1. nd[c] = node[c]
    BY <1>5, <1>8
  <2> QED
    BY <1>8, <1>13, <2>1, PutIs
<1>15. /\ node' \in [Nodes -> NodeStates]
       /\ \A x \in Nodes \ {d} : node'[x] = q[x]
       /\ node'[d].mail = q[d].mail /\ node'[d].state = q[d].state /\ node'[d].tasks = q[d].tasks
       /\ node'[d].born = q[d].born
       /\ Lists(d)' \subseteq q[d].singles \cup q[d].groups \cup {ref}
  <2>1. CASE node[c].state # "none"
    <3>1. node' = q
      BY <1>12, <1>13, <2>1 DEF Put
    <3> QED
      BY <1>14, <3>1 DEF Lists, IsPut
  <2>2. CASE node[c].state = "none"
    <3>1. PICK a \in NodeStates : a = q[d]
      BY <1>14 DEF IsPut
    <3>2. PICK q1 : q1 = [q EXCEPT ![d].singles = q[d].singles \cup s]
      OBVIOUS
    <3>3. node' = [q1 EXCEPT ![d].groups = q1[d].groups \cup g]
      BY <1>12, <1>13, <2>2, <3>2 DEF Put
    <3>4. PICK b1, b2 : b1 = a.singles \cup s /\ b2 = a.groups \cup g
      OBVIOUS
    <3>5. b1 \in SUBSET Refs /\ b2 \in SUBSET Refs /\ b1 \cup b2 \subseteq a.singles \cup a.groups \cup {ref}
      BY <1>10, <1>11, <3>4, NodeStateIs
    <3>6. PICK a1 : a1 = [a EXCEPT !.singles = b1]
      OBVIOUS
    <3>7. a1 \in NodeStates /\ a1.groups = a.groups /\ a1.singles = b1 /\ a1.mail = a.mail /\ a1.state = a.state
          /\ a1.tasks = a.tasks /\ a1.born = a.born
      BY <3>5, <3>6 DEF NodeStates
    <3>8. PICK a2 : a2 = [a1 EXCEPT !.groups = b2]
      OBVIOUS
    <3>9. a2 \in NodeStates /\ a2.groups = b2 /\ a2.singles = b1 /\ a2.mail = a.mail /\ a2.state = a.state
          /\ a2.tasks = a.tasks /\ a2.born = a.born
      BY <3>5, <3>7, <3>8 DEF NodeStates
    <3>10. q1 = [q EXCEPT ![d] = a1]
      BY <3>1, <3>2, <3>4, <3>6
    <3>11. q1[d] = a1 /\ q1[d].groups \cup g = b2
      BY <1>14, <3>4, <3>7, <3>10 DEF IsPut
    <3>12. node' = [q1 EXCEPT ![d] = a2]
      BY <3>3, <3>8, <3>11
    <3>13. node' = [q EXCEPT ![d] = a2]
      BY <3>10, <3>12
    <3> QED
      BY <1>14, <3>1, <3>5, <3>9, <3>13 DEF Lists, IsPut
  <2> QED
    BY <2>1, <2>2
<1>16. Passes(d, t, c)
  <2>1. Done(d) /\ node'[d].tasks = node[d].tasks
    BY <1>5, <1>6, <1>8, <1>14, <1>15 DEF Done, IsPut
  <2>2. Lists(d)' \subseteq Lists(d) \cup {<<c, node[c].born + 1>>}
    BY <1>5, <1>8, <1>9, <1>14, <1>15 DEF Lists, IsPut
  <2>3. Delivered(t, c)
    <3>1. node'[c] = q[c]
      BY <1>5, <1>15
    <3> QED
      BY <1>12, <1>14, <3>1 DEF Delivered, Lists, IsPut
  <2>4. \A x \in Nodes \ {d, c} : node'[x] = node[x]
    BY <1>8, <1>14, <1>15 DEF IsPut
  <2> QED
    BY <1>2, <2>1, <2>2, <2>3, <2>4 DEF Passes
<1>17. Typed'
  <2>1. tsk' \in [Tasks -> TaskStates]
    BY <1>12, LoseIs
  <2> QED
    BY <1>12, <1>15, <2>1 DEF Typed
<1> QED
  BY <1>2, <1>3, <1>4, <1>12, <1>16, <1>17

Children(n) == {c \in Nodes : ~IsDistributor(c) /\ Above(c) = n}

LEMMA ChildrenAre ==
  ASSUME NEW n \in Nodes
  PROVE  n \notin Children(n) /\ SubNodes(n) \subseteq Children(n) /\ \A c \in Children(n) : c \in Nodes /\ Over(n, c)
  BY AboveIs DEF Children, SubNodes

LEMMA StopsIs ==
  ASSUME Typed, Delivery, NEW n \in Nodes, NEW k, Receives(n, k), k # "AddTask", NoChildren(n),
         node' = Stop(Handled(n), n), tsk' = Lose(LostWith(node, n)), UNCHANGED <<inst, end>>
  PROVE  Stops(n) /\ Typed'
<1>1. node[n].state = "up" /\ node[n].mail # <<>> /\ Head(node[n].mail).kind = k
  BY ReceivesIs
<1>2. PICK nd : nd = Handled(n)
  OBVIOUS
<1>3. /\ nd \in [Nodes -> NodeStates]
      /\ nd[n].tasks = node[n].tasks /\ nd[n].singles = node[n].singles
      /\ nd[n].groups = node[n].groups /\ nd[n].born = node[n].born
      /\ \A x \in Nodes \ {n} : nd[x] = node[x]
  BY <1>1, <1>2, HandledIs
<1>4. /\ node' \in [Nodes -> NodeStates]
      /\ node'[n].mail = <<>> /\ node'[n].state = "stopping"
      /\ node'[n].tasks = nd[n].tasks /\ node'[n].singles = nd[n].singles
      /\ node'[n].groups = nd[n].groups /\ node'[n].born = nd[n].born
      /\ \A x \in Nodes \ {n} : node'[x] = nd[x]
  BY <1>2, <1>3, StopIs
<1>5. tsk' \in [Tasks -> TaskStates]
  BY LoseIs
<1>6. Typed'
  BY <1>4, <1>5 DEF Typed
<1>7. Lists(n)' = Lists(n)
  BY <1>3, <1>4 DEF Lists
<1> QED
  BY <1>1, <1>3, <1>4, <1>6, <1>7 DEF Stops

\* nd is node after n is done with its first message, and possibly changed its lists.
LEMMA ForwardsIs ==
  ASSUME Typed, Delivery, NEW n \in Nodes, NEW k, Receives(n, k), k # "AddTask",
         NEW nd \in [Nodes -> NodeStates],
         nd[n].mail = Tail(node[n].mail), nd[n].state = node[n].state, nd[n].born = node[n].born,
         nd[n].singles \subseteq node[n].singles, nd[n].groups \subseteq node[n].groups,
         \A x \in Nodes \ {n} : nd[x] = node[x],
         NEW to, n \notin to, NEW m \in NodeMsgs, node' = Post(nd, to, m)
  PROVE  Forwards(n, to, m) /\ node' \in [Nodes -> NodeStates] /\ node'[n].tasks = nd[n].tasks
<1>1. node[n].state = "up" /\ node[n].mail # <<>> /\ Head(node[n].mail).kind = k
  BY ReceivesIs
<1>2. /\ node' \in [Nodes -> NodeStates]
      /\ \A x \in Nodes :
           /\ x \in to /\ nd[x].state = "up" =>
                /\ node'[x].mail = Append(nd[x].mail, m)
                /\ node'[x].state = "up" /\ node'[x].tasks = nd[x].tasks
                /\ node'[x].singles = nd[x].singles
                /\ node'[x].groups = nd[x].groups /\ node'[x].born = nd[x].born
           /\ ~(x \in to /\ nd[x].state = "up") => node'[x] = nd[x]
  BY PostIs
<1>3. node'[n] = nd[n]
  BY <1>2
<1>4. Done(n)
  BY <1>1, <1>3 DEF Done
<1>5. Lists(n)' \subseteq Lists(n)
  BY <1>3 DEF Lists
<1>6. \A x \in Nodes \ {n} : Sent(x, to, m)
  BY <1>2 DEF Sent, Lists
<1> QED
  BY <1>1, <1>2, <1>3, <1>4, <1>5, <1>6 DEF Forwards

\* Nobody is sent anything.
LEMMA ForwardsNothing ==
  ASSUME Typed, Delivery, NEW n \in Nodes, NEW k, Receives(n, k), k # "AddTask",
         node' \in [Nodes -> NodeStates],
         node'[n].mail = Tail(node[n].mail), node'[n].state = node[n].state, node'[n].born = node[n].born,
         node'[n].singles \subseteq node[n].singles, node'[n].groups \subseteq node[n].groups,
         \A x \in Nodes \ {n} : node'[x] = node[x]
  PROVE  Forwards(n, {}, GetTask)
<1>1. node[n].state = "up" /\ node[n].mail # <<>> /\ Head(node[n].mail).kind = k
  BY ReceivesIs
<1>2. Done(n)
  BY <1>1 DEF Done
<1>3. Lists(n)' \subseteq Lists(n)
  BY DEF Lists
<1> QED
  BY <1>1, <1>2, <1>3 DEF Forwards, Sent

LEMMA DistGetTaskIs ==
  ASSUME Typed, Delivery, NEW d \in Nodes, DistGetTask(d)
  PROVE  /\ Typed' /\ UNCHANGED <<inst, end>> /\ Head(node[d].mail) = GetTask
         /\ \/ Stops(d)
            \/ /\ UNCHANGED tsk /\ node'[d].tasks = node[d].tasks
               /\ \E to \in SUBSET Children(d) : Forwards(d, to, GetTask)
<1>1. IsDistributor(d) /\ Receives(d, "GetTask") /\ UNCHANGED <<inst, end>>
  BY DEF DistGetTask
<1>2. node[d].mail # <<>> /\ Head(node[d].mail) = GetTask
  BY <1>1, ReceivesIs, NodeMsgIs
<1>3. CASE NoChildren(d)
  <2>1. node' = Stop(Handled(d), d) /\ tsk' = Lose(LostWith(node, d))
    BY <1>3 DEF DistGetTask
  <2>2. "GetTask" # "AddTask"
    OBVIOUS
  <2> QED
    BY <1>1, <1>2, <1>3, <2>1, <2>2, StopsIs
<1>4. CASE ~NoChildren(d)
  <2>1. PICK to : to = IF node[d].groups # {}
                       THEN {ref[1] : ref \in {r \in node[d].groups : r = Ref(r[1])}} ELSE SubNodes(d)
    OBVIOUS
  <2>2. node' = Post(Handled(d), to, GetTask) /\ UNCHANGED tsk
    BY <1>4, <2>1 DEF DistGetTask
  <2>3. to \subseteq Children(d)
    <3>1. \A r \in node[d].groups : r \in Refs /\ ~IsDistributor(r[1]) /\ Above(r[1]) = d
      BY NodeStateIs DEF Typed, Delivery, Lists
    <3>2. \A r \in Refs : r[1] \in Nodes
      BY DEF Refs
    <3> QED
      BY <2>1, <3>1, <3>2, ChildrenAre DEF Children
  <2>4. GetTask \in NodeMsgs
    BY DEF NodeMsgs
  <2>5. PICK nd : nd = Handled(d)
    OBVIOUS
  <2>6. /\ nd \in [Nodes -> NodeStates]
        /\ nd[d].mail = Tail(node[d].mail) /\ nd[d].state = node[d].state
        /\ nd[d].tasks = node[d].tasks /\ nd[d].singles = node[d].singles
        /\ nd[d].groups = node[d].groups /\ nd[d].born = node[d].born
        /\ \A x \in Nodes \ {d} : nd[x] = node[x]
    BY <1>2, <2>5, HandledIs
  <2>7. d \notin to
    BY <2>3, ChildrenAre
  <2>8. Forwards(d, to, GetTask) /\ node' \in [Nodes -> NodeStates] /\ node'[d].tasks = nd[d].tasks
    <3>1. "GetTask" # "AddTask"
      OBVIOUS
    <3> QED
      BY <1>1, <2>2, <2>4, <2>5, <2>6, <2>7, <3>1, ForwardsIs
  <2>9. Typed'
    BY <1>1, <2>2, <2>8 DEF Typed
  <2> QED
    BY <1>1, <1>2, <2>2, <2>3, <2>6, <2>8, <2>9
<1> QED
  BY <1>3, <1>4

LEMMA DistTerminatedIs ==
  ASSUME Typed, Delivery, NEW d \in Nodes, DistTerminated(d)
  PROVE  /\ Typed' /\ UNCHANGED <<inst, end>> /\ Head(node[d].mail).kind = "Terminated"
         /\ \/ Stops(d)
            \/ UNCHANGED tsk /\ node'[d].tasks = node[d].tasks /\ Forwards(d, {}, GetTask)
<1>1. IsDistributor(d) /\ Receives(d, "Terminated") /\ UNCHANGED <<inst, end>>
  BY DEF DistTerminated
<1>2. node[d].mail # <<>> /\ Head(node[d].mail).kind = "Terminated"
  BY <1>1, ReceivesIs
<1>3. "Terminated" # "AddTask"
  OBVIOUS
<1>4. CASE NoChildren(d)
  <2>1. node' = Stop(Handled(d), d) /\ tsk' = Lose(LostWith(node, d))
    BY <1>4 DEF DistTerminated
  <2> QED
    BY <1>1, <1>2, <1>3, <1>4, <2>1, StopsIs
<1>5. CASE ~NoChildren(d)
  <2>1. PICK ref : ref = Head(node[d].mail).ref
    OBVIOUS
  <2>2. PICK nd : nd = Handled(d)
    OBVIOUS
  <2>3. node' = [nd EXCEPT ![d].singles = @ \ {ref}, ![d].groups = @ \ {ref}] /\ UNCHANGED tsk
    BY <1>5, <2>1, <2>2 DEF DistTerminated
  <2>4. /\ nd \in [Nodes -> NodeStates]
        /\ nd[d].mail = Tail(node[d].mail) /\ nd[d].state = node[d].state
        /\ nd[d].tasks = node[d].tasks /\ nd[d].singles = node[d].singles
        /\ nd[d].groups = node[d].groups /\ nd[d].born = node[d].born
        /\ \A x \in Nodes \ {d} : nd[x] = node[x]
    BY <1>2, <2>2, HandledIs
  <2>5. PICK a \in NodeStates : a = nd[d]
    BY <2>4
  <2>6. PICK b1, b2 : b1 = a.singles \ {ref} /\ b2 = a.groups \ {ref}
    OBVIOUS
  <2>7. b1 \in SUBSET Refs /\ b2 \in SUBSET Refs /\ b1 \subseteq a.singles /\ b2 \subseteq a.groups
    BY <2>6, NodeStateIs
  <2>8. PICK a1 : a1 = [a EXCEPT !.singles = b1]
    OBVIOUS
  <2>9. /\ a1 \in NodeStates /\ a1.groups = a.groups /\ a1.singles = b1 /\ a1.mail = a.mail /\ a1.state = a.state
        /\ a1.tasks = a.tasks /\ a1.born = a.born
    BY <2>7, <2>8 DEF NodeStates
  <2>10. PICK a2 : a2 = [a1 EXCEPT !.groups = b2]
    OBVIOUS
  <2>11. /\ a2 \in NodeStates /\ a2.groups = b2 /\ a2.singles = b1 /\ a2.mail = a.mail /\ a2.state = a.state
         /\ a2.tasks = a.tasks /\ a2.born = a.born
    BY <2>7, <2>9, <2>10 DEF NodeStates
  <2>12. PICK q1 : q1 = [nd EXCEPT ![d].singles = nd[d].singles \ {ref}]
    OBVIOUS
  <2>13. node' = [q1 EXCEPT ![d].groups = q1[d].groups \ {ref}]
    BY <2>3, <2>12
  <2>14. q1 = [nd EXCEPT ![d] = a1]
    BY <2>5, <2>6, <2>8, <2>12
  <2>15. q1[d] = a1 /\ q1[d].groups \ {ref} = b2
    BY <2>4, <2>6, <2>9, <2>14
  <2>16. node' = [q1 EXCEPT ![d] = a2]
    BY <2>10, <2>13, <2>15
  <2>17. node' = [nd EXCEPT ![d] = a2]
    BY <2>14, <2>16
  <2>18. /\ node' \in [Nodes -> NodeStates]
         /\ node'[d].mail = Tail(node[d].mail) /\ node'[d].state = node[d].state /\ node'[d].born = node[d].born
         /\ node'[d].singles \subseteq node[d].singles /\ node'[d].groups \subseteq node[d].groups
         /\ node'[d].tasks = node[d].tasks
         /\ \A x \in Nodes \ {d} : node'[x] = node[x]
    BY <2>4, <2>5, <2>7, <2>11, <2>17
  <2>19. Forwards(d, {}, GetTask)
    BY <1>1, <1>3, <2>18, ForwardsNothing
  <2>20. Typed'
    BY <1>1, <2>3, <2>18 DEF Typed
  <2> QED
    BY <1>1, <1>2, <2>3, <2>18, <2>19, <2>20
<1> QED
  BY <1>4, <1>5

\* The new TaskActor of t.
Arrives(n, t) ==
  /\ Done(n) /\ Head(node[n].mail) = AddTask(t) /\ node'[n].tasks = node[n].tasks \cup {t}
  /\ Lists(n)' = Lists(n)
  /\ \A x \in Nodes \ {n} : node'[x] = node[x]
  /\ tsk'[t].state = "up" /\ tsk'[t].offered = tsk[t].offered /\ tsk'[t].suicide = tsk[t].suicide
  /\ \A u \in Tasks \ {t} : tsk'[u] = tsk[u]

LEMMA SubAddTaskIs ==
  ASSUME Typed, Delivery, NEW n \in Nodes, SubAddTask(n)
  PROVE  /\ Typed' /\ UNCHANGED <<inst, end>>
         /\ \E t \in Tasks : /\ Below(n, t)
                             /\ \/ Home(t) = n /\ Arrives(n, t)
                                \/ Home(t) # n /\ Passes(n, t, Toward(n, t))
<1>1. ~IsDistributor(n) /\ Receives(n, "AddTask") /\ UNCHANGED <<inst, end>>
  BY DEF SubAddTask
<1>2. PICK t \in Tasks : /\ Head(node[n].mail) = AddTask(t) /\ Head(node[n].mail).task = t /\ Below(n, t)
  BY <1>1, ReceivesIs
<1>3. node[n].state = "up" /\ node[n].mail # <<>>
  BY <1>1, ReceivesIs
<1>4. PICK nd : nd = Handled(n)
  OBVIOUS
<1>5. /\ nd \in [Nodes -> NodeStates]
      /\ nd[n].mail = Tail(node[n].mail) /\ nd[n].state = node[n].state
      /\ nd[n].tasks = node[n].tasks /\ nd[n].singles = node[n].singles
      /\ nd[n].groups = node[n].groups /\ nd[n].born = node[n].born
      /\ \A x \in Nodes \ {n} : nd[x] = node[x]
  BY <1>3, <1>4, HandledIs
<1>6. CASE Home(t) = n
  <2>1. node' = [nd EXCEPT ![n].tasks = @ \cup {t}] /\ tsk' = [tsk EXCEPT ![t].state = "up"]
    BY <1>2, <1>4, <1>6 DEF SubAddTask
  <2>2. PICK a \in NodeStates : a = nd[n]
    BY <1>5
  <2>3. PICK b : b = a.tasks \cup {t}
    OBVIOUS
  <2>4. b \in SUBSET Tasks
    BY <2>3, NodeStateIs
  <2>5. PICK a1 : a1 = [a EXCEPT !.tasks = b]
    OBVIOUS
  <2>6. /\ a1 \in NodeStates /\ a1.groups = a.groups /\ a1.singles = a.singles /\ a1.mail = a.mail
        /\ a1.state = a.state /\ a1.tasks = b /\ a1.born = a.born
    BY <2>4, <2>5 DEF NodeStates
  <2>7. node' = [nd EXCEPT ![n] = a1]
    BY <2>1, <2>2, <2>3, <2>5
  <2>8. node' \in [Nodes -> NodeStates] /\ node'[n] = a1 /\ \A x \in Nodes \ {n} : node'[x] = node[x]
    BY <1>5, <2>6, <2>7
  <2>9. Done(n) /\ node'[n].tasks = node[n].tasks \cup {t} /\ Lists(n)' = Lists(n)
    BY <1>3, <1>5, <2>2, <2>3, <2>6, <2>8 DEF Done, Lists
  <2>10. /\ tsk' \in [Tasks -> TaskStates]
         /\ tsk'[t].state = "up" /\ tsk'[t].offered = tsk[t].offered /\ tsk'[t].suicide = tsk[t].suicide
         /\ \A u \in Tasks \ {t} : tsk'[u] = tsk[u]
    BY <2>1 DEF Typed, TaskStates
  <2>11. Typed'
    BY <1>1, <2>8, <2>10 DEF Typed
  <2>12. Arrives(n, t)
    BY <1>2, <2>8, <2>9, <2>10 DEF Arrives
  <2> QED
    BY <1>1, <1>2, <1>6, <2>11, <2>12
<1>7. CASE Home(t) # n
  <2>1. PICK c \in Nodes : c = Toward(n, t)
    BY <1>2, <1>7, TowardIs
  <2>2. c # n
    BY <1>2, <1>7, <2>1, TowardIs
  <2>3. /\ node' = IF node[c].state = "none" THEN Created(nd, c, AddTask(t)) ELSE Post(nd, {c}, AddTask(t))
        /\ tsk' = Lose(IF node[c].state = "stopping" THEN {t} ELSE {})
    BY <1>2, <1>4, <1>7, <2>1 DEF SubAddTask
  <2>4. node' = Put(nd, c, t) /\ nd[c] = node[c]
    BY <1>5, <2>2, <2>3 DEF Put
  <2>5. IsPut(node', nd, c, t)
    BY <1>5, <2>4, PutIs
  <2>6. Done(n) /\ node'[n].tasks = node[n].tasks /\ Lists(n)' = Lists(n)
    BY <1>3, <1>5, <2>2, <2>5 DEF IsPut, Done, Lists
  <2>7. Delivered(t, c) /\ \A x \in Nodes \ {n, c} : node'[x] = node[x]
    BY <1>5, <2>3, <2>5 DEF IsPut, Delivered, Lists
  <2>8. Passes(n, t, c)
    BY <1>2, <2>6, <2>7 DEF Passes
  <2>9. tsk' \in [Tasks -> TaskStates]
    BY <2>3, LoseIs
  <2>10. Typed'
    BY <1>1, <2>5, <2>9 DEF Typed, IsPut
  <2> QED
    BY <1>1, <1>2, <1>7, <2>1, <2>8, <2>10
<1> QED
  BY <1>6, <1>7

LEMMA SubGetTaskIs ==
  ASSUME Typed, Delivery, NEW n \in Nodes, SubGetTask(n)
  PROVE  /\ Typed' /\ UNCHANGED <<inst, end>> /\ Head(node[n].mail) = GetTask /\ ~IsDistributor(n)
         /\ \/ Stops(n)
            \/ /\ node'[n].tasks = node[n].tasks /\ node[n].tasks # {}
               /\ tsk' = Offered(node[n].tasks) /\ Forwards(n, {}, GetTask)
            \/ /\ node'[n].tasks = node[n].tasks /\ node[n].tasks = {}
               /\ tsk' = Offered(TaskChildren(n)) /\ Forwards(n, SubNodes(n), GetTask)
<1>1. ~IsDistributor(n) /\ Receives(n, "GetTask") /\ UNCHANGED <<inst, end>> /\ "GetTask" # "AddTask"
  BY DEF SubGetTask
<1>2. node[n].mail # <<>> /\ Head(node[n].mail) = GetTask
  BY <1>1, ReceivesIs, NodeMsgIs
<1>3. PICK nd : nd = Handled(n)
  OBVIOUS
<1>4. /\ nd \in [Nodes -> NodeStates]
      /\ nd[n].mail = Tail(node[n].mail) /\ nd[n].state = node[n].state
      /\ nd[n].tasks = node[n].tasks /\ nd[n].singles = node[n].singles
      /\ nd[n].groups = node[n].groups /\ nd[n].born = node[n].born
      /\ \A x \in Nodes \ {n} : nd[x] = node[x]
  BY <1>2, <1>3, HandledIs
<1>5. CASE NoChildren(n)
  <2>1. node' = Stop(Handled(n), n) /\ tsk' = Lose(LostWith(node, n))
    BY <1>5 DEF SubGetTask
  <2> QED
    BY <1>1, <1>2, <1>5, <2>1, StopsIs
<1>6. CASE ~NoChildren(n) /\ node[n].tasks # {}
  <2>1. node' = nd /\ tsk' = Offered(node[n].tasks)
    BY <1>3, <1>6 DEF SubGetTask
  <2>2. Forwards(n, {}, GetTask)
    BY <1>1, <1>4, <2>1, ForwardsNothing
  <2>3. tsk' \in [Tasks -> TaskStates]
    BY <2>1, OfferedIs
  <2>4. Typed'
    BY <1>1, <1>4, <2>1, <2>3 DEF Typed
  <2> QED
    BY <1>1, <1>2, <1>4, <1>6, <2>1, <2>2, <2>4
<1>7. CASE ~NoChildren(n) /\ node[n].tasks = {}
  <2>1. node' = Post(nd, SubNodes(n), GetTask) /\ tsk' = Offered(TaskChildren(n))
    BY <1>3, <1>7 DEF SubGetTask
  <2>2. n \notin SubNodes(n) /\ GetTask \in NodeMsgs
    BY ChildrenAre DEF NodeMsgs
  <2>3. Forwards(n, SubNodes(n), GetTask) /\ node' \in [Nodes -> NodeStates] /\ node'[n].tasks = nd[n].tasks
    BY <1>1, <1>4, <2>1, <2>2, ForwardsIs
  <2>4. tsk' \in [Tasks -> TaskStates]
    BY <2>1, OfferedIs
  <2>5. Typed'
    BY <1>1, <2>3, <2>4 DEF Typed
  <2> QED
    BY <1>1, <1>2, <1>4, <1>7, <2>1, <2>3, <2>5
<1> QED
  BY <1>5, <1>6, <1>7

LEMMA SubTerminatedIs ==
  ASSUME Typed, Delivery, NEW n \in Nodes, SubTerminated(n)
  PROVE  /\ Typed' /\ UNCHANGED <<inst, end>> /\ Head(node[n].mail).kind = "Terminated" /\ ~IsDistributor(n)
         /\ \/ Stops(n)
            \/ UNCHANGED tsk /\ node'[n].tasks = node[n].tasks /\ Forwards(n, {}, GetTask)
<1>1. ~IsDistributor(n) /\ Receives(n, "Terminated") /\ UNCHANGED <<inst, end>> /\ "Terminated" # "AddTask"
  BY DEF SubTerminated
<1>2. node[n].mail # <<>> /\ Head(node[n].mail).kind = "Terminated"
  BY <1>1, ReceivesIs
<1>3. CASE NoChildren(n)
  <2>1. node' = Stop(Handled(n), n) /\ tsk' = Lose(LostWith(node, n))
    BY <1>3 DEF SubTerminated
  <2> QED
    BY <1>1, <1>2, <1>3, <2>1, StopsIs
<1>4. CASE ~NoChildren(n)
  <2>1. node' = Handled(n) /\ tsk' = Lose({})
    BY <1>4 DEF SubTerminated
  <2>2. /\ node' \in [Nodes -> NodeStates]
        /\ node'[n].mail = Tail(node[n].mail) /\ node'[n].state = node[n].state
        /\ node'[n].tasks = node[n].tasks /\ node'[n].singles = node[n].singles
        /\ node'[n].groups = node[n].groups /\ node'[n].born = node[n].born
        /\ \A x \in Nodes \ {n} : node'[x] = node[x]
    BY <1>2, <2>1, HandledIs
  <2>3. Forwards(n, {}, GetTask)
    BY <1>1, <2>2, ForwardsNothing
  <2>4. tsk' = tsk
    <3>1. \A t \in Tasks : tsk'[t] = tsk[t]
      BY <2>1, LoseIs
    <3>2. tsk' \in [Tasks -> TaskStates] /\ tsk \in [Tasks -> TaskStates]
      BY <2>1, LoseIs DEF Typed
    <3> QED
      BY <3>1, <3>2
  <2>5. Typed'
    BY <1>1, <2>2, <2>4 DEF Typed
  <2> QED
    BY <1>1, <1>2, <2>2, <2>3, <2>4, <2>5
<1> QED
  BY <1>3, <1>4

LEMMA SubPersistAndSuicideIs ==
  ASSUME Typed, Delivery, NEW n \in Nodes, SubPersistAndSuicide(n)
  PROVE  /\ Typed' /\ UNCHANGED <<inst, end>> /\ Head(node[n].mail) = PersistAndSuicide /\ ~IsDistributor(n)
         /\ node'[n].tasks = {} /\ tsk' = Advised(TaskChildren(n)) /\ Forwards(n, SubNodes(n), PersistAndSuicide)
<1>1. /\ ~IsDistributor(n) /\ Receives(n, "PersistAndSuicide") /\ UNCHANGED <<inst, end>>
      /\ "PersistAndSuicide" # "AddTask"
  BY DEF SubPersistAndSuicide
<1>2. node[n].mail # <<>> /\ Head(node[n].mail) = PersistAndSuicide
  BY <1>1, ReceivesIs, NodeMsgIs
<1>3. PICK q : q = Handled(n)
  OBVIOUS
<1>4. /\ q \in [Nodes -> NodeStates]
      /\ q[n].mail = Tail(node[n].mail) /\ q[n].state = node[n].state
      /\ q[n].tasks = node[n].tasks /\ q[n].singles = node[n].singles
      /\ q[n].groups = node[n].groups /\ q[n].born = node[n].born
      /\ \A x \in Nodes \ {n} : q[x] = node[x]
  BY <1>2, <1>3, HandledIs
<1>5. PICK a \in NodeStates : a = q[n]
  BY <1>4
<1>6. PICK a1 : a1 = [a EXCEPT !.tasks = {}]
  OBVIOUS
<1>7. /\ a1 \in NodeStates /\ a1.groups = a.groups /\ a1.singles = a.singles /\ a1.mail = a.mail
      /\ a1.state = a.state /\ a1.tasks = {} /\ a1.born = a.born
  BY <1>6 DEF NodeStates
<1>8. PICK nd : nd = [q EXCEPT ![n] = a1]
  OBVIOUS
<1>9. nd \in [Nodes -> NodeStates] /\ nd[n] = a1 /\ \A x \in Nodes \ {n} : nd[x] = node[x]
  BY <1>4, <1>7, <1>8
<1>10. node' = Post(nd, SubNodes(n), PersistAndSuicide) /\ tsk' = Advised(TaskChildren(n))
  <2>1. nd = [q EXCEPT ![n].tasks = {}]
    BY <1>5, <1>6, <1>8
  <2> QED
    BY <1>3, <2>1 DEF SubPersistAndSuicide
<1>11. n \notin SubNodes(n) /\ PersistAndSuicide \in NodeMsgs
  BY ChildrenAre DEF NodeMsgs
<1>12. /\ nd[n].mail = Tail(node[n].mail) /\ nd[n].state = node[n].state /\ nd[n].born = node[n].born
       /\ nd[n].singles \subseteq node[n].singles /\ nd[n].groups \subseteq node[n].groups /\ nd[n].tasks = {}
  BY <1>4, <1>5, <1>7, <1>9
<1>13. /\ Forwards(n, SubNodes(n), PersistAndSuicide) /\ node' \in [Nodes -> NodeStates]
       /\ node'[n].tasks = nd[n].tasks
  BY <1>1, <1>9, <1>10, <1>11, <1>12, ForwardsIs
<1>14. tsk' \in [Tasks -> TaskStates]
  BY <1>10, AdvisedIs
<1>15. Typed'
  BY <1>1, <1>13, <1>14 DEF Typed
<1> QED
  BY <1>1, <1>2, <1>10, <1>12, <1>13, <1>15

\* n has t off its list, and the actors in to are sent m.
Strikes(n, t, to, m) ==
  /\ node'[n].state = node[n].state /\ node'[n].mail = node[n].mail /\ node'[n].born = node[n].born
  /\ node'[n].tasks = node[n].tasks \ {t} /\ Lists(n)' = Lists(n)
  /\ \A x \in Nodes \ {n} : Sent(x, to, m)

LEMMA StrikesIs ==
  ASSUME Typed, NEW n \in Nodes, NEW t, NEW nd \in [Nodes -> NodeStates], nd[n] = node[n],
         node' = [nd EXCEPT ![n].tasks = @ \ {t}]
  PROVE  /\ node' \in [Nodes -> NodeStates] /\ node'[n].tasks = node[n].tasks \ {t}
         /\ node'[n].state = node[n].state /\ node'[n].mail = node[n].mail /\ node'[n].born = node[n].born
         /\ Lists(n)' = Lists(n)
         /\ \A x \in Nodes \ {n} : node'[x] = nd[x]
<1>1. PICK a \in NodeStates : a = nd[n]
  OBVIOUS
<1>2. PICK b : b = a.tasks \ {t}
  OBVIOUS
<1>3. b \in SUBSET Tasks
  BY <1>2, NodeStateIs
<1>4. PICK a1 : a1 = [a EXCEPT !.tasks = b]
  OBVIOUS
<1>5. /\ a1 \in NodeStates /\ a1.groups = a.groups /\ a1.singles = a.singles /\ a1.mail = a.mail
      /\ a1.state = a.state /\ a1.tasks = b /\ a1.born = a.born
  BY <1>3, <1>4 DEF NodeStates
<1>6. node' = [nd EXCEPT ![n] = a1]
  BY <1>1, <1>2, <1>4
<1>7. node' \in [Nodes -> NodeStates] /\ node'[n] = a1 /\ \A x \in Nodes \ {n} : node'[x] = nd[x]
  BY <1>5, <1>6
<1> QED
  BY <1>1, <1>2, <1>5, <1>7 DEF Lists

\* One task changes its state and keeps its PersistAndSuicide.
TaskTo(t, s) ==
  /\ tsk'[t].state = s /\ tsk'[t].suicide = tsk[t].suicide
  /\ \A u \in Tasks \ {t} : tsk'[u] = tsk[u]

LEMMA HandleSuccessIs ==
  ASSUME Typed, NEW t \in Tasks, HandleSuccess(t)
  PROVE  /\ Typed' /\ tsk[t].state = "success" /\ UNCHANGED inst
         /\ end'[t] = "SUCCESS" /\ \A u \in Tasks \ {t} : end'[u] = end[u]
         /\ TaskTo(t, "stopping") /\ tsk'[t].offered = tsk[t].offered
         /\ Strikes(Home(t), t, {}, GetTask)
<1>1. PICK n \in Nodes : n = Home(t)
  BY HomeIs
<1>2. /\ tsk[t].state = "success" /\ end' = [end EXCEPT ![t] = "SUCCESS"] /\ UNCHANGED inst
      /\ node' = [node EXCEPT ![n].tasks = @ \ {t}] /\ tsk' = [tsk EXCEPT ![t].state = "stopping"]
  BY <1>1 DEF HandleSuccess
<1>3. node \in [Nodes -> NodeStates]
  BY DEF Typed
<1>4. /\ node' \in [Nodes -> NodeStates] /\ node'[n].tasks = node[n].tasks \ {t}
      /\ node'[n].state = node[n].state /\ node'[n].mail = node[n].mail /\ node'[n].born = node[n].born
      /\ Lists(n)' = Lists(n)
      /\ \A x \in Nodes \ {n} : node'[x] = node[x]
  BY <1>2, <1>3, StrikesIs
<1>5. Strikes(n, t, {}, GetTask)
  BY <1>4 DEF Strikes, Sent
<1>6. tsk' \in [Tasks -> TaskStates] /\ TaskTo(t, "stopping") /\ tsk'[t].offered = tsk[t].offered
  BY <1>2 DEF Typed, TaskStates, TaskTo
<1>7. /\ end' \in [Tasks -> {"NONE", "SUCCESS", "FAILURE", "ABANDONED"}]
      /\ end'[t] = "SUCCESS" /\ \A u \in Tasks \ {t} : end'[u] = end[u]
  BY <1>2 DEF Typed
<1>8. Typed'
  BY <1>2, <1>4, <1>6, <1>7 DEF Typed
<1> QED
  BY <1>1, <1>2, <1>5, <1>6, <1>7, <1>8

LEMMA HandleFailureIs ==
  ASSUME Typed, NEW t \in Tasks, HandleFailure(t)
  PROVE  /\ Typed' /\ tsk[t].state = "failure" /\ UNCHANGED inst
         /\ end'[t] = "FAILURE" /\ \A u \in Tasks \ {t} : end'[u] = end[u]
         /\ tsk'[t].state = "stopping" /\ tsk'[t].offered = tsk[t].offered /\ tsk'[t].suicide = tsk[t].suicide
         /\ \A u \in Tasks \ {t} : tsk'[u] = Advised(TaskChildren(Home(t)))[u]
         /\ Strikes(Home(t), t, SubNodes(Home(t)), PersistAndSuicide)
<1>1. PICK n \in Nodes : n = Home(t)
  BY HomeIs
<1>2. PICK nd, ad : nd = Post(node, SubNodes(n), PersistAndSuicide) /\ ad = Advised(TaskChildren(n))
  OBVIOUS
<1>3. /\ tsk[t].state = "failure" /\ end' = [end EXCEPT ![t] = "FAILURE"] /\ UNCHANGED inst
      /\ node' = [nd EXCEPT ![n].tasks = @ \ {t}] /\ tsk' = [ad EXCEPT ![t].state = "stopping"]
  BY <1>1, <1>2 DEF HandleFailure
<1>4. node \in [Nodes -> NodeStates] /\ PersistAndSuicide \in NodeMsgs /\ n \notin SubNodes(n)
  BY ChildrenAre DEF Typed, NodeMsgs
<1>5. /\ nd \in [Nodes -> NodeStates] /\ nd[n] = node[n]
      /\ \A x \in Nodes :
           /\ x \in SubNodes(n) /\ node[x].state = "up" =>
                /\ nd[x].mail = Append(node[x].mail, PersistAndSuicide)
                /\ nd[x].state = "up" /\ nd[x].tasks = node[x].tasks
                /\ nd[x].singles = node[x].singles
                /\ nd[x].groups = node[x].groups /\ nd[x].born = node[x].born
           /\ ~(x \in SubNodes(n) /\ node[x].state = "up") => nd[x] = node[x]
  BY <1>2, <1>4, PostIs
<1>6. /\ node' \in [Nodes -> NodeStates] /\ node'[n].tasks = node[n].tasks \ {t}
      /\ node'[n].state = node[n].state /\ node'[n].mail = node[n].mail /\ node'[n].born = node[n].born
      /\ Lists(n)' = Lists(n)
      /\ \A x \in Nodes \ {n} : node'[x] = nd[x]
  BY <1>3, <1>5, StrikesIs
<1>7. Strikes(n, t, SubNodes(n), PersistAndSuicide)
  BY <1>5, <1>6 DEF Strikes, Sent, Lists
<1>8. /\ ad \in [Tasks -> TaskStates] /\ ad[t].offered = tsk[t].offered /\ ad[t].suicide = tsk[t].suicide
  <2>1. ~Handles(t)
    BY <1>3 DEF Handles
  <2> QED
    BY <1>2, <2>1, AdvisedIs
<1>9. /\ tsk' \in [Tasks -> TaskStates]
      /\ tsk'[t].state = "stopping" /\ tsk'[t].offered = tsk[t].offered /\ tsk'[t].suicide = tsk[t].suicide
      /\ \A u \in Tasks \ {t} : tsk'[u] = ad[u]
  BY <1>3, <1>8 DEF TaskStates
<1>10. /\ end' \in [Tasks -> {"NONE", "SUCCESS", "FAILURE", "ABANDONED"}]
       /\ end'[t] = "FAILURE" /\ \A u \in Tasks \ {t} : end'[u] = end[u]
  BY <1>3 DEF Typed
<1>11. Typed'
  BY <1>3, <1>6, <1>9, <1>10 DEF Typed
<1> QED
  BY <1>1, <1>2, <1>3, <1>7, <1>9, <1>10, <1>11

\* n is no more.
Leaves(n) ==
  /\ node[n].state = "stopping"
  /\ node'[n].state = "none" /\ node'[n].mail = <<>> /\ node'[n].born = node[n].born
  /\ node'[n].tasks = {} /\ Lists(n)' = {}

LEMMA GoneIs ==
  ASSUME Typed, NEW n \in Nodes, Gone(n)
  PROVE  /\ Typed' /\ UNCHANGED <<tsk, end>> /\ Leaves(n) /\ inst'.instances = inst.instances
         /\ IsDistributor(n) => /\ inst'.mail = Append(inst.mail, Terminated(Ref(n)))
                                /\ \A x \in Nodes \ {n} : node'[x] = node[x]
         /\ ~IsDistributor(n) => /\ UNCHANGED inst
                                 /\ \A x \in Nodes \ {n} : Sent(x, {Above(n)}, Terminated(Ref(n)))
<1>1. node[n].state = "stopping" /\ UNCHANGED <<tsk, end>>
  BY DEF Gone
<1>2. Ref(n) \in Refs
  BY NodeStateIs DEF Typed, Ref, Refs
<1>3. PICK m : m = Terminated(Ref(n))
  OBVIOUS
<1>4. m \in NodeMsgs /\ m \in InstMsgs
  BY <1>2, <1>3 DEF NodeMsgs, InstMsgs
<1>5. PICK b : b = node[n].born
  OBVIOUS
<1>6. b \in Nat
  BY <1>5, NodeStateIs DEF Typed
<1>7. PICK a : a = [Absent EXCEPT !.born = b]
  OBVIOUS
<1>8. /\ a \in NodeStates /\ a.state = "none" /\ a.mail = <<>> /\ a.tasks = {} /\ a.singles = {}
      /\ a.groups = {} /\ a.born = b
  <2>1. <<>> \in Seq(NodeMsgs) /\ 0 \in Nat
    OBVIOUS
  <2> QED
    BY <1>6, <1>7, <2>1 DEF Absent, NodeStates
<1>9. PICK nd : nd = [node EXCEPT ![n] = a]
  OBVIOUS
<1>10. nd \in [Nodes -> NodeStates] /\ nd[n] = a /\ \A x \in Nodes \ {n} : nd[x] = node[x]
  BY <1>8, <1>9 DEF Typed
<1>11. CASE IsDistributor(n)
  <2>1. node' = nd /\ inst' = [inst EXCEPT !.mail = Append(@, m)]
    BY <1>3, <1>5, <1>7, <1>9, <1>11 DEF Gone
  <2>2. inst.mail \in Seq(InstMsgs) /\ inst.instances \in SUBSET Refs
    BY DEF Typed
  <2>3. Append(inst.mail, m) \in Seq(InstMsgs)
    BY <1>4, <2>2, HasAppend
  <2>4. /\ inst' \in [mail : Seq(InstMsgs), instances : SUBSET Refs]
        /\ inst'.mail = Append(inst.mail, m) /\ inst'.instances = inst.instances
    BY <2>1, <2>3 DEF Typed
  <2>5. Leaves(n) /\ \A x \in Nodes \ {n} : node'[x] = node[x]
    BY <1>1, <1>5, <1>8, <1>10, <2>1 DEF Leaves, Lists
  <2>6. Typed'
    BY <1>1, <1>10, <2>1, <2>4 DEF Typed
  <2> QED
    BY <1>1, <1>3, <1>11, <2>4, <2>5, <2>6
<1>12. CASE ~IsDistributor(n)
  <2>1. node' = Post(nd, {Above(n)}, m) /\ UNCHANGED inst
    BY <1>3, <1>5, <1>7, <1>9, <1>12 DEF Gone
  <2>2. /\ node' \in [Nodes -> NodeStates]
        /\ \A x \in Nodes :
           /\ x \in {Above(n)} /\ nd[x].state = "up" =>
                /\ node'[x].mail = Append(nd[x].mail, m)
                /\ node'[x].state = "up" /\ node'[x].tasks = nd[x].tasks
                /\ node'[x].singles = nd[x].singles
                /\ node'[x].groups = nd[x].groups /\ node'[x].born = nd[x].born
           /\ ~(x \in {Above(n)} /\ nd[x].state = "up") => node'[x] = nd[x]
    BY <1>4, <1>10, <2>1, PostIs
  <2>3. node'[n] = a
    BY <1>8, <1>10, <2>2
  <2>4. Leaves(n)
    BY <1>1, <1>5, <1>8, <2>3 DEF Leaves, Lists
  <2>5. \A x \in Nodes \ {n} : Sent(x, {Above(n)}, m)
    BY <1>10, <2>2 DEF Sent, Lists
  <2>6. Typed'
    BY <1>1, <2>1, <2>2 DEF Typed
  <2> QED
    BY <1>1, <1>3, <1>12, <2>1, <2>4, <2>5, <2>6
<1> QED
  BY <1>11, <1>12

LEMMA TaskGoneIs ==
  ASSUME Typed, NEW t \in Tasks, TaskGone(t)
  PROVE  /\ Typed' /\ UNCHANGED <<inst, end>> /\ tsk[t].state = "stopping"
         /\ TaskTo(t, "gone") /\ tsk'[t].offered = tsk[t].offered
         /\ \A x \in Nodes : Sent(x, {Home(t)}, TaskTerminated)
<1>1. /\ tsk[t].state = "stopping" /\ tsk' = [tsk EXCEPT ![t].state = "gone"]
      /\ node' = Post(node, {Home(t)}, TaskTerminated) /\ UNCHANGED <<inst, end>>
  BY DEF TaskGone
<1>2. tsk' \in [Tasks -> TaskStates] /\ TaskTo(t, "gone") /\ tsk'[t].offered = tsk[t].offered
  BY <1>1 DEF Typed, TaskStates, TaskTo
<1>3. node \in [Nodes -> NodeStates] /\ TaskTerminated \in NodeMsgs
  BY DEF Typed, NodeMsgs
<1>4. node' \in [Nodes -> NodeStates] /\ \A x \in Nodes : Sent(x, {Home(t)}, TaskTerminated)
  BY <1>1, <1>3, PostIs DEF Sent, Lists
<1>5. Typed'
  BY <1>1, <1>2, <1>4 DEF Typed
<1> QED
  BY <1>1, <1>2, <1>4, <1>5

\* The steps of a TaskActor between GetTask and its result.
LEMMA TaskMovesIs ==
  ASSUME Typed, NEW t \in Tasks,
         TaskTake(t) \/ TaskNotTaken(t) \/ TaskReset(t) \/ TaskEnds(t)
  PROVE  /\ Typed' /\ UNCHANGED <<inst, node, end>> /\ tsk[t].state \in {"up", "taken"}
         /\ \E s \in {"up", "taken", "success", "failure"} : TaskTo(t, s)
         /\ tsk[t].state = "taken" \/ tsk[t].offered
         /\ tsk'[t].offered => tsk[t].offered
<1>1. CASE TaskTake(t)
  <2>1. /\ tsk[t].state = "up" /\ tsk[t].offered /\ tsk' = [tsk EXCEPT ![t].state = "taken", ![t].offered = FALSE]
        /\ UNCHANGED <<inst, node, end>>
    BY <1>1 DEF TaskTake
  <2>2. PICK a \in TaskStates : a = tsk[t]
    BY DEF Typed
  <2>3. PICK a1 : a1 = [[a EXCEPT !.state = "taken"] EXCEPT !.offered = FALSE]
    OBVIOUS
  <2>4. a1 \in TaskStates /\ a1.state = "taken" /\ a1.offered = FALSE /\ a1.suicide = a.suicide
    BY <2>3 DEF TaskStates
  <2>5. tsk' = [tsk EXCEPT ![t] = a1]
    <3>1. PICK q : q = [tsk EXCEPT ![t] = [a EXCEPT !.state = "taken"]]
      OBVIOUS
    <3>2. tsk' = [q EXCEPT ![t].offered = FALSE]
      BY <2>1, <2>2, <3>1
    <3>3. q[t] = [a EXCEPT !.state = "taken"]
      BY <3>1 DEF Typed
    <3>4. tsk' = [q EXCEPT ![t] = a1]
      BY <2>3, <3>2, <3>3
    <3> QED
      BY <3>1, <3>4
  <2>6. tsk' \in [Tasks -> TaskStates] /\ TaskTo(t, "taken") /\ ~tsk'[t].offered
    BY <2>2, <2>4, <2>5 DEF Typed, TaskTo
  <2>7. Typed'
    BY <2>1, <2>6 DEF Typed
  <2> QED
    BY <2>1, <2>6, <2>7
<1>2. CASE TaskNotTaken(t)
  <2>1. /\ tsk[t].state \in {"up", "taken"} /\ tsk[t].offered /\ tsk' = [tsk EXCEPT ![t].offered = FALSE]
        /\ UNCHANGED <<inst, node, end>>
    BY <1>2 DEF TaskNotTaken
  <2>2. tsk' \in [Tasks -> TaskStates] /\ TaskTo(t, tsk[t].state) /\ ~tsk'[t].offered
    BY <2>1 DEF Typed, TaskStates, TaskTo
  <2>3. Typed'
    BY <2>1, <2>2 DEF Typed
  <2> QED
    BY <2>1, <2>2, <2>3
<1>3. CASE TaskReset(t)
  <2>1. /\ tsk[t].state = "taken" /\ tsk' = [tsk EXCEPT ![t].state = "up"]
        /\ UNCHANGED <<inst, node, end>>
    BY <1>3 DEF TaskReset
  <2>2. tsk' \in [Tasks -> TaskStates] /\ TaskTo(t, "up") /\ tsk'[t].offered = tsk[t].offered
    BY <2>1 DEF Typed, TaskStates, TaskTo
  <2>3. Typed'
    BY <2>1, <2>2 DEF Typed
  <2> QED
    BY <2>1, <2>2, <2>3
<1>4. CASE TaskEnds(t)
  <2>1. PICK o \in {"success", "failure"} : tsk' = [tsk EXCEPT ![t].state = o, ![t].offered = FALSE]
    BY <1>4 DEF TaskEnds
  <2>2. tsk[t].state = "taken" /\ UNCHANGED <<inst, node, end>>
    BY <1>4 DEF TaskEnds
  <2>3. PICK a \in TaskStates : a = tsk[t]
    BY DEF Typed
  <2>4. PICK a1 : a1 = [[a EXCEPT !.state = o] EXCEPT !.offered = FALSE]
    OBVIOUS
  <2>5. a1 \in TaskStates /\ a1.state = o /\ a1.offered = FALSE /\ a1.suicide = a.suicide
    BY <2>4 DEF TaskStates
  <2>6. tsk' = [tsk EXCEPT ![t] = a1]
    <3>1. PICK q : q = [tsk EXCEPT ![t] = [a EXCEPT !.state = o]]
      OBVIOUS
    <3>2. tsk' = [q EXCEPT ![t].offered = FALSE]
      BY <2>1, <2>3, <3>1
    <3>3. q[t] = [a EXCEPT !.state = o]
      BY <3>1 DEF Typed
    <3>4. tsk' = [q EXCEPT ![t] = a1]
      BY <2>4, <3>2, <3>3
    <3> QED
      BY <3>1, <3>4
  <2>7. tsk' \in [Tasks -> TaskStates] /\ TaskTo(t, o) /\ ~tsk'[t].offered
    BY <2>3, <2>5, <2>6 DEF Typed, TaskTo
  <2>8. Typed'
    BY <2>2, <2>7 DEF Typed
  <2> QED
    BY <2>2, <2>7, <2>8
<1> QED
  BY <1>1, <1>2, <1>3, <1>4

LEMMA TaskSuicideIs ==
  ASSUME Typed, NEW t \in Tasks, TaskSuicide(t)
  PROVE  /\ Typed' /\ UNCHANGED <<inst, node>> /\ tsk[t].state \in {"up", "taken"} /\ tsk[t].suicide
         /\ end'[t] = "ABANDONED" /\ \A u \in Tasks \ {t} : end'[u] = end[u]
         /\ TaskTo(t, "stopping") /\ tsk'[t].offered = tsk[t].offered
<1>1. /\ tsk[t].state \in {"up", "taken"} /\ tsk[t].suicide /\ UNCHANGED <<inst, node>>
      /\ end' = [end EXCEPT ![t] = "ABANDONED"] /\ tsk' = [tsk EXCEPT ![t].state = "stopping"]
  BY DEF TaskSuicide
<1>2. tsk' \in [Tasks -> TaskStates] /\ TaskTo(t, "stopping") /\ tsk'[t].offered = tsk[t].offered
  BY <1>1 DEF Typed, TaskStates, TaskTo
<1>3. /\ end' \in [Tasks -> {"NONE", "SUCCESS", "FAILURE", "ABANDONED"}]
      /\ end'[t] = "ABANDONED" /\ \A u \in Tasks \ {t} : end'[u] = end[u]
  BY <1>1 DEF Typed
<1>4. Typed'
  BY <1>1, <1>2, <1>3 DEF Typed
<1> QED
  BY <1>1, <1>2, <1>3, <1>4

LEMMA UploadIs ==
  ASSUME Typed, NEW t \in Tasks, Upload(t)
  PROVE  /\ Typed' /\ UNCHANGED <<node, end>> /\ tsk[t].state = "new"
         /\ TaskTo(t, "sent") /\ tsk'[t].offered = tsk[t].offered
         /\ inst'.mail = Append(inst.mail, AddTask(t)) /\ inst'.instances = inst.instances
<1>1. /\ tsk[t].state = "new" /\ UNCHANGED <<node, end>>
      /\ tsk' = [tsk EXCEPT ![t].state = "sent"]
      /\ inst' = [inst EXCEPT !.mail = Append(@, AddTask(t))]
  BY DEF Upload
<1>2. tsk' \in [Tasks -> TaskStates] /\ TaskTo(t, "sent") /\ tsk'[t].offered = tsk[t].offered
  BY <1>1 DEF Typed, TaskStates, TaskTo
<1>3. inst.mail \in Seq(InstMsgs) /\ AddTask(t) \in InstMsgs
  BY DEF Typed, InstMsgs
<1>4. Append(inst.mail, AddTask(t)) \in Seq(InstMsgs)
  BY <1>3, HasAppend
<1>5. /\ inst' \in [mail : Seq(InstMsgs), instances : SUBSET Refs]
      /\ inst'.mail = Append(inst.mail, AddTask(t)) /\ inst'.instances = inst.instances
  BY <1>1, <1>4 DEF Typed
<1>6. Typed'
  BY <1>1, <1>2, <1>5 DEF Typed
<1> QED
  BY <1>1, <1>2, <1>5, <1>6

LEMMA PollIs ==
  ASSUME Typed, NEW ver \in Versions, Poll(ver)
  PROVE  /\ Typed' /\ UNCHANGED <<node, tsk, end>>
         /\ inst'.mail = Append(inst.mail, GetTaskOf(ver)) /\ inst'.instances = inst.instances
         /\ Undisturbed => \A t, u \in Tasks :
              RunOf[t] = RunOf[u] => (tsk[t].state = "new") = (tsk[u].state = "new")
<1>1. /\ UNCHANGED <<node, tsk, end>>
      /\ inst' = [inst EXCEPT !.mail = Append(@, GetTaskOf(ver))]
  BY DEF Poll
<1>2. inst.mail \in Seq(InstMsgs) /\ GetTaskOf(ver) \in InstMsgs
  BY DEF Typed, InstMsgs
<1>3. Append(inst.mail, GetTaskOf(ver)) \in Seq(InstMsgs)
  BY <1>2, HasAppend
<1>4. /\ inst' \in [mail : Seq(InstMsgs), instances : SUBSET Refs]
      /\ inst'.mail = Append(inst.mail, GetTaskOf(ver)) /\ inst'.instances = inst.instances
  BY <1>1, <1>3 DEF Typed
<1>5. Typed'
  BY <1>1, <1>4 DEF Typed
<1>6. Undisturbed => \A t, u \in Tasks :
              RunOf[t] = RunOf[u] => (tsk[t].state = "new") = (tsk[u].state = "new")
  BY DEF Poll
<1> QED
  BY <1>1, <1>4, <1>5, <1>6

\* The InstanceActor is done with a message that is no AddTask.
InstDone ==
  /\ inst.mail # <<>> /\ Head(inst.mail).kind # "AddTask"
  /\ inst'.mail = Tail(inst.mail) /\ inst'.instances \subseteq inst.instances

LEMMA InstGetTaskIs ==
  ASSUME Typed, Delivery, InstGetTask
  PROVE  /\ Typed' /\ UNCHANGED <<tsk, end>> /\ InstDone /\ Head(inst.mail).kind = "GetTask"
         /\ inst'.instances = inst.instances
         /\ \E to \in SUBSET {d \in Nodes : IsDistributor(d)} : \A x \in Nodes : Sent(x, to, GetTask)
<1>1. /\ inst.mail # <<>> /\ Head(inst.mail).kind = "GetTask" /\ inst' = [inst EXCEPT !.mail = Tail(@)]
      /\ UNCHANGED <<tsk, end>>
  BY DEF InstGetTask, InstReceives
<1>2. PICK refs : refs = Matching(Head(inst.mail).version)
  OBVIOUS
<1>3. PICK first : first = {ref \in refs : \A other \in refs : \/ ref[1][1] < other[1][1]
                                                              \/ /\ ref[1] = other[1]
                                                                 /\ ref[2] >= other[2]}
  OBVIOUS
<1>4. PICK to : to = {ref[1] : ref \in {r \in first : r = Ref(r[1])}}
  OBVIOUS
<1>5. node' = Post(node, to, GetTask)
  BY <1>2, <1>3, <1>4 DEF InstGetTask
<1>6. to \in SUBSET {d \in Nodes : IsDistributor(d)}
  <2>1. \A r \in inst.instances : r[1] \in Nodes /\ IsDistributor(r[1])
    BY DEF Typed, Delivery, Refs
  <2>2. first \subseteq inst.instances
    BY <1>2, <1>3 DEF Matching
  <2> QED
    BY <1>4, <2>1, <2>2
<1>7. node \in [Nodes -> NodeStates] /\ GetTask \in NodeMsgs
  BY DEF Typed, NodeMsgs
<1>8. node' \in [Nodes -> NodeStates] /\ \A x \in Nodes : Sent(x, to, GetTask)
  BY <1>5, <1>7, PostIs DEF Sent, Lists
<1>9. inst.mail \in Seq(InstMsgs)
  BY DEF Typed
<1>10. Tail(inst.mail) \in Seq(InstMsgs)
  BY <1>1, <1>9, HasTail
<1>11. /\ inst' \in [mail : Seq(InstMsgs), instances : SUBSET Refs]
       /\ inst'.mail = Tail(inst.mail) /\ inst'.instances = inst.instances
  BY <1>1, <1>10 DEF Typed
<1>12. Typed'
  BY <1>1, <1>8, <1>11 DEF Typed
<1>13. InstDone
  BY <1>1, <1>11 DEF InstDone
<1> QED
  BY <1>1, <1>6, <1>8, <1>11, <1>12, <1>13

LEMMA NoMoreTasksIs ==
  ASSUME Typed, NEW ver \in Versions, NoMoreTasks(ver)
  PROVE  /\ Typed' /\ UNCHANGED <<node, tsk, end>> /\ InstDone /\ inst'.instances = inst.instances
         /\ Matching(ver) = {}
<1>1. /\ inst.mail # <<>> /\ Head(inst.mail) = GetTaskOf(ver) /\ inst' = [inst EXCEPT !.mail = Tail(@)]
      /\ UNCHANGED <<node, tsk, end>> /\ Matching(ver) = {}
  BY DEF NoMoreTasks
<1>2. Head(inst.mail).kind # "AddTask"
  BY <1>1, MsgKinds
<1>3. inst.mail \in Seq(InstMsgs)
  BY DEF Typed
<1>4. Tail(inst.mail) \in Seq(InstMsgs)
  BY <1>1, <1>3, HasTail
<1>5. /\ inst' \in [mail : Seq(InstMsgs), instances : SUBSET Refs]
      /\ inst'.mail = Tail(inst.mail) /\ inst'.instances = inst.instances
  BY <1>1, <1>4 DEF Typed
<1>6. Typed'
  BY <1>1, <1>5 DEF Typed
<1> QED
  BY <1>1, <1>2, <1>5, <1>6 DEF InstDone

LEMMA InstTerminatedIs ==
  ASSUME Typed, InstTerminated
  PROVE  /\ Typed' /\ UNCHANGED <<node, tsk, end>> /\ InstDone
         /\ \E ref \in Refs : Head(inst.mail) = Terminated(ref) /\ inst'.instances = inst.instances \ {ref}
<1>1. /\ inst.mail # <<>> /\ Head(inst.mail).kind = "Terminated" /\ UNCHANGED <<node, tsk, end>>
      /\ inst' = [mail |-> Tail(inst.mail), instances |-> inst.instances \ {Head(inst.mail).ref}]
  BY DEF InstTerminated, InstReceives
<1>2. inst.mail \in Seq(InstMsgs) /\ inst.instances \in SUBSET Refs
  BY DEF Typed
<1>3. Tail(inst.mail) \in Seq(InstMsgs) /\ Head(inst.mail) \in InstMsgs
  BY <1>1, <1>2, HasTail
<1>4. PICK ref \in Refs : Head(inst.mail) = Terminated(ref) /\ Head(inst.mail).ref = ref
  BY <1>1, <1>3, InstMsgIs
<1>5. /\ inst' \in [mail : Seq(InstMsgs), instances : SUBSET Refs]
      /\ inst'.mail = Tail(inst.mail) /\ inst'.instances = inst.instances \ {ref}
  BY <1>1, <1>2, <1>3, <1>4
<1>6. Typed'
  BY <1>1, <1>5 DEF Typed
<1> QED
  BY <1>1, <1>4, <1>5, <1>6 DEF InstDone

-----------------------------------------------------------------------------
(* Every AddTask is in one mailbox *)

LEMMA QuietKeeps ==
  ASSUME Typed, Delivery, Quiet(inst.mail, inst'.mail), inst'.instances \subseteq inst.instances,
         \A n \in Nodes : /\ Quiet(node[n].mail, node'[n].mail) /\ Lists(n)' \subseteq Lists(n)
                          /\ node'[n].state # "up" => node'[n].mail = <<>>,
         \A t \in Tasks : tsk[t].state = "sent" /\ tsk'[t].state # "sent" =>
           ~Has(inst'.mail, AddTask(t)) /\ \A n \in Nodes : ~Has(node'[n].mail, AddTask(t))
  PROVE  Delivery'
<1>1. \A n \in Nodes : \A ref \in Lists(n)' : ~IsDistributor(ref[1]) /\ Above(ref[1]) = n
  BY DEF Delivery
<1>2. \A t \in Tasks : /\ Has(inst'.mail, AddTask(t)) => Has(inst.mail, AddTask(t))
                       /\ Once(inst'.mail, AddTask(t))
  BY DEF Delivery, Quiet
<1>3. \A n \in Nodes, t \in Tasks : /\ Has(node'[n].mail, AddTask(t)) => Has(node[n].mail, AddTask(t))
                                    /\ Once(node'[n].mail, AddTask(t))
  BY DEF Delivery, Quiet
<1>4. \A t \in Tasks : Has(inst'.mail, AddTask(t)) =>
        tsk'[t].state = "sent" /\ \A n \in Nodes : ~Has(node'[n].mail, AddTask(t))
  BY <1>2, <1>3 DEF Delivery
<1>5. \A n \in Nodes, t \in Tasks : Has(node'[n].mail, AddTask(t)) =>
        /\ tsk'[t].state = "sent" /\ Below(n, t)
        /\ \A m \in Nodes : Has(node'[m].mail, AddTask(t)) => m = n
  BY <1>3 DEF Delivery
<1>6. \A ref \in inst'.instances : IsDistributor(ref[1])
  BY DEF Delivery
<1>7. \A n \in Nodes : node'[n].state # "up" => node'[n].mail = <<>>
  OBVIOUS
<1> QED
  BY <1>1, <1>2, <1>3, <1>4, <1>5, <1>6, <1>7 DEF Delivery

LEMMA SentKeeps ==
  ASSUME Typed, Delivery, NEW x \in Nodes, NEW to, NEW m \in NodeMsgs, m.kind # "AddTask", Sent(x, to, m)
  PROVE  /\ Quiet(node[x].mail, node'[x].mail) /\ Lists(x)' = Lists(x)
         /\ node'[x].state # "up" => node'[x].mail = <<>>
         /\ node'[x].state = node[x].state
<1>1. node[x].mail \in Seq(NodeMsgs)
  BY NodeStateIs DEF Typed
<1>2. CASE x \in to /\ node[x].state = "up"
  <2>1. node'[x].mail = Append(node[x].mail, m) /\ node'[x].state = "up" /\ Lists(x)' = Lists(x)
    BY <1>2 DEF Sent
  <2> QED
    BY <1>1, <1>2, <2>1, QuietAppend
<1>3. CASE ~(x \in to /\ node[x].state = "up")
  <2>1. node'[x] = node[x]
    BY <1>3 DEF Sent
  <2> QED
    BY <2>1, QuietSame DEF Delivery, Lists
<1> QED
  BY <1>2, <1>3

LEMMA SameKeeps ==
  ASSUME Typed, Delivery, NEW x \in Nodes, node'[x] = node[x]
  PROVE  /\ Quiet(node[x].mail, node'[x].mail) /\ Lists(x)' = Lists(x)
         /\ node'[x].state # "up" => node'[x].mail = <<>>
         /\ node'[x].state = node[x].state
  BY QuietSame DEF Delivery, Lists

LEMMA ForwardsKeeps ==
  ASSUME Typed, Delivery, NEW n \in Nodes, NEW to, NEW m \in NodeMsgs, m.kind # "AddTask", Forwards(n, to, m),
         UNCHANGED inst, \A t \in Tasks : tsk'[t].state = tsk[t].state
  PROVE  Delivery'
<1>1. \A x \in Nodes \ {n} : /\ Quiet(node[x].mail, node'[x].mail) /\ Lists(x)' \subseteq Lists(x)
                             /\ node'[x].state # "up" => node'[x].mail = <<>>
  <2>1. \A x \in Nodes \ {n} : Sent(x, to, m)
    BY DEF Forwards
  <2> QED
    BY <2>1, SentKeeps
<1>2. node'[n].mail = Tail(node[n].mail) /\ node'[n].state = "up" /\ node[n].mail # <<>> /\ Lists(n)' \subseteq Lists(n)
  BY DEF Forwards, Done
<1>3. node[n].mail \in Seq(NodeMsgs)
  BY NodeStateIs DEF Typed
<1>4. Quiet(node[n].mail, node'[n].mail)
  BY <1>2, <1>3, QuietTail
<1>5. Quiet(inst.mail, inst'.mail)
  BY QuietSame
<1> QED
  BY <1>1, <1>2, <1>4, <1>5, QuietKeeps

LEMMA StopsKeeps ==
  ASSUME Typed, Delivery, NEW n \in Nodes, Stops(n), UNCHANGED inst
  PROVE  Delivery'
<1>1. \A x \in Nodes \ {n} : /\ Quiet(node[x].mail, node'[x].mail) /\ Lists(x)' \subseteq Lists(x)
                             /\ node'[x].state # "up" => node'[x].mail = <<>>
  BY SameKeeps DEF Stops
<1>2. node'[n].mail = <<>> /\ Lists(n)' = Lists(n) /\ Quiet(node[n].mail, node'[n].mail)
  BY QuietEmpty DEF Stops
<1>3. Quiet(inst.mail, inst'.mail)
  BY QuietSame
<1>4. ASSUME NEW t \in Tasks, tsk[t].state = "sent", tsk'[t].state # "sent"
      PROVE  ~Has(inst'.mail, AddTask(t)) /\ \A x \in Nodes : ~Has(node'[x].mail, AddTask(t))
  <2>1. tsk' = Lose(LostWith(node, n))
    BY DEF Stops
  <2>2. t \in LostWith(node, n)
    BY <1>4, <2>1, LoseIs
  <2>3. Has(node[n].mail, AddTask(t))
    BY <2>2 DEF LostWith, Has
  <2>4. ~Has(inst.mail, AddTask(t)) /\ \A x \in Nodes \ {n} : ~Has(node[x].mail, AddTask(t))
    BY <2>3 DEF Delivery
  <2>5. \A x \in Nodes \ {n} : node'[x] = node[x]
    BY DEF Stops
  <2>6. ~Has(node'[n].mail, AddTask(t))
    BY <1>2, HasEmpty
  <2> QED
    BY <2>4, <2>5, <2>6
<1> QED
  BY <1>1, <1>2, <1>3, <1>4, QuietKeeps

\* How Delivered changes what is in the mailbox of c.
LEMMA DeliveredMail ==
  ASSUME Typed, Delivery, NEW c \in Nodes, NEW t \in Tasks, Delivered(t, c), ~Has(node[c].mail, AddTask(t))
  PROVE  /\ \A u \in Tasks : /\ Has(node'[c].mail, AddTask(u)) =>
                                  Has(node[c].mail, AddTask(u)) \/ (u = t /\ node[c].state # "stopping")
                             /\ Once(node'[c].mail, AddTask(u))
                             /\ u # t => tsk'[u] = tsk[u]
         /\ node[c].state # "stopping" => tsk'[t] = tsk[t]
         /\ node'[c].state # "up" => node'[c].mail = <<>>
         /\ Lists(c)' \subseteq Lists(c)
<1>1. node[c].mail \in Seq(NodeMsgs) /\ node[c].state \in {"none", "up", "stopping"}
  BY NodeStateIs DEF Typed
<1>2. AddTask(t) \in NodeMsgs
  BY DEF NodeMsgs
<1>3. CASE node[c].state = "stopping"
  <2>1. node'[c] = node[c] /\ tsk' = Lose({t})
    BY <1>3 DEF Delivered
  <2>2. \A u \in Tasks : u # t => tsk'[u] = tsk[u]
    BY <2>1, LoseIs
  <2> QED
    BY <1>3, <2>1, <2>2 DEF Delivery, Lists
<1>4. CASE node[c].state # "stopping"
  <2>1. node'[c].state = "up" /\ node'[c].mail = Append(node[c].mail, AddTask(t)) /\ tsk' = Lose({})
    BY <1>4 DEF Delivered
  <2>2. \A u \in Tasks : tsk'[u] = tsk[u]
    BY <2>1, LoseIs
  <2>3. \A u \in Tasks : AddTask(u) = AddTask(t) => u = t
    BY MsgKinds
  <2>4. \A u \in Tasks : /\ Has(node'[c].mail, AddTask(u)) => Has(node[c].mail, AddTask(u)) \/ u = t
                         /\ Once(node'[c].mail, AddTask(u))
    BY <1>1, <1>2, <2>1, <2>3, HasAppend DEF Delivery
  <2>5. Lists(c)' \subseteq Lists(c)
    BY <1>1, <1>4 DEF Delivered
  <2> QED
    BY <1>4, <2>1, <2>2, <2>4, <2>5
<1> QED
  BY <1>3, <1>4

LEMMA PassesKeeps ==
  ASSUME Typed, Delivery, NEW n \in Nodes, NEW t \in Tasks, Below(n, t), Home(t) # n,
         Passes(n, t, Toward(n, t)), UNCHANGED inst
  PROVE  Delivery'
<1>1. PICK c \in Nodes : c = Toward(n, t)
  BY TowardIs
<1>2. c # n /\ Below(c, t) /\ ~IsDistributor(c) /\ Above(c) = n
  BY <1>1, TowardIs
<1>3. /\ Delivered(t, c) /\ node[n].mail # <<>> /\ Head(node[n].mail) = AddTask(t)
      /\ node'[n].mail = Tail(node[n].mail) /\ node'[n].state = "up"
      /\ Lists(n)' \subseteq Lists(n) \cup {<<c, node[c].born + 1>>}
      /\ \A x \in Nodes \ {n, c} : node'[x] = node[x]
  BY <1>1 DEF Passes, Done
<1>4. node[n].mail \in Seq(NodeMsgs)
  BY NodeStateIs DEF Typed
<1>5. Has(node[n].mail, AddTask(t))
  BY <1>3, <1>4, HasTail
<1>6. /\ tsk[t].state = "sent" /\ ~Has(inst.mail, AddTask(t))
      /\ \A x \in Nodes \ {n} : ~Has(node[x].mail, AddTask(t))
  BY <1>5 DEF Delivery
<1>7. /\ \A u \in Tasks : /\ Has(node'[c].mail, AddTask(u)) =>
                                 Has(node[c].mail, AddTask(u)) \/ (u = t /\ node[c].state # "stopping")
                          /\ Once(node'[c].mail, AddTask(u))
                          /\ u # t => tsk'[u] = tsk[u]
      /\ node[c].state # "stopping" => tsk'[t] = tsk[t]
      /\ node'[c].state # "up" => node'[c].mail = <<>>
      /\ Lists(c)' \subseteq Lists(c)
  <2>1. ~Has(node[c].mail, AddTask(t))
    BY <1>2, <1>6
  <2> QED
    BY <1>3, <2>1, DeliveredMail
<1>8. \A u \in Tasks : /\ Has(node'[n].mail, AddTask(u)) => Has(node[n].mail, AddTask(u)) /\ u # t
                       /\ Once(node'[n].mail, AddTask(u))
  BY <1>3, <1>4, HasTail DEF Delivery
<1>9. \A x \in Nodes, u \in Tasks : Has(node'[x].mail, AddTask(u)) =>
        \/ u # t /\ Has(node[x].mail, AddTask(u)) /\ tsk'[u] = tsk[u]
        \/ u = t /\ x = c /\ tsk'[u] = tsk[u]
  <2>1. SUFFICES ASSUME NEW x \in Nodes, NEW u \in Tasks, Has(node'[x].mail, AddTask(u))
                 PROVE  \/ u # t /\ Has(node[x].mail, AddTask(u)) /\ tsk'[u] = tsk[u]
                        \/ u = t /\ x = c /\ tsk'[u] = tsk[u]
    OBVIOUS
  <2>2. CASE x = n
    BY <1>7, <1>8, <2>1, <2>2
  <2>3. CASE x = c
    BY <1>2, <1>6, <1>7, <2>1, <2>3
  <2>4. CASE x # n /\ x # c
    BY <1>3, <1>6, <1>7, <2>1, <2>4
  <2> QED
    BY <2>2, <2>3, <2>4
<1>10. \A x \in Nodes : node'[x].state # "up" => node'[x].mail = <<>>
  BY <1>3, <1>7 DEF Delivery
<1>11. \A x \in Nodes : \A ref \in Lists(x)' : ~IsDistributor(ref[1]) /\ Above(ref[1]) = x
  <2>1. SUFFICES ASSUME NEW x \in Nodes, NEW ref \in Lists(x)'
                 PROVE  ~IsDistributor(ref[1]) /\ Above(ref[1]) = x
    OBVIOUS
  <2>2. CASE x = n
    <3>1. ref \in Lists(n) \/ ref = <<c, node[c].born + 1>>
      BY <1>3, <2>1, <2>2
    <3>2. ref = <<c, node[c].born + 1>> => ref[1] = c
      OBVIOUS
    <3> QED
      BY <1>2, <2>2, <3>1, <3>2 DEF Delivery
  <2>3. CASE x # n
    <3>1. ref \in Lists(x)
      BY <1>3, <1>7, <2>1, <2>3 DEF Lists
    <3> QED
      BY <3>1 DEF Delivery
  <2> QED
    BY <2>2, <2>3
<1>12. \A x \in Nodes, u \in Tasks : Once(node'[x].mail, AddTask(u))
  BY <1>3, <1>7, <1>8 DEF Delivery
<1>13. \A u \in Tasks : Has(inst'.mail, AddTask(u)) =>
         tsk'[u].state = "sent" /\ \A x \in Nodes : ~Has(node'[x].mail, AddTask(u))
  BY <1>6, <1>7, <1>9 DEF Delivery
<1>14. \A x \in Nodes, u \in Tasks : Has(node'[x].mail, AddTask(u)) =>
         /\ tsk'[u].state = "sent" /\ Below(x, u)
         /\ \A m \in Nodes : Has(node'[m].mail, AddTask(u)) => m = x
  BY <1>2, <1>6, <1>9 DEF Delivery
<1>15. /\ \A ref \in inst'.instances : IsDistributor(ref[1])
       /\ \A u \in Tasks : Once(inst'.mail, AddTask(u))
  BY DEF Delivery
<1> QED
  BY <1>10, <1>11, <1>12, <1>13, <1>14, <1>15 DEF Delivery

LEMMA InstAddTaskKeeps ==
  ASSUME Typed, Delivery, InstAddTask
  PROVE  Delivery'
<1>1. PICK t \in Tasks :
         /\ inst.mail # <<>> /\ Head(inst.mail) = AddTask(t) /\ inst'.mail = Tail(inst.mail)
         /\ Has(inst.mail, AddTask(t))
         /\ inst'.instances = inst.instances \cup
              IF node[Distributor(RunOf[t])].state = "none"
              THEN {<<Distributor(RunOf[t]), node[Distributor(RunOf[t])].born + 1>>} ELSE {}
         /\ Delivered(t, Distributor(RunOf[t]))
         /\ \A x \in Nodes \ {Distributor(RunOf[t])} : node'[x] = node[x]
         /\ UNCHANGED end
  BY InstAddTaskIs
<1>2. PICK d \in Nodes : d = Distributor(RunOf[t])
  BY DistributorIs
<1>3. IsDistributor(d) /\ Below(d, t)
  BY <1>2, DistributorIs
<1>4. /\ inst'.instances \subseteq inst.instances \cup {<<d, node[d].born + 1>>}
      /\ Delivered(t, d) /\ \A x \in Nodes \ {d} : node'[x] = node[x]
  BY <1>1, <1>2
<1>5. tsk[t].state = "sent" /\ \A x \in Nodes : ~Has(node[x].mail, AddTask(t))
  BY <1>1 DEF Delivery
<1>6. /\ \A u \in Tasks : /\ Has(node'[d].mail, AddTask(u)) =>
                               Has(node[d].mail, AddTask(u)) \/ (u = t /\ node[d].state # "stopping")
                          /\ Once(node'[d].mail, AddTask(u))
                          /\ u # t => tsk'[u] = tsk[u]
      /\ node[d].state # "stopping" => tsk'[t] = tsk[t]
      /\ node'[d].state # "up" => node'[d].mail = <<>>
      /\ Lists(d)' \subseteq Lists(d)
  BY <1>4, <1>5, DeliveredMail
<1>7. inst.mail \in Seq(InstMsgs)
  BY DEF Typed
<1>8. \A u \in Tasks : /\ Has(inst'.mail, AddTask(u)) => Has(inst.mail, AddTask(u)) /\ u # t
                       /\ Once(inst'.mail, AddTask(u))
  BY <1>1, <1>7, HasTail DEF Delivery
<1>9. \A x \in Nodes, u \in Tasks : Has(node'[x].mail, AddTask(u)) =>
        \/ u # t /\ Has(node[x].mail, AddTask(u)) /\ tsk'[u] = tsk[u]
        \/ u = t /\ x = d /\ tsk'[u] = tsk[u]
  <2>1. SUFFICES ASSUME NEW x \in Nodes, NEW u \in Tasks, Has(node'[x].mail, AddTask(u))
                 PROVE  \/ u # t /\ Has(node[x].mail, AddTask(u)) /\ tsk'[u] = tsk[u]
                        \/ u = t /\ x = d /\ tsk'[u] = tsk[u]
    OBVIOUS
  <2>2. CASE x = d
    BY <1>5, <1>6, <2>1, <2>2
  <2>3. CASE x # d
    BY <1>4, <1>5, <1>6, <2>1, <2>3
  <2> QED
    BY <2>2, <2>3
<1>10. \A x \in Nodes : node'[x].state # "up" => node'[x].mail = <<>>
  BY <1>4, <1>6 DEF Delivery
<1>11. \A x \in Nodes : Lists(x)' \subseteq Lists(x)
  BY <1>4, <1>6 DEF Lists
<1>12. \A x \in Nodes : \A ref \in Lists(x)' : ~IsDistributor(ref[1]) /\ Above(ref[1]) = x
  BY <1>11 DEF Delivery
<1>13. \A x \in Nodes, u \in Tasks : Once(node'[x].mail, AddTask(u))
  BY <1>4, <1>6 DEF Delivery
<1>14. \A u \in Tasks : Has(inst'.mail, AddTask(u)) =>
         tsk'[u].state = "sent" /\ \A x \in Nodes : ~Has(node'[x].mail, AddTask(u))
  BY <1>6, <1>8, <1>9 DEF Delivery
<1>15. \A x \in Nodes, u \in Tasks : Has(node'[x].mail, AddTask(u)) =>
         /\ tsk'[u].state = "sent" /\ Below(x, u)
         /\ \A m \in Nodes : Has(node'[m].mail, AddTask(u)) => m = x
  BY <1>3, <1>5, <1>9 DEF Delivery
<1>16. \A ref \in inst'.instances : IsDistributor(ref[1])
  <2>1. \A ref : ref = <<d, node[d].born + 1>> => ref[1] = d
    OBVIOUS
  <2> QED
    BY <1>3, <1>4, <2>1 DEF Delivery
<1> QED
  BY <1>8, <1>10, <1>12, <1>13, <1>14, <1>15, <1>16 DEF Delivery

LEMMA ArrivesKeeps ==
  ASSUME Typed, Delivery, NEW n \in Nodes, NEW t \in Tasks, Arrives(n, t), UNCHANGED inst
  PROVE  Delivery'
<1>1. /\ node[n].mail # <<>> /\ Head(node[n].mail) = AddTask(t) /\ node'[n].state = "up"
      /\ node'[n].mail = Tail(node[n].mail) /\ Lists(n)' = Lists(n)
      /\ \A x \in Nodes \ {n} : node'[x] = node[x]
      /\ \A u \in Tasks \ {t} : tsk'[u] = tsk[u]
  BY DEF Arrives, Done
<1>2. node[n].mail \in Seq(NodeMsgs)
  BY NodeStateIs DEF Typed
<1>3. Has(node[n].mail, AddTask(t)) /\ ~Has(node'[n].mail, AddTask(t)) /\ Quiet(node[n].mail, node'[n].mail)
  BY <1>1, <1>2, HasTail, QuietTail DEF Delivery
<1>4. ~Has(inst.mail, AddTask(t)) /\ \A x \in Nodes \ {n} : ~Has(node[x].mail, AddTask(t))
  BY <1>3 DEF Delivery
<1>5. ~Has(inst'.mail, AddTask(t)) /\ \A x \in Nodes : ~Has(node'[x].mail, AddTask(t))
  BY <1>1, <1>3, <1>4
<1>6. \A u \in Tasks : tsk[u].state = "sent" /\ tsk'[u].state # "sent" => u = t
  BY <1>1
<1>7. \A x \in Nodes \ {n} : /\ Quiet(node[x].mail, node'[x].mail) /\ Lists(x)' \subseteq Lists(x)
                             /\ node'[x].state # "up" => node'[x].mail = <<>>
  BY <1>1, SameKeeps
<1>8. Quiet(inst.mail, inst'.mail)
  BY QuietSame
<1> QED
  BY <1>1, <1>3, <1>5, <1>6, <1>7, <1>8, QuietKeeps

LEMMA UploadKeeps ==
  ASSUME Typed, Delivery, NEW t \in Tasks, Upload(t)
  PROVE  Delivery'
<1>1. /\ UNCHANGED <<node, end>> /\ tsk[t].state = "new"
      /\ tsk'[t].state = "sent" /\ \A u \in Tasks \ {t} : tsk'[u] = tsk[u]
      /\ inst'.mail = Append(inst.mail, AddTask(t)) /\ inst'.instances = inst.instances
  BY UploadIs DEF TaskTo
<1>2. inst.mail \in Seq(InstMsgs) /\ AddTask(t) \in InstMsgs
  BY DEF Typed, InstMsgs
<1>3. ~Has(inst.mail, AddTask(t)) /\ \A n \in Nodes : ~Has(node[n].mail, AddTask(t))
  BY <1>1 DEF Delivery
<1>4. \A u \in Tasks : AddTask(u) = AddTask(t) => u = t
  BY MsgKinds
<1>5. \A u \in Tasks : /\ Has(inst'.mail, AddTask(u)) => Has(inst.mail, AddTask(u)) \/ u = t
                       /\ Once(inst'.mail, AddTask(u))
  BY <1>1, <1>2, <1>3, <1>4, HasAppend DEF Delivery
<1>6. \A u \in Tasks : Has(inst'.mail, AddTask(u)) =>
        tsk'[u].state = "sent" /\ \A n \in Nodes : ~Has(node'[n].mail, AddTask(u))
  BY <1>1, <1>3, <1>5 DEF Delivery
<1>7. \A n \in Nodes, u \in Tasks : Has(node'[n].mail, AddTask(u)) =>
        /\ tsk'[u].state = "sent" /\ Below(n, u)
        /\ \A m \in Nodes : Has(node'[m].mail, AddTask(u)) => m = n
  BY <1>1 DEF Delivery
<1>8. /\ \A n \in Nodes : node'[n].state # "up" => node'[n].mail = <<>>
      /\ \A n \in Nodes : \A ref \in Lists(n)' : ~IsDistributor(ref[1]) /\ Above(ref[1]) = n
      /\ \A ref \in inst'.instances : IsDistributor(ref[1])
      /\ \A n \in Nodes, u \in Tasks : Once(node'[n].mail, AddTask(u))
  BY <1>1 DEF Delivery, Lists
<1> QED
  BY <1>5, <1>6, <1>7, <1>8 DEF Delivery

\* The steps that leave the mailboxes of the tree alone, or send to it.
LEMMA InstDoneKeeps ==
  ASSUME Typed, Delivery, InstDone, UNCHANGED tsk, NEW to, \A x \in Nodes : Sent(x, to, GetTask)
  PROVE  Delivery'
<1>1. inst.mail \in Seq(InstMsgs)
  BY DEF Typed
<1>2. Quiet(inst.mail, inst'.mail) /\ inst'.instances \subseteq inst.instances
  BY <1>1, QuietTail DEF InstDone
<1>3. GetTask \in NodeMsgs /\ GetTask.kind # "AddTask"
  BY MsgKinds DEF NodeMsgs
<1>4. \A x \in Nodes : /\ Quiet(node[x].mail, node'[x].mail) /\ Lists(x)' = Lists(x)
                       /\ node'[x].state # "up" => node'[x].mail = <<>>
  BY <1>3, SentKeeps
<1> QED
  BY <1>2, <1>4, QuietKeeps

LEMMA PollKeeps ==
  ASSUME Typed, Delivery, NEW ver \in Versions, Poll(ver)
  PROVE  Delivery'
<1>1. /\ UNCHANGED <<node, tsk>>
      /\ inst'.mail = Append(inst.mail, GetTaskOf(ver)) /\ inst'.instances = inst.instances
  BY PollIs
<1>2. inst.mail \in Seq(InstMsgs) /\ GetTaskOf(ver) \in InstMsgs /\ GetTaskOf(ver).kind # "AddTask"
  BY MsgKinds DEF Typed, InstMsgs
<1>3. Quiet(inst.mail, inst'.mail)
  BY <1>1, <1>2, QuietAppend
<1>4. \A x \in Nodes : /\ Quiet(node[x].mail, node'[x].mail) /\ Lists(x)' = Lists(x)
                       /\ node'[x].state # "up" => node'[x].mail = <<>>
  BY <1>1, SameKeeps
<1> QED
  BY <1>1, <1>3, <1>4, QuietKeeps

LEMMA StrikesKeeps ==
  ASSUME Typed, Delivery, UNCHANGED inst, NEW n \in Nodes, NEW t, NEW to, NEW m \in NodeMsgs, m.kind # "AddTask",
         Strikes(n, t, to, m), \A u \in Tasks : tsk[u].state = "sent" => tsk'[u].state = "sent"
  PROVE  Delivery'
<1>1. Quiet(inst.mail, inst'.mail)
  BY QuietSame
<1>2. \A x \in Nodes \ {n} : /\ Quiet(node[x].mail, node'[x].mail) /\ Lists(x)' \subseteq Lists(x)
                             /\ node'[x].state # "up" => node'[x].mail = <<>>
  BY SentKeeps DEF Strikes
<1>3. node'[n].mail = node[n].mail /\ node'[n].state = node[n].state /\ Lists(n)' = Lists(n)
  BY DEF Strikes
<1>4. Quiet(node[n].mail, node'[n].mail) /\ (node'[n].state # "up" => node'[n].mail = <<>>)
  BY <1>3, QuietSame DEF Delivery
<1> QED
  BY <1>1, <1>2, <1>3, <1>4, QuietKeeps

LEMMA GoneKeeps ==
  ASSUME Typed, Delivery, NEW n \in Nodes, Gone(n)
  PROVE  Delivery'
<1>1. UNCHANGED tsk /\ Leaves(n) /\ inst'.instances = inst.instances
  BY GoneIs
<1>2. PICK m : m = Terminated(Ref(n))
  OBVIOUS
<1>3. m \in NodeMsgs /\ m \in InstMsgs /\ m.kind # "AddTask"
  <2>1. Ref(n) \in Refs
    BY NodeStateIs DEF Typed, Ref, Refs
  <2> QED
    BY <1>2, <2>1, MsgKinds DEF NodeMsgs, InstMsgs
<1>4. inst.mail \in Seq(InstMsgs)
  BY DEF Typed
<1>5. Quiet(inst.mail, inst'.mail)
  <2>1. CASE IsDistributor(n)
    BY <1>2, <1>3, <1>4, <2>1, GoneIs, QuietAppend
  <2>2. CASE ~IsDistributor(n)
    BY <2>2, GoneIs, QuietSame
  <2> QED
    BY <2>1, <2>2
<1>6. \A x \in Nodes \ {n} : /\ Quiet(node[x].mail, node'[x].mail) /\ Lists(x)' \subseteq Lists(x)
                             /\ node'[x].state # "up" => node'[x].mail = <<>>
  <2>1. CASE IsDistributor(n)
    BY <2>1, GoneIs, SameKeeps
  <2>2. CASE ~IsDistributor(n)
    <3>1. \A x \in Nodes \ {n} : Sent(x, {Above(n)}, m)
      BY <1>2, <2>2, GoneIs
    <3> QED
      BY <1>3, <3>1, SentKeeps
  <2> QED
    BY <2>1, <2>2
<1>7. Quiet(node[n].mail, node'[n].mail) /\ node'[n].mail = <<>> /\ Lists(n)' \subseteq Lists(n)
  BY <1>1, QuietEmpty DEF Leaves
<1> QED
  BY <1>1, <1>5, <1>6, <1>7, QuietKeeps

LEMMA TaskKeeps ==
  ASSUME Typed, Delivery, UNCHANGED <<inst, node>>, NEW t \in Tasks, tsk[t].state # "sent", NEW s, TaskTo(t, s)
  PROVE  Delivery'
<1>1. Quiet(inst.mail, inst'.mail)
  BY QuietSame
<1>2. \A x \in Nodes : /\ Quiet(node[x].mail, node'[x].mail) /\ Lists(x)' = Lists(x)
                       /\ node'[x].state # "up" => node'[x].mail = <<>>
  BY SameKeeps
<1>3. \A u \in Tasks : tsk[u].state = "sent" => tsk'[u].state = "sent"
  BY DEF TaskTo
<1> QED
  BY <1>1, <1>2, <1>3, QuietKeeps

LEMMA NodeMsgKinds ==
  /\ GetTask \in NodeMsgs /\ GetTask.kind # "AddTask" /\ GetTask # PersistAndSuicide
  /\ PersistAndSuicide \in NodeMsgs /\ PersistAndSuicide.kind # "AddTask"
  /\ TaskTerminated \in NodeMsgs /\ TaskTerminated.kind # "AddTask" /\ TaskTerminated # PersistAndSuicide
  /\ \A t \in Tasks : AddTask(t) \in NodeMsgs /\ AddTask(t) # PersistAndSuicide
  /\ \A ref \in Refs : /\ Terminated(ref) \in NodeMsgs /\ Terminated(ref).kind # "AddTask"
                       /\ Terminated(ref) # PersistAndSuicide
  BY MsgKinds DEF NodeMsgs

LEMMA DeliveryInit ==
  ASSUME Init
  PROVE  Typed /\ Delivery
<1>1. <<>> \in Seq(NodeMsgs) /\ <<>> \in Seq(InstMsgs) /\ 0 \in Nat
  OBVIOUS
<1>2. Absent \in NodeStates /\ Absent.mail = <<>> /\ Absent.singles = {} /\ Absent.groups = {}
  BY <1>1 DEF Absent, NodeStates
<1>3. \A n \in Nodes : node[n] = Absent
  BY DEF Init
<1>4. inst = [mail |-> <<>>, instances |-> {}]
  BY DEF Init
<1>5. Typed
  <2>1. inst \in [mail : Seq(InstMsgs), instances : SUBSET Refs]
    BY <1>1, <1>4
  <2>2. node \in [Nodes -> NodeStates]
    BY <1>2 DEF Init
  <2>3. tsk \in [Tasks -> TaskStates] /\ end \in [Tasks -> {"NONE", "SUCCESS", "FAILURE", "ABANDONED"}]
    BY DEF Init, TaskStates
  <2> QED
    BY <2>1, <2>2, <2>3 DEF Typed
<1>6. inst.mail = <<>> /\ inst.instances = {}
  BY <1>4
<1>7. \A n \in Nodes : node[n].mail = <<>> /\ Lists(n) = {}
  BY <1>2, <1>3 DEF Lists
<1>8. Delivery
  BY <1>6, <1>7, HasEmpty DEF Delivery
<1> QED
  BY <1>5, <1>8

LEMMA DeliveryStep ==
  ASSUME Typed, Delivery, [Next]_vars
  PROVE  Typed' /\ Delivery'
<1>1. CASE UNCHANGED vars
  <2>1. UNCHANGED <<inst, node, tsk, end>>
    BY <1>1 DEF vars
  <2> QED
    BY <2>1 DEF Typed, Delivery, Lists
<1>2. ASSUME NEW t \in Tasks, Upload(t) PROVE Typed' /\ Delivery'
  BY <1>2, UploadIs, UploadKeeps
<1>3. ASSUME NEW t \in Tasks, TaskStep(t) PROVE Typed' /\ Delivery'
  <2>1. CASE TaskTake(t) \/ TaskNotTaken(t) \/ TaskReset(t) \/ TaskEnds(t)
    <3>1. Typed' /\ UNCHANGED <<inst, node>> /\ tsk[t].state # "sent" /\ \E s : TaskTo(t, s)
      BY <2>1, TaskMovesIs
    <3> QED
      BY <3>1, TaskKeeps
  <2>2. CASE HandleSuccess(t)
    <3>1. /\ Typed' /\ UNCHANGED inst /\ tsk[t].state = "success" /\ TaskTo(t, "stopping")
          /\ Strikes(Home(t), t, {}, GetTask)
      BY <2>2, HandleSuccessIs
    <3>2. \A u \in Tasks : tsk[u].state = "sent" => tsk'[u].state = "sent"
      BY <3>1 DEF TaskTo
    <3> QED
      BY <3>1, <3>2, StrikesKeeps, HomeIs, NodeMsgKinds
  <2>3. CASE HandleFailure(t)
    <3>1. /\ Typed' /\ UNCHANGED inst /\ tsk[t].state = "failure"
          /\ \A u \in Tasks \ {t} : tsk'[u] = Advised(TaskChildren(Home(t)))[u]
          /\ Strikes(Home(t), t, SubNodes(Home(t)), PersistAndSuicide)
      BY <2>3, HandleFailureIs
    <3>2. \A u \in Tasks : tsk[u].state = "sent" => tsk'[u].state = "sent"
      BY <3>1, AdvisedIs
    <3> QED
      BY <3>1, <3>2, StrikesKeeps, HomeIs, NodeMsgKinds
  <2>4. CASE TaskSuicide(t)
    <3>1. Typed' /\ UNCHANGED <<inst, node>> /\ tsk[t].state # "sent" /\ TaskTo(t, "stopping")
      BY <2>4, TaskSuicideIs
    <3> QED
      BY <3>1, TaskKeeps
  <2>5. CASE TaskGone(t)
    <3>1. /\ Typed' /\ UNCHANGED inst /\ tsk[t].state = "stopping" /\ TaskTo(t, "gone")
          /\ \A x \in Nodes : Sent(x, {Home(t)}, TaskTerminated)
      BY <2>5, TaskGoneIs
    <3>2. \A u \in Tasks : tsk[u].state = "sent" => tsk'[u].state = "sent"
      BY <3>1 DEF TaskTo
    <3>3. \A x \in Nodes : /\ Quiet(node[x].mail, node'[x].mail) /\ Lists(x)' = Lists(x)
                           /\ node'[x].state # "up" => node'[x].mail = <<>>
      BY <3>1, SentKeeps, NodeMsgKinds
    <3>4. Quiet(inst.mail, inst'.mail)
      BY <3>1, QuietSame
    <3> QED
      BY <3>1, <3>2, <3>3, <3>4, QuietKeeps
  <2> QED
    BY <1>3, <2>1, <2>2, <2>3, <2>4, <2>5 DEF TaskStep
<1>4. ASSUME NEW ver \in Versions, Poll(ver) PROVE Typed' /\ Delivery'
  BY <1>4, PollIs, PollKeeps
<1>5. ASSUME InstStep PROVE Typed' /\ Delivery'
  <2>1. CASE InstAddTask
    BY <2>1, InstAddTaskIs, InstAddTaskKeeps
  <2>2. CASE InstGetTask
    BY <2>2, InstGetTaskIs, InstDoneKeeps
  <2>3. CASE InstTerminated \/ \E ver \in Versions : NoMoreTasks(ver)
    <3>1. Typed' /\ UNCHANGED <<node, tsk, end>> /\ InstDone
      BY <2>3, InstTerminatedIs, NoMoreTasksIs
    <3>2. \A x \in Nodes : Sent(x, {}, GetTask)
      BY <3>1 DEF Sent
    <3> QED
      BY <3>1, <3>2, InstDoneKeeps
  <2> QED
    BY <1>5, <2>1, <2>2, <2>3 DEF InstStep
<1>6. ASSUME NEW n \in Nodes, NodeStep(n) PROVE Typed' /\ Delivery'
  <2>1. CASE DistAddTask(n)
    BY <2>1, DistAddTaskIs, PassesKeeps
  <2>2. CASE DistGetTask(n)
    BY <2>2, DistGetTaskIs, StopsKeeps, ForwardsKeeps, NodeMsgKinds
  <2>3. CASE DistTerminated(n)
    BY <2>3, DistTerminatedIs, StopsKeeps, ForwardsKeeps, NodeMsgKinds
  <2>4. CASE SubAddTask(n)
    BY <2>4, SubAddTaskIs, PassesKeeps, ArrivesKeeps
  <2>5. CASE SubGetTask(n)
    <3>1. /\ Typed' /\ UNCHANGED inst
          /\ \/ Stops(n)
             \/ /\ \A t \in Tasks : tsk'[t].state = tsk[t].state
                /\ \E to : Forwards(n, to, GetTask)
      BY <2>5, SubGetTaskIs, OfferedIs
    <3> QED
      BY <3>1, StopsKeeps, ForwardsKeeps, NodeMsgKinds
  <2>6. CASE SubTerminated(n)
    BY <2>6, SubTerminatedIs, StopsKeeps, ForwardsKeeps, NodeMsgKinds
  <2>7. CASE SubPersistAndSuicide(n)
    <3>1. /\ Typed' /\ UNCHANGED inst /\ \A t \in Tasks : tsk'[t].state = tsk[t].state
          /\ Forwards(n, SubNodes(n), PersistAndSuicide)
      BY <2>7, SubPersistAndSuicideIs, AdvisedIs
    <3> QED
      BY <3>1, ForwardsKeeps, NodeMsgKinds
  <2>8. CASE Gone(n)
    BY <2>8, GoneIs, GoneKeeps
  <2> QED
    BY <1>6, <2>1, <2>2, <2>3, <2>4, <2>5, <2>6, <2>7, <2>8 DEF NodeStep
<1> QED
  BY <1>1, <1>2, <1>3, <1>4, <1>5, <1>6 DEF Next

-----------------------------------------------------------------------------
(* Every task gets one result *)

\* Only a TaskActor that is on its way out has a result.
Ended == \A t \in Tasks : end[t] # "NONE" => tsk[t].state \in {"stopping", "gone"}

\* How a step may change the results.
EndMoves ==
  \/ UNCHANGED end
  \/ \E t \in Tasks : /\ end[t] = "NONE" /\ \A u \in Tasks \ {t} : end'[u] = end[u]
                      /\ \/ end'[t] = "SUCCESS"
                         \/ end'[t] = "FAILURE"
                         \/ end'[t] = "ABANDONED" /\ tsk[t].suicide

LEMMA EndedSame ==
  ASSUME Ended, UNCHANGED end,
         \A t \in Tasks : tsk[t].state \in {"stopping", "gone"} => tsk'[t].state \in {"stopping", "gone"}
  PROVE  Ended' /\ EndMoves
  BY DEF Ended, EndMoves

LEMMA EndedTask ==
  ASSUME Ended, NEW t \in Tasks, tsk[t].state \notin {"stopping", "gone"}, tsk'[t].state = "stopping",
         \A u \in Tasks \ {t} : end'[u] = end[u] /\ tsk'[u].state = tsk[u].state,
         end'[t] \in {"SUCCESS", "FAILURE", "ABANDONED"}, end'[t] = "ABANDONED" => tsk[t].suicide
  PROVE  Ended' /\ EndMoves
  BY DEF Ended, EndMoves

\* A task that gets lost was in a mailbox.
LEMMA LoseKeepsResult ==
  ASSUME Typed, Delivery, NEW lost, \A t \in Tasks : t \in lost => tsk[t].state = "sent", tsk' = Lose(lost)
  PROVE  \A t \in Tasks : tsk[t].state \in {"stopping", "gone"} => tsk'[t].state \in {"stopping", "gone"}
  BY LoseIs

LEMMA StopsLoses ==
  ASSUME Typed, Delivery, NEW n \in Nodes, Stops(n)
  PROVE  \A t \in Tasks : tsk[t].state \in {"stopping", "gone"} => tsk'[t].state \in {"stopping", "gone"}
<1>1. \A t \in Tasks : t \in LostWith(node, n) => tsk[t].state = "sent"
  BY DEF LostWith, Delivery, Has
<1>2. tsk' = Lose(LostWith(node, n))
  BY DEF Stops
<1> QED
  BY <1>1, <1>2, LoseKeepsResult

LEMMA PassesLoses ==
  ASSUME Typed, Delivery, NEW t \in Tasks, tsk[t].state = "sent", NEW c, Delivered(t, c)
  PROVE  \A u \in Tasks : tsk[u].state \in {"stopping", "gone"} => tsk'[u].state \in {"stopping", "gone"}
<1>1. PICK lost : lost = IF node[c].state = "stopping" THEN {t} ELSE {}
  OBVIOUS
<1>2. tsk' = Lose(lost) /\ \A u \in Tasks : u \in lost => tsk[u].state = "sent"
  BY <1>1 DEF Delivered
<1> QED
  BY <1>2, LoseKeepsResult

LEMMA HeadIsSent ==
  ASSUME Typed, Delivery, NEW n \in Nodes, NEW t \in Tasks, node[n].mail # <<>>, Head(node[n].mail) = AddTask(t)
  PROVE  tsk[t].state = "sent" /\ Has(node[n].mail, AddTask(t))
<1>1. node[n].mail \in Seq(NodeMsgs)
  BY NodeStateIs DEF Typed
<1>2. Has(node[n].mail, AddTask(t))
  BY <1>1, HasTail
<1> QED
  BY <1>2 DEF Delivery

LEMMA EndedStep ==
  ASSUME Typed, Delivery, Ended, [Next]_vars
  PROVE  Ended' /\ EndMoves
<1> DEFINE Kept == \A t \in Tasks : tsk[t].state \in {"stopping", "gone"} => tsk'[t].state \in {"stopping", "gone"}
<1>0. ASSUME Kept, UNCHANGED end PROVE Ended' /\ EndMoves
  BY <1>0, EndedSame
<1>1. CASE UNCHANGED vars
  <2>1. UNCHANGED <<tsk, end>>
    BY <1>1 DEF vars
  <2> QED
    BY <1>0, <2>1
<1>2. ASSUME NEW t \in Tasks, Upload(t) PROVE Ended' /\ EndMoves
  <2>1. UNCHANGED end /\ Kept
    BY <1>2, UploadIs DEF TaskTo
  <2> QED
    BY <1>0, <2>1
<1>3. ASSUME NEW t \in Tasks, TaskStep(t) PROVE Ended' /\ EndMoves
  <2>1. CASE TaskTake(t) \/ TaskNotTaken(t) \/ TaskReset(t) \/ TaskEnds(t)
    <3>1. UNCHANGED end /\ Kept
      BY <2>1, TaskMovesIs DEF TaskTo
    <3> QED
      BY <1>0, <3>1
  <2>2. CASE HandleSuccess(t)
    <3>1. /\ tsk[t].state \notin {"stopping", "gone"} /\ tsk'[t].state = "stopping" /\ end'[t] = "SUCCESS"
          /\ \A u \in Tasks \ {t} : end'[u] = end[u] /\ tsk'[u].state = tsk[u].state
      BY <2>2, HandleSuccessIs DEF TaskTo
    <3> QED
      BY <3>1, EndedTask
  <2>3. CASE HandleFailure(t)
    <3>1. /\ tsk[t].state \notin {"stopping", "gone"} /\ tsk'[t].state = "stopping" /\ end'[t] = "FAILURE"
          /\ \A u \in Tasks \ {t} : end'[u] = end[u] /\ tsk'[u].state = tsk[u].state
      BY <2>3, HandleFailureIs, AdvisedIs
    <3> QED
      BY <3>1, EndedTask
  <2>4. CASE TaskSuicide(t)
    <3>1. /\ tsk[t].state \notin {"stopping", "gone"} /\ tsk'[t].state = "stopping"
          /\ end'[t] = "ABANDONED" /\ tsk[t].suicide
          /\ \A u \in Tasks \ {t} : end'[u] = end[u] /\ tsk'[u].state = tsk[u].state
      BY <2>4, TaskSuicideIs DEF TaskTo
    <3> QED
      BY <3>1, EndedTask
  <2>5. CASE TaskGone(t)
    <3>1. UNCHANGED end /\ Kept
      BY <2>5, TaskGoneIs DEF TaskTo
    <3> QED
      BY <1>0, <3>1
  <2> QED
    BY <1>3, <2>1, <2>2, <2>3, <2>4, <2>5 DEF TaskStep
<1>4. ASSUME NEW ver \in Versions, Poll(ver) PROVE Ended' /\ EndMoves
  <2>1. UNCHANGED <<tsk, end>>
    BY <1>4, PollIs
  <2> QED
    BY <1>0, <2>1
<1>5. ASSUME InstStep PROVE Ended' /\ EndMoves
  <2>1. CASE InstAddTask
    <3>1. PICK t \in Tasks : /\ Has(inst.mail, AddTask(t)) /\ Delivered(t, Distributor(RunOf[t])) /\ UNCHANGED end
      BY <2>1, InstAddTaskIs
    <3>2. tsk[t].state = "sent"
      BY <3>1 DEF Delivery
    <3>3. Kept
      BY <3>1, <3>2, PassesLoses
    <3> QED
      BY <1>0, <3>1, <3>3
  <2>2. CASE InstGetTask \/ InstTerminated \/ \E ver \in Versions : NoMoreTasks(ver)
    <3>1. UNCHANGED <<tsk, end>>
      BY <2>2, InstGetTaskIs, InstTerminatedIs, NoMoreTasksIs
    <3> QED
      BY <1>0, <3>1
  <2> QED
    BY <1>5, <2>1, <2>2 DEF InstStep
<1>6. ASSUME NEW n \in Nodes, NodeStep(n) PROVE Ended' /\ EndMoves
  <2>1. ASSUME NEW t \in Tasks, NEW c, Passes(n, t, c) PROVE Kept
    <3>1. Delivered(t, c) /\ node[n].mail # <<>> /\ Head(node[n].mail) = AddTask(t)
      BY <2>1 DEF Passes, Done
    <3> QED
      BY <3>1, HeadIsSent, PassesLoses
  <2>2. ASSUME NEW t \in Tasks, Arrives(n, t) PROVE Kept
    <3>1. node[n].mail # <<>> /\ Head(node[n].mail) = AddTask(t) /\ \A u \in Tasks \ {t} : tsk'[u] = tsk[u]
      BY <2>2 DEF Arrives, Done
    <3> QED
      BY <3>1, HeadIsSent
  <2>3. UNCHANGED end
    BY <1>6, DistAddTaskIs, DistGetTaskIs, DistTerminatedIs, SubAddTaskIs, SubGetTaskIs, SubTerminatedIs,
       SubPersistAndSuicideIs, GoneIs DEF NodeStep
  <2>4. CASE DistAddTask(n) \/ SubAddTask(n)
    <3>1. Kept
      BY <2>1, <2>2, <2>4, DistAddTaskIs, SubAddTaskIs
    <3> QED
      BY <1>0, <2>3, <3>1
  <2>5. CASE DistGetTask(n) \/ DistTerminated(n) \/ SubTerminated(n) \/ Gone(n)
    <3>1. UNCHANGED tsk \/ Stops(n)
      BY <2>5, DistGetTaskIs, DistTerminatedIs, SubTerminatedIs, GoneIs
    <3>2. Kept
      BY <3>1, StopsLoses
    <3> QED
      BY <1>0, <2>3, <3>2
  <2>6. CASE SubGetTask(n)
    <3>1. Kept
      BY <2>6, SubGetTaskIs, OfferedIs, StopsLoses
    <3> QED
      BY <1>0, <2>3, <3>1
  <2>7. CASE SubPersistAndSuicide(n)
    <3>1. Kept
      BY <2>7, SubPersistAndSuicideIs, AdvisedIs
    <3> QED
      BY <1>0, <2>3, <3>1
  <2> QED
    BY <1>6, <2>4, <2>5, <2>6, <2>7 DEF NodeStep
<1> QED
  BY <1>1, <1>2, <1>3, <1>4, <1>5, <1>6 DEF Next

-----------------------------------------------------------------------------
(* Who is to blame *)

\* A task failed on a level above n, on n's level or above it.
FailedOver(n) == \E u \in Tasks : end[u] = "FAILURE" /\ Over(Home(u), n)
FailedAt(n) == \E u \in Tasks : end[u] = "FAILURE" /\ (Home(u) = n \/ Over(Home(u), n))

\* PersistAndSuicide comes from a failure.
Blame ==
  /\ \A n \in Nodes : Has(node[n].mail, PersistAndSuicide) => FailedOver(n)
  /\ \A t \in Tasks : tsk[t].suicide => FailedAt(Home(t))
  /\ \A t \in Tasks : end[t] = "ABANDONED" => FailedAt(Home(t))

LEMMA FailureStays ==
  ASSUME EndMoves
  PROVE  \A n : (FailedOver(n) => FailedOver(n)') /\ (FailedAt(n) => FailedAt(n)')
<1>1. \A u \in Tasks : end[u] = "FAILURE" => end'[u] = "FAILURE"
  BY DEF EndMoves
<1> QED
  BY <1>1 DEF FailedOver, FailedAt

LEMMA BlameKeeps ==
  ASSUME Blame, EndMoves,
         \A n \in Nodes : Has(node'[n].mail, PersistAndSuicide) =>
           Has(node[n].mail, PersistAndSuicide) \/ FailedOver(n)',
         \A t \in Tasks : tsk'[t].suicide => tsk[t].suicide \/ FailedAt(Home(t))'
  PROVE  Blame'
<1>1. \A n : (FailedOver(n) => FailedOver(n)') /\ (FailedAt(n) => FailedAt(n)')
  BY FailureStays
<1>2. \A n \in Nodes : Has(node'[n].mail, PersistAndSuicide) => FailedOver(n)'
  BY <1>1 DEF Blame
<1>3. \A t \in Tasks : tsk'[t].suicide => FailedAt(Home(t))'
  BY <1>1 DEF Blame
<1>4. ASSUME NEW t \in Tasks, end'[t] = "ABANDONED" PROVE FailedAt(Home(t))'
  <2>1. end[t] = "ABANDONED" \/ tsk[t].suicide
    BY <1>4 DEF EndMoves
  <2> QED
    BY <1>1, <2>1 DEF Blame
<1> QED
  BY <1>2, <1>3, <1>4 DEF Blame

\* No message k comes in.
Calm(k, n) == Has(node'[n].mail, k) => Has(node[n].mail, k)

LEMMA SentCalm ==
  ASSUME Typed, NEW k, NEW x \in Nodes, NEW to, NEW m \in NodeMsgs, m # k, Sent(x, to, m)
  PROVE  Calm(k, x)
<1>1. node[x].mail \in Seq(NodeMsgs)
  BY NodeStateIs DEF Typed
<1>2. CASE x \in to /\ node[x].state = "up"
  <2>1. node'[x].mail = Append(node[x].mail, m)
    BY <1>2 DEF Sent
  <2>2. Has(node'[x].mail, k) <=> Has(node[x].mail, k) \/ k = m
    BY <1>1, <2>1, HasAppend
  <2> QED
    BY <2>2 DEF Calm
<1>3. CASE ~(x \in to /\ node[x].state = "up")
  BY <1>3 DEF Sent, Calm
<1> QED
  BY <1>2, <1>3

LEMMA DoneCalm ==
  ASSUME Typed, NEW k, NEW n \in Nodes, Done(n)
  PROVE  Calm(k, n)
<1>1. node[n].mail \in Seq(NodeMsgs)
  BY NodeStateIs DEF Typed
<1> QED
  BY <1>1, HasTail DEF Done, Calm

LEMMA DeliveredCalm ==
  ASSUME Typed, NEW k, NEW c \in Nodes, NEW t \in Tasks, AddTask(t) # k, Delivered(t, c)
  PROVE  Calm(k, c) /\ \A u \in Tasks : tsk'[u].suicide = tsk[u].suicide
<1>1. node[c].mail \in Seq(NodeMsgs) /\ AddTask(t) \in NodeMsgs
  BY NodeStateIs, NodeMsgKinds DEF Typed
<1>2. Calm(k, c)
  <2>1. CASE node[c].state = "stopping"
    BY <2>1 DEF Delivered, Calm
  <2>2. CASE node[c].state # "stopping"
    <3>1. node'[c].mail = Append(node[c].mail, AddTask(t))
      BY <2>2 DEF Delivered
    <3>2. Has(node'[c].mail, k) <=> Has(node[c].mail, k) \/ k = AddTask(t)
      BY <1>1, <3>1, HasAppend
    <3> QED
      BY <1>1, <3>2 DEF Calm
  <2> QED
    BY <2>1, <2>2
<1>3. \A u \in Tasks : tsk'[u].suicide = tsk[u].suicide
  BY LoseIs DEF Delivered
<1> QED
  BY <1>2, <1>3

LEMMA PassesCalm ==
  ASSUME Typed, NEW k, NEW n \in Nodes, NEW t \in Tasks, AddTask(t) # k,
         Below(n, t), Home(t) # n, Passes(n, t, Toward(n, t))
  PROVE  (\A x \in Nodes : Calm(k, x)) /\ \A u \in Tasks : tsk'[u].suicide = tsk[u].suicide
<1>1. PICK c \in Nodes : c = Toward(n, t)
  BY TowardIs
<1>2. Done(n) /\ Delivered(t, c) /\ \A x \in Nodes \ {n, c} : node'[x] = node[x]
  BY <1>1 DEF Passes
<1>3. \A x \in Nodes \ {n, c} : Calm(k, x)
  BY <1>2 DEF Calm
<1> QED
  BY <1>2, <1>3, DoneCalm, DeliveredCalm

LEMMA StopsCalm ==
  ASSUME Typed, NEW k, NEW n \in Nodes, Stops(n)
  PROVE  (\A x \in Nodes : Calm(k, x)) /\ \A u \in Tasks : tsk'[u].suicide = tsk[u].suicide
<1>1. /\ node'[n].mail = <<>> /\ \A x \in Nodes \ {n} : node'[x] = node[x]
      /\ tsk' = Lose(LostWith(node, n))
  BY DEF Stops
<1>2. \A x \in Nodes : Calm(k, x)
  BY <1>1, HasEmpty DEF Calm
<1> QED
  BY <1>1, <1>2, LoseIs

LEMMA ForwardsCalm ==
  ASSUME Typed, NEW k, NEW n \in Nodes, NEW to, NEW m \in NodeMsgs, Forwards(n, to, m)
  PROVE  /\ m # k => \A x \in Nodes : Calm(k, x)
         /\ \A x \in Nodes : Calm(k, x) \/ x \in to
<1>1. Calm(k, n)
  BY DoneCalm DEF Forwards
<1>2. \A x \in Nodes \ {n} : Sent(x, to, m)
  BY DEF Forwards
<1>3. \A x \in Nodes \ {n} : x \notin to => node'[x] = node[x]
  BY <1>2 DEF Sent
<1>4. \A x \in Nodes : Calm(k, x) \/ x \in to
  BY <1>1, <1>3 DEF Calm
<1>5. m # k => \A x \in Nodes : Calm(k, x)
  BY <1>1, <1>2, SentCalm
<1> QED
  BY <1>4, <1>5

LEMMA StrikesCalm ==
  ASSUME Typed, NEW k, NEW n \in Nodes, NEW t, NEW to, NEW m \in NodeMsgs, Strikes(n, t, to, m)
  PROVE  /\ m # k => \A x \in Nodes : Calm(k, x)
         /\ \A x \in Nodes : Calm(k, x) \/ x \in to
<1>1. Calm(k, n)
  BY DEF Strikes, Calm
<1>2. \A x \in Nodes \ {n} : Sent(x, to, m)
  BY DEF Strikes
<1>3. \A x \in Nodes \ {n} : x \notin to => node'[x] = node[x]
  BY <1>2 DEF Sent
<1>4. \A x \in Nodes : Calm(k, x) \/ x \in to
  BY <1>1, <1>3 DEF Calm
<1>5. m # k => \A x \in Nodes : Calm(k, x)
  BY <1>1, <1>2, SentCalm
<1> QED
  BY <1>4, <1>5

LEMMA BlameStep ==
  ASSUME Typed, Delivery, Ended, Blame, [Next]_vars
  PROVE  Blame'
<1>0. EndMoves
  BY EndedStep
<1>1. ASSUME \A x \in Nodes : Calm(PersistAndSuicide, x), \A u \in Tasks : tsk'[u].suicide = tsk[u].suicide PROVE Blame'
  BY <1>0, <1>1, BlameKeeps DEF Calm
<1>2. CASE UNCHANGED vars
  <2>1. UNCHANGED <<node, tsk>>
    BY <1>2 DEF vars
  <2> QED
    BY <1>1, <2>1 DEF Calm
<1>3. ASSUME NEW t \in Tasks, Upload(t) PROVE Blame'
  <2>1. UNCHANGED node /\ TaskTo(t, "sent")
    BY <1>3, UploadIs
  <2> QED
    BY <1>1, <2>1 DEF Calm, TaskTo
<1>4. ASSUME NEW t \in Tasks, TaskStep(t) PROVE Blame'
  <2>1. CASE TaskTake(t) \/ TaskNotTaken(t) \/ TaskReset(t) \/ TaskEnds(t)
    <3>1. UNCHANGED node /\ \E s : TaskTo(t, s)
      BY <2>1, TaskMovesIs
    <3> QED
      BY <1>1, <3>1 DEF Calm, TaskTo
  <2>2. CASE HandleSuccess(t)
    <3>1. TaskTo(t, "stopping") /\ Strikes(Home(t), t, {}, GetTask)
      BY <2>2, HandleSuccessIs
    <3>2. \A x \in Nodes : Calm(PersistAndSuicide, x)
      BY <3>1, StrikesCalm, HomeIs, NodeMsgKinds
    <3> QED
      BY <1>1, <3>1, <3>2 DEF TaskTo
  <2>3. CASE HandleFailure(t)
    <3>1. PICK n \in Nodes : n = Home(t)
      BY HomeIs
    <3>2. /\ end'[t] = "FAILURE" /\ Strikes(n, t, SubNodes(n), PersistAndSuicide)
          /\ tsk'[t].suicide = tsk[t].suicide
          /\ \A u \in Tasks \ {t} : tsk'[u] = Advised(TaskChildren(n))[u]
      BY <2>3, <3>1, HandleFailureIs
    <3>3. \A x \in SubNodes(n) : FailedOver(x)'
      BY <3>1, <3>2, ChildrenAre DEF FailedOver
    <3>4. \A x \in Nodes : Has(node'[x].mail, PersistAndSuicide) =>
            Has(node[x].mail, PersistAndSuicide) \/ FailedOver(x)'
      BY <3>2, <3>3, StrikesCalm, NodeMsgKinds DEF Calm
    <3>5. \A u \in TaskChildren(n) : FailedAt(Home(u))'
      BY <3>1, <3>2 DEF TaskChildren, FailedAt
    <3>6. \A u \in Tasks : tsk'[u].suicide => tsk[u].suicide \/ FailedAt(Home(u))'
      BY <3>2, <3>5, AdvisedIs
    <3> QED
      BY <1>0, <3>4, <3>6, BlameKeeps
  <2>4. CASE TaskSuicide(t)
    <3>1. UNCHANGED node /\ TaskTo(t, "stopping")
      BY <2>4, TaskSuicideIs
    <3> QED
      BY <1>1, <3>1 DEF Calm, TaskTo
  <2>5. CASE TaskGone(t)
    <3>1. TaskTo(t, "gone") /\ \A x \in Nodes : Sent(x, {Home(t)}, TaskTerminated)
      BY <2>5, TaskGoneIs
    <3>2. \A x \in Nodes : Calm(PersistAndSuicide, x)
      BY <3>1, SentCalm, NodeMsgKinds
    <3> QED
      BY <1>1, <3>1, <3>2 DEF TaskTo
  <2> QED
    BY <1>4, <2>1, <2>2, <2>3, <2>4, <2>5 DEF TaskStep
<1>5. ASSUME NEW ver \in Versions, Poll(ver) PROVE Blame'
  <2>1. UNCHANGED <<node, tsk>>
    BY <1>5, PollIs
  <2> QED
    BY <1>1, <2>1 DEF Calm
<1>6. ASSUME InstStep PROVE Blame'
  <2>1. CASE InstAddTask
    <3>1. PICK t \in Tasks : /\ Delivered(t, Distributor(RunOf[t]))
                             /\ \A x \in Nodes \ {Distributor(RunOf[t])} : node'[x] = node[x]
      BY <2>1, InstAddTaskIs
    <3>2. Calm(PersistAndSuicide, Distributor(RunOf[t])) /\ \A u \in Tasks : tsk'[u].suicide = tsk[u].suicide
      BY <3>1, DeliveredCalm, DistributorIs, NodeMsgKinds
    <3>3. \A x \in Nodes : Calm(PersistAndSuicide, x)
      BY <3>1, <3>2 DEF Calm
    <3> QED
      BY <1>1, <3>2, <3>3
  <2>2. CASE InstGetTask
    <3>1. UNCHANGED tsk /\ \E to : \A x \in Nodes : Sent(x, to, GetTask)
      BY <2>2, InstGetTaskIs
    <3>2. \A x \in Nodes : Calm(PersistAndSuicide, x)
      BY <3>1, SentCalm, NodeMsgKinds
    <3> QED
      BY <1>1, <3>1, <3>2
  <2>3. CASE InstTerminated \/ \E ver \in Versions : NoMoreTasks(ver)
    <3>1. UNCHANGED <<node, tsk>>
      BY <2>3, InstTerminatedIs, NoMoreTasksIs
    <3> QED
      BY <1>1, <3>1 DEF Calm
  <2> QED
    BY <1>6, <2>1, <2>2, <2>3 DEF InstStep
<1>7. ASSUME NEW n \in Nodes, NodeStep(n) PROVE Blame'
  <2>1. ASSUME Stops(n) PROVE Blame'
    BY <1>1, <2>1, StopsCalm
  <2>2. ASSUME NEW to, Forwards(n, to, GetTask), \A u \in Tasks : tsk'[u].suicide = tsk[u].suicide PROVE Blame'
    BY <1>1, <2>2, ForwardsCalm, NodeMsgKinds
  <2>3. ASSUME NEW t \in Tasks, Below(n, t), Home(t) # n, Passes(n, t, Toward(n, t)) PROVE Blame'
    BY <1>1, <2>3, PassesCalm, NodeMsgKinds
  <2>4. CASE DistAddTask(n)
    BY <2>3, <2>4, DistAddTaskIs
  <2>5. CASE DistGetTask(n)
    BY <2>1, <2>2, <2>5, DistGetTaskIs
  <2>6. CASE DistTerminated(n)
    BY <2>1, <2>2, <2>6, DistTerminatedIs
  <2>7. CASE SubAddTask(n)
    <3>1. ASSUME NEW t \in Tasks, Arrives(n, t) PROVE Blame'
      <4>1. /\ Done(n) /\ (\A x \in Nodes \ {n} : node'[x] = node[x])
            /\ \A u \in Tasks : tsk'[u].suicide = tsk[u].suicide
        BY <3>1 DEF Arrives
      <4>2. \A x \in Nodes : Calm(PersistAndSuicide, x)
        BY <4>1, DoneCalm DEF Calm
      <4> QED
        BY <1>1, <4>1, <4>2
    <3> QED
      BY <2>3, <2>7, <3>1, SubAddTaskIs
  <2>8. CASE SubGetTask(n)
    BY <2>1, <2>2, <2>8, SubGetTaskIs, OfferedIs
  <2>9. CASE SubTerminated(n)
    BY <2>1, <2>2, <2>9, SubTerminatedIs
  <2>10. CASE SubPersistAndSuicide(n)
    <3>1. /\ Head(node[n].mail) = PersistAndSuicide /\ tsk' = Advised(TaskChildren(n))
          /\ Forwards(n, SubNodes(n), PersistAndSuicide) /\ UNCHANGED end
      BY <2>10, SubPersistAndSuicideIs
    <3>2. node[n].mail # <<>> /\ node[n].mail \in Seq(NodeMsgs)
      BY <3>1, NodeStateIs DEF Typed, Forwards, Done
    <3>3. Has(node[n].mail, PersistAndSuicide)
      BY <3>1, <3>2, HasTail
    <3>4. PICK u \in Tasks : end'[u] = "FAILURE" /\ Over(Home(u), n)
      BY <3>1, <3>3 DEF Blame, FailedOver
    <3>5. \A x \in SubNodes(n) : FailedOver(x)'
      <4>1. \A x \in SubNodes(n) : x \in Nodes /\ Over(n, x)
        BY ChildrenAre
      <4>2. \A x \in SubNodes(n) : Over(Home(u), x)
        BY <3>4, <4>1, HomeIs, OverTrans
      <4> QED
        BY <3>4, <4>2 DEF FailedOver
    <3>6. \A x \in Nodes : Has(node'[x].mail, PersistAndSuicide) =>
            Has(node[x].mail, PersistAndSuicide) \/ FailedOver(x)'
      BY <3>1, <3>5, ForwardsCalm, NodeMsgKinds DEF Calm
    <3>7. \A t \in TaskChildren(n) : FailedAt(Home(t))'
      BY <3>4 DEF TaskChildren, FailedAt
    <3>8. \A t \in Tasks : tsk'[t].suicide => tsk[t].suicide \/ FailedAt(Home(t))'
      BY <3>1, <3>7, AdvisedIs
    <3> QED
      BY <1>0, <3>6, <3>8, BlameKeeps
  <2>11. CASE Gone(n)
    <3>1. PICK m : m = Terminated(Ref(n))
      OBVIOUS
    <3>2. m \in NodeMsgs /\ m # PersistAndSuicide
      <4>1. Ref(n) \in Refs
        BY NodeStateIs DEF Typed, Ref, Refs
      <4> QED
        BY <3>1, <4>1, NodeMsgKinds
    <3>3. /\ UNCHANGED tsk /\ Leaves(n)
          /\ IsDistributor(n) => \A x \in Nodes \ {n} : node'[x] = node[x]
          /\ ~IsDistributor(n) => \A x \in Nodes \ {n} : Sent(x, {Above(n)}, m)
      BY <2>11, <3>1, GoneIs
    <3>4. Calm(PersistAndSuicide, n)
      BY <3>3, HasEmpty DEF Leaves, Calm
    <3>5. \A x \in Nodes \ {n} : Calm(PersistAndSuicide, x)
      <4>1. CASE IsDistributor(n)
        BY <3>3, <4>1 DEF Calm
      <4>2. CASE ~IsDistributor(n)
        BY <3>2, <3>3, <4>2, SentCalm
      <4> QED
        BY <4>1, <4>2
    <3> QED
      BY <1>1, <3>3, <3>4, <3>5
  <2> QED
    BY <1>7, <2>4, <2>5, <2>6, <2>7, <2>8, <2>9, <2>10, <2>11 DEF NodeStep
<1> QED
  BY <1>2, <1>3, <1>4, <1>5, <1>6, <1>7 DEF Next

-----------------------------------------------------------------------------
(* Types *)

\* The end of a TaskActor is told to a group only.
DistMail == \A n \in Nodes : IsDistributor(n) => ~Has(node[n].mail, TaskTerminated)

LEMMA TaskTerminatedIsOther ==
  /\ GetTask # TaskTerminated /\ PersistAndSuicide # TaskTerminated
  /\ \A t \in Tasks : AddTask(t) # TaskTerminated
  /\ \A ref \in Refs : Terminated(ref) # TaskTerminated
<1>1. /\ GetTask # TaskTerminated /\ PersistAndSuicide # TaskTerminated
      /\ \A t \in Tasks : AddTask(t) # TaskTerminated
  BY MsgKinds
<1>2. DOMAIN TaskTerminated = {"kind"} /\ "ref" # "kind"
  BY DEF TaskTerminated
<1>3. \A ref \in Refs : "ref" \in DOMAIN Terminated(ref)
  BY DEF Terminated
<1> QED
  BY <1>1, <1>2, <1>3

LEMMA DistMailStep ==
  ASSUME Typed, Delivery, DistMail, [Next]_vars
  PROVE  DistMail'
<1> DEFINE Spared(x) == Calm(TaskTerminated, x)
<1>1. ASSUME \A x \in Nodes : Spared(x) \/ ~IsDistributor(x) PROVE DistMail'
  BY <1>1 DEF Calm, DistMail
<1> HIDE DEF Spared
<1>2. ASSUME UNCHANGED node PROVE DistMail'
  BY <1>2 DEF DistMail
<1>3. CASE UNCHANGED vars
  BY <1>2, <1>3 DEF vars
<1>4. ASSUME NEW t \in Tasks, Upload(t) PROVE DistMail'
  BY <1>2, <1>4, UploadIs
<1>5. ASSUME NEW t \in Tasks, TaskStep(t) PROVE DistMail'
  <2>1. CASE TaskTake(t) \/ TaskNotTaken(t) \/ TaskReset(t) \/ TaskEnds(t)
    BY <1>2, <2>1, TaskMovesIs
  <2>2. CASE HandleSuccess(t)
    <3>1. Strikes(Home(t), t, {}, GetTask)
      BY <2>2, HandleSuccessIs
    <3>2. \A x \in Nodes : Spared(x)
      BY <3>1, StrikesCalm, HomeIs, NodeMsgKinds, TaskTerminatedIsOther DEF Spared
    <3> QED
      BY <1>1, <3>2
  <2>3. CASE HandleFailure(t)
    <3>1. PICK n \in Nodes : n = Home(t)
      BY HomeIs
    <3>2. Strikes(n, t, SubNodes(n), PersistAndSuicide)
      BY <2>3, <3>1, HandleFailureIs
    <3>3. \A x \in Nodes : Spared(x)
      BY <3>2, StrikesCalm, NodeMsgKinds, TaskTerminatedIsOther DEF Spared
    <3> QED
      BY <1>1, <3>3
  <2>4. CASE TaskSuicide(t)
    BY <1>2, <2>4, TaskSuicideIs
  <2>5. CASE TaskGone(t)
    <3>1. \A x \in Nodes : Sent(x, {Home(t)}, TaskTerminated)
      BY <2>5, TaskGoneIs
    <3>2. \A x \in Nodes : x # Home(t) => Spared(x)
      BY <3>1 DEF Sent, Spared, Calm
    <3> QED
      BY <1>1, <3>2, HomeIs
  <2> QED
    BY <1>5, <2>1, <2>2, <2>3, <2>4, <2>5 DEF TaskStep
<1>6. ASSUME NEW ver \in Versions, Poll(ver) PROVE DistMail'
  BY <1>2, <1>6, PollIs
<1>7. ASSUME InstStep PROVE DistMail'
  <2>1. CASE InstAddTask
    <3>1. PICK t \in Tasks : /\ Delivered(t, Distributor(RunOf[t]))
                             /\ \A x \in Nodes \ {Distributor(RunOf[t])} : node'[x] = node[x]
      BY <2>1, InstAddTaskIs
    <3>2. Spared(Distributor(RunOf[t]))
      BY <3>1, DeliveredCalm, DistributorIs, TaskTerminatedIsOther DEF Spared
    <3>3. \A x \in Nodes : Spared(x)
      BY <3>1, <3>2 DEF Spared, Calm
    <3> QED
      BY <1>1, <3>3
  <2>2. CASE InstGetTask
    <3>1. \E to : \A x \in Nodes : Sent(x, to, GetTask)
      BY <2>2, InstGetTaskIs
    <3>2. \A x \in Nodes : Spared(x)
      BY <3>1, SentCalm, NodeMsgKinds, TaskTerminatedIsOther DEF Spared
    <3> QED
      BY <1>1, <3>2
  <2>3. CASE InstTerminated \/ \E ver \in Versions : NoMoreTasks(ver)
    BY <1>2, <2>3, InstTerminatedIs, NoMoreTasksIs
  <2> QED
    BY <1>7, <2>1, <2>2, <2>3 DEF InstStep
<1>8. ASSUME NEW n \in Nodes, NodeStep(n) PROVE DistMail'
  <2>1. ASSUME Stops(n) PROVE DistMail'
    BY <1>1, <2>1, StopsCalm DEF Spared
  <2>2. ASSUME NEW to, NEW m \in {GetTask, PersistAndSuicide}, Forwards(n, to, m) PROVE DistMail'
    <3>1. \A x \in Nodes : Spared(x)
      BY <2>2, ForwardsCalm, NodeMsgKinds, TaskTerminatedIsOther DEF Spared
    <3> QED
      BY <1>1, <3>1
  <2>3. ASSUME NEW t \in Tasks, Below(n, t), Home(t) # n, Passes(n, t, Toward(n, t)) PROVE DistMail'
    BY <1>1, <2>3, PassesCalm, TaskTerminatedIsOther DEF Spared
  <2>4. CASE DistAddTask(n)
    BY <2>3, <2>4, DistAddTaskIs
  <2>5. CASE DistGetTask(n)
    BY <2>1, <2>2, <2>5, DistGetTaskIs
  <2>6. CASE DistTerminated(n)
    BY <2>1, <2>2, <2>6, DistTerminatedIs
  <2>7. CASE SubAddTask(n)
    <3>1. ASSUME NEW t \in Tasks, Arrives(n, t) PROVE DistMail'
      <4>1. Done(n) /\ \A x \in Nodes \ {n} : node'[x] = node[x]
        BY <3>1 DEF Arrives
      <4>2. Spared(n)
        BY <4>1, DoneCalm DEF Spared
      <4>3. \A x \in Nodes : Spared(x)
        BY <4>1, <4>2 DEF Spared, Calm
      <4> QED
        BY <1>1, <4>3
    <3> QED
      BY <2>3, <2>7, <3>1, SubAddTaskIs
  <2>8. CASE SubGetTask(n)
    BY <2>1, <2>2, <2>8, SubGetTaskIs
  <2>9. CASE SubTerminated(n)
    BY <2>1, <2>2, <2>9, SubTerminatedIs
  <2>10. CASE SubPersistAndSuicide(n)
    BY <2>2, <2>10, SubPersistAndSuicideIs
  <2>11. CASE Gone(n)
    <3>1. PICK m : m = Terminated(Ref(n))
      OBVIOUS
    <3>2. m \in NodeMsgs /\ m # TaskTerminated
      <4>1. Ref(n) \in Refs
        BY NodeStateIs DEF Typed, Ref, Refs
      <4> QED
        BY <3>1, <4>1, NodeMsgKinds, TaskTerminatedIsOther
    <3>3. /\ Leaves(n)
          /\ IsDistributor(n) => \A x \in Nodes \ {n} : node'[x] = node[x]
          /\ ~IsDistributor(n) => \A x \in Nodes \ {n} : Sent(x, {Above(n)}, m)
      BY <2>11, <3>1, GoneIs
    <3>4. Spared(n)
      BY <3>3, HasEmpty DEF Leaves, Spared, Calm
    <3>5. \A x \in Nodes \ {n} : Spared(x)
      <4>1. CASE IsDistributor(n)
        BY <3>3, <4>1 DEF Spared, Calm
      <4>2. CASE ~IsDistributor(n)
        BY <3>2, <3>3, <4>2, SentCalm DEF Spared
      <4> QED
        BY <4>1, <4>2
    <3> QED
      BY <1>1, <3>4, <3>5
  <2> QED
    BY <1>8, <2>4, <2>5, <2>6, <2>7, <2>8, <2>9, <2>10, <2>11 DEF NodeStep
<1> QED
  BY <1>3, <1>4, <1>5, <1>6, <1>7, <1>8 DEF Next

\* A mailbox of S, none of whose messages is outside of T.
LEMMA MailIn ==
  ASSUME NEW S, NEW T, NEW mail \in Seq(S), \A m \in S : Has(mail, m) => m \in T
  PROVE  mail \in Seq(T)
<1>1. Len(mail) \in Nat /\ DOMAIN mail = 1 .. Len(mail) /\ mail = [i \in 1 .. Len(mail) |-> mail[i]]
  OBVIOUS
<1>2. \A i \in 1 .. Len(mail) : mail[i] \in S /\ Has(mail, mail[i])
  BY <1>1 DEF Has
<1>3. \A i \in 1 .. Len(mail) : mail[i] \in T
  BY <1>2
<1> QED
  BY <1>1, <1>3, SeqDef

LEMMA TypedImpliesTypeOK ==
  ASSUME Typed, Blame, DistMail
  PROVE  TypeOK
<1>1. \A n \in Nodes : /\ node[n].state \in {"none", "up", "stopping"}
                       /\ node[n].tasks \subseteq Tasks
                       /\ node[n].singles \cup node[n].groups \subseteq Refs
  BY DEF Typed, NodeStates
<1>2. \A ref \in Refs : Terminated(ref) \in TerminatedOf
  BY DEF Terminated, TerminatedOf
<1>3. inst.mail \in Seq(InstMessage)
  <2>1. inst.mail \in Seq(InstMsgs)
    BY DEF Typed
  <2>2. \A m \in InstMsgs : m \in InstMessage
    BY <1>2 DEF InstMsgs, InstMessage
  <2> QED
    BY <2>1, <2>2, MailIn
<1>4. \A n \in Nodes : node[n].mail \in Seq(NodeMsgs)
  BY NodeStateIs DEF Typed
<1>5. ASSUME NEW n \in Nodes, IsDistributor(n) PROVE node[n].mail \in Seq(DistMessage)
  <2>1. ~Has(node[n].mail, TaskTerminated)
    BY <1>5 DEF DistMail
  <2>2. ~Has(node[n].mail, PersistAndSuicide)
    <3>1. ASSUME NEW u \in Tasks, Over(Home(u), n) PROVE FALSE
      <4>1. Home(u) \in Nodes /\ Len(Home(u)[2]) \in Nat /\ Len(Home(u)[2]) < Len(n[2])
        BY <3>1, HomeIs, NodeType, OverIs
      <4>2. n[2] = <<>> /\ Len(<<>>) = 0
        BY <1>5 DEF IsDistributor
      <4> QED
        BY <4>1, <4>2
    <3> QED
      BY <3>1 DEF Blame, FailedOver
  <2>3. \A m \in NodeMsgs : m \notin {TaskTerminated, PersistAndSuicide} => m \in DistMessage
    BY <1>2 DEF NodeMsgs, DistMessage
  <2> QED
    BY <1>4, <2>1, <2>2, <2>3, MailIn
<1>6. ASSUME NEW n \in Nodes PROVE node[n].mail \in Seq(SubMessage)
  <2>1. \A m \in NodeMsgs : m \in SubMessage
    BY <1>2 DEF NodeMsgs, SubMessage, DistMessage
  <2> QED
    BY <1>4, <2>1, MailIn
<1> QED
  BY <1>1, <1>3, <1>5, <1>6 DEF Typed, TypeOK, TaskStates

-----------------------------------------------------------------------------
(* The theorems that need no hypothesis *)

BranchInv == Typed /\ Delivery /\ Ended /\ Blame

LEMMA BranchInit ==
  ASSUME Init
  PROVE  BranchInv
<1>1. Typed /\ Delivery
  BY DeliveryInit
<1>2. Ended
  BY DEF Init, Ended
<1>3. \A n \in Nodes : node[n].mail = <<>>
  BY DEF Init, Absent
<1>4. Blame
  <2>1. \A t \in Tasks : tsk[t].suicide = FALSE /\ end[t] = "NONE"
    BY DEF Init
  <2> QED
    BY <1>3, <2>1, HasEmpty DEF Blame
<1> QED
  BY <1>1, <1>2, <1>4 DEF BranchInv

LEMMA BranchStep ==
  ASSUME BranchInv, [Next]_vars
  PROVE  BranchInv' /\ EndMoves
  BY DeliveryStep, EndedStep, BlameStep DEF BranchInv

LEMMA BlameImpliesBranch ==
  ASSUME BranchInv
  PROVE  AbandonedInItsBranch
<1>1. SUFFICES ASSUME NEW t \in Tasks, end[t] = "ABANDONED"
               PROVE  \E u \in Tasks : /\ end[u] = "FAILURE" /\ RunOf[u] = RunOf[t]
                                       /\ IsPrefix(Path[u], Path[t])
  BY DEF AbandonedInItsBranch
<1>2. PICK u \in Tasks : end[u] = "FAILURE" /\ (Home(u) = Home(t) \/ Over(Home(u), Home(t)))
  BY <1>1 DEF BranchInv, Blame, FailedAt
<1>3. CASE Home(u) = Home(t)
  <2>1. RunOf[u] = RunOf[t] /\ Path[u] = Path[t]
    BY <1>3 DEF Home
  <2>2. IsPrefix(Path[t], Path[t])
    BY HomeIs DEF Below, Home
  <2> QED
    BY <1>2, <2>1, <2>2
<1>4. CASE Over(Home(u), Home(t))
  BY <1>2, <1>4 DEF Over, Home, IsStrictPrefix
<1> QED
  BY <1>2, <1>3, <1>4

\* The actors of the tree keep to their types: every message is one the receive
\* of its addressee has a case for, and every reference in a list is one to an
\* actor of the tree.  That no Distributor is sent PersistAndSuicide follows from
\* Blame: the message only goes down from a group.
THEOREM TypeCorrect == Spec => []TypeOK
<1>1. Init => BranchInv /\ DistMail
  <2>1. Init => \A n \in Nodes : node[n].mail = <<>>
    BY DEF Init, Absent
  <2> QED
    BY <2>1, BranchInit, HasEmpty DEF DistMail
<1>2. BranchInv /\ DistMail /\ [Next]_vars => (BranchInv /\ DistMail)'
  BY BranchStep, DistMailStep DEF BranchInv
<1>3. BranchInv /\ DistMail => TypeOK
  BY TypedImpliesTypeOK DEF BranchInv
<1> QED
  BY <1>1, <1>2, <1>3, PTL DEF Spec

\* A task is abandoned only when a task on its own level or on a level above it,
\* in the same branch of the same run, has failed: PersistAndSuicide goes from
\* the group of the failed task down, and only down.
THEOREM AbandonsItsBranchOnly == Spec => []AbandonedInItsBranch
<1>1. Init => BranchInv
  BY BranchInit
<1>2. BranchInv /\ [Next]_vars => BranchInv'
  BY BranchStep
<1>3. BranchInv => AbandonedInItsBranch
  BY BlameImpliesBranch
<1> QED
  BY <1>1, <1>2, <1>3, PTL DEF Spec

LEMMA ContractStep ==
  ASSUME BranchInv, EndMoves, BranchInv'
  PROVE  [Contract!Next]_resultOf
<1>1. /\ resultOf = [t \in Tasks |-> IF end[t] = "NONE" THEN "OPEN" ELSE end[t]]
      /\ resultOf' = [t \in Tasks |-> IF end'[t] = "NONE" THEN "OPEN" ELSE end'[t]]
  BY DEF resultOf
<1>2. CASE UNCHANGED end
  BY <1>1, <1>2
<1>3. ASSUME NEW t \in Tasks, end[t] = "NONE", \A u \in Tasks \ {t} : end'[u] = end[u],
             \/ end'[t] = "SUCCESS" \/ end'[t] = "FAILURE" \/ (end'[t] = "ABANDONED" /\ tsk[t].suicide)
      PROVE  Contract!Next
  <2>1. /\ resultOf[t] = "OPEN" /\ \A u \in Tasks \ {t} : resultOf'[u] = resultOf[u]
        /\ resultOf'[t] = end'[t]
    BY <1>1, <1>3
  <2>2. resultOf' = [resultOf EXCEPT ![t] = end'[t]]
    BY <1>1, <2>1
  <2>3. CASE end'[t] = "SUCCESS"
    BY <2>1, <2>2, <2>3 DEF Contract!Next, Contract!Succeed
  <2>4. CASE end'[t] = "FAILURE"
    BY <2>1, <2>2, <2>4 DEF Contract!Next, Contract!Fail
  <2>5. CASE end'[t] = "ABANDONED" /\ tsk[t].suicide
    <3>1. PICK u \in Tasks : end[u] = "FAILURE"
      BY <2>5 DEF BranchInv, Blame, FailedAt
    <3>2. resultOf[u] = "FAILURE"
      BY <1>1, <3>1
    <3>3. Contract!Abandon(t)
      BY <2>1, <2>2, <2>5, <3>2 DEF Contract!Abandon
    <3> QED
      BY <3>3 DEF Contract!Next
  <2> QED
    BY <1>3, <2>3, <2>4, <2>5
<1> QED
  BY <1>2, <1>3 DEF EndMoves

\* The tree gives every task at most one result, which it never takes back, and
\* abandons a task only after another one failed.
THEOREM TreeImplementsResults == Spec => ImplementsTaskResults
<1>1. Init => BranchInv
  BY BranchInit
<1>2. BranchInv /\ [Next]_vars => BranchInv' /\ EndMoves
  BY BranchStep
<1>3. Init => Contract!Init
  BY DEF Init, Contract!Init, resultOf
<1>4. BranchInv /\ BranchInv' /\ EndMoves => [Contract!Next]_resultOf
  BY ContractStep
<1> QED
  BY <1>1, <1>2, <1>3, <1>4, PTL DEF Spec, ImplementsTaskResults, Contract!Spec
=============================================================================
