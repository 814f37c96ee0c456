-------------------------- MODULE MembershipProofs --------------------------
(***************************************************************************)
(* Theorems about Membership, for every finite set of clients, every       *)
(* choice of their roles, and any number of lives and restarts.            *)
(***************************************************************************)
EXTENDS Membership, FiniteSetTheorems, SequenceTheorems, TLAPS

-----------------------------------------------------------------------------
(* The inductive invariant *)

Statuses == {"none", "joining", "up", "leaving", "exiting"}
Roles == {"vm", "executor"}
Questions == {"SetInstanceActor", "SetGlobalStatusActor"}
Client == [life : 0 .. MaxLives, up : BOOLEAN, roles : SUBSET Roles]
Member == [status : Statuses, life : 0 .. MaxLives, roles : SUBSET Roles]
Master == [state : {"up", "restarting"}, ready : BOOLEAN, subscribed : {"no", "asked", "yes"},
           asked : SUBSET Questions, refs : SUBSET Questions,
           children : SUBSET Refs, nodeActors : SUBSET Refs, restarts : Generations]
Past == [included : BOOLEAN, early : SUBSET (Nodes \X (1 .. MaxLives)), silent : SUBSET Nodes]

ClientsShape ==
  /\ client \in [Nodes -> Client]
  /\ \A n \in Nodes : client[n].up => client[n].life \in 1 .. MaxLives /\ client[n].roles \in RoleSets

\* A member has the life and the roles of a client that was started.
MembersShape ==
  /\ member \in [Nodes -> Member]
  /\ \A n \in Nodes : member[n].status # "none" =>
       member[n].life \in 1 .. MaxLives /\ member[n].roles \in RoleSets

DirectoryShape == directory \subseteq Nodes \cup {Central} /\ dirMail \in Seq(Events)
MasterShape == master \in Master /\ mail \in Seq(MasterMessages)
OneChildPerAddress == \A r, q \in master.children : r[1] = q[1] => r = q
NodeActorsShape == nodeActor \in [Refs -> {"none", "up", "stopped", "lost"}]

\* The event that takes an address out of the directory is sent before the
\* member is removed, and nothing is sent of that life after it.
ExitingIsDelisted == \A n \in Nodes : member[n].status = "exiting" => ~WillList(n)

MembershipInv ==
  /\ ClientsShape /\ MembersShape /\ DirectoryShape /\ MasterShape
  /\ OneChildPerAddress /\ NodeActorsShape /\ past \in Past
  /\ ExecutorIsKnown /\ StaleOnlyIfSilent /\ ExitingIsDelisted

-----------------------------------------------------------------------------
(* The directory and its mailbox *)

(* What sending the directory one more event does to what it will list. *)
LEMMA WillListAppended ==
  ASSUME dirMail \in Seq(Events), NEW e \in Events, NEW n \in Nodes,
         dirMail' = Append(dirMail, e), directory' = directory
  PROVE  WillList(n)' <=> IF Concerns(n, e) THEN e.m = "MemberJoined" ELSE WillList(n)
<1> DEFINE k == Len(dirMail)
<1>1. k \in Nat /\ Len(dirMail') = k + 1
  OBVIOUS
<1>2. /\ dirMail'[k + 1] = e
      /\ \A i \in 1 .. k : dirMail'[i] = dirMail[i]
  OBVIOUS
<1>3. 1 .. Len(dirMail') = (1 .. k) \cup {k + 1}
  BY <1>1
<1>4. WillList(n)' <=>
        \/ \E i \in 1 .. Len(dirMail') :
             /\ Concerns(n, dirMail'[i]) /\ dirMail'[i].m = "MemberJoined"
             /\ \A j \in i + 1 .. Len(dirMail') : ~Concerns(n, dirMail'[j])
        \/ n \in directory' /\ \A i \in 1 .. Len(dirMail') : ~Concerns(n, dirMail'[i])
  BY DEF WillList, Concerns
<1>5. CASE Concerns(n, e)
  <2>1. ASSUME e.m = "MemberJoined" PROVE WillList(n)'
    <3>1. \A j \in (k + 1) + 1 .. Len(dirMail') : ~Concerns(n, dirMail'[j])
      BY <1>1
    <3> QED
      BY <1>1, <1>2, <1>3, <1>4, <1>5, <2>1, <3>1
  <2>2. ASSUME WillList(n)' PROVE e.m = "MemberJoined"
    <3>1. PICK i \in 1 .. Len(dirMail') :
             /\ Concerns(n, dirMail'[i]) /\ dirMail'[i].m = "MemberJoined"
             /\ \A j \in i + 1 .. Len(dirMail') : ~Concerns(n, dirMail'[j])
      BY <1>1, <1>2, <1>3, <1>4, <1>5, <2>2
    <3>2. i = k + 1
      <4>1. CASE i \in 1 .. k
        <5>1. k + 1 \in i + 1 .. Len(dirMail')
          BY <1>1, <4>1
        <5> QED
          BY <1>2, <1>5, <3>1, <5>1
      <4> QED
        BY <1>3, <3>1, <4>1
    <3> QED
      BY <1>2, <3>1, <3>2
  <2> QED
    BY <1>5, <2>1, <2>2
<1>6. CASE ~Concerns(n, e)
  <2>1. (n \in directory' /\ \A i \in 1 .. Len(dirMail') : ~Concerns(n, dirMail'[i]))
          <=> (n \in directory /\ \A i \in 1 .. k : ~Concerns(n, dirMail[i]))
    BY <1>2, <1>3, <1>6
  <2>2. ASSUME NEW i \in 1 .. k
        PROVE  (\A j \in i + 1 .. Len(dirMail') : ~Concerns(n, dirMail'[j]))
                 <=> (\A j \in i + 1 .. k : ~Concerns(n, dirMail[j]))
    <3>1. i + 1 .. Len(dirMail') = (i + 1 .. k) \cup {k + 1}
      BY <1>1
    <3>2. i + 1 .. k \subseteq 1 .. k
      BY <1>1
    <3> QED
      BY <1>2, <1>6, <3>1, <3>2
  <2> QED
    BY <1>2, <1>3, <1>4, <1>6, <2>1, <2>2 DEF WillList
<1> QED
  BY <1>5, <1>6

(* Handling the first event changes nothing in what the directory will list. *)
LEMMA WillListHandled ==
  ASSUME dirMail \in Seq(Events), dirMail # <<>>, NEW n \in Nodes,
         DirectoryMemberJoined \/ DirectoryMemberExited
  PROVE  WillList(n)' <=> WillList(n)
<1> DEFINE k == Len(dirMail)
           h == Head(dirMail)
<1>1. k \in Nat \ {0} /\ dirMail' = Tail(dirMail) /\ Len(dirMail') = k - 1
  BY DEF DirectoryMemberJoined, DirectoryMemberExited
<1>2. h = dirMail[1] /\ h \in Events
  OBVIOUS
<1>3. \A i \in 1 .. k - 1 : dirMail'[i] = dirMail[i + 1]
  BY <1>1
<1>4. WillList(n)' <=>
        \/ \E i \in 1 .. Len(dirMail') :
             /\ Concerns(n, dirMail'[i]) /\ dirMail'[i].m = "MemberJoined"
             /\ \A j \in i + 1 .. Len(dirMail') : ~Concerns(n, dirMail'[j])
        \/ n \in directory' /\ \A i \in 1 .. Len(dirMail') : ~Concerns(n, dirMail'[i])
  BY DEF WillList, Concerns
<1>5. n \in directory' <=> IF Concerns(n, h) THEN h.m = "MemberJoined" ELSE n \in directory
  BY <1>2 DEF DirectoryMemberJoined, DirectoryMemberExited, Concerns, Events
<1> DEFINE Quiet == \A i \in 2 .. k : ~Concerns(n, dirMail[i])
           LastIs(i) == /\ Concerns(n, dirMail[i]) /\ dirMail[i].m = "MemberJoined"
                        /\ \A j \in i + 1 .. k : ~Concerns(n, dirMail[j])
<1>6. (\A i \in 1 .. k - 1 : ~Concerns(n, dirMail'[i])) <=> Quiet
  <2>1. ASSUME NEW i \in 2 .. k, \A x \in 1 .. k - 1 : ~Concerns(n, dirMail'[x])
        PROVE  ~Concerns(n, dirMail[i])
    <3>1. i - 1 \in 1 .. k - 1 /\ (i - 1) + 1 = i
      BY <1>1
    <3> QED
      BY <1>3, <2>1, <3>1
  <2>2. ASSUME NEW i \in 1 .. k - 1, Quiet PROVE ~Concerns(n, dirMail'[i])
    <3>1. i + 1 \in 2 .. k
      BY <1>1
    <3> QED
      BY <1>3, <2>2, <3>1
  <2> QED
    BY <2>1, <2>2
<1>7. ASSUME NEW i \in 1 .. k - 1
      PROVE  (/\ Concerns(n, dirMail'[i]) /\ dirMail'[i].m = "MemberJoined"
              /\ \A j \in i + 1 .. k - 1 : ~Concerns(n, dirMail'[j]))
               <=> LastIs(i + 1)
  <2>1. ASSUME NEW j \in (i + 1) + 1 .. k, \A x \in i + 1 .. k - 1 : ~Concerns(n, dirMail'[x])
        PROVE  ~Concerns(n, dirMail[j])
    <3>1. j - 1 \in i + 1 .. k - 1 /\ j - 1 \in 1 .. k - 1 /\ (j - 1) + 1 = j
      BY <1>1
    <3> QED
      BY <1>3, <2>1, <3>1
  <2>2. ASSUME NEW j \in i + 1 .. k - 1, \A x \in (i + 1) + 1 .. k : ~Concerns(n, dirMail[x])
        PROVE  ~Concerns(n, dirMail'[j])
    <3>1. j + 1 \in (i + 1) + 1 .. k /\ j \in 1 .. k - 1
      BY <1>1
    <3> QED
      BY <1>3, <2>2, <3>1
  <2>3. dirMail'[i] = dirMail[i + 1]
    BY <1>3
  <2> QED
    BY <2>1, <2>2, <2>3
<1>8. (\E i \in 1 .. k - 1 : LastIs(i + 1)) <=> \E i \in 2 .. k : LastIs(i)
  <2>1. ASSUME NEW i \in 2 .. k, LastIs(i) PROVE \E x \in 1 .. k - 1 : LastIs(x + 1)
    <3>1. i - 1 \in 1 .. k - 1 /\ (i - 1) + 1 = i
      BY <1>1
    <3> HIDE DEF LastIs
    <3> QED
      BY <2>1, <3>1
  <2>2. ASSUME NEW i \in 1 .. k - 1, LastIs(i + 1) PROVE \E x \in 2 .. k : LastIs(x)
    <3>1. i + 1 \in 2 .. k
      BY <1>1
    <3> HIDE DEF LastIs
    <3> QED
      BY <2>2, <3>1
  <2> QED
    BY <2>1, <2>2
<1>9. 1 .. k = {1} \cup (2 .. k)
  BY <1>1
<1>10. LastIs(1) <=> Concerns(n, h) /\ h.m = "MemberJoined" /\ Quiet
  BY <1>2
<1>11. WillList(n) <=> \/ LastIs(1) \/ \E i \in 2 .. k : LastIs(i)
                       \/ n \in directory /\ ~Concerns(n, h) /\ Quiet
  <2>1. WillList(n) <=> \/ \E i \in 1 .. k : LastIs(i)
                        \/ n \in directory /\ \A i \in 1 .. k : ~Concerns(n, dirMail[i])
    BY DEF WillList
  <2>2. (\A i \in 1 .. k : ~Concerns(n, dirMail[i])) <=> ~Concerns(n, h) /\ Quiet
    BY <1>2, <1>9
  <2> HIDE DEF LastIs
  <2> QED
    BY <1>9, <2>1, <2>2
<1>12. WillList(n)' <=> (\E i \in 2 .. k : LastIs(i)) \/ (n \in directory' /\ Quiet)
  <2> DEFINE LastNow(i) == /\ Concerns(n, dirMail'[i]) /\ dirMail'[i].m = "MemberJoined"
                           /\ \A j \in i + 1 .. k - 1 : ~Concerns(n, dirMail'[j])
  <2>1. WillList(n)' <=> \/ \E i \in 1 .. k - 1 : LastNow(i)
                         \/ n \in directory' /\ \A i \in 1 .. k - 1 : ~Concerns(n, dirMail'[i])
    BY <1>1, <1>4, Zenon
  <2>2. \A i \in 1 .. k - 1 : LastNow(i) <=> LastIs(i + 1)
    BY <1>7
  <2> HIDE DEF LastNow, LastIs, Quiet
  <2>3. (\E i \in 1 .. k - 1 : LastNow(i)) <=> \E i \in 1 .. k - 1 : LastIs(i + 1)
    BY <2>2
  <2> QED
    BY <1>6, <1>8, <2>1, <2>3, Zenon
<1> HIDE DEF LastIs, Quiet, h
<1>13. CASE Concerns(n, h)
  <2>1. n \in directory' <=> h.m = "MemberJoined"
    BY <1>5, <1>13
  <2> QED
    BY <1>10, <1>11, <1>12, <1>13, <2>1, Zenon
<1>14. CASE ~Concerns(n, h)
  <2>1. n \in directory' <=> n \in directory
    BY <1>5, <1>14
  <2> QED
    BY <1>10, <1>11, <1>12, <1>14, <2>1, Zenon
<1> QED
  BY <1>13, <1>14

(* Nothing else than its mailbox and its field decides what it will list. *)
LEMMA WillListSame ==
  ASSUME UNCHANGED dirVars, NEW n \in Nodes
  PROVE  WillList(n)' <=> WillList(n)
  BY DEF WillList, Concerns, dirVars

-----------------------------------------------------------------------------
(* The mailboxes *)

(* The types of the events, and of the messages of the NodeMasterActor. *)
LEMMA EventType ==
  ASSUME NEW n \in Nodes, NEW l \in 1 .. MaxLives, NEW roles \in RoleSets,
         NEW m \in {"MemberJoined", "MemberExited"}
  PROVE  /\ Event(m, n, l, roles) \in Events
         /\ Event(m, n, l, roles).m = m /\ Event(m, n, l, roles).node = n
         /\ Event(m, n, l, roles).roles = roles
  BY DEF Event, Events

LEMMA MessageType ==
  ASSUME NEW x \in MasterMessages, x.m = "MemberJoined"
  PROVE  x \in Events
  BY DEF MasterMessages, Simple

(* The subscription is answered with events, in any order. *)
LEMMA InitialState ==
  ASSUME MembersShape
  PROVE  SetToSeq({Event("MemberJoined", n, member[n].life, member[n].roles) :
                     n \in {x \in Nodes : member[x].status = "joining"}}) \in Seq(MasterMessages)
<1> DEFINE J == {x \in Nodes : member[x].status = "joining"}
           S == {Event("MemberJoined", n, member[n].life, member[n].roles) : n \in J}
<1>1. S \subseteq MasterMessages
  <2> SUFFICES ASSUME NEW n \in J
               PROVE  Event("MemberJoined", n, member[n].life, member[n].roles) \in MasterMessages
    OBVIOUS
  <2>1. member[n].life \in 1 .. MaxLives /\ member[n].roles \in RoleSets
    BY DEF MembersShape
  <2> QED
    BY <2>1, EventType DEF MasterMessages
<1>2. IsFiniteSet(S)
  <2>1. IsFiniteSet(J)
    BY FS_Subset, MembershipAssumption
  <2> HIDE DEF J
  <2> DEFINE f == [n \in J |-> Event("MemberJoined", n, member[n].life, member[n].roles)]
  <2>2. f \in Surjection(J, S)
    BY DEF Surjection
  <2> QED
    BY <2>1, <2>2, FS_Surjection
<1> HIDE DEF S, J
<1>3. Cardinality(S) \in Nat /\ ExistsBijection(1 .. Cardinality(S), S)
  BY <1>2, FS_CardinalityType
<1>4. PICK f : f \in Bijection(1 .. Cardinality(S), S)
  BY <1>3 DEF ExistsBijection
<1>5. f \in [1 .. Cardinality(S) -> S] /\ IsInjective(f)
  BY <1>4 DEF Bijection, Injection, IsInjective
<1>6. SetToSeq(S) \in [1 .. Cardinality(S) -> S]
  <2>1. \E g : g \in [1 .. Cardinality(S) -> S] /\ IsInjective(g)
    BY <1>5
  <2> QED
    BY <2>1, Zenon DEF SetToSeq
<1>7. SetToSeq(S) \in Seq(S)
  BY <1>3, <1>6
<1>8. SetToSeq(S) \in Seq(MasterMessages)
  BY <1>1, <1>3, <1>6
<1> QED
  BY <1>8 DEF S, J

-----------------------------------------------------------------------------
(* The types are kept. *)

\* The state of the NodeMasterActor in the initial state and after a restart
LEMMA NewMasterType ==
  ASSUME NEW g \in Generations
  PROVE  NewMaster(g) \in Master /\ NewMaster(g).children = {}
  BY DEF NewMaster, Master

\* What IncludeNode creates is a NodeActor of a life that was started.
LEMMA IncludedRef ==
  ASSUME ClientsShape, master \in Master, NEW h, NEW l,
         (h \in Nodes /\ l \in 1 .. MaxLives) \/ (h = Central /\ l = 1)
  PROVE  <<h, IF h \in Nodes /\ client[h].up THEN client[h].life ELSE l, master.restarts>> \in Refs
<1>1. master.restarts \in Generations
  BY DEF Master
<1>2. CASE h \in Nodes /\ client[h].up
  <2>1. client[h].life \in 1 .. MaxLives
    BY <1>2 DEF ClientsShape
  <2> QED
    BY <1>1, <1>2, <2>1 DEF Refs, ClientRefs
<1>3. CASE h \in Nodes /\ ~client[h].up
  BY <1>1, <1>3, MembershipAssumption DEF Refs, ClientRefs
<1>4. CASE h \notin Nodes
  BY <1>1, <1>4 DEF Refs
<1> QED
  BY <1>2, <1>3, <1>4

\* The parts of the invariant that the master's two actors have nothing to do with.
ClusterShape == ClientsShape /\ MembersShape /\ past \in Past
MasterPart == MasterShape /\ OneChildPerAddress /\ NodeActorsShape

LEMMA IncludeNodeKeeps ==
  ASSUME ClientsShape, MasterPart, NEW h, NEW l,
         (h \in Nodes /\ l \in 1 .. MaxLives) \/ (h = Central /\ l = 1),
         IncludeNode(h, l)
  PROVE  master' \in Master /\ OneChildPerAddress' /\ NodeActorsShape'
<1> DEFINE r == <<h, IF h \in Nodes /\ client[h].up THEN client[h].life ELSE l, master.restarts>>
<1>1. r \in Refs /\ r[1] = h
  BY IncludedRef DEF MasterPart, MasterShape
<1>2. master \in Master /\ nodeActor \in [Refs -> {"none", "up", "stopped", "lost"}]
  BY DEF MasterPart, MasterShape, NodeActorsShape
<1>3. \/ /\ \A c \in master.children : c[1] # h
         /\ master' = [master EXCEPT !.children = @ \cup {r}, !.nodeActors = @ \cup {r}]
         /\ nodeActor' = [nodeActor EXCEPT ![r] = IF Alive(r) THEN "up" ELSE "lost"]
      \/ /\ master' = [master EXCEPT !.state = "restarting", !.subscribed = "no"]
         /\ UNCHANGED nodeActor
  BY Zenon DEF IncludeNode
<1> HIDE DEF r
<1>4. CASE UNCHANGED nodeActor /\ master' = [master EXCEPT !.state = "restarting", !.subscribed = "no"]
  <2>1. master' \in Master /\ master'.children = master.children
    BY <1>2, <1>4 DEF Master
  <2> QED
    BY <1>2, <1>4, <2>1 DEF MasterPart, OneChildPerAddress, NodeActorsShape
<1>5. CASE /\ \A c \in master.children : c[1] # h
           /\ master' = [master EXCEPT !.children = @ \cup {r}, !.nodeActors = @ \cup {r}]
           /\ nodeActor' = [nodeActor EXCEPT ![r] = IF Alive(r) THEN "up" ELSE "lost"]
  <2>1. master' \in Master /\ master'.children = master.children \cup {r}
    BY <1>1, <1>2, <1>5 DEF Master
  <2>2. NodeActorsShape'
    BY <1>1, <1>2, <1>5 DEF NodeActorsShape
  <2>3. OneChildPerAddress'
    BY <1>1, <1>5, <2>1 DEF MasterPart, OneChildPerAddress
  <2> QED
    BY <2>1, <2>2, <2>3
<1> QED
  BY <1>3, <1>4, <1>5

(* One step of the NodeMasterActor, or of what it is sent, that leaves the  *)
(* clients alone.                                                           *)
LEMMA MasterKeeps ==
  ASSUME ClusterShape, MasterPart, MasterStep
  PROVE  MasterPart'
<1>1. master \in Master /\ mail \in Seq(MasterMessages)
  BY DEF MasterPart, MasterShape
<1>2. ASSUME mail # <<>> PROVE Head(mail) \in MasterMessages /\ Tail(mail) \in Seq(MasterMessages)
  BY <1>1, <1>2
<1>3. \A m \in {"Init", "SetInstanceActor", "SetGlobalStatusActor", "IncludeNode"} :
        Append(mail, Simple(m)) \in Seq(MasterMessages)
  BY <1>1 DEF MasterMessages
<1>4. CASE HandlerInit
  <2>1. master' \in Master /\ master'.children = master.children
    BY <1>1, <1>4 DEF HandlerInit, Master, Questions
  <2>2. mail' \in Seq(MasterMessages)
    BY <1>2, <1>4 DEF HandlerInit, Receives
  <2> QED
    BY <1>4, <2>1, <2>2 DEF HandlerInit, MasterPart, MasterShape, OneChildPerAddress, NodeActorsShape
<1>5. CASE SubscriptionStarts
  <2>1. master' \in Master /\ master'.children = master.children
    BY <1>1, <1>5 DEF SubscriptionStarts, Master
  <2>2. mail' \in Seq(MasterMessages)
    <3> DEFINE q == SetToSeq({Event("MemberJoined", n, member[n].life, member[n].roles) :
                                n \in {x \in Nodes : member[x].status = "joining"}})
    <3>1. q \in Seq(MasterMessages)
      BY InitialState DEF ClusterShape
    <3>2. mail' = mail \o q
      BY <1>5 DEF SubscriptionStarts
    <3> HIDE DEF q
    <3> QED
      BY <1>1, <3>1, <3>2
  <2> QED
    BY <1>5, <2>1, <2>2 DEF SubscriptionStarts, MasterPart, MasterShape, OneChildPerAddress, NodeActorsShape
<1>6. ASSUME NEW m \in Questions, Answer(m) PROVE MasterPart'
  <2>1. master' \in Master /\ master'.children = master.children
    BY <1>1, <1>6 DEF Answer, Master
  <2>2. mail' \in Seq(MasterMessages)
    BY <1>3, <1>6 DEF Answer, Questions
  <2> QED
    BY <1>6, <2>1, <2>2 DEF Answer, MasterPart, MasterShape, OneChildPerAddress, NodeActorsShape
<1>7. ASSUME NEW m \in Questions, HandlerSet(m) PROVE MasterPart'
  <2> DEFINE refs == master.refs \cup {m}
             now == master.ready \/ refs = {"SetInstanceActor", "SetGlobalStatusActor"}
  <2>1. master' = [master EXCEPT !.refs = refs, !.ready = now]
    BY <1>7 DEF HandlerSet
  <2>2. refs \in SUBSET Questions /\ now \in BOOLEAN
    BY <1>1 DEF Master
  <2> HIDE DEF refs, now
  <2>3. master' \in Master /\ master'.children = master.children
    BY <1>1, <2>1, <2>2 DEF Master
  <2>4. mail' \in Seq(MasterMessages)
    BY <1>2, <1>7 DEF HandlerSet, Receives
  <2> QED
    BY <1>7, <2>3, <2>4 DEF HandlerSet, MasterPart, MasterShape, OneChildPerAddress, NodeActorsShape
<1>8. CASE HandlerNotReady
  <2>1. mail' \in Seq(MasterMessages)
    BY <1>2, <1>8 DEF HandlerNotReady, Receives
  <2> QED
    BY <1>8, <2>1 DEF HandlerNotReady, MasterPart, MasterShape, OneChildPerAddress, NodeActorsShape
<1>9. CASE HandlerMemberJoined
  <2>1. Head(mail) \in Events /\ mail' \in Seq(MasterMessages)
    BY <1>2, <1>9, MessageType DEF HandlerMemberJoined, Receives
  <2>2. Head(mail).node \in Nodes /\ Head(mail).life \in 1 .. MaxLives
    BY <2>1 DEF Events
  <2>3. CASE IncludeNode(Head(mail).node, Head(mail).life)
    <3> DEFINE h == Head(mail).node
               l == Head(mail).life
    <3>1. h \in Nodes /\ l \in 1 .. MaxLives /\ IncludeNode(h, l)
      BY <2>2, <2>3
    <3> HIDE DEF h, l
    <3> QED
      BY <2>1, <3>1, IncludeNodeKeeps DEF ClusterShape, MasterPart, MasterShape
  <2>4. CASE UNCHANGED <<master, nodeActor>>
    BY <2>1, <2>4 DEF MasterPart, MasterShape, OneChildPerAddress, NodeActorsShape
  <2> QED
    BY <1>9, <2>3, <2>4 DEF HandlerMemberJoined
<1>10. CASE HandlerIncludeNode
  <2>1. mail' \in Seq(MasterMessages)
    BY <1>2, <1>10 DEF HandlerIncludeNode, Receives
  <2> QED
    BY <1>10, <2>1, IncludeNodeKeeps DEF HandlerIncludeNode, ClusterShape, MasterPart, MasterShape
<1>11. CASE MasterRestarted
  <2>1. master.restarts + 1 \in Generations
    BY <1>1, <1>11, MembershipAssumption DEF MasterRestarted, Master, Generations
  <2>2. mail' \in Seq(MasterMessages)
    BY <1>3, <1>11 DEF MasterRestarted
  <2> QED
    BY <1>11, <2>1, <2>2, NewMasterType
    DEF MasterRestarted, MasterPart, MasterShape, OneChildPerAddress, NodeActorsShape
<1> QED
  BY <1>4, <1>5, <1>6, <1>7, <1>8, <1>9, <1>10, <1>11 DEF MasterStep, Questions

(* An event is published to both actors. *)
LEMMA PublishKeeps ==
  ASSUME DirectoryShape, MasterPart, NEW e \in Events, Publish(e),
         UNCHANGED <<directory, master, nodeActor>>
  PROVE  DirectoryShape' /\ MasterPart'
<1>1. dirMail' \in Seq(Events)
  BY DEF Publish, DirectoryShape
<1>2. mail' \in Seq(MasterMessages)
  <2>1. mail \in Seq(MasterMessages)
    BY DEF MasterPart, MasterShape
  <2>2. CASE e.m = "MemberJoined"
    <3>1. e \in MasterMessages
      BY <2>2 DEF MasterMessages
    <3> QED
      BY <2>1, <3>1 DEF Publish
  <2>3. CASE e.m # "MemberJoined"
    BY <2>1, <2>3 DEF Publish
  <2> QED
    BY <2>2, <2>3
<1> QED
  BY <1>1, <1>2 DEF DirectoryShape, MasterPart, MasterShape, OneChildPerAddress, NodeActorsShape

(* Nothing that happens outside the two actors touches their types. *)
LEMMA ActorsSame ==
  ASSUME UNCHANGED <<directory, dirMail, master, mail>>, DirectoryShape, MasterPart,
         NodeActorsShape'
  PROVE  DirectoryShape' /\ MasterPart'
  BY DEF DirectoryShape, MasterPart, MasterShape, OneChildPerAddress

(* The clients and what the cluster knows of them keep their types.         *)
LEMMA ClusterKeeps ==
  ASSUME ClusterShape, DirectoryShape, MasterPart, NEW n \in Nodes,
         \/ ClientStart(n) \/ Join(n) \/ MemberUp(n) \/ ClientStop(n) \/ ClientCrash(n)
         \/ MemberExited(n) \/ MemberRemoved(n)
  PROVE  ClusterShape' /\ DirectoryShape' /\ MasterPart'
<1>1. /\ client \in [Nodes -> Client]
      /\ \A x \in Nodes : client[x].up => client[x].life \in 1 .. MaxLives /\ client[x].roles \in RoleSets
  BY DEF ClusterShape, ClientsShape
<1>2. /\ member \in [Nodes -> Member]
      /\ \A x \in Nodes : member[x].status # "none" =>
           member[x].life \in 1 .. MaxLives /\ member[x].roles \in RoleSets
  BY DEF ClusterShape, MembersShape
<1>3. past \in Past /\ MaxLives \in Nat
  BY MembershipAssumption DEF ClusterShape
<1>4. nodeActor \in [Refs -> {"none", "up", "stopped", "lost"}]
  BY DEF MasterPart, NodeActorsShape
<1>5. CASE ClientStart(n)
  <2>1. PICK roles \in RoleSets :
          client' = [client EXCEPT ![n] = [life |-> client[n].life + 1, up |-> TRUE, roles |-> roles]]
    BY <1>5 DEF ClientStart
  <2>2. client[n].life + 1 \in 1 .. MaxLives
    BY <1>1, <1>3, <1>5 DEF ClientStart, Client
  <2>3. roles \in SUBSET Roles
    BY MembershipAssumption DEF Roles
  <2> DEFINE c == [life |-> client[n].life + 1, up |-> TRUE, roles |-> roles]
  <2>4. c \in Client /\ c.life \in 1 .. MaxLives /\ c.roles \in RoleSets
    BY <1>3, <2>2, <2>3 DEF Client
  <2> HIDE DEF c
  <2>5. ClientsShape'
    BY <1>1, <2>1, <2>4 DEF ClientsShape, c
  <2>6. MembersShape' /\ past' \in Past
    BY <1>2, <1>3, <1>5 DEF ClientStart, MembersShape
  <2>7. NodeActorsShape' /\ UNCHANGED <<directory, dirMail, master, mail>>
    BY <1>4, <1>5 DEF ClientStart, NodeActorsShape, dirVars, masterVars
  <2> QED
    BY <2>5, <2>6, <2>7, ActorsSame DEF ClusterShape
<1>6. CASE Join(n)
  <2> DEFINE c == client[n]
             x == [status |-> "joining", life |-> c.life, roles |-> c.roles]
             e == Event("MemberJoined", n, c.life, c.roles)
  <2>1. c.life \in 1 .. MaxLives /\ c.roles \in RoleSets
    BY <1>1, <1>6 DEF Join
  <2>2. member' = [member EXCEPT ![n] = x] /\ Publish(e)
    BY <1>6 DEF Join
  <2>3. x \in Member /\ x.life \in 1 .. MaxLives /\ x.roles \in RoleSets
    <3>1. c.life \in 0 .. MaxLives /\ c.roles \in SUBSET Roles
      BY <1>1 DEF Client
    <3> HIDE DEF c
    <3> QED
      BY <2>1, <3>1 DEF Member, Statuses
  <2>4. e \in Events
    BY <2>1, EventType
  <2>5. past' \in Past
    <3>1. <<n, c.life>> \in Nodes \X (1 .. MaxLives)
      BY <2>1
    <3>2. past' = past \/ past' = [past EXCEPT !.early = @ \cup {<<n, c.life>>}]
      BY <1>6 DEF Join
    <3> HIDE DEF c
    <3> QED
      BY <1>3, <3>1, <3>2 DEF Past
  <2> HIDE DEF x, e
  <2>6. MembersShape'
    BY <1>2, <2>2, <2>3 DEF MembersShape
  <2>7. ClientsShape' /\ UNCHANGED <<directory, master, nodeActor>>
    BY <1>1, <1>6 DEF Join, ClientsShape
  <2> QED
    BY <2>2, <2>4, <2>5, <2>6, <2>7, PublishKeeps DEF ClusterShape
<1>7. CASE MemberUp(n)
  <2>1. MembersShape'
    BY <1>2, <1>7 DEF MemberUp, MembersShape, Member, Statuses
  <2>2. ClientsShape' /\ past' \in Past
    BY <1>1, <1>3, <1>7 DEF MemberUp, ClientsShape
  <2>3. NodeActorsShape' /\ UNCHANGED <<directory, dirMail, master, mail>>
    BY <1>4, <1>7 DEF MemberUp, NodeActorsShape, dirVars, masterVars
  <2> QED
    BY <2>1, <2>2, <2>3, ActorsSame DEF ClusterShape
<1>8. ASSUME NEW told \in BOOLEAN, NodeGoes(n, told) PROVE ClientsShape' /\ NodeActorsShape'
  <2>1. ClientsShape'
    BY <1>1, <1>8 DEF NodeGoes, ClientsShape, Client
  <2>2. NodeActorsShape'
    BY <1>4, <1>8 DEF NodeGoes, NodeActorsShape
  <2> QED
    BY <2>1, <2>2
<1>9. CASE ClientStop(n)
  <2>1. ClientsShape' /\ NodeActorsShape'
    BY <1>8, <1>9 DEF ClientStop
  <2>2. MembersShape'
    BY <1>2, <1>9 DEF ClientStop, MembersShape, Member, Statuses
  <2>3. past' \in Past /\ UNCHANGED <<directory, dirMail, master, mail>>
    BY <1>3, <1>9 DEF ClientStop, dirVars, masterVars
  <2> QED
    BY <2>1, <2>2, <2>3, ActorsSame DEF ClusterShape
<1>10. CASE ClientCrash(n)
  <2>1. ClientsShape' /\ NodeActorsShape'
    BY <1>8, <1>10 DEF ClientCrash
  <2>2. MembersShape' /\ past' \in Past /\ UNCHANGED <<directory, dirMail, master, mail>>
    BY <1>2, <1>3, <1>10 DEF ClientCrash, MembersShape, dirVars, masterVars
  <2> QED
    BY <2>1, <2>2, ActorsSame DEF ClusterShape
<1>11. CASE MemberExited(n)
  <2>1. member[n].life \in 1 .. MaxLives /\ member[n].roles \in RoleSets
    BY <1>2, <1>11 DEF MemberExited
  <2>2. Event("MemberExited", n, member[n].life, member[n].roles) \in Events
    BY <2>1, EventType
  <2>3. MembersShape'
    BY <1>2, <1>11 DEF MemberExited, MembersShape, Member, Statuses
  <2>4. /\ Publish(Event("MemberExited", n, member[n].life, member[n].roles))
        /\ UNCHANGED <<directory, master, nodeActor>>
    BY <1>11 DEF MemberExited
  <2>5. ClientsShape' /\ past' \in Past
    BY <1>1, <1>3, <1>11 DEF MemberExited, ClientsShape
  <2>6. DirectoryShape' /\ MasterPart'
    <3> DEFINE e == Event("MemberExited", n, member[n].life, member[n].roles)
    <3>1. e \in Events /\ Publish(e)
      BY <2>2, <2>4
    <3> HIDE DEF e
    <3> QED
      BY <2>4, <3>1, PublishKeeps
  <2> QED
    BY <2>3, <2>5, <2>6 DEF ClusterShape
<1>12. CASE MemberRemoved(n)
  <2>1. MembersShape'
    BY <1>2, <1>12 DEF MemberRemoved, MembersShape, Member, Statuses
  <2>2. past' \in Past
    BY <1>3, <1>12 DEF MemberRemoved, Past
  <2>3. ClientsShape' /\ NodeActorsShape' /\ UNCHANGED <<directory, dirMail, master, mail>>
    BY <1>1, <1>4, <1>12 DEF MemberRemoved, ClientsShape, NodeActorsShape, dirVars, masterVars
  <2> QED
    BY <2>1, <2>2, <2>3, ActorsSame DEF ClusterShape
<1> QED
  BY <1>5, <1>6, <1>7, <1>9, <1>10, <1>11, <1>12

(* Every step keeps the types. *)
LEMMA TypesKept ==
  ASSUME ClusterShape, DirectoryShape, MasterPart, [Next]_vars
  PROVE  ClusterShape' /\ DirectoryShape' /\ MasterPart'
<1>1. ASSUME NEW n \in Nodes,
             \/ ClientStart(n) \/ Join(n) \/ MemberUp(n) \/ ClientStop(n) \/ ClientCrash(n)
             \/ MemberExited(n) \/ MemberRemoved(n)
      PROVE  ClusterShape' /\ DirectoryShape' /\ MasterPart'
  BY <1>1, ClusterKeeps
<1>2. ASSUME UNCHANGED <<cluster, past>> PROVE ClusterShape'
  BY <1>2 DEF cluster, ClusterShape, ClientsShape, MembersShape
<1>3. ASSUME UNCHANGED <<master, mail, nodeActor>> PROVE MasterPart'
  BY <1>3 DEF MasterPart, MasterShape, OneChildPerAddress, NodeActorsShape
<1>4. ASSUME UNCHANGED dirVars PROVE DirectoryShape'
  BY <1>4 DEF dirVars, DirectoryShape
<1>5. CASE DirectoryMemberJoined \/ DirectoryMemberExited
  <2>1. dirMail # <<>> /\ Head(dirMail).node \in Nodes /\ Tail(dirMail) \in Seq(Events)
    <3>1. dirMail # <<>> /\ dirMail \in Seq(Events)
      BY <1>5 DEF DirectoryShape, DirectoryMemberJoined, DirectoryMemberExited
    <3>2. Head(dirMail) \in Events /\ Tail(dirMail) \in Seq(Events)
      BY <3>1
    <3> QED
      BY <3>1, <3>2 DEF Events
  <2>2. DirectoryShape'
    BY <1>5, <2>1 DEF DirectoryShape, DirectoryMemberJoined, DirectoryMemberExited
  <2>3. UNCHANGED <<cluster, past>> /\ UNCHANGED <<master, mail, nodeActor>>
    BY <1>5 DEF DirectoryMemberJoined, DirectoryMemberExited, masterVars
  <2> QED
    BY <1>2, <1>3, <2>2, <2>3
<1>6. CASE MasterStep
  <2>1. UNCHANGED <<cluster, past>> /\ UNCHANGED dirVars
    BY <1>6 DEF MasterStep, HandlerInit, SubscriptionStarts, Answer, HandlerSet, HandlerNotReady,
                HandlerMemberJoined, HandlerIncludeNode, MasterRestarted
  <2> QED
    BY <1>2, <1>4, <1>6, <2>1, MasterKeeps
<1>7. CASE MainIncludesNode
  <2>1. ClusterShape'
    BY <1>7 DEF MainIncludesNode, cluster, ClusterShape, ClientsShape, MembersShape, Past
  <2>2. mail' \in Seq(MasterMessages)
    BY <1>7 DEF MainIncludesNode, MasterPart, MasterShape, MasterMessages
  <2>3. MasterPart' /\ UNCHANGED dirVars
    BY <1>7, <2>2 DEF MainIncludesNode, MasterPart, MasterShape, OneChildPerAddress, NodeActorsShape
  <2> QED
    BY <1>4, <2>1, <2>3
<1>8. ASSUME NEW r \in Refs, ChildStops(r) PROVE ClusterShape' /\ DirectoryShape' /\ MasterPart'
  <2>1. MasterPart'
    BY <1>8 DEF ChildStops, masterVars, MasterPart, MasterShape, OneChildPerAddress, NodeActorsShape
  <2>2. UNCHANGED <<cluster, past>> /\ UNCHANGED dirVars
    BY <1>8 DEF ChildStops
  <2> QED
    BY <1>2, <1>4, <2>1, <2>2
<1>9. ASSUME NEW r \in Refs, ChildTerminated(r) PROVE ClusterShape' /\ DirectoryShape' /\ MasterPart'
  <2>1. master' \in Master /\ master'.children \subseteq master.children
    BY <1>9 DEF ChildTerminated, MasterPart, MasterShape, Master
  <2>2. MasterPart'
    BY <1>9, <2>1 DEF ChildTerminated, MasterPart, MasterShape, OneChildPerAddress, NodeActorsShape
  <2>3. UNCHANGED <<cluster, past>> /\ UNCHANGED dirVars
    BY <1>9 DEF ChildTerminated
  <2> QED
    BY <1>2, <1>4, <2>2, <2>3
<1>10. CASE UNCHANGED vars
  <2>1. UNCHANGED <<cluster, past>> /\ UNCHANGED dirVars /\ UNCHANGED <<master, mail, nodeActor>>
    BY <1>10 DEF vars, masterVars
  <2> QED
    BY <1>2, <1>3, <1>4, <2>1
<1> QED
  BY <1>1, <1>5, <1>6, <1>7, <1>8, <1>9, <1>10 DEF Next

-----------------------------------------------------------------------------
(* The directory is right *)

\* The three statements about the directory, for one node.
Known(n) ==
  /\ IsExecutor(n) /\ member[n].status # "exiting" => WillList(n)
  /\ WillList(n) => IsExecutor(n) \/ n \in past.silent
  /\ member[n].status = "exiting" => ~WillList(n)

(* A step that leaves the directory and its mail alone, and what the        *)
(* cluster knows of n but for its status, which does not start or end.      *)
LEMMA KnownSame ==
  ASSUME NEW n \in Nodes, Known(n), WillList(n)' <=> WillList(n),
         member'[n].roles = member[n].roles,
         member'[n].status = "none" <=> member[n].status = "none",
         member'[n].status = "exiting" <=> member[n].status = "exiting",
         past'.silent = past.silent
  PROVE  Known(n)'
  BY DEF Known, IsExecutor

(* Every step of the cluster keeps the directory right about node x. *)
LEMMA ClusterKnown ==
  ASSUME ClusterShape, DirectoryShape, NEW x \in Nodes, Known(x), NEW n \in Nodes,
         \/ ClientStart(n) \/ Join(n) \/ MemberUp(n) \/ ClientStop(n) \/ ClientCrash(n)
         \/ MemberExited(n) \/ MemberRemoved(n)
  PROVE  Known(x)'
<1>1. member \in [Nodes -> Member] /\ past \in Past /\ dirMail \in Seq(Events)
  BY DEF ClusterShape, MembersShape, DirectoryShape
<1>2. CASE ClientStart(n) \/ MemberUp(n) \/ ClientStop(n) \/ ClientCrash(n)
  <2>1. UNCHANGED dirVars /\ past' = past
    BY <1>2 DEF ClientStart, MemberUp, ClientStop, ClientCrash
  <2>2. /\ member'[x].roles = member[x].roles
        /\ member'[x].status = "none" <=> member[x].status = "none"
        /\ member'[x].status = "exiting" <=> member[x].status = "exiting"
    <3>1. CASE UNCHANGED member
      BY <3>1
    <3>2. CASE MemberUp(n)
      BY <1>1, <3>2 DEF MemberUp, Member
    <3>3. CASE member' = [member EXCEPT ![n].status = IF @ \in {"joining", "up"} THEN "leaving" ELSE @]
      BY <1>1, <3>3 DEF Member
    <3> QED
      BY <1>2, <3>1, <3>2, <3>3 DEF ClientStart, ClientStop, ClientCrash
  <2> QED
    BY <2>1, <2>2, WillListSame, KnownSame
<1>3. CASE Join(n)
  <2> DEFINE c == client[n]
             e == Event("MemberJoined", n, c.life, c.roles)
  <2>1. c.life \in 1 .. MaxLives /\ c.roles \in RoleSets
    BY <1>3 DEF Join, ClusterShape, ClientsShape
  <2>2. e \in Events /\ e.m = "MemberJoined" /\ e.node = n /\ e.roles = c.roles
    BY <2>1, EventType
  <2>3. dirMail' = Append(dirMail, e) /\ directory' = directory
    BY <1>3 DEF Join, Publish
  <2>4. past'.silent = past.silent
    BY <1>1, <1>3 DEF Join, Past
  <2>5. member' = [member EXCEPT ![n] = [status |-> "joining", life |-> c.life, roles |-> c.roles]]
    BY <1>3 DEF Join
  <2>6. member[n].status = "none"
    BY <1>3 DEF Join
  <2>7. WillList(x)' <=> IF Concerns(x, e) THEN e.m = "MemberJoined" ELSE WillList(x)
    <3> HIDE DEF e
    <3> QED
      BY <1>1, <2>2, <2>3, WillListAppended
  <2> HIDE DEF c, e
  <2>8. CASE x = n
    <3>1. member'[x].status = "joining" /\ member'[x].roles = c.roles
      BY <1>1, <2>5, <2>8
    <3>2. Concerns(x, e) <=> "executor" \in c.roles
      BY <2>2, <2>8 DEF Concerns
    <3>3. WillList(x)' <=> "executor" \in c.roles \/ WillList(x)
      BY <2>2, <2>7, <3>2
    <3>4. WillList(x) => x \in past.silent
      BY <2>6, <2>8 DEF Known, IsExecutor
    <3> QED
      BY <2>4, <3>1, <3>3, <3>4 DEF Known, IsExecutor
  <2>9. CASE x # n
    <3>1. member'[x] = member[x]
      BY <1>1, <2>5, <2>9
    <3>2. WillList(x)' <=> WillList(x)
      BY <2>2, <2>7, <2>9 DEF Concerns
    <3> QED
      BY <2>4, <3>1, <3>2, KnownSame
  <2> QED
    BY <2>8, <2>9
<1>4. CASE MemberExited(n)
  <2> DEFINE e == Event("MemberExited", n, member[n].life, member[n].roles)
  <2>1. member[n].life \in 1 .. MaxLives /\ member[n].roles \in RoleSets
    BY <1>4 DEF MemberExited, ClusterShape, MembersShape
  <2>2. e \in Events /\ e.m = "MemberExited" /\ e.node = n
    BY <2>1, EventType
  <2>3. dirMail' = Append(dirMail, e) /\ directory' = directory /\ past' = past
    BY <1>4 DEF MemberExited, Publish
  <2>4. WillList(x)' <=> IF Concerns(x, e) THEN e.m = "MemberJoined" ELSE WillList(x)
    <3> HIDE DEF e
    <3> QED
      BY <1>1, <2>2, <2>3, WillListAppended
  <2> HIDE DEF e
  <2>5. CASE x = n
    <3>1. ~WillList(x)'
      BY <2>2, <2>4, <2>5 DEF Concerns
    <3>2. member'[x].status = "exiting"
      BY <1>1, <1>4, <2>5 DEF MemberExited, Member
    <3> QED
      BY <3>1, <3>2 DEF Known
  <2>6. CASE x # n
    <3>1. member'[x] = member[x]
      BY <1>1, <1>4, <2>6 DEF MemberExited
    <3>2. WillList(x)' <=> WillList(x)
      BY <2>2, <2>4, <2>6 DEF Concerns
    <3> QED
      BY <2>3, <3>1, <3>2, KnownSame
  <2> QED
    BY <2>5, <2>6
<1>5. CASE MemberRemoved(n)
  <2>1. WillList(x)' <=> WillList(x)
    BY <1>5, WillListSame DEF MemberRemoved
  <2>2. past'.silent = IF member[n].status = "exiting" THEN past.silent \ {n} ELSE past.silent \cup {n}
    BY <1>1, <1>5 DEF MemberRemoved, Past
  <2>3. CASE x = n
    <3>1. member'[x].status = "none"
      BY <1>1, <1>5, <2>3 DEF MemberRemoved, Member
    <3> QED
      BY <2>1, <2>2, <2>3, <3>1 DEF Known, IsExecutor
  <2>4. CASE x # n
    <3>1. member'[x] = member[x]
      BY <1>1, <1>5, <2>4 DEF MemberRemoved
    <3> QED
      BY <2>1, <2>2, <2>4, <3>1 DEF Known, IsExecutor
  <2> QED
    BY <2>3, <2>4
<1> QED
  BY <1>2, <1>3, <1>4, <1>5

LEMMA KnownKept ==
  ASSUME ClusterShape, DirectoryShape, NEW x \in Nodes, Known(x), [Next]_vars
  PROVE  Known(x)'
<1>1. ASSUME UNCHANGED <<member, dirVars>>, past'.silent = past.silent PROVE Known(x)'
  BY <1>1, WillListSame, KnownSame
<1>2. CASE DirectoryMemberJoined \/ DirectoryMemberExited
  <2>1. dirMail \in Seq(Events) /\ dirMail # <<>>
    BY <1>2 DEF DirectoryShape, DirectoryMemberJoined, DirectoryMemberExited
  <2>2. UNCHANGED <<member, past>>
    BY <1>2 DEF DirectoryMemberJoined, DirectoryMemberExited, cluster
  <2> QED
    BY <1>2, <2>1, <2>2, WillListHandled, KnownSame
<1>3. CASE MasterStep
  <2>1. UNCHANGED <<member, dirVars>> /\ past' = past
    BY <1>3 DEF MasterStep, HandlerInit, SubscriptionStarts, Answer, HandlerSet, HandlerNotReady,
                HandlerMemberJoined, HandlerIncludeNode, MasterRestarted, cluster
  <2> QED
    BY <1>1, <2>1
<1>4. CASE MainIncludesNode
  <2>1. UNCHANGED <<member, dirVars>> /\ past'.silent = past.silent
    BY <1>4 DEF MainIncludesNode, cluster, ClusterShape, Past
  <2> QED
    BY <1>1, <2>1
<1>5. ASSUME NEW r \in Refs, ChildStops(r) \/ ChildTerminated(r) PROVE Known(x)'
  <2>1. UNCHANGED <<member, dirVars>> /\ past' = past
    BY <1>5 DEF ChildStops, ChildTerminated, cluster
  <2> QED
    BY <1>1, <2>1
<1>6. CASE UNCHANGED vars
  <2>1. UNCHANGED <<member, dirVars>> /\ past' = past
    BY <1>6 DEF vars, cluster
  <2> QED
    BY <1>1, <2>1
<1> QED
  BY <1>2, <1>3, <1>4, <1>5, <1>6, ClusterKnown DEF Next

-----------------------------------------------------------------------------
(* The invariant and what it implies *)

LEMMA InvParts ==
  MembershipInv <=> ClusterShape /\ DirectoryShape /\ MasterPart /\ \A n \in Nodes : Known(n)
  BY Zenon DEF MembershipInv, ClusterShape, MasterPart, Known, ExecutorIsKnown, StaleOnlyIfSilent,
               ExitingIsDelisted

LEMMA MembershipInvInit == Init => MembershipInv
<1> SUFFICES ASSUME Init PROVE MembershipInv
  OBVIOUS
<1>1. MaxLives \in Nat /\ 0 \in Generations
  BY MembershipAssumption DEF Generations
<1>2. ClusterShape
  BY <1>1 DEF Init, ClusterShape, ClientsShape, MembersShape, Client, Member, Statuses, Roles, Past
<1>3. DirectoryShape
  BY DEF Init, DirectoryShape
<1>4. MasterPart
  <2>1. mail \in Seq(MasterMessages)
    BY DEF Init, MasterMessages
  <2> QED
    BY <1>1, <2>1, NewMasterType DEF Init, MasterPart, MasterShape, OneChildPerAddress, NodeActorsShape
<1>5. ASSUME NEW n \in Nodes PROVE Known(n)
  <2>1. ~WillList(n)
    BY MembershipAssumption DEF Init, WillList
  <2> QED
    BY <2>1 DEF Init, Known, IsExecutor
<1> QED
  BY <1>2, <1>3, <1>4, <1>5, InvParts

LEMMA MembershipInvStep == MembershipInv /\ [Next]_vars => MembershipInv'
<1> SUFFICES ASSUME MembershipInv, [Next]_vars PROVE MembershipInv'
  OBVIOUS
<1>1. ClusterShape /\ DirectoryShape /\ MasterPart /\ \A n \in Nodes : Known(n)
  BY InvParts
<1>2. ClusterShape' /\ DirectoryShape' /\ MasterPart'
  BY <1>1, TypesKept
<1>3. \A n \in Nodes : Known(n)'
  BY <1>1, KnownKept
<1> QED
  BY <1>2, <1>3, Zenon DEF MembershipInv, ClusterShape, MasterPart, Known, ExecutorIsKnown,
                           StaleOnlyIfSilent, ExitingIsDelisted

LEMMA InvTypes == MembershipInv => TypeOK
  BY DEF MembershipInv, ClientsShape, MembersShape, DirectoryShape, MasterShape, OneChildPerAddress,
         NodeActorsShape, TypeOK, Client, Member, Master, Statuses, Roles, Questions

(* The clients, the cluster's members, the directory and the NodeMasterActor *)
(* have their types; in particular the NodeMasterActor never has two         *)
(* children of one name, however often clients are started again.            *)
THEOREM TypeCorrect == Spec => []TypeOK
  BY MembershipInvInit, MembershipInvStep, InvTypes, PTL DEF Spec

(* ExecutorDirectoryServiceActor: whatever the order of joins, exits and     *)
(* crashes of any number of clients, a member with the role executor is in   *)
(* the directory or will be once the mail of the directory is handled.       *)
THEOREM ExecutorsAreKnown == Spec => []ExecutorIsKnown
<1>1. MembershipInv => ExecutorIsKnown
  BY DEF MembershipInv
<1> QED
  BY <1>1, MembershipInvInit, MembershipInvStep, PTL DEF Spec

(* ExecutorDirectoryServiceActor: an address that is no executor is listed   *)
(* only after a life of it was removed without MemberExited.                 *)
THEOREM StaleAreSilent == Spec => []StaleOnlyIfSilent
<1>1. MembershipInv => StaleOnlyIfSilent
  BY DEF MembershipInv
<1> QED
  BY <1>1, MembershipInvInit, MembershipInvStep, PTL DEF Spec
=============================================================================
