----------------------------- MODULE Membership -----------------------------
(***************************************************************************)
(* The clients of the cluster come and go, and two actors of the master    *)
(* follow them: ExecutorDirectoryServiceActor lists the nodes executors    *)
(* may be created on, and NodeMasterActor creates a NodeActor on every     *)
(* node with the role vm.                                                  *)
(*                                                                         *)
(* A client that is started again has the address of its former life, but  *)
(* its actors are new: <<n, l, g>> names the NodeActor that the            *)
(* NodeMasterActor, after g restarts, created on the l-th life of n.  What *)
(* Akka itself does (membership events, death watch, restart of an actor)  *)
(* is marked external.                                                     *)
(***************************************************************************)
EXTENDS Naturals, Sequences, FiniteSets, SequencesExt

CONSTANTS
  Nodes,       \* the addresses of the clients
  RoleSets,    \* the roles a client may be started with
  Central,     \* the address of the master
  MaxLives,    \* bound: how often a client is started
  MaxRestarts, \* bound: how often the NodeMasterActor is restarted
  Faults       \* "early", "silent", "slowDeathWatch"

ASSUME MembershipAssumption ==
  /\ RoleSets \subseteq SUBSET {"vm", "executor"}
  /\ Central \notin Nodes /\ IsFiniteSet(Nodes)
  /\ MaxLives \in Nat \ {0} /\ MaxRestarts \in Nat
  /\ Faults \subseteq {"early", "silent", "slowDeathWatch"}

Generations == 0 .. MaxRestarts
ClientRefs == Nodes \X (1 .. MaxLives) \X Generations
Refs == ClientRefs \cup {<<Central, 1, g>> : g \in Generations}

VARIABLES
  client,      \* the process of every client: its life, and whether it is up
  member,      \* what the cluster extension of the master knows of it
  directory,   \* directory of the ExecutorDirectoryServiceActor
  dirMail,     \* its mailbox
  master,      \* the NodeMasterActor
  mail,        \* its mailbox
  nodeActor,   \* the NodeActors
  past         \* history: what the properties ask about the past

cluster == <<client, member>>
dirVars == <<directory, dirMail>>
masterVars == <<master, mail>>
vars == <<cluster, dirVars, masterVars, nodeActor, past>>

\* A membership event carries the member as it was then.
Event(m, n, life, roles) == [m |-> m, node |-> n, life |-> life, roles |-> roles]
Events == [m : {"MemberJoined", "MemberExited"}, node : Nodes, life : 1 .. MaxLives, roles : RoleSets]
Simple(m) == [m |-> m]
MasterMessages == {Simple("Init"), Simple("SetInstanceActor"), Simple("SetGlobalStatusActor"),
                   Simple("IncludeNode")} \cup {e \in Events : e.m = "MemberJoined"}

(* The mailboxes hold the messages each actor is sent, and its fields what  *)
(* the code assigns to them; the NodeMasterActor has one child per address. *)
(* A NodeActor of a node that went is "stopped" when those who watch it are *)
(* told, "lost" while they are not.                                         *)
TypeOK ==
  /\ client \in [Nodes -> [life : 0 .. MaxLives, up : BOOLEAN, roles : SUBSET {"vm", "executor"}]]
  /\ member \in [Nodes -> [status : {"none", "joining", "up", "leaving", "exiting"},
                           life : 0 .. MaxLives, roles : SUBSET {"vm", "executor"}]]
  /\ directory \subseteq Nodes \cup {Central}
  /\ \A i \in DOMAIN dirMail : dirMail[i] \in Events
  /\ master \in [state : {"up", "restarting"}, ready : BOOLEAN, subscribed : {"no", "asked", "yes"},
                 asked : SUBSET {"SetInstanceActor", "SetGlobalStatusActor"},
                 refs : SUBSET {"SetInstanceActor", "SetGlobalStatusActor"},
                 children : SUBSET Refs, nodeActors : SUBSET Refs, restarts : Generations]
  /\ \A r, q \in master.children : r[1] = q[1] => r = q
  /\ \A i \in DOMAIN mail : mail[i] \in MasterMessages
  /\ nodeActor \in [Refs -> {"none", "up", "stopped", "lost"}]

\* A NodeMasterActor before its first message, after g restarts
NewMaster(g) == [state |-> "up", ready |-> FALSE, subscribed |-> "no", asked |-> {}, refs |-> {},
                 children |-> {}, nodeActors |-> {}, restarts |-> g]

\* The master has created its actors; ClusterMain has yet to include its own node.
Init ==
  /\ client = [n \in Nodes |-> [life |-> 0, up |-> FALSE, roles |-> {}]]
  /\ member = [n \in Nodes |-> [status |-> "none", life |-> 0, roles |-> {}]]
  /\ directory = {Central} /\ dirMail = <<>>
  /\ master = NewMaster(0) /\ mail = <<Simple("Init")>>
  /\ nodeActor = [r \in Refs |-> "none"]
  /\ past = [included |-> FALSE, early |-> {}, silent |-> {}]

-----------------------------------------------------------------------------
(* The cluster *)

IsMember(r) == r[1] \in Nodes /\ member[r[1]].status # "none" /\ member[r[1]].life = r[2]
Alive(r) == r[1] = Central \/ (client[r[1]].up /\ client[r[1]].life = r[2])

\* The NodeMasterActor is told of new members, and can deal with them.
Following == master.ready /\ master.subscribed = "yes"

\* The cluster extension publishes an event to its subscribers.
Publish(e) ==
  /\ dirMail' = Append(dirMail, e)
  /\ mail' = IF master.subscribed = "yes" /\ e.m = "MemberJoined" THEN Append(mail, e) ELSE mail

ClientStart(n) ==
  /\ ~client[n].up /\ client[n].life < MaxLives
  /\ \E roles \in RoleSets :
       client' = [client EXCEPT ![n] = [life |-> @.life + 1, up |-> TRUE, roles |-> roles]]
  /\ UNCHANGED <<member, dirVars, masterVars, nodeActor, past>>

\* A life joins once, when the former one is no member any more.  The death watch
\* has then reported the former life, unless it is slow.
Join(n) ==
  LET c == client[n]
  IN /\ c.up /\ member[n].status = "none" /\ member[n].life # c.life
     /\ "early" \in Faults \/ Following
     /\ \/ "slowDeathWatch" \in Faults
        \/ \A r \in master.children : r[1] = n => r[2] = c.life
     /\ member' = [member EXCEPT ![n] = [status |-> "joining", life |-> c.life, roles |-> c.roles]]
     /\ Publish(Event("MemberJoined", n, c.life, c.roles))
     /\ past' = IF Following THEN past ELSE [past EXCEPT !.early = @ \cup {<<n, c.life>>}]
     /\ UNCHANGED <<client, directory, master, nodeActor>>

MemberUp(n) ==
  /\ member[n].status = "joining"
  /\ member' = [member EXCEPT ![n].status = "up"]
  /\ UNCHANGED <<client, dirVars, masterVars, nodeActor, past>>

\* The client goes, and with it the NodeActor on it; its watchers are told or not.
NodeGoes(n, told) ==
  /\ client' = [client EXCEPT ![n].up = FALSE]
  /\ nodeActor' = [r \in Refs |->
                     IF r[1] = n /\ r[2] = client[n].life /\ nodeActor[r] = "up"
                     THEN IF told THEN "stopped" ELSE "lost"
                     ELSE nodeActor[r]]

\* The user stops the client: leave, and terminate at once, so that the other
\* nodes may never hear of the leave.
ClientStop(n) ==
  /\ client[n].up
  /\ \E told \in BOOLEAN : NodeGoes(n, told)
  /\ \/ member' = [member EXCEPT ![n].status = IF @ \in {"joining", "up"} THEN "leaving" ELSE @]
     \/ "silent" \in Faults /\ UNCHANGED member
  /\ UNCHANGED <<dirVars, masterVars, past>>

ClientCrash(n) ==
  /\ "silent" \in Faults /\ client[n].up
  /\ NodeGoes(n, FALSE)
  /\ UNCHANGED <<member, dirVars, masterVars, past>>

MemberExited(n) ==
  /\ member[n].status = "leaving"
  /\ member' = [member EXCEPT ![n].status = "exiting"]
  /\ Publish(Event("MemberExited", n, member[n].life, member[n].roles))
  /\ UNCHANGED <<client, directory, master, nodeActor, past>>

\* The leader removes a member that has left, or, after
\* auto-down-unreachable-after, one that is unreachable.
MemberRemoved(n) ==
  /\ member[n].status # "none" /\ ~Alive(<<n, member[n].life>>)
  /\ member[n].status = "exiting" \/ "silent" \in Faults
  /\ member' = [member EXCEPT ![n].status = "none"]
  /\ past' = [past EXCEPT !.silent = IF member[n].status = "exiting" THEN @ \ {n} ELSE @ \cup {n}]
  /\ UNCHANGED <<client, dirVars, masterVars, nodeActor>>

-----------------------------------------------------------------------------
(* ExecutorDirectoryServiceActor *)

\* Mutant: the test of the role is turned round.
DirectoryMemberJoinedInverted ==
  /\ dirMail # <<>> /\ Head(dirMail).m = "MemberJoined"
  /\ directory' = IF "executor" \in Head(dirMail).roles THEN directory
                                                       ELSE directory \cup {Head(dirMail).node}
  /\ dirMail' = Tail(dirMail)
  /\ UNCHANGED <<cluster, masterVars, nodeActor, past>>

DirectoryMemberJoined ==
  /\ dirMail # <<>> /\ Head(dirMail).m = "MemberJoined"
  /\ directory' = IF "executor" \in Head(dirMail).roles THEN directory \cup {Head(dirMail).node}
                                                       ELSE directory
  /\ dirMail' = Tail(dirMail)
  /\ UNCHANGED <<cluster, masterVars, nodeActor, past>>

\* Mutant: MemberExited is commented out, like UnreachableMember.
DirectoryMemberExitedIgnored ==
  /\ dirMail # <<>> /\ Head(dirMail).m = "MemberExited"
  /\ dirMail' = Tail(dirMail)
  /\ UNCHANGED <<cluster, directory, masterVars, nodeActor, past>>

DirectoryMemberExited ==
  /\ dirMail # <<>> /\ Head(dirMail).m = "MemberExited"
  /\ directory' = directory \ {Head(dirMail).node}
  /\ dirMail' = Tail(dirMail)
  /\ UNCHANGED <<cluster, masterVars, nodeActor, past>>

-----------------------------------------------------------------------------
(* NodeMasterActor *)

Receives(m) == master.state = "up" /\ mail # <<>> /\ Head(mail).m = m

\* subscribe and the two questions are messages, too, answered later.
HandlerInit ==
  /\ Receives("Init")
  /\ master' = [master EXCEPT !.ready = FALSE, !.nodeActors = {}, !.subscribed = "asked",
                              !.asked = {"SetInstanceActor", "SetGlobalStatusActor"}]
  /\ mail' = Tail(mail)
  /\ UNCHANGED <<cluster, dirVars, nodeActor, past>>

\* InitialStateAsEvents: of the present members, those that are joining are
\* announced as MemberJoined.
SubscriptionStarts ==
  /\ master.subscribed = "asked"
  /\ master' = [master EXCEPT !.subscribed = "yes"]
  /\ mail' = mail \o SetToSeq({Event("MemberJoined", n, member[n].life, member[n].roles) :
                                 n \in {x \in Nodes : member[x].status = "joining"}})
  /\ UNCHANGED <<cluster, dirVars, nodeActor, past>>

\* InstanceActor and GlobalStatusActor answer with themselves.
Answer(m) ==
  /\ m \in master.asked
  /\ master' = [master EXCEPT !.asked = @ \ {m}]
  /\ mail' = Append(mail, Simple(m))
  /\ UNCHANGED <<cluster, dirVars, nodeActor, past>>

HandlerSet(m) ==
  /\ Receives(m)
  /\ LET refs == master.refs \cup {m}
     IN master' = [master EXCEPT !.refs = refs,
                     !.ready = @ \/ refs = {"SetInstanceActor", "SetGlobalStatusActor"}]
  /\ mail' = Tail(mail)
  /\ UNCHANGED <<cluster, dirVars, nodeActor, past>>

\* ClusterMain includes its own node, after the test of the database.
MainIncludesNode ==
  /\ ~past.included /\ ("early" \in Faults \/ Following)
  /\ mail' = Append(mail, Simple("IncludeNode"))
  /\ past' = [past EXCEPT !.included = TRUE]
  /\ UNCHANGED <<cluster, dirVars, master, nodeActor>>

\* Nobody gets the NotReadyJet: these messages have no sender.
HandlerNotReady ==
  /\ Receives("MemberJoined") \/ Receives("IncludeNode")
  /\ ~master.ready
  /\ mail' = Tail(mail)
  /\ UNCHANGED <<cluster, dirVars, master, nodeActor, past>>

\* Mutant: the name of the child holds a random UUID.
IncludeNodeUuid(h, l) ==
  LET r == <<h, IF h \in Nodes /\ client[h].up THEN client[h].life ELSE l, master.restarts>>
  IN /\ master' = [master EXCEPT !.children = @ \cup {r}, !.nodeActors = @ \cup {r}]
     /\ nodeActor' = [nodeActor EXCEPT ![r] = IF Alive(r) THEN "up" ELSE "lost"]

\* handlerIncludeNode: the NodeActor is created on whatever life has the address
\* now.  A child of that name that is still there makes actorOf throw, and the
\* guardian restarts the NodeMasterActor, which stops its children.
IncludeNode(h, l) ==
  LET r == <<h, IF h \in Nodes /\ client[h].up THEN client[h].life ELSE l, master.restarts>>
  IN \/ /\ \A c \in master.children : c[1] # h
        /\ master' = [master EXCEPT !.children = @ \cup {r}, !.nodeActors = @ \cup {r}]
        /\ nodeActor' = [nodeActor EXCEPT ![r] = IF Alive(r) THEN "up" ELSE "lost"]
     \/ /\ \E c \in master.children : c[1] = h
        /\ master' = [master EXCEPT !.state = "restarting", !.subscribed = "no"]
        /\ UNCHANGED nodeActor

\* Mutant: a node that is in nodeActors is not included again.
HandlerMemberJoinedOnce ==
  /\ Receives("MemberJoined") /\ master.ready
  /\ LET new == \A r \in master.nodeActors : r[1] # Head(mail).node
     IN \/ "vm" \in Head(mail).roles /\ new /\ IncludeNode(Head(mail).node, Head(mail).life)
        \/ ("vm" \notin Head(mail).roles \/ ~new) /\ UNCHANGED <<master, nodeActor>>
  /\ mail' = Tail(mail)
  /\ UNCHANGED <<cluster, dirVars, past>>

HandlerMemberJoined ==
  /\ Receives("MemberJoined") /\ master.ready
  /\ \/ "vm" \in Head(mail).roles /\ IncludeNode(Head(mail).node, Head(mail).life)
     \/ "vm" \notin Head(mail).roles /\ UNCHANGED <<master, nodeActor>>
  /\ mail' = Tail(mail)
  /\ UNCHANGED <<cluster, dirVars, past>>

HandlerIncludeNode ==
  /\ Receives("IncludeNode") /\ master.ready
  /\ IncludeNode(Central, 1)
  /\ mail' = Tail(mail)
  /\ UNCHANGED <<cluster, dirVars, past>>

\* The restart stops the children and waits until all of them are gone.
ChildStops(r) ==
  /\ master.state = "restarting" /\ r \in master.children /\ nodeActor[r] = "up"
  /\ nodeActor' = [nodeActor EXCEPT ![r] = "stopped"]
  /\ UNCHANGED <<cluster, dirVars, masterVars, past>>

\* Mutant: only the first instance is sent Init.
MasterRestartedNoInit ==
  /\ master.state = "restarting" /\ master.children = {} /\ master.restarts < MaxRestarts
  /\ master' = NewMaster(master.restarts + 1)
  /\ UNCHANGED <<cluster, dirVars, mail, nodeActor, past>>

\* The new instance sends itself Init; the mailbox is kept.
MasterRestarted ==
  /\ master.state = "restarting" /\ master.children = {} /\ master.restarts < MaxRestarts
  /\ master' = NewMaster(master.restarts + 1)
  /\ mail' = Append(mail, Simple("Init"))
  /\ UNCHANGED <<cluster, dirVars, nodeActor, past>>

\* The watchers of an actor that went learn of it at once, or when the cluster
\* removes its node.
Noticed(r) == nodeActor[r] = "stopped" \/ (nodeActor[r] = "lost" /\ ~IsMember(r))

\* The name of a child is free again.  nodeActors keeps it: NodeMasterActor does
\* not watch its children, and NodeActor sends the companion DeregisterNodeActor.
ChildTerminated(r) ==
  /\ r \in master.children /\ Noticed(r)
  /\ master' = [master EXCEPT !.children = @ \ {r}]
  /\ UNCHANGED <<cluster, dirVars, mail, nodeActor, past>>

-----------------------------------------------------------------------------
MasterStep ==
  \/ HandlerInit \/ SubscriptionStarts
  \/ \E m \in {"SetInstanceActor", "SetGlobalStatusActor"} : Answer(m) \/ HandlerSet(m)
  \/ HandlerNotReady \/ HandlerMemberJoined \/ HandlerIncludeNode \/ MasterRestarted

Next ==
  \/ \E n \in Nodes :
       \/ ClientStart(n) \/ Join(n) \/ MemberUp(n) \/ ClientStop(n) \/ ClientCrash(n)
       \/ MemberExited(n) \/ MemberRemoved(n)
  \/ DirectoryMemberJoined \/ DirectoryMemberExited
  \/ MasterStep \/ MainIncludesNode
  \/ \E r \in Refs :
       ChildStops(r) \/ ChildTerminated(r)

Spec == Init /\ [][Next]_vars

\* Actors handle their mail, Akka delivers what it owes, and the cluster removes
\* nodes that are gone.  Nobody has to start, stop or join.
Fairness ==
  /\ WF_vars(MasterStep)
  /\ WF_vars(DirectoryMemberJoined) /\ WF_vars(DirectoryMemberExited)
  /\ \A n \in Nodes : WF_vars(MemberRemoved(n))
  /\ \A r \in Refs : WF_vars(ChildStops(r)) /\ WF_vars(ChildTerminated(r))

FairSpec == Spec /\ Fairness

-----------------------------------------------------------------------------
(* Properties *)

\* Whether n is in the directory once its mail is handled: decided by the last
\* event that concerns it.
Concerns(n, e) == e.node = n /\ (e.m = "MemberExited" \/ "executor" \in e.roles)
WillList(n) ==
  \/ \E i \in 1 .. Len(dirMail) :
       /\ Concerns(n, dirMail[i]) /\ dirMail[i].m = "MemberJoined"
       /\ \A j \in i + 1 .. Len(dirMail) : ~Concerns(n, dirMail[j])
  \/ n \in directory /\ \A i \in 1 .. Len(dirMail) : ~Concerns(n, dirMail[i])
IsExecutor(n) == member[n].status # "none" /\ "executor" \in member[n].roles

(* ExecutorDirectoryServiceActor: a member with the role executor is in the *)
(* directory, or will be as soon as the directory has handled its mail,     *)
(* although its address may have been removed for a former life.            *)
ExecutorIsKnown ==
  \A n \in Nodes : IsExecutor(n) /\ member[n].status # "exiting" => WillList(n)

(* ExecutorDirectoryServiceActor: it lists an address that is no executor   *)
(* of the cluster only if a former life went without MemberExited.          *)
StaleOnlyIfSilent == \A n \in Nodes : WillList(n) => IsExecutor(n) \/ n \in past.silent

(* NodeMasterActor: a client with the role vm that joins and stays is       *)
(* given a NodeActor, although that of its former life may have been there. *)
(* Excepted are nodes that joined while the NodeMasterActor was not yet     *)
(* subscribed and ready, and a NodeMasterActor that was restarted.          *)
NodeIsUsed ==
  \A x \in Nodes \X (1 .. MaxLives) :
    IsMember(x) /\ Alive(x) /\ "vm" \in member[x[1]].roles
      ~> \/ \E g \in Generations : nodeActor[<<x[1], x[2], g>>] = "up"
         \/ ~Alive(x) \/ x \in past.early \/ master.state = "restarting" \/ master.restarts > 0

(* NodeMasterActor: a restart comes to its end and the new instance gets    *)
(* ready, although children it waits for may be on nodes that crashed.      *)
RestartEnds == master.state = "restarting" ~> master.state = "up" /\ master.ready
=============================================================================
