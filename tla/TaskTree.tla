------------------------------ MODULE TaskTree ------------------------------
(***************************************************************************)
(* The task-dependency tree: the InstanceActor, one DistributorActor per   *)
(* run, the GroupActors / SingleInstanceActors (SubWorkerActor) below it   *)
(* and the TaskActors at its leaves; how AddTask builds it, how GetTask    *)
(* walks down it, how a failure abandons a part of it and how it folds up. *)
(*                                                                         *)
(* An actor of the tree is named by its run and its path; the Distributor  *)
(* has the empty path.  Every actor has one FIFO mailbox, and what is sent *)
(* to an actor that is stopping is lost.  What a TaskActor does between    *)
(* GetTask and its result is the subject of TaskExecution; here it is      *)
(* taken, perhaps reset, and ends.                                         *)
(***************************************************************************)
EXTENDS Naturals, Sequences, SequencesExt

CONSTANTS
  Tasks,        \* the tasks of all runs
  RunOf,        \* the instanceId of a task; ids are ordered
  Path,         \* the members of its dependency path (annotation.members)
  Single,       \* the tasks with singleInstance set
  VersionOf,    \* the version of a run
  MaxPolls,     \* bounds the GetTask messages in flight
  Undisturbed   \* no VM asks for a task while a run is being uploaded

Runs == {RunOf[t] : t \in Tasks}

Versions == {VersionOf[r] : r \in Runs}

\* What paths are made of
Members == UNION {Range(Path[t]) : t \in Tasks}

\* The code takes an empty path (members() default {}) and fails on it; every
\* task here has a path.
ASSUME TreeAssumption ==
  /\ \A t \in Tasks : RunOf[t] \in Nat /\ Path[t] \in Seq(Members) \ {<<>>}
  /\ Single \subseteq Tasks
  /\ MaxPolls \in Nat \ {0} /\ Undisturbed \in BOOLEAN

\* The actors above the TaskActors: a run and a prefix of a path.
Nodes == UNION {{<<RunOf[t], SubSeq(Path[t], 1, k)>> : k \in 0 .. Len(Path[t])} : t \in Tasks}

Distributor(r) == <<r, <<>> >>
Home(t) == <<RunOf[t], Path[t]>>
Above(n) == <<n[1], Front(n[2])>>
Toward(n, t) == <<n[1], SubSeq(Path[t], 1, Len(n[2]) + 1)>>
IsDistributor(n) == n[2] = <<>>

VARIABLES
  inst,    \* the InstanceActor: its mailbox and the list instances
  node,    \* the DistributorActors and SubWorkerActors
  tsk,     \* the TaskActors
  end      \* the end state in the database

vars == <<inst, node, tsk, end>>

AddTask(t) == [kind |-> "AddTask", task |-> t]
GetTask == [kind |-> "GetTask"]
GetTaskOf(ver) == [kind |-> "GetTask", version |-> ver]
PersistAndSuicide == [kind |-> "PersistAndSuicide"]
Terminated(ref) == [kind |-> "Terminated", ref |-> ref]
TaskTerminated == [kind |-> "Terminated"]

\* An actor that is created again under its old name is another reference.
Refs == Nodes \X Nat

\* What the receive of an InstanceActor, a DistributorActor and a SubWorkerActor
\* has a case for.
TerminatedOf == [kind : {"Terminated"}, ref : Refs]
InstMessage == {AddTask(t) : t \in Tasks} \cup {GetTaskOf(ver) : ver \in Versions} \cup TerminatedOf
DistMessage == {AddTask(t) : t \in Tasks} \cup {GetTask} \cup TerminatedOf
SubMessage == DistMessage \cup {PersistAndSuicide, TaskTerminated}

(* One type invariant: no actor is sent a message its receive would only    *)
(* warn about (a Distributor, which is the parent of groups, no             *)
(* PersistAndSuicide and no end of a TaskActor), the references in the lists*)
(* are references to actors of the tree, and every TaskActor is in a state  *)
(* the code gives it.                                                       *)
TypeOK ==
  /\ inst.mail \in Seq(InstMessage) /\ inst.instances \subseteq Refs
  /\ \A n \in Nodes : node[n].mail \in Seq(IF IsDistributor(n) THEN DistMessage ELSE SubMessage)
  /\ \A n \in Nodes : /\ node[n].state \in {"none", "up", "stopping"}
                      /\ node[n].tasks \subseteq Tasks
                      /\ node[n].singles \cup node[n].groups \subseteq Refs
  /\ tsk \in [Tasks -> [state : {"new", "sent", "lost", "up", "taken", "success", "failure",
                                 "stopping", "gone"},
                        offered : BOOLEAN, suicide : BOOLEAN]]
  /\ end \in [Tasks -> {"NONE", "SUCCESS", "FAILURE", "ABANDONED"}]

Absent == [state |-> "none", mail |-> <<>>, tasks |-> {}, singles |-> {}, groups |-> {}, born |-> 0]

Init ==
  /\ inst = [mail |-> <<>>, instances |-> {}]
  /\ node = [n \in Nodes |-> Absent]
  /\ tsk = [t \in Tasks |-> [state |-> "new", offered |-> FALSE, suicide |-> FALSE]]
  /\ end = [t \in Tasks |-> "NONE"]

-----------------------------------------------------------------------------
(* Helpers *)

Ref(n) == <<n, node[n].born>>

\* context.children of n
SubNodes(n) == {c \in Nodes : ~IsDistributor(c) /\ Above(c) = n /\ node[c].state # "none"}
TaskChildren(n) ==
  {t \in Tasks : Home(t) = n /\ tsk[t].state \in {"up", "taken", "success", "failure", "stopping"}}
NoChildren(n) == SubNodes(n) = {} /\ TaskChildren(n) = {}

Receives(n, kind) ==
  node[n].state = "up" /\ node[n].mail # <<>> /\ Head(node[n].mail).kind = kind

Handled(n) == [node EXCEPT ![n].mail = Tail(@)]

\* nd after m is sent to the actors in to.
Post(nd, to, m) ==
  [n \in Nodes |-> IF n \in to /\ nd[n].state = "up"
                   THEN [nd[n] EXCEPT !.mail = Append(@, m)] ELSE nd[n]]

\* context.actorOf
Created(nd, n, m) ==
  [nd EXCEPT ![n] = [Absent EXCEPT !.state = "up", !.mail = <<m>>, !.born = nd[n].born + 1]]

\* context.stop(self): what is left in the mailbox is lost.
Stop(nd, n) == [nd EXCEPT ![n].state = "stopping", ![n].mail = <<>>]
LostWith(nd, n) == {t \in Tasks : \E i \in DOMAIN nd[n].mail : nd[n].mail[i] = AddTask(t)}
Lose(lost) == [t \in Tasks |-> IF t \in lost THEN [tsk[t] EXCEPT !.state = "lost"] ELSE tsk[t]]

\* GetTask for the TaskActors in ts, PersistAndSuicide for the TaskActors in ts.
\* An actor that has failed, or has PersistAndSuicide in its mailbox, never comes
\* to handle it.
Handles(t) == tsk[t].state \in {"up", "taken"} /\ ~tsk[t].suicide
Offered(ts) ==
  [t \in Tasks |-> IF t \in ts /\ Handles(t) THEN [tsk[t] EXCEPT !.offered = TRUE] ELSE tsk[t]]
Advised(ts) ==
  [t \in Tasks |-> IF t \in ts /\ Handles(t) THEN [tsk[t] EXCEPT !.suicide = TRUE] ELSE tsk[t]]

PollsInFlight ==
  LET gets(mail) == Len(SelectSeq(mail, LAMBDA m : m.kind = "GetTask"))
  IN gets(inst.mail) + FoldFunctionOnSet(+, 0, [n \in Nodes |-> gets(node[n].mail)], Nodes)

-----------------------------------------------------------------------------
(* The clients: the upload and the VMs *)

\* One pass of the upload loop.
Upload(t) ==
  /\ tsk[t].state = "new"
  /\ tsk' = [tsk EXCEPT ![t].state = "sent"]
  /\ inst' = [inst EXCEPT !.mail = Append(@, AddTask(t))]
  /\ UNCHANGED <<node, end>>

\* The GetTask timers of the VMs with version ver.
Poll(ver) ==
  /\ Undisturbed => \A t, u \in Tasks :
       RunOf[t] = RunOf[u] => (tsk[t].state = "new") = (tsk[u].state = "new")
  /\ PollsInFlight < MaxPolls
  /\ inst' = [inst EXCEPT !.mail = Append(@, GetTaskOf(ver))]
  /\ UNCHANGED <<node, tsk, end>>

-----------------------------------------------------------------------------
(* InstanceActor *)

InstReceives(kind) == inst.mail # <<>> /\ Head(inst.mail).kind = kind

\* handleAddTask
InstAddTask ==
  /\ InstReceives("AddTask")
  /\ LET t == Head(inst.mail).task
         d == Distributor(RunOf[t])
         new == node[d].state = "none"
     IN /\ node' = IF new THEN Created(node, d, AddTask(t)) ELSE Post(node, {d}, AddTask(t))
        /\ inst' = [mail |-> Tail(inst.mail),
                    instances |-> inst.instances \cup
                                    IF new THEN {<<d, node[d].born + 1>>} ELSE {}]
        /\ tsk' = Lose(IF node[d].state = "stopping" THEN {t} ELSE {})
  /\ UNCHANGED end

Matching(ver) == {ref \in inst.instances : VersionOf[ref[1][1]] = ver}

\* handleGetTask: the run with the smallest id, the newest entry of that run
InstGetTask ==
  /\ InstReceives("GetTask")
  /\ LET refs == Matching(Head(inst.mail).version)
         first == {ref \in refs : \A other \in refs : \/ ref[1][1] < other[1][1]
                                                      \/ /\ ref[1] = other[1]
                                                         /\ ref[2] >= other[2]}
     IN /\ refs # {}
        /\ node' = Post(node, {ref[1] : ref \in {r \in first : r = Ref(r[1])}}, GetTask)
  /\ inst' = [inst EXCEPT !.mail = Tail(@)]
  /\ UNCHANGED <<tsk, end>>

\* handleGetTask answers NoMoreTasks, upon which the VM shuts itself down.
NoMoreTasks(ver) ==
  /\ inst.mail # <<>> /\ Head(inst.mail) = GetTaskOf(ver)
  /\ Matching(ver) = {}
  /\ inst' = [inst EXCEPT !.mail = Tail(@)]
  /\ UNCHANGED <<node, tsk, end>>

\* Mutant: all runs of the version are forgotten.
InstTerminatedByVersion ==
  /\ InstReceives("Terminated")
  /\ inst' = [mail |-> Tail(inst.mail),
              instances |-> inst.instances \ Matching(VersionOf[Head(inst.mail).ref[1][1]])]
  /\ UNCHANGED <<node, tsk, end>>

\* handleRunComplete
InstTerminated ==
  /\ InstReceives("Terminated")
  /\ inst' = [mail |-> Tail(inst.mail), instances |-> inst.instances \ {Head(inst.mail).ref}]
  /\ UNCHANGED <<node, tsk, end>>

-----------------------------------------------------------------------------
(* DistributorActor *)

\* addTask of the Distributor: the first task decides the kind of the group.
DistAddTask(d) ==
  /\ IsDistributor(d) /\ Receives(d, "AddTask")
  /\ LET t == Head(node[d].mail).task
         c == Toward(d, t)
         ref == <<c, node[c].born + 1>>
     IN /\ node' = IF node[c].state # "none" THEN Post(Handled(d), {c}, AddTask(t))
                   ELSE [Created(Handled(d), c, AddTask(t)) EXCEPT
                           ![d].singles = @ \cup IF t \in Single THEN {ref} ELSE {},
                           ![d].groups = @ \cup IF t \in Single THEN {} ELSE {ref}]
        /\ tsk' = Lose(IF node[c].state = "stopping" THEN {t} ELSE {})
  /\ UNCHANGED <<inst, end>>

\* getTask with the default of singleInstance, which is false.
DistGetTask(d) ==
  /\ IsDistributor(d) /\ Receives(d, "GetTask")
  /\ IF NoChildren(d)
     THEN /\ node' = Stop(Handled(d), d)
          /\ tsk' = Lose(LostWith(node, d))
     ELSE /\ node' = Post(Handled(d),
                          IF node[d].groups # {}
                          THEN {ref[1] : ref \in {r \in node[d].groups : r = Ref(r[1])}}
                          ELSE SubNodes(d),
                          GetTask)
          /\ UNCHANGED tsk
  /\ UNCHANGED <<inst, end>>

\* Mutant: the list of groups is looked at, not the children.
DistTerminatedListEmpty(d) ==
  /\ IsDistributor(d) /\ Receives(d, "Terminated")
  /\ LET left == node[d].groups \ {Head(node[d].mail).ref}
     IN node' = IF left = {} THEN Stop(Handled(d), d) ELSE [Handled(d) EXCEPT ![d].groups = left]
  /\ UNCHANGED <<inst, tsk, end>>

\* handleTermianted
DistTerminated(d) ==
  /\ IsDistributor(d) /\ Receives(d, "Terminated")
  /\ LET ref == Head(node[d].mail).ref
     IN IF NoChildren(d)
        THEN /\ node' = Stop(Handled(d), d)
             /\ tsk' = Lose(LostWith(node, d))
        ELSE /\ node' = [Handled(d) EXCEPT ![d].singles = @ \ {ref}, ![d].groups = @ \ {ref}]
             /\ UNCHANGED tsk
  /\ UNCHANGED <<inst, end>>

-----------------------------------------------------------------------------
(* SubWorkerActor *)

\* addTask: on to the next level, or a TaskActor of its own
SubAddTask(n) ==
  /\ ~IsDistributor(n) /\ Receives(n, "AddTask")
  /\ LET t == Head(node[n].mail).task
         c == Toward(n, t)
     IN IF Home(t) = n
        THEN /\ node' = [Handled(n) EXCEPT ![n].tasks = @ \cup {t}]
             /\ tsk' = [tsk EXCEPT ![t].state = "up"]
        ELSE /\ node' = IF node[c].state = "none" THEN Created(Handled(n), c, AddTask(t))
                        ELSE Post(Handled(n), {c}, AddTask(t))
             /\ tsk' = Lose(IF node[c].state = "stopping" THEN {t} ELSE {})
  /\ UNCHANGED <<inst, end>>

\* Mutant: always to all children.
SubGetTaskToAll(n) ==
  /\ ~IsDistributor(n) /\ Receives(n, "GetTask")
  /\ node' = IF NoChildren(n) THEN Stop(Handled(n), n) ELSE Post(Handled(n), SubNodes(n), GetTask)
  /\ tsk' = Offered(TaskChildren(n))
  /\ UNCHANGED <<inst, end>>

\* Mutant: only to the TaskActors, as if every group were the lowest level.
SubGetTaskNoForward(n) ==
  /\ ~IsDistributor(n) /\ Receives(n, "GetTask")
  /\ node' = IF NoChildren(n) THEN Stop(Handled(n), n) ELSE Handled(n)
  /\ tsk' = IF NoChildren(n) THEN Lose(LostWith(node, n)) ELSE Offered(TaskChildren(n))
  /\ UNCHANGED <<inst, end>>

\* getTask: to the TaskActors in the list, or else to all children; check_suicide
SubGetTask(n) ==
  /\ ~IsDistributor(n) /\ Receives(n, "GetTask")
  /\ IF NoChildren(n)
     THEN /\ node' = Stop(Handled(n), n)
          /\ tsk' = Lose(LostWith(node, n))
     ELSE IF node[n].tasks # {}
     THEN /\ node' = Handled(n)
          /\ tsk' = Offered(node[n].tasks)
     ELSE /\ node' = Post(Handled(n), SubNodes(n), GetTask)
          /\ tsk' = Offered(TaskChildren(n))
  /\ UNCHANGED <<inst, end>>

\* check_suicide on Terminated
SubTerminated(n) ==
  /\ ~IsDistributor(n) /\ Receives(n, "Terminated")
  /\ node' = IF NoChildren(n) THEN Stop(Handled(n), n) ELSE Handled(n)
  /\ tsk' = Lose(IF NoChildren(n) THEN LostWith(node, n) ELSE {})
  /\ UNCHANGED <<inst, end>>

\* The list is emptied, the message passed on to all children.
SubPersistAndSuicide(n) ==
  /\ ~IsDistributor(n) /\ Receives(n, "PersistAndSuicide")
  /\ node' = Post([Handled(n) EXCEPT ![n].tasks = {}], SubNodes(n), PersistAndSuicide)
  /\ tsk' = Advised(TaskChildren(n))
  /\ UNCHANGED <<inst, end>>

\* Mutant: Resume instead of Stop.
HandleSuccessResume(t) ==
  /\ tsk[t].state = "success"
  /\ end' = [end EXCEPT ![t] = "SUCCESS"]
  /\ tsk' = [tsk EXCEPT ![t].state = "up"]
  /\ UNCHANGED <<inst, node>>

\* The strategy of the group: a task has succeeded.
HandleSuccess(t) ==
  /\ tsk[t].state = "success"
  /\ end' = [end EXCEPT ![t] = "SUCCESS"]
  /\ node' = [node EXCEPT ![Home(t)].tasks = @ \ {t}]
  /\ tsk' = [tsk EXCEPT ![t].state = "stopping"]
  /\ UNCHANGED inst

\* Mutant: all groups of the run are to give up.
HandleFailureWholeRun(t) ==
  /\ tsk[t].state = "failure"
  /\ end' = [end EXCEPT ![t] = "FAILURE"]
  /\ node' = [Post(node, SubNodes(Distributor(RunOf[t])), PersistAndSuicide)
                EXCEPT ![Home(t)].tasks = @ \ {t}]
  /\ tsk' = [Advised(TaskChildren(Home(t))) EXCEPT ![t].state = "stopping"]
  /\ UNCHANGED inst

\* Mutant: the TaskActors are told, the groups of the next level are not.
HandleFailureSameLevel(t) ==
  /\ tsk[t].state = "failure"
  /\ end' = [end EXCEPT ![t] = "FAILURE"]
  /\ node' = [node EXCEPT ![Home(t)].tasks = @ \ {t}]
  /\ tsk' = [Advised(TaskChildren(Home(t))) EXCEPT ![t].state = "stopping"]
  /\ UNCHANGED inst

\* The strategy of the group: a task has failed, all children are to give up.
HandleFailure(t) ==
  /\ tsk[t].state = "failure"
  /\ end' = [end EXCEPT ![t] = "FAILURE"]
  /\ node' = [Post(node, SubNodes(Home(t)), PersistAndSuicide)
                EXCEPT ![Home(t)].tasks = @ \ {t}]
  /\ tsk' = [Advised(TaskChildren(Home(t))) EXCEPT ![t].state = "stopping"]
  /\ UNCHANGED inst

\* A group or Distributor has terminated: its parent sees it go.
Gone(n) ==
  /\ node[n].state = "stopping"
  /\ LET left == [node EXCEPT ![n] = [Absent EXCEPT !.born = node[n].born]]
     IN IF IsDistributor(n)
        THEN /\ node' = left
             /\ inst' = [inst EXCEPT !.mail = Append(@, Terminated(Ref(n)))]
        ELSE /\ node' = Post(left, {Above(n)}, Terminated(Ref(n)))
             /\ UNCHANGED inst
  /\ UNCHANGED <<tsk, end>>

-----------------------------------------------------------------------------
(* TaskActor, as TaskExecution shows it *)

\* GetTask is handled: a VM accepts the offer, or the task stays as it is.
TaskTake(t) ==
  /\ tsk[t].state = "up" /\ tsk[t].offered
  /\ tsk' = [tsk EXCEPT ![t].state = "taken", ![t].offered = FALSE]
  /\ UNCHANGED <<inst, node, end>>

TaskNotTaken(t) ==
  /\ tsk[t].state \in {"up", "taken"} /\ tsk[t].offered
  /\ tsk' = [tsk EXCEPT ![t].offered = FALSE]
  /\ UNCHANGED <<inst, node, end>>

\* The VM or the executor died.
TaskReset(t) ==
  /\ tsk[t].state = "taken"
  /\ tsk' = [tsk EXCEPT ![t].state = "up"]
  /\ UNCHANGED <<inst, node, end>>

\* The executor has thrown, the TaskActor escalates.
TaskEnds(t) ==
  /\ tsk[t].state = "taken"
  /\ \E o \in {"success", "failure"} : tsk' = [tsk EXCEPT ![t].state = o, ![t].offered = FALSE]
  /\ UNCHANGED <<inst, node, end>>

\* Mutant: the status is written to the column of the end state.
TaskSuicideWrongColumn(t) ==
  /\ tsk[t].state \in {"up", "taken"} /\ tsk[t].suicide /\ ~tsk[t].offered
  /\ end' = [end EXCEPT ![t] = "DONE"]
  /\ tsk' = [tsk EXCEPT ![t].state = "stopping"]
  /\ UNCHANGED <<inst, node>>

\* PersistAndSuicide, after the GetTask messages before it
TaskSuicide(t) ==
  /\ tsk[t].state \in {"up", "taken"} /\ tsk[t].suicide /\ ~tsk[t].offered
  /\ end' = [end EXCEPT ![t] = "ABANDONED"]
  /\ tsk' = [tsk EXCEPT ![t].state = "stopping"]
  /\ UNCHANGED <<inst, node>>

TaskGone(t) ==
  /\ tsk[t].state = "stopping"
  /\ tsk' = [tsk EXCEPT ![t].state = "gone"]
  /\ node' = Post(node, {Home(t)}, TaskTerminated)
  /\ UNCHANGED <<inst, end>>

-----------------------------------------------------------------------------
NodeStep(n) ==
  \/ DistAddTask(n) \/ DistGetTask(n) \/ DistTerminated(n)
  \/ SubAddTask(n) \/ SubGetTask(n) \/ SubTerminated(n) \/ SubPersistAndSuicide(n)
  \/ Gone(n)

InstStep ==
  \/ InstAddTask \/ InstGetTask \/ InstTerminated
  \/ \E ver \in Versions : NoMoreTasks(ver)

TaskStep(t) ==
  \/ TaskTake(t) \/ TaskNotTaken(t) \/ TaskReset(t) \/ TaskEnds(t)
  \/ HandleSuccess(t) \/ HandleFailure(t) \/ TaskSuicide(t) \/ TaskGone(t)

Next ==
  \/ \E t \in Tasks : Upload(t) \/ TaskStep(t)
  \/ \E ver \in Versions : Poll(ver)
  \/ InstStep
  \/ \E n \in Nodes : NodeStep(n)

Spec == Init /\ [][Next]_vars

(***************************************************************************)
(* Fairness: the upload loop ends, the VMs keep asking, the dispatchers    *)
(* run every actor with mail, and a task that is offered again and again   *)
(* is taken and ends (EveryTaskEnds of TaskExecution).  Strong fairness    *)
(* where the bound MaxPolls, or a reset, may disable the step for a while. *)
(***************************************************************************)
Fairness ==
  /\ \A ver \in Versions : SF_vars(Poll(ver))
  /\ WF_vars(InstStep)
  /\ \A n \in Nodes : WF_vars(NodeStep(n))
  /\ \A t \in Tasks :
       /\ WF_vars(Upload(t)) /\ SF_vars(TaskTake(t)) /\ SF_vars(TaskEnds(t))
       /\ WF_vars(HandleSuccess(t) \/ HandleFailure(t) \/ TaskGone(t))
       /\ WF_vars(TaskNotTaken(t)) /\ WF_vars(TaskSuicide(t))

FairSpec == Spec /\ Fairness

-----------------------------------------------------------------------------
(* Properties *)

\* u is on a level above t's in the dependency tree of the same run.
DependsOn(t, u) == RunOf[t] = RunOf[u] /\ IsStrictPrefix(Path[u], Path[t])

(* A task is executed only when every task it depends on has succeeded      *)
(* (SubWorkerActor: GetTask goes to the next level only when the current    *)
(* one is done, and a failure stops the execution on lower levels).         *)
DependenciesSucceeded ==
  \A t, u \in Tasks :
    DependsOn(t, u) /\ tsk[t].state \in {"taken", "success", "failure"} => end[u] = "SUCCESS"

(* Only a failure on the same or a higher level of its own branch makes a   *)
(* task ABANDONED: other branches and other runs go on.                     *)
AbandonedInItsBranch ==
  \A t \in Tasks : end[t] = "ABANDONED" =>
    \E u \in Tasks : /\ end[u] = "FAILURE" /\ RunOf[u] = RunOf[t]
                     /\ IsPrefix(Path[u], Path[t])

(* A Distributor that stops itself has seen all tasks of its run processed  *)
(* (DistributorActor: "all tasks that belong to a specific task run have    *)
(* been processed - in this case the actor kills itsself").                 *)
RunDoneMeansProcessed ==
  \A t \in Tasks : node[Distributor(RunOf[t])].state = "stopping" => end[t] # "NONE"

\* t has not reached the InstanceActor yet.
OnTheWay(t) == tsk[t].state = "new" \/ AddTask(t) \in Range(inst.mail)

(* A VM is sent away only when no task of its version is left: the          *)
(* InstanceActor forgets a run only when all its tasks are processed.       *)
SentAwayOnlyWhenDone ==
  [][\A ver \in Versions : NoMoreTasks(ver) =>
       \A t \in Tasks : VersionOf[RunOf[t]] = ver => end[t] # "NONE" \/ OnTheWay(t)]_vars

\* m is n or an actor below it on the way to t.
OnWay(n, m, t) == m[1] = RunOf[t] /\ IsPrefix(n[2], m[2]) /\ IsPrefix(m[2], Path[t])

(* A failed task takes only itself off the list of its group; those of its  *)
(* level that give up stay in it.  From then on GetTask goes to actors that *)
(* are gone and no further down, so that a task below can only be told to   *)
(* give up, and is: PersistAndSuicide was sent to all children.             *)
StaleListStarvesNobody ==
  \A n \in Nodes : \A u \in node[n].tasks : tsk[u].state \in {"stopping", "gone"} =>
    \A t \in Tasks :
      OnWay(n, n, t) /\ tsk[t].state \in {"sent", "up", "taken"} =>
        \/ tsk[t].suicide
        \/ \E m \in Nodes : OnWay(n, m, t) /\ PersistAndSuicide \in Range(node[m].mail)

(* Every uploaded task is executed or abandoned, also behind another level, *)
(* behind another run and behind the groups of its own run.                 *)
EveryTaskProcessed == <>(\A t \in Tasks : end[t] # "NONE")

\* The results of all tasks; here a task that is lost stays open.
resultOf == [t \in Tasks |-> IF end[t] = "NONE" THEN "OPEN" ELSE end[t]]

Contract == INSTANCE TaskResults WITH result <- resultOf

(* The tree gives every task one result, and abandons only after a failure. *)
ImplementsTaskResults == Contract!Spec
=============================================================================
