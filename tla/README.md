# A TLA+ model of the testing cluster

The cluster runs tests against applications in virtual machines. It is an Akka
actor system: a master keeps the tasks, executors run them, VMs host what is
tested and pull work. This directory holds TLA+ modules that model its actors,
TLC configurations that check them on small instances, and TLAPS proofs.
Paths below are relative to the repository; `scala/` stands for
`src/main/scala/de/oth/clustering/scala/`.

## 1. The system

| Component | State | Operations | Hard about it |
|---|---|---|---|
| InstanceActor (`scala/worker/InstanceActor.scala`) | list of runs: id, Distributor, version | AddTask, GetTask, GetDeployInfo, Terminated | serves the run with the smallest id; sends VMs away |
| DistributorActor (`scala/worker`) | lists of groups and of single instances | AddTask, GetTask, Terminated | stops itself when it has no children |
| SubWorkerActor (`scala/worker`) | list of TaskActors, children | AddTask, GetTask, Terminated, PersistAndSuicide, supervision | dependency levels, failure of a level, stopping itself |
| TaskActor (`scala/worker`) | isTaken, taskDone, targetVm, executorActor, watches | GetTask, Terminated, PersistAndSuicide, supervision, callbacks of two asks | callbacks run outside the actor; VM, executor and callbacks fail in any order |
| TaskExecutorActor (`scala/worker`) | none | ExecuteTask; ends by throwing | result, failure or anything else as an exception |
| VMProxyActor (`scala/vm`) | haveSpaceForTasks, timer, config, references, ready | SendTask, Executor, CannotGetExecutor, Terminated, REST requests, StillAlive, NoMoreTasks | timer and space must agree; reservations |
| VMActor, VMActorHelper (`scala/vm`) | config, attributes, provisioned, references, timer | DeployInfo, NoDeployInfo, SystemAttributes, VmTaskResult, NoMoreTasks | vagrant in another thread; order of two answers |
| NodeActor (`scala/vm`) | map of VMs, timer, config, ready | AddVmActor, DeployInfo, NoDeployInfo, SystemAttributes, VmProvisioned, RemoveVmActor | one chain of messages must survive everything |
| NodeMonitorActor (`scala/vm`) | ready, vagrant | GetSystemAttributes | not ready at first |
| NodeMasterActor (`scala/vm`) | nodes, ready | MemberJoined, IncludeNode, Terminated | events before it is ready; names of children used again |
| GlobalStatusActor (`scala/utils`) | monitors, attributes, VM counts | Register*, Deregister*, SystemAttributes | counts kept by messages |
| ExecutorDirectoryServiceActor (`scala/utils`) | addresses of executors | MemberJoined, MemberExited, GetExecutorAddress | addresses are used again; crashed nodes stay |
| DBActor, DBQuery (`scala/utils/db`) | one table per run | create, update, count, report | updates and inserts of different actors; lost connections; failing statements |
| ClusteringApi, ClusterMain | path of the last report | upload; a report in two requests; read-only routes | upload is not atomic; one path for all pages |
| loaders, REST builders, vagrant configuration, telnet, command line | data | | no protocol |

How they interact: an upload sends one AddTask per task to the InstanceActor,
which builds a tree Distributor – groups – TaskActors. A VM's proxy polls with
GetTask; the message walks down the tree to the TaskActors of the first level
that is not done. A TaskActor asks the VM "? SendTask"; a VM with space answers
AcquireExecutor and gives its space away; a callback then creates an executor,
tells the VM of it and starts the test. The executor ends by an exception. The
TaskActor's supervisor strategy drops it, takes it as an unexpected crash, or
escalates it to the group, whose strategy writes the database, stops the TaskActor
and, after a failure, tells all its children to give up. On the nodes, the
NodeActor adds one VM after the other, each with a VMActor and a VMProxyActor.
Clients join the cluster and leave it; the NodeMasterActor and the directory of
executors follow the membership events. The DBActor is sent the row of every task
by the upload and its changes by the actors of the task, and makes reports of it.

## 2. The modules

| Module | Models | Lines of the code |
|---|---|---|
| `TaskResults` | the contract: each task is open until it gets one result; it is abandoned only after a failure | – |
| `TaskExecution` | TaskActor, TaskExecutorActor, VMProxyActor at work, one group, the rows of its tasks | TaskActor, TaskExecutorActor, VMProxyActor, SubWorkerActor (supervision), DBQuery |
| `TaskExecutionProofs`, `TaskExclusionProofs` | the theorems about `TaskExecution` | |
| `TaskTree` | the tree: how it is built, walked, abandoned and folded up | InstanceActor, DistributorActor, SubWorkerActor, upload |
| `TaskTreeProofs`, `TaskOrderProofs` | the theorems about `TaskTree` | |
| `NodeLifecycle` | a node and its VMs: start, provisioning, shutdown | NodeActor, VMActor, VMActorHelper, VMProxyActor, NodeMonitorActor, GlobalStatusActor (counts) |
| `NodeLifecycleProofs` | the theorems about `NodeLifecycle` | |
| `Membership` | clients that come and go, and who follows them | NodeMasterActor, ExecutorDirectoryServiceActor, ClusterMain (client) |
| `MembershipProofs` | the theorems about `Membership` | |
| `GlobalStatus` | what the status pages report of nodes that come and go | GlobalStatusActor, NodeMonitorActor, VMActor (counting) |
| `GlobalStatusProofs` | the theorems about `GlobalStatus` | |
| `TaskDatabase` | the rows of the tasks and the reports made of them | DBActor, DBQuery, DBMessage, ClusteringApi, upload |
| `TaskDatabaseProofs` | the theorems about `TaskDatabase` | |
| `MC*` | instances for TLC | |

`PROJECT.json` maps every definition to the lines it models. Operators whose
comment begins with "Mutant" are variants of the definition after them, with a
plausible bug; they show that the properties can fail.

### TaskExecution

The state of an actor is a record with the fields of its class. An *attempt* is
one offer of a task to a VM: it holds the future of the ask (`reply`), what its
callback still has to do (`callback`), and the executor it has created with the
exception nobody has looked at yet (`executor`, `failed`). Attempts are used again
when nothing refers to them, so their number bounds only what is in flight.

* The `onComplete` callbacks of `handleGetTask` run on the global
  ExecutionContext. They are actions of their own and interleave with the
  messages of the actor. One callback is one step: the reads and writes inside it
  are not split further.
* `Terminated(x)` is queued exactly if x is watched and dead. Messages of
  different senders to a VM arrive in any order.
* An exception of the TaskActor itself (`unwatch(null)`, `Await.result`) is
  escalated by the group, which the Distributor then restarts without its
  children: `EscalateAndRestart`; the tasks that had no result are *lost*.
* Supervision: an executor that has thrown waits in `failed` until one of the
  `Decide*` actions, one for each case of the strategy.
* `Faults` names what the environment may do: a VM dies, an ask times out, no
  executor is found, an executor's node is lost, ssh is down, a VM is silent,
  tests send REST requests (as every example test does).
* `VMNoMoreTasks` needs a VM whose timer runs and a group that is gone.

### TaskTree

An actor above the TaskActors is named by its run and path. Each has a FIFO
mailbox; what is sent to a stopping actor, or is left in its mailbox, is lost.
An actor that is created again under its name is a new reference (`born`), as the
lists of the code compare references. A TaskActor is what `TaskExecution` shows of
it: it may be taken, reset and end, and gives up after PersistAndSuicide. The
errors of TaskActors, which restart a group, are not repeated here. `Undisturbed`
is the assumption that no VM polls while a run is being uploaded; `MaxPolls`
bounds the GetTask messages in flight. `TreeAssumption` requires every task to have
a path that is not empty. The code does not: `members()` of the annotation has the
default `{}` (Clustering.java:50), which ClusteringApi.scala:402 passes on; then
`group.head` throws (DistributorActor.scala:47), and the Distributor is restarted
without the groups it had. Nothing of this module is said of such an upload.

### NodeLifecycle

One node. All actors have FIFO mailboxes; `timers` is the bag of messages that
`scheduleOnce` will deliver. The InstanceActor is reduced to the versions it
knows. Memory is a choice (a VM fits or not), vagrant a choice of the helper thread:
all boxes run, some do not, `up` throws, the clean-up throws too. A path that is
no directory makes the VMActor fail and restart. Bounds: `Uuids`, the VMs ever
created; `Versions`, the runs; `OnePoll`, one unanswered GetTask per VM.
A VMProxyActor may get its config before it knows the InstanceActor; its timer then
asks nobody (`proxy[u].timer = "nobody"`). The NodeMasterActor is ready (it
created the node), so nobody sends to the NodeActor before that is ready, and its
`handlerNotReady` is never called. `destroy` is taken to succeed.

### Membership

A client that is started again has the address of its former life, but its
actors are new references, and so are the children of a NodeMasterActor that was
restarted: a NodeActor is named by address, life and restart (`MaxRestarts` bounds
the restarts). What Akka does
(events, death watch, restart of an actor) is external and follows its
documentation: a member is announced as MemberJoined when it joins and, to a new
subscriber, only while it is still joining; a child's name is free only when the
parent has been told of its end. `Faults`: *early*, a client joins or ClusterMain
includes its own node before the NodeMasterActor is subscribed and ready;
*silent*, a client goes and nobody hears of the leave, as `leave` is followed by
`terminate` at once; *slowDeathWatch*, a client is back before the end of its former
life was reported. `nodeActors` of the NodeMasterActor never shrinks: nobody is
watched there, and NodeActor.scala:207 sends the companion object
`DeregisterNodeActor`, which no case matches. Only children matter.

### GlobalStatus

`<<h, l>>` is the l-th NodeActor of address h, with its monitor and VMs; each
has a FIFO channel to the GlobalStatusActor. When a node goes, what it had sent may
arrive, or a last part of it is lost. `Overtake` is whether Terminated may overtake
messages of the actor that ended.

### TaskDatabase

The TaskActor is reduced to what it tells the database. Starts of tasks are
numbered, and the number stands for the time: `started` is the start whose RUNNING
message was written last, `spent` the one `time_spent` is measured from. Messages to
the DBActor are local, so they are in its mailbox when they are sent. A statement
that throws (a second row for a method, a text too long for its column) restarts
the DBActor, which keeps its mailbox and has no state to lose. A report is a file
that is not changed any more; without finished tasks its path is empty (`None`).
A page is opened with one request and loads its data with another.

## 3. The runs

Passing runs. CHECK_DEADLOCK is off: the system stops when all tasks are done,
or waits for an upload.

| Run | Instance | Shows |
|---|---|---|
| `task_group` | 2 tasks (1 local), 1 VM, 2 attempts, all faults | TypeOK, PollsIffHasSpace, DoneTaskHandlesNothing, GoneGroupRunsNothing, AbandonedBecauseOfFailure, EndStateIsFinal, OnlyRestShares, ImplementsTaskResults |
| `task_exclusive` | 2 tasks (1 local), 2 VMs that neither die nor fall silent; asks time out, executors crash, ssh fails | AtMostOneExecution, NoTaskIsLost, ResultOfCurrentExecutor |
| `task_progress` | 2 tasks (1 local), 1 VM; tests fail, executors are lost, the directory is silent | EveryTaskEnds, EveryReservationEnds |
| `tree_runs` | 2 runs of one version, the first with 4 tasks on two levels and in two branches | TypeOK, DependenciesSucceeded, AbandonedInItsBranch, RunDoneMeansProcessed, StaleListStarvesNobody, SentAwayOnlyWhenDone, ImplementsTaskResults |
| `tree_liveness` | 2 runs, the first with two levels and a single-instance branch | EveryTaskProcessed |
| `node_vms` | 2 VMs, 1 run that may end at any time, all faults | TypeOK, OneVmAtATime, AddVmKnowsConfig, HelperAlone, VmMapMatches, OrphanIsDestroyed, IdleVmIsDestroyed |
| `nodes_come_and_go` | 1 client with 2 lives, both roles or none, all faults | TypeOK, ExecutorIsKnown, StaleOnlyIfSilent, NodeIsUsed, RestartEnds |
| `status_of_nodes` | 1 address with 2 NodeActors, 1 VM each | TypeOK, CountDriftsOnlyByLoss, MonitorIsForgotten |
| `task_reports` | 2 uploads, 2 names, 1 method, 1 user; at most 2 starts, 2 reports, 2 messages pending, 1 failure to connect | TypeOK, RowMatchesTask, ReportTellsResults, PageShowsItsReport |

The bounds: two tasks are the least for one to fail while the other starts, two
VMs for a task to move, and two attempts for an old executor to meet a new one;
what `task_group` checks on one VM is proved for any number of them (section 4).
In the tree, a level needs two tasks for one to be left when the other fails, and
a second branch that must go on; two runs of one version show whether the
InstanceActor takes one for the other. A node needs a second VM for VMs to compete,
and its run may end at every step of either; that another run takes its place is covered
by the theorems, which hold for any versions, and by `node_starved`.

Clients do not share state in `Membership` but for the NodeMasterActor, whose
restart a second life of one client causes; with two lives every event of a former
life meets the next (`MaxLives`), and the NodeMasterActor restarts at most once
(`MaxRestarts`; a larger bound reaches no more states). The same holds for an address in `GlobalStatus`.
In `task_reports` two uploads share a row or not; two starts (`MaxStarts`) let the
RUNNING of the first meet the second, two requests (`MaxAsks`) the late answer of the
first; `MaxMail` bounds how far the DBActor is behind, and `MaxFailures` the lost
connections. All invariants of these runs are proved without these bounds (section 4).

Violations. Each shows a disagreement between the code and what one of its
comments or the README says; the findings in `PROJECT.json` quote both.

| Run | Property | What happens |
|---|---|---|
| `task_stale_result` | ResultOfCurrentExecutor | the result of a dead VM's executor counts after another VM took the task |
| `tree_upload_order` | DependenciesSucceeded | a GetTask during the upload reaches a lower level first |
| `node_starved` | KeepsAddingVMs | NoDeployInfo reaches a starting VM before SystemAttributes (VMActor.scala:106): the VM has no timer left, its node waits for it and adds no VM for the next run, although README.md:44 says "eventually more and more VMs will be started" |

The restrictions of the passing runs are needed, too; lifting one of them lets TLC
refute the property:

* `silentVm` in `task_exclusive`: `Await.result` on StillAlive throws in the strategy
  (TaskActor.scala:93) and the group restarts without its tasks (NoTaskIsLost).
* A VM does not run one test at a time. A REST request of a test ends with
  `handlerSuccess` (VMProxyActor.scala:258), which frees its VM for a second test, and
  every example test sends such requests; the diagram of GetTask gives the space back
  only when the executor has terminated (diagrams/GetTaskSequenceDiagram.txt:59-61).
  OnlyRestShares says that nothing else has this effect; it says nothing of how many
  tests share a VM afterwards. (`task_group` has one VM; the instance of `task_exclusive`
  with `restCalls`, checked once for it, has 2,630,528 states and no error.)
* `vmDeath` in `task_exclusive`: when the VM dies before the executor exists,
  `unwatch(null)` throws (TaskActor.scala:137) and the group restarts without its
  tasks (NoTaskIsLost), although TaskActor.scala:121-123 says the task is reset.
* EveryReservationEnds speaks of behaviours without abandoned tasks: a task may be
  abandoned after a VM has reserved its space for it (TaskActor.scala:109), and the VM
  is never told. With `askTimeout` neither is a VM whose answer was late
  (TaskActor.scala:219).
* EveryTaskEnds speaks of behaviours in which no executor is lost before its task is
  done and the directory is not silent for ever: a task that is reset again and
  again, as after an exception without a cause (TaskExecutorActor.scala:95), need not end.
* EveryTaskEnds is checked without `vmDeath` and `askTimeout`, too.
* IdleVmIsDestroyed excepts a VM whose VMProxyActor got its config before it knew the
  InstanceActor (VMProxyActor.scala:75): its timer sends GetTask to nobody, so that nobody
  sends it away.
* NodeIsUsed excepts nodes that joined *early*: the NodeMasterActor answers their
  MemberJoined with NotReadyJet to nobody (NodeMasterActor.scala:86). It also excepts a
  NodeMasterActor that was restarted: a node that is back too soon finds the name of
  its NodeActor taken, `actorOf` throws (NodeMasterActor.scala:75), all NodeActors are
  stopped, and members that are up are not announced again.
* StaleOnlyIfSilent excepts addresses whose last life went without MemberExited: they
  stay in the directory, as UnreachableMember is commented out
  (ExecutorDirectoryServiceActor.scala:36), while its comment (lines 13 and 15) says that
  it reacts to that event.
* CountDriftsOnlyByLoss counts VMs that went with their node: a VMActor counts itself
  out only after `destroy` (VMActor.scala:132).
* `Overtake = TRUE` in `status_of_nodes`: attributes that arrive after Terminated put a
  dead node back (GlobalStatusActor.scala:98, MonitorIsForgotten).
* a second user in `task_reports`: between the two requests of a page another page may
  set `dataPath` (ClusteringApi.scala:262), and the first shows the other's data
  (PageShowsItsReport).
* RowMatchesTask has the exceptions the code has: the message with the end was lost
  (no row yet, no connection, a text too long for its column); RUNNING was written
  after the end (TaskActor.scala:215), so that the row is not in any report; two tasks
  share a row.
* `Undisturbed = FALSE` in `tree_runs`: a Distributor whose first tasks are done
  before the last one is added stops itself (DistributorActor.scala:75,
  RunDoneMeansProcessed). And a task that is added below a level after that level has
  failed gets no PersistAndSuicide; the list of the level still names the tasks that
  gave up (SubWorkerActor.scala:116), so GetTask goes to them and no further, and the run
  never ends (StaleListStarvesNobody).
* Also, a VM that got CannotGetExecutor stays watched; when it dies later it resets a
  task that runs on another VM, so that "case _ if !isTaken" (TaskActor.scala:75) drops
  the result of a living executor. The task is run again; nothing checked is violated.

### Fairness

`TaskExecution`: the dispatchers run every actor with mail, schedulers fire,
futures complete at the latest by their timeout, callbacks run, a test ends, and
Akka delivers failures, stops and Terminated: weak fairness for each kind of step.
Faults are never forced. `TaskTree`: the same, and strong fairness for taking and
ending a task (what `EveryTaskEnds` shows of a task that is offered again and
again) and for polling, which only the bound `MaxPolls` disables. `NodeLifecycle`:
the same, and strong fairness for a `vagrant up` that succeeds; uploads and the
ends of runs are not forced. `Membership` and `GlobalStatus`: actors handle their
mail, Akka answers, restarts and reports dead actors, and the cluster removes nodes
that are gone (`auto-down-unreachable-after`); clients start, join and go as they
like.

## 4. The proofs

`TaskExecutionProofs` proves for all constants that satisfy
`ConstantsAssumption` (any number of tasks, VMs and attempts, any faults):

| Theorem | States |
|---|---|
| `TypeCorrect` | `[]TypeOK` |
| `PollsExactlyWithSpace` | `[]PollsIffHasSpace` |
| `DoneIsDone` | `[]DoneTaskHandlesNothing` |
| `AbandonedOnlyAfterFailure` | `[]AbandonedBecauseOfFailure` |
| `EndStateWrittenOnce` | `EndStateIsFinal` |
| `ImplementsContract` | `ImplementsTaskResults`: the refinement of `TaskResults` |
| `RunEndsAfterItsTests` | `[]GoneGroupRunsNothing` |

The argument. `TypeOK` alone is not inductive: the task and VM of an attempt in
use must not be null. `TypeInv` adds that (`AttemptsOK`). For the results, the steps
are divided into *quiet* ones, which write no end state and finish no
TaskActor, and the few others (lemma `StepKinds`). `ResultInv` is the conjunction
of `DoneTaskHandlesNothing`, `EndMeansEnded` (a row with an end state belongs to
an actor that has ended) and `AbandonedBecauseOfFailure`: an end state is written
only by an actor's last step, and `EndMeansEnded` excludes a second one. With
it every step maps to a step of `TaskResults` or to none. For the end of a group,
`GoneInv` says that a TaskActor that is gone has no living executor, and that
a group that is gone has no TaskActors left; it needs that executors are started
only below actors that have not ended.

`TaskDatabaseProofs` proves for all constants that satisfy `DatabaseAssumption`
(any uploads, methods, names and bounds):

| Theorem | States |
|---|---|
| `TypeOKHolds` | `[]TypeOK` |
| `ReportsTellResults` | `[]ReportTellsResults` |
| `PageShows` | `[]PageShowsItsReport`, if there is one user |
| `RowsMatchTasks` | `[]RowMatchesTask`, if there are finitely many uploads |

`TypeOK` needs `Named`: whoever sends a message has a table, since a run is named
before anything else. `ReportsTellResults` follows a result on its way: `ResultsInv`
says that the end in a task, a message, a row, a report and `dataPath` was each in the one
before; a row with status DONE has an end other than ABANDONED because only
UpdateTask writes DONE. What has happened to tasks and uploads stays so (lemma
`StepStays`), hence what was true of a message that waits stays true. `PageShows`
needs that a pending request is not newer than the last one of its user, and that
the one the user waits for is for the run on the page (`RequestsInv`); with it
late answers are dropped and `dataPath` between the two requests of a page is that
page's (`AnswersInv`). `RowsMatchTasks` is about messages that overtake nothing: `RowsInv`
says of each row what the last message of each kind about it is, or what is in the
row if none waits. When all tasks of the row have ended, the last message is an end
(`LastKept`), and for a task with a row of its own the last RUNNING is that of its
last start (`StartKept`), since a callback that is too late is in `past.late`. Uploads
are finite so that `Cardinality` counts the tasks that share a row. The second
assumption of the module, `NoneIsNoRow`, says that no row is mistaken for a missing one.

`TaskExclusionProofs` goes on with `TaskExecution`. Its theorems have hypotheses
about `Faults`, which the run `task_exclusive` has, too, and of which section 3 says why
they are needed; REST requests are allowed in all of them:

| Theorem | States | Hypotheses |
|---|---|---|
| `ExecutedOnceAtATime` | `[]AtMostOneExecution` | no *vmDeath* |
| `ResultIsOfCurrentExecutor` | `ResultOfCurrentExecutor` | no *vmDeath* |
| `TasksAreNotLost` | `[]NoTaskIsLost` | no *vmDeath*, no *silentVm* |
| `OnlyRestSharesVms` | `OnlyRestShares` | no *vmDeath* |

`ExecInv`: an offer that is under way or an executor that is not stopped belongs to a
task that is taken, and to the offer that took it; so a second offer finds isTaken
set, and an executor that throws is the current one. VMs that do not die are
needed for that: Terminated of a VM resets a task whose executor still runs.
`OnlyRestShares` compares a state with the next: an attempt has the space of a VM from
AcquireExecutor on, by an answer on its way, a callback, a message or an executor the VM
watches. `AddressInv` says that an attempt is in one of these stages at a time.
Every action is shown to be `Orderly`: it keeps `AddressInv` and is an exchange
(`Exchanged`), in which at most one attempt gets the space of a VM, which uses
haveSpaceForTasks up, and haveSpaceForTasks is set only where an attempt loses the space
or by a REST request.
`EndedWithResult` (an actor that has ended has a result) gives `TasksAreNotLost`,
since without dead or silent VMs no handler of a TaskActor throws.

`TaskTreeProofs` proves for all constants that satisfy `TreeAssumption` (any tasks,
paths, runs, versions and polls, also polls during an upload):

| Theorem | States |
|---|---|
| `TypeCorrect` | `[]TypeOK` |
| `AbandonsItsBranchOnly` | `[]AbandonedInItsBranch` |
| `TreeImplementsResults` | `ImplementsTaskResults`: the refinement of `TaskResults` |

The invariant is `BranchInv`, and for the types `DistMail` with it. `TypeOK` says of each
mailbox that the receive of its actor has a case for what is in it. For a Distributor this
excludes PersistAndSuicide, which by `Blame` only an actor below a failed task has, and the
Terminated of a TaskActor, which by `DistMail` goes only to the home of its task. `Delivery` says that the AddTask of a task is in
at most one mailbox, that of an actor on its path, and that lists name the actor's own
children. `Ended` says that only a TaskActor on its way out has a result, so that none
is given twice. `Blame` carries a failure down the tree: an actor with a
PersistAndSuicide in its mailbox has a failed task of its run above it, and a task that
was told to give up has one at or above its own level.

`TaskOrderProofs` goes on with it. Its theorems assume `Undisturbed`, that no VM polls
while a run is being uploaded; the run `tree_upload_order` shows that the order is not
kept otherwise.

| Theorem | States |
|---|---|
| `DistributorStopsWhenDone` | `[]RunDoneMeansProcessed` |
| `NoVmIsSentAwayEarly` | `SentAwayOnlyWhenDone` |
| `ExecutedInOrder` | `[]DependenciesSucceeded` |
| `StaleListsStarveNobody` | `[]StaleListStarvesNobody` |

The argument for `OrderInv`: in the mailbox of the InstanceActor a GetTask stands before all
AddTask of a run or after them, and since mailboxes are FIFO this holds on every level:
an actor with anything but AddTask in its mailbox has been brought all its tasks
(`Order`). So the actors of a run that live have the actors above them (`Levels`), no
task is lost on its way and an actor stops only when the tasks at and below it have
results (`Found`), and the InstanceActor knows every Distributor that is up by its present
reference (`Known`). The first two theorems follow. For the third, `DepsInv` adds
`Deps`: a task that has been offered to a VM has only successful tasks above it, and
below a task without success either no mailbox holds a GetTask that is not behind a
PersistAndSuicide, or the tasks there have been told to give up. A GetTask goes down only from a level on which no task is
left, and after a failure the PersistAndSuicide went down before it. For the fourth, `Stale`
says that a task which is done and still listed gave up for a failure on its level,
that the failed task is off the list, and that all of its level are done or told to give
up; the tasks below are then covered by `Deps`.

`GlobalStatusProofs` proves `TypeCorrect` and `CountIsExact`
(`[]CountDriftsOnlyByLoss`) from `StatusAssumption`, with `Overtake` or without.
`StatusInv` follows the messages of each VM: its channel holds what its state says
(`ChannelsMatch`: nothing, a registration, a deregistration, or both in this order), and
`nodeVms` of an address is the number of its VMs whose registration has arrived and
whose deregistration has not (`NumbersMatch`). The number never stops at zero
too early because a deregistration comes after its registration.

`MembershipProofs` proves `TypeCorrect`, `ExecutorsAreKnown` (`[]ExecutorIsKnown`) and
`StaleAreSilent` (`[]StaleOnlyIfSilent`) from `MembershipAssumption`, for any clients,
lives and faults. The last event in the mailbox of the directory that concerns an
address decides whether it will be listed; a lemma for each way the mailbox changes
says what becomes of that decision. The types need that names of children of the
NodeMasterActor are unique (`OneChildPerAddress`).

`NodeLifecycleProofs` proves from `LifecycleAssumption`, for any finite set of VMs, any
versions and all faults:

| Theorem | States |
|---|---|
| `TypeCorrect` | `[]TypeOK` |
| `AddsOneVmAtATime` | `[]OneVmAtATime` |
| `ConfigIsKnown` | `[]AddVmKnowsConfig` |
| `HelpersTakeTurns` | `[]HelperAlone` |
| `MapIsExact` | `[]VmMapMatches` |
| `NoVmIsLeft` | `[]OrphanIsDestroyed` |

The invariant `NodeInv` follows tokens. To add a VM the NodeActor goes through a chain
of twelve stages (a timer, messages to and from InstanceActor and NodeMonitorActor, a
VM on its way up, VmProvisioned); `OneToken` says that never two of them are there, and
`ConfigKnown` that the config is set from DeployInfo on. A VM has chains of its own:
one for each reference it asks for, the system's attributes, its config up to
a VM that is provisioned, and its end (`OneOfEach`). They begin when the
VMActor knows all four actors (`ChainsBegin`), and nothing is under way for a VMActor that is
not there (`VmAbsent`). `ProxyAndVm` relates the two actors of a VM: the proxy goes only
after the VM is provisioned and before the VMActor. The stages are stated over the set of
messages in a mailbox, which never holds the same message of a chain twice
(`MailOnce`); lemmas on mailboxes say how a step changes these sets, and one lemma per
action says that it keeps the invariant. That the GlobalStatusActor never counts
too many VMs (in `TypeOK`) follows from the set of VMs that have been registered,
which only grows.

Only model-checked: the properties with `~>` or `<>` (EveryTaskEnds, EveryReservationEnds,
EveryTaskProcessed, IdleVmIsDestroyed, NodeIsUsed, RestartEnds,
MonitorIsForgotten). They hold under fairness, which is out of the prover's reach. All
invariants and action properties of the passing runs, and both refinements, are
theorems.

## 5. Plan

Done, in this order: `TaskResults`, `TaskExecution` with its proofs, `TaskTree`,
`NodeLifecycle`, `Membership`, `GlobalStatus`, `TaskDatabase`, and the proofs of the
last five. Next:

1. Proofs: from the invariants that are there, the facts that the liveness
   properties rest on, as a task that is free being offered to every VM that polls.
2. Composition of `TaskTree` and `TaskExecution`: a level of the tree implemented by
   the TaskActors, so that a restart of a group is seen from the run.
3. The path of a REST request (RestApiRequest and ProxyRequest of a test, the port
   mapping and `sendRequest` of the VMProxyActor) and the vagrant calls of
   `VagrantEnvironment` (up, destroy, the boxes of an environment) as components of
   their own, so that the choices `restCalls` and `vagrantError` are explained.

## 6. Not modelled

Class loading and reflection, the builders of HTTP requests and of vagrant
configuration, JRuby and vagrant themselves, the telnet client, the web routes
that only read, the command line and the start of the actor system: data, input
and output. Their outcomes appear as choices of the models. The database messages that nobody
sends (several tasks at once, parameters, deletion) and the queries that only read are
left out. The program is the Scala and Java code under `src/main/scala` and
`src/main/java`; the Ruby gems under `src/main/resources/gems`, with their C and C++
extensions (JSON, Unicode tables, a debugger), are third-party code that is shipped
with vagrant-wrapper and is no part of it. Clustering, remoting
and persistence of Akka are assumed to work as documented: FIFO between two
actors, at-most-once delivery, death watch.
