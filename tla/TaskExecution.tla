--------------------------- MODULE TaskExecution ---------------------------
(***************************************************************************)
(* How one group of tasks is executed: the TaskActors of a group, the      *)
(* VMProxyActors that ask for work, the TaskExecutorActors that run the     *)
(* tests, the group (SubWorkerActor) that supervises the TaskActors, and    *)
(* the database row of every task.                                         *)
(*                                                                         *)
(* The TaskActor asks the polling VM "? SendTask" and completes the answer *)
(* on a thread of the global ExecutionContext, outside the actor: the      *)
(* callbacks are therefore actions of their own, which interleave with     *)
(* the messages the actor handles.                                         *)
(*                                                                         *)
(* An attempt is one offer of a task to a VM.  It names the future of the  *)
(* ask, the callback that continues it and the executor it may create; an  *)
(* attempt that nothing refers to any more is used again (the code draws a *)
(* random name each time).                                                 *)
(*                                                                         *)
(* Terminated(x) is in an actor's mailbox exactly when the actor watches x *)
(* and x is dead: unwatch also removes a notice that is already queued.    *)
(* Messages of different actors to a VM may arrive in any order.           *)
(***************************************************************************)
CONSTANTS
  Tasks,      \* the tasks of the group, one TaskActor each
  Local,      \* the tasks with run_locally set
  VMs,        \* the VMProxyActors, one per provisioned VM
  Attempts,   \* names of offers, bounds how many are in flight at once
  Outcomes,   \* how an execution may end: a subset of Verdicts
  Faults,     \* what the environment may do: a subset of AllFaults
  None        \* the null reference

Verdicts == {"success", "fail", "unexpected"}

AllFaults == {"vmDeath",        \* a VMProxyActor stops, or its node is lost
              "askTimeout",     \* an answer to SendTask comes after 1 second
              "noExecutor",     \* GetExecutorAddress is not answered in time
              "executorCrash",  \* the node of an executor is lost
              "sshDown",        \* StillAlive is answered with false
              "silentVm",       \* StillAlive is not answered in 10 seconds
              "restCalls"}      \* the running tests send REST requests

ASSUME ConstantsAssumption ==
  /\ Local \subseteq Tasks
  /\ Outcomes \subseteq Verdicts
  /\ Faults \subseteq AllFaults
  /\ None \notin Tasks /\ None \notin VMs /\ None \notin Attempts

VARIABLES
  task,    \* the TaskActors
  att,     \* the attempts
  vm,      \* the VMProxyActors
  mail,    \* the messages of the TaskActors to the VMProxyActors
  group,   \* the SubWorkerActor above the TaskActors
  db       \* the row of every task in the run's table

vars == <<task, att, vm, mail, group, db>>

-----------------------------------------------------------------------------
(* State *)

\* "up", or failed with a cause that waits for the group's directive
\* ("success", "failure", "error"), or "stopping" while executors are still
\* terminating, or "gone".
ActorStates == {"up", "success", "failure", "error", "stopping", "gone"}

TaskActor == [state         : ActorStates,
              isTaken       : BOOLEAN,
              taskDone      : BOOLEAN,
              targetVm      : VMs \cup {None},
              executorActor : Attempts \cup {None},
              watchedVms    : SUBSET VMs,
              watchedExecs  : SUBSET Attempts,
              inbox         : SUBSET VMs,      \* GetTask, by sender
              suicide       : BOOLEAN]         \* PersistAndSuicide queued

\* reply:    the future of "? SendTask" ("none" once it is completed)
\* callback: what the callback thread still has to do
\* executor: the TaskExecutorActor of this attempt
\* failed:   the exception that executor has thrown and the TaskActor's
\*           supervisorStrategy has not seen yet
\* kill:     context.stop was called on the executor
Attempt == [task     : Tasks \cup {None},
            vm       : VMs \cup {None},
            reply    : {"none", "waiting", "acquire", "refuse"},
            callback : {"none", "directory", "running"},
            executor : {"none", "idle", "running", "suspended", "stopped"},
            failed   : Verdicts \cup {"none"},
            kill     : BOOLEAN]

VmMessage == [kind : {"SendTask", "Executor", "CannotGetExecutor"}, att : Attempts]

VMProxy == [up        : BOOLEAN,
            haveSpace : BOOLEAN,                \* haveSpaceForTasks
            timer     : BOOLEAN,                \* scheduleGetTask # null
            watching  : SUBSET Attempts]        \* the executors it watches

Group == [state : {"up", "restarted", "gone"}, taskActors : SUBSET Tasks]

Row == [status : {"NOT_STARTED", "RUNNING", "DONE"},
        end    : {"NONE", "SUCCESS", "FAILURE", "ABANDONED"}]

(* One type invariant: every field of the four kinds of actor and of the   *)
(* database rows keeps the values the code gives it.                       *)
TypeOK ==
  /\ task \in [Tasks -> TaskActor]
  /\ att \in [Attempts -> Attempt]
  /\ vm \in [VMs -> VMProxy]
  /\ mail \in [VMs -> SUBSET VmMessage]
  /\ group \in Group
  /\ db \in [Tasks -> Row]

NewTaskActor ==
  [state |-> "up", isTaken |-> FALSE, taskDone |-> FALSE, targetVm |-> None,
   executorActor |-> None, watchedVms |-> {}, watchedExecs |-> {},
   inbox |-> {}, suicide |-> FALSE]

Offer(t, v, r) ==
  [task |-> t, vm |-> v, reply |-> r, callback |-> "none",
   executor |-> "none", failed |-> "none", kill |-> FALSE]

\* A provisioned VM: ready, with space, and its GetTask timer started.
ReadyVM ==
  [up |-> TRUE, haveSpace |-> TRUE, timer |-> TRUE, watching |-> {}]

DeadVM ==
  [up |-> FALSE, haveSpace |-> FALSE, timer |-> FALSE, watching |-> {}]

\* The group has been built from the uploaded tasks, and their rows inserted.
Init ==
  /\ task = [t \in Tasks |-> NewTaskActor]
  /\ att = [a \in Attempts |-> Offer(None, None, "none")]
  /\ vm = [v \in VMs |-> ReadyVM]
  /\ mail = [v \in VMs |-> {}]
  /\ group = [state |-> "up", taskActors |-> Tasks]
  /\ db = [t \in Tasks |-> [status |-> "NOT_STARTED", end |-> "NONE"]]

-----------------------------------------------------------------------------
(* Helpers *)

\* The actor has been told to stop: actorOf on its context throws.
Ended(t) == task[t].state \in {"stopping", "gone"}

\* Nothing refers to attempt a any more.
Free(a) ==
  /\ att[a].reply = "none"
  /\ att[a].callback = "none"
  /\ att[a].executor \in {"none", "stopped"}
  /\ att[a].failed # "none" => Ended(att[a].task)
  /\ \A t \in Tasks : task[t].executorActor # a /\ a \notin task[t].watchedExecs
  /\ \A v \in VMs : /\ a \notin vm[v].watching
                    /\ \A m \in mail[v] : m.att # a

\* Send m to VM v; what is sent to a dead actor is lost.
Deliver(v, m) ==
  IF vm[v].up THEN [mail EXCEPT ![v] = @ \cup {m}] ELSE mail

\* VM v takes message k of attempt a from its mailbox.
VmReceives(v, k, a) ==
  /\ vm[v].up
  /\ [kind |-> k, att |-> a] \in mail[v]
  /\ mail' = [mail EXCEPT ![v] = @ \ {[kind |-> k, att |-> a]}]

\* context.stop: no further message is handled, the executors are stopped.
StoppedActor(t) ==
  [task[t] EXCEPT !.state = "stopping", !.inbox = {}, !.suicide = FALSE,
                  !.watchedVms = {}, !.watchedExecs = {}]

\* Mutant: the value of the other column.
ResetRowWrongColumn(t) == [db EXCEPT ![t].status = "NONE"]

\* A task that may be picked up again after its VM or its executor died.
ResetRow(t) == [db EXCEPT ![t].status = "NOT_STARTED"]

-----------------------------------------------------------------------------
(* GetTask: from the VM's timer through the group to the TaskActors *)

\* The GetTask timer of v fires; Instance and Distributor forward it to the
\* group, the group to the TaskActors in its list.  A TaskActor that has
\* failed, or has PersistAndSuicide in its mailbox, never comes to handle it.
Poll(v) ==
  /\ vm[v].up /\ vm[v].timer
  /\ group.state = "up"
  /\ task' = [t \in Tasks |->
                IF t \in group.taskActors /\ task[t].state = "up" /\ ~task[t].suicide
                THEN [task[t] EXCEPT !.inbox = @ \cup {v}]
                ELSE task[t]]
  /\ UNCHANGED <<att, vm, mail, group, db>>

\* Mutant: the task is offered but not reserved.
GetTaskNotReserved(t, v, a) ==
  /\ task[t].state = "up" /\ v \in task[t].inbox /\ ~task[t].isTaken
  /\ Free(a)
  /\ task' = [task EXCEPT ![t].inbox = @ \ {v}]
  /\ att' = [att EXCEPT ![a] = Offer(t, v, "waiting")]
  /\ mail' = Deliver(v, [kind |-> "SendTask", att |-> a])
  /\ UNCHANGED <<vm, group, db>>

\* handleGetTask: reserve the task and offer it to the VM that asked.
GetTask(t, v, a) ==
  /\ task[t].state = "up" /\ v \in task[t].inbox /\ ~task[t].isTaken
  /\ Free(a)
  /\ task' = [task EXCEPT ![t].inbox = @ \ {v}, ![t].isTaken = TRUE]
  /\ att' = [att EXCEPT ![a] = Offer(t, v, "waiting")]
  /\ mail' = Deliver(v, [kind |-> "SendTask", att |-> a])
  /\ UNCHANGED <<vm, group, db>>

\* The guard "if ! isTaken" fails: the message is unhandled.
GetTaskUnhandled(t, v) ==
  /\ task[t].state = "up" /\ v \in task[t].inbox /\ task[t].isTaken
  /\ task' = [task EXCEPT ![t].inbox = @ \ {v}]
  /\ UNCHANGED <<att, vm, mail, group, db>>

-----------------------------------------------------------------------------
(* VMProxyActor *)

\* Mutant: the VM accepts and keeps its space.
VMSendTaskKeepsSpace(v, a) ==
  /\ VmReceives(v, "SendTask", a)
  /\ att' = [att EXCEPT ![a].reply = IF @ = "waiting" THEN "acquire" ELSE @]
  /\ UNCHANGED <<task, vm, group, db>>

\* handlerSendTask: the timer is cancelled whatever the answer is.  The answer
\* to an ask that has timed out reaches nobody.
VMSendTask(v, a) ==
  /\ VmReceives(v, "SendTask", a)
  /\ LET answer == IF vm[v].haveSpace THEN "acquire" ELSE "refuse"
     IN att' = [att EXCEPT ![a].reply = IF @ = "waiting" THEN answer ELSE @]
  /\ vm' = [vm EXCEPT ![v].timer = FALSE, ![v].haveSpace = FALSE]
  /\ UNCHANGED <<task, group, db>>

\* Mutant: the executor is not watched.
VMExecutorNotWatched(v, a) ==
  /\ VmReceives(v, "Executor", a)
  /\ UNCHANGED <<task, att, vm, group, db>>

\* handlerExecutor
VMExecutor(v, a) ==
  /\ VmReceives(v, "Executor", a)
  /\ vm' = [vm EXCEPT ![v].watching = @ \cup {a}]
  /\ UNCHANGED <<task, att, group, db>>

\* handlerCannotGetExecutor
VMCannotGetExecutor(v, a) ==
  /\ VmReceives(v, "CannotGetExecutor", a)
  /\ vm' = [vm EXCEPT ![v].haveSpace = TRUE, ![v].timer = TRUE]
  /\ UNCHANGED <<task, att, group, db>>

\* Mutant: the GetTask timer is not started again.
VMTerminatedNoTimer(v, a) ==
  /\ vm[v].up /\ a \in vm[v].watching /\ att[a].executor = "stopped"
  /\ vm' = [vm EXCEPT ![v].watching = @ \ {a}, ![v].haveSpace = TRUE]
  /\ UNCHANGED <<task, att, mail, group, db>>

\* handlerTerminated
VMTerminated(v, a) ==
  /\ vm[v].up /\ a \in vm[v].watching /\ att[a].executor = "stopped"
  /\ vm' = [vm EXCEPT ![v].watching = @ \ {a}, ![v].haveSpace = TRUE, ![v].timer = TRUE]
  /\ UNCHANGED <<task, att, mail, group, db>>

\* handlerRestApiRequest: sendRequest ends with handlerSuccess, which gives the
\* VM space again although the test that sent the request is still running.
VMRestApiRequest(v, a) ==
  /\ "restCalls" \in Faults
  /\ vm[v].up /\ att[a].executor = "running" /\ att[a].vm = v
  /\ vm' = [vm EXCEPT ![v].haveSpace = TRUE, ![v].timer = TRUE]
  /\ UNCHANGED <<task, att, mail, group, db>>

\* handlerNoMoreTasks, the answer once the run has been completed.
VMNoMoreTasks(v) ==
  /\ vm[v].up /\ vm[v].timer
  /\ group.state = "gone"
  /\ vm' = [vm EXCEPT ![v] = DeadVM]
  /\ mail' = [mail EXCEPT ![v] = {}]
  /\ UNCHANGED <<task, att, group, db>>

VMDies(v) ==
  /\ "vmDeath" \in Faults
  /\ vm[v].up
  /\ vm' = [vm EXCEPT ![v] = DeadVM]
  /\ mail' = [mail EXCEPT ![v] = {}]
  /\ UNCHANGED <<task, att, group, db>>

-----------------------------------------------------------------------------
(* The callbacks of the TaskActor, on a thread of the global ExecutionContext *)

\* Mutant: isTaken is not reset.
OfferFailsStaysTaken(a) ==
  /\ \/ att[a].reply = "refuse"
     \/ att[a].reply # "none" /\ "askTimeout" \in Faults
     \/ att[a].reply = "waiting" /\ ~vm[att[a].vm].up
  /\ att' = [att EXCEPT ![a].reply = "none"]
  /\ UNCHANGED <<task, vm, mail, group, db>>

\* Failure(exception): refused, or no answer within a second.
OfferFails(a) ==
  /\ \/ att[a].reply = "refuse"
     \/ att[a].reply # "none" /\ "askTimeout" \in Faults
     \/ att[a].reply = "waiting" /\ ~vm[att[a].vm].up
  /\ att' = [att EXCEPT ![a].reply = "none"]
  /\ task' = [task EXCEPT ![att[a].task].isTaken = FALSE]
  /\ UNCHANGED <<vm, mail, group, db>>

\* Mutant: the new executor stays in a local variable.
HandOverLocalVariable(a, tgt, watch) ==
  LET t == att[a].task
      sent == ~Ended(t) /\ tgt # None
  IN /\ task' = [task EXCEPT
                   ![t].targetVm = tgt,
                   ![t].watchedVms = @ \cup watch,
                   ![t].watchedExecs = IF sent THEN @ \cup {a} ELSE @]
     /\ att' = [att EXCEPT
                   ![a].reply = "none",
                   ![a].callback = IF sent THEN "running" ELSE "none",
                   ![a].executor = IF sent THEN "running" ELSE @]
     /\ mail' = IF sent THEN Deliver(tgt, [kind |-> "Executor", att |-> a]) ELSE mail
     /\ UNCHANGED vm

\* Create the executor, watch it, hand it to the VM, start it.  The VM is read
\* from the field targetVm (tgt), which the actor may have set to null; watch is
\* what the callback has just started to watch.
HandOver(a, tgt, watch) ==
  LET t == att[a].task
      created == ~Ended(t)
      sent == created /\ tgt # None
  IN /\ task' = [task EXCEPT
                   ![t].targetVm = tgt,
                   ![t].watchedVms = @ \cup watch,
                   ![t].executorActor = IF created THEN a ELSE @,
                   ![t].watchedExecs = IF created THEN @ \cup {a} ELSE @]
     /\ att' = [att EXCEPT
                   ![a].reply = "none",
                   ![a].callback = IF sent THEN "running" ELSE "none",
                   ![a].executor = IF sent THEN "running"
                                   ELSE IF created THEN "idle" ELSE @]
     /\ mail' = IF sent THEN Deliver(tgt, [kind |-> "Executor", att |-> a]) ELSE mail
     /\ UNCHANGED vm

\* Success(AcquireExecutor) of a task that runs on the node of its VM
AcquireLocally(a) ==
  /\ att[a].reply = "acquire" /\ att[a].task \in Local
  /\ HandOver(a, att[a].vm, {att[a].vm})
  /\ UNCHANGED <<group, db>>

\* Success(AcquireExecutor): watch the VM, ask the directory for a node
AcquireExecutor(a) ==
  /\ att[a].reply = "acquire" /\ att[a].task \notin Local
  /\ task' = [task EXCEPT ![att[a].task].targetVm = att[a].vm,
                          ![att[a].task].watchedVms = @ \cup {att[a].vm}]
  /\ att' = [att EXCEPT ![a].reply = "none", ![a].callback = "directory"]
  /\ UNCHANGED <<vm, mail, group, db>>

\* Success(ExecutorAddress)
ExecutorAddress(a) ==
  /\ att[a].callback = "directory"
  /\ HandOver(a, task[att[a].task].targetVm, {})
  /\ UNCHANGED <<group, db>>

\* The directory does not answer.  With targetVm null the send throws, and
\* isTaken is not reset.
NoExecutorAddress(a) ==
  /\ "noExecutor" \in Faults
  /\ att[a].callback = "directory"
  /\ LET t == att[a].task
         tgt == task[t].targetVm
     IN /\ task' = [task EXCEPT ![t].isTaken = IF tgt = None THEN @ ELSE FALSE]
        /\ mail' = IF tgt = None THEN mail
                   ELSE Deliver(tgt, [kind |-> "CannotGetExecutor", att |-> a])
  /\ att' = [att EXCEPT ![a].callback = "none"]
  /\ UNCHANGED <<vm, group, db>>

\* The last statement of monitor_send_and_execute
WriteRunning(a) ==
  /\ att[a].callback = "running"
  /\ att' = [att EXCEPT ![a].callback = "none"]
  /\ db' = [db EXCEPT ![att[a].task].status = "RUNNING"]
  /\ UNCHANGED <<task, vm, mail, group>>

-----------------------------------------------------------------------------
(* TaskExecutorActor *)

\* run ends by throwing; the executor is suspended and its parent informed.
ExecutorEnds(a, o) ==
  /\ att[a].executor = "running"
  /\ att' = [att EXCEPT ![a].executor = "suspended", ![a].failed = o]
  /\ UNCHANGED <<task, vm, mail, group, db>>

\* A stop takes effect when the executor is between two messages.  A TaskActor
\* that is itself stopping passes no failure on.
ExecutorStops(a) ==
  /\ att[a].executor \in {"idle", "suspended"}
  /\ att[a].kill \/ Ended(att[a].task)
  /\ att' = [att EXCEPT ![a].executor = "stopped",
                        ![a].failed = IF Ended(att[a].task) THEN "none" ELSE @]
  /\ UNCHANGED <<task, vm, mail, group, db>>

ExecutorCrashes(a) ==
  /\ "executorCrash" \in Faults
  /\ att[a].executor \in {"idle", "running"}
  /\ att' = [att EXCEPT ![a].executor = "stopped"]
  /\ UNCHANGED <<task, vm, mail, group, db>>

-----------------------------------------------------------------------------
(* TaskActor.supervisorStrategy: attempt a's executor has thrown *)

Supervises(a) == att[a].failed # "none" /\ task[att[a].task].state = "up"

\* The directive Stop
StopExecutor(a) ==
  att' = [att EXCEPT ![a].executor = "stopped", ![a].failed = "none"]

\* case _ if !isTaken
DecideNotTaken(a) ==
  /\ Supervises(a) /\ ~task[att[a].task].isTaken
  /\ StopExecutor(a)
  /\ UNCHANGED <<task, vm, mail, group, db>>

\* Mutant: Stop instead of Escalate.
DecideSuccessStop(a) ==
  /\ Supervises(a) /\ task[att[a].task].isTaken /\ att[a].failed = "success"
  /\ StopExecutor(a)
  /\ task' = [task EXCEPT ![att[a].task].taskDone = TRUE]
  /\ UNCHANGED <<vm, mail, group, db>>

\* case TestSuccessException: the TaskActor fails with the same exception.
DecideSuccess(a) ==
  /\ Supervises(a) /\ task[att[a].task].isTaken /\ att[a].failed = "success"
  /\ att' = [att EXCEPT ![a].failed = "none"]
  /\ task' = [task EXCEPT ![att[a].task].taskDone = TRUE,
                          ![att[a].task].state = "success"]
  /\ UNCHANGED <<vm, mail, group, db>>

Asks(a) == Supervises(a) /\ task[att[a].task].isTaken /\ att[a].failed = "fail"

\* The VM in the field targetVm is there to answer StillAlive.
TargetUp(t) == task[t].targetVm # None /\ vm[task[t].targetVm].up

\* case TestFailException, StillAlive answered with true
DecideFailure(a) ==
  /\ Asks(a) /\ TargetUp(att[a].task)
  /\ att' = [att EXCEPT ![a].failed = "none"]
  /\ task' = [task EXCEPT ![att[a].task].taskDone = TRUE,
                          ![att[a].task].state = "failure"]
  /\ UNCHANGED <<vm, mail, group, db>>

\* case TestFailException, StillAlive answered with false
DecideVmNotAlive(a) ==
  /\ Asks(a) /\ TargetUp(att[a].task) /\ "sshDown" \in Faults
  /\ StopExecutor(a)
  /\ task' = [task EXCEPT ![att[a].task].taskDone = FALSE]
  /\ UNCHANGED <<vm, mail, group, db>>

\* case TestFailException, no answer: Await.result throws inside the strategy,
\* the TaskActor itself fails with that exception.
DecideNoAnswer(a) ==
  /\ Asks(a) /\ (~TargetUp(att[a].task) \/ "silentVm" \in Faults)
  /\ att' = [att EXCEPT ![a].failed = "none"]
  /\ task' = [task EXCEPT ![att[a].task].state = "error"]
  /\ UNCHANGED <<vm, mail, group, db>>

\* Mutant: Escalate instead of Stop.
DecideUnexpectedEscalate(a) ==
  /\ Supervises(a) /\ task[att[a].task].isTaken /\ att[a].failed = "unexpected"
  /\ att' = [att EXCEPT ![a].failed = "none"]
  /\ task' = [task EXCEPT ![att[a].task].state = "error"]
  /\ UNCHANGED <<vm, mail, group, db>>

\* Any other exception
DecideUnexpected(a) ==
  /\ Supervises(a) /\ task[att[a].task].isTaken /\ att[a].failed = "unexpected"
  /\ StopExecutor(a)
  /\ task' = [task EXCEPT ![att[a].task].taskDone = FALSE]
  /\ UNCHANGED <<vm, mail, group, db>>

-----------------------------------------------------------------------------
(* TaskActor: Terminated and PersistAndSuicide *)

\* handleTermianted for the VM.  With no executor yet, unwatch(null) throws and
\* the actor fails; so it does for unwatch(targetVm) when targetVm is null.
TerminatedVm(t, v) ==
  LET e == task[t].executorActor
      tgt == task[t].targetVm
      throws == IF v = tgt THEN e = None ELSE tgt = None
  IN /\ task[t].state = "up" /\ v \in task[t].watchedVms /\ ~vm[v].up
     /\ IF task[t].taskDone
        THEN task' = [task EXCEPT ![t] = StoppedActor(t)] /\ UNCHANGED <<att, db>>
        ELSE /\ task' = [task EXCEPT
                  ![t].isTaken = FALSE,
                  ![t].watchedVms = @ \ {v, tgt},
                  ![t].watchedExecs = IF v = tgt THEN @ \ {e} ELSE @,
                  ![t].executorActor = IF v = tgt THEN None ELSE @,
                  ![t].targetVm = IF throws THEN @ ELSE None,
                  ![t].state = IF throws THEN "error" ELSE @]
             /\ att' = IF v = tgt /\ ~throws THEN [att EXCEPT ![e].kill = TRUE] ELSE att
             /\ db' = IF throws THEN db ELSE ResetRow(t)
     /\ UNCHANGED <<vm, mail, group>>

\* Mutant: the test of taskDone is inverted.
TerminatedExecutorInverted(t, a) ==
  /\ task[t].state = "up" /\ a \in task[t].watchedExecs /\ ~task[t].taskDone
  /\ att[a].executor = "stopped" /\ att[a].failed = "none"
  /\ task' = [task EXCEPT ![t] = StoppedActor(t)]
  /\ UNCHANGED <<att, vm, mail, group, db>>

\* handleTermianted for an executor; the field executorActor keeps its value.
TerminatedExecutor(t, a) ==
  LET tgt == task[t].targetVm
  IN /\ task[t].state = "up" /\ a \in task[t].watchedExecs
     /\ att[a].executor = "stopped" /\ att[a].failed = "none"
     /\ IF task[t].taskDone
        THEN task' = [task EXCEPT ![t] = StoppedActor(t)] /\ UNCHANGED db
        ELSE /\ task' = [task EXCEPT
                  ![t].isTaken = FALSE,
                  ![t].watchedVms = @ \ {tgt},
                  ![t].watchedExecs = @ \ {a},
                  ![t].targetVm = None,
                  ![t].state = IF tgt = None THEN "error" ELSE @]
             /\ db' = IF tgt = None THEN db ELSE ResetRow(t)
     /\ UNCHANGED <<att, vm, mail, group>>

\* Mutant: context.stop(self) is missing.
PersistAndSuicideStays(t) ==
  /\ task[t].state = "up" /\ task[t].suicide /\ task[t].inbox = {}
  /\ db' = [db EXCEPT ![t] = [status |-> "NOT_STARTED", end |-> "ABANDONED"]]
  /\ task' = [task EXCEPT ![t].suicide = FALSE]
  /\ UNCHANGED <<att, vm, mail, group>>

\* The mailbox is FIFO: GetTask messages sent before are handled before.
PersistAndSuicide(t) ==
  /\ task[t].state = "up" /\ task[t].suicide /\ task[t].inbox = {}
  /\ db' = [db EXCEPT ![t] = [status |-> "NOT_STARTED", end |-> "ABANDONED"]]
  /\ task' = [task EXCEPT ![t] = StoppedActor(t)]
  /\ UNCHANGED <<att, vm, mail, group>>

-----------------------------------------------------------------------------
(* SubWorkerActor: supervision of the TaskActors, check_suicide *)

\* Mutant: the group stops itself when its list, not context.children, is empty.
HandleSuccessListEmpty(t) ==
  /\ task[t].state = "success"
  /\ db' = [db EXCEPT ![t] = [status |-> "DONE", end |-> "SUCCESS"]]
  /\ group' = [state |-> IF group.taskActors = {t} THEN "gone" ELSE group.state,
               taskActors |-> group.taskActors \ {t}]
  /\ task' = [task EXCEPT ![t] = StoppedActor(t)]
  /\ UNCHANGED <<att, vm, mail>>

\* handleSuccess, directive Stop
HandleSuccess(t) ==
  /\ task[t].state = "success"
  /\ db' = [db EXCEPT ![t] = [status |-> "DONE", end |-> "SUCCESS"]]
  /\ group' = [group EXCEPT !.taskActors = @ \ {t}]
  /\ task' = [task EXCEPT ![t] = StoppedActor(t)]
  /\ UNCHANGED <<att, vm, mail>>

\* Mutant: the failure is not written.
HandleFailureNotWritten(t) ==
  /\ task[t].state = "failure"
  /\ group' = [group EXCEPT !.taskActors = @ \ {t}]
  /\ task' = [u \in Tasks |->
                IF u = t THEN StoppedActor(t)
                ELSE IF task[u].state = "up" THEN [task[u] EXCEPT !.suicide = TRUE]
                ELSE task[u]]
  /\ UNCHANGED <<att, vm, mail, db>>

\* handleFailure, directive Stop; the others are told to give up.
HandleFailure(t) ==
  /\ task[t].state = "failure"
  /\ db' = [db EXCEPT ![t] = [status |-> "DONE", end |-> "FAILURE"]]
  /\ group' = [group EXCEPT !.taskActors = @ \ {t}]
  /\ task' = [u \in Tasks |->
                IF u = t THEN StoppedActor(t)
                ELSE IF task[u].state = "up" THEN [task[u] EXCEPT !.suicide = TRUE]
                ELSE task[u]]
  /\ UNCHANGED <<att, vm, mail>>

\* The strategy knows no other exception: it is escalated, and the Distributor's
\* default strategy restarts the group, which stops all its children.
EscalateAndRestart(t) ==
  /\ task[t].state = "error"
  /\ group' = [state |-> "restarted", taskActors |-> {}]
  /\ task' = [u \in Tasks |-> IF task[u].state = "gone" THEN task[u] ELSE StoppedActor(u)]
  /\ UNCHANGED <<att, vm, mail, db>>

\* A TaskActor has terminated once its executors have.  The group, unless it was
\* restarted and no longer watches it, then checks whether it has children left.
TaskActorGone(t) ==
  /\ task[t].state = "stopping"
  /\ \A a \in Attempts :
        att[a].task = t => att[a].executor \in {"none", "stopped"}
  /\ task' = [task EXCEPT ![t].state = "gone", ![t].executorActor = None]
  /\ group' = IF group.state = "up" /\ \A u \in Tasks \ {t} : task[u].state = "gone"
              THEN [group EXCEPT !.state = "gone"] ELSE group
  /\ UNCHANGED <<att, vm, mail, db>>

\* GetTask reaches a restarted group that has no children: check_suicide.
SuicideOnGetTask(v) ==
  /\ vm[v].up /\ vm[v].timer
  /\ group.state = "restarted" /\ \A t \in Tasks : task[t].state = "gone"
  /\ group' = [group EXCEPT !.state = "gone"]
  /\ UNCHANGED <<task, att, vm, mail, db>>

-----------------------------------------------------------------------------
VmStep(v) ==
  \/ Poll(v) \/ VMNoMoreTasks(v) \/ VMDies(v) \/ SuicideOnGetTask(v)
  \/ \E a \in Attempts :
       \/ VMSendTask(v, a) \/ VMExecutor(v, a) \/ VMCannotGetExecutor(v, a)
       \/ VMTerminated(v, a) \/ VMRestApiRequest(v, a)

AttemptStep(a) ==
  \/ OfferFails(a) \/ AcquireLocally(a) \/ AcquireExecutor(a)
  \/ ExecutorAddress(a) \/ NoExecutorAddress(a) \/ WriteRunning(a)
  \/ \E o \in Outcomes : ExecutorEnds(a, o)
  \/ ExecutorStops(a) \/ ExecutorCrashes(a)
  \/ DecideNotTaken(a) \/ DecideSuccess(a) \/ DecideFailure(a)
  \/ DecideVmNotAlive(a) \/ DecideNoAnswer(a) \/ DecideUnexpected(a)

TaskStep(t) ==
  \/ \E v \in VMs, a \in Attempts : GetTask(t, v, a)
  \/ \E v \in VMs : GetTaskUnhandled(t, v) \/ TerminatedVm(t, v)
  \/ \E a \in Attempts : TerminatedExecutor(t, a)
  \/ PersistAndSuicide(t) \/ HandleSuccess(t) \/ HandleFailure(t)
  \/ EscalateAndRestart(t) \/ TaskActorGone(t)

Next ==
  \/ \E v \in VMs : VmStep(v)
  \/ \E a \in Attempts : AttemptStep(a)
  \/ \E t \in Tasks : TaskStep(t)

Spec == Init /\ [][Next]_vars

(***************************************************************************)
(* Fairness: the dispatchers run every actor with mail, the scheduler      *)
(* fires every timer, a future is completed at the latest by its timeout   *)
(* and its callback is run, a test ends, and Akka delivers Failed, Stop    *)
(* and Terminated.  Faults are never forced.                               *)
(***************************************************************************)
Fairness ==
  /\ \A v \in VMs :
       /\ WF_vars(Poll(v))
       /\ \A a \in Attempts :
            /\ WF_vars(VMSendTask(v, a) \/ VMExecutor(v, a) \/ VMCannotGetExecutor(v, a))
            /\ WF_vars(VMTerminated(v, a))
       /\ WF_vars(VMNoMoreTasks(v) \/ SuicideOnGetTask(v))
  /\ \A a \in Attempts :
       /\ WF_vars(OfferFails(a) \/ AcquireLocally(a) \/ AcquireExecutor(a))
       /\ WF_vars(ExecutorAddress(a) \/ NoExecutorAddress(a) \/ WriteRunning(a))
       /\ WF_vars((\E o \in Outcomes : ExecutorEnds(a, o)) \/ ExecutorStops(a))
       /\ WF_vars(\/ DecideNotTaken(a) \/ DecideSuccess(a) \/ DecideFailure(a)
                  \/ DecideVmNotAlive(a) \/ DecideNoAnswer(a) \/ DecideUnexpected(a))
  /\ \A t \in Tasks :
       /\ WF_vars(\E v \in VMs : GetTaskUnhandled(t, v) \/ \E a \in Attempts : GetTask(t, v, a))
       /\ WF_vars(\E v \in VMs : TerminatedVm(t, v))
       /\ WF_vars(\E a \in Attempts : TerminatedExecutor(t, a))
       /\ WF_vars(PersistAndSuicide(t))
       /\ WF_vars(HandleSuccess(t) \/ HandleFailure(t) \/ EscalateAndRestart(t) \/ TaskActorGone(t))

FairSpec == Spec /\ Fairness
-----------------------------------------------------------------------------
(* Properties *)

(* A live VMProxyActor has its GetTask timer running exactly when it has     *)
(* space: a VM that could work always asks for work, one that is reserved   *)
(* never does, and no handler starts a second timer or leaks one.  (Three   *)
(* handlers set haveSpaceForTasks, four touch scheduleGetTask.)             *)
PollsIffHasSpace == \A v \in VMs : vm[v].up => (vm[v].haveSpace <=> vm[v].timer)

(* The end state of a task is written once: neither the sibling failure     *)
(* that sends PersistAndSuicide, nor a second executor, nor a late callback *)
(* ever replaces the SUCCESS, FAILURE or ABANDONED in its row.              *)
EndStateIsFinal ==
  [][\A t \in Tasks : db[t].end # "NONE" => db'[t].end = db[t].end]_vars

(* Once the supervisor strategy has set taskDone the TaskActor handles no   *)
(* further message: it has failed and waits for the group to stop it.  So   *)
(* a finished task is never reset or offered again, and the branch          *)
(* "Terminated + task done" of handleTermianted is never needed.            *)
DoneTaskHandlesNothing == \A t \in Tasks : task[t].taskDone => task[t].state # "up"

(* Only the failure of a task of the group makes another one ABANDONED,     *)
(* and a task is told to give up only when that failure is in the database. *)
AbandonedBecauseOfFailure ==
  \A t \in Tasks : db[t].end = "ABANDONED" \/ task[t].suicide =>
     \E u \in Tasks \ {t} : db[u].end = "FAILURE"

(* The group stops itself only when every TaskActor and every executor has  *)
(* ended, so no test of the group is running when the run is reported done. *)
GoneGroupRunsNothing ==
  group.state = "gone" =>
    \A a \in Attempts : att[a].executor \in {"none", "stopped"}

\* Attempt a still has something to do for its task.
Active(a) ==
  \/ att[a].reply # "none"
  \/ att[a].callback = "directory"
  \/ att[a].executor \in {"idle", "running", "suspended"}

(* isTaken keeps a task from being executed twice at the same time: it has  *)
(* at most one offer or executor.                                           *)
AtMostOneExecution ==
  \A a, b \in Attempts : Active(a) /\ Active(b) /\ att[a].task = att[b].task => a = b

\* Attempt a has the space of VM v: from the "acquire" of the VM until the VM
\* has handled that the executor ended, or that there is none.
HasSpaceOf(a, v) ==
  \/ /\ att[a].vm = v
     /\ \/ att[a].reply = "acquire"
        \/ att[a].callback = "directory"
        \/ att[a].executor \in {"idle", "running", "suspended"}
  \/ a \in vm[v].watching
  \/ \E k \in {"Executor", "CannotGetExecutor"} : [kind |-> k, att |-> a] \in mail[v]

Shared(v) == \E a, b \in Attempts : a # b /\ HasSpaceOf(a, v) /\ HasSpaceOf(b, v)
OverBooked(v) == vm[v].haveSpace /\ \E a \in Attempts : HasSpaceOf(a, v)

(* haveSpaceForTasks keeps a VM to one test at a time until a test sends a  *)
(* REST request: a VM gets a second test only while it says it has space    *)
(* although a test is on it, and it comes to say so only by the answer to a *)
(* REST request (handlerSuccess), or when one of two tests ends.  Late      *)
(* answers, crashed executors and a silent directory never give away the    *)
(* space of a test that still has it.                                       *)
OnlyRestShares ==
  [][\A v \in VMs :
       /\ Shared(v)' => Shared(v) \/ OverBooked(v)
       /\ OverBooked(v)' =>
            OverBooked(v) \/ Shared(v) \/ \E a \in Attempts : VMRestApiRequest(v, a)]_vars

(* The result of a task is the one of the executor the task is assigned to  *)
(* (TaskActor: "we do not trust the TestSuccessException and reset the      *)
(* task" once Terminated of the VM has been handled).                       *)
ResultOfCurrentExecutor ==
  [][\A a \in Attempts : \A t \in Tasks :
       /\ att[a].task = t /\ att[a].failed # "none" /\ att'[a].failed = "none"
       /\ task[t].state = "up" /\ task'[t].state \in {"success", "failure"}
       => task[t].executorActor = a]_vars

(* No task is lost: a TaskActor ends only with an end state in the database.*)
NoTaskIsLost == \A t \in Tasks : task[t].state = "gone" => db[t].end # "NONE"

\* No executor stops, by a crash or an unexpected exception, before its task is done.
NoExecutorIsLost ==
  \A a \in Attempts : att[a].executor = "stopped" =>
    task[att[a].task].taskDone \/ Ended(att[a].task)

\* The directory is not silent for ever.
DirectoryAnswers == <>[][\A a \in Attempts : ~NoExecutorAddress(a)]_vars

(* Every task ends: it is executed, or abandoned after a failure, although  *)
(* the directory may leave GetExecutorAddress unanswered for a while.       *)
EveryTaskEnds ==
  []NoExecutorIsLost /\ DirectoryAnswers => \A t \in Tasks : <>(db[t].end # "NONE")

(* A VM that reserved its space gets it back, or stops, whatever happens to *)
(* executors and directory; as long as no task is abandoned and no ask      *)
(* times out, which handleGetTask does not tell the VM.                     *)
EveryReservationEnds ==
  [](\A t \in Tasks : db[t].end # "ABANDONED") =>
    \A v \in VMs : ~vm[v].haveSpace ~> (vm[v].haveSpace \/ ~vm[v].up)

\* The result of a task as its group sees it; a TaskActor that was stopped
\* without an end state in its row is lost.
resultOf ==
  [t \in Tasks |-> IF db[t].end # "NONE" THEN db[t].end
                   ELSE IF Ended(t) THEN "LOST" ELSE "OPEN"]

Contract == INSTANCE TaskResults WITH result <- resultOf

(* The actors, the callbacks and the supervision together implement the     *)
(* contract of TaskResults, whatever fails.                                 *)
ImplementsTaskResults == Contract!Spec

=============================================================================
