------------------------ MODULE TaskExecutionProofs ------------------------
(***************************************************************************)
(* Theorems about TaskExecution, for every set of tasks, VMs and attempts, *)
(* every set of outcomes and every set of faults.                          *)
(***************************************************************************)
EXTENDS TaskExecution, TLAPS

-----------------------------------------------------------------------------
(* Type correctness *)

\* An attempt that was ever made names its task and its VM.
AttemptsOK ==
  \A a \in Attempts :
    \/ att[a].task \in Tasks /\ att[a].vm \in VMs
    \/ /\ att[a].reply = "none" /\ att[a].callback = "none"
       /\ att[a].executor = "none" /\ att[a].failed = "none"

\* TypeOK alone is not inductive: a callback writes the VM of its attempt into
\* the fields of the TaskActor.
TypeInv == TypeOK /\ AttemptsOK

(* A message sent to a VM leaves the mailboxes well typed. *)
LEMMA DeliverType ==
  ASSUME mail \in [VMs -> SUBSET VmMessage], NEW v \in VMs, NEW m \in VmMessage
  PROVE  Deliver(v, m) \in [VMs -> SUBSET VmMessage]
  BY DEF Deliver

(* A step that leaves the attempts alone keeps what is said of them. *)
LEMMA SameAttempts ==
  ASSUME AttemptsOK, UNCHANGED att
  PROVE  AttemptsOK'
  BY DEF AttemptsOK

(* Stopping a TaskActor leaves it well typed. *)
LEMMA StoppedType ==
  ASSUME task \in [Tasks -> TaskActor], NEW t \in Tasks
  PROVE  StoppedActor(t) \in TaskActor
  BY DEF StoppedActor, TaskActor, ActorStates

(* The steps of a VMProxyActor keep the types. *)
LEMMA VmStepType ==
  ASSUME TypeInv, NEW v \in VMs, VmStep(v)
  PROVE  TypeInv'
<1>t. task \in [Tasks -> TaskActor]
  BY DEF TypeInv, TypeOK
<1>a. att \in [Attempts -> Attempt] /\ AttemptsOK
  BY DEF TypeInv, TypeOK
<1>v. vm \in [VMs -> VMProxy]
  BY DEF TypeInv, TypeOK
<1>m. mail \in [VMs -> SUBSET VmMessage]
  BY DEF TypeInv, TypeOK
<1>g. group \in Group /\ db \in [Tasks -> Row]
  BY DEF TypeInv, TypeOK
<1>1. CASE Poll(v)
  <2>1. task' \in [Tasks -> TaskActor]
    BY <1>t, <1>1 DEF Poll, TaskActor
  <2> QED
    BY <1>1, <1>a, <1>v, <1>m, <1>g, <2>1, SameAttempts DEF TypeInv, TypeOK, Poll
<1>2. ASSUME NEW a \in Attempts, VMSendTask(v, a)
      PROVE  TypeInv'
  <2>1. mail' \in [VMs -> SUBSET VmMessage]
    BY <1>m, <1>2 DEF VMSendTask, VmReceives
  <2>2. att' \in [Attempts -> Attempt]
    BY <1>a, <1>2 DEF VMSendTask, Attempt
  <2>3. AttemptsOK'
    BY <1>a, <1>m, <1>2 DEF VMSendTask, Attempt, AttemptsOK
  <2>4. vm' \in [VMs -> VMProxy]
    BY <1>v, <1>2 DEF VMSendTask, VMProxy
  <2> QED
    BY <1>2, <1>t, <1>g, <2>1, <2>2, <2>3, <2>4 DEF TypeInv, TypeOK, VMSendTask
<1>3. ASSUME NEW a \in Attempts, VMExecutor(v, a)
      PROVE  TypeInv'
  <2>1. mail' \in [VMs -> SUBSET VmMessage]
    BY <1>m, <1>3 DEF VMExecutor, VmReceives
  <2>2. vm' \in [VMs -> VMProxy]
    BY <1>v, <1>3 DEF VMExecutor, VMProxy
  <2> QED
    BY <1>3, <1>t, <1>a, <1>g, <2>1, <2>2, SameAttempts DEF TypeInv, TypeOK, VMExecutor
<1>4. ASSUME NEW a \in Attempts, VMCannotGetExecutor(v, a)
      PROVE  TypeInv'
  <2>1. mail' \in [VMs -> SUBSET VmMessage]
    BY <1>m, <1>4 DEF VMCannotGetExecutor, VmReceives
  <2>2. vm' \in [VMs -> VMProxy]
    BY <1>v, <1>4 DEF VMCannotGetExecutor, VMProxy
  <2> QED
    BY <1>4, <1>t, <1>a, <1>g, <2>1, <2>2, SameAttempts DEF TypeInv, TypeOK, VMCannotGetExecutor
<1>5. ASSUME VMNoMoreTasks(v) \/ VMDies(v)
      PROVE  TypeInv'
  <2>0. DeadVM \in VMProxy
    BY DEF VMProxy, DeadVM
  <2>1. vm' \in [VMs -> VMProxy]
    BY <1>v, <1>5, <2>0 DEF VMNoMoreTasks, VMDies
  <2>2. mail' \in [VMs -> SUBSET VmMessage]
    BY <1>m, <1>5 DEF VMNoMoreTasks, VMDies
  <2> QED
    BY <1>5, <1>t, <1>a, <1>g, <2>1, <2>2, SameAttempts DEF TypeInv, TypeOK, VMNoMoreTasks, VMDies
<1>6. CASE SuicideOnGetTask(v)
  <2>1. group' \in Group
    BY <1>g, <1>6 DEF SuicideOnGetTask, Group
  <2> QED
    BY <1>6, <1>t, <1>a, <1>v, <1>m, <1>g, <2>1, SameAttempts DEF TypeInv, TypeOK, SuicideOnGetTask
<1>7. ASSUME NEW a \in Attempts, VMTerminated(v, a)
      PROVE  TypeInv'
  <2>1. vm' \in [VMs -> VMProxy]
    BY <1>v, <1>7 DEF VMTerminated, VMProxy
  <2> QED
    BY <1>7, <1>t, <1>a, <1>m, <1>g, <2>1, SameAttempts DEF TypeInv, TypeOK, VMTerminated
<1>8. ASSUME NEW a \in Attempts, VMRestApiRequest(v, a)
      PROVE  TypeInv'
  <2>0. vm' = [vm EXCEPT ![v].haveSpace = TRUE, ![v].timer = TRUE]
    BY <1>8 DEF VMRestApiRequest
  <2>1. vm' \in [VMs -> VMProxy]
    BY <1>v, <2>0 DEF VMProxy
  <2> QED
    BY <1>8, <1>t, <1>a, <1>m, <1>g, <2>1, SameAttempts DEF TypeInv, TypeOK, VMRestApiRequest
<1> QED
  BY <1>1, <1>2, <1>3, <1>4, <1>5, <1>6, <1>7, <1>8 DEF VmStep

(* An attempt whose ask, callback or executor is pending has been made. *)
LEMMA PendingAttempt ==
  ASSUME TypeInv, NEW a \in Attempts,
         \/ att[a].reply # "none" \/ att[a].callback # "none"
         \/ att[a].executor # "none" \/ att[a].failed # "none"
  PROVE  att[a].task \in Tasks /\ att[a].vm \in VMs
  BY DEF TypeInv, AttemptsOK

(* Replacing one TaskActor, one attempt or one row by a well-typed one. *)
LEMMA TaskChanged ==
  ASSUME task \in [Tasks -> TaskActor], NEW t \in Tasks, NEW x \in TaskActor,
         task' = [task EXCEPT ![t] = x]
  PROVE  task' \in [Tasks -> TaskActor]
  OBVIOUS

\* A step that changes one attempt to another attempt keeps the type of att.
LEMMA AttemptChanged ==
  ASSUME att \in [Attempts -> Attempt], AttemptsOK, NEW a \in Attempts, NEW x \in Attempt,
         x.task \in Tasks, x.vm \in VMs, att' = [att EXCEPT ![a] = x]
  PROVE  att' \in [Attempts -> Attempt] /\ AttemptsOK'
<1>1. att' \in [Attempts -> Attempt]
  OBVIOUS
<1>2. ASSUME NEW b \in Attempts PROVE att'[b] = IF b = a THEN x ELSE att[b]
  OBVIOUS
<1>3. AttemptsOK'
  BY <1>2 DEF AttemptsOK
<1> QED
  BY <1>1, <1>3

\* A step that changes one row to another row keeps the type of db
\* (UpdateTask, UpdateTaskStatus).
LEMMA RowChanged ==
  ASSUME db \in [Tasks -> Row], NEW t \in Tasks, NEW x \in Row, db' = [db EXCEPT ![t] = x]
  PROVE  db' \in [Tasks -> Row]
  OBVIOUS

(* Handing over an executor keeps the types. *)
LEMMA HandOverType ==
  ASSUME TypeInv, NEW a \in Attempts, att[a].task \in Tasks, att[a].vm \in VMs,
         NEW tgt \in VMs \cup {None}, NEW watch \in SUBSET VMs,
         HandOver(a, tgt, watch), UNCHANGED <<group, db>>
  PROVE  TypeInv'
<1>t. task \in [Tasks -> TaskActor]
  BY DEF TypeInv, TypeOK
<1>a. att \in [Attempts -> Attempt] /\ AttemptsOK
  BY DEF TypeInv, TypeOK
<1>v. vm \in [VMs -> VMProxy]
  BY DEF TypeInv, TypeOK
<1>m. mail \in [VMs -> SUBSET VmMessage]
  BY DEF TypeInv, TypeOK
<1>g. group \in Group /\ db \in [Tasks -> Row]
  BY DEF TypeInv, TypeOK
<1>x. att[a] \in Attempt
  BY <1>a
<1>y. task[att[a].task] \in TaskActor
  BY <1>t
<1> DEFINE t == att[a].task
           created == ~Ended(t)
           sent == created /\ tgt # None
           x == [att[a] EXCEPT !.reply = "none",
                               !.callback = IF sent THEN "running" ELSE "none",
                               !.executor = IF sent THEN "running"
                                            ELSE IF created THEN "idle" ELSE @]
           y == [task[t] EXCEPT !.targetVm = tgt, !.watchedVms = @ \cup watch,
                                !.executorActor = IF created THEN a ELSE @,
                                !.watchedExecs = IF created THEN @ \cup {a} ELSE @]
<1>1. x \in Attempt /\ x.task \in Tasks /\ x.vm \in VMs
  BY <1>x DEF Attempt
<1>2. att' = [att EXCEPT ![a] = x]
  BY Zenon DEF HandOver
<1>3. att' \in [Attempts -> Attempt] /\ AttemptsOK'
  BY <1>a, <1>1, <1>2, AttemptChanged
<1>4. y \in TaskActor
  BY <1>y DEF TaskActor
<1>5. task' = [task EXCEPT ![t] = y]
  BY Zenon DEF HandOver
<1>6. task' \in [Tasks -> TaskActor]
  BY <1>t, <1>4, <1>5, TaskChanged
<1>7. mail' \in [VMs -> SUBSET VmMessage]
  BY <1>m, DeliverType DEF HandOver, VmMessage
<1> QED
  BY <1>v, <1>g, <1>3, <1>6, <1>7 DEF TypeInv, TypeOK, HandOver

(* The callbacks keep the types. *)
LEMMA CallbackType ==
  ASSUME TypeInv, NEW a \in Attempts,
         \/ OfferFails(a) \/ AcquireLocally(a) \/ AcquireExecutor(a)
         \/ ExecutorAddress(a) \/ NoExecutorAddress(a) \/ WriteRunning(a)
  PROVE  TypeInv'
<1>t. task \in [Tasks -> TaskActor]
  BY DEF TypeInv, TypeOK
<1>a. att \in [Attempts -> Attempt] /\ AttemptsOK
  BY DEF TypeInv, TypeOK
<1>v. vm \in [VMs -> VMProxy]
  BY DEF TypeInv, TypeOK
<1>m. mail \in [VMs -> SUBSET VmMessage]
  BY DEF TypeInv, TypeOK
<1>g. group \in Group /\ db \in [Tasks -> Row]
  BY DEF TypeInv, TypeOK
<1> DEFINE t == att[a].task
<1>1. t \in Tasks /\ att[a].vm \in VMs
  BY PendingAttempt
  DEF OfferFails, AcquireLocally, AcquireExecutor, ExecutorAddress, NoExecutorAddress, WriteRunning
<1>x. att[a] \in Attempt
  BY <1>a
<1>y. task[t] \in TaskActor
  BY <1>t, <1>1
<1>2. task[t].targetVm \in VMs \cup {None}
  BY <1>t, <1>1 DEF TaskActor
<1>3. CASE OfferFails(a)
  <2> DEFINE x == [att[a] EXCEPT !.reply = "none"]
  <2>1. x \in Attempt /\ x.task \in Tasks /\ x.vm \in VMs
    BY <1>x, <1>1 DEF Attempt
  <2>2. att' = [att EXCEPT ![a] = x]
    BY <1>3, Zenon DEF OfferFails
  <2>3. att' \in [Attempts -> Attempt] /\ AttemptsOK'
    BY <1>a, <2>1, <2>2, AttemptChanged
  <2> DEFINE y == [task[t] EXCEPT !.isTaken = FALSE]
  <2>4. y \in TaskActor
    BY <1>y, <1>1 DEF TaskActor, ActorStates
  <2>5. task' = [task EXCEPT ![t] = y]
    BY <1>3, Zenon DEF OfferFails
  <2>6. task' \in [Tasks -> TaskActor]
    BY <1>t, <1>1, <2>4, <2>5, TaskChanged
  <2> QED
    BY <1>3, <1>v, <1>m, <1>g, <2>3, <2>6 DEF TypeInv, TypeOK, OfferFails
<1>4. CASE AcquireLocally(a)
  <2>1. HandOver(a, att[a].vm, {att[a].vm}) /\ UNCHANGED <<group, db>>
    BY <1>4 DEF AcquireLocally
  <2>2. att[a].vm \in VMs \cup {None} /\ {att[a].vm} \in SUBSET VMs
    BY <1>1
  <2> QED
    BY <1>1, <2>1, <2>2, HandOverType
<1>5. CASE AcquireExecutor(a)
  <2> DEFINE x == [att[a] EXCEPT !.reply = "none", !.callback = "directory"]
  <2>1. x \in Attempt /\ x.task \in Tasks /\ x.vm \in VMs
    BY <1>x, <1>1 DEF Attempt
  <2>2. att' = [att EXCEPT ![a] = x]
    BY <1>5, Zenon DEF AcquireExecutor
  <2>3. att' \in [Attempts -> Attempt] /\ AttemptsOK'
    BY <1>a, <2>1, <2>2, AttemptChanged
  <2> DEFINE y == [task[t] EXCEPT !.targetVm = att[a].vm, !.watchedVms = @ \cup {att[a].vm}]
  <2>4. y \in TaskActor
    BY <1>y, <1>1 DEF TaskActor, ActorStates
  <2>5. task' = [task EXCEPT ![t] = y]
    BY <1>5, Zenon DEF AcquireExecutor
  <2>6. task' \in [Tasks -> TaskActor]
    BY <1>t, <1>1, <2>4, <2>5, TaskChanged
  <2> QED
    BY <1>5, <1>v, <1>m, <1>g, <2>3, <2>6 DEF TypeInv, TypeOK, AcquireExecutor
<1>6. CASE ExecutorAddress(a)
  <2>1. HandOver(a, task[t].targetVm, {}) /\ UNCHANGED <<group, db>>
    BY <1>6 DEF ExecutorAddress
  <2>2. {} \in SUBSET VMs
    OBVIOUS
  <2> QED
    BY <1>1, <1>2, <2>1, <2>2, HandOverType
<1>7. CASE NoExecutorAddress(a)
  <2> DEFINE x == [att[a] EXCEPT !.callback = "none"]
  <2>1. x \in Attempt /\ x.task \in Tasks /\ x.vm \in VMs
    BY <1>x, <1>1 DEF Attempt
  <2>2. att' = [att EXCEPT ![a] = x]
    BY <1>7, Zenon DEF NoExecutorAddress
  <2>3. att' \in [Attempts -> Attempt] /\ AttemptsOK'
    BY <1>a, <2>1, <2>2, AttemptChanged
  <2> DEFINE y == [task[t] EXCEPT !.isTaken = IF task[t].targetVm = None THEN @ ELSE FALSE]
  <2>4. y \in TaskActor
    BY <1>y, <1>1 DEF TaskActor, ActorStates
  <2>5. task' = [task EXCEPT ![t] = y]
    BY <1>7, Zenon DEF NoExecutorAddress
  <2>6. task' \in [Tasks -> TaskActor]
    BY <1>t, <1>1, <2>4, <2>5, TaskChanged
  <2>7. mail' \in [VMs -> SUBSET VmMessage]
    BY <1>m, <1>2, <1>7, DeliverType DEF NoExecutorAddress, VmMessage
  <2> QED
    BY <1>7, <1>v, <1>g, <2>3, <2>6, <2>7 DEF TypeInv, TypeOK, NoExecutorAddress
<1>8. CASE WriteRunning(a)
  <2> DEFINE x == [att[a] EXCEPT !.callback = "none"]
  <2>1. x \in Attempt /\ x.task \in Tasks /\ x.vm \in VMs
    BY <1>x, <1>1 DEF Attempt
  <2>2. att' = [att EXCEPT ![a] = x]
    BY <1>8, Zenon DEF WriteRunning
  <2>3. att' \in [Attempts -> Attempt] /\ AttemptsOK'
    BY <1>a, <2>1, <2>2, AttemptChanged
  <2> DEFINE r == [db[t] EXCEPT !.status = "RUNNING"]
  <2>4. r \in Row
    BY <1>g, <1>1 DEF Row
  <2>5. db' = [db EXCEPT ![t] = r]
    BY <1>8, Zenon DEF WriteRunning
  <2>6. db' \in [Tasks -> Row]
    BY <1>g, <1>1, <2>4, <2>5, RowChanged
  <2> QED
    BY <1>8, <1>t, <1>v, <1>m, <1>g, <2>3, <2>6 DEF TypeInv, TypeOK, WriteRunning
<1> QED
  BY <1>3, <1>4, <1>5, <1>6, <1>7, <1>8

(* The executors keep the types. *)
LEMMA ExecutorType ==
  ASSUME TypeInv, NEW a \in Attempts,
         (\E o \in Outcomes : ExecutorEnds(a, o)) \/ ExecutorStops(a) \/ ExecutorCrashes(a)
  PROVE  TypeInv'
<1>t. task \in [Tasks -> TaskActor]
  BY DEF TypeInv, TypeOK
<1>a. att \in [Attempts -> Attempt] /\ AttemptsOK
  BY DEF TypeInv, TypeOK
<1>v. vm \in [VMs -> VMProxy]
  BY DEF TypeInv, TypeOK
<1>m. mail \in [VMs -> SUBSET VmMessage]
  BY DEF TypeInv, TypeOK
<1>g. group \in Group /\ db \in [Tasks -> Row]
  BY DEF TypeInv, TypeOK
<1>1. att[a].task \in Tasks /\ att[a].vm \in VMs
  BY PendingAttempt DEF ExecutorEnds, ExecutorStops, ExecutorCrashes
<1>x. att[a] \in Attempt
  BY <1>a
<1>2. ASSUME NEW o \in Outcomes, ExecutorEnds(a, o) PROVE TypeInv'
  <2>0. o \in Verdicts \cup {"none"}
    BY ConstantsAssumption
  <2> DEFINE x == [att[a] EXCEPT !.executor = "suspended", !.failed = o]
  <2>1. x \in Attempt /\ x.task \in Tasks /\ x.vm \in VMs
    BY <1>x, <1>1, <2>0 DEF Attempt
  <2>2. att' = [att EXCEPT ![a] = x]
    BY <1>2, Zenon DEF ExecutorEnds
  <2>3. att' \in [Attempts -> Attempt] /\ AttemptsOK'
    BY <1>a, <2>1, <2>2, AttemptChanged
  <2> QED
    BY <1>2, <1>t, <1>v, <1>m, <1>g, <2>3 DEF TypeInv, TypeOK, ExecutorEnds
<1>3. CASE ExecutorStops(a)
  <2> DEFINE x == [att[a] EXCEPT !.executor = "stopped", !.failed = IF Ended(att[a].task) THEN "none" ELSE @]
  <2>1. x \in Attempt /\ x.task \in Tasks /\ x.vm \in VMs
    BY <1>x, <1>1 DEF Attempt
  <2>2. att' = [att EXCEPT ![a] = x]
    BY <1>3, Zenon DEF ExecutorStops
  <2>3. att' \in [Attempts -> Attempt] /\ AttemptsOK'
    BY <1>a, <2>1, <2>2, AttemptChanged
  <2> QED
    BY <1>3, <1>t, <1>v, <1>m, <1>g, <2>3 DEF TypeInv, TypeOK, ExecutorStops
<1>4. CASE ExecutorCrashes(a)
  <2> DEFINE x == [att[a] EXCEPT !.executor = "stopped"]
  <2>1. x \in Attempt /\ x.task \in Tasks /\ x.vm \in VMs
    BY <1>x, <1>1 DEF Attempt
  <2>2. att' = [att EXCEPT ![a] = x]
    BY <1>4, Zenon DEF ExecutorCrashes
  <2>3. att' \in [Attempts -> Attempt] /\ AttemptsOK'
    BY <1>a, <2>1, <2>2, AttemptChanged
  <2> QED
    BY <1>4, <1>t, <1>v, <1>m, <1>g, <2>3 DEF TypeInv, TypeOK, ExecutorCrashes
<1> QED
  BY <1>2, <1>3, <1>4

(* The supervisor strategy of the TaskActor keeps the types. *)
LEMMA DecideType ==
  ASSUME TypeInv, NEW a \in Attempts,
         \/ DecideNotTaken(a) \/ DecideSuccess(a) \/ DecideFailure(a)
         \/ DecideVmNotAlive(a) \/ DecideNoAnswer(a) \/ DecideUnexpected(a)
  PROVE  TypeInv'
<1>t. task \in [Tasks -> TaskActor]
  BY DEF TypeInv, TypeOK
<1>a. att \in [Attempts -> Attempt] /\ AttemptsOK
  BY DEF TypeInv, TypeOK
<1>v. vm \in [VMs -> VMProxy]
  BY DEF TypeInv, TypeOK
<1>m. mail \in [VMs -> SUBSET VmMessage]
  BY DEF TypeInv, TypeOK
<1>g. group \in Group /\ db \in [Tasks -> Row]
  BY DEF TypeInv, TypeOK
<1> DEFINE t == att[a].task
<1>1. t \in Tasks /\ att[a].vm \in VMs
  BY PendingAttempt
  DEF DecideNotTaken, DecideSuccess, DecideFailure, DecideVmNotAlive, DecideNoAnswer,
      DecideUnexpected, Asks, Supervises
<1>x. att[a] \in Attempt
  BY <1>a
<1>y. task[t] \in TaskActor
  BY <1>t, <1>1
<1>2. CASE DecideNotTaken(a)
  <2> DEFINE x == [att[a] EXCEPT !.executor = "stopped", !.failed = "none"]
  <2>1. x \in Attempt /\ x.task \in Tasks /\ x.vm \in VMs
    BY <1>x, <1>1 DEF Attempt
  <2>2. att' = [att EXCEPT ![a] = x]
    BY <1>2, Zenon DEF DecideNotTaken, StopExecutor
  <2>3. att' \in [Attempts -> Attempt] /\ AttemptsOK'
    BY <1>a, <2>1, <2>2, AttemptChanged
  <2> QED
    BY <1>2, <1>t, <1>v, <1>m, <1>g, <2>3 DEF TypeInv, TypeOK, DecideNotTaken
<1>3. CASE DecideSuccess(a)
  <2> DEFINE x == [att[a] EXCEPT !.failed = "none"]
  <2>1. x \in Attempt /\ x.task \in Tasks /\ x.vm \in VMs
    BY <1>x, <1>1 DEF Attempt
  <2>2. att' = [att EXCEPT ![a] = x]
    BY <1>3, Zenon DEF DecideSuccess
  <2>3. att' \in [Attempts -> Attempt] /\ AttemptsOK'
    BY <1>a, <2>1, <2>2, AttemptChanged
  <2> DEFINE y == [task[t] EXCEPT !.taskDone = TRUE, !.state = "success"]
  <2>4. y \in TaskActor
    BY <1>y, <1>1 DEF TaskActor, ActorStates
  <2>5. task' = [task EXCEPT ![t] = y]
    BY <1>3, Zenon DEF DecideSuccess
  <2>6. task' \in [Tasks -> TaskActor]
    BY <1>t, <1>1, <2>4, <2>5, TaskChanged
  <2> QED
    BY <1>3, <1>t, <1>v, <1>m, <1>g, <2>3, <2>6 DEF TypeInv, TypeOK, DecideSuccess
<1>4. CASE DecideFailure(a)
  <2> DEFINE x == [att[a] EXCEPT !.failed = "none"]
  <2>1. x \in Attempt /\ x.task \in Tasks /\ x.vm \in VMs
    BY <1>x, <1>1 DEF Attempt
  <2>2. att' = [att EXCEPT ![a] = x]
    BY <1>4, Zenon DEF DecideFailure
  <2>3. att' \in [Attempts -> Attempt] /\ AttemptsOK'
    BY <1>a, <2>1, <2>2, AttemptChanged
  <2> DEFINE y == [task[t] EXCEPT !.taskDone = TRUE, !.state = "failure"]
  <2>4. y \in TaskActor
    BY <1>y, <1>1 DEF TaskActor, ActorStates
  <2>5. task' = [task EXCEPT ![t] = y]
    BY <1>4, Zenon DEF DecideFailure
  <2>6. task' \in [Tasks -> TaskActor]
    BY <1>t, <1>1, <2>4, <2>5, TaskChanged
  <2> QED
    BY <1>4, <1>t, <1>v, <1>m, <1>g, <2>3, <2>6 DEF TypeInv, TypeOK, DecideFailure
<1>5. CASE DecideVmNotAlive(a)
  <2> DEFINE x == [att[a] EXCEPT !.executor = "stopped", !.failed = "none"]
  <2>1. x \in Attempt /\ x.task \in Tasks /\ x.vm \in VMs
    BY <1>x, <1>1 DEF Attempt
  <2>2. att' = [att EXCEPT ![a] = x]
    BY <1>5, Zenon DEF DecideVmNotAlive, StopExecutor
  <2>3. att' \in [Attempts -> Attempt] /\ AttemptsOK'
    BY <1>a, <2>1, <2>2, AttemptChanged
  <2> DEFINE y == [task[t] EXCEPT !.taskDone = FALSE]
  <2>4. y \in TaskActor
    BY <1>y, <1>1 DEF TaskActor, ActorStates
  <2>5. task' = [task EXCEPT ![t] = y]
    BY <1>5, Zenon DEF DecideVmNotAlive
  <2>6. task' \in [Tasks -> TaskActor]
    BY <1>t, <1>1, <2>4, <2>5, TaskChanged
  <2> QED
    BY <1>5, <1>t, <1>v, <1>m, <1>g, <2>3, <2>6 DEF TypeInv, TypeOK, DecideVmNotAlive
<1>6. CASE DecideNoAnswer(a)
  <2> DEFINE x == [att[a] EXCEPT !.failed = "none"]
  <2>1. x \in Attempt /\ x.task \in Tasks /\ x.vm \in VMs
    BY <1>x, <1>1 DEF Attempt
  <2>2. att' = [att EXCEPT ![a] = x]
    BY <1>6, Zenon DEF DecideNoAnswer
  <2>3. att' \in [Attempts -> Attempt] /\ AttemptsOK'
    BY <1>a, <2>1, <2>2, AttemptChanged
  <2> DEFINE y == [task[t] EXCEPT !.state = "error"]
  <2>4. y \in TaskActor
    BY <1>y, <1>1 DEF TaskActor, ActorStates
  <2>5. task' = [task EXCEPT ![t] = y]
    BY <1>6, Zenon DEF DecideNoAnswer
  <2>6. task' \in [Tasks -> TaskActor]
    BY <1>t, <1>1, <2>4, <2>5, TaskChanged
  <2> QED
    BY <1>6, <1>t, <1>v, <1>m, <1>g, <2>3, <2>6 DEF TypeInv, TypeOK, DecideNoAnswer
<1>7. CASE DecideUnexpected(a)
  <2> DEFINE x == [att[a] EXCEPT !.executor = "stopped", !.failed = "none"]
  <2>1. x \in Attempt /\ x.task \in Tasks /\ x.vm \in VMs
    BY <1>x, <1>1 DEF Attempt
  <2>2. att' = [att EXCEPT ![a] = x]
    BY <1>7, Zenon DEF DecideUnexpected, StopExecutor
  <2>3. att' \in [Attempts -> Attempt] /\ AttemptsOK'
    BY <1>a, <2>1, <2>2, AttemptChanged
  <2> DEFINE y == [task[t] EXCEPT !.taskDone = FALSE]
  <2>4. y \in TaskActor
    BY <1>y, <1>1 DEF TaskActor, ActorStates
  <2>5. task' = [task EXCEPT ![t] = y]
    BY <1>7, Zenon DEF DecideUnexpected
  <2>6. task' \in [Tasks -> TaskActor]
    BY <1>t, <1>1, <2>4, <2>5, TaskChanged
  <2> QED
    BY <1>7, <1>t, <1>v, <1>m, <1>g, <2>3, <2>6 DEF TypeInv, TypeOK, DecideUnexpected
<1> QED
  BY <1>2, <1>3, <1>4, <1>5, <1>6, <1>7

(* The messages of a TaskActor keep the types. *)
LEMMA MessageType ==
  ASSUME TypeInv, NEW t \in Tasks,
         \/ \E v \in VMs, a \in Attempts : GetTask(t, v, a)
         \/ \E v \in VMs : GetTaskUnhandled(t, v) \/ TerminatedVm(t, v)
         \/ \E a \in Attempts : TerminatedExecutor(t, a)
         \/ PersistAndSuicide(t)
  PROVE  TypeInv'
<1>t. task \in [Tasks -> TaskActor]
  BY DEF TypeInv, TypeOK
<1>a. att \in [Attempts -> Attempt] /\ AttemptsOK
  BY DEF TypeInv, TypeOK
<1>v. vm \in [VMs -> VMProxy]
  BY DEF TypeInv, TypeOK
<1>m. mail \in [VMs -> SUBSET VmMessage]
  BY DEF TypeInv, TypeOK
<1>g. group \in Group /\ db \in [Tasks -> Row]
  BY DEF TypeInv, TypeOK
<1>s. StoppedActor(t) \in TaskActor
  BY <1>t, StoppedType
<1>r. [db[t] EXCEPT !.status = "NOT_STARTED"] \in Row
  BY <1>g DEF Row
<1>1. ASSUME NEW v \in VMs, NEW a \in Attempts, GetTask(t, v, a) PROVE TypeInv'
  <2>1. Offer(t, v, "waiting") \in Attempt
    BY DEF Offer, Attempt
  <2>2. att' = [att EXCEPT ![a] = Offer(t, v, "waiting")]
    BY <1>1 DEF GetTask
  <2>3. att' \in [Attempts -> Attempt] /\ AttemptsOK'
    BY <1>a, <2>1, <2>2, AttemptChanged DEF Offer
  <2> DEFINE y == [task[t] EXCEPT !.inbox = @ \ {v}, !.isTaken = TRUE]
  <2>4. y \in TaskActor
    BY <1>t DEF TaskActor
  <2>5. task' = [task EXCEPT ![t] = y]
    BY <1>1, Zenon DEF GetTask
  <2>6. task' \in [Tasks -> TaskActor]
    BY <1>t, <2>4, <2>5, TaskChanged
  <2>7. mail' \in [VMs -> SUBSET VmMessage]
    BY <1>m, <1>1, DeliverType DEF GetTask, VmMessage
  <2> QED
    BY <1>1, <1>v, <1>g, <2>3, <2>6, <2>7 DEF TypeInv, TypeOK, GetTask
<1>2. ASSUME NEW v \in VMs, GetTaskUnhandled(t, v) PROVE TypeInv'
  <2> DEFINE y == [task[t] EXCEPT !.inbox = @ \ {v}]
  <2>4. y \in TaskActor
    BY <1>t DEF TaskActor
  <2>5. task' = [task EXCEPT ![t] = y]
    BY <1>2, Zenon DEF GetTaskUnhandled
  <2>6. task' \in [Tasks -> TaskActor]
    BY <1>t, <2>4, <2>5, TaskChanged
  <2> QED
    BY <1>2, <1>a, <1>v, <1>m, <1>g, <2>6, SameAttempts DEF TypeInv, TypeOK, GetTaskUnhandled
<1>3. ASSUME NEW v \in VMs, TerminatedVm(t, v) PROVE TypeInv'
  <2> DEFINE e == task[t].executorActor
             tgt == task[t].targetVm
             throws == IF v = tgt THEN e = None ELSE tgt = None
             execs == IF v = tgt THEN task[t].watchedExecs \ {e} ELSE task[t].watchedExecs
             exec == IF v = tgt THEN None ELSE task[t].executorActor
             target == IF throws THEN task[t].targetVm ELSE None
             state == IF throws THEN "error" ELSE task[t].state
             y == [task[t] EXCEPT !.isTaken = FALSE,
                                  !.watchedVms = @ \ {v, tgt},
                                  !.watchedExecs = execs,
                                  !.executorActor = exec,
                                  !.targetVm = target,
                                  !.state = state]
  <2>1. y \in TaskActor
    <3>1. task[t] \in TaskActor
      BY <1>t
    <3>2. execs \in SUBSET Attempts /\ exec \in Attempts \cup {None}
      BY <3>1 DEF TaskActor
    <3>3. target \in VMs \cup {None} /\ state \in ActorStates
      BY <3>1 DEF TaskActor, ActorStates
    <3> HIDE DEF tgt, execs, exec, target, state
    <3> QED
      BY <3>1, <3>2, <3>3 DEF TaskActor
  <2>2. task' = [task EXCEPT ![t] = StoppedActor(t)] \/ task' = [task EXCEPT ![t] = y]
    BY <1>3, Zenon DEF TerminatedVm
  <2>3. task' \in [Tasks -> TaskActor]
    <3> HIDE DEF y
    <3> QED
      BY <1>t, <1>s, <2>1, <2>2, TaskChanged
  <2>4. att' = att \/ (e # None /\ att' = [att EXCEPT ![e].kill = TRUE])
    BY <1>3 DEF TerminatedVm
  <2>5. att' \in [Attempts -> Attempt] /\ AttemptsOK'
    <3>1. CASE att' = att
      BY <1>a, <3>1, SameAttempts
    <3>2. CASE e # None /\ att' = [att EXCEPT ![e].kill = TRUE]
      <4>1. e \in Attempts
        BY <1>t, <3>2 DEF TaskActor
      <4> HIDE DEF e
      <4> DEFINE x == [att[e] EXCEPT !.kill = TRUE]
      <4>2. x \in Attempt
        BY <1>a, <4>1 DEF Attempt
      <4>3. att' = [att EXCEPT ![e] = x]
        BY <3>2, Zenon
      <4>4. /\ x.task = att[e].task /\ x.vm = att[e].vm /\ x.reply = att[e].reply
            /\ x.callback = att[e].callback /\ x.executor = att[e].executor
            /\ x.failed = att[e].failed
        BY <1>a, <4>1 DEF Attempt
      <4> HIDE DEF x
      <4>5. att' \in [Attempts -> Attempt]
        BY <1>a, <4>2, <4>3
      <4>6. ASSUME NEW b \in Attempts PROVE att'[b] = IF b = e THEN x ELSE att[b]
        BY <1>a, <4>1, <4>3
      <4>7. AttemptsOK'
        BY <1>a, <4>1, <4>4, <4>6 DEF AttemptsOK
      <4> QED
        BY <4>5, <4>7
    <3> QED
      BY <2>4, <3>1, <3>2
  <2>6. db' = db \/ db' = [db EXCEPT ![t] = [db[t] EXCEPT !.status = "NOT_STARTED"]]
    BY <1>3, Zenon DEF TerminatedVm, ResetRow
  <2>7. db' \in [Tasks -> Row]
    BY <1>g, <1>r, <2>6, RowChanged
  <2> QED
    BY <1>3, <1>v, <1>m, <1>g, <2>3, <2>5, <2>7 DEF TypeInv, TypeOK, TerminatedVm
<1>4. ASSUME NEW a \in Attempts, TerminatedExecutor(t, a) PROVE TypeInv'
  <2> DEFINE tgt == task[t].targetVm
             y == [task[t] EXCEPT !.isTaken = FALSE,
                                  !.watchedVms = @ \ {tgt},
                                  !.watchedExecs = @ \ {a},
                                  !.targetVm = None,
                                  !.state = IF tgt = None THEN "error" ELSE @]
  <2>1. y \in TaskActor
    BY <1>t DEF TaskActor, ActorStates
  <2>2. task' = [task EXCEPT ![t] = StoppedActor(t)] \/ task' = [task EXCEPT ![t] = y]
    BY <1>4, Zenon DEF TerminatedExecutor
  <2>3. task' \in [Tasks -> TaskActor]
    BY <1>t, <1>s, <2>1, <2>2, TaskChanged
  <2>4. db' = db \/ db' = [db EXCEPT ![t] = [db[t] EXCEPT !.status = "NOT_STARTED"]]
    BY <1>4, Zenon DEF TerminatedExecutor, ResetRow
  <2>5. db' \in [Tasks -> Row]
    BY <1>g, <1>r, <2>4, RowChanged
  <2> QED
    BY <1>4, <1>a, <1>v, <1>m, <1>g, <2>3, <2>5, SameAttempts DEF TypeInv, TypeOK, TerminatedExecutor
<1>5. CASE PersistAndSuicide(t)
  <2>1. task' \in [Tasks -> TaskActor]
    BY <1>5, <1>t, <1>s DEF PersistAndSuicide
  <2>2. db' \in [Tasks -> Row]
    BY <1>5, <1>g DEF PersistAndSuicide, Row
  <2> QED
    BY <1>5, <1>a, <1>v, <1>m, <1>g, <2>1, <2>2, SameAttempts DEF TypeInv, TypeOK, PersistAndSuicide
<1> QED
  BY <1>1, <1>2, <1>3, <1>4, <1>5

(* The supervision by the group keeps the types. *)
LEMMA SupervisionType ==
  ASSUME TypeInv, NEW t \in Tasks,
         \/ HandleSuccess(t) \/ HandleFailure(t) \/ EscalateAndRestart(t) \/ TaskActorGone(t)
  PROVE  TypeInv'
<1>t. task \in [Tasks -> TaskActor]
  BY DEF TypeInv, TypeOK
<1>a. att \in [Attempts -> Attempt] /\ AttemptsOK
  BY DEF TypeInv, TypeOK
<1>v. vm \in [VMs -> VMProxy]
  BY DEF TypeInv, TypeOK
<1>m. mail \in [VMs -> SUBSET VmMessage]
  BY DEF TypeInv, TypeOK
<1>g. group \in Group /\ db \in [Tasks -> Row]
  BY DEF TypeInv, TypeOK
<1>s. \A u \in Tasks : StoppedActor(u) \in TaskActor
  BY <1>t, StoppedType
<1>1. CASE HandleSuccess(t)
  <2>1. task' \in [Tasks -> TaskActor]
    BY <1>1, <1>t, <1>s DEF HandleSuccess
  <2>2. db' \in [Tasks -> Row]
    BY <1>1, <1>g DEF HandleSuccess, Row
  <2>3. group' \in Group
    BY <1>1, <1>g DEF HandleSuccess, Group
  <2> QED
    BY <1>1, <1>a, <1>v, <1>m, <2>1, <2>2, <2>3, SameAttempts DEF TypeInv, TypeOK, HandleSuccess
<1>2. CASE HandleFailure(t)
  <2>1. \A u \in Tasks : [task[u] EXCEPT !.suicide = TRUE] \in TaskActor
    BY <1>t DEF TaskActor
  <2>2. task' \in [Tasks -> TaskActor]
    BY <1>2, <1>t, <1>s, <2>1 DEF HandleFailure
  <2>3. db' \in [Tasks -> Row]
    BY <1>2, <1>g DEF HandleFailure, Row
  <2>4. group' \in Group
    BY <1>2, <1>g DEF HandleFailure, Group
  <2> QED
    BY <1>2, <1>a, <1>v, <1>m, <2>2, <2>3, <2>4, SameAttempts DEF TypeInv, TypeOK, HandleFailure
<1>3. CASE EscalateAndRestart(t)
  <2>1. task' \in [Tasks -> TaskActor]
    BY <1>3, <1>t, <1>s DEF EscalateAndRestart
  <2>2. group' \in Group
    BY <1>3 DEF EscalateAndRestart, Group
  <2> QED
    BY <1>3, <1>a, <1>v, <1>m, <1>g, <2>1, <2>2, SameAttempts
    DEF TypeInv, TypeOK, EscalateAndRestart
<1>4. CASE TaskActorGone(t)
  <2> DEFINE y == [task[t] EXCEPT !.state = "gone", !.executorActor = None]
  <2>1. y \in TaskActor
    BY <1>t DEF TaskActor, ActorStates
  <2>2. task' = [task EXCEPT ![t] = y]
    BY <1>4, Zenon DEF TaskActorGone
  <2>3. task' \in [Tasks -> TaskActor]
    BY <1>t, <2>1, <2>2, TaskChanged
  <2>4. group' \in Group
    BY <1>4, <1>g DEF TaskActorGone, Group
  <2> QED
    BY <1>4, <1>a, <1>v, <1>m, <1>g, <2>3, <2>4, SameAttempts DEF TypeInv, TypeOK, TaskActorGone
<1> QED
  BY <1>1, <1>2, <1>3, <1>4

(* One step of the system keeps the types. *)
LEMMA TypeInvStep == TypeInv /\ [Next]_vars => TypeInv'
<1> SUFFICES ASSUME TypeInv, [Next]_vars PROVE TypeInv'
  OBVIOUS
<1>1. ASSUME NEW v \in VMs, VmStep(v) PROVE TypeInv'
  BY <1>1, VmStepType
<1>2. ASSUME NEW a \in Attempts, AttemptStep(a) PROVE TypeInv'
  BY <1>2, CallbackType, ExecutorType, DecideType DEF AttemptStep
<1>3. ASSUME NEW t \in Tasks, TaskStep(t) PROVE TypeInv'
  BY <1>3, MessageType, SupervisionType DEF TaskStep
<1>4. CASE UNCHANGED vars
  BY <1>4, SameAttempts DEF TypeInv, TypeOK, vars
<1> QED
  BY <1>1, <1>2, <1>3, <1>4 DEF Next

(* The initial state is well typed. *)
LEMMA TypeInvInit == Init => TypeInv
<1> SUFFICES ASSUME Init PROVE TypeInv
  OBVIOUS
<1>1. task \in [Tasks -> TaskActor]
  BY DEF Init, NewTaskActor, TaskActor, ActorStates
<1>2. att \in [Attempts -> Attempt] /\ AttemptsOK
  BY DEF Init, Offer, Attempt, AttemptsOK
<1>3. vm \in [VMs -> VMProxy] /\ mail \in [VMs -> SUBSET VmMessage]
  BY DEF Init, ReadyVM, VMProxy
<1>4. group \in Group /\ db \in [Tasks -> Row]
  BY DEF Init, Group, Row
<1> QED
  BY <1>1, <1>2, <1>3, <1>4 DEF TypeInv, TypeOK

(* Every actor, every attempt and every row keeps the values the code gives *)
(* it, in every state the system can reach.                                 *)
THEOREM TypeCorrect == Spec => []TypeOK
<1>1. TypeInv => TypeOK
  BY DEF TypeInv
<1> QED
  BY <1>1, TypeInvInit, TypeInvStep, PTL DEF Spec

-----------------------------------------------------------------------------
(* Space and the GetTask timer *)

(* A VM asks for tasks exactly while it has space for one.  The property is *)
(* inductive: every handler of the VMProxyActor that touches one of         *)
(* haveSpaceForTasks and scheduleGetTask sets both.                         *)
THEOREM PollsExactlyWithSpace == Spec => []PollsIffHasSpace
<1>1. Init => PollsIffHasSpace
  BY DEF Init, PollsIffHasSpace, ReadyVM
<1>2. TypeInv /\ PollsIffHasSpace /\ [Next]_vars => PollsIffHasSpace'
  <2> SUFFICES ASSUME TypeInv, PollsIffHasSpace, [Next]_vars PROVE PollsIffHasSpace'
    OBVIOUS
  <2>v. vm \in [VMs -> VMProxy]
    BY DEF TypeInv, TypeOK
  <2>0. ASSUME UNCHANGED vm PROVE PollsIffHasSpace'
    BY <2>0 DEF PollsIffHasSpace
  <2>1. ASSUME NEW v \in VMs, VMNoMoreTasks(v) \/ VMDies(v) PROVE PollsIffHasSpace'
    <3>1. vm' = [vm EXCEPT ![v] = DeadVM]
      BY <2>1 DEF VMNoMoreTasks, VMDies
    <3> QED
      BY <2>v, <3>1 DEF PollsIffHasSpace, DeadVM
  <2>2. ASSUME NEW v \in VMs, NEW a \in Attempts, VMSendTask(v, a) PROVE PollsIffHasSpace'
    BY <2>v, <2>2 DEF VMSendTask, PollsIffHasSpace, VMProxy
  <2>3. ASSUME NEW v \in VMs, NEW a \in Attempts, VMExecutor(v, a) PROVE PollsIffHasSpace'
    BY <2>v, <2>3 DEF VMExecutor, PollsIffHasSpace, VMProxy
  <2>4. ASSUME NEW v \in VMs, NEW a \in Attempts, VMCannotGetExecutor(v, a)
        PROVE  PollsIffHasSpace'
    BY <2>v, <2>4 DEF VMCannotGetExecutor, PollsIffHasSpace, VMProxy
  <2>5. ASSUME NEW v \in VMs, NEW a \in Attempts, VMTerminated(v, a) PROVE PollsIffHasSpace'
    BY <2>v, <2>5 DEF VMTerminated, PollsIffHasSpace, VMProxy
  <2>6. ASSUME NEW v \in VMs, NEW a \in Attempts, VMRestApiRequest(v, a)
        PROVE  PollsIffHasSpace'
    <3>1. vm' = [vm EXCEPT ![v].haveSpace = TRUE, ![v].timer = TRUE]
      BY <2>6 DEF VMRestApiRequest
    <3> QED
      BY <2>v, <3>1 DEF PollsIffHasSpace, VMProxy
  <2>7. ASSUME NEW v \in VMs, Poll(v) \/ SuicideOnGetTask(v) PROVE UNCHANGED vm
    BY <2>7 DEF Poll, SuicideOnGetTask
  <2>8. ASSUME NEW a \in Attempts, AttemptStep(a) PROVE UNCHANGED vm
    BY <2>8
    DEF AttemptStep, OfferFails, AcquireLocally, AcquireExecutor, ExecutorAddress,
        NoExecutorAddress, HandOver, WriteRunning, ExecutorEnds, ExecutorStops,
        ExecutorCrashes, DecideNotTaken, DecideSuccess, DecideFailure, DecideVmNotAlive,
        DecideNoAnswer, DecideUnexpected
  <2>9. ASSUME NEW t \in Tasks, TaskStep(t) PROVE UNCHANGED vm
    BY <2>9
    DEF TaskStep, GetTask, GetTaskUnhandled, TerminatedVm, TerminatedExecutor,
        PersistAndSuicide, HandleSuccess, HandleFailure, EscalateAndRestart, TaskActorGone
  <2> QED
    BY <2>0, <2>1, <2>2, <2>3, <2>4, <2>5, <2>6, <2>7, <2>8, <2>9 DEF Next, VmStep, vars
<1> QED
  BY <1>1, <1>2, TypeInvInit, TypeInvStep, PTL DEF Spec

-----------------------------------------------------------------------------
(* Results *)

\* A step that gives no task a result: no end state is written, no TaskActor is
\* stopped, none is told to give up, and none is done while it handles messages.
\* A TaskActor that was stopping may be gone after it.
Quiet ==
  \A u \in Tasks :
    /\ db'[u].end = db[u].end
    /\ task'[u].state \in {"stopping", "gone"} <=> task[u].state \in {"stopping", "gone"}
    /\ task[u].state = "gone" => task'[u].state = "gone"
    /\ task'[u].state = "gone" => task[u].state = "gone" \/ TaskActorGone(u)
    /\ task'[u].suicide => task[u].suicide
    /\ task'[u].taskDone /\ task'[u].state = "up" => task[u].taskDone /\ task[u].state = "up"

(* Only PersistAndSuicide and the supervision by the group give results. *)
LEMMA QuietVmStep ==
  ASSUME TypeInv, NEW v \in VMs, VmStep(v)
  PROVE  Quiet
<1>t. task \in [Tasks -> TaskActor]
  BY DEF TypeInv, TypeOK
<1>1. CASE Poll(v)
  BY <1>1, <1>t DEF Poll, Quiet, TaskActor
<1>2. ASSUME ~Poll(v) PROVE UNCHANGED <<task, db>>
  BY <1>2
  DEF VmStep, VMSendTask, VMExecutor, VMCannotGetExecutor, VMTerminated, VMRestApiRequest,
      VMNoMoreTasks, VMDies, SuicideOnGetTask
<1> QED
  BY <1>1, <1>2 DEF Quiet

\* Every step of an attempt is quiet: callbacks, executors and the decisions of
\* the TaskActor write no end state.
LEMMA QuietAttemptStep ==
  ASSUME TypeInv, NEW a \in Attempts, AttemptStep(a)
  PROVE  Quiet
<1>t. task \in [Tasks -> TaskActor]
  BY DEF TypeInv, TypeOK
<1>d. db \in [Tasks -> Row]
  BY DEF TypeInv, TypeOK
<1>0. att[a].task \in Tasks
  BY PendingAttempt
  DEF AttemptStep, OfferFails, AcquireLocally, AcquireExecutor, ExecutorAddress,
      NoExecutorAddress, WriteRunning, ExecutorEnds, ExecutorStops, ExecutorCrashes,
      DecideNotTaken, DecideSuccess, DecideFailure, DecideVmNotAlive, DecideNoAnswer,
      DecideUnexpected, Asks, Supervises
<1>1. CASE OfferFails(a)
  BY <1>1, <1>t, <1>0 DEF OfferFails, Quiet, TaskActor
<1>h. ASSUME NEW tgt, NEW watch, HandOver(a, tgt, watch), UNCHANGED db PROVE Quiet
  <2> DEFINE t == att[a].task
             y == [task[t] EXCEPT !.targetVm = tgt, !.watchedVms = @ \cup watch,
                                  !.executorActor = IF ~Ended(t) THEN a ELSE @,
                                  !.watchedExecs = IF ~Ended(t) THEN @ \cup {a} ELSE @]
  <2>1. task' = [task EXCEPT ![t] = y]
    BY <1>h, Zenon DEF HandOver
  <2>2. /\ y.state = task[t].state
        /\ y.suicide = task[t].suicide /\ y.taskDone = task[t].taskDone
    BY <1>t, <1>0 DEF TaskActor
  <2> HIDE DEF y
  <2> QED
    BY <1>h, <1>t, <2>1, <2>2 DEF Quiet
<1>2. CASE AcquireLocally(a)
  BY <1>2, <1>h DEF AcquireLocally
<1>3. CASE AcquireExecutor(a)
  BY <1>3, <1>t, <1>0 DEF AcquireExecutor, Quiet, TaskActor
<1>4. CASE ExecutorAddress(a)
  BY <1>4, <1>h DEF ExecutorAddress
<1>5. CASE NoExecutorAddress(a)
  BY <1>5, <1>t, <1>0 DEF NoExecutorAddress, Quiet, TaskActor
<1>6. CASE DecideSuccess(a)
  BY <1>6, <1>t, <1>0 DEF DecideSuccess, Supervises, Quiet, TaskActor
<1>7. CASE DecideFailure(a)
  BY <1>7, <1>t, <1>0 DEF DecideFailure, Asks, Supervises, Quiet, TaskActor
<1>8. CASE DecideVmNotAlive(a)
  BY <1>8, <1>t, <1>0 DEF DecideVmNotAlive, Quiet, TaskActor
<1>9. CASE DecideNoAnswer(a)
  BY <1>9, <1>t, <1>0 DEF DecideNoAnswer, Asks, Supervises, Quiet, TaskActor
<1>10. CASE DecideUnexpected(a)
  BY <1>10, <1>t, <1>0 DEF DecideUnexpected, Quiet, TaskActor
<1>11. CASE WriteRunning(a)
  BY <1>11, <1>d, <1>0 DEF WriteRunning, Quiet, Row
<1>12. CASE \/ \E o \in Outcomes : ExecutorEnds(a, o)
          \/ ExecutorStops(a) \/ ExecutorCrashes(a) \/ DecideNotTaken(a)
  <2>1. UNCHANGED <<task, db>>
    BY <1>12 DEF ExecutorEnds, ExecutorStops, ExecutorCrashes, DecideNotTaken
  <2> QED
    BY <2>1 DEF Quiet
<1> QED
  BY <1>1, <1>2, <1>3, <1>4, <1>5, <1>6, <1>7, <1>8, <1>9, <1>10, <1>11, <1>12 DEF AttemptStep

\* The messages a TaskActor handles while its task goes on are quiet as well.
LEMMA QuietMessage ==
  ASSUME TypeInv, DoneTaskHandlesNothing, NEW t \in Tasks,
         \/ \E v \in VMs, a \in Attempts : GetTask(t, v, a)
         \/ \E v \in VMs : GetTaskUnhandled(t, v) \/ TerminatedVm(t, v)
         \/ \E a \in Attempts : TerminatedExecutor(t, a)
         \/ TaskActorGone(t)
  PROVE  Quiet
<1>t. task \in [Tasks -> TaskActor]
  BY DEF TypeInv, TypeOK
<1>d. db \in [Tasks -> Row]
  BY DEF TypeInv, TypeOK
<1>1. ASSUME NEW v \in VMs, NEW a \in Attempts, GetTask(t, v, a) PROVE Quiet
  BY <1>1, <1>t DEF GetTask, Quiet, TaskActor
<1>2. ASSUME NEW v \in VMs, GetTaskUnhandled(t, v) PROVE Quiet
  BY <1>2, <1>t DEF GetTaskUnhandled, Quiet, TaskActor
<1>3. CASE TaskActorGone(t)
  <2>1. task' = [task EXCEPT ![t].state = "gone", ![t].executorActor = None]
    BY <1>3 DEF TaskActorGone
  <2>2. UNCHANGED db /\ task[t].state = "stopping"
    BY <1>3 DEF TaskActorGone
  <2> QED
    BY <1>3, <1>t, <2>1, <2>2 DEF Quiet, TaskActor
<1>4. ASSUME NEW v \in VMs, TerminatedVm(t, v) PROVE Quiet
  <2>1. ~task[t].taskDone
    BY <1>4 DEF TerminatedVm, DoneTaskHandlesNothing
  <2> DEFINE e == task[t].executorActor
             tgt == task[t].targetVm
             throws == IF v = tgt THEN e = None ELSE tgt = None
             y == [task[t] EXCEPT !.isTaken = FALSE,
                                  !.watchedVms = @ \ {v, tgt},
                                  !.watchedExecs = IF v = tgt THEN @ \ {e} ELSE @,
                                  !.executorActor = IF v = tgt THEN None ELSE @,
                                  !.targetVm = IF throws THEN @ ELSE None,
                                  !.state = IF throws THEN "error" ELSE @]
  <2>2. task' = [task EXCEPT ![t] = y]
    BY <1>4, <2>1, Zenon DEF TerminatedVm
  <2>3. task[t].state = "up"
    BY <1>4 DEF TerminatedVm
  <2>4. /\ y.state \in {"up", "error"}
        /\ y.suicide = task[t].suicide /\ y.taskDone = task[t].taskDone
    BY <1>t, <2>3 DEF TaskActor
  <2>5. \A u \in Tasks : db'[u].end = db[u].end
    <3>1. db' = db \/ db' = ResetRow(t)
      BY <1>4 DEF TerminatedVm
    <3> QED
      BY <1>d, <3>1 DEF ResetRow, Row
  <2> HIDE DEF y
  <2> QED
    BY <1>t, <2>1, <2>2, <2>3, <2>4, <2>5 DEF Quiet
<1>5. ASSUME NEW a \in Attempts, TerminatedExecutor(t, a) PROVE Quiet
  <2>1. ~task[t].taskDone
    BY <1>5 DEF TerminatedExecutor, DoneTaskHandlesNothing
  <2> DEFINE tgt == task[t].targetVm
             y == [task[t] EXCEPT !.isTaken = FALSE,
                                  !.watchedVms = @ \ {tgt},
                                  !.watchedExecs = @ \ {a},
                                  !.targetVm = None,
                                  !.state = IF tgt = None THEN "error" ELSE @]
  <2>2. task' = [task EXCEPT ![t] = y]
    BY <1>5, <2>1, Zenon DEF TerminatedExecutor
  <2>3. task[t].state = "up"
    BY <1>5 DEF TerminatedExecutor
  <2>4. /\ y.state \in {"up", "error"}
        /\ y.suicide = task[t].suicide /\ y.taskDone = task[t].taskDone
    BY <1>t, <2>3 DEF TaskActor
  <2>5. \A u \in Tasks : db'[u].end = db[u].end
    <3>1. db' = db \/ db' = ResetRow(t)
      BY <1>5 DEF TerminatedExecutor
    <3> QED
      BY <1>d, <3>1 DEF ResetRow, Row
  <2> HIDE DEF y
  <2> QED
    BY <1>t, <2>1, <2>2, <2>3, <2>4, <2>5 DEF Quiet
<1> QED
  BY <1>1, <1>2, <1>3, <1>4, <1>5

(* Every step is quiet or gives results. *)
LEMMA StepKinds ==
  ASSUME TypeInv, DoneTaskHandlesNothing, [Next]_vars
  PROVE  \/ Quiet
         \/ \E t \in Tasks : \/ PersistAndSuicide(t) \/ HandleSuccess(t)
                             \/ HandleFailure(t) \/ EscalateAndRestart(t)
<1>1. CASE UNCHANGED vars
  BY <1>1 DEF vars, Quiet
<1>2. ASSUME NEW t \in Tasks, TaskStep(t)
      PROVE  \/ Quiet
             \/ PersistAndSuicide(t) \/ HandleSuccess(t)
             \/ HandleFailure(t) \/ EscalateAndRestart(t)
  BY <1>2, QuietMessage DEF TaskStep
<1> QED
  BY <1>1, <1>2, QuietVmStep, QuietAttemptStep DEF Next

(* What stopping does to a TaskActor. *)
LEMMA StoppedFacts ==
  ASSUME task \in [Tasks -> TaskActor], NEW t \in Tasks
  PROVE  /\ StoppedActor(t).state = "stopping"
         /\ StoppedActor(t).suicide = FALSE
         /\ StoppedActor(t).taskDone = task[t].taskDone
  BY DEF StoppedActor, TaskActor

\* A result is written only together with the stop of the TaskActor.
EndMeansEnded == \A t \in Tasks : db[t].end # "NONE" => Ended(t)

ResultInv == DoneTaskHandlesNothing /\ EndMeansEnded /\ AbandonedBecauseOfFailure

\* In the initial state no task has a result.
LEMMA ResultInvInit == Init => ResultInv
  BY DEF Init, NewTaskActor, ResultInv, DoneTaskHandlesNothing, EndMeansEnded,
         AbandonedBecauseOfFailure

\* Every step keeps it that a finished TaskActor handles nothing.
LEMMA DoneStep ==
  ASSUME TypeInv, ResultInv, [Next]_vars
  PROVE  DoneTaskHandlesNothing'
<1>t. task \in [Tasks -> TaskActor]
  BY DEF TypeInv, TypeOK
<1>d. DoneTaskHandlesNothing
  BY DEF ResultInv
<1>1. CASE Quiet
  BY <1>1, <1>d DEF Quiet, DoneTaskHandlesNothing
<1>2. ASSUME NEW t \in Tasks, PersistAndSuicide(t) \/ HandleSuccess(t)
      PROVE  DoneTaskHandlesNothing'
  <2>1. task' = [task EXCEPT ![t] = StoppedActor(t)]
    BY <1>2 DEF PersistAndSuicide, HandleSuccess
  <2> QED
    BY <1>t, <1>d, <2>1, StoppedFacts DEF DoneTaskHandlesNothing
<1>3. ASSUME NEW t \in Tasks, HandleFailure(t) PROVE DoneTaskHandlesNothing'
  BY <1>t, <1>d, <1>3, StoppedFacts DEF HandleFailure, DoneTaskHandlesNothing, TaskActor
<1>4. ASSUME NEW t \in Tasks, EscalateAndRestart(t) PROVE DoneTaskHandlesNothing'
  BY <1>t, <1>d, <1>4, StoppedFacts DEF EscalateAndRestart, DoneTaskHandlesNothing
<1> QED
  BY <1>d, <1>1, <1>2, <1>3, <1>4, StepKinds

\* Every step keeps it that a row with an end state belongs to a TaskActor
\* that has ended.
LEMMA EndedStep ==
  ASSUME TypeInv, ResultInv, [Next]_vars
  PROVE  EndMeansEnded'
<1>t. task \in [Tasks -> TaskActor] /\ db \in [Tasks -> Row]
  BY DEF TypeInv, TypeOK
<1>d. DoneTaskHandlesNothing /\ EndMeansEnded
  BY DEF ResultInv
<1>1. CASE Quiet
  BY <1>1, <1>d DEF Quiet, EndMeansEnded, Ended
<1>2. ASSUME NEW t \in Tasks, PersistAndSuicide(t) \/ HandleSuccess(t)
      PROVE  EndMeansEnded'
  <2>1. task' = [task EXCEPT ![t] = StoppedActor(t)]
    BY <1>2 DEF PersistAndSuicide, HandleSuccess
  <2>2. \A u \in Tasks : u # t => db'[u] = db[u]
    BY <1>2, <1>t DEF PersistAndSuicide, HandleSuccess
  <2> QED
    BY <1>t, <1>d, <2>1, <2>2, StoppedFacts DEF EndMeansEnded, Ended
<1>3. ASSUME NEW t \in Tasks, HandleFailure(t) PROVE EndMeansEnded'
  <2>1. \A u \in Tasks : u # t => db'[u] = db[u] /\ task'[u].state = task[u].state
    BY <1>3, <1>t DEF HandleFailure, TaskActor
  <2>2. task'[t].state = "stopping"
    BY <1>3, <1>t, StoppedFacts DEF HandleFailure
  <2> QED
    BY <1>d, <2>1, <2>2 DEF EndMeansEnded, Ended
<1>4. ASSUME NEW t \in Tasks, EscalateAndRestart(t) PROVE EndMeansEnded'
  <2>1. \A u \in Tasks : task'[u].state \in {"stopping", "gone"}
    BY <1>4, <1>t, StoppedFacts DEF EscalateAndRestart
  <2> QED
    BY <2>1 DEF EndMeansEnded, Ended
<1> QED
  BY <1>d, <1>1, <1>2, <1>3, <1>4, StepKinds

(* No step replaces an end state. *)
LEMMA EndKept ==
  ASSUME TypeInv, ResultInv, [Next]_vars, NEW u \in Tasks, db[u].end # "NONE"
  PROVE  db'[u].end = db[u].end
<1>t. task \in [Tasks -> TaskActor] /\ db \in [Tasks -> Row]
  BY DEF TypeInv, TypeOK
<1>d. DoneTaskHandlesNothing /\ Ended(u)
  BY DEF ResultInv, EndMeansEnded
<1>1. CASE Quiet
  BY <1>1 DEF Quiet
<1>2. ASSUME NEW t \in Tasks, PersistAndSuicide(t) \/ HandleSuccess(t) \/ HandleFailure(t)
      PROVE  db'[u].end = db[u].end
  <2>1. u # t
    BY <1>2, <1>d DEF PersistAndSuicide, HandleSuccess, HandleFailure, Ended
  <2> QED
    BY <1>2, <1>t, <2>1 DEF PersistAndSuicide, HandleSuccess, HandleFailure
<1>3. ASSUME NEW t \in Tasks, EscalateAndRestart(t) PROVE db'[u].end = db[u].end
  BY <1>3 DEF EscalateAndRestart
<1> QED
  BY <1>d, <1>1, <1>2, <1>3, StepKinds

\* Every step keeps it that tasks are abandoned because of a failure.
LEMMA AbandonedStep ==
  ASSUME TypeInv, ResultInv, [Next]_vars
  PROVE  AbandonedBecauseOfFailure'
<1>t. task \in [Tasks -> TaskActor] /\ db \in [Tasks -> Row]
  BY DEF TypeInv, TypeOK
<1>d. DoneTaskHandlesNothing /\ AbandonedBecauseOfFailure
  BY DEF ResultInv
<1>k. \A u \in Tasks : db[u].end = "FAILURE" => db'[u].end = "FAILURE"
  BY EndKept
<1>1. CASE Quiet
  BY <1>1, <1>d DEF Quiet, AbandonedBecauseOfFailure
<1>2. ASSUME NEW t \in Tasks, PersistAndSuicide(t) PROVE AbandonedBecauseOfFailure'
  <2>1. PICK w \in Tasks \ {t} : db[w].end = "FAILURE"
    BY <1>2, <1>d DEF PersistAndSuicide, AbandonedBecauseOfFailure
  <2>2. \A u \in Tasks \ {t} : db'[u] = db[u] /\ task'[u] = task[u]
    BY <1>2, <1>t DEF PersistAndSuicide
  <2>3. db'[w].end = "FAILURE"
    BY <1>k, <2>1
  <2> QED
    BY <1>d, <1>k, <2>1, <2>2, <2>3 DEF AbandonedBecauseOfFailure
<1>3. ASSUME NEW t \in Tasks, HandleSuccess(t) PROVE AbandonedBecauseOfFailure'
  <2>1. \A u \in Tasks \ {t} : db'[u] = db[u] /\ task'[u] = task[u]
    BY <1>3, <1>t DEF HandleSuccess
  <2>2. db'[t].end = "SUCCESS" /\ task'[t].suicide = FALSE
    BY <1>3, <1>t, StoppedFacts DEF HandleSuccess
  <2> QED
    BY <1>d, <1>k, <2>1, <2>2 DEF AbandonedBecauseOfFailure
<1>4. ASSUME NEW t \in Tasks, HandleFailure(t) PROVE AbandonedBecauseOfFailure'
  <2>1. db'[t].end = "FAILURE" /\ task'[t].suicide = FALSE
    BY <1>4, <1>t, StoppedFacts DEF HandleFailure
  <2> QED
    BY <2>1 DEF AbandonedBecauseOfFailure
<1>5. ASSUME NEW t \in Tasks, EscalateAndRestart(t) PROVE AbandonedBecauseOfFailure'
  <2>1. UNCHANGED db /\ \A u \in Tasks : task'[u].suicide => task[u].suicide
    BY <1>5, <1>t, StoppedFacts DEF EscalateAndRestart
  <2> QED
    BY <1>d, <2>1 DEF AbandonedBecauseOfFailure
<1> QED
  BY <1>d, <1>1, <1>2, <1>3, <1>4, <1>5, StepKinds

\* The invariant about the results holds in every reachable state.
LEMMA ResultInvariant == Spec => [](TypeInv /\ ResultInv)
<1>1. TypeInv /\ ResultInv /\ [Next]_vars => ResultInv'
  BY DoneStep, EndedStep, AbandonedStep DEF ResultInv
<1> QED
  BY <1>1, TypeInvInit, TypeInvStep, ResultInvInit, PTL DEF Spec

(* A TaskActor that is done handles no further message. *)
THEOREM DoneIsDone == Spec => []DoneTaskHandlesNothing
<1>1. ResultInv => DoneTaskHandlesNothing
  BY DEF ResultInv
<1> QED
  BY <1>1, ResultInvariant, PTL

(* A task is abandoned, or told to give up, only after another one failed. *)
THEOREM AbandonedOnlyAfterFailure == Spec => []AbandonedBecauseOfFailure
<1>1. ResultInv => AbandonedBecauseOfFailure
  BY DEF ResultInv
<1> QED
  BY <1>1, ResultInvariant, PTL

(* The end state in the row of a task is written once. *)
THEOREM EndStateWrittenOnce == Spec => EndStateIsFinal
<1>1. TypeInv /\ ResultInv /\ [Next]_vars =>
        [\A t \in Tasks : db[t].end # "NONE" => db'[t].end = db[t].end]_vars
  BY EndKept
<1> QED
  BY <1>1, ResultInvariant, PTL DEF Spec, EndStateIsFinal

-----------------------------------------------------------------------------
(* The contract of the group *)

(* A quiet step changes no result. *)
LEMMA QuietKeepsResults ==
  ASSUME Quiet
  PROVE  resultOf' = resultOf
  BY DEF Quiet, resultOf, Ended

(* The actors, callbacks and supervision implement TaskResults: whatever    *)
(* fails, every task gets one result, by its own execution, by the failure  *)
(* of another task, or with all open tasks when the group is restarted.     *)
THEOREM ImplementsContract == Spec => ImplementsTaskResults
<1>1. Init => Contract!Init
  BY DEF Init, Contract!Init, resultOf, Ended, NewTaskActor
<1>2. TypeInv /\ ResultInv /\ [Next]_vars => [Contract!Next]_resultOf
  <2> SUFFICES ASSUME TypeInv, ResultInv, [Next]_vars PROVE [Contract!Next]_resultOf
    OBVIOUS
  <2>t. task \in [Tasks -> TaskActor] /\ db \in [Tasks -> Row]
    BY DEF TypeInv, TypeOK
  <2>d. DoneTaskHandlesNothing /\ EndMeansEnded /\ AbandonedBecauseOfFailure
    BY DEF ResultInv
  <2>1. CASE Quiet
    BY <2>1, QuietKeepsResults
  <2>2. ASSUME NEW t \in Tasks, PersistAndSuicide(t) PROVE Contract!Abandon(t)
    <3>1. resultOf[t] = "OPEN"
      BY <2>2, <2>d DEF PersistAndSuicide, EndMeansEnded, Ended, resultOf
    <3>2. PICK w \in Tasks \ {t} : db[w].end = "FAILURE"
      BY <2>2, <2>d DEF PersistAndSuicide, AbandonedBecauseOfFailure
    <3>3. resultOf[w] = "FAILURE"
      BY <3>2 DEF resultOf
    <3>4. db'[t].end = "ABANDONED" /\ \A u \in Tasks \ {t} : db'[u] = db[u] /\ task'[u] = task[u]
      BY <2>2, <2>t DEF PersistAndSuicide
    <3>5. resultOf' = [resultOf EXCEPT ![t] = "ABANDONED"]
      BY <3>4 DEF resultOf, Ended
    <3> QED
      BY <3>1, <3>3, <3>5 DEF Contract!Abandon
  <2>3. ASSUME NEW t \in Tasks, HandleSuccess(t) PROVE Contract!Succeed(t)
    <3>1. resultOf[t] = "OPEN"
      BY <2>3, <2>d DEF HandleSuccess, EndMeansEnded, Ended, resultOf
    <3>2. db'[t].end = "SUCCESS" /\ \A u \in Tasks \ {t} : db'[u] = db[u] /\ task'[u] = task[u]
      BY <2>3, <2>t DEF HandleSuccess
    <3>3. resultOf' = [resultOf EXCEPT ![t] = "SUCCESS"]
      BY <3>2 DEF resultOf, Ended
    <3> QED
      BY <3>1, <3>3 DEF Contract!Succeed
  <2>4. ASSUME NEW t \in Tasks, HandleFailure(t) PROVE Contract!Fail(t)
    <3>1. resultOf[t] = "OPEN"
      BY <2>4, <2>d DEF HandleFailure, EndMeansEnded, Ended, resultOf
    <3>2. /\ db'[t].end = "FAILURE"
          /\ \A u \in Tasks \ {t} : db'[u] = db[u] /\ task'[u].state = task[u].state
      BY <2>4, <2>t DEF HandleFailure, TaskActor
    <3>3. resultOf' = [resultOf EXCEPT ![t] = "FAILURE"]
      BY <3>2 DEF resultOf, Ended
    <3> QED
      BY <3>1, <3>3 DEF Contract!Fail
  <2>5. ASSUME NEW t \in Tasks, EscalateAndRestart(t) PROVE Contract!LoseOpenTasks
    <3>1. UNCHANGED db /\ \A u \in Tasks : task'[u].state \in {"stopping", "gone"}
      BY <2>5, <2>t, StoppedFacts DEF EscalateAndRestart
    <3>2. \A u \in Tasks : db[u].end \in {"NONE", "SUCCESS", "FAILURE", "ABANDONED"}
      BY <2>t DEF Row
    <3> QED
      BY <3>1, <3>2 DEF resultOf, Ended, Contract!LoseOpenTasks
  <2> QED
    BY <2>d, <2>1, <2>2, <2>3, <2>4, <2>5, StepKinds DEF Contract!Next
<1> QED
  BY <1>1, <1>2, ResultInvariant, PTL DEF Spec, ImplementsTaskResults, Contract!Spec

-----------------------------------------------------------------------------
(* The end of the group *)

\* An executor lives no longer than its TaskActor.
GoneTaskRunsNothing ==
  \A a \in Attempts : \A t \in Tasks :
    att[a].task = t /\ task[t].state = "gone" => att[a].executor \in {"none", "stopped"}

GoneGroupIsEmpty == group.state = "gone" => \A t \in Tasks : task[t].state = "gone"

GoneInv == GoneTaskRunsNothing /\ GoneGroupIsEmpty

\* In the initial state nobody is gone.
LEMMA GoneInvInit == Init => GoneInv
  BY DEF Init, Offer, NewTaskActor, GoneInv, GoneTaskRunsNothing, GoneGroupIsEmpty

\* A step leaves the executor of attempt a ended, or it had not ended before, or
\* its TaskActor may still create it.
ExecutorOwned(a) ==
  \/ att'[a].executor \in {"none", "stopped"}
  \/ /\ att'[a].task = att[a].task
     /\ att[a].executor \notin {"none", "stopped"} \/ ~Ended(att[a].task)

(* The callback of a stopped TaskActor creates no executor. *)
LEMMA HandOverOwned ==
  ASSUME TypeInv, NEW a \in Attempts, NEW tgt, NEW watch, HandOver(a, tgt, watch),
         NEW b \in Attempts
  PROVE  ExecutorOwned(b)
<1>a. att \in [Attempts -> Attempt]
  BY DEF TypeInv, TypeOK
<1> DEFINE created == ~Ended(att[a].task)
           sent == created /\ tgt # None
           x == [att[a] EXCEPT !.reply = "none",
                               !.callback = IF sent THEN "running" ELSE "none",
                               !.executor = IF sent THEN "running"
                                            ELSE IF created THEN "idle" ELSE @]
<1>1. att' = [att EXCEPT ![a] = x]
  BY Zenon DEF HandOver
<1>2. x.task = att[a].task /\ (~created => x.executor = att[a].executor)
  BY <1>a DEF Attempt
<1> HIDE DEF x
<1> QED
  BY <1>a, <1>1, <1>2 DEF ExecutorOwned

\* A step of an attempt starts an executor only below a TaskActor that has not
\* ended.
LEMMA AttemptOwned ==
  ASSUME TypeInv, NEW a \in Attempts, AttemptStep(a), NEW b \in Attempts
  PROVE  ExecutorOwned(b)
<1>a. att \in [Attempts -> Attempt]
  BY DEF TypeInv, TypeOK
<1>1. CASE OfferFails(a)
  BY <1>1, <1>a DEF OfferFails, ExecutorOwned, Attempt
<1>2. CASE AcquireLocally(a)
  BY <1>2, HandOverOwned DEF AcquireLocally
<1>3. CASE AcquireExecutor(a)
  BY <1>3, <1>a DEF AcquireExecutor, ExecutorOwned, Attempt
<1>4. CASE ExecutorAddress(a)
  BY <1>4, HandOverOwned DEF ExecutorAddress
<1>5. CASE NoExecutorAddress(a) \/ WriteRunning(a)
  <2>1. att' = [att EXCEPT ![a].callback = "none"]
    BY <1>5 DEF NoExecutorAddress, WriteRunning
  <2> QED
    BY <2>1, <1>a DEF ExecutorOwned, Attempt
<1>6. ASSUME NEW o \in Outcomes, ExecutorEnds(a, o) PROVE ExecutorOwned(b)
  BY <1>6, <1>a DEF ExecutorEnds, ExecutorOwned, Attempt
<1>7. CASE ExecutorStops(a)
  BY <1>7, <1>a DEF ExecutorStops, ExecutorOwned, Attempt
<1>8. CASE ExecutorCrashes(a)
  <2>1. att' = [att EXCEPT ![a].executor = "stopped"]
    BY <1>8 DEF ExecutorCrashes
  <2> QED
    BY <2>1, <1>a DEF ExecutorOwned, Attempt
<1>9. CASE DecideNotTaken(a) \/ DecideVmNotAlive(a) \/ DecideUnexpected(a)
  <2>1. att' = [att EXCEPT ![a].executor = "stopped", ![a].failed = "none"]
    BY <1>9 DEF DecideNotTaken, DecideVmNotAlive, DecideUnexpected, StopExecutor
  <2> QED
    BY <2>1, <1>a DEF ExecutorOwned, Attempt
<1>10. CASE DecideSuccess(a) \/ DecideFailure(a) \/ DecideNoAnswer(a)
  <2>1. att' = [att EXCEPT ![a].failed = "none"]
    BY <1>10 DEF DecideSuccess, DecideFailure, DecideNoAnswer
  <2> QED
    BY <2>1, <1>a DEF ExecutorOwned, Attempt
<1> QED
  BY <1>1, <1>2, <1>3, <1>4, <1>5, <1>6, <1>7, <1>8, <1>9, <1>10 DEF AttemptStep

(* No step gives an attempt an executor behind its TaskActor's back. *)
LEMMA StepOwned ==
  ASSUME TypeInv, [Next]_vars, NEW b \in Attempts
  PROVE  ExecutorOwned(b)
<1>a. att \in [Attempts -> Attempt] /\ task \in [Tasks -> TaskActor]
  BY DEF TypeInv, TypeOK
<1>0. ASSUME UNCHANGED att PROVE ExecutorOwned(b)
  BY <1>0 DEF ExecutorOwned
<1>1. ASSUME NEW v \in VMs, NEW a \in Attempts, VMSendTask(v, a) PROVE ExecutorOwned(b)
  BY <1>1, <1>a DEF VMSendTask, ExecutorOwned, Attempt
<1>2. ASSUME NEW v \in VMs, VmStep(v), \A a \in Attempts : ~VMSendTask(v, a)
      PROVE  UNCHANGED att
  BY <1>2
  DEF VmStep, Poll, VMExecutor, VMCannotGetExecutor, VMTerminated, VMRestApiRequest,
      VMNoMoreTasks, VMDies, SuicideOnGetTask
<1>3. ASSUME NEW t \in Tasks, NEW v \in VMs, NEW a \in Attempts, GetTask(t, v, a)
      PROVE  ExecutorOwned(b)
  BY <1>3, <1>a DEF GetTask, ExecutorOwned, Attempt, Offer
<1>4. ASSUME NEW t \in Tasks, NEW v \in VMs, TerminatedVm(t, v) PROVE ExecutorOwned(b)
  <2>1. PICK e \in Attempts \cup {None} : e = task[t].executorActor
    BY <1>a DEF TaskActor
  <2>2. att' = att \/ (e # None /\ att' = [att EXCEPT ![e].kill = TRUE])
    BY <1>4, <2>1 DEF TerminatedVm
  <2>3. CASE e # None /\ att' = [att EXCEPT ![e].kill = TRUE]
    BY <2>3, <1>a DEF ExecutorOwned, Attempt
  <2> QED
    BY <1>0, <2>2, <2>3
<1>5. ASSUME NEW t \in Tasks, TaskStep(t),
             \A v \in VMs : ~TerminatedVm(t, v) /\ \A a \in Attempts : ~GetTask(t, v, a)
      PROVE  UNCHANGED att
  BY <1>5
  DEF TaskStep, GetTaskUnhandled, TerminatedExecutor, PersistAndSuicide, HandleSuccess,
      HandleFailure, EscalateAndRestart, TaskActorGone
<1>6. CASE UNCHANGED vars
  BY <1>0, <1>6 DEF vars
<1> QED
  BY <1>0, <1>1, <1>2, <1>3, <1>4, <1>5, <1>6, AttemptOwned DEF Next

(* When a TaskActor is gone after a step. *)
LEMMA GoneSteps ==
  ASSUME TypeInv, ResultInv, [Next]_vars, NEW u \in Tasks
  PROVE  /\ task[u].state = "gone" => task'[u].state = "gone"
         /\ task'[u].state = "gone" => task[u].state = "gone" \/ TaskActorGone(u)
<1>t. task \in [Tasks -> TaskActor]
  BY DEF TypeInv, TypeOK
<1>d. DoneTaskHandlesNothing
  BY DEF ResultInv
<1>1. CASE Quiet
  BY <1>1 DEF Quiet
<1>2. ASSUME NEW t \in Tasks, PersistAndSuicide(t) \/ HandleSuccess(t)
      PROVE  task'[u].state = "gone" <=> task[u].state = "gone"
  <2>1. task' = [task EXCEPT ![t] = StoppedActor(t)] /\ task[t].state # "gone"
    BY <1>2 DEF PersistAndSuicide, HandleSuccess
  <2> QED
    BY <1>t, <2>1, StoppedFacts
<1>3. ASSUME NEW t \in Tasks, HandleFailure(t)
      PROVE  task'[u].state = "gone" <=> task[u].state = "gone"
  BY <1>t, <1>3, StoppedFacts DEF HandleFailure, TaskActor
<1>4. ASSUME NEW t \in Tasks, EscalateAndRestart(t)
      PROVE  task'[u].state = "gone" <=> task[u].state = "gone"
  BY <1>t, <1>4, StoppedFacts DEF EscalateAndRestart
<1> QED
  BY <1>d, <1>1, <1>2, <1>3, <1>4, StepKinds

\* Every step keeps it that what is gone runs nothing.
LEMMA GoneInvStep ==
  ASSUME TypeInv, ResultInv, GoneInv, [Next]_vars
  PROVE  GoneInv'
<1>1. GoneTaskRunsNothing'
  <2> SUFFICES ASSUME NEW a \in Attempts, NEW t \in Tasks, att'[a].task = t,
                      task'[t].state = "gone", att'[a].executor \notin {"none", "stopped"}
               PROVE  FALSE
    BY DEF GoneTaskRunsNothing
  <2>1. /\ att[a].task = t
        /\ att[a].executor \notin {"none", "stopped"} \/ ~Ended(t)
    BY StepOwned DEF ExecutorOwned
  <2>2. CASE task[t].state = "gone"
    BY <2>1, <2>2 DEF GoneInv, GoneTaskRunsNothing, Ended
  <2>3. CASE TaskActorGone(t)
    BY <2>1, <2>3 DEF TaskActorGone, Ended
  <2> QED
    BY <2>2, <2>3, GoneSteps
<1>2. GoneGroupIsEmpty'
  <2> SUFFICES ASSUME group'.state = "gone", NEW u \in Tasks PROVE task'[u].state = "gone"
    BY DEF GoneGroupIsEmpty
  <2>g. group \in Group /\ task \in [Tasks -> TaskActor]
    BY DEF TypeInv, TypeOK
  <2>1. CASE group.state = "gone"
    BY <2>1, GoneSteps DEF GoneInv, GoneGroupIsEmpty
  <2>2. ASSUME NEW v \in VMs, SuicideOnGetTask(v) PROVE task'[u].state = "gone"
    BY <2>2 DEF SuicideOnGetTask
  <2>3. ASSUME NEW t \in Tasks, TaskActorGone(t), group.state # "gone"
        PROVE  task'[u].state = "gone"
    <3>1. CASE u = t
      BY <2>3, <2>g, <3>1 DEF TaskActorGone, TaskActor
    <3>2. CASE u # t
      <4>1. task[u].state = "gone"
        BY <2>3, <3>2 DEF TaskActorGone
      <4> QED
        BY <4>1, GoneSteps
    <3> QED
      BY <3>1, <3>2
  <2>4. ASSUME NEW t \in Tasks, HandleSuccess(t) \/ HandleFailure(t) \/ EscalateAndRestart(t)
        PROVE  group.state = "gone"
    <3>1. \/ group' = [group EXCEPT !.taskActors = @ \ {t}]
          \/ group' = [state |-> "restarted", taskActors |-> {}]
      BY <2>4 DEF HandleSuccess, HandleFailure, EscalateAndRestart
    <3> QED
      BY <2>g, <3>1 DEF Group
  <2>5. ASSUME NEW t \in Tasks, TaskStep(t), ~TaskActorGone(t), ~HandleSuccess(t),
               ~HandleFailure(t), ~EscalateAndRestart(t)
        PROVE  UNCHANGED group
    BY <2>5
    DEF TaskStep, GetTask, GetTaskUnhandled, TerminatedVm, TerminatedExecutor, PersistAndSuicide
  <2>6. ASSUME NEW v \in VMs, VmStep(v), ~SuicideOnGetTask(v) PROVE UNCHANGED group
    BY <2>6
    DEF VmStep, Poll, VMSendTask, VMExecutor, VMCannotGetExecutor, VMTerminated,
        VMRestApiRequest, VMNoMoreTasks, VMDies
  <2>7. ASSUME NEW a \in Attempts, AttemptStep(a) PROVE UNCHANGED group
    BY <2>7
    DEF AttemptStep, OfferFails, AcquireLocally, AcquireExecutor, ExecutorAddress,
        NoExecutorAddress, WriteRunning, ExecutorEnds, ExecutorStops, ExecutorCrashes,
        DecideNotTaken, DecideSuccess, DecideFailure, DecideVmNotAlive, DecideNoAnswer,
        DecideUnexpected
  <2>8. ASSUME UNCHANGED group PROVE group.state = "gone"
    BY <2>8
  <2> QED
    BY <2>1, <2>2, <2>3, <2>4, <2>5, <2>6, <2>7, <2>8 DEF Next, vars
<1> QED
  BY <1>1, <1>2 DEF GoneInv

(* No test of a group runs any more once the group has stopped itself. *)
THEOREM RunEndsAfterItsTests == Spec => []GoneGroupRunsNothing
<1>1. TypeInv /\ GoneInv => GoneGroupRunsNothing
  <2> SUFFICES ASSUME TypeInv, GoneInv, group.state = "gone", NEW a \in Attempts
               PROVE  att[a].executor \in {"none", "stopped"}
    BY DEF GoneGroupRunsNothing
  <2>1. CASE att[a].task \in Tasks
    BY <2>1 DEF GoneInv, GoneGroupIsEmpty, GoneTaskRunsNothing
  <2>2. CASE att[a].task \notin Tasks
    BY <2>2 DEF TypeInv, AttemptsOK
  <2> QED
    BY <2>1, <2>2
<1>2. TypeInv /\ ResultInv /\ GoneInv /\ [Next]_vars => GoneInv'
  BY GoneInvStep
<1> QED
  BY <1>1, <1>2, GoneInvInit, ResultInvariant, PTL DEF Spec
=============================================================================
