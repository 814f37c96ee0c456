------------------------ MODULE TaskExclusionProofs ------------------------
(***************************************************************************)
(* Theorems about TaskExecution that rest on the VMs: as long as no        *)
(* VMProxyActor dies with its node, isTaken keeps a task to one execution   *)
(* at a time, whatever else fails, and haveSpaceForTasks a VM to one test   *)
(* until that test sends a REST request.  With vmDeath the first is false:  *)
(* TLC shows it for ResultOfCurrentExecutor.                                *)
(***************************************************************************)
EXTENDS TaskExecutionProofs

-----------------------------------------------------------------------------
(* The inductive invariant of the executions *)

\* The executor of attempt a exists and has not ended.
Alive(a) == att[a].executor \in {"idle", "running", "suspended"}

\* A TaskActor watches the executor of attempt a, which may have ended.
Watched(a) == \E t \in Tasks : a \in task[t].watchedExecs

\* As long as an attempt is busy its task must stay taken.
Busy(a) == Active(a) \/ Watched(a)

\* A TaskActor watches only executors that it created.
OwnExecutors == \A t \in Tasks : \A a \in task[t].watchedExecs : att[a].task = t

\* Offer, directory and executor of an attempt come after each other; only a
\* suspended executor has thrown, and no executor is stopped by context.stop.
Phases ==
  \A a \in Attempts :
    /\ att[a].reply # "none" => att[a].callback = "none" /\ att[a].executor = "none"
    /\ att[a].callback = "directory" => att[a].executor = "none"
    /\ Watched(a) => att[a].executor # "none"
    /\ att[a].failed # "none" => att[a].executor = "suspended"
    /\ ~att[a].kill

BusyIsTaken == \A a \in Attempts : Busy(a) => task[att[a].task].isTaken

OneBusy ==
  \A a, b \in Attempts : Busy(a) /\ Busy(b) /\ att[a].task = att[b].task => a = b

\* The fields executorActor and targetVm are those of the attempt at work.
Current == \A a \in Attempts : Alive(a) => task[att[a].task].executorActor = a

Targeted(a) == att[a].callback = "directory" \/ Alive(a) \/ Watched(a)
TargetIsVm == \A a \in Attempts : Targeted(a) => task[att[a].task].targetVm = att[a].vm

ExecInv == OwnExecutors /\ Phases /\ BusyIsTaken /\ OneBusy /\ Current /\ TargetIsVm

\* VMProxyActors stop only when the run is done.
VmsLast == \A v \in VMs : ~vm[v].up => group.state = "gone"

(* In the initial state there is no attempt. *)
LEMMA ExecInvInit == Init => ExecInv
  BY DEF Init, Offer, NewTaskActor, ExecInv, OwnExecutors, Phases, BusyIsTaken, OneBusy,
         Current, TargetIsVm, Targeted, Busy, Active, Alive, Watched

-----------------------------------------------------------------------------
(* What a step does to the executions *)

\* A step in which no attempt gets on: attempts only end, and no field that
\* concerns them changes, but that of a task without an executor.
Fades ==
  /\ \A b \in Attempts :
       /\ att'[b].task = att[b].task /\ att'[b].vm = att[b].vm /\ att'[b].kill = att[b].kill
       /\ att'[b].reply # "none" => att[b].reply # "none"
       /\ att'[b].callback # "none" => att'[b].callback = att[b].callback
       /\ att'[b].executor \in {"idle", "running", "suspended"} => Alive(b)
       /\ att'[b].executor = "none" <=> att[b].executor = "none"
       /\ att'[b].failed # "none" => att'[b].executor = "suspended"
  /\ \A u \in Tasks :
       /\ task'[u].isTaken = task[u].isTaken /\ task'[u].targetVm = task[u].targetVm
       /\ task'[u].watchedExecs \subseteq task[u].watchedExecs
       /\ \/ task'[u].executorActor = task[u].executorActor
          \/ \A b \in Attempts : att[b].task = u => ~Alive(b)

\* The two halves of it.
SameTasks ==
  \A u \in Tasks :
    /\ task'[u].isTaken = task[u].isTaken /\ task'[u].targetVm = task[u].targetVm
    /\ task'[u].watchedExecs \subseteq task[u].watchedExecs
    /\ task'[u].executorActor = task[u].executorActor

(* A step that changes no attempt, and no field of a TaskActor that concerns *)
(* its executions. *)
LEMMA SameFades ==
  ASSUME Phases, UNCHANGED att, SameTasks
  PROVE  Fades
  BY DEF Phases, SameTasks, Fades, Alive

(* The VMs finish no attempt. *)
LEMMA VmFades ==
  ASSUME TypeInv, Phases, NEW v \in VMs, VmStep(v)
  PROVE  Fades
<1>t. task \in [Tasks -> TaskActor]
  BY DEF TypeInv, TypeOK
<1>a. att \in [Attempts -> Attempt]
  BY DEF TypeInv, TypeOK
<1>1. CASE Poll(v)
  <2>1. SameTasks
    BY <1>1, <1>t DEF Poll, SameTasks, TaskActor
  <2>2. UNCHANGED att
    BY <1>1 DEF Poll
  <2> QED
    BY <2>1, <2>2, SameFades
<1>2. ASSUME NEW a \in Attempts, VMSendTask(v, a) PROVE Fades
  <2>1. UNCHANGED task
    BY <1>2 DEF VMSendTask
  <2>2. PICK r \in {"acquire", "refuse"} :
          att' = [att EXCEPT ![a].reply = IF @ = "waiting" THEN r ELSE @]
    BY <1>2 DEF VMSendTask
  <2> QED
    BY <2>1, <2>2, <1>a DEF Fades, Attempt, Phases, Alive
<1>3. ASSUME ~Poll(v), \A a \in Attempts : ~VMSendTask(v, a) PROVE UNCHANGED <<att, task>>
  BY <1>3
  DEF VmStep, VMExecutor, VMCannotGetExecutor, VMTerminated, VMRestApiRequest,
      VMNoMoreTasks, VMDies, SuicideOnGetTask
<1>4. ASSUME UNCHANGED <<att, task>> PROVE Fades
  BY <1>4, SameFades DEF SameTasks
<1> QED
  BY <1>1, <1>2, <1>3, <1>4

(* An attempt that takes a step belongs to a task and a VM. *)
LEMMA StepsForTask ==
  ASSUME TypeInv, NEW a \in Attempts, AttemptStep(a)
  PROVE  att[a].task \in Tasks /\ att[a].vm \in VMs
  BY PendingAttempt
  DEF AttemptStep, OfferFails, AcquireLocally, AcquireExecutor, ExecutorAddress,
      NoExecutorAddress, WriteRunning, ExecutorEnds, ExecutorStops, ExecutorCrashes,
      DecideNotTaken, DecideSuccess, DecideFailure, DecideVmNotAlive, DecideNoAnswer,
      DecideUnexpected, Asks, Supervises

\* The steps of an attempt that get it on, or release its task.
Advances(a) ==
  \/ OfferFails(a) \/ AcquireLocally(a) \/ AcquireExecutor(a)
  \/ ExecutorAddress(a) \/ NoExecutorAddress(a)

\* No offer is answered.
RepliesSame == \A b \in Attempts : att'[b].reply = att[b].reply

(* The executors and the supervisor strategy only end attempts. *)
LEMMA AttemptFades ==
  ASSUME TypeInv, Phases, NEW a \in Attempts, AttemptStep(a), ~Advances(a)
  PROVE  Fades /\ RepliesSame
<1>t. task \in [Tasks -> TaskActor] /\ att[a].task \in Tasks
  BY StepsForTask DEF TypeInv, TypeOK
<1>a. att \in [Attempts -> Attempt]
  BY DEF TypeInv, TypeOK
<1>0. ASSUME SameTasks,
             NEW x, att' = [att EXCEPT ![a] = x],
             x.task = att[a].task /\ x.vm = att[a].vm /\ x.kill = att[a].kill,
             x.reply = att[a].reply,
             x.callback # "none" => x.callback = att[a].callback,
             x.executor \in {"idle", "running", "suspended"} => Alive(a),
             x.executor = "none" <=> att[a].executor = "none",
             x.failed # "none" => x.executor = "suspended"
      PROVE  Fades /\ RepliesSame
  BY <1>0, <1>a DEF Fades, RepliesSame, SameTasks, Phases, Alive
<1>s. ASSUME UNCHANGED task PROVE SameTasks
  BY <1>s DEF SameTasks
<1>1. CASE WriteRunning(a)
  <2> DEFINE x == [att[a] EXCEPT !.callback = "none"]
  <2>1. att' = [att EXCEPT ![a] = x]
    BY <1>1, Zenon DEF WriteRunning
  <2>2. UNCHANGED task
    BY <1>1 DEF WriteRunning
  <2>3. /\ x.task = att[a].task /\ x.vm = att[a].vm /\ x.kill = att[a].kill
        /\ x.reply = att[a].reply /\ x.callback = "none"
        /\ x.executor = att[a].executor /\ x.failed = att[a].failed
    BY <1>a DEF Attempt
  <2> HIDE DEF x
  <2> QED
    BY <1>0, <1>s, <2>1, <2>2, <2>3, <1>a DEF Phases, Alive, Attempt
<1>2. ASSUME NEW o \in Outcomes, ExecutorEnds(a, o) PROVE Fades /\ RepliesSame
  <2> DEFINE x == [att[a] EXCEPT !.executor = "suspended", !.failed = o]
  <2>1. att' = [att EXCEPT ![a] = x]
    BY <1>2, Zenon DEF ExecutorEnds
  <2>2. UNCHANGED task /\ Alive(a)
    BY <1>2 DEF ExecutorEnds, Alive
  <2>3. /\ x.task = att[a].task /\ x.vm = att[a].vm /\ x.kill = att[a].kill
        /\ x.reply = att[a].reply /\ x.callback = att[a].callback
        /\ x.executor = "suspended"
    BY <1>a DEF Attempt
  <2> HIDE DEF x
  <2> QED
    BY <1>0, <1>s, <2>1, <2>2, <2>3 DEF Alive
<1>3. CASE ExecutorStops(a)
  <2> DEFINE x == [att[a] EXCEPT !.executor = "stopped",
                                 !.failed = IF Ended(att[a].task) THEN "none" ELSE @]
  <2>1. att' = [att EXCEPT ![a] = x]
    BY <1>3, Zenon DEF ExecutorStops
  <2>2. UNCHANGED task /\ Alive(a) /\ Ended(att[a].task)
    BY <1>3 DEF ExecutorStops, Alive, Phases
  <2>3. /\ x.task = att[a].task /\ x.vm = att[a].vm /\ x.kill = att[a].kill
        /\ x.reply = att[a].reply /\ x.callback = att[a].callback
        /\ x.executor = "stopped" /\ x.failed = "none"
    BY <2>2, <1>a DEF Attempt
  <2> HIDE DEF x
  <2> QED
    BY <1>0, <1>s, <2>1, <2>2, <2>3 DEF Alive
<1>4. CASE ExecutorCrashes(a)
  <2> DEFINE x == [att[a] EXCEPT !.executor = "stopped"]
  <2>1. att' = [att EXCEPT ![a] = x]
    BY <1>4, Zenon DEF ExecutorCrashes
  <2>2. UNCHANGED task /\ Alive(a) /\ att[a].failed = "none"
    BY <1>4 DEF ExecutorCrashes, Alive, Phases
  <2>3. /\ x.task = att[a].task /\ x.vm = att[a].vm /\ x.kill = att[a].kill
        /\ x.reply = att[a].reply /\ x.callback = att[a].callback
        /\ x.executor = "stopped" /\ x.failed = "none"
    BY <2>2, <1>a DEF Attempt
  <2> HIDE DEF x
  <2> QED
    BY <1>0, <1>s, <2>1, <2>2, <2>3 DEF Alive
<1>5. CASE DecideNotTaken(a) \/ DecideVmNotAlive(a) \/ DecideUnexpected(a)
  <2> DEFINE x == [att[a] EXCEPT !.executor = "stopped", !.failed = "none"]
  <2>1. att' = [att EXCEPT ![a] = x]
    BY <1>5, Zenon DEF DecideNotTaken, DecideVmNotAlive, DecideUnexpected, StopExecutor
  <2>2. Alive(a)
    BY <1>5 DEF DecideNotTaken, DecideVmNotAlive, DecideUnexpected, Asks, Supervises, Alive, Phases
  <2>3. /\ x.task = att[a].task /\ x.vm = att[a].vm /\ x.kill = att[a].kill
        /\ x.reply = att[a].reply /\ x.callback = att[a].callback
        /\ x.executor = "stopped" /\ x.failed = "none"
    BY <1>a DEF Attempt
  <2>4. UNCHANGED task \/ task' = [task EXCEPT ![att[a].task].taskDone = FALSE]
    BY <1>5 DEF DecideNotTaken, DecideVmNotAlive, DecideUnexpected
  <2>5. SameTasks
    BY <2>4, <1>s, <1>t DEF SameTasks, TaskActor
  <2> HIDE DEF x
  <2> QED
    BY <1>0, <2>1, <2>2, <2>3, <2>5 DEF Alive
<1>6. CASE DecideSuccess(a) \/ DecideFailure(a) \/ DecideNoAnswer(a)
  <2> DEFINE x == [att[a] EXCEPT !.failed = "none"]
  <2>1. att' = [att EXCEPT ![a] = x]
    BY <1>6, Zenon DEF DecideSuccess, DecideFailure, DecideNoAnswer
  <2>3. /\ x.task = att[a].task /\ x.vm = att[a].vm /\ x.kill = att[a].kill
        /\ x.reply = att[a].reply /\ x.callback = att[a].callback
        /\ x.executor = att[a].executor /\ x.failed = "none"
    BY <1>a DEF Attempt
  <2>4. \/ task' = [task EXCEPT ![att[a].task].taskDone = TRUE, ![att[a].task].state = "success"]
        \/ task' = [task EXCEPT ![att[a].task].taskDone = TRUE, ![att[a].task].state = "failure"]
        \/ task' = [task EXCEPT ![att[a].task].state = "error"]
    BY <1>6 DEF DecideSuccess, DecideFailure, DecideNoAnswer
  <2>5. SameTasks
    BY <2>4, <1>s, <1>t DEF SameTasks, TaskActor
  <2> HIDE DEF x
  <2> QED
    BY <1>0, <2>1, <2>3, <2>5 DEF Alive
<1> QED
  BY <1>1, <1>2, <1>3, <1>4, <1>5, <1>6 DEF AttemptStep, Advances

(* Stopping a TaskActor makes it watch nobody; its other fields stay. *)
LEMMA StoppedKeeps ==
  ASSUME task \in [Tasks -> TaskActor], NEW t \in Tasks
  PROVE  /\ StoppedActor(t).isTaken = task[t].isTaken
         /\ StoppedActor(t).targetVm = task[t].targetVm
         /\ StoppedActor(t).executorActor = task[t].executorActor
         /\ StoppedActor(t).watchedExecs = {}
  BY DEF StoppedActor, TaskActor

(* Of what a TaskActor and its group do, only handleGetTask begins an       *)
(* attempt and only handleTermianted releases the task.                     *)
LEMMA TaskFades ==
  ASSUME TypeInv, DoneTaskHandlesNothing, Phases, NEW t \in Tasks, TaskStep(t),
         \A v \in VMs : ~TerminatedVm(t, v) /\ \A a \in Attempts : ~GetTask(t, v, a),
         \A a \in Attempts : ~TerminatedExecutor(t, a)
  PROVE  Fades
<1>t. task \in [Tasks -> TaskActor]
  BY DEF TypeInv, TypeOK
<1>0. UNCHANGED att
  BY DEF TaskStep, GetTaskUnhandled, PersistAndSuicide, HandleSuccess, HandleFailure,
         EscalateAndRestart, TaskActorGone
<1>1. ASSUME NEW v \in VMs, GetTaskUnhandled(t, v) PROVE Fades
  <2>1. SameTasks
    BY <1>1, <1>t DEF GetTaskUnhandled, SameTasks, TaskActor
  <2> QED
    BY <1>0, <2>1, SameFades
<1>2. CASE PersistAndSuicide(t) \/ HandleSuccess(t)
  <2>1. task' = [task EXCEPT ![t] = StoppedActor(t)]
    BY <1>2 DEF PersistAndSuicide, HandleSuccess
  <2>2. SameTasks
    BY <2>1, <1>t, StoppedKeeps DEF SameTasks
  <2> QED
    BY <1>0, <2>2, SameFades
<1>3. CASE HandleFailure(t)
  <2>1. SameTasks
    BY <1>3, <1>t, StoppedKeeps DEF HandleFailure, SameTasks, TaskActor
  <2> QED
    BY <1>0, <2>1, SameFades
<1>4. CASE EscalateAndRestart(t)
  <2>1. SameTasks
    BY <1>4, <1>t, StoppedKeeps DEF EscalateAndRestart, SameTasks
  <2> QED
    BY <1>0, <2>1, SameFades
<1>5. CASE TaskActorGone(t)
  <2>1. task' = [task EXCEPT ![t].state = "gone", ![t].executorActor = None]
    BY <1>5 DEF TaskActorGone
  <2>2. \A b \in Attempts : att[b].task = t => ~Alive(b)
    BY <1>5 DEF TaskActorGone, Alive
  <2>3. \A u \in Tasks :
          /\ task'[u].isTaken = task[u].isTaken /\ task'[u].targetVm = task[u].targetVm
          /\ task'[u].watchedExecs = task[u].watchedExecs
          /\ u # t => task'[u].executorActor = task[u].executorActor
    BY <2>1, <1>t DEF TaskActor
  <2> QED
    BY <1>0, <2>2, <2>3 DEF Fades, Phases, Alive
<1> QED
  BY <1>1, <1>2, <1>3, <1>4, <1>5 DEF TaskStep

(* Attempts that end leave the invariant alone. *)
LEMMA FadesKeeps ==
  ASSUME TypeInv, ExecInv, Fades
  PROVE  ExecInv'
<1>w. \A b \in Attempts : Watched(b)' => Watched(b)
  BY DEF Fades, Watched
<1>l. \A b \in Attempts : Alive(b)' => Alive(b)
  BY DEF Fades, Alive
<1>b. \A b \in Attempts : Busy(b)' => Busy(b)
  BY <1>w, <1>l DEF Fades, Busy, Active, Alive
<1>t. \A b \in Attempts : Busy(b) => att[b].task \in Tasks
  BY DEF Busy, Watched, Active, TypeInv, AttemptsOK, ExecInv, OwnExecutors
<1>1. OwnExecutors'
  BY DEF Fades, ExecInv, OwnExecutors, TypeInv, TypeOK, TaskActor
<1>2. Phases'
  BY <1>w DEF Fades, ExecInv, Phases
<1>3. BusyIsTaken'
  BY <1>b, <1>t DEF Fades, ExecInv, BusyIsTaken
<1>4. OneBusy'
  BY <1>b DEF Fades, ExecInv, OneBusy
<1>5. Current'
  BY <1>l, <1>t DEF Fades, ExecInv, Current, Busy, Active, Alive
<1>6. TargetIsVm'
  <2>1. \A b \in Attempts : Targeted(b)' => Targeted(b)
    BY <1>w, <1>l DEF Fades, Targeted
  <2>2. \A b \in Attempts : Targeted(b) => Busy(b)
    BY DEF Targeted, Busy, Active, Alive
  <2> QED
    BY <2>1, <2>2, <1>t DEF Fades, ExecInv, TargetIsVm
<1> QED
  BY <1>1, <1>2, <1>3, <1>4, <1>5, <1>6 DEF ExecInv

\* What a step that concerns attempt a of task t leaves alone.
OthersSame(a, t) ==
  /\ \A b \in Attempts : b # a => att'[b] = att[b]
  /\ \A u \in Tasks :
       u # t => /\ task'[u].isTaken = task[u].isTaken /\ task'[u].targetVm = task[u].targetVm
                /\ task'[u].watchedExecs = task[u].watchedExecs
                /\ task'[u].executorActor = task[u].executorActor
  /\ \A b \in Attempts : b # a /\ b \in task'[t].watchedExecs => b \in task[t].watchedExecs

\* The attempt a of t, and nothing else, has its task or gets it.
HasItsTask(a, t) ==
  /\ \A b \in Attempts : b # a /\ Busy(b) => att[b].task # t
  /\ \A u \in Tasks : u # t => a \notin task[u].watchedExecs

(* A step with which the attempt that has the task gets on or ends keeps the *)
(* invariant, if it does so for the attempt itself.                          *)
LEMMA OneAdvances ==
  ASSUME TypeInv, TypeInv', ExecInv, NEW a \in Attempts, NEW t \in Tasks,
         HasItsTask(a, t), OthersSame(a, t),
         att'[a].task = t, ~att'[a].kill,
         att'[a].reply # "none" => att'[a].callback = "none" /\ att'[a].executor = "none",
         att'[a].callback = "directory" => att'[a].executor = "none",
         att'[a].failed # "none" => att'[a].executor = "suspended",
         a \in task'[t].watchedExecs => att'[a].executor # "none",
         Active(a)' \/ a \in task'[t].watchedExecs => task'[t].isTaken,
         Alive(a)' => task'[t].executorActor = a,
         att'[a].callback = "directory" \/ Alive(a)' \/ a \in task'[t].watchedExecs
           => task'[t].targetVm = att'[a].vm
  PROVE  ExecInv'
<1>o. \A b \in Attempts : b # a => att'[b] = att[b]
  BY DEF OthersSame
<1>wa. Watched(a)' => a \in task'[t].watchedExecs
  BY DEF Watched, OthersSame, HasItsTask
<1>w. \A b \in Attempts : b # a /\ Watched(b)' => Watched(b)
  BY DEF OthersSame, Watched
<1>l. \A b \in Attempts : b # a => (Alive(b)' <=> Alive(b))
  BY <1>o DEF Alive
<1>b. \A b \in Attempts : b # a /\ Busy(b)' => Busy(b)
  BY <1>o, <1>w, <1>l DEF Busy, Active, Alive
<1>t. \A b \in Attempts : b # a /\ Busy(b) => att[b].task \in Tasks /\ att[b].task # t
  BY DEF Busy, Watched, Active, TypeInv, AttemptsOK, ExecInv, OwnExecutors, HasItsTask
<1>1. OwnExecutors'
  <2> SUFFICES ASSUME NEW u \in Tasks, NEW b \in task'[u].watchedExecs PROVE att'[b].task = u
    BY DEF OwnExecutors
  <2>1. b \in Attempts
    BY DEF TypeInv, TypeOK, TaskActor
  <2>2. CASE b = a
    BY <2>2, <1>wa DEF Watched, OthersSame, HasItsTask
  <2>3. CASE b # a
    BY <2>1, <2>3, <1>o DEF OthersSame, ExecInv, OwnExecutors
  <2> QED
    BY <2>2, <2>3
<1>2. Phases'
  BY <1>o, <1>w, <1>wa DEF ExecInv, Phases
<1>3. BusyIsTaken'
  <2>1. Busy(a)' => Active(a)' \/ a \in task'[t].watchedExecs
    BY <1>wa DEF Busy
  <2> QED
    BY <2>1, <1>o, <1>b, <1>t DEF OthersSame, ExecInv, BusyIsTaken
<1>4. OneBusy'
  BY <1>o, <1>b, <1>t DEF ExecInv, OneBusy
<1>5. Current'
  <2>1. \A b \in Attempts : b # a /\ Alive(b) => Busy(b)
    BY DEF Busy, Active, Alive
  <2> QED
    BY <2>1, <1>o, <1>l, <1>t DEF OthersSame, ExecInv, Current
<1>6. TargetIsVm'
  <2>1. \A b \in Attempts : b # a /\ Targeted(b)' => Targeted(b)
    BY <1>o, <1>w, <1>l DEF Targeted
  <2>2. \A b \in Attempts : Targeted(b) => Busy(b)
    BY DEF Targeted, Busy, Active, Alive
  <2>3. Targeted(a)' => att'[a].callback = "directory" \/ Alive(a)' \/ a \in task'[t].watchedExecs
    BY <1>wa DEF Targeted
  <2> QED
    BY <2>1, <2>2, <2>3, <1>o, <1>t DEF OthersSame, ExecInv, TargetIsVm
<1> QED
  BY <1>1, <1>2, <1>3, <1>4, <1>5, <1>6 DEF ExecInv

(* A busy attempt has its task. *)
LEMMA BusyHasItsTask ==
  ASSUME TypeInv, ExecInv, NEW a \in Attempts, Busy(a)
  PROVE  /\ att[a].task \in Tasks
         /\ HasItsTask(a, att[a].task)
  BY DEF Busy, Watched, Active, TypeInv, AttemptsOK, ExecInv, OwnExecutors, OneBusy, HasItsTask

(* handleGetTask begins an attempt for a task that has none. *)
LEMMA GetTaskKeeps ==
  ASSUME TypeInv, TypeInv', ExecInv, NEW t \in Tasks, NEW v \in VMs, NEW a \in Attempts,
         GetTask(t, v, a)
  PROVE  ExecInv'
<1>t. task \in [Tasks -> TaskActor] /\ att \in [Attempts -> Attempt]
  BY DEF TypeInv, TypeOK
<1>1. \A u \in Tasks : a \notin task[u].watchedExecs
  BY DEF GetTask, Free
<1>2. HasItsTask(a, t)
  BY <1>1 DEF GetTask, ExecInv, BusyIsTaken, HasItsTask
<1>3. att' = [att EXCEPT ![a] = Offer(t, v, "waiting")]
  BY DEF GetTask
<1>4. att'[a] = Offer(t, v, "waiting") /\ \A b \in Attempts : b # a => att'[b] = att[b]
  BY <1>t, <1>3
<1>5. /\ \A u \in Tasks : u # t => task'[u] = task[u]
      /\ task'[t].isTaken /\ task'[t].watchedExecs = task[t].watchedExecs
  BY <1>t DEF GetTask, TaskActor
<1>6. OthersSame(a, t)
  BY <1>4, <1>5 DEF OthersSame
<1>7. /\ att'[a].task = t /\ ~att'[a].kill /\ att'[a].callback = "none"
      /\ att'[a].executor = "none" /\ att'[a].failed = "none"
  BY <1>4 DEF Offer
<1>8. ~Alive(a)'
  BY <1>7 DEF Alive
<1> QED
  BY <1>1, <1>2, <1>5, <1>6, <1>7, <1>8, OneAdvances

(* A callback or handleTermianted releases the task of an attempt that ends. *)
LEMMA ReleaseKeeps ==
  ASSUME TypeInv, TypeInv', ExecInv, NEW a \in Attempts, NEW t \in Tasks, att[a].task = t,
         OfferFails(a) \/ NoExecutorAddress(a) \/ (TerminatedExecutor(t, a) /\ ~task[t].taskDone)
  PROVE  ExecInv'
<1>t. task \in [Tasks -> TaskActor] /\ att \in [Attempts -> Attempt]
  BY DEF TypeInv, TypeOK
<1>p. Phases
  BY DEF ExecInv
<1>1. Busy(a)
  BY DEF OfferFails, NoExecutorAddress, TerminatedExecutor, Busy, Active, Watched
<1>2. HasItsTask(a, t)
  BY <1>1, BusyHasItsTask
<1>3. /\ \A b \in Attempts : b # a => att'[b] = att[b]
      /\ att'[a].task = t /\ ~att'[a].kill /\ att'[a].reply = "none"
      /\ att'[a].callback # "directory" /\ att'[a].failed = "none"
      /\ att'[a].executor \in {"none", "stopped"}
  <2>1. CASE OfferFails(a)
    BY <2>1, <1>t, <1>p DEF OfferFails, Phases, Attempt
  <2>2. CASE NoExecutorAddress(a)
    BY <2>2, <1>t, <1>p DEF NoExecutorAddress, Phases, Attempt
  <2>3. CASE TerminatedExecutor(t, a)
    <3>1. UNCHANGED att /\ Watched(a) /\ att[a].executor = "stopped"
      BY <2>3 DEF TerminatedExecutor, Watched
    <3> QED
      BY <3>1, <1>p DEF Phases
  <2> QED
    BY <2>1, <2>2, <2>3
<1>4. /\ \A u \in Tasks : u # t => task'[u] = task[u]
      /\ a \notin task'[t].watchedExecs
      /\ task'[t].watchedExecs \subseteq task[t].watchedExecs
  <2>1. CASE OfferFails(a)
    <3>1. a \notin task[t].watchedExecs
      BY <2>1, <1>p DEF OfferFails, Phases, Watched
    <3> QED
      BY <2>1, <3>1, <1>t DEF OfferFails, TaskActor
  <2>2. CASE NoExecutorAddress(a)
    <3>1. a \notin task[t].watchedExecs
      BY <2>2, <1>p DEF NoExecutorAddress, Phases, Watched
    <3> QED
      BY <2>2, <3>1, <1>t DEF NoExecutorAddress, TaskActor
  <2>3. CASE TerminatedExecutor(t, a) /\ ~task[t].taskDone
    <3> DEFINE tgt == task[t].targetVm
               y == [task[t] EXCEPT !.isTaken = FALSE,
                                    !.watchedVms = @ \ {tgt},
                                    !.watchedExecs = @ \ {a},
                                    !.targetVm = None,
                                    !.state = IF tgt = None THEN "error" ELSE @]
    <3>1. task' = [task EXCEPT ![t] = y]
      BY <2>3, Zenon DEF TerminatedExecutor
    <3>2. y.watchedExecs = task[t].watchedExecs \ {a}
      BY <1>t DEF TaskActor
    <3> HIDE DEF y
    <3> QED
      BY <1>t, <3>1, <3>2
  <2> QED
    BY <2>1, <2>2, <2>3
<1>5. OthersSame(a, t)
  BY <1>3, <1>4 DEF OthersSame
<1>6. ~Alive(a)' /\ ~Active(a)'
  BY <1>3 DEF Alive, Active
<1> QED
  BY <1>2, <1>3, <1>4, <1>5, <1>6, OneAdvances

(* Success(AcquireExecutor): the task keeps the attempt and learns its VM. *)
LEMMA AcquireKeeps ==
  ASSUME TypeInv, TypeInv', ExecInv, NEW a \in Attempts, AcquireExecutor(a)
  PROVE  ExecInv'
<1>t. task \in [Tasks -> TaskActor] /\ att \in [Attempts -> Attempt]
  BY DEF TypeInv, TypeOK
<1>p. Phases
  BY DEF ExecInv
<1>1. Busy(a)
  BY DEF AcquireExecutor, Busy, Active
<1>2. PICK t \in Tasks : t = att[a].task
  BY <1>1, BusyHasItsTask
<1>3. HasItsTask(a, t) /\ task[t].isTaken
  BY <1>1, <1>2, BusyHasItsTask DEF ExecInv, BusyIsTaken
<1>4. /\ \A b \in Attempts : b # a => att'[b] = att[b]
      /\ att'[a].task = t /\ ~att'[a].kill /\ att'[a].reply = "none"
      /\ att'[a].callback = "directory" /\ att'[a].failed = "none"
      /\ att'[a].executor = "none" /\ att'[a].vm = att[a].vm
  BY <1>t, <1>p, <1>2 DEF AcquireExecutor, Phases, Attempt
<1>5. /\ \A u \in Tasks : u # t => task'[u] = task[u]
      /\ task'[t].watchedExecs = task[t].watchedExecs
      /\ task'[t].isTaken = task[t].isTaken
      /\ task'[t].targetVm = att[a].vm
  BY <1>t, <1>2 DEF AcquireExecutor, TaskActor
<1>6. a \notin task'[t].watchedExecs
  BY <1>p, <1>5 DEF AcquireExecutor, Phases, Watched
<1>7. OthersSame(a, t)
  BY <1>4, <1>5 DEF OthersSame
<1>8. ~Alive(a)'
  BY <1>4 DEF Alive
<1> QED
  BY <1>3, <1>4, <1>5, <1>6, <1>7, <1>8, OneAdvances

(* The executor is created for the attempt that has the task. *)
LEMMA HandOverKeeps ==
  ASSUME TypeInv, TypeInv', ExecInv, NEW a \in Attempts, AcquireLocally(a) \/ ExecutorAddress(a)
  PROVE  ExecInv'
<1>t. task \in [Tasks -> TaskActor] /\ att \in [Attempts -> Attempt]
  BY DEF TypeInv, TypeOK
<1>p. Phases
  BY DEF ExecInv
<1>1. Busy(a)
  BY DEF AcquireLocally, ExecutorAddress, Busy, Active
<1>2. PICK t \in Tasks : t = att[a].task
  BY <1>1, BusyHasItsTask
<1>3. HasItsTask(a, t) /\ task[t].isTaken
  BY <1>1, <1>2, BusyHasItsTask DEF ExecInv, BusyIsTaken
<1>4. PICK watch : HandOver(a, att[a].vm, watch)
  BY DEF AcquireLocally, ExecutorAddress, ExecInv, TargetIsVm, Targeted
<1>5. att[a].executor = "none" /\ att[a].failed = "none" /\ a \notin task[t].watchedExecs
  BY <1>p DEF AcquireLocally, ExecutorAddress, Phases, Watched
<1>6. att[a].vm \in VMs /\ att[a].vm # None
  BY ConstantsAssumption DEF AcquireLocally, ExecutorAddress, TypeInv, AttemptsOK
<1> DEFINE created == ~Ended(t)
           sent == created /\ att[a].vm # None
           x == [att[a] EXCEPT !.reply = "none",
                               !.callback = IF sent THEN "running" ELSE "none",
                               !.executor = IF sent THEN "running"
                                            ELSE IF created THEN "idle" ELSE @]
           y == [task[t] EXCEPT !.targetVm = att[a].vm, !.watchedVms = @ \cup watch,
                                !.executorActor = IF created THEN a ELSE @,
                                !.watchedExecs = IF created THEN @ \cup {a} ELSE @]
<1>7. att' = [att EXCEPT ![a] = x] /\ task' = [task EXCEPT ![t] = y]
  BY <1>2, <1>4, Zenon DEF HandOver
<1>8. /\ x.task = t /\ x.vm = att[a].vm /\ ~x.kill /\ x.failed = "none" /\ x.reply = "none"
      /\ x.callback # "directory"
      /\ x.executor = IF created THEN "running" ELSE "none"
  BY <1>t, <1>p, <1>2, <1>5, <1>6 DEF Attempt, Phases
<1>9. /\ y.isTaken = task[t].isTaken /\ y.targetVm = att[a].vm
      /\ y.executorActor = IF created THEN a ELSE task[t].executorActor
      /\ y.watchedExecs = IF created THEN task[t].watchedExecs \cup {a} ELSE task[t].watchedExecs
  BY <1>t DEF TaskActor
<1> HIDE DEF x, y, created
<1>10. att'[a] = x /\ task'[t] = y
  BY <1>t, <1>7
<1>11. /\ \A b \in Attempts : b # a => att'[b] = att[b]
       /\ \A u \in Tasks : u # t => task'[u] = task[u]
  BY <1>t, <1>7
<1>12. OthersSame(a, t)
  BY <1>9, <1>10, <1>11 DEF OthersSame
<1>13. Alive(a)' => created
  BY <1>8, <1>10 DEF Alive
<1> QED
  BY <1>3, <1>5, <1>8, <1>9, <1>10, <1>12, <1>13, OneAdvances

(* A TaskActor that handles messages is told of no VM's end. *)
LEMMA NoVmTerminates ==
  ASSUME GoneInv, VmsLast, NEW t \in Tasks, NEW v \in VMs
  PROVE  ~TerminatedVm(t, v)
  BY DEF GoneInv, GoneGroupIsEmpty, VmsLast, TerminatedVm

(* Every step keeps the invariant of the executions. *)
LEMMA ExecInvStep ==
  ASSUME TypeInv, ResultInv, GoneInv, VmsLast, ExecInv, [Next]_vars
  PROVE  ExecInv'
<1>0. TypeInv' /\ Phases /\ DoneTaskHandlesNothing
  BY TypeInvStep DEF ExecInv, ResultInv
<1>1. CASE UNCHANGED vars
  BY <1>0, <1>1, SameFades, FadesKeeps DEF vars, SameTasks
<1>2. ASSUME NEW v \in VMs, VmStep(v) PROVE ExecInv'
  BY <1>0, <1>2, VmFades, FadesKeeps
<1>3. ASSUME NEW a \in Attempts, AttemptStep(a) PROVE ExecInv'
  <2>1. CASE ~Advances(a)
    BY <1>0, <1>3, <2>1, AttemptFades, FadesKeeps
  <2>2. CASE OfferFails(a) \/ NoExecutorAddress(a)
    <3>1. PICK t \in Tasks : t = att[a].task
      BY <1>3, StepsForTask
    <3> QED
      BY <1>0, <2>2, <3>1, ReleaseKeeps
  <2> QED
    BY <1>0, <2>1, <2>2, AcquireKeeps, HandOverKeeps DEF Advances
<1>4. ASSUME NEW t \in Tasks, TaskStep(t) PROVE ExecInv'
  <2>1. ASSUME NEW a \in Attempts, TerminatedExecutor(t, a) PROVE ExecInv'
    <3>1. att[a].task = t
      BY <2>1 DEF TerminatedExecutor, ExecInv, OwnExecutors
    <3>2. ~task[t].taskDone
      BY <1>0, <2>1 DEF TerminatedExecutor, DoneTaskHandlesNothing
    <3> QED
      BY <1>0, <2>1, <3>1, <3>2, ReleaseKeeps
  <2>2. ASSUME NEW v \in VMs, NEW a \in Attempts, GetTask(t, v, a) PROVE ExecInv'
    BY <1>0, <2>2, GetTaskKeeps
  <2>3. ASSUME \A v \in VMs : \A a \in Attempts : ~GetTask(t, v, a),
               \A a \in Attempts : ~TerminatedExecutor(t, a)
        PROVE  ExecInv'
    BY <1>0, <1>4, <2>3, NoVmTerminates, TaskFades, FadesKeeps
  <2> QED
    BY <2>1, <2>2, <2>3
<1> QED
  BY <1>1, <1>2, <1>3, <1>4 DEF Next

(* A group that has stopped itself is not restarted. *)
LEMMA GroupStaysGone ==
  ASSUME TypeInv, GoneInv, group.state = "gone", [Next]_vars
  PROVE  group'.state = "gone"
<1>g. group \in Group
  BY DEF TypeInv, TypeOK
<1>t. \A t \in Tasks : task[t].state = "gone"
  BY DEF GoneInv, GoneGroupIsEmpty
<1>1. ASSUME NEW v \in VMs, VmStep(v) PROVE UNCHANGED group
  BY <1>1
  DEF VmStep, Poll, VMSendTask, VMExecutor, VMCannotGetExecutor, VMTerminated,
      VMRestApiRequest, VMNoMoreTasks, VMDies, SuicideOnGetTask
<1>2. ASSUME NEW a \in Attempts, AttemptStep(a) PROVE UNCHANGED group
  BY <1>2
  DEF AttemptStep, OfferFails, AcquireLocally, AcquireExecutor, ExecutorAddress,
      NoExecutorAddress, WriteRunning, ExecutorEnds, ExecutorStops, ExecutorCrashes,
      DecideNotTaken, DecideSuccess, DecideFailure, DecideVmNotAlive, DecideNoAnswer,
      DecideUnexpected
<1>3. ASSUME NEW t \in Tasks, TaskStep(t) PROVE FALSE
  BY <1>3, <1>t
  DEF TaskStep, GetTask, GetTaskUnhandled, TerminatedVm, TerminatedExecutor, PersistAndSuicide,
      HandleSuccess, HandleFailure, EscalateAndRestart, TaskActorGone
<1> QED
  BY <1>1, <1>2, <1>3 DEF Next, vars

(* Without vmDeath a VM ends only by NoMoreTasks. *)
LEMMA VmsLastStep ==
  ASSUME "vmDeath" \notin Faults, TypeInv, GoneInv, VmsLast, [Next]_vars
  PROVE  VmsLast'
<1>v. vm \in [VMs -> VMProxy]
  BY DEF TypeInv, TypeOK
<1>1. ASSUME NEW v \in VMs, VmStep(v), ~VMNoMoreTasks(v)
      PROVE  \A w \in VMs : vm'[w].up = vm[w].up
  <2>1. ASSUME NEW a \in Attempts, VMSendTask(v, a) PROVE \A w \in VMs : vm'[w].up = vm[w].up
    BY <2>1, <1>v DEF VMSendTask, VMProxy
  <2>2. ASSUME NEW a \in Attempts, VMExecutor(v, a) PROVE \A w \in VMs : vm'[w].up = vm[w].up
    BY <2>2, <1>v DEF VMExecutor, VMProxy
  <2>3. ASSUME NEW a \in Attempts, VMCannotGetExecutor(v, a) \/ VMRestApiRequest(v, a)
        PROVE  \A w \in VMs : vm'[w].up = vm[w].up
    BY <2>3, <1>v DEF VMCannotGetExecutor, VMRestApiRequest, VMProxy
  <2>4. ASSUME NEW a \in Attempts, VMTerminated(v, a) PROVE \A w \in VMs : vm'[w].up = vm[w].up
    BY <2>4, <1>v DEF VMTerminated, VMProxy
  <2>5. ASSUME Poll(v) \/ SuicideOnGetTask(v) PROVE vm' = vm
    BY <2>5 DEF Poll, SuicideOnGetTask
  <2> QED
    BY <1>1, <2>1, <2>2, <2>3, <2>4, <2>5 DEF VmStep, VMDies
<1>2. ASSUME NEW v \in VMs, VMNoMoreTasks(v) PROVE group.state = "gone"
  BY <1>2 DEF VMNoMoreTasks
<1>3. ASSUME NEW a \in Attempts, AttemptStep(a) PROVE vm' = vm
  BY <1>3
  DEF AttemptStep, OfferFails, AcquireLocally, AcquireExecutor, ExecutorAddress, HandOver,
      NoExecutorAddress, WriteRunning, ExecutorEnds, ExecutorStops, ExecutorCrashes,
      DecideNotTaken, DecideSuccess, DecideFailure, DecideVmNotAlive, DecideNoAnswer,
      DecideUnexpected
<1>4. ASSUME NEW t \in Tasks, TaskStep(t) PROVE vm' = vm
  BY <1>4
  DEF TaskStep, GetTask, GetTaskUnhandled, TerminatedVm, TerminatedExecutor, PersistAndSuicide,
      HandleSuccess, HandleFailure, EscalateAndRestart, TaskActorGone
<1>5. (\A w \in VMs : vm'[w].up = vm[w].up) \/ group.state = "gone"
  BY <1>1, <1>2, <1>3, <1>4 DEF Next, vars
<1>6. ASSUME NEW w \in VMs, ~vm'[w].up PROVE group.state = "gone"
  BY <1>5, <1>6 DEF VmsLast
<1> QED
  BY <1>6, GroupStaysGone DEF VmsLast

(* The invariant holds, and with it what was proved before. *)
LEMMA ExecInvariant ==
  ASSUME "vmDeath" \notin Faults
  PROVE  Spec => [](TypeInv /\ ResultInv /\ GoneInv /\ VmsLast /\ ExecInv)
<1>1. Init => GoneInv /\ VmsLast /\ ExecInv
  BY GoneInvInit, ExecInvInit DEF Init, ReadyVM, VmsLast
<1>2. TypeInv /\ ResultInv /\ GoneInv /\ VmsLast /\ ExecInv /\ [Next]_vars
        => GoneInv' /\ VmsLast' /\ ExecInv'
  BY GoneInvStep, VmsLastStep, ExecInvStep
<1> QED
  BY <1>1, <1>2, ResultInvariant, PTL DEF Spec

(* AtMostOneExecution holds as long as no VM dies: isTaken keeps a task from *)
(* being executed twice at the same time, although offers time out,          *)
(* executors crash and the callbacks that set and reset isTaken run outside  *)
(* the actor.                                                                *)
THEOREM ExecutedOnceAtATime ==
  ASSUME "vmDeath" \notin Faults
  PROVE  Spec => []AtMostOneExecution
<1>1. ExecInv => AtMostOneExecution
  BY DEF ExecInv, OneBusy, Busy, AtMostOneExecution
<1> QED
  BY <1>1, ExecInvariant, PTL

(* ResultOfCurrentExecutor holds as long as no VM dies: the exception that   *)
(* ends a task was thrown by the executor the TaskActor is waiting for.      *)
THEOREM ResultIsOfCurrentExecutor ==
  ASSUME "vmDeath" \notin Faults
  PROVE  Spec => ResultOfCurrentExecutor
<1>1. TypeInv /\ ExecInv =>
        [\A a \in Attempts : \A t \in Tasks :
           /\ att[a].task = t /\ att[a].failed # "none" /\ att'[a].failed = "none"
           /\ task[t].state = "up" /\ task'[t].state \in {"success", "failure"}
           => task[t].executorActor = a]_vars
  BY DEF ExecInv, Phases, Current, Alive
<1> QED
  BY <1>1, ExecInvariant, PTL DEF ResultOfCurrentExecutor

-----------------------------------------------------------------------------
(* No task is lost *)

\* No TaskActor fails with an exception its group does not know, and each one
\* is stopped only with its end state in the database.
EndedWithResult ==
  \A t \in Tasks : task[t].state # "error" /\ (Ended(t) => db[t].end # "NONE")

\* A step in which no TaskActor fails with an unknown exception.
NoNewError == \A u \in Tasks : task'[u].state = "error" => task[u].state = "error"

(* Without dying or silent VMs, StillAlive is answered and targetVm is there *)
(* when handleTermianted unwatches it.                                       *)
LEMMA ErrorFree ==
  ASSUME "silentVm" \notin Faults, TypeInv, ResultInv, GoneInv, VmsLast, ExecInv, [Next]_vars
  PROVE  NoNewError
<1>t. task \in [Tasks -> TaskActor]
  BY DEF TypeInv, TypeOK
<1>g. ASSUME NEW t \in Tasks, task[t].state = "up", NEW v \in VMs PROVE vm[v].up
  BY <1>g DEF VmsLast, GoneInv, GoneGroupIsEmpty
<1>n. \A a \in Attempts : ~DecideNoAnswer(a)
  <2> SUFFICES ASSUME NEW a \in Attempts, DecideNoAnswer(a) PROVE FALSE
    OBVIOUS
  <2>1. Asks(a) /\ ~TargetUp(att[a].task)
    BY DEF DecideNoAnswer
  <2>2. att[a].failed # "none" /\ task[att[a].task].state = "up"
    BY <2>1 DEF Asks, Supervises
  <2>3. att[a].task \in Tasks /\ att[a].vm \in VMs /\ att[a].vm # None
    BY <2>2, PendingAttempt, ConstantsAssumption
  <2>4. task[att[a].task].targetVm = att[a].vm
    BY <2>2 DEF ExecInv, Phases, TargetIsVm, Targeted, Alive
  <2> QED
    BY <1>g, <2>1, <2>2, <2>3, <2>4 DEF TargetUp
<1>1. ASSUME NEW v \in VMs, VmStep(v) PROVE NoNewError
  <2>1. CASE Poll(v)
    BY <2>1, <1>t DEF Poll, NoNewError, TaskActor
  <2>2. ASSUME ~Poll(v) PROVE UNCHANGED task
    BY <1>1, <2>2
    DEF VmStep, VMSendTask, VMExecutor, VMCannotGetExecutor, VMTerminated, VMRestApiRequest,
        VMNoMoreTasks, VMDies, SuicideOnGetTask
  <2> QED
    BY <2>1, <2>2 DEF NoNewError
<1>2. ASSUME NEW a \in Attempts, AttemptStep(a) PROVE NoNewError
  <2>0. PICK t \in Tasks : t = att[a].task
    BY <1>2, StepsForTask
  <2>1. CASE OfferFails(a) \/ NoExecutorAddress(a)
    <3>1. PICK b : task' = [task EXCEPT ![t].isTaken = b]
      BY <2>0, <2>1 DEF OfferFails, NoExecutorAddress
    <3> QED
      BY <1>t, <3>1 DEF NoNewError, TaskActor
  <2>2. CASE AcquireExecutor(a)
    BY <2>0, <2>2, <1>t DEF AcquireExecutor, NoNewError, TaskActor
  <2>3. ASSUME NEW tgt, NEW watch, HandOver(a, tgt, watch) PROVE NoNewError
    <3> DEFINE y == [task[t] EXCEPT !.targetVm = tgt, !.watchedVms = @ \cup watch,
                                    !.executorActor = IF ~Ended(t) THEN a ELSE @,
                                    !.watchedExecs = IF ~Ended(t) THEN @ \cup {a} ELSE @]
    <3>1. task' = [task EXCEPT ![t] = y]
      BY <2>0, <2>3, Zenon DEF HandOver
    <3>2. y.state = task[t].state
      BY <1>t DEF TaskActor
    <3> HIDE DEF y
    <3> QED
      BY <1>t, <3>1, <3>2 DEF NoNewError
  <2>4. CASE AcquireLocally(a) \/ ExecutorAddress(a)
    BY <2>3, <2>4 DEF AcquireLocally, ExecutorAddress
  <2>5. CASE DecideSuccess(a) \/ DecideFailure(a)
    <3>1. PICK s \in {"success", "failure"} :
            task' = [task EXCEPT ![t].taskDone = TRUE, ![t].state = s]
      BY <2>0, <2>5 DEF DecideSuccess, DecideFailure
    <3> QED
      BY <1>t, <3>1 DEF NoNewError, TaskActor
  <2>6. CASE DecideVmNotAlive(a) \/ DecideUnexpected(a)
    <3>1. task' = [task EXCEPT ![t].taskDone = FALSE]
      BY <2>0, <2>6 DEF DecideVmNotAlive, DecideUnexpected
    <3> QED
      BY <1>t, <3>1 DEF NoNewError, TaskActor
  <2>7. CASE \/ WriteRunning(a) \/ \E o \in Outcomes : ExecutorEnds(a, o)
             \/ ExecutorStops(a) \/ ExecutorCrashes(a) \/ DecideNotTaken(a)
    <3>1. UNCHANGED task
      BY <2>7 DEF WriteRunning, ExecutorEnds, ExecutorStops, ExecutorCrashes, DecideNotTaken
    <3> QED
      BY <3>1 DEF NoNewError
  <2> QED
    BY <1>2, <1>n, <2>1, <2>2, <2>4, <2>5, <2>6, <2>7 DEF AttemptStep
<1>3. ASSUME NEW t \in Tasks, TaskStep(t) PROVE NoNewError
  <2>1. ASSUME NEW v \in VMs, GetTaskUnhandled(t, v) \/ \E a \in Attempts : GetTask(t, v, a)
        PROVE  NoNewError
    BY <2>1, <1>t DEF GetTaskUnhandled, GetTask, NoNewError, TaskActor
  <2>2. ASSUME NEW a \in Attempts, TerminatedExecutor(t, a) PROVE NoNewError
    <3>1. att[a].task = t /\ Watched(a) /\ att[a].executor # "none"
      BY <2>2 DEF TerminatedExecutor, ExecInv, OwnExecutors, Watched
    <3>2. task[t].targetVm = att[a].vm /\ att[a].vm # None
      BY <3>1, PendingAttempt, ConstantsAssumption DEF ExecInv, TargetIsVm, Targeted
    <3>3. ~task[t].taskDone
      BY <2>2 DEF TerminatedExecutor, ResultInv, DoneTaskHandlesNothing
    <3> DEFINE tgt == task[t].targetVm
               y == [task[t] EXCEPT !.isTaken = FALSE,
                                    !.watchedVms = @ \ {tgt},
                                    !.watchedExecs = @ \ {a},
                                    !.targetVm = None,
                                    !.state = IF tgt = None THEN "error" ELSE @]
    <3>4. task' = [task EXCEPT ![t] = y]
      BY <2>2, <3>3, Zenon DEF TerminatedExecutor
    <3>5. y.state = task[t].state
      BY <1>t, <3>2 DEF TaskActor
    <3> HIDE DEF y
    <3> QED
      BY <1>t, <3>4, <3>5 DEF NoNewError
  <2>3. CASE PersistAndSuicide(t) \/ HandleSuccess(t)
    <3>1. task' = [task EXCEPT ![t] = StoppedActor(t)]
      BY <2>3 DEF PersistAndSuicide, HandleSuccess
    <3> QED
      BY <1>t, <3>1, StoppedFacts DEF NoNewError
  <2>4. CASE HandleFailure(t)
    BY <2>4, <1>t, StoppedFacts DEF HandleFailure, NoNewError, TaskActor
  <2>5. CASE EscalateAndRestart(t)
    BY <2>5, <1>t, StoppedFacts DEF EscalateAndRestart, NoNewError
  <2>6. CASE TaskActorGone(t)
    <3>1. task' = [task EXCEPT ![t].state = "gone", ![t].executorActor = None]
      BY <2>6 DEF TaskActorGone
    <3> QED
      BY <1>t, <3>1 DEF NoNewError, TaskActor
  <2> QED
    BY <1>3, <2>1, <2>2, <2>3, <2>4, <2>5, <2>6, NoVmTerminates DEF TaskStep
<1> QED
  BY <1>1, <1>2, <1>3 DEF Next, vars, NoNewError

(* A TaskActor is stopped only by a step that writes its end state. *)
LEMMA EndedWithResultStep ==
  ASSUME "silentVm" \notin Faults, TypeInv, ResultInv, GoneInv, VmsLast, ExecInv,
         EndedWithResult, [Next]_vars
  PROVE  EndedWithResult'
<1>t. task \in [Tasks -> TaskActor] /\ db \in [Tasks -> Row]
  BY DEF TypeInv, TypeOK
<1>1. \A u \in Tasks : task'[u].state # "error"
  BY ErrorFree DEF NoNewError, EndedWithResult
<1>2. \A u \in Tasks : task'[u].state \in {"stopping", "gone"} => db'[u].end # "NONE"
  <2>1. CASE Quiet
    BY <2>1 DEF Quiet, EndedWithResult, Ended
  <2>2. ASSUME NEW t \in Tasks, PersistAndSuicide(t) \/ HandleSuccess(t)
        PROVE  \A u \in Tasks : task'[u].state \in {"stopping", "gone"} => db'[u].end # "NONE"
    <3>1. PICK r \in Row : r.end # "NONE" /\ db' = [db EXCEPT ![t] = r]
      BY <2>2 DEF PersistAndSuicide, HandleSuccess, Row
    <3>2. task' = [task EXCEPT ![t] = StoppedActor(t)]
      BY <2>2 DEF PersistAndSuicide, HandleSuccess
    <3> QED
      BY <1>t, <3>1, <3>2 DEF EndedWithResult, Ended
  <2>3. ASSUME NEW t \in Tasks, HandleFailure(t)
        PROVE  \A u \in Tasks : task'[u].state \in {"stopping", "gone"} => db'[u].end # "NONE"
    BY <1>t, <2>3 DEF HandleFailure, EndedWithResult, Ended, TaskActor
  <2>4. ASSUME NEW t \in Tasks, EscalateAndRestart(t) PROVE FALSE
    BY <2>4 DEF EscalateAndRestart, EndedWithResult
  <2> QED
    BY <2>1, <2>2, <2>3, <2>4, StepKinds DEF ResultInv
<1> QED
  BY <1>1, <1>2 DEF EndedWithResult, Ended

(* NoTaskIsLost holds as long as no VM dies or is silent: whatever happens to *)
(* offers, executors and the directory, a TaskActor goes only when its row    *)
(* has SUCCESS, FAILURE or ABANDONED.                                         *)
THEOREM TasksAreNotLost ==
  ASSUME "vmDeath" \notin Faults, "silentVm" \notin Faults
  PROVE  Spec => []NoTaskIsLost
<1>1. Init => EndedWithResult
  <2>0. NewTaskActor.state = "up"
    BY DEF NewTaskActor
  <2>1. Init => \A t \in Tasks : task[t].state = "up"
    BY <2>0 DEF Init
  <2> QED
    BY <2>1 DEF EndedWithResult, Ended
<1>2. /\ TypeInv /\ ResultInv /\ GoneInv /\ VmsLast /\ ExecInv
      /\ EndedWithResult /\ [Next]_vars
      => EndedWithResult'
  BY EndedWithResultStep
<1>3. EndedWithResult => NoTaskIsLost
  BY DEF EndedWithResult, Ended, NoTaskIsLost
<1> QED
  BY <1>1, <1>2, <1>3, ExecInvariant, PTL DEF Spec

-----------------------------------------------------------------------------
(* The space of a VM *)

Kinds == {"SendTask", "Executor", "CannotGetExecutor"}
Has(v, k, a) == [kind |-> k, att |-> a] \in mail[v]

\* Attempt a has the space of its VM, and still uses it.
Working(a) == att[a].reply = "acquire" \/ att[a].callback = "directory" \/ Alive(a)

\* The VM was, or will be, told of the executor or of its absence.
Informed(v, a) == Has(v, "Executor", a) \/ Has(v, "CannotGetExecutor", a) \/ a \in vm[v].watching

Claims(v, a) == (Working(a) /\ att[a].vm = v) \/ Informed(v, a)

\* The messages about an attempt are for its VM, and come in the order of its phases.
Addressed(v, a) ==
  /\ a \in vm[v].watching \/ (\E k \in Kinds : Has(v, k, a)) => att[a].vm = v
  /\ Has(v, "SendTask", a) =>
       /\ att[a].reply \in {"waiting", "none"} /\ att[a].callback = "none"
       /\ att[a].executor = "none" /\ ~Informed(v, a)
  /\ Informed(v, a) => att[a].reply = "none" /\ att[a].callback # "directory"
  /\ Has(v, "CannotGetExecutor", a) =>
       /\ att[a].executor = "none" /\ att[a].callback = "none"
       /\ ~Has(v, "Executor", a) /\ a \notin vm[v].watching
  /\ Has(v, "Executor", a) => att[a].executor # "none" /\ a \notin vm[v].watching
  /\ a \in vm[v].watching => att[a].executor # "none"

AddressInv == \A v \in VMs : \A a \in Attempts : Addressed(v, a)

(* In the initial state no VM has been offered anything. *)
LEMMA AddressInvInit == Init => AddressInv
<1> SUFFICES ASSUME Init PROVE AddressInv
  OBVIOUS
<1>1. /\ \A a \in Attempts : /\ att[a].reply = "none" /\ att[a].callback = "none"
                             /\ att[a].executor = "none"
      /\ \A v \in VMs : mail[v] = {} /\ vm[v].watching = {}
  BY DEF Init, Offer, ReadyVM
<1> QED
  BY <1>1 DEF AddressInv, Addressed, Informed, Has, Kinds

\* What a step may do to the space of VM v: one attempt may get it, which uses
\* it up, and apart from REST requests it comes back only with a claim that ends.
Gained(v, a) == Claims(v, a)' /\ ~Claims(v, a)
Exchanged(v) ==
  /\ \A a \in Attempts : Gained(v, a) =>
       /\ vm[v].haveSpace /\ ~vm'[v].haveSpace
       /\ \A b \in Attempts : Gained(v, b) => a = b
  /\ vm'[v].haveSpace =>
       \/ vm[v].haveSpace
       \/ \E a \in Attempts : VMRestApiRequest(v, a)
       \/ \E a \in Attempts : Claims(v, a) /\ ~Claims(v, a)'

Orderly == AddressInv' /\ \A v \in VMs : Exchanged(v)

\* A step with which attempt b makes no new claim.
Recedes(b) ==
  /\ att'[b].vm = att[b].vm
  /\ att'[b].reply \in {att[b].reply, "none"}
  /\ att'[b].callback \in {att[b].callback, "none"}
  /\ att'[b].executor = "none" <=> att[b].executor = "none"
  /\ att'[b].executor \in {"idle", "running", "suspended"} => Alive(b)
  /\ \A v \in VMs : /\ b \in vm'[v].watching => b \in vm[v].watching
                    /\ \A k \in Kinds : [kind |-> k, att |-> b] \in mail'[v] => Has(v, k, b)

(* What a receding attempt keeps. *)
LEMMA RecedesKeeps ==
  ASSUME NEW v \in VMs, NEW b \in Attempts, Addressed(v, b), Recedes(b)
  PROVE  Addressed(v, b)' /\ (Claims(v, b)' => Claims(v, b))
<1>1. \A k \in Kinds : Has(v, k, b)' => Has(v, k, b)
  BY DEF Recedes, Has
<1>2. Informed(v, b)' => Informed(v, b)
  BY <1>1 DEF Recedes, Informed, Kinds
<1>3. Working(b)' => Working(b)
  BY DEF Recedes, Working, Alive
<1> QED
  BY <1>1, <1>2, <1>3 DEF Addressed, Claims, Recedes, Kinds

(* When all attempts recede, and no VM gets space, nothing is exchanged. *)
LEMMA AllRecede ==
  ASSUME AddressInv, \A b \in Attempts : Recedes(b),
         \A v \in VMs : vm'[v].haveSpace => vm[v].haveSpace
  PROVE  Orderly
<1>1. \A v \in VMs : \A b \in Attempts : Addressed(v, b)' /\ ~Gained(v, b)
  BY RecedesKeeps DEF AddressInv, Gained
<1> QED
  BY <1>1 DEF Orderly, AddressInv, Exchanged

(* Attempt a takes, keeps or gives back the space of VM v, all others recede. *)
LEMMA OneClaims ==
  ASSUME AddressInv, NEW a \in Attempts, NEW v \in VMs,
         \A b \in Attempts : b # a => Recedes(b),
         \A w \in VMs : Addressed(w, a)',
         \A w \in VMs : w # v => ~Claims(w, a)' /\ (vm'[w].haveSpace => vm[w].haveSpace),
         Claims(v, a)' => Claims(v, a) \/ (vm[v].haveSpace /\ ~vm'[v].haveSpace),
         vm'[v].haveSpace => vm[v].haveSpace \/ (Claims(v, a) /\ ~Claims(v, a)')
  PROVE  Orderly
<1>1. \A w \in VMs : \A b \in Attempts : b # a => Addressed(w, b)' /\ ~Gained(w, b)
  BY RecedesKeeps DEF AddressInv, Gained
<1>2. \A w \in VMs : \A b \in Attempts : Gained(w, b) =>
        w = v /\ b = a /\ vm[v].haveSpace /\ ~vm'[v].haveSpace
  BY <1>1 DEF Gained
<1>3. \A w \in VMs : Exchanged(w)
  BY <1>2 DEF Exchanged
<1> QED
  BY <1>1, <1>3 DEF Orderly, AddressInv

(* What is sent to a VM is in its mailbox, if it is up. *)
LEMMA DeliverHas ==
  ASSUME mail \in [VMs -> SUBSET VmMessage], NEW v \in VMs, NEW k \in Kinds, NEW a \in Attempts,
         mail' = Deliver(v, [kind |-> k, att |-> a]),
         NEW w \in VMs, NEW j \in Kinds, NEW b \in Attempts
  PROVE  /\ Has(w, j, b)' => Has(w, j, b) \/ (w = v /\ j = k /\ b = a)
         /\ Has(w, j, b) => Has(w, j, b)'
  BY DEF Deliver, Has

(* A step that sends and receives nothing lets the attempts recede. *)
LEMMA FadesRecede ==
  ASSUME Fades, RepliesSame, UNCHANGED <<vm, mail>>, AddressInv
  PROVE  Orderly
<1>1. \A b \in Attempts : Recedes(b)
  BY DEF Fades, RepliesSame, Recedes, Has
<1> QED
  BY <1>1, AllRecede

(* The answer to an offer. *)
LEMMA SendTaskClaims ==
  ASSUME TypeInv, AddressInv, NEW v \in VMs, NEW a \in Attempts, VMSendTask(v, a)
  PROVE  Orderly
<1>t. att \in [Attempts -> Attempt]
  BY DEF TypeInv, TypeOK
<1>v. vm \in [VMs -> VMProxy]
  BY DEF TypeInv, TypeOK
<1>m. mail \in [VMs -> SUBSET VmMessage]
  BY DEF TypeInv, TypeOK
<1>0. Has(v, "SendTask", a) /\ att[a].vm = v /\ ~Informed(v, a)
      /\ att[a].reply \in {"waiting", "none"} /\ att[a].callback = "none" /\ att[a].executor = "none"
  BY DEF VMSendTask, VmReceives, Has, AddressInv, Addressed, Kinds
<1>1. \A w \in VMs : \A b \in Attempts : \A k \in Kinds :
        Has(w, k, b)' <=> Has(w, k, b) /\ ~(w = v /\ k = "SendTask" /\ b = a)
  BY <1>m DEF VMSendTask, VmReceives, Has
<1>2. /\ ~vm'[v].haveSpace
      /\ \A w \in VMs : /\ vm'[w].watching = vm[w].watching
                        /\ w # v => vm'[w].haveSpace = vm[w].haveSpace
  BY <1>v DEF VMSendTask, VMProxy
<1>3. PICK r \in {"acquire", "refuse"} :
        /\ att' = [att EXCEPT ![a].reply = IF @ = "waiting" THEN r ELSE @]
        /\ r = "acquire" => vm[v].haveSpace
  BY DEF VMSendTask
<1>4. /\ \A b \in Attempts : b # a => att'[b] = att[b]
      /\ att'[a].vm = v /\ att'[a].callback = "none" /\ att'[a].executor = "none"
      /\ att'[a].reply \in {"none", r}
  BY <1>t, <1>0, <1>3 DEF Attempt
<1>5. \A b \in Attempts : b # a => Recedes(b)
  BY <1>1, <1>2, <1>4 DEF Recedes, Has, Alive
<1>6. \A w \in VMs : ~Informed(w, a)'
  <2>1. \A w \in VMs : ~Informed(w, a)
    BY <1>0 DEF AddressInv, Addressed, Informed, Kinds
  <2> QED
    BY <1>1, <1>2, <2>1 DEF Informed, Kinds
<1>7. \A w \in VMs : ~Has(w, "SendTask", a)'
  BY <1>0, <1>1 DEF AddressInv, Addressed, Kinds
<1>8. \A w \in VMs : Addressed(w, a)'
  BY <1>6, <1>7 DEF Addressed, Informed, Kinds
<1>9. \A w \in VMs : w # v => ~Claims(w, a)'
  BY <1>4, <1>6 DEF Claims
<1>10. Claims(v, a)' => vm[v].haveSpace
  BY <1>3, <1>4, <1>6 DEF Claims, Working, Alive
<1> QED
  BY <1>2, <1>5, <1>8, <1>9, <1>10, OneClaims

(* handlerExecutor: the VM begins to watch the executor it was told of. *)
LEMMA ExecutorClaims ==
  ASSUME TypeInv, AddressInv, NEW v \in VMs, NEW a \in Attempts, VMExecutor(v, a)
  PROVE  Orderly
<1>v. vm \in [VMs -> VMProxy]
  BY DEF TypeInv, TypeOK
<1>m. mail \in [VMs -> SUBSET VmMessage]
  BY DEF TypeInv, TypeOK
<1>0. /\ Has(v, "Executor", a) /\ att[a].vm = v /\ ~Has(v, "SendTask", a)
      /\ ~Has(v, "CannotGetExecutor", a)
      /\ att[a].reply = "none" /\ att[a].callback # "directory" /\ att[a].executor # "none"
  BY DEF VMExecutor, VmReceives, Has, AddressInv, Addressed, Informed, Kinds
<1>1. \A w \in VMs : \A b \in Attempts : \A k \in Kinds :
        Has(w, k, b)' <=> Has(w, k, b) /\ ~(w = v /\ k = "Executor" /\ b = a)
  BY <1>m DEF VMExecutor, VmReceives, Has
<1>2. /\ \A w \in VMs : vm'[w].haveSpace = vm[w].haveSpace
      /\ \A w \in VMs : w # v => vm'[w].watching = vm[w].watching
      /\ vm'[v].watching = vm[v].watching \cup {a}
  BY <1>v DEF VMExecutor, VMProxy
<1>3. UNCHANGED att
  BY DEF VMExecutor
<1>4. \A b \in Attempts : b # a => Recedes(b)
  BY <1>1, <1>2, <1>3 DEF Recedes, Has, Alive
<1>5. Claims(v, a)
  BY <1>0 DEF Claims, Informed
<1>6. \A w \in VMs : w # v => Addressed(w, a)' /\ ~Claims(w, a)'
  <2>1. \A w \in VMs : w # v => a \notin vm[w].watching /\ \A k \in Kinds : ~Has(w, k, a)
    BY <1>0 DEF AddressInv, Addressed
  <2>2. \A w \in VMs : w # v => a \notin vm'[w].watching /\ \A k \in Kinds : ~Has(w, k, a)'
    BY <2>1, <1>1, <1>2
  <2> QED
    BY <1>0, <1>3, <2>2 DEF Addressed, Claims, Informed, Kinds
<1>7. Addressed(v, a)'
  <2>1. \A k \in Kinds : ~Has(v, k, a)'
    BY <1>0, <1>1 DEF Kinds
  <2> QED
    BY <1>0, <1>3, <2>1 DEF Addressed, Informed, Kinds
<1> QED
  BY <1>2, <1>4, <1>5, <1>6, <1>7, OneClaims

(* handlerCannotGetExecutor, handlerTerminated: the claim of a is the last. *)
LEMMA GivesBackClaims ==
  ASSUME TypeInv, AddressInv, NEW v \in VMs, NEW a \in Attempts,
         VMCannotGetExecutor(v, a) \/ VMTerminated(v, a)
  PROVE  Orderly
<1>v. vm \in [VMs -> VMProxy]
  BY DEF TypeInv, TypeOK
<1>m. mail \in [VMs -> SUBSET VmMessage]
  BY DEF TypeInv, TypeOK
<1>0. Informed(v, a)
  BY DEF VMCannotGetExecutor, VMTerminated, VmReceives, Has, Informed
<1>1. /\ att[a].vm = v /\ ~Has(v, "SendTask", a) /\ att[a].reply = "none"
      /\ att[a].callback # "directory"
  BY <1>0 DEF AddressInv, Addressed, Informed, Kinds
<1>2. /\ UNCHANGED att /\ att[a].executor \in {"none", "stopped"}
      /\ \A w \in VMs : /\ w # v => vm'[w].haveSpace = vm[w].haveSpace
                        /\ vm'[w].watching \subseteq vm[w].watching
      /\ a \notin vm'[v].watching /\ \A k \in Kinds : ~Has(v, k, a)'
      /\ \A w \in VMs : \A b \in Attempts : \A k \in Kinds : Has(w, k, b)' => Has(w, k, b)
  <2>1. CASE VMCannotGetExecutor(v, a)
    <3>1. att[a].executor = "none" /\ ~Has(v, "Executor", a) /\ a \notin vm[v].watching
      BY <2>1 DEF VMCannotGetExecutor, VmReceives, Has, AddressInv, Addressed
    <3>2. \A w \in VMs : \A b \in Attempts : \A k \in Kinds :
            Has(w, k, b)' <=> Has(w, k, b) /\ ~(w = v /\ k = "CannotGetExecutor" /\ b = a)
      BY <2>1, <1>m DEF VMCannotGetExecutor, VmReceives, Has
    <3>3. /\ \A w \in VMs : /\ w # v => vm'[w].haveSpace = vm[w].haveSpace
                            /\ vm'[w].watching = vm[w].watching
          /\ UNCHANGED att
      BY <2>1, <1>v DEF VMCannotGetExecutor, VMProxy
    <3> QED
      BY <1>1, <3>1, <3>2, <3>3 DEF Kinds
  <2>2. CASE VMTerminated(v, a)
    <3>1. /\ att[a].executor = "stopped" /\ ~Has(v, "Executor", a)
          /\ ~Has(v, "CannotGetExecutor", a)
      BY <2>2 DEF VMTerminated, AddressInv, Addressed
    <3>2. UNCHANGED <<mail, att>>
      BY <2>2 DEF VMTerminated
    <3>3. /\ \A w \in VMs : /\ w # v => vm'[w].haveSpace = vm[w].haveSpace
                            /\ w # v => vm'[w].watching = vm[w].watching
          /\ vm'[v].watching = vm[v].watching \ {a}
      BY <2>2, <1>v DEF VMTerminated, VMProxy
    <3> QED
      BY <1>1, <3>1, <3>2, <3>3 DEF Kinds, Has
  <2> QED
    BY <2>1, <2>2
<1>3. \A b \in Attempts : b # a => Recedes(b)
  BY <1>2 DEF Recedes, Has, Alive
<1>4. \A w \in VMs : w # v => a \notin vm[w].watching /\ \A k \in Kinds : ~Has(w, k, a)
  BY <1>1 DEF AddressInv, Addressed
<1>5. \A w \in VMs : a \notin vm'[w].watching /\ \A k \in Kinds : ~Has(w, k, a)'
  BY <1>2, <1>4
<1>6. \A w \in VMs : ~Informed(w, a)' /\ Addressed(w, a)'
  BY <1>5 DEF Addressed, Informed, Kinds
<1>7. ~Working(a)'
  BY <1>1, <1>2 DEF Working, Alive
<1>8. \A w \in VMs : ~Claims(w, a)'
  BY <1>6, <1>7 DEF Claims
<1>9. Claims(v, a)
  BY <1>0 DEF Claims
<1> QED
  BY <1>2, <1>3, <1>6, <1>8, <1>9, OneClaims

(* The callbacks of attempt a, which claims its VM or has been refused. *)
LEMMA CallbackClaims ==
  ASSUME TypeInv, ExecInv, AddressInv, NEW a \in Attempts, Advances(a)
  PROVE  Orderly
<1>t. task \in [Tasks -> TaskActor] /\ att \in [Attempts -> Attempt]
  BY DEF TypeInv, TypeOK
<1>m. mail \in [VMs -> SUBSET VmMessage]
  BY DEF TypeInv, TypeOK
<1>p. Phases
  BY DEF ExecInv
<1>0. PICK v \in VMs : v = att[a].vm
  BY PendingAttempt
  DEF Advances, OfferFails, AcquireLocally, AcquireExecutor, ExecutorAddress, NoExecutorAddress
<1>1. CASE OfferFails(a)
  <2>1. /\ \A b \in Attempts : b # a => att'[b] = att[b]
        /\ att'[a].reply = "none" /\ att'[a].vm = att[a].vm /\ att'[a].callback = att[a].callback
        /\ att'[a].executor = att[a].executor
    BY <1>1, <1>t DEF OfferFails, Attempt
  <2>2. UNCHANGED <<vm, mail>>
    BY <1>1 DEF OfferFails
  <2>3. \A b \in Attempts : Recedes(b)
    BY <2>1, <2>2 DEF Recedes, Has, Alive
  <2> QED
    BY <2>2, <2>3, AllRecede
<1>2. CASE AcquireExecutor(a)
  <2>1. /\ \A b \in Attempts : b # a => att'[b] = att[b]
        /\ att'[a].reply = "none" /\ att'[a].vm = v /\ att'[a].callback = "directory"
        /\ att'[a].executor = "none"
    BY <1>0, <1>2, <1>t, <1>p DEF AcquireExecutor, Phases, Attempt
  <2>2. UNCHANGED <<vm, mail>>
    BY <1>2 DEF AcquireExecutor
  <2>3. \A b \in Attempts : b # a => Recedes(b)
    BY <2>1, <2>2 DEF Recedes, Has, Alive
  <2>4. Claims(v, a)
    BY <1>0, <1>2 DEF AcquireExecutor, Claims, Working
  <2>5. \A w \in VMs : a \notin vm[w].watching /\ \A k \in Kinds : ~Has(w, k, a)
    BY <1>2 DEF AcquireExecutor, AddressInv, Addressed, Informed, Kinds
  <2>6. \A w \in VMs : a \notin vm'[w].watching /\ \A k \in Kinds : ~Has(w, k, a)'
    BY <2>2, <2>5 DEF Has
  <2>7. \A w \in VMs : Addressed(w, a)' /\ ~Informed(w, a)'
    BY <2>6 DEF Addressed, Informed, Kinds
  <2>8. \A w \in VMs : w # v => ~Claims(w, a)'
    BY <2>1, <2>7 DEF Claims
  <2> QED
    BY <2>2, <2>3, <2>4, <2>7, <2>8, OneClaims
<1>3. ASSUME NEW k \in {"Executor", "CannotGetExecutor"},
             mail' = Deliver(v, [kind |-> k, att |-> a]),
             UNCHANGED vm,
             \A b \in Attempts : b # a => att'[b] = att[b],
             att'[a].reply = "none" /\ att'[a].vm = v /\ att'[a].callback # "directory",
             att'[a].executor = IF k = "Executor" THEN "running" ELSE "none",
             k = "CannotGetExecutor" => att'[a].callback = "none",
             att[a].reply = "acquire" \/ att[a].callback = "directory"
      PROVE  Orderly
  <2>k. k \in Kinds
    BY DEF Kinds
  <2>1. \A w \in VMs : \A j \in Kinds : \A b \in Attempts :
          Has(w, j, b)' => Has(w, j, b) \/ (w = v /\ j = k /\ b = a)
    BY <1>3, <1>m, <2>k, DeliverHas
  <2>3. \A b \in Attempts : b # a => Recedes(b)
    BY <1>3, <2>1 DEF Recedes, Has, Alive
  <2>4. Claims(v, a)
    BY <1>0, <1>3 DEF Claims, Working
  <2>5. \A w \in VMs : a \notin vm[w].watching /\ \A j \in Kinds : ~Has(w, j, a)
    BY <1>3 DEF AddressInv, Addressed, Informed, Kinds
  <2>6. \A w \in VMs : /\ a \notin vm'[w].watching
                       /\ \A j \in Kinds : Has(w, j, a)' => w = v /\ j = k
    BY <1>3, <2>1, <2>5
  <2>7. \A w \in VMs : w # v => Addressed(w, a)' /\ ~Informed(w, a)'
    BY <2>6 DEF Addressed, Informed, Kinds
  <2>8. \A w \in VMs : w # v => ~Claims(w, a)'
    BY <1>3, <2>7 DEF Claims
  <2>9. Addressed(v, a)'
    BY <1>3, <2>6 DEF Addressed, Informed, Kinds
  <2>10. \A w \in VMs : Addressed(w, a)'
    BY <2>7, <2>9
  <2> QED
    BY <1>3, <2>3, <2>4, <2>8, <2>10, OneClaims
<1>n. v # None
  BY ConstantsAssumption
<1>4. CASE NoExecutorAddress(a)
  <2>1. task[att[a].task].targetVm = v
    BY <1>0, <1>4 DEF NoExecutorAddress, ExecInv, TargetIsVm, Targeted
  <2>2. mail' = Deliver(v, [kind |-> "CannotGetExecutor", att |-> a]) /\ UNCHANGED vm
    BY <1>4, <1>n, <2>1 DEF NoExecutorAddress
  <2>3. /\ \A b \in Attempts : b # a => att'[b] = att[b]
        /\ att'[a].reply = "none" /\ att'[a].vm = v /\ att'[a].callback = "none"
        /\ att'[a].executor = "none" /\ att[a].callback = "directory"
    BY <1>0, <1>4, <1>t, <1>p DEF NoExecutorAddress, Phases, Attempt
  <2> QED
    BY <1>3, <2>2, <2>3
<1>5. CASE AcquireLocally(a) \/ ExecutorAddress(a)
  <2>0. PICK watch : HandOver(a, v, watch)
    BY <1>0, <1>5 DEF AcquireLocally, ExecutorAddress, ExecInv, TargetIsVm, Targeted
  <2>p. att[a].executor = "none" /\ (att[a].reply = "acquire" \/ att[a].callback = "directory")
    BY <1>5, <1>p DEF AcquireLocally, ExecutorAddress, Phases
  <2> DEFINE t == att[a].task
             created == ~Ended(t)
             sent == created /\ v # None
             x == [att[a] EXCEPT !.reply = "none",
                                 !.callback = IF sent THEN "running" ELSE "none",
                                 !.executor = IF sent THEN "running"
                                              ELSE IF created THEN "idle" ELSE @]
  <2>1. att' = [att EXCEPT ![a] = x]
    BY <2>0, Zenon DEF HandOver
  <2>2. /\ x.vm = v /\ x.reply = "none"
        /\ x.callback = IF created THEN "running" ELSE "none"
        /\ x.executor = IF created THEN "running" ELSE "none"
    BY <1>t, <1>0, <1>n, <2>p DEF Attempt
  <2>3. /\ mail' = IF created THEN Deliver(v, [kind |-> "Executor", att |-> a]) ELSE mail
        /\ UNCHANGED vm
    BY <2>0, <1>n, Zenon DEF HandOver
  <2> HIDE DEF x, created
  <2>4. att'[a] = x /\ \A b \in Attempts : b # a => att'[b] = att[b]
    BY <1>t, <2>1
  <2>5. CASE created
    BY <1>3, <2>2, <2>3, <2>4, <2>5, <2>p
  <2>6. CASE ~created
    <3>1. \A b \in Attempts : Recedes(b)
      BY <1>0, <2>2, <2>3, <2>4, <2>6, <2>p DEF Recedes, Has, Alive
    <3> QED
      BY <2>3, <3>1, AllRecede
  <2> QED
    BY <2>5, <2>6
<1> QED
  BY <1>1, <1>2, <1>4, <1>5 DEF Advances

(* An offer claims nothing. *)
LEMMA OfferClaims ==
  ASSUME TypeInv, AddressInv, NEW t \in Tasks, NEW v \in VMs, NEW a \in Attempts, GetTask(t, v, a)
  PROVE  Orderly
<1>t. att \in [Attempts -> Attempt]
  BY DEF TypeInv, TypeOK
<1>m. mail \in [VMs -> SUBSET VmMessage]
  BY DEF TypeInv, TypeOK
<1>1. att'[a] = Offer(t, v, "waiting") /\ \A b \in Attempts : b # a => att'[b] = att[b]
  BY <1>t DEF GetTask
<1>2. /\ att'[a].vm = v /\ att'[a].reply = "waiting" /\ att'[a].callback = "none"
      /\ att'[a].executor = "none"
  BY <1>1 DEF Offer
<1>3. UNCHANGED vm /\ mail' = Deliver(v, [kind |-> "SendTask", att |-> a])
  BY DEF GetTask
<1>4. \A w \in VMs : \A j \in Kinds : \A b \in Attempts :
        Has(w, j, b)' => Has(w, j, b) \/ (w = v /\ j = "SendTask" /\ b = a)
  BY <1>3, <1>m, DeliverHas DEF Kinds
<1>5. \A w \in VMs : a \notin vm[w].watching /\ \A j \in Kinds : ~Has(w, j, a)
  BY DEF GetTask, Free, Has
<1>6. \A w \in VMs : /\ a \notin vm'[w].watching
                     /\ \A j \in Kinds : Has(w, j, a)' => w = v /\ j = "SendTask"
  BY <1>3, <1>4, <1>5
<1>7. \A w \in VMs : ~Informed(w, a)'
  BY <1>6 DEF Informed, Kinds
<1>8. \A w \in VMs : Addressed(w, a)' /\ ~Claims(w, a)'
  BY <1>2, <1>6, <1>7 DEF Addressed, Claims, Working, Alive, Informed, Kinds
<1>9. \A b \in Attempts : b # a => Recedes(b)
  BY <1>1, <1>3, <1>4 DEF Recedes, Has, Alive
<1> QED
  BY <1>3, <1>8, <1>9, OneClaims

(* Every step exchanges the space of the VMs like this. *)
LEMMA OrderlyStep ==
  ASSUME TypeInv, ResultInv, GoneInv, VmsLast, ExecInv, AddressInv,
         [Next]_vars
  PROVE  Orderly
<1>0. Phases /\ DoneTaskHandlesNothing
  BY DEF ExecInv, ResultInv
<1>s. ASSUME UNCHANGED <<att, vm, mail>> PROVE Orderly
  <2>1. \A b \in Attempts : Recedes(b)
    BY <1>s DEF Recedes, Has, Alive
  <2> QED
    BY <1>s, <2>1, AllRecede
<1>1. ASSUME NEW v \in VMs, VmStep(v) PROVE Orderly
  <2>1. CASE Poll(v) \/ SuicideOnGetTask(v)
    BY <2>1, <1>s DEF Poll, SuicideOnGetTask
  <2>2. CASE VMNoMoreTasks(v) \/ VMDies(v)
    <3>0. DeadVM.haveSpace = FALSE /\ DeadVM.watching = {}
      BY DEF DeadVM
    <3>1. /\ vm' = [vm EXCEPT ![v] = DeadVM] /\ mail' = [mail EXCEPT ![v] = {}]
          /\ UNCHANGED att
      BY <2>2 DEF VMNoMoreTasks, VMDies
    <3>2. /\ \A w \in VMs : vm'[w].watching \subseteq vm[w].watching
          /\ \A w \in VMs : vm'[w].haveSpace => vm[w].haveSpace
          /\ \A w \in VMs : mail'[w] \subseteq mail[w]
      BY <3>0, <3>1 DEF TypeInv, TypeOK
    <3>3. \A b \in Attempts : Recedes(b)
      BY <3>1, <3>2 DEF Recedes, Has, Alive
    <3> QED
      BY <3>2, <3>3, AllRecede
  <2>3. ASSUME NEW a \in Attempts,
               VMSendTask(v, a) \/ VMExecutor(v, a) \/ VMCannotGetExecutor(v, a) \/ VMTerminated(v, a)
        PROVE  Orderly
    BY <2>3, SendTaskClaims, ExecutorClaims, GivesBackClaims
  <2>4. ASSUME NEW a \in Attempts, VMRestApiRequest(v, a) PROVE Orderly
    <3>1. /\ UNCHANGED <<att, mail>>
          /\ \A w \in VMs : /\ vm'[w].watching = vm[w].watching
                            /\ w # v => vm'[w].haveSpace = vm[w].haveSpace
      BY <2>4 DEF VMRestApiRequest, TypeInv, TypeOK, VMProxy
    <3>2. \A b \in Attempts : Recedes(b)
      BY <3>1 DEF Recedes, Has, Alive
    <3>3. \A w \in VMs : \A b \in Attempts : Addressed(w, b)' /\ ~Gained(w, b)
      BY <3>2, RecedesKeeps DEF AddressInv, Gained
    <3>4. \A w \in VMs : Exchanged(w)
      BY <2>4, <3>1, <3>3 DEF Exchanged
    <3> QED
      BY <3>3, <3>4 DEF Orderly, AddressInv
  <2> QED
    BY <1>1, <2>1, <2>2, <2>3, <2>4 DEF VmStep
<1>2. ASSUME NEW a \in Attempts, AttemptStep(a) PROVE Orderly
  <2>1. CASE Advances(a)
    BY <2>1, CallbackClaims
  <2>2. CASE ~Advances(a)
    <3>1. UNCHANGED <<vm, mail>>
      BY <1>2, <2>2
      DEF AttemptStep, Advances, WriteRunning, ExecutorEnds, ExecutorStops, ExecutorCrashes,
          DecideNotTaken, DecideSuccess, DecideFailure, DecideVmNotAlive, DecideNoAnswer,
          DecideUnexpected
    <3> QED
      BY <1>0, <1>2, <2>2, <3>1, AttemptFades, FadesRecede
  <2> QED
    BY <2>1, <2>2
<1>3. ASSUME NEW t \in Tasks, TaskStep(t) PROVE Orderly
  <2>1. ASSUME NEW v \in VMs, NEW a \in Attempts, GetTask(t, v, a) PROVE Orderly
    BY <2>1, OfferClaims
  <2>2. ASSUME \A v \in VMs : \A a \in Attempts : ~GetTask(t, v, a)
        PROVE  UNCHANGED <<att, vm, mail>>
    BY <1>3, <2>2, NoVmTerminates
    DEF TaskStep, GetTaskUnhandled, TerminatedExecutor, PersistAndSuicide, HandleSuccess,
        HandleFailure, EscalateAndRestart, TaskActorGone
  <2> QED
    BY <1>s, <2>1, <2>2
<1> QED
  BY <1>1, <1>2, <1>3, <1>s DEF Next, vars

(* The claims are what the property speaks about. *)
LEMMA ClaimsAreSpace ==
  ASSUME NEW v \in VMs, NEW a \in Attempts
  PROVE  /\ HasSpaceOf(a, v) <=> Claims(v, a)
         /\ HasSpaceOf(a, v)' <=> Claims(v, a)'
  BY DEF HasSpaceOf, Claims, Working, Alive, Informed, Has

(* OnlyRestShares holds as long as no VM dies, with REST requests: a VM gets *)
(* a second test only after the answer to a REST request gave it space while *)
(* a test was on it; late answers, crashed executors and a silent directory  *)
(* give the space back only when the test that had it has none any more.     *)
THEOREM OnlyRestSharesVms ==
  ASSUME "vmDeath" \notin Faults
  PROVE  Spec => OnlyRestShares
<1>1. Init => AddressInv
  BY AddressInvInit
<1>2. /\ TypeInv /\ ResultInv /\ GoneInv /\ VmsLast /\ ExecInv
      /\ AddressInv /\ [Next]_vars
      => Orderly
  BY OrderlyStep
<1>3. Orderly => AddressInv'
  BY DEF Orderly
<1>4. ASSUME Orderly, NEW v \in VMs
      PROVE  /\ Shared(v)' => Shared(v) \/ OverBooked(v)
             /\ OverBooked(v)' =>
                  OverBooked(v) \/ Shared(v) \/ \E a \in Attempts : VMRestApiRequest(v, a)
  <2>e. Exchanged(v)
    BY <1>4 DEF Orderly
  <2>1. ASSUME Shared(v)' PROVE Shared(v) \/ OverBooked(v)
    <3>1. PICK a \in Attempts, b \in Attempts : a # b /\ Claims(v, a)' /\ Claims(v, b)'
      BY <2>1, ClaimsAreSpace DEF Shared
    <3>2. Claims(v, a) /\ Claims(v, b) => Shared(v)
      BY <3>1, ClaimsAreSpace DEF Shared
    <3>3. Claims(v, a) \/ Claims(v, b)
      BY <2>e, <3>1 DEF Exchanged, Gained
    <3>4. ~(Claims(v, a) /\ Claims(v, b)) => vm[v].haveSpace
      BY <2>e, <3>1 DEF Exchanged, Gained
    <3> QED
      BY <3>2, <3>3, <3>4, ClaimsAreSpace DEF OverBooked
  <2>2. ASSUME OverBooked(v)', ~OverBooked(v)
        PROVE  Shared(v) \/ \E a \in Attempts : VMRestApiRequest(v, a)
    <3>1. PICK a \in Attempts : Claims(v, a)' /\ vm'[v].haveSpace
      BY <2>2, ClaimsAreSpace DEF OverBooked
    <3>2. Claims(v, a) /\ ~vm[v].haveSpace
      BY <2>2, <2>e, <3>1, ClaimsAreSpace DEF Exchanged, Gained, OverBooked
    <3>3. CASE \E b \in Attempts : Claims(v, b) /\ ~Claims(v, b)'
      BY <3>1, <3>2, <3>3, ClaimsAreSpace DEF Shared
    <3> QED
      BY <2>e, <3>1, <3>2, <3>3 DEF Exchanged
  <2> QED
    BY <2>1, <2>2
<1>5. Orderly =>
        [\A v \in VMs :
           /\ Shared(v)' => Shared(v) \/ OverBooked(v)
           /\ OverBooked(v)' =>
                OverBooked(v) \/ Shared(v) \/ \E a \in Attempts : VMRestApiRequest(v, a)]_vars
  BY <1>4
<1> QED
  BY <1>1, <1>2, <1>3, <1>5, ExecInvariant, PTL DEF Spec, OnlyRestShares
=============================================================================
