---------------------------- MODULE TaskDatabase ----------------------------
(***************************************************************************)
(* The rows of the tasks and the reports made of them.  An upload adds     *)
(* every test method first to the tree of workers and then to the table of *)
(* its run, named by the second of the upload; the actors of a task update *)
(* the row of its method; DBActor performs one message after the other;    *)
(* and a user opens the report of a run, a page that loads its data with a *)
(* second request.  All the actors are on the master, so that a message is *)
(* in the mailbox of DBActor as soon as it is sent.                        *)
(***************************************************************************)
EXTENDS Naturals, Sequences, FiniteSets

CONSTANTS
  Uploads,       \* the uploads
  Methods,       \* the test methods of each
  Names,         \* the names of runs
  Viewers,       \* users of the reporting API
  MaxStarts,     \* bound: how often tasks are started, all together
  MaxAsks,       \* bound: how often a user opens a report
  MaxMail,       \* bound: how many messages DBActor is behind
  MaxFailures,   \* bound: how often the database cannot be reached
  None           \* SQL's NULL, and no reference

ASSUME DatabaseAssumption ==
  /\ MaxStarts \in Nat /\ MaxAsks \in Nat /\ MaxMail \in Nat /\ MaxFailures \in Nat
  /\ None \notin Methods \cup Names \cup {"SUCCESS", "FAILURE", "ABANDONED"}

Tasks == Uploads \X Methods
Rows == Names \X Methods

VARIABLES
  name,       \* datestring of every upload
  adding,     \* the method the loop of an upload is at
  task,       \* TaskActor and group of every task
  mail,       \* the mailbox of DBActor
  row,        \* the rows of the tables; None where there is none
  viewer,     \* what every user waits for or sees
  dataPath,   \* of ClusteringApi: the report that data.json is read from
  past        \* history: updates without effect, RUNNING written too late,
              \* failures to connect, starts

uploads == <<name, adding>>
web == <<viewer, dataPath>>
vars == <<uploads, task, mail, row, web, past>>

Row(t) == <<name[t[1]], t[2]>>
EndStates == {None, "SUCCESS", "FAILURE", "ABANDONED"}
TaskStates == {"NOT_STARTED", "RUNNING", "DONE"}

\* The starts of tasks are numbered.  started holds the number of the start whose
\* RUNNING message set it, 0 before, and spent the start it is measured from.
Times == 0 .. MaxStarts
RowData == [status : TaskStates, end : EndStates, started : Times, spent : Times]

ASSUME NoneIsNoRow == None \notin RowData

\* The file of a report, and the messages to DBActor
Reports == [table : Names, rows : SUBSET [method : Methods, end : EndStates, spent : Times]]

Messages ==
  [q : {"CreateTask"}, table : Names, method : Methods] \cup
  [q : {"UpdateTaskStatus"}, table : Names, method : Methods, status : TaskStates, start : Times] \cup
  [q : {"UpdateTask"}, table : Names, method : Methods, status : TaskStates, end : EndStates,
   long : BOOLEAN] \cup
  [q : {"Report"}, table : Names, viewer : Viewers, ask : 1 .. MaxAsks]

(* Rows hold what their columns may, messages and reports are complete: no  *)
(* name of a table, state or time is missing where the code reads one.      *)
TypeOK ==
  /\ name \in [Uploads -> Names \cup {None}]
  /\ adding \in [Uploads -> Methods \cup {None}]
  /\ task \in [Tasks -> [state : {"none", "free", "running", "over"}, start : Times,
                         callbacks : SUBSET (1 .. MaxStarts), end : EndStates]]
  /\ mail \in Seq(Messages)
  /\ row \in [Rows -> RowData \cup {None}]
  /\ viewer \in [Viewers -> [state : {"idle", "waiting", "answered", "page", "data"},
                             asks : 0 .. MaxAsks, asked : Names \cup {None},
                             answer : Reports \cup {None}]]
  /\ dataPath \in Reports \cup {None}
  /\ past \in [lost : SUBSET (Rows \X {"UpdateTaskStatus", "UpdateTask"}),
               late : SUBSET Rows, failures : 0 .. MaxFailures, starts : Times]

Init ==
  /\ name = [u \in Uploads |-> None] /\ adding = [u \in Uploads |-> None]
  /\ task = [t \in Tasks |-> [state |-> "none", start |-> 0, callbacks |-> {}, end |-> None]]
  /\ mail = <<>>
  /\ row = [r \in Rows |-> None]
  /\ viewer = [v \in Viewers |-> [state |-> "idle", asks |-> 0, asked |-> None, answer |-> None]]
  /\ dataPath = None
  /\ past = [lost |-> {}, late |-> {}, failures |-> 0, starts |-> 0]

Send(q) == Len(mail) < MaxMail /\ mail' = Append(mail, q)

-----------------------------------------------------------------------------
(* The upload *)

\* The upload of a file is complete, and the run is named by the time.
UploadStarts(u, n) ==
  /\ name[u] = None
  /\ name' = [name EXCEPT ![u] = n]
  /\ UNCHANGED <<adding, task, mail, row, web, past>>

\* AddTask; from here on the task can be started.
AddTask(u, m) ==
  /\ name[u] # None /\ adding[u] = None /\ task[<<u, m>>].state = "none"
  /\ adding' = [adding EXCEPT ![u] = m]
  /\ task' = [task EXCEPT ![<<u, m>>].state = "free"]
  /\ UNCHANGED <<name, mail, row, web, past>>

CreateTask(u) ==
  /\ adding[u] # None
  /\ adding' = [adding EXCEPT ![u] = None]
  /\ Send([q |-> "CreateTask", table |-> name[u], method |-> adding[u]])
  /\ UNCHANGED <<name, task, row, web, past>>

-----------------------------------------------------------------------------
(* The task: TaskActor, its callbacks and its group *)

UpdateTaskStatus(t, status, start) ==
  [q |-> "UpdateTaskStatus", table |-> name[t[1]], method |-> t[2], status |-> status, start |-> start]
UpdateTask(t, status, end, long) ==
  [q |-> "UpdateTask", table |-> name[t[1]], method |-> t[2], status |-> status, end |-> end, long |-> long]

\* A VM takes the task, and its executor is sent ExecuteTask.
Starting(t) ==
  /\ task[t].state = "free" /\ past.starts < MaxStarts
  /\ LET k == past.starts + 1
     IN /\ task' = [task EXCEPT ![t].state = "running", ![t].start = k, ![t].callbacks = @ \cup {k}]
        /\ past' = [past EXCEPT !.starts = k]
  /\ UNCHANGED <<uploads, mail, row, web>>

\* The last statement of monitor_send_and_execute, in the thread of the callback
WriteRunning(t, k) ==
  /\ k \in task[t].callbacks
  /\ task' = [task EXCEPT ![t].callbacks = @ \ {k}]
  /\ Send(UpdateTaskStatus(t, "RUNNING", k))
  /\ past' = IF task[t].state = "running" /\ k = task[t].start THEN past
             ELSE [past EXCEPT !.late = @ \cup {Row(t)}]
  /\ UNCHANGED <<uploads, row, web>>

\* handleTermianted: VM or executor are gone, and the task is free again.
Reset(t) ==
  /\ task[t].state = "running"
  /\ task' = [task EXCEPT ![t].state = "free"]
  /\ Send(UpdateTaskStatus(t, "NOT_STARTED", 0))
  /\ UNCHANGED <<uploads, row, web, past>>

\* handleSuccess and handleFailure; the text of a failure can be of any length.
Finish(t, end, long) ==
  /\ task[t].state = "running"
  /\ long => end = "FAILURE"
  /\ task' = [task EXCEPT ![t].state = "over", ![t].end = end]
  /\ Send(UpdateTask(t, "DONE", end, long))
  /\ UNCHANGED <<uploads, row, web, past>>

\* PersistAndSuicide, after a task of the run has failed
Abandon(t) ==
  /\ task[t].state \in {"free", "running"}
  /\ \E s \in Tasks : name[s[1]] = name[t[1]] /\ task[s].end = "FAILURE"
  /\ task' = [task EXCEPT ![t].state = "over", ![t].end = "ABANDONED"]
  /\ Send(UpdateTask(t, "NOT_STARTED", "ABANDONED", FALSE))
  /\ UNCHANGED <<uploads, row, web, past>>

-----------------------------------------------------------------------------
(* DBActor *)

\* Mutant: the trigger sets started_at only once.
TriggerOnce(old, new, start) ==
  CASE new.status = "RUNNING" -> [new EXCEPT !.started = IF old.started = 0 THEN start ELSE @]
    [] new.status = "DONE" -> [new EXCEPT !.spent = old.started]
    [] OTHER -> new

\* The trigger of a table. The zero of started_at has no difference to a time.
Trigger(old, new, start) ==
  CASE new.status = "RUNNING" -> [new EXCEPT !.started = start]
    [] new.status = "DONE" -> [new EXCEPT !.spent = old.started]
    [] OTHER -> new

NewRow == [status |-> "NOT_STARTED", end |-> None, started |-> 0, spent |-> 0]

\* Mutant: the statement names the wrong column.
DBUpdateTaskStatusColumn(q, r) == [r EXCEPT !.end = q.status]

DBUpdateTaskStatus(q, r) == Trigger(r, [r EXCEPT !.status = q.status], q.start)

DBUpdateTask(q, r) == Trigger(r, [r EXCEPT !.status = q.status, !.end = q.end], 0)

\* Mutant: the condition on the status is left out.
DBGetTasksWithStatusAny(n, status) == {r \in Rows : r[1] = n /\ row[r] # None}

DBGetTasksWithStatus(n, status) == {r \in Rows : r[1] = n /\ row[r] # None /\ row[r].status = status}

\* The file of a report is written once; without finished tasks there is none.
DBGenerateJsonReport(n) ==
  LET done == DBGetTasksWithStatus(n, "DONE")
  IN IF done = {} THEN None
     ELSE [table |-> n, rows |-> {[method |-> r[2], end |-> row[r].end, spent |-> row[r].spent] : r \in done}]

Query == Head(mail)
QueryRow == <<Query.table, Query.method>>
Lose == past' = [past EXCEPT !.lost = @ \cup {<<QueryRow, Query.q>>}]

\* performQuery creates a table that is missing, so that no query fails for that.
Performs(q) ==
  /\ mail # <<>> /\ Query.q = q
  /\ mail' = Tail(mail)
  /\ UNCHANGED <<uploads, task, dataPath>>

\* INSERT, which throws if there is a row: DBActor restarts, with its mailbox.
PerformCreateTask ==
  /\ Performs("CreateTask")
  /\ row' = [row EXCEPT ![QueryRow] = IF @ = None THEN NewRow ELSE @]
  /\ UNCHANGED <<viewer, past>>

\* UPDATE changes the row if there is one.
PerformUpdateTaskStatus ==
  /\ Performs("UpdateTaskStatus")
  /\ \/ row[QueryRow] = None /\ Lose /\ UNCHANGED row
     \/ /\ row[QueryRow] # None
        /\ row' = [row EXCEPT ![QueryRow] = DBUpdateTaskStatus(Query, @)]
        /\ UNCHANGED past
  /\ UNCHANGED viewer

\* A result that does not fit in its column throws.
PerformUpdateTask ==
  /\ Performs("UpdateTask")
  /\ \/ (row[QueryRow] = None \/ Query.long) /\ Lose /\ UNCHANGED row
     \/ /\ row[QueryRow] # None /\ ~Query.long
        /\ row' = [row EXCEPT ![QueryRow] = DBUpdateTask(Query, @)]
        /\ UNCHANGED past
  /\ UNCHANGED viewer

\* The answer goes to the ask it belongs to; nobody hears it after the timeout.
PerformReport ==
  /\ Performs("Report")
  /\ LET v == Query.viewer
     IN viewer' = IF viewer[v].state = "waiting" /\ viewer[v].asks = Query.ask
                  THEN [viewer EXCEPT ![v].state = "answered", ![v].answer = DBGenerateJsonReport(Query.table)]
                  ELSE viewer
  /\ UNCHANGED <<row, past>>

\* The database cannot be reached: the message is dropped.
CouldNotConnect ==
  /\ mail # <<>> /\ past.failures < MaxFailures
  /\ mail' = Tail(mail)
  /\ past' = [past EXCEPT !.failures = @ + 1,
                          !.lost = IF Query.q \in {"UpdateTaskStatus", "UpdateTask"}
                                  THEN @ \cup {<<QueryRow, Query.q>>} ELSE @]
  /\ UNCHANGED <<uploads, task, row, web>>

-----------------------------------------------------------------------------
(* ClusteringApi *)

\* GET /api/reporting/n asks DBActor for the report, and waits for 5 seconds.
ReportAsked(v, n) ==
  /\ viewer[v].state \in {"idle", "data"} /\ viewer[v].asks < MaxAsks
  /\ viewer' = [viewer EXCEPT ![v] = [state |-> "waiting", asks |-> @.asks + 1, asked |-> n, answer |-> None]]
  /\ Send([q |-> "Report", table |-> n, viewer |-> v, ask |-> viewer[v].asks + 1])
  /\ UNCHANGED <<uploads, task, row, dataPath, past>>

\* Mutant: an empty path does not replace the last one.
ReportAnsweredKeepsPath(v) ==
  /\ viewer[v].state = "answered"
  /\ dataPath' = IF viewer[v].answer = None THEN dataPath ELSE viewer[v].answer
  /\ viewer' = [viewer EXCEPT ![v].state = "page", ![v].answer = None]
  /\ UNCHANGED <<uploads, task, mail, row, past>>

ReportAnswered(v) ==
  /\ viewer[v].state = "answered"
  /\ dataPath' = viewer[v].answer
  /\ viewer' = [viewer EXCEPT ![v].state = "page", ![v].answer = None]
  /\ UNCHANGED <<uploads, task, mail, row, past>>

\* Await.result throws, and the answer is an internal server error.
ReportTimesOut(v) ==
  /\ viewer[v].state = "waiting"
  /\ viewer' = [viewer EXCEPT ![v].state = "idle", ![v].asked = None]
  /\ UNCHANGED <<uploads, task, mail, row, dataPath, past>>

\* The page loads /files/data.json.
DataLoaded(v) ==
  /\ viewer[v].state = "page"
  /\ viewer' = [viewer EXCEPT ![v].state = "data", ![v].answer = dataPath]
  /\ UNCHANGED <<uploads, task, mail, row, dataPath, past>>

-----------------------------------------------------------------------------
Next ==
  \/ \E u \in Uploads : \/ \E n \in Names : UploadStarts(u, n)
                        \/ \E m \in Methods : AddTask(u, m)
                        \/ CreateTask(u)
  \/ \E t \in Tasks : \/ Starting(t) \/ Reset(t) \/ Abandon(t)
                      \/ \E k \in 1 .. MaxStarts : WriteRunning(t, k)
                      \/ \E end \in {"SUCCESS", "FAILURE"}, long \in BOOLEAN : Finish(t, end, long)
  \/ PerformCreateTask \/ PerformUpdateTaskStatus \/ PerformUpdateTask \/ PerformReport
  \/ CouldNotConnect
  \/ \E v \in Viewers : \/ \E n \in Names : ReportAsked(v, n)
                        \/ ReportAnswered(v) \/ ReportTimesOut(v) \/ DataLoaded(v)

Spec == Init /\ [][Next]_vars

-----------------------------------------------------------------------------
(* Properties *)

TasksOf(r) == {t \in Tasks : name[t[1]] = r[1] /\ t[2] = r[2] /\ task[t].state # "none"}

\* The tasks of a row have ended, and all they and their uploads had to say is said.
Settled(r) ==
  /\ TasksOf(r) # {}
  /\ \A t \in TasksOf(r) : task[t].state = "over" /\ task[t].callbacks = {} /\ adding[t[1]] # t[2]
  /\ \A i \in DOMAIN mail : mail[i].q = "Report" \/ <<mail[i].table, mail[i].method>> # r

(* DBActor and the actors of a task: unless the end was lost, a row shows   *)
(* at last how a task of its name ended, also when two uploads share it.    *)
(* Its status is then that of the end unless RUNNING was written too late,  *)
(* and a row of its own has the time since the last start.                  *)
RowMatchesTask ==
  \A r \in Rows :
    Settled(r) /\ <<r, "UpdateTask">> \notin past.lost =>
      /\ row[r] # None
      /\ \E t \in TasksOf(r) :
           /\ row[r].end = task[t].end
           /\ r \in past.late \/ row[r].status = IF task[t].end = "ABANDONED" THEN "NOT_STARTED" ELSE "DONE"
           /\ \/ r \in past.late \/ <<r, "UpdateTaskStatus">> \in past.lost
              \/ task[t].end = "ABANDONED" \/ Cardinality(TasksOf(r)) > 1
              \/ row[r].spent = task[t].start

(* DBGenerateJsonReport: what a report shows of a method is the result of a *)
(* test of that method in that run, whatever messages were lost or late.    *)
ReportTellsResults ==
  \A v \in Viewers : viewer[v].answer # None =>
    \A x \in viewer[v].answer.rows :
      /\ x.end \in {"SUCCESS", "FAILURE"}
      /\ \E t \in TasksOf(<<viewer[v].answer.table, x.method>>) : task[t].end = x.end

(* ClusteringApi.report: the data a page loads is that of the run it was    *)
(* opened for, or none, although data.json is one file for all pages and    *)
(* answers may be late or missing.                                          *)
PageShowsItsReport ==
  \A v \in Viewers : viewer[v].state = "data" /\ viewer[v].answer # None =>
    viewer[v].answer.table = viewer[v].asked
=============================================================================
