------------------------ MODULE TaskDatabaseProofs -------------------------
(***************************************************************************)
(* Theorems about TaskDatabase, for every number of uploads, methods, runs *)
(* and starts, however far DBActor is behind and however often the         *)
(* database cannot be reached.                                             *)
(***************************************************************************)
EXTENDS TaskDatabase, SequenceTheorems, FiniteSetTheorems, TLAPS

-----------------------------------------------------------------------------
(* The mailbox *)

Pending == {mail[i] : i \in DOMAIN mail}

(* A message that is sent is the only new one. *)
LEMMA SendAdds ==
  ASSUME mail \in Seq(Messages), NEW e \in Messages, Send(e)
  PROVE  mail' \in Seq(Messages) /\ Pending' \subseteq Pending \cup {e}
<1>1. mail' = Append(mail, e)
  BY DEF Send
<1>2. /\ mail' \in Seq(Messages)
      /\ Len(mail') = Len(mail) + 1
      /\ \A i \in 1 .. Len(mail) : mail'[i] = mail[i]
      /\ mail'[Len(mail) + 1] = e
  BY <1>1, AppendProperties, Zenon
<1>3. DOMAIN mail = 1 .. Len(mail) /\ DOMAIN mail' = 1 .. Len(mail') /\ Len(mail) \in Nat
  BY <1>2
<1>4. ASSUME NEW i \in 1 .. Len(mail) + 1
      PROVE  mail'[i] \in Pending \cup {e}
  <2>1. i \in 1 .. Len(mail) \/ i = Len(mail) + 1
    BY <1>3
  <2> QED
    BY <1>2, <1>3, <2>1 DEF Pending
<1> QED
  BY <1>2, <1>3, <1>4 DEF Pending

(* The message that is handled was pending, and no other message is new. *)
LEMMA HandledTakes ==
  ASSUME mail \in Seq(Messages), mail # <<>>, mail' = Tail(mail)
  PROVE  /\ mail' \in Seq(Messages) /\ Pending' \subseteq Pending
         /\ Head(mail) \in Pending /\ Head(mail) \in Messages
<1>1. /\ Head(mail) \in Messages
      /\ mail' \in Seq(Messages)
      /\ Len(mail') = Len(mail) - 1
      /\ \A i \in 1 .. Len(mail') : mail'[i] = mail[i + 1]
  BY HeadTailProperties, Zenon
<1>2. DOMAIN mail = 1 .. Len(mail) /\ DOMAIN mail' = 1 .. Len(mail')
  BY <1>1
<1>3. Len(mail) \in Nat /\ Len(mail) # 0 /\ Head(mail) = mail[1]
  BY EmptySeq
<1>4. Head(mail) \in Pending
  BY <1>2, <1>3 DEF Pending
<1>5. ASSUME NEW i \in 1 .. Len(mail')
      PROVE  mail'[i] \in Pending
  <2>1. i + 1 \in 1 .. Len(mail)
    BY <1>1, <1>3
  <2> QED
    BY <1>1, <1>2, <2>1 DEF Pending
<1> QED
  BY <1>1, <1>2, <1>4, <1>5 DEF Pending

-----------------------------------------------------------------------------
(* Type correctness *)

Actor == [state : {"none", "free", "running", "over"}, start : Times,
          callbacks : SUBSET (1 .. MaxStarts), end : EndStates]
Viewer == [state : {"idle", "waiting", "answered", "page", "data"}, asks : 0 .. MaxAsks,
           asked : Names \cup {None}, answer : Reports \cup {None}]
Past == [lost : SUBSET (Rows \X {"UpdateTaskStatus", "UpdateTask"}), late : SUBSET Rows,
         failures : 0 .. MaxFailures, starts : Times]

\* TypeOK alone is not inductive: the messages of an upload and of its tasks have
\* a table because the run is named before anything else happens.
Named ==
  /\ \A u \in Uploads : adding[u] # None => name[u] \in Names
  /\ \A t \in Tasks : task[t].state # "none" \/ task[t].callbacks # {} => name[t[1]] \in Names

TypeInv == TypeOK /\ Named

(* The parts of TypeInv, for the steps below to cite. *)
LEMMA TypeParts ==
  ASSUME TypeInv
  PROVE  /\ name \in [Uploads -> Names \cup {None}] /\ adding \in [Uploads -> Methods \cup {None}]
         /\ task \in [Tasks -> Actor] /\ mail \in Seq(Messages)
         /\ row \in [Rows -> RowData \cup {None}] /\ viewer \in [Viewers -> Viewer]
         /\ dataPath \in Reports \cup {None} /\ past \in Past /\ Named
  BY DEF TypeInv, TypeOK, Actor, Viewer, Past

(* A task is one of an upload, and its row one of a run that has a name. *)
LEMMA TaskParts ==
  ASSUME NEW t \in Tasks
  PROVE  t[1] \in Uploads /\ t[2] \in Methods
  BY DEF Tasks

(* The steps of an upload keep the types. *)
LEMMA UploadType ==
  ASSUME TypeInv, NEW u \in Uploads,
         \/ \E n \in Names : UploadStarts(u, n)
         \/ \E m \in Methods : AddTask(u, m)
         \/ CreateTask(u)
  PROVE  TypeInv'
<1>n. name \in [Uploads -> Names \cup {None}] /\ adding \in [Uploads -> Methods \cup {None}]
  BY TypeParts
<1>t. task \in [Tasks -> Actor] /\ Named
  BY TypeParts
<1>r. /\ row \in [Rows -> RowData \cup {None}] /\ viewer \in [Viewers -> Viewer]
      /\ dataPath \in Reports \cup {None} /\ past \in Past
  BY TypeParts
<1>m. mail \in Seq(Messages)
  BY TypeParts
<1>1. ASSUME NEW n \in Names, UploadStarts(u, n)
      PROVE  TypeInv'
  <2>1. name' \in [Uploads -> Names \cup {None}] /\ \A x \in Uploads : name[x] \in Names => name'[x] \in Names
    BY <1>1, <1>n DEF UploadStarts
  <2>2. Named'
    BY <1>1, <1>t, <1>n, <2>1, TaskParts DEF Named, UploadStarts
  <2> QED
    BY <1>1, <1>n, <1>t, <1>r, <1>m, <2>1, <2>2 DEF TypeInv, TypeOK, UploadStarts, web, Actor, Viewer, Past
<1>2. ASSUME NEW m \in Methods, AddTask(u, m)
      PROVE  TypeInv'
  <2>1. task' \in [Tasks -> Actor] /\ adding' \in [Uploads -> Methods \cup {None}]
    BY <1>2, <1>n, <1>t DEF AddTask, Actor, Tasks
  <2>2. name[u] \in Names /\ name' = name
    BY <1>2, <1>n DEF AddTask
  <2>3. \A t \in Tasks : t # <<u, m>> => task'[t] = task[t]
    BY <1>2, <1>t DEF AddTask
  <2>4. Named'
    BY <1>2, <1>t, <1>n, <2>2, <2>3 DEF Named, AddTask
  <2> QED
    BY <1>2, <1>n, <1>r, <1>m, <2>1, <2>4 DEF TypeInv, TypeOK, AddTask, web, Actor, Viewer, Past
<1>3. CASE CreateTask(u)
  <2>1. [q |-> "CreateTask", table |-> name[u], method |-> adding[u]] \in Messages
    BY <1>3, <1>n, <1>t DEF CreateTask, Messages, Named
  <2>2. mail' \in Seq(Messages)
    BY <1>3, <1>m, <2>1, SendAdds DEF CreateTask
  <2>3. adding' \in [Uploads -> Methods \cup {None}] /\ \A x \in Uploads : adding'[x] # None => adding[x] # None
    BY <1>3, <1>n DEF CreateTask
  <2>4. Named'
    BY <1>3, <1>t, <2>3 DEF Named, CreateTask
  <2> QED
    BY <1>3, <1>n, <1>t, <1>r, <2>2, <2>3, <2>4 DEF TypeInv, TypeOK, CreateTask, web, Actor, Viewer, Past
<1> QED
  BY <1>1, <1>2, <1>3

(* The steps of a task keep the types. *)
LEMMA TaskType ==
  ASSUME TypeInv, NEW t \in Tasks,
         \/ Starting(t) \/ Reset(t) \/ Abandon(t)
         \/ \E k \in 1 .. MaxStarts : WriteRunning(t, k)
         \/ \E end \in {"SUCCESS", "FAILURE"}, long \in BOOLEAN : Finish(t, end, long)
  PROVE  TypeInv'
<1>n. name \in [Uploads -> Names \cup {None}] /\ adding \in [Uploads -> Methods \cup {None}]
  BY TypeParts
<1>t. task \in [Tasks -> Actor] /\ Named
  BY TypeParts
<1>r. /\ row \in [Rows -> RowData \cup {None}] /\ viewer \in [Viewers -> Viewer]
      /\ dataPath \in Reports \cup {None}
  BY TypeParts
<1>m. mail \in Seq(Messages)
  BY TypeParts
<1>p. past \in Past
  BY TypeParts
<1>u. t[1] \in Uploads /\ t[2] \in Methods
  BY TaskParts
<1>0. ASSUME task' \in [Tasks -> Actor], \A x \in Tasks : x # t => task'[x] = task[x],
             task[t].state # "none" \/ task[t].callbacks # {},
             mail' \in Seq(Messages), past' \in Past, UNCHANGED <<uploads, row, web>>
      PROVE  TypeInv'
  <2>1. Named'
    BY <1>0, <1>t DEF Named, uploads
  <2> QED
    BY <1>0, <1>n, <1>r, <2>1 DEF TypeInv, TypeOK, uploads, web, Actor, Viewer, Past
<1>1. CASE Starting(t)
  <2>1. past.starts + 1 \in 1 .. MaxStarts
    BY <1>1, <1>p, DatabaseAssumption DEF Starting, Past, Times
  <2>2. past' \in Past
    BY <1>1, <1>p, <2>1 DEF Starting, Past, Times
  <2>4. task' \in [Tasks -> Actor]
    <3> DEFINE k == past.starts + 1
               a == [task[t] EXCEPT !.state = "running", !.start = k, !.callbacks = @ \cup {k}]
    <3>1. task' = [task EXCEPT ![t] = a]
      BY <1>1 DEF Starting
    <3>2. k \in 1 .. MaxStarts /\ k \in Times
      BY <2>1 DEF Times
    <3> HIDE DEF k
    <3>3. a \in Actor
      BY <1>t, <3>2 DEF Actor
    <3> HIDE DEF a
    <3> QED
      BY <1>t, <3>1, <3>3
  <2>3. \A x \in Tasks : x # t => task'[x] = task[x]
    BY <1>1, <1>t DEF Starting
  <2> QED
    BY <1>0, <1>1, <1>m, <2>2, <2>3, <2>4 DEF Starting
<1>2. ASSUME NEW k \in 1 .. MaxStarts, WriteRunning(t, k)
      PROVE  TypeInv'
  <2>1. name[t[1]] \in Names
    BY <1>2, <1>t DEF WriteRunning, Named
  <2>2. UpdateTaskStatus(t, "RUNNING", k) \in Messages
    BY <1>u, <2>1 DEF UpdateTaskStatus, Messages, TaskStates, Times
  <2>3. mail' \in Seq(Messages)
    BY <1>2, <1>m, <2>2, SendAdds DEF WriteRunning
  <2>4. task' \in [Tasks -> Actor] /\ \A x \in Tasks : x # t => task'[x] = task[x]
    BY <1>2, <1>t DEF WriteRunning, Actor
  <2>5. past' \in Past
    BY <1>2, <1>p, <1>u, <2>1 DEF WriteRunning, Past, Row, Rows
  <2>6. task[t].callbacks # {}
    BY <1>2 DEF WriteRunning
  <2> QED
    BY <1>0, <1>2, <2>3, <2>4, <2>5, <2>6 DEF WriteRunning
<1>3. CASE Reset(t)
  <2>1. name[t[1]] \in Names
    BY <1>3, <1>t DEF Reset, Named
  <2>2. UpdateTaskStatus(t, "NOT_STARTED", 0) \in Messages
    BY <1>u, <2>1, DatabaseAssumption DEF UpdateTaskStatus, Messages, TaskStates, Times
  <2>3. mail' \in Seq(Messages)
    BY <1>3, <1>m, <2>2, SendAdds DEF Reset
  <2>4. task' \in [Tasks -> Actor] /\ \A x \in Tasks : x # t => task'[x] = task[x]
    BY <1>3, <1>t DEF Reset, Actor
  <2> QED
    BY <1>0, <1>3, <1>p, <2>3, <2>4 DEF Reset
<1>4. ASSUME NEW end \in {"SUCCESS", "FAILURE"}, NEW long \in BOOLEAN, Finish(t, end, long)
      PROVE  TypeInv'
  <2>1. name[t[1]] \in Names
    BY <1>4, <1>t DEF Finish, Named
  <2>2. UpdateTask(t, "DONE", end, long) \in Messages
    BY <1>u, <2>1 DEF UpdateTask, Messages, TaskStates, EndStates
  <2>3. mail' \in Seq(Messages)
    BY <1>4, <1>m, <2>2, SendAdds DEF Finish
  <2>4. task' \in [Tasks -> Actor] /\ \A x \in Tasks : x # t => task'[x] = task[x]
    BY <1>4, <1>t DEF Finish, Actor, EndStates
  <2> QED
    BY <1>0, <1>4, <1>p, <2>3, <2>4 DEF Finish
<1>5. CASE Abandon(t)
  <2>1. name[t[1]] \in Names
    BY <1>5, <1>t DEF Abandon, Named
  <2>2. UpdateTask(t, "NOT_STARTED", "ABANDONED", FALSE) \in Messages
    BY <1>u, <2>1 DEF UpdateTask, Messages, TaskStates, EndStates
  <2>3. mail' \in Seq(Messages)
    BY <1>5, <1>m, <2>2, SendAdds DEF Abandon
  <2>4. task' \in [Tasks -> Actor] /\ \A x \in Tasks : x # t => task'[x] = task[x]
    BY <1>5, <1>t DEF Abandon, Actor, EndStates
  <2> QED
    BY <1>0, <1>5, <1>p, <2>3, <2>4 DEF Abandon
<1> QED
  BY <1>1, <1>2, <1>3, <1>4, <1>5

(* What the messages of each kind carry. *)
LEMMA MessageParts ==
  ASSUME NEW m \in Messages
  PROVE  /\ m.table \in Names
         /\ m.q # "Report" => m.method \in Methods
         /\ m.q = "UpdateTaskStatus" => m.status \in TaskStates /\ m.start \in Times
         /\ m.q = "UpdateTask" => m.status \in TaskStates /\ m.end \in EndStates /\ m.long \in BOOLEAN
         /\ m.q = "Report" => m.viewer \in Viewers /\ m.ask \in 1 .. MaxAsks
  BY DEF Messages

(* The trigger of a table keeps its rows well typed. *)
LEMMA TriggerType ==
  ASSUME NEW old \in RowData, NEW new \in RowData, NEW start \in Times
  PROVE  Trigger(old, new, start) \in RowData
<1>1. [new EXCEPT !.started = start] \in RowData /\ [new EXCEPT !.spent = old.started] \in RowData
  BY DEF RowData
<1> QED
  BY <1>1 DEF Trigger

(* A report is made of rows of the table it is about. *)
LEMMA ReportType ==
  ASSUME row \in [Rows -> RowData \cup {None}], NEW n \in Names
  PROVE  DBGenerateJsonReport(n) \in Reports \cup {None}
<1> DEFINE done == DBGetTasksWithStatus(n, "DONE")
           rows == {[method |-> r[2], end |-> row[r].end, spent |-> row[r].spent] : r \in done}
<1>1. ASSUME NEW r \in done
      PROVE  [method |-> r[2], end |-> row[r].end, spent |-> row[r].spent]
               \in [method : Methods, end : EndStates, spent : Times]
  <2>1. r \in Rows /\ row[r] \in RowData
    BY DEF DBGetTasksWithStatus
  <2>2. r[2] \in Methods
    BY <2>1 DEF Rows
  <2> QED
    BY <2>1, <2>2 DEF RowData
<1>2. rows \subseteq [method : Methods, end : EndStates, spent : Times]
  BY <1>1
<1>3. DBGenerateJsonReport(n) = IF done = {} THEN None ELSE [table |-> n, rows |-> rows]
  BY DEF DBGenerateJsonReport
<1> HIDE DEF rows, done
<1>4. [table |-> n, rows |-> rows] \in Reports
  BY <1>2 DEF Reports
<1> QED
  BY <1>3, <1>4

(* The steps of DBActor keep the types. *)
LEMMA DatabaseType ==
  ASSUME TypeInv,
         \/ PerformCreateTask \/ PerformUpdateTaskStatus \/ PerformUpdateTask \/ PerformReport
         \/ CouldNotConnect
  PROVE  TypeInv'
<1>n. name \in [Uploads -> Names \cup {None}] /\ adding \in [Uploads -> Methods \cup {None}]
  BY TypeParts
<1>t. task \in [Tasks -> Actor] /\ Named
  BY TypeParts
<1>r. row \in [Rows -> RowData \cup {None}]
  BY TypeParts
<1>v. viewer \in [Viewers -> Viewer] /\ dataPath \in Reports \cup {None}
  BY TypeParts
<1>m. mail \in Seq(Messages)
  BY TypeParts
<1>p. past \in Past
  BY TypeParts
<1>h. mail # <<>> /\ mail' = Tail(mail)
  BY DEF PerformCreateTask, PerformUpdateTaskStatus, PerformUpdateTask, PerformReport, CouldNotConnect, Performs
<1>q. mail' \in Seq(Messages) /\ Query \in Messages
  BY <1>m, <1>h, HandledTakes DEF Query
<1>w. Query.q # "Report" => QueryRow \in Rows
  BY <1>q, MessageParts DEF QueryRow, Rows
<1>0. ASSUME row' \in [Rows -> RowData \cup {None}], viewer' \in [Viewers -> Viewer], past' \in Past,
             UNCHANGED <<uploads, task, dataPath>>
      PROVE  TypeInv'
  <2>1. Named'
    BY <1>0, <1>t DEF Named, uploads
  <2> QED
    BY <1>0, <1>n, <1>t, <1>v, <1>q, <2>1 DEF TypeInv, TypeOK, uploads, Actor, Viewer, Past
<1>l. ASSUME Lose, Query.q \in {"UpdateTaskStatus", "UpdateTask"}
      PROVE  past' \in Past
  BY <1>l, <1>p, <1>w DEF Lose, Past
<1>1. CASE PerformCreateTask
  <2>1. NewRow \in RowData
    BY DatabaseAssumption DEF NewRow, RowData, TaskStates, EndStates, Times
  <2>2. row' \in [Rows -> RowData \cup {None}]
    BY <1>1, <1>r, <2>1 DEF PerformCreateTask
  <2> QED
    BY <1>0, <1>1, <1>v, <1>p, <2>2 DEF PerformCreateTask, Performs
<1>2. CASE PerformUpdateTaskStatus
  <2>1. Query.q = "UpdateTaskStatus" /\ Query.status \in TaskStates /\ Query.start \in Times /\ QueryRow \in Rows
    BY <1>2, <1>q, <1>w, MessageParts DEF PerformUpdateTaskStatus, Performs
  <2>2. ASSUME NEW x \in RowData
        PROVE  DBUpdateTaskStatus(Query, x) \in RowData
    <3>1. [x EXCEPT !.status = Query.status] \in RowData
      BY <2>1 DEF RowData
    <3> QED
      BY <2>1, <3>1, TriggerType DEF DBUpdateTaskStatus
  <2>3. row' \in [Rows -> RowData \cup {None}]
    BY <1>2, <1>r, <2>1, <2>2 DEF PerformUpdateTaskStatus
  <2>4. past' \in Past
    BY <1>2, <1>p, <1>l, <2>1 DEF PerformUpdateTaskStatus
  <2> QED
    BY <1>0, <1>2, <1>v, <2>3, <2>4 DEF PerformUpdateTaskStatus, Performs
<1>3. CASE PerformUpdateTask
  <2>1. Query.q = "UpdateTask" /\ Query.status \in TaskStates /\ Query.end \in EndStates /\ QueryRow \in Rows
    BY <1>3, <1>q, <1>w, MessageParts DEF PerformUpdateTask, Performs
  <2>2. ASSUME NEW x \in RowData
        PROVE  DBUpdateTask(Query, x) \in RowData
    <3>1. [x EXCEPT !.status = Query.status, !.end = Query.end] \in RowData
      BY <2>1 DEF RowData
    <3>2. 0 \in Times
      BY DatabaseAssumption DEF Times
    <3> QED
      BY <2>1, <3>1, <3>2, TriggerType DEF DBUpdateTask
  <2>3. row' \in [Rows -> RowData \cup {None}]
    BY <1>3, <1>r, <2>1, <2>2 DEF PerformUpdateTask
  <2>4. past' \in Past
    BY <1>3, <1>p, <1>l, <2>1 DEF PerformUpdateTask
  <2> QED
    BY <1>0, <1>3, <1>v, <2>3, <2>4 DEF PerformUpdateTask, Performs
<1>4. CASE PerformReport
  <2>1. DBGenerateJsonReport(Query.table) \in Reports \cup {None}
    BY <1>r, <1>q, MessageParts, ReportType
  <2>2. viewer' \in [Viewers -> Viewer]
    <3> DEFINE d == DBGenerateJsonReport(Query.table)
               a == [viewer[Query.viewer] EXCEPT !.state = "answered", !.answer = d]
    <3>1. viewer' = viewer \/ viewer' = [viewer EXCEPT ![Query.viewer] = a]
      BY <1>4 DEF PerformReport
    <3>2. Query.viewer \in Viewers
      BY <1>4, <1>q, MessageParts DEF PerformReport, Performs
    <3> HIDE DEF d
    <3>3. a \in Viewer
      BY <1>v, <2>1, <3>2 DEF Viewer, d
    <3> HIDE DEF a
    <3> QED
      BY <1>v, <3>1, <3>3
  <2> QED
    BY <1>0, <1>4, <1>r, <1>p, <2>2 DEF PerformReport, Performs
<1>5. CASE CouldNotConnect
  <2>1. past.failures + 1 \in 0 .. MaxFailures
    BY <1>5, <1>p, DatabaseAssumption DEF CouldNotConnect, Past
  <2> DEFINE l == IF Query.q \in {"UpdateTaskStatus", "UpdateTask"}
                  THEN past.lost \cup {<<QueryRow, Query.q>>} ELSE past.lost
  <2>2. past' = [past EXCEPT !.failures = past.failures + 1, !.lost = l]
    BY <1>5 DEF CouldNotConnect
  <2>3. l \subseteq Rows \X {"UpdateTaskStatus", "UpdateTask"}
    BY <1>p, <1>w DEF Past
  <2> HIDE DEF l
  <2>4. past' \in Past
    BY <1>p, <2>1, <2>2, <2>3 DEF Past
  <2> QED
    BY <1>0, <1>5, <1>r, <1>v, <2>4 DEF CouldNotConnect, web
<1> QED
  BY <1>1, <1>2, <1>3, <1>4, <1>5

(* The steps of ClusteringApi keep the types. *)
LEMMA WebType ==
  ASSUME TypeInv, NEW v \in Viewers,
         \/ \E n \in Names : ReportAsked(v, n)
         \/ ReportAnswered(v) \/ ReportTimesOut(v) \/ DataLoaded(v)
  PROVE  TypeInv'
<1>n. name \in [Uploads -> Names \cup {None}] /\ adding \in [Uploads -> Methods \cup {None}]
  BY TypeParts
<1>t. task \in [Tasks -> Actor] /\ Named
  BY TypeParts
<1>r. row \in [Rows -> RowData \cup {None}] /\ past \in Past
  BY TypeParts
<1>v. viewer \in [Viewers -> Viewer] /\ dataPath \in Reports \cup {None}
  BY TypeParts
<1>m. mail \in Seq(Messages)
  BY TypeParts
<1>0. ASSUME mail' \in Seq(Messages), viewer' \in [Viewers -> Viewer], dataPath' \in Reports \cup {None},
             UNCHANGED <<uploads, task, row, past>>
      PROVE  TypeInv'
  <2>1. Named'
    BY <1>0, <1>t DEF Named, uploads
  <2> QED
    BY <1>0, <1>n, <1>t, <1>r, <2>1 DEF TypeInv, TypeOK, uploads, Actor, Viewer, Past
<1>1. ASSUME NEW n \in Names, ReportAsked(v, n)
      PROVE  TypeInv'
  <2>1. viewer[v].asks + 1 \in 1 .. MaxAsks
    BY <1>1, <1>v, DatabaseAssumption DEF ReportAsked, Viewer
  <2>2. [q |-> "Report", table |-> n, viewer |-> v, ask |-> viewer[v].asks + 1] \in Messages
    BY <2>1 DEF Messages
  <2>3. mail' \in Seq(Messages)
    BY <1>1, <1>m, <2>2, SendAdds DEF ReportAsked
  <2>4. viewer' \in [Viewers -> Viewer]
    BY <1>1, <1>v, <2>1 DEF ReportAsked, Viewer
  <2> QED
    BY <1>0, <1>1, <1>v, <2>3, <2>4 DEF ReportAsked
<1>2. CASE ReportAnswered(v)
  <2>1. viewer' \in [Viewers -> Viewer] /\ dataPath' \in Reports \cup {None}
    BY <1>2, <1>v DEF ReportAnswered, Viewer
  <2> QED
    BY <1>0, <1>2, <1>m, <2>1 DEF ReportAnswered
<1>3. CASE ReportTimesOut(v)
  <2>1. viewer' \in [Viewers -> Viewer]
    BY <1>3, <1>v DEF ReportTimesOut, Viewer
  <2> QED
    BY <1>0, <1>3, <1>m, <1>v, <2>1 DEF ReportTimesOut
<1>4. CASE DataLoaded(v)
  <2>1. viewer' \in [Viewers -> Viewer]
    BY <1>4, <1>v DEF DataLoaded, Viewer
  <2> QED
    BY <1>0, <1>4, <1>m, <1>v, <2>1 DEF DataLoaded
<1> QED
  BY <1>1, <1>2, <1>3, <1>4

(* Every state is well typed: no message, row or report lacks a table, a    *)
(* state or a time, in whatever order uploads, tasks and users come.        *)
THEOREM TypeCorrect == Spec => []TypeInv
<1>1. Init => TypeInv
  <2> SUFFICES ASSUME Init PROVE TypeInv
    OBVIOUS
  <2>1. mail \in Seq(Messages)
    BY DEF Init
  <2>2. task \in [Tasks -> Actor] /\ Named
    BY DatabaseAssumption DEF Init, Actor, EndStates, Times, Named
  <2>3. viewer \in [Viewers -> Viewer] /\ past \in Past
    BY DatabaseAssumption DEF Init, Viewer, Past, Times
  <2> QED
    BY <2>1, <2>2, <2>3 DEF Init, TypeInv, TypeOK, Actor, Viewer, Past
<1>2. TypeInv /\ [Next]_vars => TypeInv'
  <2> SUFFICES ASSUME TypeInv, [Next]_vars PROVE TypeInv'
    OBVIOUS
  <2>1. CASE Next
    BY <2>1, UploadType, TaskType, DatabaseType, WebType, Zenon DEF Next
  <2>2. CASE UNCHANGED vars
    BY <2>2 DEF vars, uploads, web, TypeInv, TypeOK, Named
  <2> QED
    BY <2>1, <2>2
<1> QED
  BY <1>1, <1>2, PTL DEF Spec

(* TypeOK is an invariant. *)
THEOREM TypeOKHolds == Spec => []TypeOK
<1>1. TypeInv => TypeOK
  BY DEF TypeInv
<1> QED
  BY <1>1, TypeCorrect, PTL

-----------------------------------------------------------------------------
(* Reports tell results *)

\* Some task of row r has ended with e.
Told(r, e) == \E t \in TasksOf(r) : task[t].end = e

EndsOver == \A t \in Tasks : task[t].end # None => task[t].state = "over"

\* The status that goes with an end
Shown(e) == IF e = "ABANDONED" THEN "NOT_STARTED" ELSE "DONE"

MessageTrue(m) ==
  /\ m.q = "UpdateTask" => /\ m.end # None /\ Told(<<m.table, m.method>>, m.end)
                           /\ m.status = Shown(m.end)
  /\ m.q = "UpdateTaskStatus" => m.status # "DONE"

RowTrue(r) ==
  row[r] # None => /\ row[r].end # None => Told(r, row[r].end)
                   /\ row[r].status = "DONE" => row[r].end \in {"SUCCESS", "FAILURE"}

ReportTrue(p) ==
  p # None => \A x \in p.rows : /\ x.end \in {"SUCCESS", "FAILURE"}
                                /\ Told(<<p.table, x.method>>, x.end)

\* What a report shows was in a row, what a row shows was in a message, and what a
\* message says has happened.
ResultsInv ==
  /\ EndsOver
  /\ \A m \in Pending : MessageTrue(m)
  /\ \A r \in Rows : RowTrue(r)
  /\ \A v \in Viewers : ReportTrue(viewer[v].answer)
  /\ ReportTrue(dataPath)

\* What has happened to a task and an upload stays so.
Stays ==
  \A t \in Tasks : /\ name[t[1]] \in Names => name'[t[1]] = name[t[1]]
                   /\ task[t].state # "none" => task'[t].state # "none"
                   /\ task[t].end # None => task'[t].end = task[t].end

(* A step of an upload or a task does not undo what has happened. *)
LEMMA StepStays ==
  ASSUME TypeInv, EndsOver, Next
  PROVE  Stays /\ EndsOver'
<1>n. name \in [Uploads -> Names \cup {None}] /\ task \in [Tasks -> Actor]
  BY TypeParts
<1>u. \A t \in Tasks : t[1] \in Uploads
  BY TaskParts
<1>0. ASSUME name' = name, task' = task
      PROVE  Stays /\ EndsOver'
  BY <1>0 DEF Stays, EndsOver
<1>1. ASSUME NEW u \in Uploads, NEW n \in Names, UploadStarts(u, n)
      PROVE  Stays /\ EndsOver'
  <2>1. \A x \in Uploads : name[x] \in Names => name'[x] = name[x]
    BY <1>1, <1>n, DatabaseAssumption DEF UploadStarts
  <2>2. task' = task
    BY <1>1 DEF UploadStarts
  <2> QED
    BY <1>u, <2>1, <2>2 DEF Stays, EndsOver
<1>2. ASSUME NEW u \in Uploads, NEW m \in Methods, AddTask(u, m)
      PROVE  Stays /\ EndsOver'
  <2>1. name' = name
    BY <1>2 DEF AddTask
  <2>2. \A t \in Tasks : /\ task'[t].end = task[t].end
                         /\ task[t].state # "none" => task'[t].state = task[t].state
    BY <1>2, <1>n DEF AddTask, Actor
  <2>3. \A t \in Tasks : task[t].state # "none" => task'[t].state # "none"
    BY <2>2
  <2>4. \A t \in Tasks : task[t].end # None => task'[t].state = "over"
    BY <2>2 DEF EndsOver
  <2> QED
    BY <2>1, <2>2, <2>3, <2>4 DEF Stays, EndsOver
<1>3. ASSUME NEW t \in Tasks, name' = name, task[t].end = None, task' \in [Tasks -> Actor],
             task'[t].state # "none", task'[t].end # None => task'[t].state = "over",
             \A x \in Tasks : x # t => task'[x] = task[x]
      PROVE  Stays /\ EndsOver'
  <2>1. \A x \in Tasks : task[x].state # "none" => task'[x].state # "none"
    BY <1>3
  <2>2. \A x \in Tasks : task[x].end # None => task'[x].end = task[x].end
    BY <1>3
  <2>3. EndsOver'
    BY <1>3 DEF EndsOver
  <2> QED
    BY <1>3, <2>1, <2>2, <2>3 DEF Stays
<1>4. ASSUME NEW t \in Tasks, Starting(t) \/ Reset(t) \/ Abandon(t)
                              \/ \E end \in {"SUCCESS", "FAILURE"}, long \in BOOLEAN : Finish(t, end, long)
      PROVE  Stays /\ EndsOver'
  <2>1. TypeInv'
    BY <1>4, TaskType
  <2>2. task' \in [Tasks -> Actor]
    BY <2>1 DEF TypeInv, TypeOK, Actor
  <2>3. name' = name /\ task[t].state \in {"free", "running"}
    BY <1>4 DEF Starting, Reset, Abandon, Finish, uploads
  <2>4. task[t].end = None
    BY <2>3 DEF EndsOver
  <2>5. \A x \in Tasks : x # t => task'[x] = task[x]
    BY <1>4, <1>n DEF Starting, Reset, Abandon, Finish
  <2>6. task'[t].state # "none" /\ (task'[t].end # None => task'[t].state = "over")
    <3>1. CASE Starting(t)
      BY <3>1, <1>n, <2>4 DEF Starting, Actor
    <3>2. CASE Reset(t)
      BY <3>2, <1>n, <2>4 DEF Reset, Actor
    <3>3. CASE Abandon(t)
      BY <3>3, <1>n DEF Abandon, Actor
    <3>4. ASSUME NEW end \in {"SUCCESS", "FAILURE"}, NEW long \in BOOLEAN, Finish(t, end, long)
          PROVE  task'[t].state = "over"
      BY <3>4, <1>n DEF Finish, Actor
    <3> QED
      BY <1>4, <3>1, <3>2, <3>3, <3>4
  <2> QED
    BY <1>3, <2>2, <2>3, <2>4, <2>5, <2>6
<1>5. ASSUME NEW t \in Tasks, NEW k \in 1 .. MaxStarts, WriteRunning(t, k)
      PROVE  Stays /\ EndsOver'
  <2>1. \A x \in Tasks : task'[x].end = task[x].end /\ task'[x].state = task[x].state
    BY <1>5, <1>n DEF WriteRunning, Actor
  <2>2. name' = name
    BY <1>5 DEF WriteRunning, uploads
  <2> QED
    BY <2>1, <2>2 DEF Stays, EndsOver
<1>6. ASSUME NEW u \in Uploads, CreateTask(u)
      PROVE  Stays /\ EndsOver'
  BY <1>0, <1>6 DEF CreateTask
<1>7. CASE PerformCreateTask \/ PerformUpdateTaskStatus \/ PerformUpdateTask \/ PerformReport \/ CouldNotConnect
  BY <1>0, <1>7 DEF PerformCreateTask, PerformUpdateTaskStatus, PerformUpdateTask, PerformReport,
                    CouldNotConnect, Performs, uploads
<1>8. ASSUME NEW v \in Viewers, \/ \E n \in Names : ReportAsked(v, n)
                                \/ ReportAnswered(v) \/ ReportTimesOut(v) \/ DataLoaded(v)
      PROVE  Stays /\ EndsOver'
  BY <1>0, <1>8 DEF ReportAsked, ReportAnswered, ReportTimesOut, DataLoaded, uploads
<1> QED
  BY <1>1, <1>2, <1>4, <1>5, <1>6, <1>7, <1>8 DEF Next

(* What was told stays told. *)
LEMMA ToldStays ==
  ASSUME Stays, NEW r, r[1] \in Names, NEW e, e # None, Told(r, e)
  PROVE  Told(r, e)'
<1>1. PICK t \in TasksOf(r) : task[t].end = e
  BY DEF Told
<1>2. t \in Tasks /\ name[t[1]] = r[1] /\ t[2] = r[2] /\ task[t].state # "none"
  BY <1>1 DEF TasksOf
<1>3. name'[t[1]] = r[1] /\ task'[t].state # "none" /\ task'[t].end = e
  BY <1>1, <1>2 DEF Stays
<1>4. t \in TasksOf(r)'
  BY <1>2, <1>3 DEF TasksOf
<1> QED
  BY <1>3, <1>4 DEF Told

(* A true message stays true. *)
LEMMA MessageStays ==
  ASSUME Stays, NEW m \in Messages, MessageTrue(m)
  PROVE  MessageTrue(m)'
<1>1. m.q = "UpdateTask" => m.table \in Names
  BY MessageParts
<1>2. m.q = "UpdateTask" => Told(<<m.table, m.method>>, m.end)'
  BY <1>1, ToldStays DEF MessageTrue
<1> QED
  BY <1>2 DEF MessageTrue

(* A true report stays true. *)
LEMMA ReportStays ==
  ASSUME Stays, NEW p \in Reports \cup {None}, ReportTrue(p)
  PROVE  ReportTrue(p)'
<1>1. ASSUME p # None, NEW x \in p.rows
      PROVE  x.end \in {"SUCCESS", "FAILURE"} /\ Told(<<p.table, x.method>>, x.end)'
  <2>1. p.table \in Names
    BY <1>1 DEF Reports
  <2>2. x.end \in {"SUCCESS", "FAILURE"} /\ Told(<<p.table, x.method>>, x.end) /\ x.end # None
    BY <1>1, DatabaseAssumption DEF ReportTrue
  <2> QED
    BY <2>1, <2>2, ToldStays
<1> QED
  BY <1>1 DEF ReportTrue

(* The messages that are sent are true. *)
LEMMA MailTrue ==
  ASSUME TypeInv, ResultsInv, Next, Stays
  PROVE  \A m \in Pending' : MessageTrue(m)'
<1>m. mail \in Seq(Messages) /\ task \in [Tasks -> Actor] /\ Named
  BY TypeParts
<1>0. ASSUME NEW m \in Pending
      PROVE  MessageTrue(m)'
  <2>1. m \in Messages
    BY <1>m DEF Pending
  <2> QED
    BY <2>1, MessageStays DEF ResultsInv
<1>s. ASSUME NEW e \in Messages, Send(e), MessageTrue(e)'
      PROVE  \A m \in Pending' : MessageTrue(m)'
  <2>1. \A m \in Pending' : m \in Pending \/ m = e
    BY <1>m, <1>s, SendAdds
  <2> QED
    BY <1>0, <1>s, <2>1
<1>k. ASSUME mail' = mail
      PROVE  \A m \in Pending' : MessageTrue(m)'
  <2>1. Pending' = Pending
    BY <1>k DEF Pending
  <2> QED
    BY <1>0, <2>1
<1>1. ASSUME NEW u \in Uploads, CreateTask(u)
      PROVE  \A m \in Pending' : MessageTrue(m)'
  <2>1. [q |-> "CreateTask", table |-> name[u], method |-> adding[u]] \in Messages
    BY <1>1, <1>m, TypeParts DEF CreateTask, Messages, Named
  <2>2. PICK e \in Messages : e = [q |-> "CreateTask", table |-> name[u], method |-> adding[u]]
    BY <2>1
  <2>3. e.q = "CreateTask" /\ Send(e)
    BY <1>1, <2>2 DEF CreateTask
  <2>4. MessageTrue(e)'
    BY <2>3 DEF MessageTrue
  <2> QED
    BY <1>s, <2>3, <2>4
<1>2. ASSUME NEW v \in Viewers, NEW n \in Names, ReportAsked(v, n)
      PROVE  \A m \in Pending' : MessageTrue(m)'
  <2>1. viewer[v].asks + 1 \in 1 .. MaxAsks
    BY <1>2, TypeParts, DatabaseAssumption DEF ReportAsked, Viewer
  <2>2. [q |-> "Report", table |-> n, viewer |-> v, ask |-> viewer[v].asks + 1] \in Messages
    BY <2>1 DEF Messages
  <2>3. PICK e \in Messages : e = [q |-> "Report", table |-> n, viewer |-> v, ask |-> viewer[v].asks + 1]
    BY <2>2
  <2>4. e.q = "Report" /\ Send(e)
    BY <1>2, <2>3 DEF ReportAsked
  <2>5. MessageTrue(e)'
    BY <2>4 DEF MessageTrue
  <2> QED
    BY <1>s, <2>4, <2>5
<1>3. ASSUME NEW t \in Tasks, NEW status \in {"RUNNING", "NOT_STARTED"}, NEW k \in Times,
             name[t[1]] \in Names, Send(UpdateTaskStatus(t, status, k))
      PROVE  \A m \in Pending' : MessageTrue(m)'
  <2>1. UpdateTaskStatus(t, status, k) \in Messages
    BY <1>3, TaskParts DEF UpdateTaskStatus, Messages, TaskStates
  <2>2. PICK e \in Messages : e = UpdateTaskStatus(t, status, k)
    BY <2>1
  <2>3. e.q = "UpdateTaskStatus" /\ e.status # "DONE"
    BY <2>2 DEF UpdateTaskStatus
  <2>4. MessageTrue(e)'
    BY <2>3 DEF MessageTrue
  <2> QED
    BY <1>3, <1>s, <2>2, <2>4
<1>4. ASSUME NEW t \in Tasks, NEW status \in TaskStates, NEW end \in EndStates, NEW long \in BOOLEAN,
             name[t[1]] \in Names, task'[t].end = end, task'[t].state = "over",
             end # None, status = Shown(end), name' = name,
             Send(UpdateTask(t, status, end, long))
      PROVE  \A m \in Pending' : MessageTrue(m)'
  <2>1. UpdateTask(t, status, end, long) \in Messages
    BY <1>4, TaskParts DEF UpdateTask, Messages
  <2>2. PICK e \in Messages : e = UpdateTask(t, status, end, long)
    BY <2>1
  <2>3. e.q = "UpdateTask" /\ e.table = name[t[1]] /\ e.method = t[2] /\ e.end = end /\ e.status = status
    BY <2>2 DEF UpdateTask
  <2>4. t \in TasksOf(<<e.table, e.method>>)'
    BY <1>4, <2>3 DEF TasksOf
  <2>5. Told(<<e.table, e.method>>, e.end)'
    BY <1>4, <2>3, <2>4 DEF Told
  <2>6. MessageTrue(e)'
    BY <1>4, <2>3, <2>5 DEF MessageTrue
  <2> QED
    BY <1>4, <1>s, <2>2, <2>6
<1>5. ASSUME NEW t \in Tasks, NEW k \in 1 .. MaxStarts, WriteRunning(t, k)
      PROVE  \A m \in Pending' : MessageTrue(m)'
  <2>1. name[t[1]] \in Names
    BY <1>5, <1>m DEF WriteRunning, Named
  <2> QED
    BY <1>3, <1>5, <2>1 DEF WriteRunning, Times
<1>6. ASSUME NEW t \in Tasks, Reset(t)
      PROVE  \A m \in Pending' : MessageTrue(m)'
  <2>1. name[t[1]] \in Names
    BY <1>6, <1>m DEF Reset, Named
  <2>2. 0 \in Times
    BY DatabaseAssumption DEF Times
  <2> QED
    BY <1>3, <1>6, <2>1, <2>2 DEF Reset
<1>7. ASSUME NEW t \in Tasks, NEW end \in {"SUCCESS", "FAILURE"}, NEW long \in BOOLEAN, Finish(t, end, long)
      PROVE  \A m \in Pending' : MessageTrue(m)'
  <2>1. name[t[1]] \in Names
    BY <1>7, <1>m DEF Finish, Named
  <2>2. task'[t].end = end /\ task'[t].state = "over" /\ name' = name
    BY <1>7, <1>m DEF Finish, Actor, uploads
  <2>3. "DONE" \in TaskStates /\ end \in EndStates /\ end # None /\ Shown(end) = "DONE"
    BY DatabaseAssumption DEF TaskStates, EndStates, Shown
  <2> QED
    BY <1>4, <1>7, <2>1, <2>2, <2>3 DEF Finish
<1>8. ASSUME NEW t \in Tasks, Abandon(t)
      PROVE  \A m \in Pending' : MessageTrue(m)'
  <2>1. name[t[1]] \in Names
    BY <1>8, <1>m DEF Abandon, Named
  <2>2. task'[t].end = "ABANDONED" /\ task'[t].state = "over" /\ name' = name
    BY <1>8, <1>m DEF Abandon, Actor, uploads
  <2>3. "NOT_STARTED" \in TaskStates /\ "ABANDONED" \in EndStates /\ "ABANDONED" # None
    BY DatabaseAssumption DEF TaskStates, EndStates
  <2>4. Shown("ABANDONED") = "NOT_STARTED"
    BY DEF Shown
  <2> QED
    BY <1>4, <1>8, <2>1, <2>2, <2>3, <2>4 DEF Abandon
<1>9. CASE PerformCreateTask \/ PerformUpdateTaskStatus \/ PerformUpdateTask \/ PerformReport \/ CouldNotConnect
  <2>1. mail # <<>> /\ mail' = Tail(mail)
    BY <1>9 DEF PerformCreateTask, PerformUpdateTaskStatus, PerformUpdateTask, PerformReport, CouldNotConnect, Performs
  <2>2. Pending' \subseteq Pending
    BY <1>m, <2>1, HandledTakes
  <2> QED
    BY <1>0, <2>2
<1>10. ASSUME NEW u \in Uploads, (\E n \in Names : UploadStarts(u, n)) \/ (\E m \in Methods : AddTask(u, m))
       PROVE  \A m \in Pending' : MessageTrue(m)'
  BY <1>10, <1>k DEF UploadStarts, AddTask
<1>11. ASSUME NEW t \in Tasks, Starting(t)
       PROVE  \A m \in Pending' : MessageTrue(m)'
  BY <1>11, <1>k DEF Starting
<1>12. ASSUME NEW v \in Viewers, ReportAnswered(v) \/ ReportTimesOut(v) \/ DataLoaded(v)
       PROVE  \A m \in Pending' : MessageTrue(m)'
  BY <1>12, <1>k DEF ReportAnswered, ReportTimesOut, DataLoaded
<1> HIDE DEF MessageTrue, Pending
<1> QED
  BY <1>1, <1>2, <1>5, <1>6, <1>7, <1>8, <1>9, <1>10, <1>11, <1>12, Zenon DEF Next

(* The trigger changes times, and neither status nor end. *)
LEMMA TriggerKeeps ==
  ASSUME NEW old \in RowData, NEW new \in RowData, NEW start
  PROVE  Trigger(old, new, start).status = new.status /\ Trigger(old, new, start).end = new.end
<1>1. /\ [new EXCEPT !.started = start].status = new.status /\ [new EXCEPT !.started = start].end = new.end
      /\ [new EXCEPT !.spent = old.started].status = new.status /\ [new EXCEPT !.spent = old.started].end = new.end
  BY DEF RowData
<1> QED
  BY <1>1 DEF Trigger

(* What rows show stays true. *)
LEMMA RowsTrue ==
  ASSUME TypeInv, ResultsInv, Next, Stays
  PROVE  \A r \in Rows : RowTrue(r)'
<1>t. row \in [Rows -> RowData \cup {None}] /\ mail \in Seq(Messages)
  BY TypeParts
<1>n. \A r \in Rows : r[1] \in Names
  BY DEF Rows
<1>i. \A r \in Rows : RowTrue(r)
  BY DEF ResultsInv
<1>k. ASSUME NEW r \in Rows, row'[r] = row[r]
      PROVE  RowTrue(r)'
  <2>1. row[r] # None /\ row[r].end # None => Told(r, row[r].end)
    BY <1>i DEF RowTrue
  <2>2. PICK e : e = row[r].end
    OBVIOUS
  <2>3. row[r] # None /\ e # None => Told(r, e)'
    BY <1>n, <2>1, <2>2, ToldStays
  <2>4. row[r] # None => (row[r].status = "DONE" => row[r].end \in {"SUCCESS", "FAILURE"})
    BY <1>i DEF RowTrue
  <2> QED
    BY <1>k, <2>2, <2>3, <2>4 DEF RowTrue
<1>h. ASSUME mail # <<>>, mail' = Tail(mail)
      PROVE  Query \in Messages /\ MessageTrue(Query)
  BY <1>h, <1>t, HandledTakes DEF Query, ResultsInv
<1>1. CASE PerformCreateTask
  <2>1. ASSUME NEW r \in Rows, row'[r] = NewRow
        PROVE  RowTrue(r)'
    BY <2>1 DEF RowTrue, NewRow
  <2>2. \A r \in Rows : row'[r] = row[r] \/ row'[r] = NewRow
    BY <1>1, <1>t DEF PerformCreateTask
  <2> QED
    BY <1>k, <2>1, <2>2
<1>2. CASE PerformUpdateTaskStatus
  <2>1. Query.q = "UpdateTaskStatus" /\ Query.status \in TaskStates /\ Query.status # "DONE"
    BY <1>2, <1>h, MessageParts DEF PerformUpdateTaskStatus, Performs, MessageTrue
  <2>2. ASSUME NEW r \in Rows, row'[r] # row[r]
        PROVE  RowTrue(r)'
    <3>1. row[r] \in RowData /\ row'[r] = DBUpdateTaskStatus(Query, row[r])
      BY <1>2, <1>t, <2>2 DEF PerformUpdateTaskStatus
    <3> DEFINE new == [row[r] EXCEPT !.status = Query.status]
    <3>2. new \in RowData /\ new.status = Query.status /\ new.end = row[r].end
      BY <2>1, <3>1 DEF RowData
    <3>3. row'[r] = Trigger(row[r], new, Query.start)
      BY <3>1 DEF DBUpdateTaskStatus
    <3> HIDE DEF new
    <3>4. row'[r].status # "DONE" /\ row'[r].end = row[r].end
      BY <2>1, <3>1, <3>2, <3>3, TriggerKeeps
    <3>5. row[r] # None
      BY <1>2, <2>2, <1>t DEF PerformUpdateTaskStatus
    <3>6. PICK e : e = row[r].end
      OBVIOUS
    <3>7. e # None => Told(r, e)'
      BY <1>i, <1>n, <3>5, <3>6, ToldStays DEF RowTrue
    <3> QED
      BY <3>4, <3>6, <3>7 DEF RowTrue
  <2> QED
    BY <1>k, <2>2
<1>3. CASE PerformUpdateTask
  <2>1. Query.q = "UpdateTask" /\ Query.status \in TaskStates /\ Query.end \in EndStates /\ Query.table \in Names
    BY <1>3, <1>h, MessageParts DEF PerformUpdateTask, Performs
  <2>2. /\ Query.end # None /\ Told(QueryRow, Query.end)
        /\ Query.status = "DONE" => Query.end \in {"SUCCESS", "FAILURE"}
    BY <1>3, <1>h, <2>1 DEF PerformUpdateTask, Performs, MessageTrue, QueryRow, Shown, EndStates
  <2>3. ASSUME NEW r \in Rows, row'[r] # row[r]
        PROVE  RowTrue(r)'
    <3>1. row[r] \in RowData /\ row'[r] = DBUpdateTask(Query, row[r]) /\ r = QueryRow
      BY <1>3, <1>t, <2>3 DEF PerformUpdateTask
    <3> DEFINE new == [row[r] EXCEPT !.status = Query.status, !.end = Query.end]
    <3>2. new \in RowData /\ new.status = Query.status /\ new.end = Query.end
      BY <2>1, <3>1 DEF RowData
    <3>3. row'[r] = Trigger(row[r], new, 0)
      BY <3>1 DEF DBUpdateTask
    <3> HIDE DEF new
    <3>4. row'[r].status = Query.status /\ row'[r].end = Query.end
      BY <3>1, <3>2, <3>3, TriggerKeeps
    <3>5. PICK e : e = Query.end
      OBVIOUS
    <3>6. Told(r, e)'
      BY <1>n, <2>2, <3>1, <3>5, ToldStays
    <3> QED
      BY <2>2, <3>4, <3>5, <3>6 DEF RowTrue
  <2> QED
    BY <1>k, <2>3
<1>4. ASSUME row' = row
      PROVE  \A r \in Rows : RowTrue(r)'
  BY <1>4, <1>k
<1>5. CASE PerformReport \/ CouldNotConnect
  BY <1>4, <1>5 DEF PerformReport, CouldNotConnect
<1>6. ASSUME NEW u \in Uploads, \/ \E n \in Names : UploadStarts(u, n)
                                \/ \E m \in Methods : AddTask(u, m)
                                \/ CreateTask(u)
      PROVE  \A r \in Rows : RowTrue(r)'
  BY <1>4, <1>6 DEF UploadStarts, AddTask, CreateTask
<1>7. ASSUME NEW t \in Tasks, \/ Starting(t) \/ Reset(t) \/ Abandon(t)
                              \/ \E k \in 1 .. MaxStarts : WriteRunning(t, k)
                              \/ \E end \in {"SUCCESS", "FAILURE"}, long \in BOOLEAN : Finish(t, end, long)
      PROVE  \A r \in Rows : RowTrue(r)'
  BY <1>4, <1>7 DEF Starting, Reset, Abandon, WriteRunning, Finish
<1>8. ASSUME NEW v \in Viewers, \/ \E n \in Names : ReportAsked(v, n)
                                \/ ReportAnswered(v) \/ ReportTimesOut(v) \/ DataLoaded(v)
      PROVE  \A r \in Rows : RowTrue(r)'
  BY <1>4, <1>8 DEF ReportAsked, ReportAnswered, ReportTimesOut, DataLoaded
<1> QED
  BY <1>1, <1>2, <1>3, <1>5, <1>6, <1>7, <1>8, Zenon DEF Next

(* A report made of true rows is true. *)
LEMMA GeneratedTrue ==
  ASSUME TypeInv, ResultsInv, NEW n \in Names
  PROVE  DBGenerateJsonReport(n) \in Reports \cup {None} /\ ReportTrue(DBGenerateJsonReport(n))
<1>t. row \in [Rows -> RowData \cup {None}]
  BY TypeParts
<1> DEFINE done == DBGetTasksWithStatus(n, "DONE")
           rows == {[method |-> r[2], end |-> row[r].end, spent |-> row[r].spent] : r \in done}
<1>1. ASSUME NEW r \in done
      PROVE  r = <<n, r[2]>> /\ row[r].end \in {"SUCCESS", "FAILURE"} /\ Told(<<n, r[2]>>, row[r].end)
  <2>1. r \in Rows /\ r[1] = n /\ row[r] # None /\ row[r].status = "DONE"
    BY DEF DBGetTasksWithStatus
  <2>2. RowTrue(r)
    BY <2>1 DEF ResultsInv
  <2>3. r = <<n, r[2]>>
    BY <2>1 DEF Rows
  <2>4. row[r].end \in {"SUCCESS", "FAILURE"} /\ row[r].end # None
    BY <2>1, <2>2, DatabaseAssumption DEF RowTrue
  <2>5. Told(r, row[r].end)
    BY <2>1, <2>2, <2>4 DEF RowTrue
  <2> QED
    BY <2>3, <2>4, <2>5
<1>2. ASSUME NEW x \in rows
      PROVE  x.end \in {"SUCCESS", "FAILURE"} /\ Told(<<n, x.method>>, x.end)
  <2>1. PICK r \in done : x = [method |-> r[2], end |-> row[r].end, spent |-> row[r].spent]
    OBVIOUS
  <2>2. x.method = r[2] /\ x.end = row[r].end
    BY <2>1
  <2> QED
    BY <1>1, <2>2
<1>3. DBGenerateJsonReport(n) = IF done = {} THEN None ELSE [table |-> n, rows |-> rows]
  BY DEF DBGenerateJsonReport
<1> HIDE DEF rows, done
<1>4. ReportTrue([table |-> n, rows |-> rows])
  BY <1>2 DEF ReportTrue
<1>5. ReportTrue(None)
  BY DEF ReportTrue
<1> QED
  BY <1>t, <1>3, <1>4, <1>5, ReportType

(* What users see, and what data.json is read from, stays true. *)
LEMMA WebTrue ==
  ASSUME TypeInv, ResultsInv, Next, Stays
  PROVE  (\A v \in Viewers : ReportTrue(viewer[v].answer)') /\ ReportTrue(dataPath)'
<1>t. viewer \in [Viewers -> Viewer] /\ dataPath \in Reports \cup {None} /\ mail \in Seq(Messages)
  BY TypeParts
<1> DEFINE Good == {p \in Reports \cup {None} : ReportTrue(p)}
<1>0. ASSUME \A v \in Viewers : viewer'[v].answer \in Good, dataPath' \in Good
      PROVE  (\A v \in Viewers : ReportTrue(viewer[v].answer)') /\ ReportTrue(dataPath)'
  <2>1. ASSUME NEW p \in Good
        PROVE  ReportTrue(p)'
    BY ReportStays
  <2>2. ASSUME NEW v \in Viewers
        PROVE  ReportTrue(viewer[v].answer)'
    <3>1. PICK p \in Good : p = viewer'[v].answer
      BY <1>0
    <3> QED
      BY <2>1, <3>1 DEF ReportTrue
  <2>3. PICK p \in Good : p = dataPath'
    BY <1>0
  <2>4. ReportTrue(dataPath)'
    BY <2>1, <2>3 DEF ReportTrue
  <2> QED
    BY <2>2, <2>4
<1>g. (\A v \in Viewers : viewer[v].answer \in Good) /\ dataPath \in Good /\ None \in Good
  BY <1>t DEF ResultsInv, Viewer, ReportTrue
<1> HIDE DEF Good
<1>k. ASSUME UNCHANGED web
      PROVE  (\A v \in Viewers : ReportTrue(viewer[v].answer)') /\ ReportTrue(dataPath)'
  BY <1>0, <1>g, <1>k DEF web
<1>1. ASSUME NEW u \in Uploads, \/ \E n \in Names : UploadStarts(u, n)
                                \/ \E m \in Methods : AddTask(u, m)
                                \/ CreateTask(u)
      PROVE  UNCHANGED web
  BY <1>1 DEF UploadStarts, AddTask, CreateTask
<1>2. ASSUME NEW t \in Tasks, \/ Starting(t) \/ Reset(t) \/ Abandon(t)
                              \/ \E k \in 1 .. MaxStarts : WriteRunning(t, k)
                              \/ \E end \in {"SUCCESS", "FAILURE"}, long \in BOOLEAN : Finish(t, end, long)
      PROVE  UNCHANGED web
  BY <1>2 DEF Starting, Reset, Abandon, WriteRunning, Finish
<1>3. CASE PerformCreateTask \/ PerformUpdateTaskStatus \/ PerformUpdateTask \/ CouldNotConnect
  BY <1>3, <1>k DEF PerformCreateTask, PerformUpdateTaskStatus, PerformUpdateTask, CouldNotConnect, Performs, web
<1>4. CASE PerformReport
  <2>1. Query \in Messages /\ Query.q = "Report" /\ dataPath' = dataPath
    BY <1>4, <1>t, HandledTakes DEF PerformReport, Performs, Query
  <2>2. Query.table \in Names
    BY <2>1, MessageParts
  <2>3. DBGenerateJsonReport(Query.table) \in Good
    BY <2>2, GeneratedTrue DEF Good
  <2>4. \A v \in Viewers : viewer'[v].answer \in {viewer[v].answer, DBGenerateJsonReport(Query.table)}
    BY <1>4, <1>t DEF PerformReport, Viewer
  <2> QED
    BY <1>0, <1>g, <2>1, <2>3, <2>4
<1>5. ASSUME NEW v \in Viewers, NEW n \in Names, ReportAsked(v, n)
      PROVE  (\A x \in Viewers : viewer'[x].answer \in Good) /\ dataPath' \in Good
  BY <1>5, <1>t, <1>g DEF ReportAsked, Viewer
<1>6. ASSUME NEW v \in Viewers, ReportAnswered(v) \/ ReportTimesOut(v) \/ DataLoaded(v)
      PROVE  (\A x \in Viewers : viewer'[x].answer \in Good) /\ dataPath' \in Good
  <2>1. CASE ReportAnswered(v)
    BY <2>1, <1>t, <1>g DEF ReportAnswered, Viewer
  <2>2. CASE ReportTimesOut(v)
    BY <2>2, <1>t, <1>g DEF ReportTimesOut, Viewer
  <2>3. CASE DataLoaded(v)
    <3>1. \A x \in Viewers : viewer'[x].answer = IF x = v THEN dataPath ELSE viewer[x].answer
      BY <2>3, <1>t DEF DataLoaded, Viewer
    <3> QED
      BY <2>3, <3>1, <1>g DEF DataLoaded
  <2> QED
    BY <1>6, <2>1, <2>2, <2>3
<1>7. ASSUME NEW v \in Viewers, \/ \E n \in Names : ReportAsked(v, n)
                                \/ ReportAnswered(v) \/ ReportTimesOut(v) \/ DataLoaded(v)
      PROVE  (\A x \in Viewers : ReportTrue(viewer[x].answer)') /\ ReportTrue(dataPath)'
  BY <1>0, <1>5, <1>6, <1>7
<1> QED
  BY <1>k, <1>1, <1>2, <1>3, <1>4, <1>7, Zenon DEF Next

(* What messages, rows and reports tell of results is true. *)
LEMMA ResultsAreTrue == Spec => []ResultsInv
<1>1. Init => ResultsInv
  BY DEF Init, ResultsInv, EndsOver, Pending, RowTrue, ReportTrue
<1>2. TypeInv /\ ResultsInv /\ [Next]_vars => ResultsInv'
  <2> SUFFICES ASSUME TypeInv, ResultsInv, [Next]_vars PROVE ResultsInv'
    OBVIOUS
  <2>1. CASE Next
    <3>1. Stays /\ EndsOver'
      BY <2>1, StepStays DEF ResultsInv
    <3>2. \A m \in Pending' : MessageTrue(m)'
      BY <2>1, <3>1, MailTrue
    <3>3. \A r \in Rows : RowTrue(r)'
      BY <2>1, <3>1, RowsTrue
    <3>4. (\A v \in Viewers : ReportTrue(viewer[v].answer)') /\ ReportTrue(dataPath)'
      BY <2>1, <3>1, WebTrue
    <3> QED
      BY <3>1, <3>2, <3>3, <3>4 DEF ResultsInv
  <2>2. CASE UNCHANGED vars
    <3>1. /\ EndsOver' = EndsOver /\ Pending' = Pending
          /\ \A r, e : Told(r, e)' = Told(r, e)
      BY <2>2 DEF vars, uploads, EndsOver, Pending, Told, TasksOf
    <3>2. \A m \in Pending' : MessageTrue(m)'
      BY <3>1 DEF ResultsInv, MessageTrue
    <3>3. \A r \in Rows : RowTrue(r)'
      BY <2>2, <3>1 DEF ResultsInv, RowTrue, vars
    <3>4. (\A v \in Viewers : ReportTrue(viewer[v].answer)') /\ ReportTrue(dataPath)'
      BY <2>2, <3>1 DEF ResultsInv, ReportTrue, vars, web
    <3> QED
      BY <3>1, <3>2, <3>3, <3>4 DEF ResultsInv
  <2> QED
    BY <2>1, <2>2
<1> QED
  BY <1>1, <1>2, TypeCorrect, PTL DEF Spec

(* ReportTellsResults is an invariant: a report never shows an end that no  *)
(* test of that method in that run has had.  The invariant follows a result *)
(* from the task to the message, the row, the report and the page.          *)
THEOREM ReportsTellResults == Spec => []ReportTellsResults
<1>1. ResultsInv => ReportTellsResults
  BY DEF ResultsInv, ReportTrue, ReportTellsResults, Told
<1> QED
  BY <1>1, ResultsAreTrue, PTL

-----------------------------------------------------------------------------
(* Pages show their reports *)

\* The request of user v that DBActor still has to perform is not newer than the
\* last one; and if v waits for it, it is for the run v asks for.
RequestsInv(v) ==
  \A m \in Pending : m.q = "Report" /\ m.viewer = v =>
    /\ m.ask <= viewer[v].asks
    /\ viewer[v].state = "waiting" /\ m.ask = viewer[v].asks => m.table = viewer[v].asked

\* The answer, and between the two requests of a page data.json, is for that run.
AnswersInv(v) ==
  /\ viewer[v].state \in {"answered", "data"} /\ viewer[v].answer # None =>
       viewer[v].answer.table = viewer[v].asked
  /\ viewer[v].state = "page" /\ dataPath # None => dataPath.table = viewer[v].asked

(* The steps of other actors change neither requests nor answers of a user. *)
LEMMA PageUntouched ==
  ASSUME NEW v, RequestsInv(v), AnswersInv(v), viewer' = viewer, dataPath' = dataPath,
         \A m \in Pending' : m \in Pending \/ m.q # "Report"
  PROVE  RequestsInv(v)' /\ AnswersInv(v)'
  BY DEF RequestsInv, AnswersInv

(* A message that is not a request leaves the requests as they are. *)
LEMMA OtherMessage ==
  ASSUME TypeInv, NEW e \in Messages, e.q # "Report", Send(e)
  PROVE  \A m \in Pending' : m \in Pending \/ m.q # "Report"
  BY TypeParts, SendAdds

(* PageShowsItsReport is an invariant when one user reads reports: late and *)
(* lost answers of DBActor never put the data of another run on the page.   *)
THEOREM PageShows ==
  ASSUME NEW CONSTANT w, Viewers = {w}
  PROVE  Spec => []PageShowsItsReport
<1> DEFINE Inv == RequestsInv(w) /\ AnswersInv(w)
<1>1. Init => Inv
  BY DEF Init, RequestsInv, AnswersInv, Pending
<1>2. TypeInv /\ Inv /\ [Next]_vars => Inv'
  <2> SUFFICES ASSUME TypeInv, Inv, [Next]_vars PROVE Inv'
    OBVIOUS
  <2>w. w \in Viewers
    OBVIOUS
  <2>v. viewer \in [Viewers -> Viewer] /\ viewer[w].asks \in Nat
    BY <2>w, TypeParts, DatabaseAssumption DEF Viewer
  <2>m. mail \in Seq(Messages)
    BY TypeParts
  <2>k. ASSUME mail' = mail, viewer' = viewer, dataPath' = dataPath
        PROVE  Inv'
    BY <2>k DEF RequestsInv, AnswersInv, Pending
  <2>t. ASSUME mail # <<>>, mail' = Tail(mail), viewer' = viewer, dataPath' = dataPath
        PROVE  Inv'
    <3>1. Pending' \subseteq Pending
      BY <2>m, <2>t, HandledTakes
    <3> QED
      BY <2>t, <3>1, PageUntouched
  <2>s. ASSUME NEW e \in Messages, e.q # "Report", Send(e), viewer' = viewer, dataPath' = dataPath
        PROVE  Inv'
    BY <2>s, OtherMessage, PageUntouched
  <2>1. ASSUME NEW u \in Uploads, \/ \E n \in Names : UploadStarts(u, n)
                                  \/ \E m \in Methods : AddTask(u, m)
        PROVE  Inv'
    BY <2>1, <2>k DEF UploadStarts, AddTask, web
  <2>2. ASSUME NEW u \in Uploads, CreateTask(u)
        PROVE  Inv'
    <3> DEFINE e == [q |-> "CreateTask", table |-> name[u], method |-> adding[u]]
    <3>1. e \in Messages /\ e.q # "Report"
      BY <2>2, TypeParts DEF CreateTask, Messages, Named
    <3>2. Send(e) /\ viewer' = viewer /\ dataPath' = dataPath
      BY <2>2 DEF CreateTask, web
    <3> HIDE DEF e
    <3> QED
      BY <2>s, <3>1, <3>2
  <2>3. ASSUME NEW t \in Tasks, Starting(t)
        PROVE  Inv'
    BY <2>3, <2>k DEF Starting, web
  <2>4. ASSUME NEW t \in Tasks, \/ Reset(t) \/ Abandon(t)
                                \/ \E k \in 1 .. MaxStarts : WriteRunning(t, k)
                                \/ \E end \in {"SUCCESS", "FAILURE"}, long \in BOOLEAN : Finish(t, end, long)
        PROVE  Inv'
    <3>1. name[t[1]] \in Names /\ t[2] \in Methods
      BY <2>4, TypeParts, TaskParts DEF Named, Reset, Abandon, WriteRunning, Finish
    <3>2. viewer' = viewer /\ dataPath' = dataPath
      BY <2>4 DEF Reset, Abandon, WriteRunning, Finish, web
    <3>3. ASSUME NEW status \in TaskStates, NEW k \in Times, Send(UpdateTaskStatus(t, status, k))
          PROVE  Inv'
      <4>1. UpdateTaskStatus(t, status, k) \in Messages /\ UpdateTaskStatus(t, status, k).q # "Report"
        BY <3>1 DEF UpdateTaskStatus, Messages
      <4> QED
        BY <2>s, <3>2, <3>3, <4>1
    <3>4. ASSUME NEW status \in TaskStates, NEW end \in EndStates, NEW long \in BOOLEAN,
                 Send(UpdateTask(t, status, end, long))
          PROVE  Inv'
      <4>1. UpdateTask(t, status, end, long) \in Messages /\ UpdateTask(t, status, end, long).q # "Report"
        BY <3>1 DEF UpdateTask, Messages
      <4> QED
        BY <2>s, <3>2, <3>4, <4>1
    <3>5. CASE Reset(t)
      BY <3>3, <3>5, DatabaseAssumption DEF Reset, TaskStates, Times
    <3>6. CASE Abandon(t)
      BY <3>4, <3>6 DEF Abandon, TaskStates, EndStates
    <3>7. ASSUME NEW k \in 1 .. MaxStarts, WriteRunning(t, k)
          PROVE  Inv'
      BY <3>3, <3>7 DEF WriteRunning, TaskStates, Times
    <3>8. ASSUME NEW end \in {"SUCCESS", "FAILURE"}, NEW long \in BOOLEAN, Finish(t, end, long)
          PROVE  Inv'
      BY <3>4, <3>8 DEF Finish, TaskStates, EndStates
    <3> QED
      BY <2>4, <3>5, <3>6, <3>7, <3>8
  <2>5. CASE PerformCreateTask \/ PerformUpdateTaskStatus \/ PerformUpdateTask \/ CouldNotConnect
    BY <2>5, <2>t DEF PerformCreateTask, PerformUpdateTaskStatus, PerformUpdateTask, CouldNotConnect, Performs, web
  <2>6. CASE PerformReport
    <3>1. /\ mail # <<>> /\ mail' = Tail(mail) /\ dataPath' = dataPath /\ Query.q = "Report"
          /\ Query = Head(mail)
      BY <2>6 DEF PerformReport, Performs, Query
    <3>2. Pending' \subseteq Pending /\ Query \in Pending /\ Query \in Messages
      BY <2>m, <3>1, HandledTakes
    <3>3. CASE viewer' = viewer
      BY <3>1, <3>2, <3>3, PageUntouched
    <3>4. CASE viewer' # viewer
      <4>1. Query.viewer = w
        BY <3>1, <3>2, MessageParts
      <4>2. /\ viewer[w].state = "waiting" /\ viewer[w].asks = Query.ask
            /\ viewer' = [viewer EXCEPT ![w].state = "answered", ![w].answer = DBGenerateJsonReport(Query.table)]
        BY <2>6, <3>4, <4>1 DEF PerformReport
      <4>3. Query.table = viewer[w].asked
        BY <3>1, <3>2, <4>1, <4>2 DEF RequestsInv
      <4>4. DBGenerateJsonReport(Query.table) # None => DBGenerateJsonReport(Query.table).table = Query.table
        BY DEF DBGenerateJsonReport
      <4>5. /\ viewer'[w].state = "answered" /\ viewer'[w].asks = viewer[w].asks
            /\ viewer'[w].asked = viewer[w].asked /\ viewer'[w].answer = DBGenerateJsonReport(Query.table)
        BY <2>v, <2>w, <4>2 DEF Viewer
      <4>6. AnswersInv(w)'
        BY <4>3, <4>4, <4>5 DEF AnswersInv
      <4>7. RequestsInv(w)'
        BY <3>2, <4>5 DEF RequestsInv
      <4> QED
        BY <4>6, <4>7
    <3> QED
      BY <3>3, <3>4
  <2>7. ASSUME NEW n \in Names, ReportAsked(w, n)
        PROVE  Inv'
    <3> DEFINE e == [q |-> "Report", table |-> n, viewer |-> w, ask |-> viewer[w].asks + 1]
    <3>1. e \in Messages /\ e.table = n /\ e.ask = viewer[w].asks + 1
      BY <2>7, <2>v, <2>w, DatabaseAssumption DEF ReportAsked, Viewer, Messages
    <3>2. Send(e)
      BY <2>7 DEF ReportAsked
    <3> HIDE DEF e
    <3>3. \A m \in Pending' : m \in Pending \/ m = e
      BY <2>m, <3>1, <3>2, SendAdds
    <3>4. viewer'[w].state = "waiting" /\ viewer'[w].asks = viewer[w].asks + 1 /\ viewer'[w].asked = n
      BY <2>7, <2>v, <2>w DEF ReportAsked
    <3>5. \A m \in Pending : m.q = "Report" /\ m.viewer = w => m \in Messages /\ m.ask \in Nat /\ m.ask <= viewer[w].asks
      <4>1. \A m \in Pending : m \in Messages
        BY <2>m DEF Pending
      <4>2. \A m \in Messages : m.q = "Report" => m.ask \in Nat
        BY MessageParts, DatabaseAssumption
      <4> QED
        BY <4>1, <4>2 DEF RequestsInv
    <3>6. ASSUME NEW m \in Pending', m.q = "Report", m.viewer = w
          PROVE  m.ask <= viewer'[w].asks /\ (m.ask = viewer'[w].asks => m.table = viewer'[w].asked)
      BY <2>v, <3>1, <3>3, <3>4, <3>5, <3>6
    <3>7. RequestsInv(w)'
      BY <3>6 DEF RequestsInv
    <3>8. AnswersInv(w)'
      BY <3>4 DEF AnswersInv
    <3> QED
      BY <3>7, <3>8
  <2>8. ASSUME mail' = mail, viewer'[w].asks = viewer[w].asks, viewer'[w].state # "waiting"
        PROVE  RequestsInv(w)'
    BY <2>8 DEF RequestsInv, Pending
  <2>9. CASE ReportAnswered(w)
    <3>1. /\ mail' = mail /\ viewer'[w].asks = viewer[w].asks /\ viewer'[w].state = "page"
          /\ viewer'[w].asked = viewer[w].asked /\ dataPath' = viewer[w].answer
      BY <2>9, <2>v, <2>w DEF ReportAnswered, Viewer
    <3>2. AnswersInv(w)'
      BY <2>9, <3>1 DEF AnswersInv, ReportAnswered
    <3> QED
      BY <2>8, <3>1, <3>2
  <2>10. CASE ReportTimesOut(w)
    <3>1. mail' = mail /\ viewer'[w].asks = viewer[w].asks /\ viewer'[w].state = "idle"
      BY <2>10, <2>v, <2>w DEF ReportTimesOut, Viewer
    <3>2. AnswersInv(w)'
      BY <3>1 DEF AnswersInv
    <3> QED
      BY <2>8, <3>1, <3>2
  <2>11. CASE DataLoaded(w)
    <3>1. /\ mail' = mail /\ viewer'[w].asks = viewer[w].asks /\ viewer'[w].state = "data"
          /\ viewer'[w].asked = viewer[w].asked /\ viewer'[w].answer = dataPath
      BY <2>11, <2>v, <2>w DEF DataLoaded, Viewer
    <3>2. AnswersInv(w)'
      BY <2>11, <3>1 DEF AnswersInv, DataLoaded
    <3> QED
      BY <2>8, <3>1, <3>2
  <2>12. CASE UNCHANGED vars
    BY <2>12, <2>k DEF vars, web
  <2>13. CASE Next
    <3>1. ASSUME NEW v \in Viewers, \/ \E n \in Names : ReportAsked(v, n)
                                    \/ ReportAnswered(v) \/ ReportTimesOut(v) \/ DataLoaded(v)
          PROVE  Inv'
      <4>1. v = w
        OBVIOUS
      <4> HIDE DEF Inv
      <4> QED
        BY <2>7, <2>9, <2>10, <2>11, <3>1, <4>1
    <3> HIDE DEF Inv
    <3> QED
      BY <2>1, <2>2, <2>3, <2>4, <2>5, <2>6, <2>13, <3>1, Zenon DEF Next
  <2> QED
    BY <2>12, <2>13
<1>3. Inv => PageShowsItsReport
  BY DEF AnswersInv, PageShowsItsReport
<1> HIDE DEF Inv
<1> QED
  BY <1>1, <1>2, <1>3, TypeCorrect, PTL DEF Spec

-----------------------------------------------------------------------------
(* Rows match tasks *)

\* The last message of s that is in B, or one after it, is in A.
LastIn(s, A, B) == \E i \in DOMAIN s : s[i] \in A /\ \A j \in DOMAIN s : j > i => s[j] \notin B
NoneIn(s, B) == \A i \in DOMAIN s : s[i] \notin B

\* The messages that change row r, those of an end, of a start, and of start k.
Updates(r) == {m \in Messages : /\ m.q \in {"UpdateTaskStatus", "UpdateTask"}
                                /\ <<m.table, m.method>> = r}
Ends(r) == {m \in Updates(r) : m.q = "UpdateTask"}
Runs(r) == {m \in Updates(r) : m.q = "UpdateTaskStatus" /\ m.status = "RUNNING"}
RunsOf(r, k) == {m \in Runs(r) : m.start = k}

EndLost(r) == <<r, "UpdateTask">> \in past.lost
StatusLost(r) == <<r, "UpdateTaskStatus">> \in past.lost

\* The end of a task waits for DBActor or is in the row.
EndKept(r) ==
  ~EndLost(r) /\ (\E t \in TasksOf(r) : task[t].state = "over") =>
    LastIn(mail, Ends(r), {}) \/ (row[r] # None /\ row[r].end # None)

\* All tasks of a row have ended, and no end of them was lost or came before RUNNING.
AllEnded(r) ==
  /\ TasksOf(r) # {} /\ \A t \in TasksOf(r) : task[t].state = "over"
  /\ ~EndLost(r) /\ r \notin past.late

\* Then the last that is written to the row is an end.
LastKept(r) ==
  AllEnded(r) =>
    \/ LastIn(mail, Ends(r), Updates(r))
    \/ /\ NoneIn(mail, Updates(r)) /\ row[r] # None
       /\ row[r].end # None /\ row[r].status = Shown(row[r].end)

\* A task that has its row for itself, and whose last start is written or about to be
StartTold(r, t) ==
  /\ TasksOf(r) = {t} /\ task[t].state \in {"running", "over"} /\ task[t].end # "ABANDONED"
  /\ task[t].start \notin task[t].callbacks
  /\ r \notin past.late /\ ~EndLost(r) /\ ~StatusLost(r)

\* The last start is the last that is written, and an end after it measures it.
StartKept(r) ==
  \A t \in Tasks : StartTold(r, t) =>
    /\ \/ LastIn(mail, RunsOf(r, task[t].start), Runs(r))
       \/ NoneIn(mail, Runs(r)) /\ row[r] # None /\ row[r].started = task[t].start
    /\ task[t].state = "over" =>
         LastIn(mail, Ends(r), {}) \/ (row[r] # None /\ row[r].spent = task[t].start)

Kept(r) == EndKept(r) /\ LastKept(r) /\ StartKept(r)

RowsInv == \A r \in Rows : Kept(r)

(* What is last in a mailbox when a message is added *)
LEMMA LastAppend ==
  ASSUME NEW s \in Seq(Messages), NEW e \in Messages, NEW A, NEW B
  PROVE  /\ e \in A => LastIn(Append(s, e), A, B)
         /\ e \notin B /\ LastIn(s, A, B) => LastIn(Append(s, e), A, B)
         /\ e \notin B /\ NoneIn(s, B) => NoneIn(Append(s, e), B)
<1>1. PICK z : z = Append(s, e)
  OBVIOUS
<1>2. /\ z \in Seq(Messages) /\ Len(z) = Len(s) + 1
      /\ \A i \in 1 .. Len(s) : z[i] = s[i]
      /\ z[Len(s) + 1] = e
  BY <1>1, AppendProperties
<1>3. DOMAIN s = 1 .. Len(s) /\ DOMAIN z = 1 .. Len(s) + 1 /\ Len(s) \in Nat
  BY <1>2
<1>4. \A i \in DOMAIN z : i \in DOMAIN s \/ i = Len(s) + 1
  BY <1>3
<1>5. ASSUME e \in A
      PROVE  LastIn(z, A, B)
  <2>1. Len(s) + 1 \in DOMAIN z /\ z[Len(s) + 1] \in A /\ \A j \in DOMAIN z : ~(j > Len(s) + 1)
    BY <1>2, <1>3, <1>5
  <2> QED
    BY <2>1 DEF LastIn
<1>6. ASSUME e \notin B, LastIn(s, A, B)
      PROVE  LastIn(z, A, B)
  <2>1. PICK i \in DOMAIN s : s[i] \in A /\ \A j \in DOMAIN s : j > i => s[j] \notin B
    BY <1>6 DEF LastIn
  <2>2. i \in DOMAIN z /\ z[i] \in A
    BY <1>2, <1>3, <2>1
  <2>3. \A j \in DOMAIN z : j > i => z[j] \notin B
    BY <1>2, <1>3, <1>4, <1>6, <2>1
  <2> QED
    BY <2>2, <2>3 DEF LastIn
<1>7. ASSUME e \notin B, NoneIn(s, B)
      PROVE  NoneIn(z, B)
  BY <1>2, <1>3, <1>4, <1>7 DEF NoneIn
<1> QED
  BY <1>1, <1>5, <1>6, <1>7

(* What is last in a mailbox when the first message is taken *)
LEMMA LastTail ==
  ASSUME NEW s \in Seq(Messages), s # <<>>, NEW A, NEW B
  PROVE  /\ LastIn(s, A, B) => LastIn(Tail(s), A, B) \/ (Head(s) \in A /\ NoneIn(Tail(s), B))
         /\ NoneIn(s, B) => NoneIn(Tail(s), B) /\ Head(s) \notin B
<1>1. PICK z : z = Tail(s)
  OBVIOUS
<1>2. /\ z \in Seq(Messages) /\ Len(z) = Len(s) - 1
      /\ \A i \in 1 .. Len(z) : z[i] = s[i + 1]
  BY <1>1, HeadTailProperties, Zenon
<1>3. DOMAIN s = 1 .. Len(s) /\ DOMAIN z = 1 .. Len(z) /\ Len(s) \in Nat /\ Len(s) # 0 /\ Head(s) = s[1]
  BY <1>2, EmptySeq
<1>4. \A j \in DOMAIN z : j + 1 \in DOMAIN s /\ z[j] = s[j + 1]
  BY <1>2, <1>3
<1>5. ASSUME LastIn(s, A, B)
      PROVE  LastIn(z, A, B) \/ (Head(s) \in A /\ NoneIn(z, B))
  <2>1. PICK i \in DOMAIN s : s[i] \in A /\ \A j \in DOMAIN s : j > i => s[j] \notin B
    BY <1>5 DEF LastIn
  <2>2. \A j \in DOMAIN z : j + 1 > i => z[j] \notin B
    BY <1>4, <2>1
  <2>3. CASE i = 1
    <3>1. \A j \in DOMAIN z : j + 1 > i
      BY <1>3, <2>3
    <3> QED
      BY <1>3, <2>1, <2>2, <2>3, <3>1 DEF NoneIn
  <2>4. CASE i # 1
    <3>1. i - 1 \in DOMAIN z /\ z[i - 1] = s[i]
      BY <1>2, <1>3, <1>4, <2>1, <2>4
    <3>2. \A j \in DOMAIN z : j > i - 1 => j + 1 > i
      BY <1>3, <2>1
    <3> QED
      BY <2>1, <2>2, <3>1, <3>2 DEF LastIn
  <2> QED
    BY <2>3, <2>4
<1>6. ASSUME NoneIn(s, B)
      PROVE  NoneIn(z, B) /\ Head(s) \notin B
  BY <1>3, <1>4, <1>6 DEF NoneIn
<1> QED
  BY <1>1, <1>5, <1>6

\* No message that changes row r comes or goes.
WordsStay(r) ==
  \A A, B \in SUBSET Updates(r) : /\ LastIn(mail, A, B) => LastIn(mail', A, B)
                                  /\ NoneIn(mail, B) => NoneIn(mail', B)

\* What was lost or late stays so.
PastStays(r) ==
  /\ r \in past.late => r \in past'.late
  /\ EndLost(r) => EndLost(r)'
  /\ StatusLost(r) => StatusLost(r)'

(* Messages that say nothing of a row come and go without effect on it. *)
LEMMA WordsOfOthers ==
  ASSUME mail \in Seq(Messages), NEW r,
         \/ mail' = mail
         \/ \E e \in Messages : e \notin Updates(r) /\ Send(e)
         \/ mail # <<>> /\ mail' = Tail(mail) /\ Head(mail) \notin Updates(r)
  PROVE  WordsStay(r)
<1>1. PICK s \in Seq(Messages) : s = mail
  OBVIOUS
<1> SUFFICES ASSUME NEW A \in SUBSET Updates(r), NEW B \in SUBSET Updates(r)
             PROVE  /\ LastIn(mail, A, B) => LastIn(mail', A, B)
                    /\ NoneIn(mail, B) => NoneIn(mail', B)
  BY DEF WordsStay
<1>2. CASE mail' = mail
  BY <1>2
<1>3. ASSUME NEW e \in Messages, e \notin Updates(r), Send(e)
      PROVE  /\ LastIn(mail, A, B) => LastIn(mail', A, B)
             /\ NoneIn(mail, B) => NoneIn(mail', B)
  <2>1. mail' = Append(s, e) /\ e \notin B
    BY <1>1, <1>3 DEF Send
  <2> QED
    BY <1>1, <2>1, LastAppend
<1>4. CASE mail # <<>> /\ mail' = Tail(mail) /\ Head(mail) \notin Updates(r)
  BY <1>1, <1>4, LastTail
<1> QED
  BY <1>2, <1>3, <1>4

(* A step that changes neither a row, nor its tasks or messages, keeps all  *)
(* that is said of it.                                                      *)
LEMMA OthersKeep ==
  ASSUME TypeInv, NEW r \in Rows, Kept(r), WordsStay(r), PastStays(r), row'[r] = row[r],
         TasksOf(r)' = TasksOf(r), \A t \in TasksOf(r) : task'[t] = task[t]
  PROVE  Kept(r)'
<1>1. Ends(r) \in SUBSET Updates(r) /\ Runs(r) \in SUBSET Updates(r) /\ {} \in SUBSET Updates(r)
      /\ Updates(r) \in SUBSET Updates(r) /\ \A k : RunsOf(r, k) \in SUBSET Updates(r)
  BY DEF Ends, Runs, RunsOf
<1>2. LastIn(mail, Ends(r), {}) => LastIn(mail', Ends(r), {})
  BY <1>1 DEF WordsStay
<1>3. /\ LastIn(mail, Ends(r), Updates(r)) => LastIn(mail', Ends(r), Updates(r))
      /\ NoneIn(mail, Updates(r)) => NoneIn(mail', Updates(r))
  BY <1>1 DEF WordsStay
<1>4. ASSUME NEW k
      PROVE  /\ LastIn(mail, RunsOf(r, k), Runs(r)) => LastIn(mail', RunsOf(r, k), Runs(r))
             /\ NoneIn(mail, Runs(r)) => NoneIn(mail', Runs(r))
  BY <1>1 DEF WordsStay
<1>5. EndKept(r)'
  BY <1>2 DEF Kept, EndKept, PastStays
<1>6. LastKept(r)'
  <2>1. AllEnded(r)' => AllEnded(r)
    BY DEF AllEnded, PastStays
  <2> QED
    BY <1>3, <2>1 DEF Kept, LastKept
<1>7. ASSUME NEW t \in Tasks, StartTold(r, t)'
      PROVE  /\ \/ LastIn(mail', RunsOf(r, task'[t].start), Runs(r))
                \/ NoneIn(mail', Runs(r)) /\ row'[r] # None /\ row'[r].started = task'[t].start
             /\ task'[t].state = "over" =>
                  LastIn(mail', Ends(r), {}) \/ (row'[r] # None /\ row'[r].spent = task'[t].start)
  <2>1. TasksOf(r) = {t} /\ task'[t] = task[t]
    BY <1>7 DEF StartTold
  <2>2. StartTold(r, t)
    BY <1>7, <2>1 DEF StartTold, PastStays
  <2>3. PICK k : k = task[t].start
    OBVIOUS
  <2>4. /\ \/ LastIn(mail, RunsOf(r, k), Runs(r))
           \/ NoneIn(mail, Runs(r)) /\ row[r] # None /\ row[r].started = k
        /\ task[t].state = "over" => LastIn(mail, Ends(r), {}) \/ (row[r] # None /\ row[r].spent = k)
    BY <2>2, <2>3 DEF Kept, StartKept
  <2>5. /\ \/ LastIn(mail', RunsOf(r, k), Runs(r))
           \/ NoneIn(mail', Runs(r)) /\ row[r] # None /\ row[r].started = k
        /\ task[t].state = "over" => LastIn(mail', Ends(r), {}) \/ (row[r] # None /\ row[r].spent = k)
    BY <1>2, <1>4, <2>4
  <2> QED
    BY <2>1, <2>3, <2>5
<1>8. StartKept(r)'
  BY <1>7 DEF StartKept
<1> QED
  BY <1>5, <1>6, <1>8 DEF Kept

(* When a task of a row has not ended, and has not told its last start,     *)
(* only the ends of other tasks are still spoken of.                        *)
LEMMA OpenTaskKeeps ==
  ASSUME TypeInv, NEW r \in Rows, Kept(r), PastStays(r), row'[r] = row[r],
         LastIn(mail, Ends(r), {}) => LastIn(mail', Ends(r), {}),
         NEW t \in TasksOf(r)', task'[t].state # "over", ~StartTold(r, t)',
         \A x \in TasksOf(r)' : x # t => x \in TasksOf(r) /\ task'[x] = task[x]
  PROVE  Kept(r)'
<1>1. EndKept(r)'
  <2> SUFFICES ASSUME ~EndLost(r)', NEW x \in TasksOf(r)', task'[x].state = "over"
               PROVE  LastIn(mail', Ends(r), {}) \/ (row'[r] # None /\ row'[r].end # None)
    BY DEF EndKept
  <2>1. x \in TasksOf(r) /\ task[x].state = "over" /\ ~EndLost(r)
    BY DEF PastStays
  <2> QED
    BY <2>1 DEF Kept, EndKept
<1>2. LastKept(r)'
  BY DEF LastKept, AllEnded
<1>3. \A x \in Tasks : ~StartTold(r, x)'
  BY DEF StartTold
<1>4. StartKept(r)'
  BY <1>3 DEF StartKept
<1> QED
  BY <1>1, <1>2, <1>4 DEF Kept

(* The steps of an upload *)
LEMMA UploadKeeps ==
  ASSUME TypeInv, NEW r \in Rows, Kept(r), NEW u \in Uploads,
         \/ \E n \in Names : UploadStarts(u, n)
         \/ \E m \in Methods : AddTask(u, m)
         \/ CreateTask(u)
  PROVE  Kept(r)'
<1>t. /\ name \in [Uploads -> Names \cup {None}] /\ adding \in [Uploads -> Methods \cup {None}]
      /\ task \in [Tasks -> Actor] /\ mail \in Seq(Messages) /\ Named
  BY TypeParts
<1>u. \A t \in Tasks : t[1] \in Uploads
  BY TaskParts
<1>1. ASSUME NEW n \in Names, UploadStarts(u, n)
      PROVE  Kept(r)'
  <2>1. WordsStay(r) /\ PastStays(r) /\ row'[r] = row[r] /\ task' = task
    BY <1>1, <1>t, WordsOfOthers DEF UploadStarts, PastStays, EndLost, StatusLost
  <2>2. \A x \in Tasks : task[x].state # "none" => name'[x[1]] = name[x[1]]
    BY <1>1, <1>t, <1>u, DatabaseAssumption DEF UploadStarts, Named
  <2>3. TasksOf(r)' = TasksOf(r)
    BY <2>1, <2>2 DEF TasksOf
  <2> QED
    BY <2>1, <2>3, OthersKeep
<1>2. ASSUME NEW m \in Methods, AddTask(u, m)
      PROVE  Kept(r)'
  <2>1. WordsStay(r) /\ PastStays(r) /\ row'[r] = row[r] /\ name' = name /\ mail' = mail
    BY <1>2, <1>t, WordsOfOthers DEF AddTask, PastStays, EndLost, StatusLost
  <2>2. PICK t \in Tasks : t = <<u, m>>
    BY DEF Tasks
  <2>3. task[t].state = "none" /\ task'[t].state = "free" /\ \A x \in Tasks : x # t => task'[x] = task[x]
    BY <1>2, <1>t, <2>2 DEF AddTask, Actor
  <2>4. CASE t \in TasksOf(r)'
    <3>1. \A x \in TasksOf(r)' : x # t => x \in TasksOf(r) /\ task'[x] = task[x]
      BY <2>1, <2>3 DEF TasksOf
    <3>2. ~StartTold(r, t)'
      BY <2>3 DEF StartTold
    <3>3. task'[t].state # "over" /\ (LastIn(mail, Ends(r), {}) => LastIn(mail', Ends(r), {}))
      BY <2>1, <2>3
    <3> QED
      BY <2>1, <2>4, <3>1, <3>2, <3>3, OpenTaskKeeps
  <2>5. CASE t \notin TasksOf(r)'
    <3>1. TasksOf(r)' = TasksOf(r) /\ \A x \in TasksOf(r) : task'[x] = task[x]
      BY <2>1, <2>3, <2>5 DEF TasksOf
    <3> QED
      BY <2>1, <3>1, OthersKeep
  <2> QED
    BY <2>4, <2>5
<1>3. CASE CreateTask(u)
  <2>1. [q |-> "CreateTask", table |-> name[u], method |-> adding[u]] \in Messages
    BY <1>3, <1>t DEF CreateTask, Messages, Named
  <2>2. PICK e \in Messages : e = [q |-> "CreateTask", table |-> name[u], method |-> adding[u]]
    BY <2>1
  <2>3. e \notin Updates(r) /\ Send(e)
    BY <1>3, <2>2 DEF Updates, CreateTask
  <2>4. WordsStay(r)
    BY <1>t, <2>3, WordsOfOthers
  <2>5. PastStays(r) /\ row'[r] = row[r] /\ task' = task /\ name' = name
    BY <1>3 DEF CreateTask, PastStays, EndLost, StatusLost
  <2>6. TasksOf(r)' = TasksOf(r)
    BY <2>5 DEF TasksOf
  <2> QED
    BY <2>4, <2>5, <2>6, OthersKeep
<1> QED
  BY <1>1, <1>2, <1>3

(* The users of the reports *)
LEMMA WebKeeps ==
  ASSUME TypeInv, NEW r \in Rows, Kept(r), NEW v \in Viewers,
         \/ \E n \in Names : ReportAsked(v, n)
         \/ ReportAnswered(v) \/ ReportTimesOut(v) \/ DataLoaded(v)
  PROVE  Kept(r)'
<1>m. mail \in Seq(Messages)
  BY TypeParts
<1>1. PastStays(r) /\ row'[r] = row[r] /\ task' = task /\ name' = name
  BY DEF ReportAsked, ReportAnswered, ReportTimesOut, DataLoaded, PastStays, EndLost, StatusLost, uploads
<1>2. TasksOf(r)' = TasksOf(r)
  BY <1>1 DEF TasksOf
<1>3. ASSUME NEW n \in Names, ReportAsked(v, n)
      PROVE  WordsStay(r)
  <2>1. viewer[v].asks + 1 \in 1 .. MaxAsks
    BY <1>3, TypeParts, DatabaseAssumption DEF ReportAsked, Viewer
  <2>2. [q |-> "Report", table |-> n, viewer |-> v, ask |-> viewer[v].asks + 1] \in Messages
    BY <2>1 DEF Messages
  <2>3. PICK e \in Messages : e = [q |-> "Report", table |-> n, viewer |-> v, ask |-> viewer[v].asks + 1]
    BY <2>2
  <2>4. e \notin Updates(r) /\ Send(e)
    BY <1>3, <2>3 DEF Updates, ReportAsked
  <2> QED
    BY <1>m, <2>4, WordsOfOthers
<1>4. ASSUME ReportAnswered(v) \/ ReportTimesOut(v) \/ DataLoaded(v)
      PROVE  WordsStay(r)
  BY <1>4, <1>m, WordsOfOthers DEF ReportAnswered, ReportTimesOut, DataLoaded
<1>5. WordsStay(r)
  BY <1>3, <1>4
<1> QED
  BY <1>1, <1>2, <1>5, OthersKeep

(* The messages of a task are about its row. *)
LEMMA TaskMessages ==
  ASSUME NEW t \in Tasks, name[t[1]] \in Names, NEW r \in Rows
  PROVE  /\ Row(t) \in Rows /\ (t \in TasksOf(r) => r = Row(t))
         /\ (r = Row(t) /\ task[t].state # "none" => t \in TasksOf(r))
         /\ \A k \in Times :
              /\ UpdateTaskStatus(t, "RUNNING", k) \in Messages
              /\ r # Row(t) => UpdateTaskStatus(t, "RUNNING", k) \notin Updates(r)
              /\ r = Row(t) => UpdateTaskStatus(t, "RUNNING", k) \in RunsOf(r, k)
              /\ UpdateTaskStatus(t, "NOT_STARTED", k) \in Messages
              /\ r # Row(t) => UpdateTaskStatus(t, "NOT_STARTED", k) \notin Updates(r)
         /\ \A status \in TaskStates, end \in EndStates, long \in BOOLEAN :
              /\ UpdateTask(t, status, end, long) \in Messages
              /\ r # Row(t) => UpdateTask(t, status, end, long) \notin Updates(r)
              /\ r = Row(t) => UpdateTask(t, status, end, long) \in Ends(r)
<1>1. t[1] \in Uploads /\ t[2] \in Methods
  BY TaskParts
<1>2. Row(t) \in Rows /\ Row(t) = <<name[t[1]], t[2]>> /\ r = <<r[1], r[2]>>
  BY <1>1 DEF Rows, Row
<1>3. t \in TasksOf(r) => r = Row(t)
  BY <1>2 DEF TasksOf
<1>4. r = Row(t) /\ task[t].state # "none" => t \in TasksOf(r)
  BY <1>2 DEF TasksOf
<1>5. ASSUME NEW k \in Times, NEW status \in {"RUNNING", "NOT_STARTED"}, NEW e, e = UpdateTaskStatus(t, status, k)
      PROVE  /\ e \in Messages /\ (r # Row(t) => e \notin Updates(r))
             /\ r = Row(t) /\ status = "RUNNING" => e \in RunsOf(r, k)
  <2>1. e \in Messages
    BY <1>1, <1>5 DEF UpdateTaskStatus, Messages, TaskStates
  <2>2. e.q = "UpdateTaskStatus" /\ e.status = status /\ e.start = k /\ <<e.table, e.method>> = Row(t)
    BY <1>5 DEF UpdateTaskStatus, Row
  <2> QED
    BY <2>1, <2>2 DEF Updates, Runs, RunsOf
<1>6. ASSUME NEW status \in TaskStates, NEW end \in EndStates, NEW long \in BOOLEAN,
             NEW e, e = UpdateTask(t, status, end, long)
      PROVE  /\ e \in Messages /\ (r # Row(t) => e \notin Updates(r))
             /\ r = Row(t) => e \in Ends(r)
  <2>1. e \in Messages
    BY <1>1, <1>6 DEF UpdateTask, Messages
  <2>2. e.q = "UpdateTask" /\ <<e.table, e.method>> = Row(t)
    BY <1>6 DEF UpdateTask, Row
  <2> QED
    BY <2>1, <2>2 DEF Updates, Ends
<1> QED
  BY <1>2, <1>3, <1>4, <1>5, <1>6

(* A message about a row stands at the end of the mailbox. *)
LEMMA WordSent ==
  ASSUME mail \in Seq(Messages), NEW e \in Messages, Send(e), NEW r
  PROVE  /\ LastIn(mail, Ends(r), {}) => LastIn(mail', Ends(r), {})
         /\ e \in Ends(r) => LastIn(mail', Ends(r), {}) /\ LastIn(mail', Ends(r), Updates(r))
         /\ e \notin Runs(r) /\ NoneIn(mail, Runs(r)) => NoneIn(mail', Runs(r))
         /\ \A k : /\ e \in RunsOf(r, k) => LastIn(mail', RunsOf(r, k), Runs(r))
                   /\ e \notin Runs(r) /\ LastIn(mail, RunsOf(r, k), Runs(r))
                        => LastIn(mail', RunsOf(r, k), Runs(r))
<1>1. PICK s \in Seq(Messages) : s = mail
  OBVIOUS
<1>2. mail' = Append(s, e)
  BY <1>1 DEF Send
<1>3. /\ LastIn(s, Ends(r), {}) => LastIn(mail', Ends(r), {})
      /\ e \in Ends(r) => LastIn(mail', Ends(r), {}) /\ LastIn(mail', Ends(r), Updates(r))
      /\ e \notin Runs(r) /\ NoneIn(s, Runs(r)) => NoneIn(mail', Runs(r))
  BY <1>2, LastAppend
<1>4. \A k : /\ e \in RunsOf(r, k) => LastIn(mail', RunsOf(r, k), Runs(r))
             /\ e \notin Runs(r) /\ LastIn(s, RunsOf(r, k), Runs(r))
                  => LastIn(mail', RunsOf(r, k), Runs(r))
  BY <1>2, LastAppend
<1> QED
  BY <1>1, <1>3, <1>4

(* A step of a task leaves the other rows alone. *)
LEMMA OtherRowsKeep ==
  ASSUME TypeInv, NEW r \in Rows, Kept(r), NEW t \in Tasks, WordsStay(r), PastStays(r), row' = row, name' = name,
         t \notin TasksOf(r), t \notin TasksOf(r)', \A x \in Tasks : x # t => task'[x] = task[x]
  PROVE  Kept(r)'
<1>1. TasksOf(r)' = TasksOf(r) /\ \A x \in TasksOf(r) : task'[x] = task[x]
  BY DEF TasksOf
<1> QED
  BY <1>1, OthersKeep

(* A task starts, or is free again. *)
LEMMA StartKeeps ==
  ASSUME TypeInv, NEW r \in Rows, Kept(r), NEW t \in Tasks, Starting(t) \/ Reset(t)
  PROVE  Kept(r)'
<1>t. task \in [Tasks -> Actor] /\ mail \in Seq(Messages) /\ Named /\ past \in Past
  BY TypeParts
<1>1. name[t[1]] \in Names /\ task[t].state # "none"
  BY <1>t DEF Starting, Reset, Named
<1>2. PastStays(r) /\ row' = row /\ name' = name /\ \A x \in Tasks : x # t => task'[x] = task[x]
  BY <1>t DEF Starting, Reset, PastStays, EndLost, StatusLost, uploads, Past
<1>3. /\ task'[t].state \in {"free", "running"} /\ task'[t].state # "none"
      /\ task'[t].state = "running" => task'[t].start \in task'[t].callbacks
  BY <1>t DEF Starting, Reset, Actor
<1>4. 0 \in Times
  BY DatabaseAssumption DEF Times
<1>5. CASE r = Row(t)
  <2>1. t \in TasksOf(r)'
    BY <1>1, <1>2, <1>3, <1>5, TaskMessages DEF TasksOf
  <2>2. LastIn(mail, Ends(r), {}) => LastIn(mail', Ends(r), {})
    <3>1. CASE Starting(t)
      BY <3>1 DEF Starting
    <3>2. CASE Reset(t)
      <4>1. PICK e \in Messages : e = UpdateTaskStatus(t, "NOT_STARTED", 0)
        BY <1>1, <1>4, TaskMessages
      <4>2. Send(e)
        BY <3>2, <4>1 DEF Reset
      <4> QED
        BY <1>t, <4>2, WordSent
    <3> QED
      BY <3>1, <3>2
  <2>3. task'[t].state # "over" /\ ~StartTold(r, t)'
    BY <1>3 DEF StartTold
  <2>4. \A x \in TasksOf(r)' : x # t => x \in TasksOf(r) /\ task'[x] = task[x]
    BY <1>2 DEF TasksOf
  <2> QED
    BY <1>2, <2>1, <2>2, <2>3, <2>4, OpenTaskKeeps
<1>6. CASE r # Row(t)
  <2>1. t \notin TasksOf(r) /\ t \notin TasksOf(r)'
    BY <1>1, <1>2, <1>6, TaskMessages DEF TasksOf
  <2>2. WordsStay(r)
    <3>1. CASE Starting(t)
      BY <1>t, <3>1, WordsOfOthers DEF Starting
    <3>2. CASE Reset(t)
      <4>1. PICK e \in Messages : e = UpdateTaskStatus(t, "NOT_STARTED", 0)
        BY <1>1, <1>4, TaskMessages
      <4>2. Send(e) /\ e \notin Updates(r)
        BY <1>1, <1>4, <1>6, <3>2, <4>1, TaskMessages DEF Reset
      <4> QED
        BY <1>t, <4>2, WordsOfOthers
    <3> QED
      BY <3>1, <3>2
  <2> QED
    BY <1>2, <2>1, <2>2, OtherRowsKeep
<1> QED
  BY <1>5, <1>6

(* A callback reports a start, in time or too late. *)
LEMMA RunningKeeps ==
  ASSUME TypeInv, NEW r \in Rows, Kept(r), NEW t \in Tasks, NEW k \in 1 .. MaxStarts, WriteRunning(t, k)
  PROVE  Kept(r)'
<1>t. task \in [Tasks -> Actor] /\ mail \in Seq(Messages) /\ Named /\ past \in Past
  BY TypeParts
<1>1. name[t[1]] \in Names /\ k \in Times
  BY <1>t DEF WriteRunning, Named, Times
<1>2. /\ PastStays(r) /\ row' = row /\ name' = name
      /\ \A x \in Tasks : x # t => task'[x] = task[x]
      /\ task'[t].state = task[t].state /\ task'[t].end = task[t].end /\ task'[t].start = task[t].start
  BY <1>t DEF WriteRunning, PastStays, EndLost, StatusLost, uploads, Past, Actor
<1>3. TasksOf(r)' = TasksOf(r) /\ \A x \in TasksOf(r) : task'[x].state = task[x].state
  BY <1>2 DEF TasksOf
<1>4. PICK e \in Messages : e = UpdateTaskStatus(t, "RUNNING", k)
  BY <1>1, TaskMessages
<1>5. Send(e)
  BY <1>4 DEF WriteRunning
<1>6. CASE r = Row(t)
  <2>1. e \in RunsOf(r, k)
    BY <1>1, <1>4, <1>6, TaskMessages
  <2>2. LastIn(mail, Ends(r), {}) => LastIn(mail', Ends(r), {})
    BY <1>t, <1>5, WordSent
  <2>3. EndKept(r)'
    BY <1>2, <1>3, <2>2 DEF Kept, EndKept, PastStays
  <2>4. CASE r \in past'.late
    BY <2>3, <2>4 DEF Kept, LastKept, AllEnded, StartKept, StartTold
  <2>5. CASE r \notin past'.late
    <3>1. task[t].state = "running" /\ k = task[t].start
      BY <1>6, <1>t, <2>5 DEF WriteRunning, Past
    <3>2. t \in TasksOf(r)'
      BY <1>1, <1>3, <1>6, <3>1, TaskMessages
    <3>3. LastIn(mail', RunsOf(r, k), Runs(r))
      BY <1>t, <1>5, <2>1, WordSent
    <3>4. LastKept(r)'
      BY <1>2, <3>1, <3>2 DEF LastKept, AllEnded
    <3>5. \A x \in Tasks : StartTold(r, x)' => x = t
      BY <3>2 DEF StartTold
    <3>6. StartKept(r)'
      BY <1>2, <3>1, <3>3, <3>5 DEF StartKept
    <3> QED
      BY <2>3, <3>4, <3>6 DEF Kept
  <2> QED
    BY <2>4, <2>5
<1>7. CASE r # Row(t)
  <2>1. t \notin TasksOf(r) /\ t \notin TasksOf(r)'
    BY <1>1, <1>3, <1>7, TaskMessages
  <2>2. e \notin Updates(r)
    BY <1>1, <1>4, <1>7, TaskMessages
  <2>3. WordsStay(r)
    BY <1>t, <1>5, <2>2, WordsOfOthers
  <2> QED
    BY <1>2, <2>1, <2>3, OtherRowsKeep
<1> QED
  BY <1>6, <1>7

(* A task ends. *)
LEMMA EndKeeps ==
  ASSUME TypeInv, ResultsInv, NEW r \in Rows, Kept(r), NEW t \in Tasks,
         \/ Abandon(t)
         \/ \E end \in {"SUCCESS", "FAILURE"}, long \in BOOLEAN : Finish(t, end, long)
  PROVE  Kept(r)'
<1>t. task \in [Tasks -> Actor] /\ mail \in Seq(Messages) /\ Named
  BY TypeParts
<1>1. name[t[1]] \in Names /\ task[t].state \in {"free", "running"} /\ task[t].end = None
  BY <1>t DEF Abandon, Finish, Named, ResultsInv, EndsOver
<1>2. PastStays(r) /\ row' = row /\ name' = name /\ \A x \in Tasks : x # t => task'[x] = task[x]
  BY <1>t DEF Abandon, Finish, PastStays, EndLost, StatusLost, uploads
<1>3. /\ task'[t].state = "over" /\ task'[t].start = task[t].start /\ task'[t].callbacks = task[t].callbacks
      /\ task'[t].end # "ABANDONED" => task[t].state = "running"
  <2>1. CASE Abandon(t)
    BY <1>t, <2>1 DEF Abandon, Actor
  <2>2. ASSUME NEW end \in {"SUCCESS", "FAILURE"}, NEW long \in BOOLEAN, Finish(t, end, long)
        PROVE  /\ task'[t].state = "over" /\ task'[t].start = task[t].start
               /\ task'[t].callbacks = task[t].callbacks /\ task[t].state = "running"
    BY <1>t, <2>2 DEF Finish, Actor
  <2> QED
    BY <2>1, <2>2
<1>4. PICK status \in TaskStates, end \in EndStates, long \in BOOLEAN : Send(UpdateTask(t, status, end, long))
  <2>1. {"SUCCESS", "FAILURE", "ABANDONED"} \subseteq EndStates /\ {"DONE", "NOT_STARTED"} \subseteq TaskStates
        /\ FALSE \in BOOLEAN
    BY DEF EndStates, TaskStates
  <2> QED
    BY <2>1 DEF Abandon, Finish
<1>5. PICK e \in Messages : e = UpdateTask(t, status, end, long)
  BY <1>1, TaskMessages
<1>6. Send(e)
  BY <1>4, <1>5
<1>7. CASE r = Row(t)
  <2>1. e \in Ends(r) /\ e \notin Runs(r)
    BY <1>1, <1>5, <1>7, TaskMessages DEF Ends, Runs
  <2>2. LastIn(mail', Ends(r), {}) /\ LastIn(mail', Ends(r), Updates(r))
    BY <1>t, <1>6, <2>1, WordSent
  <2>3. t \in TasksOf(r) /\ TasksOf(r)' = TasksOf(r)
    BY <1>1, <1>2, <1>3, <1>7, TaskMessages DEF TasksOf
  <2>4. EndKept(r)' /\ LastKept(r)'
    BY <2>2 DEF EndKept, LastKept
  <2>5. ASSUME NEW x \in Tasks, StartTold(r, x)'
        PROVE  \/ LastIn(mail', RunsOf(r, task'[x].start), Runs(r))
               \/ NoneIn(mail', Runs(r)) /\ row'[r] # None /\ row'[r].started = task'[x].start
    <3>1. x = t /\ TasksOf(r) = {t}
      BY <2>3, <2>5 DEF StartTold
    <3>2. StartTold(r, t)
      BY <1>1, <1>2, <1>3, <2>5, <3>1, DatabaseAssumption DEF StartTold, PastStays
    <3>3. PICK k : k = task[t].start
      OBVIOUS
    <3>4. \/ LastIn(mail, RunsOf(r, k), Runs(r))
          \/ NoneIn(mail, Runs(r)) /\ row[r] # None /\ row[r].started = k
      BY <3>2, <3>3 DEF Kept, StartKept
    <3>5. \/ LastIn(mail', RunsOf(r, k), Runs(r))
          \/ NoneIn(mail', Runs(r)) /\ row[r] # None /\ row[r].started = k
      BY <1>t, <1>6, <2>1, <3>4, WordSent
    <3> QED
      BY <1>2, <1>3, <3>1, <3>3, <3>5
  <2>6. StartKept(r)'
    BY <2>2, <2>5 DEF StartKept
  <2> QED
    BY <2>4, <2>6 DEF Kept
<1>8. CASE r # Row(t)
  <2>1. t \notin TasksOf(r) /\ t \notin TasksOf(r)'
    BY <1>1, <1>2, <1>8, TaskMessages DEF TasksOf
  <2>2. e \notin Updates(r)
    BY <1>1, <1>5, <1>8, TaskMessages
  <2>3. WordsStay(r)
    BY <1>t, <1>6, <2>2, WordsOfOthers
  <2> QED
    BY <1>2, <2>1, <2>3, OtherRowsKeep
<1> QED
  BY <1>7, <1>8

(* What the statements of DBActor leave in a row *)
LEMMA RowAfterStatus ==
  ASSUME NEW old \in RowData, NEW m \in Messages, m.q = "UpdateTaskStatus", m.status # "DONE",
         NEW new, new = DBUpdateTaskStatus(m, old)
  PROVE  /\ new # None /\ new.end = old.end /\ new.spent = old.spent
         /\ new.started = IF m.status = "RUNNING" THEN m.start ELSE old.started
<1>1. m.status \in TaskStates /\ m.start \in Times
  BY MessageParts
<1>2. PICK x : x = [old EXCEPT !.status = m.status]
  OBVIOUS
<1>3. x \in RowData /\ x.status = m.status /\ x.end = old.end /\ x.spent = old.spent /\ x.started = old.started
  BY <1>1, <1>2 DEF RowData
<1>4. new = IF m.status = "RUNNING" THEN [x EXCEPT !.started = m.start] ELSE x
  BY <1>2, <1>3 DEF DBUpdateTaskStatus, Trigger
<1>5. new \in RowData
  BY <1>1, <1>3, <1>4 DEF RowData
<1> QED
  BY <1>3, <1>4, <1>5, NoneIsNoRow DEF RowData

LEMMA RowAfterEnd ==
  ASSUME NEW old \in RowData, NEW m \in Messages, m.q = "UpdateTask", m.status # "RUNNING",
         NEW new, new = DBUpdateTask(m, old)
  PROVE  /\ new # None /\ new.end = m.end /\ new.status = m.status /\ new.started = old.started
         /\ new.spent = IF m.status = "DONE" THEN old.started ELSE old.spent
<1>1. m.status \in TaskStates /\ m.end \in EndStates
  BY MessageParts
<1>2. PICK x : x = [old EXCEPT !.status = m.status, !.end = m.end]
  OBVIOUS
<1>3. x \in RowData /\ x.status = m.status /\ x.end = m.end /\ x.spent = old.spent /\ x.started = old.started
  BY <1>1, <1>2 DEF RowData
<1>4. new = IF m.status = "DONE" THEN [x EXCEPT !.spent = old.started] ELSE x
  BY <1>2, <1>3 DEF DBUpdateTask, Trigger
<1>5. new \in RowData
  BY <1>3, <1>4 DEF RowData
<1> QED
  BY <1>3, <1>4, <1>5, NoneIsNoRow DEF RowData

(* A message about a row is taken. *)
LEMMA WordTaken ==
  ASSUME mail \in Seq(Messages), mail # <<>>, mail' = Tail(mail), NEW r
  PROVE  /\ LastIn(mail, Ends(r), {}) => LastIn(mail', Ends(r), {}) \/ Query \in Ends(r)
         /\ LastIn(mail, Ends(r), Updates(r)) =>
              \/ LastIn(mail', Ends(r), Updates(r)) /\ LastIn(mail', Ends(r), {})
              \/ Query \in Ends(r) /\ NoneIn(mail', Updates(r)) /\ NoneIn(mail', Runs(r))
         /\ Query \in Updates(r) => ~NoneIn(mail, Updates(r))
         /\ NoneIn(mail, Runs(r)) => NoneIn(mail', Runs(r)) /\ Query \notin Runs(r)
         /\ \A k : LastIn(mail, RunsOf(r, k), Runs(r)) =>
                     \/ LastIn(mail', RunsOf(r, k), Runs(r))
                     \/ Query \in RunsOf(r, k) /\ NoneIn(mail', Runs(r))
<1>1. PICK s \in Seq(Messages) : s = mail
  OBVIOUS
<1>2. s # <<>> /\ Query = Head(s) /\ mail' = Tail(s)
  BY <1>1 DEF Query
<1>3. LastIn(s, Ends(r), {}) => LastIn(Tail(s), Ends(r), {}) \/ Head(s) \in Ends(r)
  BY <1>2, LastTail
<1>4. LastIn(s, Ends(r), Updates(r)) =>
        LastIn(Tail(s), Ends(r), Updates(r)) \/ (Head(s) \in Ends(r) /\ NoneIn(Tail(s), Updates(r)))
  BY <1>2, LastTail
<1>5. LastIn(Tail(s), Ends(r), Updates(r)) => LastIn(Tail(s), Ends(r), {})
  BY DEF LastIn
<1>6. NoneIn(Tail(s), Updates(r)) => NoneIn(Tail(s), Runs(r))
  BY DEF NoneIn, Runs
<1>7. NoneIn(s, Updates(r)) => Head(s) \notin Updates(r)
  BY <1>2, LastTail
<1>8. NoneIn(s, Runs(r)) => NoneIn(Tail(s), Runs(r)) /\ Head(s) \notin Runs(r)
  BY <1>2, LastTail
<1>9. \A k : LastIn(s, RunsOf(r, k), Runs(r)) =>
               LastIn(Tail(s), RunsOf(r, k), Runs(r)) \/ (Head(s) \in RunsOf(r, k) /\ NoneIn(Tail(s), Runs(r)))
  BY <1>2, LastTail
<1> QED
  BY <1>1, <1>2, <1>3, <1>4, <1>5, <1>6, <1>7, <1>8, <1>9

(* A message about a row is lost. *)
LEMMA LossKeeps ==
  ASSUME TypeInv, NEW r \in Rows, Kept(r), mail # <<>>, mail' = Tail(mail), Query \in Updates(r),
         PastStays(r), row'[r] = row[r], name' = name, task' = task,
         Query.q = "UpdateTask" => EndLost(r)', Query.q = "UpdateTaskStatus" => StatusLost(r)'
  PROVE  Kept(r)'
<1>m. mail \in Seq(Messages)
  BY TypeParts
<1>1. TasksOf(r)' = TasksOf(r)
  BY DEF TasksOf
<1>2. CASE EndLost(r)'
  BY <1>2 DEF Kept, EndKept, LastKept, AllEnded, StartKept, StartTold
<1>3. CASE StatusLost(r)' /\ Query.q # "UpdateTask"
  <2>1. Query \notin Ends(r)
    BY <1>3 DEF Ends
  <2>2. /\ LastIn(mail, Ends(r), {}) => LastIn(mail', Ends(r), {})
        /\ LastIn(mail, Ends(r), Updates(r)) => LastIn(mail', Ends(r), Updates(r))
        /\ ~NoneIn(mail, Updates(r))
    BY <1>m, <2>1, WordTaken
  <2>3. EndKept(r)'
    BY <1>1, <2>2 DEF Kept, EndKept, PastStays
  <2>4. LastKept(r)'
    BY <1>1, <2>2 DEF Kept, LastKept, AllEnded, PastStays
  <2>5. StartKept(r)'
    BY <1>3 DEF StartKept, StartTold
  <2> QED
    BY <2>3, <2>4, <2>5 DEF Kept
<1> QED
  BY <1>2, <1>3 DEF Updates

(* The status of a row is changed. *)
LEMMA StatusKeeps ==
  ASSUME TypeInv, ResultsInv, NEW r \in Rows, Kept(r), PerformUpdateTaskStatus, Query \in Updates(r), row[r] # None
  PROVE  Kept(r)'
<1>t. mail \in Seq(Messages) /\ row \in [Rows -> RowData \cup {None}]
  BY TypeParts
<1>1. /\ mail # <<>> /\ mail' = Tail(mail) /\ name' = name /\ task' = task
      /\ Query.q = "UpdateTaskStatus" /\ QueryRow = r
  BY DEF PerformUpdateTaskStatus, Performs, uploads, Updates, QueryRow
<1>2. past' = past /\ row'[r] = DBUpdateTaskStatus(Query, row[r])
  BY <1>t, <1>1 DEF PerformUpdateTaskStatus
<1>3. Query \in Messages /\ Query.status # "DONE"
  BY <1>t, <1>1, HandledTakes DEF Query, ResultsInv, MessageTrue
<1>4. PICK m \in Messages : m = Query
  BY <1>3
<1>5. PICK old \in RowData : old = row[r]
  BY <1>t
<1>6. PICK new : new = row'[r]
  OBVIOUS
<1>7. /\ new # None /\ new.end = old.end /\ new.spent = old.spent
      /\ new.started = IF m.status = "RUNNING" THEN m.start ELSE old.started
  BY <1>1, <1>2, <1>3, <1>4, <1>5, <1>6, RowAfterStatus
<1>8. TasksOf(r)' = TasksOf(r) /\ (EndLost(r)' <=> EndLost(r)) /\ (StatusLost(r)' <=> StatusLost(r))
  BY <1>1, <1>2 DEF TasksOf, EndLost, StatusLost
<1>9. Query \notin Ends(r)
  BY <1>1 DEF Ends
<1>10. /\ LastIn(mail, Ends(r), {}) => LastIn(mail', Ends(r), {})
       /\ LastIn(mail, Ends(r), Updates(r)) => LastIn(mail', Ends(r), Updates(r))
       /\ ~NoneIn(mail, Updates(r))
  BY <1>t, <1>1, <1>9, WordTaken
<1>11. EndKept(r)'
  BY <1>5, <1>6, <1>7, <1>8, <1>10, <1>1 DEF Kept, EndKept
<1>12. LastKept(r)'
  BY <1>1, <1>2, <1>8, <1>10 DEF Kept, LastKept, AllEnded
<1>13. ASSUME NEW t \in Tasks, StartTold(r, t)'
       PROVE  /\ \/ LastIn(mail', RunsOf(r, task'[t].start), Runs(r))
                 \/ NoneIn(mail', Runs(r)) /\ row'[r] # None /\ row'[r].started = task'[t].start
              /\ task'[t].state = "over" =>
                   LastIn(mail', Ends(r), {}) \/ (row'[r] # None /\ row'[r].spent = task'[t].start)
  <2>1. StartTold(r, t)
    BY <1>1, <1>2, <1>8, <1>13 DEF StartTold
  <2>2. PICK k : k = task[t].start
    OBVIOUS
  <2>3. /\ \/ LastIn(mail, RunsOf(r, k), Runs(r))
           \/ NoneIn(mail, Runs(r)) /\ row[r] # None /\ row[r].started = k
        /\ task[t].state = "over" => LastIn(mail, Ends(r), {}) \/ (row[r] # None /\ row[r].spent = k)
    BY <2>1, <2>2 DEF Kept, StartKept
  <2>4. CASE m.status = "RUNNING"
    <3>1. Query \in Runs(r)
      BY <1>1, <1>4, <2>4 DEF Runs
    <3>2. LastIn(mail, RunsOf(r, k), Runs(r))
      BY <1>t, <1>1, <2>3, <3>1, WordTaken
    <3>3. LastIn(mail', RunsOf(r, k), Runs(r)) \/ (Query \in RunsOf(r, k) /\ NoneIn(mail', Runs(r)))
      BY <1>t, <1>1, <3>2, WordTaken
    <3>4. Query \in RunsOf(r, k) => new.started = k
      BY <1>4, <1>7, <2>4 DEF RunsOf
    <3> QED
      BY <1>1, <1>5, <1>6, <1>7, <1>10, <2>2, <2>3, <3>3, <3>4
  <2>5. CASE m.status # "RUNNING"
    <3>1. Query \notin Runs(r) /\ Query \notin RunsOf(r, k)
      BY <1>4, <2>5 DEF Runs, RunsOf
    <3>2. /\ LastIn(mail, RunsOf(r, k), Runs(r)) => LastIn(mail', RunsOf(r, k), Runs(r))
          /\ NoneIn(mail, Runs(r)) => NoneIn(mail', Runs(r))
      BY <1>t, <1>1, <3>1, WordTaken
    <3> QED
      BY <1>1, <1>5, <1>6, <1>7, <1>10, <2>2, <2>3, <2>5, <3>2
  <2> QED
    BY <2>4, <2>5
<1>14. StartKept(r)'
  BY <1>13 DEF StartKept
<1> QED
  BY <1>11, <1>12, <1>14 DEF Kept

(* The end of a task is written. *)
LEMMA WrittenEndKeeps ==
  ASSUME TypeInv, ResultsInv, NEW r \in Rows, Kept(r), PerformUpdateTask, Query \in Updates(r),
         row[r] # None, ~Query.long
  PROVE  Kept(r)'
<1>t. mail \in Seq(Messages) /\ row \in [Rows -> RowData \cup {None}]
  BY TypeParts
<1>1. /\ mail # <<>> /\ mail' = Tail(mail) /\ name' = name /\ task' = task
      /\ Query.q = "UpdateTask" /\ QueryRow = r
  BY DEF PerformUpdateTask, Performs, uploads, Updates, QueryRow
<1>2. past' = past /\ row'[r] = DBUpdateTask(Query, row[r])
  BY <1>t, <1>1 DEF PerformUpdateTask
<1>3. /\ Query \in Messages /\ Query.end # None /\ Query.status = Shown(Query.end)
      /\ Told(r, Query.end)
  <2>1. Query \in Messages /\ MessageTrue(Query)
    BY <1>t, <1>1, HandledTakes DEF Query, ResultsInv
  <2> QED
    BY <1>1, <2>1 DEF MessageTrue, QueryRow
<1>4. PICK m \in Messages : m = Query
  BY <1>3
<1>5. PICK old \in RowData : old = row[r]
  BY <1>t
<1>6. PICK new : new = row'[r]
  OBVIOUS
<1>7. /\ new # None /\ new.end = m.end /\ new.status = Shown(m.end) /\ new.started = old.started
      /\ m.end # "ABANDONED" => new.spent = old.started
  <2>1. m.q = "UpdateTask" /\ m.status # "RUNNING" /\ new = DBUpdateTask(m, old)
    BY <1>1, <1>2, <1>3, <1>4, <1>5, <1>6 DEF Shown
  <2>2. /\ new # None /\ new.end = m.end /\ new.status = m.status /\ new.started = old.started
        /\ m.status = "DONE" => new.spent = old.started
    BY <2>1, RowAfterEnd
  <2> QED
    BY <1>3, <1>4, <2>2 DEF Shown
<1>8. TasksOf(r)' = TasksOf(r) /\ (EndLost(r)' <=> EndLost(r)) /\ (StatusLost(r)' <=> StatusLost(r))
  BY <1>1, <1>2 DEF TasksOf, EndLost, StatusLost
<1>9. EndKept(r)'
  BY <1>3, <1>4, <1>6, <1>7 DEF EndKept
<1>10. LastKept(r)'
  <2> SUFFICES ASSUME AllEnded(r)' PROVE LastIn(mail', Ends(r), Updates(r)) \/ NoneIn(mail', Updates(r))
    BY <1>3, <1>4, <1>6, <1>7 DEF LastKept
  <2>1. AllEnded(r)
    BY <1>1, <1>2, <1>8 DEF AllEnded
  <2>2. ~NoneIn(mail, Updates(r))
    BY <1>t, <1>1, WordTaken
  <2>3. LastIn(mail, Ends(r), Updates(r))
    BY <2>1, <2>2 DEF Kept, LastKept
  <2> QED
    BY <1>t, <1>1, <2>3, WordTaken
<1>11. Query \notin Runs(r)
  BY <1>1 DEF Runs
<1>12. ASSUME NEW t \in Tasks, StartTold(r, t)'
       PROVE  /\ \/ LastIn(mail', RunsOf(r, task'[t].start), Runs(r))
                 \/ NoneIn(mail', Runs(r)) /\ row'[r] # None /\ row'[r].started = task'[t].start
              /\ task'[t].state = "over" =>
                   LastIn(mail', Ends(r), {}) \/ (row'[r] # None /\ row'[r].spent = task'[t].start)
  <2>1. StartTold(r, t)
    BY <1>1, <1>2, <1>8, <1>12 DEF StartTold
  <2>2. PICK k : k = task[t].start
    OBVIOUS
  <2>3. \/ LastIn(mail, RunsOf(r, k), Runs(r))
        \/ NoneIn(mail, Runs(r)) /\ old.started = k
    BY <1>5, <2>1, <2>2 DEF Kept, StartKept
  <2>4. /\ LastIn(mail, RunsOf(r, k), Runs(r)) => LastIn(mail', RunsOf(r, k), Runs(r))
        /\ NoneIn(mail, Runs(r)) => NoneIn(mail', Runs(r))
    BY <1>t, <1>1, <1>11, WordTaken DEF RunsOf
  <2>5. ASSUME task[t].state = "over", ~LastIn(mail', Ends(r), {})
        PROVE  new.spent = k
    <3>1. AllEnded(r)
      BY <2>1, <2>5 DEF StartTold, AllEnded
    <3>2. ~NoneIn(mail, Updates(r))
      BY <1>t, <1>1, WordTaken
    <3>3. LastIn(mail, Ends(r), Updates(r))
      BY <3>1, <3>2 DEF Kept, LastKept
    <3>4. NoneIn(mail', Runs(r))
      BY <1>t, <1>1, <2>5, <3>3, WordTaken
    <3>5. ~LastIn(mail', RunsOf(r, k), Runs(r))
      BY <3>4 DEF NoneIn, LastIn, RunsOf
    <3>6. old.started = k
      BY <2>3, <2>4, <3>5
    <3>7. m.end # "ABANDONED"
      BY <1>3, <1>4, <2>1 DEF StartTold, Told
    <3> QED
      BY <1>7, <3>6, <3>7
  <2> QED
    BY <1>1, <1>5, <1>6, <1>7, <2>2, <2>3, <2>4, <2>5
<1>13. StartKept(r)'
  BY <1>12 DEF StartKept
<1> QED
  BY <1>9, <1>10, <1>13 DEF Kept

(* The steps of DBActor *)
LEMMA DatabaseKeeps ==
  ASSUME TypeInv, ResultsInv, NEW r \in Rows, Kept(r),
         \/ PerformCreateTask \/ PerformUpdateTaskStatus \/ PerformUpdateTask \/ PerformReport
         \/ CouldNotConnect
  PROVE  Kept(r)'
<1>t. mail \in Seq(Messages) /\ row \in [Rows -> RowData \cup {None}] /\ past \in Past
  BY TypeParts
<1>1. mail # <<>> /\ mail' = Tail(mail) /\ name' = name /\ task' = task
  BY DEF PerformCreateTask, PerformUpdateTaskStatus, PerformUpdateTask, PerformReport, CouldNotConnect,
         Performs, uploads
<1>2. TasksOf(r)' = TasksOf(r)
  BY <1>1 DEF TasksOf
<1>3. Query \in Messages /\ (Query \notin Updates(r) => WordsStay(r))
  BY <1>t, <1>1, HandledTakes, WordsOfOthers DEF Query
<1>4. PastStays(r)
  BY <1>t DEF PerformCreateTask, PerformUpdateTaskStatus, PerformUpdateTask, PerformReport, CouldNotConnect,
              Lose, PastStays, EndLost, StatusLost, Past
<1>5. Query \in Updates(r) => QueryRow = r /\ Query.q \in {"UpdateTaskStatus", "UpdateTask"}
  BY DEF Updates, QueryRow
<1>6. Query.q \in {"UpdateTaskStatus", "UpdateTask"} /\ QueryRow = r => Query \in Updates(r)
  BY <1>3 DEF Updates, QueryRow
<1>7. CASE Query \notin Updates(r) /\ row'[r] = row[r]
  BY <1>1, <1>2, <1>3, <1>4, <1>7, OthersKeep
<1>8. CASE PerformCreateTask
  <2>1. Query \notin Updates(r) /\ past' = past
    BY <1>5, <1>8 DEF PerformCreateTask, Performs
  <2>2. CASE row'[r] # row[r]
    <3>1. row[r] = None
      BY <1>t, <1>8, <2>2 DEF PerformCreateTask
    <3>2. WordsStay(r)
      BY <1>3, <2>1
    <3>3. Ends(r) \in SUBSET Updates(r) /\ Runs(r) \in SUBSET Updates(r) /\ {} \in SUBSET Updates(r)
          /\ Updates(r) \in SUBSET Updates(r) /\ \A k : RunsOf(r, k) \in SUBSET Updates(r)
      BY DEF Ends, Runs, RunsOf
    <3>4. /\ LastIn(mail, Ends(r), {}) => LastIn(mail', Ends(r), {})
          /\ LastIn(mail, Ends(r), Updates(r)) => LastIn(mail', Ends(r), Updates(r))
          /\ \A k : LastIn(mail, RunsOf(r, k), Runs(r)) => LastIn(mail', RunsOf(r, k), Runs(r))
      BY <3>2, <3>3 DEF WordsStay
    <3>5. EndKept(r)'
      BY <1>1, <1>2, <2>1, <3>1, <3>4 DEF Kept, EndKept, EndLost
    <3>6. LastKept(r)'
      BY <1>1, <1>2, <2>1, <3>1, <3>4 DEF Kept, LastKept, AllEnded, EndLost
    <3>7. ASSUME NEW t \in Tasks, StartTold(r, t)'
          PROVE  /\ LastIn(mail', RunsOf(r, task'[t].start), Runs(r))
                 /\ task'[t].state = "over" => LastIn(mail', Ends(r), {})
      <4>1. StartTold(r, t)
        BY <1>1, <1>2, <2>1, <3>7 DEF StartTold, EndLost, StatusLost
      <4>2. PICK k : k = task[t].start
        OBVIOUS
      <4>3. LastIn(mail, RunsOf(r, k), Runs(r)) /\ (task[t].state = "over" => LastIn(mail, Ends(r), {}))
        BY <3>1, <4>1, <4>2 DEF Kept, StartKept
      <4> QED
        BY <1>1, <3>4, <4>2, <4>3
    <3>8. StartKept(r)'
      BY <3>7 DEF StartKept
    <3> QED
      BY <3>5, <3>6, <3>8 DEF Kept
  <2> QED
    BY <1>7, <2>1, <2>2
<1>9. CASE PerformUpdateTaskStatus
  <2>1. Query.q = "UpdateTaskStatus"
    BY <1>9 DEF PerformUpdateTaskStatus, Performs
  <2>2. CASE Query \notin Updates(r)
    <3>1. QueryRow # r
      BY <1>6, <2>1, <2>2
    <3>2. row'[r] = row[r]
      BY <1>9, <1>t, <3>1 DEF PerformUpdateTaskStatus
    <3> QED
      BY <1>7, <2>2, <3>2
  <2>3. CASE Query \in Updates(r) /\ row[r] = None
    <3>1. row'[r] = row[r] /\ StatusLost(r)'
      BY <1>9, <1>t, <1>5, <2>1, <2>3 DEF PerformUpdateTaskStatus, Lose, StatusLost, Past
    <3> QED
      BY <1>1, <1>4, <2>1, <2>3, <3>1, LossKeeps
  <2>4. CASE Query \in Updates(r) /\ row[r] # None
    BY <1>9, <2>4, StatusKeeps
  <2> QED
    BY <2>2, <2>3, <2>4
<1>10. CASE PerformUpdateTask
  <2>1. Query.q = "UpdateTask"
    BY <1>10 DEF PerformUpdateTask, Performs
  <2>2. CASE Query \notin Updates(r)
    <3>1. QueryRow # r
      BY <1>6, <2>1, <2>2
    <3>2. row'[r] = row[r]
      BY <1>10, <1>t, <3>1 DEF PerformUpdateTask
    <3> QED
      BY <1>7, <2>2, <3>2
  <2>3. CASE Query \in Updates(r) /\ (row[r] = None \/ Query.long)
    <3>1. row'[r] = row[r] /\ EndLost(r)'
      BY <1>10, <1>t, <1>5, <2>1, <2>3 DEF PerformUpdateTask, Lose, EndLost, Past
    <3> QED
      BY <1>1, <1>4, <2>1, <2>3, <3>1, LossKeeps
  <2>4. CASE Query \in Updates(r) /\ row[r] # None /\ ~Query.long
    BY <1>10, <2>4, WrittenEndKeeps
  <2> QED
    BY <2>2, <2>3, <2>4
<1>11. CASE PerformReport
  BY <1>5, <1>7, <1>11 DEF PerformReport, Performs
<1>12. CASE CouldNotConnect
  <2>1. row'[r] = row[r]
    BY <1>12 DEF CouldNotConnect
  <2>2. CASE Query \in Updates(r)
    <3>1. <<r, Query.q>> \in past'.lost
      BY <1>12, <1>t, <1>5, <2>2 DEF CouldNotConnect, Past
    <3>2. (Query.q = "UpdateTask" => EndLost(r)') /\ (Query.q = "UpdateTaskStatus" => StatusLost(r)')
      BY <3>1 DEF EndLost, StatusLost
    <3> QED
      BY <1>1, <1>4, <2>1, <2>2, <3>2, LossKeeps
  <2> QED
    BY <1>7, <2>1, <2>2
<1> QED
  BY <1>8, <1>9, <1>10, <1>11, <1>12

(* Of finitely many uploads, a row is that of one task or counts more. *)
LEMMA SharedRow ==
  ASSUME IsFiniteSet(Uploads), NEW r, NEW t \in TasksOf(r), ~(Cardinality(TasksOf(r)) > 1)
  PROVE  TasksOf(r) = {t}
<1>1. PICK S : S = TasksOf(r)
  OBVIOUS
<1>2. PICK f : f = [x \in S |-> x[1]]
  OBVIOUS
<1>3. \A x \in S : x \in Tasks /\ x[2] = r[2]
  BY <1>1 DEF TasksOf
<1>4. f \in Injection(S, Uploads)
  <2>1. \A x \in S : x[1] \in Uploads /\ x = <<x[1], r[2]>>
    BY <1>3 DEF Tasks
  <2>2. f \in [S -> Uploads] /\ \A x \in S : f[x] = x[1]
    BY <1>2, <2>1
  <2>3. \A x, y \in S : f[x] = f[y] => x = y
    BY <2>1, <2>2
  <2> QED
    BY <2>2, <2>3 DEF Injection, IsInjective
<1>5. IsFiniteSet(S)
  BY <1>4, FS_Injection
<1>6. IsFiniteSet(S \ {t}) /\ Cardinality(S \ {t}) = Cardinality(S) - 1 /\ Cardinality(S) \in Nat
  BY <1>1, <1>5, FS_RemoveElement, FS_CardinalityType
<1>7. Cardinality(S \ {t}) \in Nat
  BY <1>6, FS_CardinalityType
<1>8. Cardinality(S \ {t}) = 0
  BY <1>1, <1>6, <1>7
<1>9. S \ {t} = {}
  BY <1>6, <1>8, FS_EmptySet
<1> QED
  BY <1>1, <1>9

(* RowMatchesTask is an invariant: once all tasks of a row have ended and   *)
(* everything about it was handled, the row shows how one of them ended,    *)
(* unless that message was lost; and a row of its own shows the time of     *)
(* the last start.  What a row will show is decided by the last message of  *)
(* each kind that waits for DBActor, or by the row when none does.          *)
THEOREM RowsMatchTasks ==
  ASSUME IsFiniteSet(Uploads)
  PROVE  Spec => []RowMatchesTask
<1>1. Init => RowsInv
  <2> SUFFICES ASSUME Init, NEW r \in Rows PROVE Kept(r)
    BY DEF RowsInv
  <2>1. TasksOf(r) = {}
    BY DEF Init, TasksOf
  <2>2. \A t \in Tasks : ~StartTold(r, t)
    BY <2>1 DEF StartTold
  <2> QED
    BY <2>1, <2>2 DEF Kept, EndKept, LastKept, AllEnded, StartKept
<1>2. TypeInv /\ ResultsInv /\ RowsInv /\ [Next]_vars => RowsInv'
  <2> SUFFICES ASSUME TypeInv, ResultsInv, RowsInv, [Next]_vars, NEW r \in Rows PROVE Kept(r)'
    BY DEF RowsInv
  <2>1. Kept(r)
    BY DEF RowsInv
  <2>2. CASE UNCHANGED vars
    BY <2>1, <2>2 DEF vars, uploads, web, Kept, EndKept, LastKept, AllEnded, StartKept, StartTold, TasksOf,
                      EndLost, StatusLost
  <2>3. CASE Next
    <3>1. ASSUME NEW t \in Tasks, \/ Starting(t) \/ Reset(t) \/ Abandon(t)
                                  \/ \E k \in 1 .. MaxStarts : WriteRunning(t, k)
                                  \/ \E end \in {"SUCCESS", "FAILURE"}, long \in BOOLEAN : Finish(t, end, long)
          PROVE  Kept(r)'
      BY <2>1, <3>1, StartKeeps, RunningKeeps, EndKeeps
    <3> QED
      BY <2>1, <2>3, <3>1, UploadKeeps, DatabaseKeeps, WebKeeps, Zenon DEF Next
  <2> QED
    BY <2>2, <2>3
<1>3. TypeInv /\ ResultsInv /\ RowsInv => RowMatchesTask
  <2> SUFFICES ASSUME TypeInv, ResultsInv, NEW r \in Rows, Kept(r), Settled(r), ~EndLost(r)
               PROVE  /\ row[r] # None
                      /\ \E t \in TasksOf(r) :
                           /\ row[r].end = task[t].end
                           /\ r \in past.late \/ row[r].status = Shown(task[t].end)
                           /\ \/ r \in past.late \/ StatusLost(r)
                              \/ task[t].end = "ABANDONED" \/ Cardinality(TasksOf(r)) > 1
                              \/ row[r].spent = task[t].start
    BY DEF RowsInv, RowMatchesTask, EndLost, StatusLost, Shown
  <2>1. /\ TasksOf(r) # {} /\ \A t \in TasksOf(r) : task[t].state = "over" /\ task[t].callbacks = {}
    BY DEF Settled
  <2>2. NoneIn(mail, Updates(r))
    BY DEF Settled, NoneIn, Updates
  <2>3. ~LastIn(mail, Ends(r), {}) /\ ~LastIn(mail, Ends(r), Updates(r)) /\ \A k : ~LastIn(mail, RunsOf(r, k), Runs(r))
    BY <2>2 DEF NoneIn, LastIn, Ends, Runs, RunsOf
  <2>4. row[r] # None /\ row[r].end # None
    BY <2>1, <2>3 DEF Kept, EndKept
  <2>5. PICK t \in TasksOf(r) : task[t].end = row[r].end
    BY <2>4 DEF ResultsInv, RowTrue, Told
  <2>6. r \in past.late \/ row[r].status = Shown(task[t].end)
    BY <2>1, <2>3, <2>5 DEF Kept, LastKept, AllEnded
  <2>7. ASSUME r \notin past.late, ~StatusLost(r), task[t].end # "ABANDONED", ~(Cardinality(TasksOf(r)) > 1)
        PROVE  row[r].spent = task[t].start
    <3>1. TasksOf(r) = {t}
      BY <2>7, SharedRow
    <3>2. StartTold(r, t) /\ t \in Tasks
      BY <2>1, <2>7, <3>1 DEF StartTold, TasksOf
    <3> QED
      BY <2>1, <2>3, <3>2 DEF Kept, StartKept
  <2> QED
    BY <2>4, <2>5, <2>6, <2>7
<1> QED
  BY <1>1, <1>2, <1>3, TypeCorrect, ResultsAreTrue, PTL DEF Spec
=============================================================================
