----------------------------- MODULE TaskQueue -----------------------------
(***************************************************************************)
(* The task queue: the rows of the `tasks` table and the requests that     *)
(* read and write them (src/tasks, src/wizard/wizard.service.ts).          *)
(*                                                                         *)
(* Every request is served by a handler of some backend process and is cut *)
(* at its awaits: each action below is one SQL statement together with the *)
(* synchronous code around it, so requests interleave exactly where the    *)
(* code lets them.  PostgreSQL runs at READ COMMITTED: a conditional       *)
(* UPDATE re-evaluates its WHERE on the current row.                       *)
(*                                                                         *)
(* A timestamp is kept as its age in ticks, which is all that the          *)
(* comparisons with `heartbeatCutoff` can tell apart.                      *)
(***************************************************************************)
EXTENDS Integers, FiniteSets

CONSTANTS
  Tasks,            \* task ids, used and still unused
  Workers,          \* worker ids sent with a poll and a callback
  Handlers,         \* requests the backend serves at the same time
  Namespaces,
  NamespaceOf,      \* [Tasks -> Namespaces]
  Serves,           \* [Workers -> SUBSET Tasks], by the functions it polls for
  MaxParallelism,   \* [Namespaces -> Nat], task_parallelism of a namespace
  Scopes,           \* sets of tasks of a resource, member or account
  ProOnly,          \* tasks whose function is in PRO_ONLY_FUNCTIONS
  Pro,              \* is OBB_PRO_URL configured
  MaxRetries,       \* OBB_TASK_MAX_RETRIES
  HeartbeatTimeout, \* OBB_TASK_HEARTBEAT_TIMEOUT_MS, in ticks
  MaxRequestAge,    \* bound: ticks a poll may take from cutoff to claim
  Reported,         \* the outcomes workers report in this instance
  Timely,           \* do live executions always refresh in time
  Endpoints,        \* the operations clients use in this instance
  None

ASSUME QueueAssumption ==
  /\ NamespaceOf \in [Tasks -> Namespaces]
  /\ Serves \in [Workers -> SUBSET Tasks]
  /\ MaxParallelism \in [Namespaces -> Nat]
  /\ Scopes \subseteq SUBSET Tasks
  /\ ProOnly \subseteq Tasks
  /\ Reported \subseteq {"finished", "error", "timeout", "insufficient_quota"}
  /\ Pro \in BOOLEAN /\ Timely \in BOOLEAN
  /\ MaxRetries \in Nat /\ HeartbeatTimeout \in Nat /\ MaxRequestAge \in Nat
  /\ None \notin Tasks /\ None \notin Workers

VARIABLES
  task,     \* [Tasks -> Row], the table
  source,   \* why a row exists: a client, a finished parent, a rerun
  req,      \* [Handlers -> Request], requests in flight
  runs,     \* executions handed to workers and not yet ended
  effects   \* [Tasks -> 0..EffectCap], post-processings started, a history

vars == <<task, source, req, runs, effects>>

EffectCap == 2      \* bound of the history counter: 0, 1, more than 1

----------------------------------------------------------------------------
(* Rows *)

Retryable == {"error", "timeout", "insufficient_quota", "canceled"}
Outcomes  == {"finished", "error", "timeout", "insufficient_quota"}
Open      == {"pending", "running"}
Statuses  == {"absent", "pending", "running", "canceled"} \cup Outcomes

NoBeat    == -1
OldestAge == HeartbeatTimeout + MaxRequestAge + 1
Ages      == NoBeat..OldestAge

Row == [status: Statuses, started: BOOLEAN, ended: BOOLEAN, canceled: BOOLEAN,
        deleted: BOOLEAN, hb: Ages, worker: Workers \cup {None},
        schedules: 0..(MaxRetries + 1)]

AbsentRow == [status |-> "absent", started |-> FALSE, ended |-> FALSE,
              canceled |-> FALSE, deleted |-> FALSE, hb |-> NoBeat,
              worker |-> None, schedules |-> 0]

\* What emitTask inserts: pending, or already failed when no wizard could
\* ever poll for the function.
NewRow(t) ==
  IF t \in ProOnly /\ ~Pro
    THEN [AbsentRow EXCEPT !.status = "error", !.ended = TRUE]
    ELSE [AbsentRow EXCEPT !.status = "pending"]

Older(row) ==
  IF row.hb = NoBeat \/ row.hb = OldestAge THEN row
                                           ELSE [row EXCEPT !.hb = @ + 1]

\* last_heartbeat < cutoff, for a cutoff computed `age` ticks ago.
Stale(row, age) == row.hb # NoBeat /\ row.hb > HeartbeatTimeout + age
Fresh(row)      == row.hb # NoBeat /\ row.hb <= HeartbeatTimeout

\* Faults of Claimable, each a condition of the WHERE clause left out.
ClaimableUncapped(row, age) ==
  row.status \in Open /\ (row.hb = NoBeat \/ Stale(row, age))
ClaimableSettled(row, age) ==
  (row.hb = NoBeat \/ Stale(row, age)) /\ row.schedules <= MaxRetries
ClaimableFresh(row, age) ==
  row.status \in Open /\ row.schedules <= MaxRetries

\* The WHERE clause shared by the selection and the claim.
Claimable(row, age) ==
  /\ row.status \in Open
  /\ row.hb = NoBeat \/ Stale(row, age)
  /\ row.schedules <= MaxRetries

\* find() and the select query builder hide soft-deleted rows; UPDATE
\* statements do not.
Visible(t) == task[t].status # "absent" /\ ~task[t].deleted

Busy(n) == {t \in Tasks : /\ NamespaceOf[t] = n
                          /\ task[t].status = "running"
                          /\ Fresh(task[t])}

Executing(n) == {t \in Busy(n) : ~task[t].deleted}

\* A fault of LimitedNamespaces: > for >=.
LimitedTooLate ==
  {n \in Namespaces : Cardinality(Executing(n)) > MaxParallelism[n]}

\* listNamespacesAtParallelismLimit; a namespace without a running task is
\* not in the result of the GROUP BY.
LimitedNamespaces ==
  {n \in Namespaces : /\ Executing(n) # {}
                      /\ Cardinality(Executing(n)) >= MaxParallelism[n]}

----------------------------------------------------------------------------
(* Requests in flight.  The fields are what a handler still needs of what  *)
(* it has read before its last await.                                      *)

Idle == [pc |-> "idle"]

Run == [task: Tasks, worker: Workers]

Request ==
       {Idle}
  \cup [pc: {"select"}, worker: Workers, age: 0..MaxRequestAge,
        limited: SUBSET Namespaces]
  \cup [pc: {"claim"}, worker: Workers, age: 0..MaxRequestAge, task: Tasks]
  \cup [pc: {"persist"}, task: Tasks, by: Workers, owner: Workers \cup {None},
        canceled: BOOLEAN, outcome: Outcomes]
  \cup [pc: {"hook"}, task: Tasks, canceled: BOOLEAN, outcome: Outcomes]
  \cup [pc: {"postprocess"}, task: Tasks, outcome: Outcomes]
  \cup [pc: {"dispatch", "rerun"}, task: Tasks]
  \cup [pc: {"load"}, op: {"cancel", "start"}, task: Tasks, entity: Row]
  \cup [pc: {"save"}, op: {"cancel", "start"}, task: Tasks, entity: Row,
        base: Row]

Source == [kind: {"client", "next", "rerun"}, of: Tasks \cup {None}]
Client == [kind |-> "client", of |-> None]

TypeOK ==
  /\ task \in [Tasks -> Row]
  /\ source \in [Tasks -> Source]
  /\ req \in [Handlers -> Request]
  /\ runs \subseteq Run
  /\ effects \in [Tasks -> 0..EffectCap]

Init ==
  /\ task = [t \in Tasks |-> AbsentRow]
  /\ source = [t \in Tasks |-> Client]
  /\ req = [h \in Handlers |-> Idle]
  /\ runs = {}
  /\ effects = [t \in Tasks |-> 0]

\* Handler h answers, or goes on to its next statement.
Answer(h)  == req' = [req EXCEPT ![h] = Idle]
GoTo(h, r) == req' = [req EXCEPT ![h] = r]

\* The row a task id gets when it is first inserted.
Insert(t, from) ==
  /\ task' = [task EXCEPT ![t] = NewRow(t)]
  /\ source' = [source EXCEPT ![t] = from]

----------------------------------------------------------------------------
(* Creating tasks *)

\* POST tasks, and every emit*Task of the services.
Emit(t) ==
  /\ task[t].status = "absent"
  /\ Insert(t, Client)
  /\ UNCHANGED <<req, runs, effects>>

\* rerunTask: read and check the original, then (after an upload) emit.
BeginRerun(h, t) ==
  /\ "rerun" \in Endpoints
  /\ req[h] = Idle
  /\ Visible(t) /\ task[t].status \in Retryable
  /\ GoTo(h, [pc |-> "rerun", task |-> t])
  /\ UNCHANGED <<task, source, runs, effects>>

Rerun(h, u) ==
  /\ req[h].pc = "rerun"
  /\ task[u].status = "absent"
  /\ Insert(u, [kind |-> "rerun", of |-> req[h].task])
  /\ Answer(h)
  /\ UNCHANGED <<runs, effects>>

----------------------------------------------------------------------------
(* Polling: cutoff and parallelism count, selection, conditional claim *)

BeginPoll(h, w) ==
  /\ req[h] = Idle
  /\ GoTo(h, [pc |-> "select", worker |-> w, age |-> 0,
              limited |-> LimitedNamespaces])
  /\ UNCHANGED <<task, source, runs, effects>>

Candidates(r) == {t \in Serves[r.worker] : /\ Visible(t)
                                           /\ Claimable(task[t], r.age)
                                           /\ NamespaceOf[t] \notin r.limited}

\* getNextTaskV2 returns one candidate; which one depends on priorities and
\* on a random seed.
Select(h, t) ==
  /\ req[h].pc = "select"
  /\ t \in Candidates(req[h])
  /\ GoTo(h, [pc |-> "claim", worker |-> req[h].worker, age |-> req[h].age,
              task |-> t])
  /\ UNCHANGED <<task, source, runs, effects>>

SelectNothing(h) ==
  /\ req[h].pc = "select"
  /\ Candidates(req[h]) = {}
  /\ Answer(h)
  /\ UNCHANGED <<task, source, runs, effects>>

\* A fault of Claimed: the claim does not stamp the heartbeat.
ClaimedWithoutBeat(row, w) ==
  [row EXCEPT !.status = "running", !.started = TRUE, !.worker = w,
              !.schedules = @ + 1]

Claimed(row, w) ==
  [row EXCEPT !.status = "running", !.started = TRUE, !.hb = 0,
              !.worker = w, !.schedules = @ + 1]

\* claimTask.  The worker receives the task unless the row was deleted, the
\* input could not be read or the response is lost (received = FALSE).
Claim(h, received) ==
  /\ req[h].pc = "claim"
  /\ LET t == req[h].task
         w == req[h].worker
     IN  /\ Claimable(task[t], req[h].age)
         /\ received => ~task[t].deleted
         /\ task' = [task EXCEPT ![t] = Claimed(task[t], w)]
         /\ runs' = IF received
                      THEN runs \cup {[task |-> t, worker |-> w]} ELSE runs
  /\ Answer(h)
  /\ UNCHANGED <<source, effects>>

ClaimLost(h) ==
  /\ req[h].pc = "claim"
  /\ ~Claimable(task[req[h].task], req[h].age)
  /\ Answer(h)
  /\ UNCHANGED <<task, source, runs, effects>>

\* updateHeartbeat, sent by an execution that still believes it owns its task.
Heartbeat(r) ==
  /\ task[r.task].status = "running" /\ task[r.task].worker = r.worker
  /\ task' = [task EXCEPT ![r.task].hb = 0]
  /\ UNCHANGED <<source, req, runs, effects>>

\* An execution ends: its worker is done with it, gives up or dies.
EndRun(r) ==
  /\ runs' = runs \ {r}
  /\ UNCHANGED <<task, source, req, effects>>

\* A fault of Reapable: the budget is off by one.
ReapableTooLate(row) ==
  row.status = "running" /\ Stale(row, 0) /\ row.schedules > MaxRetries + 1

Reapable(row) ==
  /\ row.status = "running"
  /\ Stale(row, 0)
  /\ row.schedules > MaxRetries

\* failTasksExceedingScheduleLimit, every ten seconds.
Reap ==
  /\ \E t \in Tasks : Reapable(task[t])
  /\ task' = [t \in Tasks |->
                IF Reapable(task[t])
                  THEN [task[t] EXCEPT !.status = "error", !.ended = TRUE]
                  ELSE task[t]]
  /\ UNCHANGED <<source, req, runs, effects>>

----------------------------------------------------------------------------
(* taskDoneCallback *)

\* The checks on the row as it is first read.
Accepts(row, w) ==
  /\ row.worker \in {None, w}
  /\ row.status = "running"
  /\ row.started

\* An execution reports; the same report may arrive again and again.
BeginCallback(h, r, outcome) ==
  /\ req[h] = Idle
  /\ Visible(r.task) /\ Accepts(task[r.task], r.worker)
  /\ GoTo(h, [pc |-> "persist", task |-> r.task, by |-> r.worker,
              owner |-> task[r.task].worker,
              canceled |-> task[r.task].canceled, outcome |-> outcome])
  /\ UNCHANGED <<task, source, runs, effects>>

\* Faults of MayPersist: the UPDATE is guarded by half of its conditions.
MayPersistSettled(row, owner) == row.worker = owner
MayPersistAnyone(row, owner)  == row.status = "running"

\* The guard of the conditional UPDATE that stores the result.
MayPersist(row, owner) == row.status = "running" /\ row.worker = owner

Persist(h) ==
  /\ req[h].pc = "persist"
  /\ LET t == req[h].task IN
     /\ MayPersist(task[t], req[h].owner)
     /\ task' = [task EXCEPT ![t].status = req[h].outcome, ![t].ended = TRUE]
     /\ GoTo(h, [pc |-> "hook", task |-> t, canceled |-> req[h].canceled,
                 outcome |-> req[h].outcome])
  /\ UNCHANGED <<source, runs, effects>>

PersistRefused(h) ==
  /\ req[h].pc = "persist"
  /\ ~MayPersist(task[req[h].task], req[h].owner)
  /\ Answer(h)
  /\ UNCHANGED <<task, source, runs, effects>>

\* callTaskHook succeeds (when it throws, see Abort); a task that was already
\* canceled when it was read is not post-processed.
Hook(h) ==
  /\ req[h].pc = "hook"
  /\ IF req[h].canceled
       THEN Answer(h)
       ELSE GoTo(h, [pc |-> "postprocess", task |-> req[h].task,
                     outcome |-> req[h].outcome])
  /\ UNCHANGED <<task, source, runs, effects>>

\* A fault of MayDispatch: next tasks of a failed task are emitted too.
MayDispatchAlways(outcome) == outcome \in Outcomes

MayDispatch(outcome) == outcome = "finished"

\* The processor of the task's function writes the result into the resource.
Postprocess(h) ==
  /\ req[h].pc = "postprocess"
  /\ LET t == req[h].task IN
     /\ effects' = [effects EXCEPT ![t] = IF @ = EffectCap THEN @ ELSE @ + 1]
     /\ IF MayDispatch(req[h].outcome)
          THEN GoTo(h, [pc |-> "dispatch", task |-> t]) ELSE Answer(h)
  /\ UNCHANGED <<task, source, runs>>

\* dispatchNextTasks emits the next tasks one by one, ignoring failures.
Dispatch(h, u) ==
  /\ req[h].pc = "dispatch"
  /\ task[u].status = "absent"
  /\ Insert(u, [kind |-> "next", of |-> req[h].task])
  /\ UNCHANGED <<req, runs, effects>>

DispatchDone(h) ==
  /\ req[h].pc = "dispatch"
  /\ Answer(h)
  /\ UNCHANGED <<task, source, runs, effects>>

----------------------------------------------------------------------------
(* cancelTaskOrFail and startTask: find, check, mutate the entity, save.   *)
(* TypeORM's save reads the row again and writes the columns in which the  *)
(* entity differs from it.                                                 *)

CanceledEntity(row) == [row EXCEPT !.canceled = TRUE, !.status = "canceled"]
StartedEntity(row)  == [row EXCEPT !.started = TRUE, !.status = "running"]

MayChange(row) == ~row.canceled /\ ~row.ended

BeginCancel(h, t) ==
  /\ "cancel" \in Endpoints
  /\ req[h] = Idle
  /\ Visible(t) /\ MayChange(task[t])
  /\ GoTo(h, [pc |-> "load", op |-> "cancel", task |-> t,
              entity |-> CanceledEntity(task[t])])
  /\ UNCHANGED <<task, source, runs, effects>>

BeginStart(h, t) ==
  /\ "start" \in Endpoints
  /\ req[h] = Idle
  /\ Visible(t) /\ MayChange(task[t])
  /\ GoTo(h, [pc |-> "load", op |-> "start", task |-> t,
              entity |-> StartedEntity(task[t])])
  /\ UNCHANGED <<task, source, runs, effects>>

Load(h) ==
  /\ req[h].pc = "load"
  /\ GoTo(h, [pc |-> "save", op |-> req[h].op, task |-> req[h].task,
              entity |-> req[h].entity, base |-> task[req[h].task]])
  /\ UNCHANGED <<task, source, runs, effects>>

\* The row after an UPDATE of the columns in which entity and base differ.
Saved(row, entity, base) ==
  [f \in DOMAIN row |-> IF entity[f] # base[f] THEN entity[f] ELSE row[f]]

Save(h) ==
  /\ req[h].pc = "save"
  /\ LET t == req[h].task IN
       task' = [task EXCEPT ![t] = Saved(@, req[h].entity, req[h].base)]
  /\ Answer(h)
  /\ UNCHANGED <<source, runs, effects>>

\* The caller of startTask gets the task to execute.
SaveStarted(h, w) ==
  /\ req[h].pc = "save" /\ req[h].op = "start"
  /\ LET t == req[h].task IN
     /\ task' = [task EXCEPT ![t] = Saved(@, req[h].entity, req[h].base)]
     /\ runs' = runs \cup {[task |-> t, worker |-> w]}
  /\ Answer(h)
  /\ UNCHANGED <<source, effects>>

----------------------------------------------------------------------------
(* Bulk cancellation, deletion, failures, time *)

\* cancelResourceTasks and cancelUserTasks: one conditional UPDATE.
BulkCancel(S) ==
  /\ "bulk_cancel" \in Endpoints
  /\ \E t \in S : task[t].status # "absent" /\ MayChange(task[t])
  /\ task' = [t \in Tasks |->
                IF t \in S /\ task[t].status # "absent" /\ MayChange(task[t])
                  THEN CanceledEntity(task[t]) ELSE task[t]]
  /\ UNCHANGED <<source, req, runs, effects>>

\* confirmAccountDeletion cancels the open tasks of a user by their timestamp
\* alone: the status stays what it is.
DeleteAccount(S) ==
  /\ "delete_account" \in Endpoints
  /\ \E t \in S : task[t].status # "absent" /\ MayChange(task[t])
  /\ task' = [t \in Tasks |->
                IF t \in S /\ task[t].status # "absent" /\ MayChange(task[t])
                  THEN [task[t] EXCEPT !.canceled = TRUE] ELSE task[t]]
  /\ UNCHANGED <<source, req, runs, effects>>

\* TasksService.delete soft-deletes the row.
Delete(t) ==
  /\ "delete" \in Endpoints
  /\ Visible(t)
  /\ task' = [task EXCEPT ![t].deleted = TRUE]
  /\ UNCHANGED <<source, req, runs, effects>>

\* A handler throws (the pro hook or a processor fails) or its process dies.
Abort(h) ==
  /\ req[h] # Idle
  /\ Answer(h)
  /\ UNCHANGED <<task, source, runs, effects>>

Aged(r) ==
  CASE r.pc \in {"select", "claim"} -> [r EXCEPT !.age = @ + 1]
    [] r.pc = "load" -> [r EXCEPT !.entity = Older(@)]
    [] r.pc = "save" -> [r EXCEPT !.entity = Older(@), !.base = Older(@)]
    [] OTHER -> r

\* Does some live execution have to refresh its heartbeat before time goes on?
BeatDue ==
  \E r \in runs : /\ task[r.task].status = "running"
                  /\ task[r.task].worker = r.worker
                  /\ task[r.task].hb >= HeartbeatTimeout

Tick ==
  /\ \A h \in Handlers :
       req[h].pc \in {"select", "claim"} => req[h].age < MaxRequestAge
  /\ Timely => ~BeatDue
  /\ task' = [t \in Tasks |-> Older(task[t])]
  /\ req' = [h \in Handlers |-> Aged(req[h])]
  /\ UNCHANGED <<source, runs, effects>>

----------------------------------------------------------------------------
Step(h) ==
  \/ SelectNothing(h) \/ ClaimLost(h) \/ Persist(h) \/ PersistRefused(h)
  \/ Hook(h) \/ Postprocess(h) \/ DispatchDone(h)
  \/ Load(h) \/ Save(h) \/ Abort(h)
  \/ \E b \in BOOLEAN : Claim(h, b)
  \/ \E w \in Workers : BeginPoll(h, w) \/ SaveStarted(h, w)
  \/ \E t \in Tasks :
       \/ BeginRerun(h, t) \/ Rerun(h, t) \/ Select(h, t) \/ Dispatch(h, t)
       \/ BeginCancel(h, t) \/ BeginStart(h, t)
  \/ \E r \in runs, o \in Reported : BeginCallback(h, r, o)

Next ==
  \/ \E h \in Handlers : Step(h)
  \/ \E t \in Tasks : Emit(t) \/ Delete(t)
  \/ \E r \in runs : Heartbeat(r) \/ EndRun(r)
  \/ \E S \in Scopes : BulkCancel(S) \/ DeleteAccount(S)
  \/ Reap \/ Tick

Spec == Init /\ [][Next]_vars
=============================================================================
