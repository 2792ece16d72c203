-------------------------- MODULE TaskQueueProofs --------------------------
(***************************************************************************)
(* Type correctness of the task queue, what its conditional writes         *)
(* guarantee, and that it implements TaskLifecycle, for any number of      *)
(* tasks, workers and handlers.                                            *)
(***************************************************************************)
EXTENDS TaskQueueProps, FiniteSetTheorems, TLAPS

----------------------------------------------------------------------------
(* Operators on rows stay within Row *)

LEMMA Ranges ==
  /\ MaxRetries \in Nat /\ HeartbeatTimeout \in Nat /\ MaxRequestAge \in Nat
  /\ OldestAge \in Nat /\ 0 \in Ages /\ NoBeat \in Ages /\ NoBeat = -1
  BY QueueAssumption DEF QueueAssumption, OldestAge, Ages, NoBeat

\* An unused id, and the rows that emitTask inserts, are well formed.
LEMMA AbsentRowType == AbsentRow \in Row
  <1>1. 0 \in 0..(MaxRetries + 1)
    BY Ranges
  <1>2. NoBeat \in Ages
    BY Ranges
  <1> QED BY <1>1, <1>2 DEF AbsentRow, Row, Statuses

LEMMA NewRowType == ASSUME NEW t \in Tasks PROVE NewRow(t) \in Row
  BY AbsentRowType DEF NewRow, AbsentRow, Row, Statuses, Outcomes

\* Time makes no row ill formed.
LEMMA OlderType == ASSUME NEW row \in Row PROVE Older(row) \in Row
  <1>1. row.hb # NoBeat /\ row.hb # OldestAge => row.hb + 1 \in Ages
    BY Ranges DEF Row, Ages
  <1> QED BY <1>1 DEF Older, Row

\* A claim stays within the schedule budget.
LEMMA ClaimedType ==
  ASSUME NEW row \in Row, NEW w \in Workers, NEW age, Claimable(row, age)
  PROVE  Claimed(row, w) \in Row
  <1>1. row.schedules + 1 \in 0..(MaxRetries + 1)
    BY Ranges DEF Claimable, Row
  <1>2. 0 \in Ages
    BY Ranges
  <1> QED BY <1>1, <1>2 DEF Claimed, Row, Statuses

\* Cancel and start entities, and what a save makes of them, are rows.
LEMMA EntityType ==
  ASSUME NEW row \in Row
  PROVE  CanceledEntity(row) \in Row /\ StartedEntity(row) \in Row
  BY DEF CanceledEntity, StartedEntity, Row, Statuses

LEMMA SavedType ==
  ASSUME NEW row \in Row, NEW entity \in Row, NEW base \in Row
  PROVE  Saved(row, entity, base) \in Row
  BY DEF Saved, Row

----------------------------------------------------------------------------
(* What a request at a given point carries *)

LEMMA RequestFields ==
  ASSUME NEW r \in Request
  PROVE
  /\ r.pc \in {"select", "claim"} => /\ r.worker \in Workers
                                     /\ r.age \in 0..MaxRequestAge
  /\ r.pc = "select" => r.limited \in SUBSET Namespaces
  /\ r.pc \in {"claim", "persist", "hook", "postprocess", "dispatch", "rerun",
               "load", "save"} => r.task \in Tasks
  /\ r.pc = "persist" => /\ r.by \in Workers
                         /\ r.owner \in Workers \cup {None}
  /\ r.pc \in {"persist", "hook"} => r.canceled \in BOOLEAN
  /\ r.pc \in {"persist", "hook", "postprocess"} => r.outcome \in Outcomes
  /\ r.pc \in {"load", "save"} => /\ r.op \in {"cancel", "start"}
                                  /\ r.entity \in Row
  /\ r.pc = "save" => r.base \in Row
  BY DEF Request, Idle

\* Time makes no request ill formed, within the bound on a poll's duration.
LEMMA AgedType ==
  ASSUME NEW r \in Request,
         r.pc \in {"select", "claim"} => r.age < MaxRequestAge
  PROVE  Aged(r) \in Request
  <1>1. CASE r.pc \in {"select", "claim"}
    <2>1. r.age + 1 \in 0..MaxRequestAge
      BY <1>1, RequestFields, Ranges
    <2>2. Aged(r) = [r EXCEPT !.age = @ + 1]
      BY <1>1 DEF Aged
    <2> QED BY <1>1, <2>1, <2>2 DEF Request, Idle
  <1>2. CASE r.pc = "load"
    <2>1. Aged(r) = [r EXCEPT !.entity = Older(@)]
      BY <1>2 DEF Aged
    <2>2. Older(r.entity) \in Row
      BY <1>2, RequestFields, OlderType
    <2> QED BY <1>2, <2>1, <2>2 DEF Request, Idle
  <1>3. CASE r.pc = "save"
    <2>1. Aged(r) = [r EXCEPT !.entity = Older(@), !.base = Older(@)]
      BY <1>3 DEF Aged
    <2>2. Older(r.entity) \in Row /\ Older(r.base) \in Row
      BY <1>3, RequestFields, OlderType
    <2> QED BY <1>3, <2>1, <2>2 DEF Request, Idle
  <1>4. CASE r.pc \notin {"select", "claim", "load", "save"}
    BY <1>4 DEF Aged
  <1> QED BY <1>1, <1>2, <1>3, <1>4
----------------------------------------------------------------------------
(* Type correctness *)

LEMMA InitType == Init => TypeOK
  <1> SUFFICES ASSUME Init PROVE TypeOK
    OBVIOUS
  <1>1. task \in [Tasks -> Row]
    BY AbsentRowType DEF Init
  <1>2. source \in [Tasks -> Source]
    BY DEF Init, Source, Client
  <1>3. req \in [Handlers -> Request]
    BY DEF Init, Request
  <1>4. runs \subseteq Run /\ effects \in [Tasks -> 0..EffectCap]
    BY DEF Init, EffectCap
  <1> QED BY <1>1, <1>2, <1>3, <1>4 DEF TypeOK

\* Every step of a handler keeps the types.
LEMMA StepType ==
  ASSUME TypeOK, NEW h \in Handlers, Step(h)
  PROVE  TypeOK'
  <1> USE DEF TypeOK
  <1>0. req[h] \in Request /\ Idle \in Request
    BY DEF Request
  <1>1. CASE SelectNothing(h) \/ ClaimLost(h) \/ PersistRefused(h)
               \/ DispatchDone(h) \/ Abort(h)
    BY <1>0, <1>1 DEF SelectNothing, ClaimLost, PersistRefused, DispatchDone,
                      Abort, Answer
  <1>2. CASE Persist(h)
    <2> DEFINE t == req[h].task
               row == [task[t] EXCEPT !.status = req[h].outcome, !.ended = TRUE]
    <2>1. t \in Tasks /\ req[h].outcome \in Outcomes /\ req[h].canceled \in BOOLEAN
      BY <1>0, <1>2, RequestFields DEF Persist
    <2>2. row \in Row
      <3>1. task[t] \in Row /\ req[h].outcome \in Statuses
        BY <2>1 DEF Statuses
      <3> QED BY <3>1 DEF Row
    <2>3. [pc |-> "hook", task |-> t, canceled |-> req[h].canceled,
           outcome |-> req[h].outcome] \in Request
      BY <2>1 DEF Request
    <2> QED BY <1>2, <2>1, <2>2, <2>3 DEF Persist, GoTo
  <1>3. CASE Hook(h)
    <2>1. req[h].task \in Tasks /\ req[h].outcome \in Outcomes
      BY <1>0, <1>3, RequestFields DEF Hook
    <2>2. [pc |-> "postprocess", task |-> req[h].task,
           outcome |-> req[h].outcome] \in Request
      BY <2>1 DEF Request
    <2> QED BY <1>0, <1>3, <2>2 DEF Hook, GoTo, Answer
  <1>4. CASE Postprocess(h)
    <2>1. req[h].task \in Tasks
      BY <1>0, <1>4, RequestFields DEF Postprocess
    <2>2. [pc |-> "dispatch", task |-> req[h].task] \in Request
      BY <2>1 DEF Request
    <2>3. effects' \in [Tasks -> 0..EffectCap]
      BY <1>4, <2>1 DEF Postprocess, EffectCap
    <2>4. req' \in [Handlers -> Request]
      BY <1>0, <1>4, <2>2 DEF Postprocess, GoTo, Answer
    <2> QED BY <1>4, <2>3, <2>4 DEF Postprocess
  <1>5. CASE Load(h)
    <2>1. /\ req[h].task \in Tasks /\ req[h].entity \in Row
          /\ req[h].op \in {"cancel", "start"}
      BY <1>0, <1>5, RequestFields DEF Load
    <2>2. [pc |-> "save", op |-> req[h].op, task |-> req[h].task,
           entity |-> req[h].entity, base |-> task[req[h].task]] \in Request
      BY <2>1 DEF Request
    <2> QED BY <1>5, <2>2 DEF Load, GoTo
  <1>6. ASSUME req[h].pc = "save"
        PROVE  /\ req[h].task \in Tasks
               /\ Saved(task[req[h].task], req[h].entity, req[h].base) \in Row
    BY <1>0, <1>6, RequestFields, SavedType
  <1>7. CASE Save(h)
    BY <1>0, <1>6, <1>7 DEF Save, Answer
  <1>8. ASSUME NEW b \in BOOLEAN, Claim(h, b)
        PROVE  TypeOK'
    <2>1. req[h].task \in Tasks /\ req[h].worker \in Workers
      BY <1>0, <1>8, RequestFields DEF Claim
    <2>2. Claimed(task[req[h].task], req[h].worker) \in Row
      BY <1>8, <2>1, ClaimedType DEF Claim
    <2>3. runs' \subseteq Run
      BY <1>8, <2>1 DEF Claim, Run
    <2> QED BY <1>0, <1>8, <2>1, <2>2, <2>3 DEF Claim, Answer
  <1>9. ASSUME NEW w \in Workers, BeginPoll(h, w)
        PROVE  TypeOK'
    <2>1. LimitedNamespaces \in SUBSET Namespaces
      BY DEF LimitedNamespaces
    <2>2. 0 \in 0..MaxRequestAge
      BY Ranges
    <2>3. [pc |-> "select", worker |-> w, age |-> 0,
           limited |-> LimitedNamespaces] \in Request
      BY <2>1, <2>2 DEF Request
    <2> QED BY <1>9, <2>3 DEF BeginPoll, GoTo
  <1>10. ASSUME NEW w \in Workers, SaveStarted(h, w)
         PROVE  TypeOK'
    BY <1>0, <1>6, <1>10 DEF SaveStarted, Answer, Run
  <1>11. ASSUME NEW t \in Tasks, BeginRerun(h, t)
         PROVE  TypeOK'
    <2>1. [pc |-> "rerun", task |-> t] \in Request
      BY DEF Request
    <2> QED BY <1>11, <2>1 DEF BeginRerun, GoTo
  <1>12. ASSUME NEW t \in Tasks, Rerun(h, t) \/ Dispatch(h, t)
         PROVE  TypeOK'
    <2>1. req[h].task \in Tasks
      BY <1>0, <1>12, RequestFields DEF Rerun, Dispatch
    <2>2. /\ [kind |-> "rerun", of |-> req[h].task] \in Source
          /\ [kind |-> "next", of |-> req[h].task] \in Source
      BY <2>1 DEF Source
    <2>3. NewRow(t) \in Row
      BY NewRowType
    <2>4. CASE Rerun(h, t)
      BY <1>0, <2>2, <2>3, <2>4 DEF Rerun, Insert, Answer
    <2>5. CASE Dispatch(h, t)
      BY <2>2, <2>3, <2>5 DEF Dispatch, Insert
    <2> QED BY <1>12, <2>4, <2>5
  <1>13. ASSUME NEW t \in Tasks, Select(h, t)
         PROVE  TypeOK'
    <2>1. req[h].worker \in Workers /\ req[h].age \in 0..MaxRequestAge
      BY <1>0, <1>13, RequestFields DEF Select
    <2>2. [pc |-> "claim", worker |-> req[h].worker, age |-> req[h].age,
           task |-> t] \in Request
      BY <2>1 DEF Request
    <2> QED BY <1>13, <2>2 DEF Select, GoTo
  <1>14. ASSUME NEW t \in Tasks, BeginCancel(h, t)
         PROVE  TypeOK'
    <2>1. [pc |-> "load", op |-> "cancel", task |-> t,
           entity |-> CanceledEntity(task[t])] \in Request
      BY EntityType DEF Request
    <2> QED BY <1>14, <2>1 DEF BeginCancel, GoTo
  <1>15. ASSUME NEW t \in Tasks, BeginStart(h, t)
         PROVE  TypeOK'
    <2>1. [pc |-> "load", op |-> "start", task |-> t,
           entity |-> StartedEntity(task[t])] \in Request
      BY EntityType DEF Request
    <2> QED BY <1>15, <2>1 DEF BeginStart, GoTo
  <1>16. ASSUME NEW r \in runs, NEW o \in Reported, BeginCallback(h, r, o)
         PROVE  TypeOK'
    <2>1. r \in Run /\ o \in Outcomes /\ r.task \in Tasks /\ r.worker \in Workers
      BY QueueAssumption DEF QueueAssumption, Outcomes, Run
    <2>2. task[r.task].worker \in Workers \cup {None} /\ task[r.task].canceled \in BOOLEAN
      BY <2>1 DEF Row
    <2>3. [pc |-> "persist", task |-> r.task, by |-> r.worker,
           owner |-> task[r.task].worker, canceled |-> task[r.task].canceled,
           outcome |-> o] \in Request
      BY <2>1, <2>2 DEF Request
    <2> QED BY <1>16, <2>3 DEF BeginCallback, GoTo
  <1> QED
    BY <1>1, <1>2, <1>3, <1>4, <1>5, <1>7, <1>8, <1>9, <1>10, <1>11, <1>12,
       <1>13, <1>14, <1>15, <1>16 DEF Step

\* So do the steps of clients, workers, the cron job and the clock.
LEMMA NextType == TypeOK /\ [Next]_vars => TypeOK'
  <1> SUFFICES ASSUME TypeOK, [Next]_vars PROVE TypeOK'
    OBVIOUS
  <1>1. ASSUME NEW h \in Handlers, Step(h) PROVE TypeOK'
    BY <1>1, StepType
  <1>2. ASSUME NEW t \in Tasks, Emit(t) PROVE TypeOK'
    BY <1>2, NewRowType DEF TypeOK, Emit, Insert, Client, Source
  <1>3. ASSUME NEW t \in Tasks, Delete(t) PROVE TypeOK'
    <2>1. [task[t] EXCEPT !.deleted = TRUE] \in Row
      BY DEF TypeOK, Row
    <2> QED BY <1>3, <2>1 DEF TypeOK, Delete
  <1>4. ASSUME NEW r \in runs, Heartbeat(r) PROVE TypeOK'
    <2>1. r.task \in Tasks
      BY DEF TypeOK, Run
    <2>2. [task[r.task] EXCEPT !.hb = 0] \in Row
      BY <2>1, Ranges DEF TypeOK, Row
    <2> QED BY <1>4, <2>1, <2>2 DEF TypeOK, Heartbeat
  <1>5. ASSUME NEW r \in runs, EndRun(r) PROVE TypeOK'
    BY <1>5 DEF TypeOK, EndRun
  <1>6. ASSUME NEW S \in Scopes, BulkCancel(S) PROVE TypeOK'
    <2>1. \A t \in Tasks : CanceledEntity(task[t]) \in Row
      BY EntityType DEF TypeOK
    <2> QED BY <1>6, <2>1 DEF TypeOK, BulkCancel
  <1>10. ASSUME NEW S \in Scopes, DeleteAccount(S) PROVE TypeOK'
    <2>1. \A t \in Tasks : [task[t] EXCEPT !.canceled = TRUE] \in Row
      BY DEF TypeOK, Row
    <2> QED BY <1>10, <2>1 DEF TypeOK, DeleteAccount
  <1>7. CASE Reap
    <2>1. \A t \in Tasks :
            [task[t] EXCEPT !.status = "error", !.ended = TRUE] \in Row
      BY ZenonT(40) DEF TypeOK, Row, Statuses, Outcomes
    <2> QED BY <1>7, <2>1 DEF TypeOK, Reap
  <1>8. CASE Tick
    <2>1. \A t \in Tasks : Older(task[t]) \in Row
      BY OlderType DEF TypeOK
    <2>2. \A h \in Handlers : Aged(req[h]) \in Request
      BY <1>8, AgedType DEF TypeOK, Tick
    <2> QED BY <1>8, <2>1, <2>2 DEF TypeOK, Tick
  <1>9. CASE UNCHANGED vars
    BY <1>9 DEF TypeOK, vars
  <1> QED BY <1>1, <1>2, <1>3, <1>4, <1>5, <1>6, <1>7, <1>8, <1>9, <1>10
       DEF Next

\* Rows, requests and executions keep their shape; in particular num_schedules
\* never exceeds MaxRetries + 1, whatever stale entities cancel and start write
\* back (claimTask, failTasksExceedingScheduleLimit).
THEOREM TypeCorrect == Spec => []TypeOK
  BY InitType, NextType, PTL DEF Spec
----------------------------------------------------------------------------
(* Results are applied at most once.  The cancel endpoint may save stale   *)
(* entities; nobody calls the start endpoint, which can put a settled task *)
(* back in the queue, for the tasks of a set S, whatever it does to others. *)

NoStart == "start" \notin Endpoints

\* No request of the start endpoint reads a task of S.
Unstarted(S) == \A h \in Handlers, t \in S : ~BeginStart(h, t)

\* The handlers that stored a result and have not applied it yet.
Applying(h) == req[h].pc \in {"hook", "postprocess"}

\* Entities waiting to be saved are canceled ones.
SavesCancel(S) ==
  \A h \in Handlers :
    req[h].pc \in {"load", "save"} /\ req[h].task \in S =>
      req[h].op = "cancel" /\ req[h].entity.status = "canceled"

\* What is not settled has no effect yet, and nobody is about to apply it.
UnsettledUnapplied(S) ==
  \A t \in S :
    task[t].status \notin Settled =>
      effects[t] = 0 /\ \A h \in Handlers : ~(Applying(h) /\ req[h].task = t)

\* The right to apply a result is held by one handler and not yet used.
OneApplier(S) ==
  /\ \A h \in Handlers :
       Applying(h) /\ req[h].task \in S => effects[req[h].task] = 0
  /\ \A g, h \in Handlers :
       /\ Applying(g) /\ Applying(h)
       /\ req[g].task = req[h].task /\ req[g].task \in S
       => g = h

AppliedOnce(S) == \A t \in S : effects[t] <= 1

ApplyInv(S) ==
  TypeOK /\ SavesCancel(S) /\ UnsettledUnapplied(S) /\ OneApplier(S) /\ AppliedOnce(S)

LEMMA InitApply == ASSUME NEW S \in SUBSET Tasks, Init PROVE ApplyInv(S)
  BY InitType DEF Init, ApplyInv, SavesCancel, UnsettledUnapplied, OneApplier,
                  Applying, AppliedOnce, Idle, AbsentRow

\* No step takes a settled task back.
Forward(S) ==
  \A t \in S : task[t].status \in Settled => task'[t].status \in Settled

\* A step that neither settles nor reopens a task, and gives no handler the
\* right to apply, keeps the invariant.
LEMMA QuietStep ==
  ASSUME NEW S \in SUBSET Tasks, ApplyInv(S), TypeOK', SavesCancel(S)', Forward(S),
         \A t \in S : effects'[t] = effects[t],
         \A h \in Handlers :
           Applying(h)' /\ req'[h].task \in S => /\ Applying(h)
                                                 /\ req'[h].task = req[h].task
  PROVE  ApplyInv(S)' /\ Forward(S)
  BY DEF ApplyInv, UnsettledUnapplied, OneApplier, AppliedOnce, Forward

\* Saving a canceled entity cancels a row or leaves its status alone.
LEMMA SaveStatus ==
  ASSUME NEW row \in Row, NEW entity \in Row, NEW base \in Row
  PROVE  Saved(row, entity, base).status \in {row.status, entity.status}
  BY DEF Saved, Row

LEMMA StepApply ==
  ASSUME NEW S \in SUBSET Tasks, Unstarted(S), ApplyInv(S), TypeOK',
         NEW h \in Handlers, Step(h)
  PROVE  ApplyInv(S)' /\ Forward(S)
  <1> USE DEF ApplyInv
  <1>0. /\ TypeOK /\ req[h] \in Request
        /\ Idle.pc = "idle"
    BY DEF TypeOK, Idle
  <1>1. CASE SelectNothing(h) \/ ClaimLost(h) \/ PersistRefused(h)
               \/ DispatchDone(h) \/ Abort(h)
    <2>1. task' = task /\ effects' = effects /\ req' = [req EXCEPT ![h] = Idle]
      BY <1>1 DEF SelectNothing, ClaimLost, PersistRefused, DispatchDone,
                  Abort, Answer
    <2> QED BY <1>0, <2>1, QuietStep DEF Forward, TypeOK, SavesCancel, Applying
  <1>2. CASE Persist(h)
    <2> DEFINE t == req[h].task
    <2>1. t \in Tasks /\ req[h].outcome \in Outcomes
      BY <1>0, <1>2, RequestFields DEF Persist
    <2>2. task[t].status = "running" /\ effects' = effects
      BY <1>2 DEF Persist, MayPersist
    <2>3. /\ task'[t].status \in Settled
          /\ \A u \in Tasks \ {t} : task'[u] = task[u]
      BY <1>0, <1>2, <2>1 DEF Persist, TypeOK, Row, Settled
    <2>4. /\ req'[h].pc = "hook" /\ req'[h].task = t
          /\ \A g \in Handlers \ {h} : req'[g] = req[g]
      BY <1>0, <1>2 DEF Persist, GoTo, TypeOK
    <2>5. t \in S => /\ effects[t] = 0
                     /\ \A g \in Handlers : ~(Applying(g) /\ req[g].task = t)
      BY <2>1, <2>2 DEF UnsettledUnapplied, Settled, Outcomes
    <2>6. SavesCancel(S)'
      BY <2>4 DEF SavesCancel
    <2>7. UnsettledUnapplied(S)'
      BY <2>1, <2>2, <2>3, <2>4, <2>5 DEF UnsettledUnapplied, Applying
    <2>8. OneApplier(S)'
      BY <2>2, <2>4, <2>5 DEF OneApplier, Applying
    <2>9. AppliedOnce(S)'
      BY <2>2 DEF AppliedOnce
    <2>10. Forward(S)
      BY <2>2, <2>3 DEF Forward, Settled, Outcomes
    <2> QED BY <2>6, <2>7, <2>8, <2>9, <2>10
  <1>3. CASE Hook(h)
    <2>1. /\ task' = task /\ effects' = effects /\ Applying(h)
          /\ req'[h].pc \in {"idle", "postprocess"}
          /\ req'[h].pc = "postprocess" => req'[h].task = req[h].task
          /\ \A g \in Handlers \ {h} : req'[g] = req[g]
      BY <1>0, <1>3 DEF Hook, GoTo, Answer, Applying, TypeOK
    <2>2. SavesCancel(S)'
      BY <2>1 DEF SavesCancel
    <2> QED BY <2>1, <2>2, QuietStep DEF Forward, Applying
  <1>4. CASE Postprocess(h)
    <2> DEFINE t == req[h].task
    <2>1. t \in Tasks
      BY <1>0, <1>4, RequestFields DEF Postprocess
    <2>2. Applying(h) /\ task' = task /\ (t \in S => effects[t] = 0)
      BY <1>4 DEF Postprocess, Applying, OneApplier
    <2>3. /\ t \in S => effects'[t] = 1
          /\ \A u \in Tasks \ {t} : effects'[u] = effects[u]
      BY <1>0, <1>4, <2>1, <2>2 DEF Postprocess, TypeOK, EffectCap
    <2>4. /\ req'[h].pc \in {"idle", "dispatch"}
          /\ \A g \in Handlers \ {h} : req'[g] = req[g]
      BY <1>0, <1>4 DEF Postprocess, GoTo, Answer, TypeOK
    <2>5. SavesCancel(S)'
      BY <2>4 DEF SavesCancel
    <2>6. t \in S => task[t].status \in Settled
      BY <2>1, <2>2 DEF UnsettledUnapplied
    <2>7. UnsettledUnapplied(S)'
      BY <2>2, <2>3, <2>4, <2>6 DEF UnsettledUnapplied, Applying
    <2>8. \A g \in Handlers : Applying(g)' => g # h /\ Applying(g) /\ req'[g] = req[g]
      BY <2>4 DEF Applying
    <2>9. \A g \in Handlers : Applying(g)' /\ req[g].task \in S => req[g].task # t
      BY <2>2, <2>8 DEF OneApplier
    <2>10. OneApplier(S)'
      BY <2>3, <2>8, <2>9 DEF OneApplier
    <2>11. AppliedOnce(S)'
      BY <2>3 DEF AppliedOnce
    <2>12. Forward(S)
      BY <2>2 DEF Forward
    <2> QED BY <2>5, <2>7, <2>10, <2>11, <2>12
  <1>5. CASE Load(h)
    <2>1. /\ task' = task /\ effects' = effects
          /\ req'[h].pc = "save" /\ req'[h].op = req[h].op
          /\ req'[h].entity = req[h].entity /\ req'[h].task = req[h].task
          /\ \A g \in Handlers \ {h} : req'[g] = req[g]
      BY <1>0, <1>5 DEF Load, GoTo, TypeOK
    <2>2. SavesCancel(S)'
      BY <1>5, <2>1 DEF Load, SavesCancel
    <2> QED BY <2>1, <2>2, QuietStep DEF Forward, Applying
  <1>6. CASE Save(h) \/ \E w \in Workers : SaveStarted(h, w)
    <2> DEFINE t == req[h].task
               row == Saved(task[t], req[h].entity, req[h].base)
    <2>1. /\ req[h].pc = "save" /\ effects' = effects
          /\ task' = [task EXCEPT ![t] = row]
          /\ req' = [req EXCEPT ![h] = Idle]
      BY <1>6 DEF Save, SaveStarted, Answer
    <2>2. t \in Tasks /\ req[h].entity \in Row /\ req[h].base \in Row
      BY <1>0, <2>1, RequestFields
    <2>3. task[t] \in Row
      BY <1>0, <2>2 DEF TypeOK
    <2>4. t \in S => row.status \in {task[t].status, "canceled"}
      BY <2>1, <2>2, <2>3, SaveStatus DEF SavesCancel
    <2>5. SavesCancel(S)'
      BY <1>0, <2>1 DEF SavesCancel, TypeOK
    <2> QED BY <1>0, <2>1, <2>2, <2>4, <2>5, QuietStep DEF Forward, TypeOK, Settled, Applying
  <1>7. ASSUME NEW b \in BOOLEAN, Claim(h, b)
        PROVE  ApplyInv(S)' /\ Forward(S)
    <2>1. req[h].task \in Tasks
      BY <1>0, <1>7, RequestFields DEF Claim
    <2>2. task[req[h].task].status \notin Settled
      BY <1>7 DEF Claim, Claimable, Open, Settled, Outcomes
    <2>3. /\ effects' = effects
          /\ \A u \in Tasks \ {req[h].task} : task'[u] = task[u]
          /\ req' = [req EXCEPT ![h] = Idle]
      BY <1>0, <1>7, <2>1 DEF Claim, Answer, TypeOK
    <2> QED BY <1>0, <2>1, <2>2, <2>3, QuietStep DEF Forward, TypeOK, SavesCancel, Applying
  <1>8. ASSUME NEW w \in Workers, BeginPoll(h, w)
        PROVE  ApplyInv(S)' /\ Forward(S)
    <2>1. /\ task' = task /\ effects' = effects /\ req'[h].pc = "select"
          /\ \A g \in Handlers \ {h} : req'[g] = req[g]
      BY <1>0, <1>8 DEF BeginPoll, GoTo, TypeOK
    <2> QED BY <2>1, QuietStep DEF Forward, SavesCancel, Applying
  <1>9. ASSUME NEW t \in Tasks, BeginRerun(h, t) \/ Select(h, t)
        PROVE  ApplyInv(S)' /\ Forward(S)
    <2>1. /\ task' = task /\ effects' = effects
          /\ req'[h].pc \in {"rerun", "claim"}
          /\ \A g \in Handlers \ {h} : req'[g] = req[g]
      BY <1>0, <1>9 DEF BeginRerun, Select, GoTo, TypeOK
    <2> QED BY <2>1, QuietStep DEF Forward, SavesCancel, Applying
  <1>10. ASSUME NEW t \in Tasks, Rerun(h, t) \/ Dispatch(h, t)
         PROVE  ApplyInv(S)' /\ Forward(S)
    <2>1. /\ effects' = effects /\ task[t].status = "absent"
          /\ \A u \in Tasks \ {t} : task'[u] = task[u]
          /\ req' = [req EXCEPT ![h] = Idle] \/ req' = req
      BY <1>0, <1>10 DEF Rerun, Dispatch, Insert, Answer, TypeOK
    <2> QED BY <1>0, <2>1, QuietStep
            DEF Forward, TypeOK, SavesCancel, Applying, Settled, Outcomes
  <1>11. ASSUME NEW t \in Tasks, BeginCancel(h, t)
         PROVE  ApplyInv(S)' /\ Forward(S)
    <2>1. /\ task' = task /\ effects' = effects
          /\ req'[h].pc = "load" /\ req'[h].op = "cancel"
          /\ req'[h].entity = CanceledEntity(task[t])
          /\ \A g \in Handlers \ {h} : req'[g] = req[g]
      BY <1>0, <1>11 DEF BeginCancel, GoTo, TypeOK
    <2>2. CanceledEntity(task[t]).status = "canceled"
      BY <1>0 DEF CanceledEntity, TypeOK, Row
    <2> QED BY <2>1, <2>2, QuietStep DEF Forward, SavesCancel, Applying
  <1>12. ASSUME NEW t \in Tasks, BeginStart(h, t)
         PROVE  ApplyInv(S)' /\ Forward(S)
    <2>1. /\ task' = task /\ effects' = effects
          /\ req'[h].pc = "load" /\ req'[h].task = t
          /\ \A g \in Handlers \ {h} : req'[g] = req[g]
      BY <1>0, <1>12 DEF BeginStart, GoTo, TypeOK
    <2>2. t \notin S
      BY <1>12 DEF Unstarted
    <2> QED BY <2>1, <2>2, QuietStep DEF Forward, SavesCancel, Applying
  <1>13. ASSUME NEW r \in runs, NEW o \in Reported, BeginCallback(h, r, o)
         PROVE  ApplyInv(S)' /\ Forward(S)
    <2>1. /\ task' = task /\ effects' = effects /\ req'[h].pc = "persist"
          /\ \A g \in Handlers \ {h} : req'[g] = req[g]
      BY <1>0, <1>13 DEF BeginCallback, GoTo, TypeOK
    <2> QED BY <2>1, QuietStep DEF Forward, SavesCancel, Applying
  <1> QED
    BY <1>1, <1>2, <1>3, <1>4, <1>5, <1>6, <1>7, <1>8, <1>9, <1>10, <1>11,
       <1>12, <1>13 DEF Step
LEMMA NextApply ==
  ASSUME NEW S \in SUBSET Tasks, [Unstarted(S)]_vars, ApplyInv(S), [Next]_vars
  PROVE  ApplyInv(S)' /\ Forward(S)
  <1> USE DEF ApplyInv
  <1>0. TypeOK /\ TypeOK' /\ \A u \in Tasks : task[u] \in Row
    BY NextType DEF TypeOK
  <1>9. CASE UNCHANGED vars
    BY <1>0, <1>9, QuietStep DEF Forward, vars, SavesCancel, Applying
  <1>1. ASSUME NEW h \in Handlers, Step(h) PROVE ApplyInv(S)' /\ Forward(S)
    BY <1>0, <1>1, <1>9, StepApply
  <1>2. ASSUME NEW t \in Tasks, Emit(t) PROVE ApplyInv(S)' /\ Forward(S)
    <2>1. /\ effects' = effects /\ req' = req /\ task[t].status = "absent"
          /\ \A u \in Tasks \ {t} : task'[u] = task[u]
      BY <1>0, <1>2 DEF Emit, Insert, TypeOK
    <2> QED BY <1>0, <2>1, QuietStep DEF Forward, SavesCancel, Applying, Settled, Outcomes
  <1>3. ASSUME NEW t \in Tasks, Delete(t) PROVE ApplyInv(S)' /\ Forward(S)
    <2>1. \A u \in Tasks : task'[u].status = task[u].status
      BY <1>0, <1>3 DEF Delete, Row
    <2> QED BY <1>0, <1>3, <2>1, QuietStep DEF Forward, Delete, SavesCancel, Applying
  <1>4. ASSUME NEW r \in runs, Heartbeat(r) PROVE ApplyInv(S)' /\ Forward(S)
    <2>1. \A u \in Tasks : task'[u].status = task[u].status
      BY <1>0, <1>4 DEF Heartbeat, Row
    <2> QED BY <1>0, <1>4, <2>1, QuietStep DEF Forward, Heartbeat, SavesCancel, Applying
  <1>5. ASSUME NEW r \in runs, EndRun(r) PROVE ApplyInv(S)' /\ Forward(S)
    BY <1>0, <1>5, QuietStep DEF Forward, EndRun, SavesCancel, Applying
  <1>6. ASSUME NEW C \in Scopes, BulkCancel(C) PROVE ApplyInv(S)' /\ Forward(S)
    <2>1. \A u \in Tasks : task'[u].status \in {task[u].status, "canceled"}
      BY <1>0, <1>6 DEF BulkCancel, CanceledEntity, Row
    <2> QED BY <1>0, <1>6, <2>1, QuietStep
            DEF Forward, BulkCancel, SavesCancel, Applying, Settled
  <1>10. ASSUME NEW C \in Scopes, DeleteAccount(C) PROVE ApplyInv(S)' /\ Forward(S)
    <2>1. \A u \in Tasks : task'[u].status = task[u].status
      BY <1>0, <1>10 DEF DeleteAccount, Row
    <2> QED BY <1>0, <1>10, <2>1, QuietStep
            DEF Forward, DeleteAccount, SavesCancel, Applying
  <1>7. CASE Reap
    <2>1. \A u \in Tasks : task'[u].status \in {task[u].status, "error"}
      BY <1>0, <1>7 DEF Reap, Row
    <2> QED BY <1>0, <1>7, <2>1, QuietStep
            DEF Forward, Reap, SavesCancel, Applying, Settled, Outcomes
  <1>8. CASE Tick
    <2>1. \A u \in Tasks : task'[u].status = task[u].status
      BY <1>0, <1>8 DEF Tick, Older, Row
    <2>2. ASSUME NEW h \in Handlers
          PROVE  /\ req'[h].pc = req[h].pc
                 /\ Applying(h) => req'[h] = req[h]
                 /\ req[h].pc \in {"load", "save"} =>
                      /\ req'[h].op = req[h].op /\ req'[h].task = req[h].task
                      /\ req'[h].entity.status = req[h].entity.status
      <3>1. req[h] \in Request /\ req'[h] = Aged(req[h])
        BY <1>0, <1>8 DEF Tick, TypeOK
      <3>2. CASE req[h].pc \notin {"select", "claim", "load", "save"}
        BY <3>1, <3>2 DEF Aged, Applying
      <3>3. CASE req[h].pc \in {"select", "claim"}
        <4>1. Aged(req[h]) = [req[h] EXCEPT !.age = @ + 1]
          BY <3>3 DEF Aged
        <4> QED BY <3>1, <3>3, <4>1 DEF Request, Idle, Applying
      <3>4. CASE req[h].pc = "load"
        <4>1. Aged(req[h]) = [req[h] EXCEPT !.entity = Older(@)]
          BY <3>4 DEF Aged
        <4>2. Older(req[h].entity).status = req[h].entity.status
          BY <3>1, <3>4, RequestFields DEF Older, Row
        <4> QED BY <3>1, <3>4, <4>1, <4>2 DEF Request, Idle, Applying
      <3>5. CASE req[h].pc = "save"
        <4>1. Aged(req[h]) = [req[h] EXCEPT !.entity = Older(@), !.base = Older(@)]
          BY <3>5 DEF Aged
        <4>2. Older(req[h].entity).status = req[h].entity.status
          BY <3>1, <3>5, RequestFields DEF Older, Row
        <4> QED BY <3>1, <3>5, <4>1, <4>2 DEF Request, Idle, Applying
      <3> QED BY <3>2, <3>3, <3>4, <3>5
    <2>3. SavesCancel(S)'
      BY <2>2 DEF SavesCancel
    <2>4. \A h \in Handlers : Applying(h)' =>
            Applying(h) /\ req'[h].task = req[h].task
      BY <2>2 DEF Applying
    <2> QED BY <1>0, <1>8, <2>1, <2>3, <2>4, QuietStep DEF Forward, Tick
  <1> QED BY <1>1, <1>2, <1>3, <1>4, <1>5, <1>6, <1>7, <1>8, <1>9, <1>10
       DEF Next

\* Without the endpoint no task is started.
LEMMA NeverStarted == ASSUME NoStart PROVE Unstarted(Tasks)
  BY DEF NoStart, Unstarted, BeginStart

\* However callbacks are repeated and raced by reclaims, the reaper, bulk and
\* single cancellations, a result is post-processed at most once
\* (WizardService.taskDoneCallback).
THEOREM ResultsAppliedOnce == NoStart => (Spec => []AppliedAtMostOnce)
  <1> SUFFICES ASSUME NoStart PROVE Spec => []AppliedAtMostOnce
    OBVIOUS
  <1>1. Init => ApplyInv(Tasks)
    BY InitApply
  <1>2. ApplyInv(Tasks) /\ [Next]_vars => ApplyInv(Tasks)'
    BY NextApply, NeverStarted
  <1>3. ApplyInv(Tasks) => AppliedAtMostOnce
    BY DEF ApplyInv, AppliedOnce, AppliedAtMostOnce
  <1> QED BY <1>1, <1>2, <1>3, PTL DEF Spec
\* A settled task never goes back to the queue, even under the stale saves of
\* the cancel endpoint (claimTask, cancelTaskOrFail).
THEOREM SettledNeverReopened == NoStart => (Spec => NeverReopened)
  <1> SUFFICES ASSUME NoStart PROVE Spec => NeverReopened
    OBVIOUS
  <1>1. Init => ApplyInv(Tasks)
    BY InitApply
  <1>2. ApplyInv(Tasks) /\ [Next]_vars => ApplyInv(Tasks)' /\ Forward(Tasks)
    BY NextApply, NeverStarted
  <1>3. Forward(Tasks) =>
          [\A t \in Tasks :
             task[t].status \in Settled => task'[t].status \notin Open]_vars
    BY DEF Forward, Settled, Outcomes, Open
  <1> QED BY <1>1, <1>2, <1>3, PTL DEF Spec, NeverReopened
----------------------------------------------------------------------------
(* What a step does to the requests in flight *)

\* A handler moves alone, and each of its points is reached from one place.
LEMMA HandlerMoves ==
  ASSUME TypeOK, NEW h \in Handlers, Step(h)
  PROVE
  /\ \A g \in Handlers \ {h} : req'[g] = req[g]
  /\ req'[h].pc = "select" => \E w \in Workers : BeginPoll(h, w)
  /\ req'[h].pc = "claim" => \E t \in Tasks : Select(h, t)
  /\ req'[h].pc = "persist" =>
       \E r \in runs, o \in Reported : BeginCallback(h, r, o)
  /\ req'[h].pc = "hook" => Persist(h)
  /\ req'[h].pc = "postprocess" => Hook(h)
  /\ req'[h].pc = "dispatch" =>
       Postprocess(h) \/ \E t \in Tasks : Dispatch(h, t)
  /\ req'[h].pc = "rerun" => \E t \in Tasks : BeginRerun(h, t)
  /\ req'[h].pc = "load" =>
       \E t \in Tasks : BeginCancel(h, t) \/ BeginStart(h, t)
  /\ req'[h].pc = "save" => Load(h)
  <1>0. req \in [Handlers -> Request] /\ Idle.pc = "idle"
    BY DEF TypeOK, Idle
  <1>1. CASE SelectNothing(h) \/ ClaimLost(h) \/ PersistRefused(h)
               \/ DispatchDone(h) \/ Abort(h) \/ Save(h)
               \/ (\E b \in BOOLEAN : Claim(h, b))
               \/ (\E w \in Workers : SaveStarted(h, w))
               \/ (\E t \in Tasks : Rerun(h, t))
    <2>1. req' = [req EXCEPT ![h] = Idle]
      BY <1>1 DEF SelectNothing, ClaimLost, PersistRefused, DispatchDone,
                  Abort, Save, Claim, SaveStarted, Rerun, Answer
    <2> QED BY <1>0, <2>1
  <1>2. CASE Persist(h)
    BY <1>0, <1>2 DEF Persist, GoTo
  <1>3. CASE Hook(h)
    BY <1>0, <1>3 DEF Hook, GoTo, Answer
  <1>4. CASE Postprocess(h)
    BY <1>0, <1>4 DEF Postprocess, GoTo, Answer
  <1>5. CASE Load(h)
    BY <1>0, <1>5 DEF Load, GoTo
  <1>6. CASE \E w \in Workers : BeginPoll(h, w)
    <2>1. /\ req'[h].pc = "select"
          /\ \A g \in Handlers \ {h} : req'[g] = req[g]
      BY <1>0, <1>6 DEF BeginPoll, GoTo
    <2> QED BY <1>6, <2>1
  <1>7. CASE \E t \in Tasks : BeginRerun(h, t)
    <2>1. /\ req'[h].pc = "rerun"
          /\ \A g \in Handlers \ {h} : req'[g] = req[g]
      BY <1>0, <1>7 DEF BeginRerun, GoTo
    <2> QED BY <1>7, <2>1
  <1>8. CASE \E t \in Tasks : Select(h, t)
    <2>1. /\ req'[h].pc = "claim"
          /\ \A g \in Handlers \ {h} : req'[g] = req[g]
      BY <1>0, <1>8 DEF Select, GoTo
    <2> QED BY <1>8, <2>1
  <1>9. CASE \E t \in Tasks : Dispatch(h, t)
    BY <1>0, <1>9 DEF Dispatch
  <1>10. CASE \E t \in Tasks : BeginCancel(h, t) \/ BeginStart(h, t)
    BY <1>0, <1>10 DEF BeginCancel, BeginStart, GoTo
  <1>11. CASE \E r \in runs, o \in Reported : BeginCallback(h, r, o)
    <2>1. /\ req'[h].pc = "persist"
          /\ \A g \in Handlers \ {h} : req'[g] = req[g]
      BY <1>0, <1>11 DEF BeginCallback, GoTo
    <2> QED BY <1>11, <2>1
  <1> QED
    BY <1>1, <1>2, <1>3, <1>4, <1>5, <1>6, <1>7, <1>8, <1>9, <1>10, <1>11
       DEF Step

\* Time changes neither what a request is about nor the status it has read.
LEMMA AgedKeeps ==
  ASSUME NEW r \in Request
  PROVE
  /\ Aged(r).pc = r.pc
  /\ r.pc \notin {"select", "claim", "load", "save"} => Aged(r) = r
  /\ r.pc \in {"claim", "load", "save"} => Aged(r).task = r.task
  /\ r.pc = "select" => Aged(r).limited = r.limited
  /\ r.pc = "save" => Aged(r).base.status = r.base.status
  <1>1. CASE r.pc \in {"select", "claim"}
    <2>1. Aged(r) = [r EXCEPT !.age = @ + 1]
      BY <1>1 DEF Aged
    <2> QED BY <1>1, <2>1 DEF Request, Idle
  <1>2. CASE r.pc = "load"
    <2>1. Aged(r) = [r EXCEPT !.entity = Older(@)]
      BY <1>2 DEF Aged
    <2> QED BY <1>2, <2>1 DEF Request, Idle
  <1>3. CASE r.pc = "save"
    <2>1. Aged(r) = [r EXCEPT !.entity = Older(@), !.base = Older(@)]
      BY <1>3 DEF Aged
    <2>2. Older(r.base).status = r.base.status
      BY <1>3, RequestFields DEF Older, Row
    <2> QED BY <1>3, <2>1, <2>2 DEF Request, Idle
  <1>4. CASE r.pc \notin {"select", "claim", "load", "save"}
    BY <1>4 DEF Aged
  <1> QED BY <1>1, <1>2, <1>3, <1>4

\* Outside the handlers only the clock touches requests.
LEMMA OtherMoves ==
  ASSUME TypeOK, [Next]_vars, ~\E h \in Handlers : Step(h), NEW g \in Handlers
  PROVE  req'[g] = req[g] \/ (Tick /\ req'[g] = Aged(req[g]))
  <1>1. CASE Tick
    BY <1>1 DEF Tick
  <1>2. CASE UNCHANGED vars
    BY <1>2 DEF vars
  <1>3. CASE Reap \/ (\E t \in Tasks : Emit(t) \/ Delete(t))
               \/ (\E r \in runs : Heartbeat(r) \/ EndRun(r))
               \/ (\E S \in Scopes : BulkCancel(S) \/ DeleteAccount(S))
    BY <1>3 DEF Reap, Emit, Delete, Heartbeat, EndRun, BulkCancel, DeleteAccount
  <1> QED BY <1>1, <1>2, <1>3 DEF Next
----------------------------------------------------------------------------
(* The worker whose report is stored owns the task *)

\* A report that waits to be stored found its task unowned or its own.
ReporterOwns ==
  \A h \in Handlers :
    req[h].pc = "persist" => req[h].owner \in {None, req[h].by}

LEMMA StepReporter ==
  ASSUME TypeOK, ReporterOwns, [Next]_vars
  PROVE  ReporterOwns'
  <1> SUFFICES ASSUME NEW g \in Handlers, req'[g].pc = "persist"
               PROVE  req'[g].owner \in {None, req'[g].by}
    BY DEF ReporterOwns
  <1>0. req \in [Handlers -> Request]
    BY DEF TypeOK
  <1>1. CASE req'[g] = req[g]
    BY <1>1 DEF ReporterOwns
  <1>2. ASSUME NEW h \in Handlers, Step(h), req'[g] # req[g]
        PROVE  req'[g].owner \in {None, req'[g].by}
    <2>1. PICK r \in runs, o \in Reported : BeginCallback(g, r, o)
      BY <1>2, HandlerMoves
    <2> QED BY <1>0, <2>1 DEF BeginCallback, GoTo, Accepts
  <1>3. CASE ~\E h \in Handlers : Step(h)
    <2>1. CASE req'[g] = Aged(req[g])
      <3>1. req[g] \in Request
        BY <1>0
      <3>2. req'[g] = req[g]
        BY <2>1, <3>1, AgedKeeps
      <3> QED BY <1>1, <3>2
    <2> QED BY <1>1, <1>3, <2>1, OtherMoves
  <1> QED BY <1>1, <1>2, <1>3

\* The worker whose result is stored owns the task when it is stored, although
\* taskDoneCallback checked its id at an earlier read, and nobody owns a task
\* that was started without a poll.
THEOREM OwnerAlwaysPersists == Spec => OnlyOwnerPersists
  <1>1. Init => TypeOK /\ ReporterOwns
    BY InitType DEF Init, ReporterOwns, Idle
  <1>2. TypeOK /\ ReporterOwns /\ [Next]_vars => (TypeOK /\ ReporterOwns)'
    BY NextType, StepReporter
  <1>3. TypeOK /\ ReporterOwns /\ [Next]_vars =>
          [\A h \in Handlers :
             req[h].pc = "persist" /\ req'[h].pc = "hook" =>
               task[req[h].task].worker \in {None, req[h].by}]_vars
    <2> SUFFICES ASSUME TypeOK, ReporterOwns, [Next]_vars, NEW g \in Handlers,
                        req[g].pc = "persist", req'[g].pc = "hook"
                 PROVE  task[req[g].task].worker \in {None, req[g].by}
      OBVIOUS
    <2>0. req[g] \in Request
      BY DEF TypeOK
    <2>1. ~(req'[g] = req[g] \/ req'[g] = Aged(req[g]))
      BY <2>0, AgedKeeps
    <2>2. PICK h \in Handlers : Step(h)
      BY <2>1, OtherMoves
    <2>3. Persist(g)
      BY <2>1, <2>2, HandlerMoves
    <2> QED BY <2>3 DEF Persist, MayPersist, ReporterOwns
  <1> QED BY <1>1, <1>2, <1>3, PTL DEF Spec, OnlyOwnerPersists
----------------------------------------------------------------------------
(* What a step does to a row *)

\* A cancellation under way, and a task that was settled when it was read again
\* is settled when it is saved.
SavesLate(S) ==
  \A h \in Handlers :
    /\ req[h].pc \in {"load", "save"} /\ req[h].task \in S => "cancel" \in Endpoints
    /\ /\ req[h].pc = "save" /\ req[h].task \in S
       /\ req[h].base.status \in Settled
       => task[req[h].task].status \in Settled

\* Every UPDATE and INSERT of the queue, without the start endpoint: a save of
\* the cancel endpoint writes some columns of an entity read before.
RowWrite(t, row, new) ==
  \/ new = row
  \/ row.status = "absent" /\ new = NewRow(t)
  \/ \E w \in Workers, age \in 0..MaxRequestAge :
       Claimable(row, age) /\ new = Claimed(row, w)
  \/ row.status = "running" /\ new = [row EXCEPT !.hb = 0]
  \/ /\ row.status = "running"
     /\ \E o \in Outcomes : new = [row EXCEPT !.status = o, !.ended = TRUE]
  \/ row.status # "absent" /\ MayChange(row) /\ new = CanceledEntity(row)
  \/ "delete_account" \in Endpoints /\ new = [row EXCEPT !.canceled = TRUE]
  \/ new = [row EXCEPT !.deleted = TRUE]
  \/ "cancel" \in Endpoints /\ new \in Row /\ new.status \in Settled

RowStep(t, row, new) == RowWrite(t, row, new) \/ new = Older(row)

\* The steps of a handler that write no row.
LEMMA ReadingStep ==
  ASSUME NEW h \in Handlers, Step(h), task' # task
  PROVE  \/ Persist(h) \/ Save(h)
         \/ \E b \in BOOLEAN : Claim(h, b)
         \/ \E w \in Workers : SaveStarted(h, w)
         \/ \E t \in Tasks : Rerun(h, t) \/ Dispatch(h, t)
  BY DEF Step, SelectNothing, ClaimLost, PersistRefused, Hook, Postprocess,
         DispatchDone, Load, Abort, BeginPoll, BeginRerun, Select, BeginCancel,
         BeginStart, BeginCallback

LEMMA SaveSettles ==
  ASSUME NEW S \in SUBSET Tasks, ApplyInv(S), SavesLate(S), NEW h \in Handlers,
         Save(h) \/ \E w \in Workers : SaveStarted(h, w)
  PROVE  /\ \A u \in Tasks \ {req[h].task} : task'[u] = task[u]
         /\ req[h].task \in S =>
              /\ "cancel" \in Endpoints
              /\ task'[req[h].task] \in Row
              /\ task'[req[h].task].status \in Settled
  <1> DEFINE t == req[h].task
             row == Saved(task[t], req[h].entity, req[h].base)
  <1>0. TypeOK /\ req[h] \in Request
    BY DEF ApplyInv, TypeOK
  <1>1. req[h].pc = "save" /\ task' = [task EXCEPT ![t] = row]
    BY DEF Save, SaveStarted
  <1>2. t \in Tasks /\ req[h].entity \in Row /\ req[h].base \in Row
    BY <1>0, <1>1, RequestFields
  <1>3. task[t] \in Row
    BY <1>0, <1>2 DEF TypeOK
  <1>4. row \in Row
    BY <1>2, <1>3, SavedType
  <1>5. ASSUME t \in S
        PROVE  row.status \in Settled
    <2>1. req[h].entity.status = "canceled"
      BY <1>1, <1>5 DEF ApplyInv, SavesCancel
    <2>2. CASE req[h].base.status = "canceled"
      <3>1. task[t].status \in Settled
        BY <1>1, <1>5, <2>2 DEF SavesLate, Settled
      <3> QED BY <1>2, <1>3, <2>1, <3>1, SaveStatus DEF Settled
    <2>3. CASE req[h].base.status # "canceled"
      BY <1>3, <2>1, <2>3 DEF Saved, Row, Settled
    <2> QED BY <2>2, <2>3
  <1>6. task'[t] = row /\ \A u \in Tasks \ {t} : task'[u] = task[u]
    BY <1>0, <1>1, <1>2 DEF TypeOK
  <1>7. t \in S => "cancel" \in Endpoints
    BY <1>1 DEF SavesLate
  <1> HIDE DEF row
  <1> QED BY <1>2, <1>4, <1>5, <1>6, <1>7

\* Every step takes every row of S through one of these writes.
LEMMA RowsStep ==
  ASSUME NEW S \in SUBSET Tasks, ApplyInv(S), SavesLate(S), [Next]_vars, NEW u \in S
  PROVE  \/ RowWrite(u, task[u], task'[u])
         \/ Tick /\ task'[u] = Older(task[u])
  <1>0. TypeOK /\ task \in [Tasks -> Row] /\ u \in Tasks
    BY DEF ApplyInv, TypeOK
  <1>1. ASSUME task' = task
        PROVE  RowWrite(u, task[u], task'[u])
    BY <1>1 DEF RowWrite
  <1>2. ASSUME NEW h \in Handlers, Persist(h)
        PROVE  RowWrite(u, task[u], task'[u])
    <2>1. req[h].outcome \in Outcomes /\ req[h].task \in Tasks
      BY <1>0, <1>2, RequestFields DEF Persist, TypeOK
    <2> QED BY <1>0, <1>2, <2>1 DEF Persist, MayPersist, RowWrite
  <1>3. ASSUME NEW h \in Handlers, Save(h) \/ \E w \in Workers : SaveStarted(h, w)
        PROVE  RowWrite(u, task[u], task'[u])
    BY <1>0, <1>3, SaveSettles DEF RowWrite
  <1>4. ASSUME NEW h \in Handlers, NEW b \in BOOLEAN, Claim(h, b)
        PROVE  RowWrite(u, task[u], task'[u])
    <2>1. /\ req[h].task \in Tasks /\ req[h].worker \in Workers
          /\ req[h].age \in 0..MaxRequestAge
      BY <1>0, <1>4, RequestFields DEF Claim, TypeOK
    <2>2. CASE u # req[h].task
      BY <1>0, <1>4, <2>1, <2>2 DEF Claim, RowWrite
    <2>3. CASE u = req[h].task
      <3>1. /\ Claimable(task[u], req[h].age)
            /\ task'[u] = Claimed(task[u], req[h].worker)
        BY <1>0, <1>4, <2>1, <2>3 DEF Claim
      <3> QED BY <2>1, <3>1 DEF RowWrite
    <2> QED BY <2>2, <2>3
  <1>5. ASSUME NEW h \in Handlers, NEW t \in Tasks, Rerun(h, t) \/ Dispatch(h, t)
        PROVE  RowWrite(u, task[u], task'[u])
    BY <1>0, <1>5 DEF Rerun, Dispatch, Insert, RowWrite
  <1>6. ASSUME NEW t \in Tasks, Emit(t)
        PROVE  RowWrite(u, task[u], task'[u])
    BY <1>0, <1>6 DEF Emit, Insert, RowWrite
  <1>7. ASSUME NEW t \in Tasks, Delete(t)
        PROVE  RowWrite(u, task[u], task'[u])
    BY <1>0, <1>7 DEF Delete, RowWrite
  <1>8. ASSUME NEW r \in runs, Heartbeat(r)
        PROVE  RowWrite(u, task[u], task'[u])
    BY <1>0, <1>8 DEF Heartbeat, RowWrite
  <1>9. ASSUME NEW C \in Scopes, BulkCancel(C)
        PROVE  RowWrite(u, task[u], task'[u])
    BY <1>0, <1>9 DEF BulkCancel, RowWrite
  <1>10. ASSUME NEW C \in Scopes, DeleteAccount(C)
         PROVE  RowWrite(u, task[u], task'[u])
    BY <1>0, <1>10 DEF DeleteAccount, RowWrite
  <1>11. CASE Reap
    BY <1>0, <1>11 DEF Reap, Reapable, RowWrite, Outcomes
  <1>12. CASE Tick
    BY <1>0, <1>12 DEF Tick
  <1>13. ASSUME NEW r \in runs, EndRun(r)
         PROVE  RowWrite(u, task[u], task'[u])
    BY <1>1, <1>13 DEF EndRun
  <1>14. CASE UNCHANGED vars
    BY <1>1, <1>14 DEF vars
  <1>15. ASSUME NEW h \in Handlers, Step(h)
         PROVE  RowWrite(u, task[u], task'[u])
    BY <1>1, <1>2, <1>3, <1>4, <1>5, <1>15, ReadingStep
  <1> QED BY <1>6, <1>7, <1>8, <1>9, <1>10, <1>11, <1>12, <1>13, <1>14, <1>15
          DEF Next

LEMMA StepLate ==
  ASSUME NEW S \in SUBSET Tasks, [Unstarted(S)]_vars, ApplyInv(S), SavesLate(S),
         Forward(S), [Next]_vars
  PROVE  SavesLate(S)'
  <1>0. TypeOK /\ req \in [Handlers -> Request]
    BY DEF ApplyInv, TypeOK
  <1> SUFFICES ASSUME NEW g \in Handlers, req'[g].pc \in {"load", "save"},
                      req'[g].task \in S
               PROVE  /\ "cancel" \in Endpoints
                      /\ req'[g].pc = "save" /\ req'[g].base.status \in Settled =>
                           task'[req'[g].task].status \in Settled
    BY DEF SavesLate
  <1>1. CASE req'[g] = req[g]
    BY <1>1 DEF SavesLate, Forward
  <1>2. CASE Load(g)
    <2>1. /\ req[g].pc = "load" /\ req'[g].task = req[g].task
          /\ req'[g].base = task[req'[g].task]
      BY <1>0, <1>2 DEF Load, GoTo
    <2> QED BY <2>1 DEF SavesLate, Forward
  <1>3. CASE UNCHANGED vars
    BY <1>1, <1>3 DEF vars
  <1>4. ASSUME NEW t \in Tasks, BeginCancel(g, t) \/ BeginStart(g, t)
        PROVE  "cancel" \in Endpoints /\ req'[g].pc = "load"
    <2>1. req'[g].pc = "load" /\ req'[g].task = t
      BY <1>0, <1>4 DEF BeginCancel, BeginStart, GoTo
    <2>2. ~UNCHANGED vars
      BY <1>4, <2>1 DEF vars, BeginCancel, BeginStart, Idle
    <2> QED BY <1>4, <2>1, <2>2 DEF Unstarted, BeginCancel
  <1>5. ASSUME NEW h \in Handlers, Step(h)
        PROVE  \/ req'[g] = req[g] \/ Load(g)
               \/ \E t \in Tasks : BeginCancel(g, t) \/ BeginStart(g, t)
    BY <1>0, <1>5, HandlerMoves
  <1>6. CASE ~\E h \in Handlers : Step(h)
    <2>1. req'[g] = req[g] \/ req'[g] = Aged(req[g])
      BY <1>0, <1>6, OtherMoves
    <2>2. CASE req'[g] = Aged(req[g])
      <3>1. /\ req'[g].pc = req[g].pc /\ req'[g].task = req[g].task
            /\ req'[g].pc = "save" => req'[g].base.status = req[g].base.status
        BY <1>0, <2>2, AgedKeeps
      <3> QED BY <3>1 DEF SavesLate, Forward
    <2> QED BY <1>1, <2>1, <2>2
  <1> QED BY <1>1, <1>2, <1>4, <1>5, <1>6

----------------------------------------------------------------------------
(* Leases *)

\* A row that waits has never been claimed, and a row that runs was claimed
\* and stamped.
Leased(row) ==
  /\ row.status \in {"absent", "pending"} =>
       ~row.started /\ row.hb = NoBeat /\ row.schedules = 0
  /\ row.status = "running" => row.started /\ row.hb # NoBeat

LEMMA LeasedStep ==
  ASSUME NEW t \in Tasks, NEW row \in Row, NEW new \in Row, Leased(row),
         RowStep(t, row, new)
  PROVE  Leased(new)
  <1> USE Ranges
  <1>1. CASE row.status = "absent" /\ new = NewRow(t)
    BY <1>1 DEF NewRow, AbsentRow, Leased
  <1>2. CASE \E w \in Workers, age \in 0..MaxRequestAge :
               Claimable(row, age) /\ new = Claimed(row, w)
    BY <1>2 DEF Claimed, Leased, Row
  <1>3. CASE row.status = "running" /\ new = [row EXCEPT !.hb = 0]
    BY <1>3 DEF Leased, Row
  <1>4. CASE /\ row.status = "running"
             /\ \E o \in Outcomes : new = [row EXCEPT !.status = o, !.ended = TRUE]
    BY <1>4 DEF Leased, Row, Outcomes
  <1>5. CASE row.status # "absent" /\ MayChange(row) /\ new = CanceledEntity(row)
    BY <1>5 DEF Leased, Row, CanceledEntity
  <1>6. CASE "delete_account" \in Endpoints /\ new = [row EXCEPT !.canceled = TRUE]
    BY <1>6 DEF Leased, Row
  <1>7. CASE new = [row EXCEPT !.deleted = TRUE]
    BY <1>7 DEF Leased, Row
  <1>8. CASE new = Older(row)
    <2>1. row.hb \in Ages
      BY DEF Row
    <2> QED BY <1>8, <2>1 DEF Leased, Row, Older, Ages
  <1>9. CASE "cancel" \in Endpoints /\ new \in Row /\ new.status \in Settled
    BY <1>9 DEF Leased, Settled, Outcomes
  <1> QED BY <1>1, <1>2, <1>3, <1>4, <1>5, <1>6, <1>7, <1>8, <1>9 DEF RowStep, RowWrite

LeaseInv(S) == ApplyInv(S) /\ SavesLate(S) /\ \A t \in S : Leased(task[t])

LEMMA InitLease == ASSUME NEW S \in SUBSET Tasks, Init PROVE LeaseInv(S)
  <1>1. SavesLate(S)
    BY DEF Init, SavesLate, Idle
  <1>2. \A t \in S : Leased(task[t])
    BY DEF Init, Leased, AbsentRow
  <1> QED BY <1>1, <1>2, InitApply DEF LeaseInv

LEMMA NextLease ==
  ASSUME NEW S \in SUBSET Tasks, [Unstarted(S)]_vars, LeaseInv(S), [Next]_vars
  PROVE  /\ LeaseInv(S)' /\ Forward(S)
         /\ \A t \in S : RowStep(t, task[t], task'[t])
  <1>1. ApplyInv(S)' /\ Forward(S)
    BY NextApply DEF LeaseInv
  <1>2. SavesLate(S)'
    BY <1>1, StepLate DEF LeaseInv
  <1>3. \A t \in S : RowStep(t, task[t], task'[t])
    BY RowsStep DEF LeaseInv, RowStep
  <1>4. ASSUME NEW t \in S PROVE Leased(task[t])'
    <2>1. task[t] \in Row /\ task'[t] \in Row /\ t \in Tasks
      BY <1>1 DEF LeaseInv, ApplyInv, TypeOK
    <2>2. Leased(task'[t])
      BY <1>3, <2>1, LeasedStep DEF LeaseInv
    <2> QED BY <2>2 DEF Leased
  <1> QED BY <1>1, <1>2, <1>3, <1>4 DEF LeaseInv

\* An open task can still be refreshed, claimed or reaped.
InReach(t) ==
  task[t].status \in Open =>
    Fresh(task[t]) \/ Claimable(task[t], 0) \/ Reapable(task[t])

LEMMA LeasedReach ==
  ASSUME NEW S \in SUBSET Tasks, LeaseInv(S), NEW t \in S
  PROVE  InReach(t)
  <1>1. task[t] \in Row /\ Leased(task[t])
    BY DEF LeaseInv, ApplyInv, TypeOK
  <1>2. task[t].hb \in Ages /\ task[t].schedules \in 0..(MaxRetries + 1)
    BY <1>1 DEF Row
  <1>3. CASE task[t].status = "pending"
    BY <1>1, <1>3, Ranges DEF InReach, Leased, Claimable, Open
  <1>4. CASE task[t].status = "running"
    BY <1>1, <1>2, <1>4, Ranges
       DEF InReach, Leased, Claimable, Reapable, Fresh, Stale, Open, Ages
  <1> QED BY <1>3, <1>4 DEF InReach, Open

\* No open task is out of reach of a heartbeat, a poll or the cron job, even
\* under the stale saves of the cancel endpoint (claimTask,
\* failTasksExceedingScheduleLimit, updateHeartbeat).
THEOREM NoTaskStranded == NoStart => (Spec => []NeverStranded)
  <1> SUFFICES ASSUME NoStart PROVE Spec => []NeverStranded
    OBVIOUS
  <1>1. Init => LeaseInv(Tasks)
    BY InitLease
  <1>2. LeaseInv(Tasks) /\ [Next]_vars => LeaseInv(Tasks)'
    BY NextLease, NeverStarted
  <1>3. LeaseInv(Tasks) => NeverStranded
    BY LeasedReach DEF InReach, NeverStranded
  <1> QED BY <1>1, <1>2, <1>3, PTL DEF Spec

\* A client who calls the start endpoint harms the tasks it starts and no
\* others: of all the tasks that are never started, whatever is done to the
\* rest, the result is applied at most once, none is out of reach, and none
\* that is settled goes back to the queue (startTask, cancelTaskOrFail,
\* taskDoneCallback, claimTask).
THEOREM UnstartedTasksSafe ==
  ASSUME NEW S \in SUBSET Tasks
  PROVE  Spec /\ [][Unstarted(S)]_vars =>
           /\ [](\A t \in S : effects[t] <= 1 /\ InReach(t))
           /\ [][\A t \in S :
                   task[t].status \in Settled => task'[t].status \notin Open]_vars
  <1>1. Init => LeaseInv(S)
    BY InitLease
  <1>2. LeaseInv(S) /\ [Next]_vars /\ [Unstarted(S)]_vars => LeaseInv(S)' /\ Forward(S)
    BY NextLease
  <1>3. LeaseInv(S) => \A t \in S : effects[t] <= 1 /\ InReach(t)
    BY LeasedReach DEF LeaseInv, ApplyInv, AppliedOnce
  <1>4. Forward(S) =>
          [\A t \in S :
             task[t].status \in Settled => task'[t].status \notin Open]_vars
    BY DEF Forward, Settled, Outcomes, Open
  <1> QED BY <1>1, <1>2, <1>3, <1>4, PTL DEF Spec

----------------------------------------------------------------------------
(* Coherent rows.  The endpoints that save a whole entity or write half of a  *)
(* cancellation are not in use.                                             *)

NoSaves == {"cancel", "start", "delete_account"} \cap Endpoints = {}

LEMMA CoherentStep ==
  ASSUME NoSaves, NEW t \in Tasks, NEW row \in Row, NEW new \in Row,
         Coherent(row), RowStep(t, row, new)
  PROVE  Coherent(new) /\ (row.status \in Settled => new.status = row.status)
  <1> USE Ranges
  <1>1. CASE row.status = "absent" /\ new = NewRow(t)
    BY <1>1 DEF NewRow, AbsentRow, Coherent, Outcomes, Settled
  <1>2. ASSUME NEW w \in Workers, NEW age \in 0..MaxRequestAge,
               Claimable(row, age), new = Claimed(row, w)
        PROVE  Coherent(new) /\ row.status \notin Settled
    <2>1. /\ new.status = "running" /\ new.started /\ new.hb = 0
          /\ new.worker = w /\ w # None
          /\ new.schedules = row.schedules + 1 /\ row.schedules \in Nat
          /\ new.ended = row.ended /\ new.canceled = row.canceled
      BY <1>2, QueueAssumption DEF Claimed, Row, QueueAssumption
    <2>2. row.status \in Open
      BY <1>2 DEF Claimable
    <2> QED BY <2>1, <2>2 DEF Coherent, Settled, Outcomes, Open
  <1>3. CASE row.status = "running" /\ new = [row EXCEPT !.hb = 0]
    BY <1>3 DEF Coherent, Row, Settled, Outcomes
  <1>4. CASE /\ row.status = "running"
             /\ \E o \in Outcomes : new = [row EXCEPT !.status = o, !.ended = TRUE]
    BY <1>4 DEF Coherent, Row, Settled, Outcomes
  <1>5. CASE row.status # "absent" /\ MayChange(row) /\ new = CanceledEntity(row)
    BY <1>5 DEF Coherent, Row, CanceledEntity, MayChange, Settled, Outcomes
  <1>6. "delete_account" \notin Endpoints /\ "cancel" \notin Endpoints
    BY DEF NoSaves
  <1>7. CASE new = [row EXCEPT !.deleted = TRUE]
    BY <1>7 DEF Coherent, Row, Settled, Outcomes
  <1>8. CASE new = Older(row)
    <2>1. row.hb \in Ages
      BY DEF Row
    <2> QED BY <1>8, <2>1 DEF Coherent, Row, Older, Ages, Settled, Outcomes
  <1> QED BY <1>1, <1>2, <1>3, <1>4, <1>5, <1>6, <1>7, <1>8
          DEF RowStep, RowWrite

\* What a handler still does about a task fits what became of the task.
RequestsFit ==
  \A h \in Handlers :
    /\ req[h].pc = "rerun" => task[req[h].task].status \in Retryable
    /\ req[h].pc \in {"hook", "postprocess"} =>
         task[req[h].task].status = req[h].outcome
    /\ req[h].pc = "dispatch" => /\ task[req[h].task].status = "finished"
                                 /\ effects[req[h].task] = 1

SourcesKnown ==
  \A t \in Tasks : source[t].kind # "client" => source[t].of \in Tasks

QueueInv ==
  /\ LeaseInv(Tasks)
  /\ \A t \in Tasks : Coherent(task[t])
  /\ RequestsFit /\ SourcesKnown /\ CausesHold

\* A settled task keeps its outcome.
OutcomesKept ==
  \A t \in Tasks : task[t].status \in Settled => task'[t].status = task[t].status

\* An applied result stays applied, and only a post-processing applies one.
LEMMA EffectsStep ==
  ASSUME ApplyInv(Tasks), [Next]_vars
  PROVE  \/ effects' = effects
         \/ \E h \in Handlers : /\ Postprocess(h) /\ req[h].task \in Tasks
                                /\ effects[req[h].task] = 0
                                /\ effects' = [effects EXCEPT ![req[h].task] = 1]
  <1>1. ASSUME NEW h \in Handlers, Postprocess(h)
        PROVE  /\ req[h].task \in Tasks /\ effects[req[h].task] = 0
               /\ effects' = [effects EXCEPT ![req[h].task] = 1]
    <2>1. req[h].task \in Tasks
      BY <1>1, RequestFields DEF Postprocess, ApplyInv, TypeOK
    <2>2. effects[req[h].task] = 0
      BY <1>1, <2>1 DEF Postprocess, ApplyInv, OneApplier, Applying
    <2> QED BY <1>1, <2>1, <2>2 DEF Postprocess, ApplyInv, TypeOK, EffectCap
  <1>2. ASSUME NEW h \in Handlers, Step(h), effects' # effects
        PROVE  Postprocess(h)
    BY <1>2 DEF Step, SelectNothing, ClaimLost, PersistRefused, Hook, Persist,
         DispatchDone, Load, Save, Abort, BeginPoll, BeginRerun, Select, Rerun,
         BeginCancel, BeginStart, BeginCallback, Claim, SaveStarted, Dispatch
  <1>3. (~\E h \in Handlers : Step(h)) => effects' = effects
    BY DEF Next, Emit, Delete, Heartbeat, EndRun, BulkCancel, DeleteAccount,
           Reap, Tick, vars
  <1> QED BY <1>1, <1>2, <1>3

LEMMA EffectsKept ==
  ASSUME ApplyInv(Tasks), [Next]_vars, NEW t \in Tasks, effects[t] = 1
  PROVE  effects'[t] = 1
  BY EffectsStep DEF ApplyInv, TypeOK

LEMMA RequestsStep ==
  ASSUME QueueInv, OutcomesKept, [Next]_vars
  PROVE  RequestsFit'
  <1>0. /\ ApplyInv(Tasks) /\ TypeOK /\ req \in [Handlers -> Request]
        /\ task \in [Tasks -> Row] /\ RequestsFit
    BY DEF QueueInv, LeaseInv, ApplyInv, TypeOK
  <1> DEFINE Points == {"rerun", "hook", "postprocess", "dispatch"}
  <1> SUFFICES ASSUME NEW g \in Handlers, req'[g].pc \in Points
               PROVE  /\ req'[g].pc = "rerun" =>
                           task'[req'[g].task].status \in Retryable
                      /\ req'[g].pc \in {"hook", "postprocess"} =>
                           task'[req'[g].task].status = req'[g].outcome
                      /\ req'[g].pc = "dispatch" =>
                           /\ task'[req'[g].task].status = "finished"
                           /\ effects'[req'[g].task] = 1
    BY DEF RequestsFit
  <1>1. CASE req'[g] = req[g]
    <2>1. req[g].task \in Tasks
      BY <1>0, <1>1, RequestFields
    <2>2. req[g].pc \in {"hook", "postprocess"} => req[g].outcome \in Outcomes
      BY <1>0, RequestFields
    <2>3. task[req[g].task].status \in Settled
      BY <1>0, <1>1, <2>2 DEF RequestsFit, Settled, Retryable, Outcomes
    <2>4. task'[req[g].task].status = task[req[g].task].status
      BY <2>1, <2>3 DEF OutcomesKept
    <2> QED BY <1>0, <1>1, <2>1, <2>4, EffectsKept DEF RequestsFit
  <1>2. CASE \E t \in Tasks : BeginRerun(g, t)
    <2>1. PICK t \in Tasks : BeginRerun(g, t)
      BY <1>2
    <2>2. /\ req'[g].pc = "rerun" /\ req'[g].task = t
          /\ task' = task /\ task[t].status \in Retryable
      BY <1>0, <2>1 DEF BeginRerun, GoTo
    <2> QED BY <2>2
  <1>3. CASE Persist(g)
    <2>1. req[g].task \in Tasks
      BY <1>0, <1>3, RequestFields DEF Persist
    <2>2. /\ req'[g].pc = "hook" /\ req'[g].task = req[g].task
          /\ req'[g].outcome = req[g].outcome
          /\ task'[req[g].task].status = req[g].outcome
      BY <1>0, <1>3, <2>1 DEF Persist, GoTo, Row
    <2> QED BY <2>2
  <1>4. CASE Hook(g) /\ req'[g].pc = "postprocess"
    <2>1. /\ req[g].pc = "hook" /\ req'[g].task = req[g].task
          /\ req'[g].outcome = req[g].outcome /\ task' = task
      BY <1>0, <1>4 DEF Hook, GoTo, Answer, Idle
    <2> QED BY <1>0, <1>4, <2>1 DEF RequestsFit
  <1>5. CASE Postprocess(g) /\ req'[g].pc = "dispatch"
    <2>1. req[g].task \in Tasks
      BY <1>0, <1>5, RequestFields DEF Postprocess
    <2>2. /\ req[g].pc = "postprocess" /\ req'[g].task = req[g].task
          /\ req[g].outcome = "finished" /\ task' = task
      BY <1>0, <1>5 DEF Postprocess, GoTo, Answer, Idle, MayDispatch
    <2>3. effects[req[g].task] = 0
      BY <1>0, <2>1, <2>2 DEF ApplyInv, OneApplier, Applying
    <2>4. effects'[req[g].task] = 1
      BY <1>0, <1>5, <2>1, <2>3 DEF Postprocess, TypeOK, EffectCap
    <2> QED BY <1>0, <1>5, <2>2, <2>4 DEF RequestsFit
  <1>6. CASE \E t \in Tasks : Dispatch(g, t)
    BY <1>1, <1>6 DEF Dispatch
  <1>7. ASSUME NEW h \in Handlers, Step(h)
        PROVE  \/ req'[g] = req[g]
               \/ \E t \in Tasks : BeginRerun(g, t)
               \/ Persist(g)
               \/ Hook(g) /\ req'[g].pc = "postprocess"
               \/ Postprocess(g) /\ req'[g].pc = "dispatch"
               \/ \E t \in Tasks : Dispatch(g, t)
    BY <1>0, <1>7, HandlerMoves
  <1>8. CASE ~\E h \in Handlers : Step(h)
    <2>1. req[g] \in Request
      BY <1>0
    <2>2. req'[g] = req[g]
      BY <1>0, <1>8, <2>1, OtherMoves, AgedKeeps
    <2> QED BY <1>1, <2>2
  <1> QED BY <1>1, <1>2, <1>3, <1>4, <1>5, <1>6, <1>7, <1>8

\* A row is inserted with the reason for it, and the reason stays.
LEMMA SourcesStep ==
  ASSUME QueueInv, OutcomesKept, [Next]_vars
  PROVE  SourcesKnown' /\ CausesHold'
  <1>0. /\ ApplyInv(Tasks) /\ TypeOK /\ req \in [Handlers -> Request]
        /\ task \in [Tasks -> Row] /\ source \in [Tasks -> Source]
        /\ RequestsFit /\ SourcesKnown /\ CausesHold
    BY DEF QueueInv, LeaseInv, ApplyInv, TypeOK
  <1>1. ASSUME NEW t \in Tasks
        PROVE  \/ source'[t] = source[t]
               \/ source'[t] = Client
               \/ \E h \in Handlers :
                    \/ /\ req[h].pc = "rerun" /\ req[h].task \in Tasks
                       /\ source'[t] = [kind |-> "rerun", of |-> req[h].task]
                    \/ /\ req[h].pc = "dispatch" /\ req[h].task \in Tasks
                       /\ source'[t] = [kind |-> "next", of |-> req[h].task]
    <2>1. ASSUME NEW h \in Handlers, NEW u \in Tasks, Rerun(h, u)
          PROVE  /\ req[h].pc = "rerun" /\ req[h].task \in Tasks
                 /\ source' = [source EXCEPT ![u] =
                                 [kind |-> "rerun", of |-> req[h].task]]
      BY <1>0, <2>1, RequestFields DEF Rerun, Insert
    <2>2. ASSUME NEW h \in Handlers, NEW u \in Tasks, Dispatch(h, u)
          PROVE  /\ req[h].pc = "dispatch" /\ req[h].task \in Tasks
                 /\ source' = [source EXCEPT ![u] =
                                 [kind |-> "next", of |-> req[h].task]]
      BY <1>0, <2>2, RequestFields DEF Dispatch, Insert
    <2>3. ASSUME NEW u \in Tasks, Emit(u)
          PROVE  source' = [source EXCEPT ![u] = Client]
      BY <2>3 DEF Emit, Insert
    <2>4. ASSUME NEW h \in Handlers, Step(h)
          PROVE  source' = source \/ \E u \in Tasks : Rerun(h, u) \/ Dispatch(h, u)
      BY <2>4 DEF Step, SelectNothing, ClaimLost, PersistRefused, Hook, Persist,
           DispatchDone, Load, Save, Abort, BeginPoll, BeginRerun, Select,
           BeginCancel, BeginStart, BeginCallback, Claim, SaveStarted, Postprocess
    <2>5. (~\E h \in Handlers : Step(h)) =>
            source' = source \/ \E u \in Tasks : Emit(u)
      BY DEF Next, Delete, Heartbeat, EndRun, BulkCancel, DeleteAccount,
             Reap, Tick, vars
    <2>6. CASE source' = source
      BY <2>6
    <2>7. CASE \E u \in Tasks : Emit(u)
      BY <1>0, <2>3, <2>7
    <2>8. ASSUME NEW h \in Handlers, NEW u \in Tasks, Rerun(h, u)
          PROVE  source'[t] = source[t] \/
                 /\ req[h].pc = "rerun" /\ req[h].task \in Tasks
                 /\ source'[t] = [kind |-> "rerun", of |-> req[h].task]
      BY <1>0, <2>1, <2>8
    <2>9. ASSUME NEW h \in Handlers, NEW u \in Tasks, Dispatch(h, u)
          PROVE  source'[t] = source[t] \/
                 /\ req[h].pc = "dispatch" /\ req[h].task \in Tasks
                 /\ source'[t] = [kind |-> "next", of |-> req[h].task]
      BY <1>0, <2>2, <2>9
    <2> QED BY <2>4, <2>5, <2>6, <2>7, <2>8, <2>9
  <1>2. ASSUME NEW of \in Tasks, task[of].status \in Settled
        PROVE  task'[of].status = task[of].status
    BY <1>2 DEF OutcomesKept
  <1>3. ASSUME NEW t \in Tasks
        PROVE  /\ source'[t].kind # "client" => source'[t].of \in Tasks
               /\ source'[t].kind = "next" =>
                    /\ task'[source'[t].of].status = "finished"
                    /\ effects'[source'[t].of] = 1
               /\ source'[t].kind = "rerun" =>
                    task'[source'[t].of].status \in Retryable
    <2>1. CASE source'[t] = source[t]
      <3>1. source[t].kind # "client" => source[t].of \in Tasks
        BY <1>0 DEF SourcesKnown
      <3>2. source[t].kind = "next" => /\ task[source[t].of].status = "finished"
                                       /\ effects[source[t].of] = 1
        BY <1>0 DEF CausesHold
      <3>3. source[t].kind = "rerun" => task[source[t].of].status \in Retryable
        BY <1>0 DEF CausesHold
      <3> QED BY <1>0, <1>2, <2>1, <3>1, <3>2, <3>3, EffectsKept
              DEF Settled, Outcomes, Retryable
    <2>2. CASE source'[t] = Client
      BY <2>2 DEF Client
    <2>3. ASSUME NEW h \in Handlers, req[h].pc = "rerun", req[h].task \in Tasks,
                 source'[t] = [kind |-> "rerun", of |-> req[h].task]
          PROVE  source'[t].kind = "rerun" /\ source'[t].of \in Tasks
                 /\ task'[source'[t].of].status \in Retryable
      <3>1. task[req[h].task].status \in Retryable
        BY <1>0, <2>3 DEF RequestsFit
      <3> QED BY <1>2, <2>3, <3>1 DEF Settled, Outcomes, Retryable
    <2>4. ASSUME NEW h \in Handlers, req[h].pc = "dispatch", req[h].task \in Tasks,
                 source'[t] = [kind |-> "next", of |-> req[h].task]
          PROVE  source'[t].kind = "next" /\ source'[t].of \in Tasks
                 /\ task'[source'[t].of].status = "finished"
                 /\ effects'[source'[t].of] = 1
      <3>1. task[req[h].task].status = "finished" /\ effects[req[h].task] = 1
        BY <1>0, <2>4 DEF RequestsFit
      <3> QED BY <1>0, <1>2, <2>4, <3>1, EffectsKept DEF Settled, Outcomes
    <2> QED BY <1>1, <2>1, <2>2, <2>3, <2>4
  <1> QED BY <1>3 DEF SourcesKnown, CausesHold

LEMMA InitQueue == Init => QueueInv
  <1> SUFFICES ASSUME Init PROVE QueueInv
    OBVIOUS
  <1>1. \A t \in Tasks : Coherent(task[t])
    BY DEF Init, Coherent, AbsentRow, Outcomes
  <1>2. RequestsFit /\ SourcesKnown /\ CausesHold
    BY DEF Init, RequestsFit, SourcesKnown, CausesHold, Idle, Client
  <1> QED BY <1>1, <1>2, InitLease DEF QueueInv

LEMMA NextQueue ==
  ASSUME NoSaves, QueueInv, [Next]_vars
  PROVE  QueueInv' /\ OutcomesKept
  <1>1. NoStart
    BY DEF NoSaves, NoStart
  <1>2. LeaseInv(Tasks)' /\ \A t \in Tasks : RowStep(t, task[t], task'[t])
    BY <1>1, NextLease, NeverStarted DEF QueueInv
  <1>3. ASSUME NEW t \in Tasks
        PROVE  /\ Coherent(task'[t])
               /\ task[t].status \in Settled => task'[t].status = task[t].status
    <2>1. task[t] \in Row /\ task'[t] \in Row /\ Coherent(task[t])
      BY <1>2 DEF QueueInv, LeaseInv, ApplyInv, TypeOK
    <2> QED BY <1>2, <2>1, CoherentStep
  <1>4. OutcomesKept
    BY <1>3 DEF OutcomesKept
  <1>5. (\A t \in Tasks : Coherent(task[t]))'
    BY <1>3 DEF Coherent
  <1> QED BY <1>2, <1>4, <1>5, RequestsStep, SourcesStep DEF QueueInv

\* Without whole-entity saves no interleaving of the conditional UPDATEs leaves
\* a half-written row, and every follow-up and rerun keeps the reason it was
\* emitted for (taskDoneCallback, dispatchNextTasks, rerunTask,
\* cancelResourceTasks).
THEOREM RowsAlwaysCoherent == NoSaves => (Spec => []RowsCoherent)
  <1> SUFFICES ASSUME NoSaves PROVE Spec => []RowsCoherent
    OBVIOUS
  <1>1. Init => QueueInv
    BY InitQueue
  <1>2. QueueInv /\ [Next]_vars => QueueInv'
    BY NextQueue
  <1>3. QueueInv => RowsCoherent
    BY DEF QueueInv, RowsCoherent
  <1> QED BY <1>1, <1>2, <1>3, PTL DEF Spec

----------------------------------------------------------------------------
(* Executions.  Live ones refresh their heartbeats in time (Timely).       *)

\* What an execution was handed is running under its worker with a fresh
\* heartbeat, or settled.
RunHolds(r) ==
  /\ task[r.task].status \notin {"absent", "pending"}
  /\ task[r.task].status = "running" =>
       /\ task[r.task].worker = r.worker
       /\ task[r.task].hb # NoBeat /\ task[r.task].hb <= HeartbeatTimeout

\* No two executions run one task of S.
OneRun(S) == \A r, s \in runs : r.task = s.task /\ r.task \in S => r = s

RunsInv(S) ==
  LeaseInv(S) /\ OneRun(S) /\ \A r \in runs : r.task \in S => RunHolds(r)

\* An execution of a task of S starts with a claim, and a claim takes no held
\* task.
LEMMA RunsStep ==
  ASSUME NEW S \in SUBSET Tasks, RunsInv(S), [Next]_vars
  PROVE  \/ \A r \in runs' : r.task \in S => r \in runs
         \/ \E h \in Handlers :
              /\ Claim(h, TRUE)
              /\ runs' = runs \cup {[task |-> req[h].task, worker |-> req[h].worker]}
  <1>1. ASSUME NEW h \in Handlers, NEW w \in Workers, SaveStarted(h, w)
        PROVE  \A r \in runs' : r.task \in S => r \in runs
    <2>1. /\ req[h].pc = "save" /\ req[h].op = "start"
          /\ runs' = runs \cup {[task |-> req[h].task, worker |-> w]}
      BY <1>1 DEF SaveStarted
    <2>2. req[h].task \notin S
      BY <2>1 DEF RunsInv, LeaseInv, ApplyInv, SavesCancel
    <2> QED BY <2>1, <2>2
  <1>2. ASSUME NEW h \in Handlers, NEW b \in BOOLEAN, Claim(h, b)
        PROVE  \/ runs' = runs
               \/ /\ Claim(h, TRUE)
                  /\ runs' = runs \cup {[task |-> req[h].task, worker |-> req[h].worker]}
    BY <1>2 DEF Claim
  <1>3. ASSUME NEW h \in Handlers, Step(h)
        PROVE  \/ runs' = runs
               \/ \E b \in BOOLEAN : Claim(h, b)
               \/ \E w \in Workers : SaveStarted(h, w)
    BY <1>3 DEF Step, SelectNothing, ClaimLost, PersistRefused, Hook, Persist,
         DispatchDone, Load, Save, Abort, BeginPoll, BeginRerun, Select, Rerun,
         BeginCancel, BeginStart, BeginCallback, Dispatch, Postprocess
  <1>4. (~\E h \in Handlers : Step(h)) => runs' \subseteq runs
    BY DEF Next, Emit, Delete, Heartbeat, EndRun, BulkCancel, DeleteAccount,
           Reap, Tick, vars
  <1> QED BY <1>1, <1>2, <1>3, <1>4

LEMMA HeldNotClaimable ==
  ASSUME TypeOK, NEW r \in runs, RunHolds(r), NEW age \in 0..MaxRequestAge
  PROVE  ~Claimable(task[r.task], age)
  <1>1. r.task \in Tasks /\ task[r.task] \in Row
    BY DEF TypeOK, Run
  <1>2. task[r.task].hb \in Ages
    BY <1>1 DEF Row
  <1> QED BY <1>2, Ranges DEF RunHolds, Claimable, Stale, Open, Ages

LEMMA HeldStep ==
  ASSUME NEW S \in SUBSET Tasks, Timely, RunsInv(S), [Next]_vars,
         NEW r \in runs, r.task \in S
  PROVE  RunHolds(r)'
  <1> DEFINE row == task[r.task]
             new == task'[r.task]
  <1>0. /\ TypeOK /\ r.task \in Tasks /\ row \in Row /\ RunHolds(r)
        /\ row.hb \in Ages
    BY DEF RunsInv, LeaseInv, ApplyInv, TypeOK, Run, Row
  <1> SUFFICES /\ new.status \notin {"absent", "pending"}
               /\ new.status = "running" =>
                    /\ new.worker = r.worker
                    /\ new.hb # NoBeat /\ new.hb <= HeartbeatTimeout
    BY DEF RunHolds
  <1>1. RowWrite(r.task, row, new) \/ (Tick /\ new = Older(row))
    BY <1>0, RowsStep DEF RunsInv, LeaseInv
  <1>2. CASE Tick /\ new = Older(row)
    <2>1. ~(row.status = "running" /\ row.worker = r.worker
              /\ row.hb >= HeartbeatTimeout)
      BY <1>2 DEF Tick, BeatDue
    <2>2. CASE row.status = "running"
      <3>1. /\ row.hb # NoBeat /\ row.worker = r.worker
            /\ row.hb + 1 <= HeartbeatTimeout
        BY <1>0, <2>1, <2>2, Ranges DEF RunHolds, Ages
      <3>2. /\ new.status = row.status /\ new.worker = row.worker
            /\ new.hb \in {row.hb, row.hb + 1}
        BY <1>0, <1>2 DEF Older, Row
      <3> QED BY <1>0, <2>2, <3>1, <3>2, Ranges DEF Ages
    <2>3. CASE row.status # "running"
      BY <1>0, <1>2, <2>3 DEF Older, RunHolds, Row
    <2> QED BY <2>2, <2>3
  <1>3. CASE RowWrite(r.task, row, new)
    <2>1. \A age \in 0..MaxRequestAge : ~Claimable(row, age)
      BY <1>0, HeldNotClaimable
    <2>2. row.status \notin {"absent", "pending"}
      BY <1>0 DEF RunHolds
    <2>3. CASE row.status = "running" /\ new = [row EXCEPT !.hb = 0]
      BY <1>0, <2>3, Ranges DEF RunHolds, Row
    <2>4. CASE /\ row.status = "running"
               /\ \E o \in Outcomes : new = [row EXCEPT !.status = o, !.ended = TRUE]
      BY <1>0, <2>4 DEF Row, Outcomes
    <2>5. CASE MayChange(row) /\ new = CanceledEntity(row)
      BY <1>0, <2>5 DEF CanceledEntity, Row
    <2>6. CASE new = row \/ new = [row EXCEPT !.canceled = TRUE]
                 \/ new = [row EXCEPT !.deleted = TRUE]
      BY <1>0, <2>6 DEF RunHolds, Row
    <2>7. CASE new.status \in Settled
      BY <2>7 DEF Settled, Outcomes
    <2> QED BY <1>3, <2>1, <2>2, <2>3, <2>4, <2>5, <2>6, <2>7 DEF RowWrite
  <1> QED BY <1>1, <1>2, <1>3

LEMMA NextRuns ==
  ASSUME NEW S \in SUBSET Tasks, [Unstarted(S)]_vars, Timely, RunsInv(S), [Next]_vars
  PROVE  RunsInv(S)'
  <1>1. LeaseInv(S)'
    BY NextLease DEF RunsInv
  <1>2. \A r \in runs : r.task \in S => RunHolds(r)'
    BY HeldStep
  <1>3. CASE \A r \in runs' : r.task \in S => r \in runs
    <2>1. OneRun(S)'
      BY <1>3 DEF RunsInv, OneRun
    <2> QED BY <1>1, <1>2, <1>3, <2>1 DEF RunsInv
  <1>4. ASSUME NEW h \in Handlers, Claim(h, TRUE),
               runs' = runs \cup {[task |-> req[h].task, worker |-> req[h].worker]}
        PROVE  RunsInv(S)'
    <2>0. TypeOK /\ req[h] \in Request
      BY DEF RunsInv, LeaseInv, ApplyInv, TypeOK
    <2>1. /\ req[h].task \in Tasks /\ req[h].worker \in Workers
          /\ req[h].age \in 0..MaxRequestAge
      BY <1>4, <2>0, RequestFields DEF Claim
    <2>2. /\ Claimable(task[req[h].task], req[h].age)
          /\ task'[req[h].task] = Claimed(task[req[h].task], req[h].worker)
      BY <1>4, <2>0, <2>1 DEF Claim, TypeOK
    <2>3. \A r \in runs : r.task \in S => r.task # req[h].task
      BY <2>0, <2>1, <2>2, HeldNotClaimable DEF RunsInv
    <2>4. PICK new \in Run : new = [task |-> req[h].task, worker |-> req[h].worker]
      BY <2>1 DEF Run
    <2>5. RunHolds(new)'
      <3>1. task[req[h].task] \in Row
        BY <2>0, <2>1 DEF TypeOK
      <3>2. /\ task'[req[h].task].status = "running"
            /\ task'[req[h].task].worker = req[h].worker
            /\ task'[req[h].task].hb = 0
        BY <2>2, <3>1 DEF Claimed, Row
      <3> QED BY <2>4, <3>2, Ranges DEF RunHolds
    <2>6. runs' = runs \cup {new} /\ new.task = req[h].task
      BY <1>4, <2>4
    <2>7. OneRun(S)'
      BY <2>3, <2>6 DEF RunsInv, OneRun
    <2> QED BY <1>1, <1>2, <2>5, <2>6, <2>7 DEF RunsInv
  <1> QED BY <1>3, <1>4, RunsStep

LEMMA InitRuns == ASSUME NEW S \in SUBSET Tasks, Init PROVE RunsInv(S)
  BY InitLease DEF Init, RunsInv, OneRun

\* While executions that live refresh their heartbeats in time, no two run one
\* task: claims, reclaims with an old cutoff and cancellations never hand out
\* what somebody still holds (claimTask, updateHeartbeat).
THEOREM ExecutionsExclusive ==
  NoStart /\ Timely => (Spec => []ExclusiveExecution)
  <1> SUFFICES ASSUME NoStart, Timely PROVE Spec => []ExclusiveExecution
    OBVIOUS
  <1>1. Init => RunsInv(Tasks)
    BY InitRuns
  <1>2. RunsInv(Tasks) /\ [Next]_vars => RunsInv(Tasks)'
    BY NextRuns, NeverStarted
  <1>3. RunsInv(Tasks) => ExclusiveExecution
    BY DEF RunsInv, LeaseInv, ApplyInv, TypeOK, OneRun, Run, ExclusiveExecution
  <1> QED BY <1>1, <1>2, <1>3, PTL DEF Spec

\* A start hands a task to whoever sent it beside the worker that holds it:
\* it endangers that task alone, and every task that is never started is run by
\* one execution at a time (startTask, claimTask, updateHeartbeat).
THEOREM UnstartedTasksExclusive ==
  ASSUME NEW S \in SUBSET Tasks, Timely
  PROVE  Spec /\ [][Unstarted(S)]_vars => []OneRun(S)
  <1>1. Init => RunsInv(S)
    BY InitRuns
  <1>2. RunsInv(S) /\ [Next]_vars /\ [Unstarted(S)]_vars => RunsInv(S)'
    BY NextRuns
  <1>3. RunsInv(S) => OneRun(S)
    BY DEF RunsInv
  <1> QED BY <1>1, <1>2, <1>3, PTL DEF Spec

----------------------------------------------------------------------------
(* The parallelism limit.  What a namespace executes and the polls that may *)
(* still add to it stay below the limit and the number of handlers.         *)

Claiming(n) ==
  {h \in Handlers : \/ req[h].pc = "claim" /\ NamespaceOf[req[h].task] = n
                    \/ req[h].pc = "select" /\ n \notin req[h].limited}

SlotsInv ==
  /\ RunsInv(Tasks)
  /\ \A n \in Namespaces :
       /\ IsFiniteSet(Executing(n))
       /\ Cardinality(Executing(n)) + Cardinality(Claiming(n))
            <= EffectiveLimit(n) + Cardinality(Handlers) - 1

\* Only a claim makes a task execute: a heartbeat refreshes what is fresh.
LEMMA ExecutingStep ==
  ASSUME NoStart, Timely, RunsInv(Tasks), [Next]_vars, NEW t \in Tasks,
         task'[t].status = "running", Fresh(task[t])', ~task'[t].deleted,
         ~\E h \in Handlers, b \in BOOLEAN : Claim(h, b) /\ t = req[h].task
  PROVE  task[t].status = "running" /\ Fresh(task[t]) /\ ~task[t].deleted
  <1>0. /\ TypeOK /\ task \in [Tasks -> Row] /\ task' \in [Tasks -> Row]
        /\ task[t] \in Row /\ task'[t] \in Row /\ task[t].hb \in Ages
        /\ req \in [Handlers -> Request]
    BY NextRuns, NeverStarted DEF RunsInv, LeaseInv, ApplyInv, TypeOK, Row
  <1>1. CASE task'[t] = task[t]
    BY <1>1 DEF Fresh
  <1>2. ASSUME NEW h \in Handlers, Persist(h)
        PROVE  task'[t] = task[t]
    <2>1. req[h].outcome \in Outcomes /\ req[h].task \in Tasks
      BY <1>0, <1>2, RequestFields DEF Persist
    <2> QED BY <1>0, <1>2, <2>1 DEF Persist, Row, Outcomes
  <1>3. ASSUME NEW h \in Handlers, Save(h) \/ \E w \in Workers : SaveStarted(h, w)
        PROVE  task'[t] = task[t]
    BY <1>0, <1>3, SaveSettles, RequestFields DEF RunsInv, LeaseInv, Save, SaveStarted, Settled, Outcomes
  <1>4. ASSUME NEW h \in Handlers, NEW b \in BOOLEAN, Claim(h, b)
        PROVE  task'[t] = task[t]
    BY <1>0, <1>4 DEF Claim
  <1>5. ASSUME NEW u \in Tasks, task' = [task EXCEPT ![u] = NewRow(u)]
        PROVE  task'[t] = task[t]
    BY <1>0, <1>5 DEF NewRow, AbsentRow
  <1>6. ASSUME NEW h \in Handlers, NEW u \in Tasks, Rerun(h, u) \/ Dispatch(h, u)
        PROVE  task'[t] = task[t]
    BY <1>5, <1>6 DEF Rerun, Dispatch, Insert
  <1>7. ASSUME NEW u \in Tasks, Emit(u) \/ Delete(u)
        PROVE  task'[t] = task[t]
    BY <1>0, <1>5, <1>7 DEF Emit, Insert, Delete, Row
  <1>8. ASSUME NEW r \in runs, Heartbeat(r)
        PROVE  task[t].status = "running" /\ Fresh(task[t]) /\ ~task[t].deleted
    <2>1. r.task \in Tasks /\ RunHolds(r) /\ task[r.task].status = "running"
      BY <1>8 DEF Heartbeat, RunsInv, LeaseInv, ApplyInv, TypeOK, Run
    <2>2. CASE t = r.task
      BY <1>0, <1>8, <2>1, <2>2 DEF Heartbeat, RunHolds, Fresh, Row
    <2>3. CASE t # r.task
      BY <1>0, <1>1, <1>8, <2>1, <2>3 DEF Heartbeat
    <2> QED BY <2>2, <2>3
  <1>9. ASSUME NEW S \in Scopes, BulkCancel(S)
        PROVE  task'[t] = task[t]
    BY <1>0, <1>9 DEF BulkCancel, CanceledEntity, Row
  <1>10. ASSUME NEW S \in Scopes, DeleteAccount(S)
         PROVE  task[t].status = "running" /\ Fresh(task[t]) /\ ~task[t].deleted
    <2>1. task'[t] = task[t] \/ task'[t] = [task[t] EXCEPT !.canceled = TRUE]
      BY <1>0, <1>10 DEF DeleteAccount
    <2> QED BY <1>0, <1>1, <2>1 DEF Fresh, Row
  <1>11. CASE Reap
    <2>1. task'[t] = task[t]
      BY <1>0, <1>11 DEF Reap, Row
    <2> QED BY <1>1, <2>1
  <1>12. CASE Tick
    <2>1. task'[t] = Older(task[t])
      BY <1>0, <1>12 DEF Tick
    <2>2. CASE task[t].hb = NoBeat \/ task[t].hb = OldestAge
      BY <1>1, <2>1, <2>2 DEF Older
    <2>3. CASE ~(task[t].hb = NoBeat \/ task[t].hb = OldestAge)
      <3>1. /\ task'[t].hb = task[t].hb + 1 /\ task'[t].status = task[t].status
            /\ task'[t].deleted = task[t].deleted
        BY <1>0, <2>1, <2>3 DEF Older, Row
      <3> QED BY <1>0, <2>3, <3>1, Ranges DEF Fresh, Ages
    <2> QED BY <2>2, <2>3
  <1>13. ASSUME NEW r \in runs, EndRun(r)
         PROVE  task'[t] = task[t]
    BY <1>13 DEF EndRun
  <1>14. CASE UNCHANGED vars
    BY <1>1, <1>14 DEF vars
  <1>15. ASSUME NEW h \in Handlers, Step(h)
         PROVE  task'[t] = task[t]
    BY <1>2, <1>3, <1>4, <1>6, <1>15, ReadingStep
  <1> QED BY <1>1, <1>7, <1>8, <1>9, <1>10, <1>11, <1>12, <1>13, <1>14, <1>15
          DEF Next

\* Only a poll that begins is new among those that may still claim.
LEMMA ClaimingStep ==
  ASSUME TypeOK, [Next]_vars, NEW n, NEW g \in Claiming(n)'
  PROVE  g \in Claiming(n) \/ \E w \in Workers : BeginPoll(g, w)
  <1>0. /\ g \in Handlers /\ req \in [Handlers -> Request] /\ req[g] \in Request
        /\ \/ req'[g].pc = "claim" /\ NamespaceOf[req'[g].task] = n
           \/ req'[g].pc = "select" /\ n \notin req'[g].limited
    BY DEF TypeOK, Claiming
  <1>1. CASE req'[g] = req[g]
    BY <1>0, <1>1 DEF Claiming
  <1>2. ASSUME NEW t \in Tasks, Select(g, t)
        PROVE  g \in Claiming(n)
    <2>1. /\ req'[g].pc = "claim" /\ req'[g].task = t /\ req[g].pc = "select"
          /\ NamespaceOf[t] \notin req[g].limited
      BY <1>0, <1>2 DEF Select, GoTo, Candidates
    <2> QED BY <1>0, <2>1 DEF Claiming
  <1>3. CASE req'[g] = Aged(req[g])
    BY <1>0, <1>3, AgedKeeps DEF Claiming
  <1>4. ASSUME NEW h \in Handlers, Step(h)
        PROVE  g \in Claiming(n) \/ \E w \in Workers : BeginPoll(g, w)
    BY <1>0, <1>1, <1>2, <1>4, HandlerMoves
  <1> QED BY <1>0, <1>1, <1>3, <1>4, OtherMoves

LEMMA Limits ==
  ASSUME NEW n \in Namespaces
  PROVE  /\ MaxParallelism[n] \in Nat /\ EffectiveLimit(n) \in Nat
         /\ EffectiveLimit(n) >= 1 /\ EffectiveLimit(n) >= MaxParallelism[n]
         /\ MaxParallelism[n] # 0 => EffectiveLimit(n) = MaxParallelism[n]
  <1>1. MaxParallelism[n] \in Nat
    BY QueueAssumption DEF QueueAssumption
  <1> QED BY <1>1 DEF EffectiveLimit

\* A poll that finds room starts below the limit.
LEMMA RoomFound ==
  ASSUME NEW n \in Namespaces, n \notin LimitedNamespaces,
         IsFiniteSet(Executing(n))
  PROVE  Cardinality(Executing(n)) <= EffectiveLimit(n) - 1
  <1>1. Cardinality(Executing(n)) \in Nat
    BY FS_CardinalityType
  <1>2. CASE Executing(n) = {}
    <2>1. Cardinality(Executing(n)) = 0
      BY <1>2, FS_EmptySet
    <2> QED BY <2>1, Limits
  <1>3. CASE Executing(n) # {}
    <2>1. Cardinality(Executing(n)) < MaxParallelism[n]
      BY <1>1, <1>3, Limits DEF LimitedNamespaces
    <2> QED BY <1>1, <2>1, Limits
  <1> QED BY <1>2, <1>3

LEMMA SlotsStep ==
  ASSUME NoStart, Timely, IsFiniteSet(Handlers), SlotsInv, [Next]_vars,
         NEW n \in Namespaces
  PROVE  /\ IsFiniteSet(Executing(n)')
         /\ Cardinality(Executing(n)') + Cardinality(Claiming(n)')
              <= EffectiveLimit(n) + Cardinality(Handlers) - 1
  <1> DEFINE E == Executing(n)
             C == Claiming(n)
             H == Cardinality(Handlers)
             L == EffectiveLimit(n)
  <1>0. /\ RunsInv(Tasks) /\ TypeOK /\ req \in [Handlers -> Request]
        /\ IsFiniteSet(E) /\ Cardinality(E) + Cardinality(C) <= L + H - 1
    BY DEF SlotsInv, RunsInv, LeaseInv, ApplyInv, TypeOK
  <1>1. /\ C \in SUBSET Handlers /\ C' \in SUBSET Handlers
        /\ IsFiniteSet(C) /\ IsFiniteSet(C')
        /\ Cardinality(C) \in Nat /\ Cardinality(C') \in Nat
        /\ Cardinality(C') <= H /\ H \in Nat /\ L \in Nat
        /\ Cardinality(E) \in Nat
    <2>1. C \in SUBSET Handlers /\ C' \in SUBSET Handlers
      BY DEF Claiming
    <2>2. IsFiniteSet(C) /\ IsFiniteSet(C') /\ Cardinality(C') <= H
      BY <2>1, FS_Subset
    <2> QED BY <1>0, <2>1, <2>2, FS_CardinalityType, Limits
  <1>2. ASSUME E' \subseteq E, C' \subseteq C
        PROVE  IsFiniteSet(E') /\ Cardinality(E') + Cardinality(C') <= L + H - 1
    <2>1. /\ IsFiniteSet(E') /\ Cardinality(E') <= Cardinality(E)
          /\ Cardinality(C') <= Cardinality(C)
      BY <1>0, <1>1, <1>2, FS_Subset
    <2>2. Cardinality(E') \in Nat
      BY <2>1, FS_CardinalityType
    <2> HIDE DEF E, C, H, L
    <2> QED BY <1>0, <1>1, <2>1, <2>2
  <1>3. ASSUME NEW h \in Handlers, NEW w \in Workers, BeginPoll(h, w)
        PROVE  IsFiniteSet(E') /\ Cardinality(E') + Cardinality(C') <= L + H - 1
    <2>1. E' = E
      BY <1>3 DEF BeginPoll, Executing, Busy, Fresh
    <2>2. CASE n \in LimitedNamespaces
      <3>1. /\ req'[h].pc = "select" /\ req'[h].limited = LimitedNamespaces
            /\ \A g \in Handlers \ {h} : req'[g] = req[g]
        BY <1>0, <1>3 DEF BeginPoll, GoTo
      <3>2. C' \subseteq C
        BY <2>2, <3>1 DEF Claiming
      <3> HIDE DEF E, C, H, L
      <3> QED BY <1>2, <2>1, <3>2
    <2>3. CASE n \notin LimitedNamespaces
      <3>1. Cardinality(E) <= L - 1
        BY <1>0, <2>3, RoomFound
      <3> HIDE DEF E, C, H, L
      <3> QED BY <1>0, <1>1, <2>1, <3>1
    <2> QED BY <2>2, <2>3
  <1>4. ASSUME NEW h \in Handlers, NEW b \in BOOLEAN, Claim(h, b),
               NamespaceOf[req[h].task] = n
        PROVE  IsFiniteSet(E') /\ Cardinality(E') + Cardinality(C') <= L + H - 1
    <2>1. req[h].task \in Tasks
      BY <1>0, <1>4, RequestFields DEF Claim
    <2>2. E' \subseteq E \cup {req[h].task}
      <3>1. ASSUME NEW t \in E', t # req[h].task PROVE t \in E
        <4>1. task'[t] = task[t]
          BY <1>0, <1>4, <2>1, <3>1 DEF Claim, Executing, Busy, TypeOK
        <4> QED BY <3>1, <4>1 DEF Executing, Busy, Fresh
      <3> QED BY <3>1
    <2>3. h \in C /\ C' \subseteq C \ {h}
      <3>1. /\ req[h].pc = "claim" /\ req'[h].pc = "idle"
            /\ \A g \in Handlers \ {h} : req'[g] = req[g]
        BY <1>0, <1>4 DEF Claim, Answer, Idle
      <3> QED BY <1>4, <3>1 DEF Claiming
    <2> DEFINE t == req[h].task
    <2> HIDE DEF E, C, H, L, t
    <2>4. PICK F : F = E \cup {t}
      OBVIOUS
    <2>5. IsFiniteSet(F) /\ Cardinality(F) \in Nat /\ Cardinality(F) <= Cardinality(E) + 1
      <3>1. /\ IsFiniteSet(E \cup {t})
            /\ Cardinality(E \cup {t}) =
                 IF t \in E THEN Cardinality(E) ELSE Cardinality(E) + 1
        BY <1>0, FS_AddElement
      <3> QED BY <1>1, <2>4, <3>1
    <2>6. /\ IsFiniteSet(E') /\ Cardinality(E') <= Cardinality(F)
      BY <2>2, <2>4, <2>5, FS_Subset DEF t
    <2>7. PICK D : D = C \ {h}
      OBVIOUS
    <2>8. IsFiniteSet(D) /\ Cardinality(D) = Cardinality(C) - 1
      BY <1>1, <2>3, <2>7, FS_RemoveElement
    <2>9. Cardinality(C') <= Cardinality(D)
      BY <2>3, <2>7, <2>8, FS_Subset
    <2>10. Cardinality(E') \in Nat
      BY <2>6, FS_CardinalityType
    <2> QED BY <1>0, <1>1, <2>5, <2>6, <2>8, <2>9, <2>10
  <1>5. CASE /\ ~\E h \in Handlers, w \in Workers : BeginPoll(h, w)
             /\ ~\E h \in Handlers, b \in BOOLEAN :
                   Claim(h, b) /\ NamespaceOf[req[h].task] = n
    <2>1. C' \subseteq C
      BY <1>0, <1>1, <1>5, ClaimingStep
    <2>2. ASSUME NEW t \in E' PROVE t \in E
      <3>1. /\ t \in Tasks /\ NamespaceOf[t] = n /\ task'[t].status = "running"
            /\ Fresh(task[t])' /\ ~task'[t].deleted
        BY <2>2 DEF Executing, Busy
      <3>2. ~\E h \in Handlers, b \in BOOLEAN : Claim(h, b) /\ t = req[h].task
        BY <1>5, <3>1
      <3>3. task[t].status = "running" /\ Fresh(task[t]) /\ ~task[t].deleted
        BY <1>0, <3>1, <3>2, ExecutingStep
      <3> QED BY <3>1, <3>3 DEF Executing, Busy
    <2>3. E' \subseteq E
      BY <2>2
    <2> QED BY ONLY <1>2, <2>1, <2>3
  <1> QED BY <1>3, <1>4, <1>5

LEMMA InitSlots == IsFiniteSet(Handlers) /\ Init => SlotsInv
  <1> SUFFICES ASSUME IsFiniteSet(Handlers), Init, NEW n \in Namespaces
               PROVE  /\ IsFiniteSet(Executing(n))
                      /\ Cardinality(Executing(n)) + Cardinality(Claiming(n))
                           <= EffectiveLimit(n) + Cardinality(Handlers) - 1
    BY InitRuns DEF SlotsInv
  <1>1. Executing(n) = {} /\ Claiming(n) = {}
    BY DEF Init, Executing, Busy, Claiming, AbsentRow, Idle
  <1>2. Cardinality(Handlers) \in Nat
    BY FS_CardinalityType
  <1>3. IsFiniteSet({}) /\ Cardinality({}) = 0
    BY FS_EmptySet
  <1> QED BY <1>1, <1>2, <1>3, Limits

\* Polls check the parallelism limit before they claim, so they can overshoot
\* it, but by less than the number of requests that are served at once
\* (listNamespacesAtParallelismLimit, getNextTaskV2, claimTask).
THEOREM OvershootAlwaysBounded ==
  NoStart /\ Timely /\ IsFiniteSet(Handlers) => (Spec => []OvershootBounded)
  <1> SUFFICES ASSUME NoStart, Timely, IsFiniteSet(Handlers)
               PROVE  Spec => []OvershootBounded
    OBVIOUS
  <1>1. Init => SlotsInv
    BY InitSlots
  <1>2. SlotsInv /\ [Next]_vars => SlotsInv'
    <2> SUFFICES ASSUME SlotsInv, [Next]_vars PROVE SlotsInv'
      OBVIOUS
    <2>1. RunsInv(Tasks)'
      BY NextRuns, NeverStarted DEF SlotsInv
    <2>2. ASSUME NEW n \in Namespaces
          PROVE  /\ IsFiniteSet(Executing(n)')
                 /\ Cardinality(Executing(n)') + Cardinality(Claiming(n)')
                      <= EffectiveLimit(n) + Cardinality(Handlers) - 1
      BY SlotsStep
    <2> QED BY <2>1, <2>2 DEF SlotsInv, EffectiveLimit
  <1>3. SlotsInv => OvershootBounded
    <2> SUFFICES ASSUME SlotsInv, NEW n \in Namespaces
                 PROVE  Cardinality(Executing(n))
                          <= EffectiveLimit(n) + Cardinality(Handlers) - 1
      BY DEF OvershootBounded
    <2>1. IsFiniteSet(Claiming(n))
      BY FS_Subset DEF Claiming
    <2> QED BY <2>1, FS_CardinalityType, Limits DEF SlotsInv
  <1> QED BY <1>1, <1>2, <1>3, PTL DEF Spec

----------------------------------------------------------------------------
(* The queue implements the lifecycle *)

LEMMA PhaseOf ==
  ASSUME NEW row \in Row
  PROVE  /\ row.status \notin {"error", "timeout", "insufficient_quota"} =>
              Phase(row) = row.status
         /\ row.status \in {"error", "timeout", "insufficient_quota"} =>
              Phase(row) = "failed"
  BY DEF Phase

\* A step that changes no phase, source or effect is none of the lifecycle.
LEMMA LifecycleStutter ==
  ASSUME \A t \in Tasks : Phase(task'[t]) = Phase(task[t]),
         source' = source, effects' = effects
  PROVE  [Lifecycle!Next]_Lifecycle!vars
  <1>1. [t \in Tasks |-> Phase(task[t])]' = [t \in Tasks |-> Phase(task[t])]
    BY DEF Phase
  <1> QED BY <1>1 DEF Lifecycle!vars

\* Tasks that move together.
LEMMA LifecycleMove ==
  ASSUME TypeOK, TypeOK', NEW S \in SUBSET Tasks, NEW From, NEW p,
         \A t \in S : Phase(task[t]) \in From /\ Phase(task'[t]) = p,
         \A t \in Tasks \ S : task'[t] = task[t],
         source' = source, effects' = effects
  PROVE  Lifecycle!Move(S, From, p)
  <1>1. \A t \in Tasks : Phase(task'[t]) = IF t \in S THEN p ELSE Phase(task[t])
    OBVIOUS
  <1>2. [t \in Tasks |-> Phase(task[t])]' =
          [t \in Tasks |-> IF t \in S THEN p
                                      ELSE [u \in Tasks |-> Phase(task[u])][t]]
    BY <1>1 DEF Phase
  <1> QED BY <1>2 DEF Lifecycle!Move

LEMMA LifecycleEmit ==
  ASSUME TypeOK, NEW t \in Tasks, NEW c \in Source, task[t].status = "absent",
         Insert(t, c), effects' = effects,
         \/ c = Client
         \/ c.kind = "next" /\ c.of \in Tasks
              /\ task[c.of].status = "finished" /\ effects[c.of] = 1
         \/ c.kind = "rerun" /\ c.of \in Tasks
              /\ task[c.of].status \in Retryable
  PROVE  Lifecycle!Next
  <1>0. /\ task \in [Tasks -> Row] /\ source \in [Tasks -> Source]
        /\ \A u \in Tasks : task[u] \in Row
    BY DEF TypeOK
  <1> DEFINE p == Phase(NewRow(t))
             ph == [u \in Tasks |-> Phase(task[u])]
  <1>1. ph[t] = "absent"
    BY <1>0, PhaseOf
  <1>2. p \in {"pending", "failed"}
    BY DEF NewRow, AbsentRow, Phase
  <1>3. Lifecycle!Justified(c)
    <2>1. CASE c = Client
      BY <2>1 DEF Client, Lifecycle!Justified
    <2>2. CASE c.kind = "next" /\ c.of \in Tasks
                 /\ task[c.of].status = "finished" /\ effects[c.of] = 1
      BY <1>0, <2>2, PhaseOf DEF Lifecycle!Justified
    <2>3. CASE c.kind = "rerun" /\ c.of \in Tasks
                 /\ task[c.of].status \in Retryable
      BY <1>0, <2>3, PhaseOf DEF Lifecycle!Justified, Lifecycle!Failed, Retryable
    <2> QED BY <2>1, <2>2, <2>3
  <1>4. [u \in Tasks |-> Phase(task[u])]' = [ph EXCEPT ![t] = p]
    <2>1. \A u \in Tasks : task'[u] = IF u = t THEN NewRow(t) ELSE task[u]
      BY <1>0 DEF Insert
    <2> QED BY <2>1 DEF Phase
  <1>5. c \in Lifecycle!Causes
    BY DEF Source, Lifecycle!Causes
  <1>6. Lifecycle!Emit(t, c, p)
    BY <1>1, <1>2, <1>3, <1>4 DEF Lifecycle!Emit, Insert
  <1> QED BY <1>2, <1>5, <1>6 DEF Lifecycle!Next

LEMMA LifecycleStep ==
  ASSUME NoSaves, QueueInv, [Next]_vars
  PROVE  [Lifecycle!Next]_Lifecycle!vars
  <1>0. /\ ApplyInv(Tasks) /\ TypeOK /\ TypeOK' /\ RequestsFit
        /\ task \in [Tasks -> Row] /\ \A t \in Tasks : task[t] \in Row
        /\ req \in [Handlers -> Request]
    BY NextQueue DEF QueueInv, LeaseInv, ApplyInv, TypeOK
  <1>1. ASSUME task' = task, source' = source, effects' = effects
        PROVE  [Lifecycle!Next]_Lifecycle!vars
    BY <1>1, LifecycleStutter
  <1>2. ASSUME NEW h \in Handlers, Persist(h)
        PROVE  Lifecycle!Next
    <2> DEFINE t == req[h].task
    <2>1. t \in Tasks /\ req[h].outcome \in Outcomes
      BY <1>0, <1>2, RequestFields DEF Persist
    <2>2. /\ task[t].status = "running" /\ task'[t] \in Row
          /\ task'[t].status = req[h].outcome
          /\ \A u \in Tasks \ {t} : task'[u] = task[u]
          /\ source' = source /\ effects' = effects
      <3>1. task' = [task EXCEPT ![t] = [task[t] EXCEPT !.status = req[h].outcome, !.ended = TRUE]]
            /\ task[t].status = "running" /\ source' = source /\ effects' = effects
        BY <1>2 DEF Persist, MayPersist
      <3>2. task[t] \in Row /\ task' \in [Tasks -> Row]
        BY <1>0, <2>1 DEF TypeOK
      <3>3. task'[t] = [task[t] EXCEPT !.status = req[h].outcome, !.ended = TRUE]
        BY <1>0, <2>1, <3>1
      <3>4. task'[t].status = req[h].outcome
        BY <3>2, <3>3 DEF Row
      <3> QED BY <1>0, <2>1, <3>1, <3>2, <3>4
    <2>3. Phase(task[t]) = "running"
      BY <1>0, <2>1, <2>2, PhaseOf
    <2> HIDE DEF t
    <2>4. CASE req[h].outcome = "finished"
      <3>1. Phase(task'[t]) = "finished"
        BY <2>2, <2>4, PhaseOf
      <3>2. Lifecycle!Move({t}, {"running"}, "finished")
        BY <1>0, <2>1, <2>2, <2>3, <3>1, LifecycleMove
      <3> QED BY <2>1, <3>2 DEF Lifecycle!Next, Lifecycle!Finish
    <2>5. CASE req[h].outcome # "finished"
      <3>1. Phase(task'[t]) = "failed"
        BY <2>1, <2>2, <2>5, PhaseOf DEF Outcomes
      <3>2. Lifecycle!Move({t}, {"running"}, "failed")
        BY <1>0, <2>1, <2>2, <2>3, <3>1, LifecycleMove
      <3> QED BY <2>1, <3>2 DEF Lifecycle!Next, Lifecycle!Fail
    <2> QED BY <2>4, <2>5
  <1>3. ASSUME NEW h \in Handlers, Save(h) \/ \E w \in Workers : SaveStarted(h, w)
        PROVE  FALSE
    <2>1. req[h].pc = "save" /\ req[h].task \in Tasks
      BY <1>0, <1>3, RequestFields DEF Save, SaveStarted
    <2> QED BY <2>1 DEF QueueInv, LeaseInv, SavesLate, NoSaves
  <1>4. ASSUME NEW h \in Handlers, NEW b \in BOOLEAN, Claim(h, b)
        PROVE  [Lifecycle!Next]_Lifecycle!vars
    <2> DEFINE t == req[h].task
    <2>1. t \in Tasks
      BY <1>0, <1>4, RequestFields DEF Claim
    <2>2. /\ task[t].status \in Open /\ task'[t] \in Row
          /\ task'[t].status = "running"
          /\ \A u \in Tasks \ {t} : task'[u] = task[u]
          /\ source' = source /\ effects' = effects
      BY <1>0, <1>4, <2>1, ZenonT(40) DEF Claim, Claimable, Claimed, TypeOK, Row
    <2>3. Phase(task[t]) = task[t].status /\ Phase(task'[t]) = "running"
      BY <1>0, <2>1, <2>2, PhaseOf DEF Open
    <2> HIDE DEF t
    <2>4. CASE task[t].status = "pending"
      <3>1. Lifecycle!Move({t}, {"pending"}, "running")
        BY <1>0, <2>1, <2>2, <2>3, <2>4, LifecycleMove
      <3> QED BY <2>1, <3>1 DEF Lifecycle!Next, Lifecycle!Execute
    <2>5. CASE task[t].status = "running"
      BY <2>2, <2>3, <2>5, LifecycleStutter
    <2> QED BY <2>2, <2>4, <2>5 DEF Open
  <1>5. ASSUME NEW h \in Handlers, NEW u \in Tasks, Rerun(h, u) \/ Dispatch(h, u)
        PROVE  Lifecycle!Next
    <2>1. req[h].task \in Tasks
      BY <1>0, <1>5, RequestFields DEF Rerun, Dispatch
    <2>2. CASE Rerun(h, u)
      <3> DEFINE c == [kind |-> "rerun", of |-> req[h].task]
      <3>1. c \in Source /\ c.kind = "rerun" /\ c.of = req[h].task
        BY <2>1 DEF Source
      <3>2. /\ task[u].status = "absent" /\ Insert(u, c) /\ effects' = effects
            /\ task[req[h].task].status \in Retryable
        BY <1>0, <2>2 DEF Rerun, RequestsFit
      <3> HIDE DEF c
      <3> QED BY <1>0, <2>1, <3>1, <3>2, LifecycleEmit
    <2>3. CASE Dispatch(h, u)
      <3> DEFINE c == [kind |-> "next", of |-> req[h].task]
      <3>1. c \in Source /\ c.kind = "next" /\ c.of = req[h].task
        BY <2>1 DEF Source
      <3>2. /\ task[u].status = "absent" /\ Insert(u, c) /\ effects' = effects
            /\ task[req[h].task].status = "finished" /\ effects[req[h].task] = 1
        BY <1>0, <2>3 DEF Dispatch, RequestsFit
      <3> HIDE DEF c
      <3> QED BY <1>0, <2>1, <3>1, <3>2, LifecycleEmit
    <2> QED BY <1>5, <2>2, <2>3
  <1>6. ASSUME NEW u \in Tasks, Emit(u)
        PROVE  Lifecycle!Next
    <2>1. Client \in Source
      BY DEF Client, Source
    <2> QED BY <1>0, <1>6, <2>1, LifecycleEmit DEF Emit
  <1>7. ASSUME NEW h \in Handlers, Postprocess(h)
        PROVE  Lifecycle!Next
    <2> DEFINE t == req[h].task
    <2>1. t \in Tasks /\ req[h].outcome \in Outcomes
      BY <1>0, <1>7, RequestFields DEF Postprocess
    <2>2. /\ task[t].status = req[h].outcome /\ effects[t] = 0
          /\ task' = task /\ source' = source
      BY <1>0, <1>7, <2>1 DEF Postprocess, RequestsFit, ApplyInv, OneApplier, Applying
    <2>3. effects' = [effects EXCEPT ![t] = 1]
      BY <1>0, <1>7, <2>1, <2>2 DEF Postprocess, TypeOK, EffectCap
    <2>4. Phase(task[t]) \in {"finished", "failed"}
      BY <1>0, <2>1, <2>2, PhaseOf DEF Outcomes
    <2>5. [u \in Tasks |-> Phase(task[u])]' = [u \in Tasks |-> Phase(task[u])]
      BY <2>2 DEF Phase
    <2> HIDE DEF t
    <2>6. Lifecycle!Apply(t)
      BY <2>1, <2>2, <2>3, <2>4, <2>5 DEF Lifecycle!Apply
    <2> QED BY <2>1, <2>6 DEF Lifecycle!Next
  <1>8. ASSUME \A u \in Tasks : task'[u].status = task[u].status,
               source' = source, effects' = effects
        PROVE  [Lifecycle!Next]_Lifecycle!vars
    <2>1. \A u \in Tasks : Phase(task'[u]) = Phase(task[u])
      BY <1>8 DEF Phase
    <2> QED BY <1>8, <2>1, LifecycleStutter
  <1>9. ASSUME NEW u \in Tasks, Delete(u)
        PROVE  [Lifecycle!Next]_Lifecycle!vars
    BY <1>0, <1>8, <1>9 DEF Delete, Row
  <1>10. ASSUME NEW r \in runs, Heartbeat(r)
         PROVE  [Lifecycle!Next]_Lifecycle!vars
    BY <1>0, <1>8, <1>10 DEF Heartbeat, Row
  <1>11. CASE Tick
    BY <1>0, <1>8, <1>11 DEF Tick, Older, Row
  <1>12. ASSUME NEW S \in Scopes, BulkCancel(S)
         PROVE  Lifecycle!Next
    <2>1. PICK M \in SUBSET Tasks :
            M = {t \in Tasks : t \in S /\ task[t].status # "absent" /\ MayChange(task[t])}
      OBVIOUS
    <2>2. ASSUME NEW t \in M
          PROVE  Phase(task[t]) \in {"pending", "running"} /\ Phase(task'[t]) = "canceled"
      <3>1. t \in Tasks /\ task[t] \in Row /\ Coherent(task[t])
        BY <1>0, <2>1 DEF QueueInv
      <3>2. task[t].status \in {"pending", "running"}
        BY <2>1, <3>1 DEF Coherent, MayChange, Row, Statuses
      <3>3. task'[t] = CanceledEntity(task[t])
        BY <1>12, <2>1 DEF BulkCancel
      <3>4. task'[t].status = "canceled"
        BY <3>1, <3>3 DEF CanceledEntity, Row
      <3> QED BY <3>1, <3>2, <3>4, PhaseOf DEF Phase
    <2>3. \A t \in Tasks \ M : task'[t] = task[t]
      BY <1>12, <2>1 DEF BulkCancel
    <2>4. source' = source /\ effects' = effects
      BY <1>12 DEF BulkCancel
    <2>5. Lifecycle!Move(M, {"pending", "running"}, "canceled")
      BY <1>0, <2>2, <2>3, <2>4, LifecycleMove
    <2> QED BY <2>5 DEF Lifecycle!Next, Lifecycle!Cancel
  <1>13. ASSUME NEW S \in Scopes, DeleteAccount(S)
         PROVE  FALSE
    BY <1>13 DEF DeleteAccount, NoSaves
  <1>14. CASE Reap
    <2>1. PICK M \in SUBSET Tasks : M = {t \in Tasks : Reapable(task[t])}
      OBVIOUS
    <2>2. ASSUME NEW t \in M
          PROVE  Phase(task[t]) \in {"running"} /\ Phase(task'[t]) = "failed"
      <3>1. t \in Tasks /\ task[t] \in Row /\ task[t].status = "running"
        BY <1>0, <2>1 DEF Reapable
      <3>2. task'[t].status = "error"
        BY <1>14, <2>1, <3>1 DEF Reap, Row
      <3> QED BY <3>1, <3>2, PhaseOf DEF Phase
    <2>3. \A t \in Tasks \ M : task'[t] = task[t]
      BY <1>14, <2>1 DEF Reap
    <2>4. source' = source /\ effects' = effects
      BY <1>14 DEF Reap
    <2>5. Lifecycle!Move(M, {"running"}, "failed")
      BY <1>0, <2>2, <2>3, <2>4, LifecycleMove
    <2> QED BY <2>5 DEF Lifecycle!Next, Lifecycle!Fail
  <1>15. ASSUME NEW r \in runs, EndRun(r)
         PROVE  [Lifecycle!Next]_Lifecycle!vars
    BY <1>1, <1>15 DEF EndRun
  <1>16. CASE UNCHANGED vars
    BY <1>1, <1>16 DEF vars
  <1>17. ASSUME NEW h \in Handlers, Step(h)
         PROVE  [Lifecycle!Next]_Lifecycle!vars
    <2>1. \/ task' = task /\ source' = source /\ effects' = effects
          \/ Postprocess(h) \/ Persist(h)
          \/ Save(h) \/ \E w \in Workers : SaveStarted(h, w)
          \/ \E b \in BOOLEAN : Claim(h, b)
          \/ \E t \in Tasks : Rerun(h, t) \/ Dispatch(h, t)
      BY <1>17 DEF Step, SelectNothing, ClaimLost, PersistRefused, Hook,
         DispatchDone, Load, Abort, BeginPoll, BeginRerun, Select,
         BeginCancel, BeginStart, BeginCallback
    <2> QED BY <1>1, <1>2, <1>3, <1>4, <1>5, <1>7, <2>1
  <1> QED BY <1>6, <1>9, <1>10, <1>11, <1>12, <1>13, <1>14, <1>15, <1>16, <1>17
          DEF Next

\* Without whole-entity saves, what the queue does to its rows, whatever its
\* workers, polls and callbacks do, is a run of the lifecycle: forward only,
\* applied once, and for a reason (src/tasks, WizardService).
THEOREM QueueImplementsLifecycle == NoSaves => (Spec => ImplementsLifecycle)
  <1> SUFFICES ASSUME NoSaves PROVE Spec => ImplementsLifecycle
    OBVIOUS
  <1>1. Init => QueueInv
    BY InitQueue
  <1>2. QueueInv /\ [Next]_vars => QueueInv'
    BY NextQueue
  <1>3. Init => Lifecycle!Init
    BY DEF Init, Lifecycle!Init, Phase, AbsentRow, Client
  <1>4. QueueInv /\ [Next]_vars => [Lifecycle!Next]_Lifecycle!vars
    BY LifecycleStep
  <1> QED BY <1>1, <1>2, <1>3, <1>4, PTL DEF Spec, ImplementsLifecycle, Lifecycle!Spec
============================================================================
