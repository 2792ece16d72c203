-------------------------- MODULE TaskQueueProps --------------------------
(***************************************************************************)
(* What the task queue has to guarantee, and how it implements             *)
(* TaskLifecycle.                                                          *)
(***************************************************************************)
EXTENDS TaskQueue

Settled == Outcomes \cup {"canceled"}

\* The status and the timestamps of a row tell the same story, and only a
\* claim gives a row a heartbeat: without the whole-entity saves of cancel and
\* start, no interleaving of conditional UPDATEs leaves a half-written row.
Coherent(row) ==
  /\ row.status \in {"absent", "pending"} =>
       ~row.started /\ row.hb = NoBeat /\ row.schedules = 0
  /\ row.status = "running" => row.started /\ row.hb # NoBeat
  /\ row.ended <=> row.status \in Outcomes
  /\ row.canceled <=> row.status = "canceled"
  /\ row.hb = NoBeat <=> row.worker = None
  /\ row.hb = NoBeat <=> row.schedules = 0

\* Follow-up tasks come from parents that finished and were post-processed,
\* reruns from attempts that failed or were canceled, and neither cause is
\* ever undone.
CausesHold ==
  \A t \in Tasks : LET of == source[t].of IN
    /\ source[t].kind = "next" => task[of].status = "finished" /\ effects[of] = 1
    /\ source[t].kind = "rerun" => task[of].status \in Retryable

\* Every row is coherent, and so is it with the row of the task it came from.
RowsCoherent == CausesHold /\ \A t \in Tasks : Coherent(task[t])

\* The result of a task is post-processed at most once, however often its
\* callback is delivered, retried or raced by a reclaim, the reaper or a
\* cancellation (taskDoneCallback's conditional UPDATE).
AppliedAtMostOnce == \A t \in Tasks : effects[t] <= 1

\* A task that still has to run is never out of reach: its lease is fresh, or
\* a poll can claim it, or the cron job can fail it.
NeverStranded ==
  \A t \in Tasks :
    task[t].status \in Open =>
      Fresh(task[t]) \/ Claimable(task[t], 0) \/ Reapable(task[t])

\* A settled task never goes back to the queue: results, reaping, claims with an
\* old cutoff and cancellations race, and none of them undoes an outcome.
NeverReopened ==
  [][\A t \in Tasks :
       task[t].status \in Settled => task'[t].status \notin Open]_vars

\* The worker whose report is stored owns the task at that moment, although
\* ownership was checked at an earlier read; a task started without a poll
\* has no owner.
OnlyOwnerPersists ==
  [][\A h \in Handlers :
       req[h].pc = "persist" /\ req'[h].pc = "hook" =>
         task[req[h].task].worker \in {None, req[h].by}]_vars

\* While live executions refresh their heartbeats in time, no two of them run
\* the same task: a claim takes a task only from an execution that is gone.
ExclusiveExecution ==
  \A r, s \in runs : r.task = s.task => r = s

\* A limit of 0 lets one task run like a limit of 1: the namespace is looked up
\* only when something of it runs.
EffectiveLimit(n) == IF MaxParallelism[n] = 0 THEN 1 ELSE MaxParallelism[n]

\* The parallelism limit is checked before the claim and not with it, so
\* concurrent polls overshoot it; they do by less than the number of requests
\* served at once.
OvershootBounded ==
  \A n \in Namespaces :
    Cardinality(Executing(n)) <= EffectiveLimit(n) + Cardinality(Handlers) - 1

\* Deleting an account is to "Cancel pending tasks" (confirmAccountDeletion):
\* a task that is canceled before it runs never runs.
CanceledNeverRuns ==
  [][\A t \in Tasks :
       task[t].canceled /\ task[t].status # "running"
         => task'[t].status # "running"]_vars

\* Every task is settled in the end, whatever its workers do: they die, lose
\* the claim, or report twice.
EventuallySettled ==
  \A t \in Tasks :
    task[t].status \in Open ~> task[t].status \in Settled

----------------------------------------------------------------------------
(* The lifecycle a row shows to the outside *)

Phase(row) ==
  CASE row.status \in {"error", "timeout", "insufficient_quota"} -> "failed"
    [] OTHER -> row.status

Lifecycle == INSTANCE TaskLifecycle WITH
  phase   <- [t \in Tasks |-> Phase(task[t])],
  cause   <- source,
  applied <- effects

\* The queue without whole-entity saves implements the lifecycle.
ImplementsLifecycle == Lifecycle!Spec

----------------------------------------------------------------------------
(* Time passes, the cron job runs, every worker keeps polling and an       *)
(* execution ends some day; requests are not aborted every time.  Nothing  *)
(* is assumed of clients, of heartbeats or of reports.                     *)
Fairness ==
  /\ SF_vars(Tick)
  /\ WF_vars(Reap)
  /\ \A r \in Run : WF_vars(EndRun(r))
  /\ \A w \in Workers : SF_vars(\E h \in Handlers : BeginPoll(h, w))
  /\ SF_vars(\E h \in Handlers, t \in Tasks : Select(h, t))
  /\ SF_vars(\E h \in Handlers : Claim(h, TRUE))
  /\ \A h \in Handlers : WF_vars(Step(h))

FairSpec == Spec /\ Fairness
============================================================================
