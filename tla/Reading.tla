------------------------------- MODULE Reading -------------------------------
(* How a file or a link gets its text: tasks that fetch and parse it, what   *)
(* the callback processors do with a result, and the retry of what failed,   *)
(* next to a user who edits the resource (src/src/wizard/processors,         *)
(* src/src/wizard/wizard.service.ts, resource-retry.service.ts).             *)
(*                                                                           *)
(* Claims and heartbeats are in TaskQueue.  The tasks every write emits for  *)
(* the index are in SearchIndex; "extra" stands for all that leave the text  *)
(* alone: titles, tags, the index.                                           *)
EXTENDS Naturals, Sequences

CONSTANTS
  Failures,    \* kinds of exception of a task
  Retries,     \* requests to retry, between two statements at the same time
  MaxAttempts, \* bound: tasks in all
  MaxEdits,    \* bound: texts a user writes
  MaxRetries   \* bound: requests to retry

ASSUME ReadingAssumption == {MaxAttempts, MaxEdits, MaxRetries} \subseteq Nat

VARIABLES
  origin,    \* "file", "link" or "note"
  body,      \* resources.content: who it is from
  attempts,  \* the tasks of the resource, by createdAt
  retry,     \* [Retries -> request]
  edits, retried,  \* how many there were
  erased     \* history: what retries cleared, and what they had read

readingVars == <<origin, body, attempts, retry, edits, retried, erased>>

Blank == [by |-> "nobody", of |-> 0]
Edited(n) == [by |-> "user", of |-> n]
Parsed(j) == [by |-> "task", of |-> j]
\* buildTaskErrorContent: one text per kind of exception.
Placeholder(why) == [by |-> "failure", of |-> why]

NoRetry == [at |-> "rest"]
Attempt(fn, from, seen) ==
  [fn |-> fn, state |-> "pending", why |-> "none", due |-> "nothing", from |-> from, seen |-> seen, hidden |-> FALSE]

\* PARSE_FUNCTIONS, of which collect_url fetches and writes no text itself.
Parses(a) == a.fn \in {"fetch", "read"}

Ongoing(a) == a.state \in {"pending", "running"}
Listed(s) == {j \in DOMAIN s : ~s[j].hidden}
\* RETRYABLE_TASK_STATUSES
Failed(a) == a.state \in {"error", "stopped"}

\* emitBlankResourceTask, also what a creation emits.
FirstTask(o) == IF o = "file" THEN "read" ELSE "fetch"

\* create, collectUrl, compressedCollect, uploadFile; a note gets tags and a
\* title from the open API.
ReadingInit ==
  /\ origin \in {"file", "link", "note"}
  /\ body = IF origin = "note" THEN Edited(0) ELSE Blank
  /\ attempts = <<Attempt(IF origin = "note" THEN "extra" ELSE FirstTask(origin), 0, 0)>>
  /\ retry = [h \in Retries |-> NoRetry]
  /\ edits = 0 /\ retried = 0
  /\ erased = {}

Emit(a) == Len(attempts) < MaxAttempts /\ attempts' = Append(attempts, a)

----------------------------------------------------------------------------
\* A user writes, or empties, the text.
Edit ==
  /\ edits < MaxEdits /\ edits' = edits + 1
  /\ body' \in {Blank, Edited(edits')}
  /\ UNCHANGED <<origin, attempts, retry, retried, erased>>

Claim(j) ==
  /\ attempts[j].state = "pending" /\ ~attempts[j].hidden
  /\ attempts' = [attempts EXCEPT ![j].state = "running"]
  /\ UNCHANGED <<origin, body, retry, edits, retried, erased>>

\* cancelTaskOrFail, or the cron job: canceled, or timeout.
Stop(j) ==
  /\ Ongoing(attempts[j]) /\ ~attempts[j].hidden
  /\ attempts' = [attempts EXCEPT ![j].state = "stopped"]
  /\ UNCHANGED <<origin, body, retry, edits, retried, erased>>

\* TasksService.delete, whatever the state.
Hide(j) ==
  /\ ~attempts[j].hidden
  /\ attempts' = [attempts EXCEPT ![j].hidden = TRUE]
  /\ UNCHANGED <<origin, body, retry, edits, retried, erased>>

\* taskDoneCallback stores the result, guarded on running; the processor and
\* the follow-up tasks come after.
Report(j, why) ==
  /\ attempts[j].state = "running" /\ ~attempts[j].hidden
  /\ attempts' = [attempts EXCEPT ![j].state = IF why = "none" THEN "finished" ELSE "error",
                                  ![j].why = why, ![j].due = "process"]
  /\ UNCHANGED <<origin, body, retry, edits, retried, erased>>

\* The processors: only those of what reads or parses write a text.  A result with
\* no output at all writes none, one without markdown an empty text.
Results(j) ==
  IF attempts[j].fn # "read" THEN {body}
  ELSE IF attempts[j].why # "none" THEN {Placeholder(attempts[j].why)}
  ELSE {body, Blank, Parsed(j)}

Process(j) ==
  /\ attempts[j].due = "process"
  /\ body' \in Results(j)
  /\ attempts' = [attempts EXCEPT ![j].due =
                    IF attempts[j].state = "finished" /\ attempts[j].fn # "extra" THEN "dispatch" ELSE "nothing"]
  /\ UNCHANGED <<origin, retry, edits, retried, erased>>

\* dispatchNextTasks: what a fetch found is to be parsed, what was parsed is
\* given a title and tags.
Dispatch(j) ==
  /\ attempts[j].due = "dispatch" /\ Len(attempts) < MaxAttempts
  /\ attempts' = Append([attempts EXCEPT ![j].due = "nothing"],
                        Attempt(IF attempts[j].fn = "fetch" THEN "read" ELSE "extra", 0, Len(attempts)))
  /\ UNCHANGED <<origin, body, retry, edits, retried, erased>>

\* The processor throws, there are no next tasks, or the process dies.
Drop(j) ==
  /\ attempts[j].due # "nothing"
  /\ attempts' = [attempts EXCEPT ![j].due = "nothing"]
  /\ UNCHANGED <<origin, body, retry, edits, retried, erased>>

----------------------------------------------------------------------------
(* Retry *)

\* getResourceOrFail, ...
BeginRetry(h) ==
  /\ retry[h] = NoRetry /\ retried < MaxRetries
  /\ retry' = [retry EXCEPT ![h] = [at |-> "read", text |-> body]]
  /\ retried' = retried + 1
  /\ UNCHANGED <<origin, body, attempts, edits, erased>>

\* A fault of Retryable: what has been replaced is retried again.
RetryableAgain(s) == {j \in Listed(s) : Failed(s[j])}

\* getRetryableTasks: a task that a listed one replaced is history.
Retryable(s) ==
  {j \in Listed(s) : Failed(s[j]) /\ \A k \in Listed(s) : s[k].from # j}

\* A fault of TaskErrorContent: only what is retryable is asked for its text.
TaskErrorContentRetryable(text, s) ==
  \E j \in Retryable(s) : Parses(s[j]) /\ s[j].why # "none" /\ text = Placeholder(s[j].why)

\* isTaskErrorContent, of the parse tasks.
TaskErrorContent(text, s) ==
  \E j \in Listed(s) : Parses(s[j]) /\ s[j].why # "none" /\ text = Placeholder(s[j].why)

\* getTaskEntitiesByResourceId and what follows from it, before any write.
Plan(text, s) ==
  LET R == Retryable(s)
      stale == TaskErrorContent(text, s) IN
  IF \E j \in Listed(s) : Ongoing(s[j]) THEN NoRetry
  ELSE IF R # {} THEN
    [at |-> "clear", text |-> text, left |-> R, seen |-> Len(s),
     clears |-> stale /\ \E j \in R : Parses(s[j])]
  ELSE IF origin = "note" \/ (text # Blank /\ ~stale) THEN NoRetry
  ELSE [at |-> "clear", text |-> text, left |-> {0}, seen |-> Len(s), clears |-> stale]

PlanRetry(h) ==
  /\ retry[h].at = "read"
  /\ retry' = [retry EXCEPT ![h] = Plan(retry[h].text, attempts)]
  /\ UNCHANGED <<origin, body, attempts, edits, retried, erased>>

\* clearStaleErrorContent writes what was decided on the text read before.
ClearStale(h) ==
  /\ retry[h].at = "clear"
  /\ retry' = [retry EXCEPT ![h].at = "emit"]
  /\ IF retry[h].clears
       THEN body' = Blank /\ erased' = erased \union {[read |-> retry[h].text, was |-> body]}
       ELSE UNCHANGED <<body, erased>>
  /\ UNCHANGED <<origin, attempts, edits, retried>>

\* rerunTask for each, the last created first, in statements of their own, or
\* emitBlankResourceTask (0).
EmitRetry(h) ==
  LET j == CHOOSE j \in retry[h].left : \A k \in retry[h].left : k <= j
      rest == retry[h].left \ {j} IN
  /\ retry[h].at = "emit"
  /\ j # 0 => ~attempts[j].hidden
  /\ Emit(Attempt(IF j = 0 THEN FirstTask(origin) ELSE attempts[j].fn, j, retry[h].seen))
  /\ retry' = [retry EXCEPT ![h] = IF rest = {} THEN NoRetry ELSE [@ EXCEPT !.left = rest]]
  /\ UNCHANGED <<origin, body, edits, retried, erased>>

\* A rerun, or the upload before it, fails; those before it stay.
FailRetry(h) ==
  /\ retry[h].at \in {"clear", "emit"}
  /\ retry' = [retry EXCEPT ![h] = NoRetry]
  /\ UNCHANGED <<origin, body, attempts, edits, retried, erased>>

ReadingNext ==
  \/ Edit
  \/ \E j \in DOMAIN attempts :
       \/ Claim(j) \/ Stop(j) \/ Hide(j) \/ Process(j) \/ Dispatch(j) \/ Drop(j)
       \/ \E why \in Failures \union {"none"} : Report(j, why)
  \/ \E h \in Retries : BeginRetry(h) \/ PlanRetry(h) \/ ClearStale(h) \/ EmitRetry(h) \/ FailRetry(h)

ReadingSpec == ReadingInit /\ [][ReadingNext]_readingVars

----------------------------------------------------------------------------
\* A retry erases no text but the placeholder of a failure, unless the text
\* changed after it was read.
EditsSurvive == \A e \in erased : e.was.by = "failure" \/ e.was = Blank \/ e.was # e.read

\* No attempt is replaced twice, except by retries that did not see each other.
ReplacedOnce ==
  \A j, k \in DOMAIN attempts :
    j < k /\ attempts[j].from # 0 /\ attempts[j].from = attempts[k].from /\ ~attempts[j].hidden
      => attempts[k].seen < j

\* When nothing runs any more, a file or link without a text can be retried,
\* unless the failure its placeholder is of was deleted.
NothingBeyondRetry ==
  (/\ origin # "note" /\ body.by \in {"nobody", "failure"}
   /\ \A j \in DOMAIN attempts : attempts[j].due = "nothing" /\ (Ongoing(attempts[j]) => attempts[j].hidden))
    => \/ Plan(body, attempts) # NoRetry
       \/ \E j \in DOMAIN attempts : attempts[j].hidden /\ body = Placeholder(attempts[j].why)

(* Retries are sound whatever fails, dies or is edited next to them: they    *)
(* keep what a user wrote, do not multiply attempts, and there is always one *)
(* left for a resource that has no text, also when a result was stored and   *)
(* the process died before it was processed or its follow-ups were emitted,  *)
(* and when the placeholder of an old attempt is written after a new one.    *)
RetriesSound == EditsSurvive /\ ReplacedOnce /\ NothingBeyondRetry
===============================================================================
