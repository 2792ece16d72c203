--------------------------- MODULE TaskLifecycle ---------------------------
(***************************************************************************)
(* What the task queue promises to the rest of the backend, without        *)
(* workers, leases or requests: a task moves forward only, its result is   *)
(* applied at most once, and a task that exists because of another one     *)
(* exists for a reason.                                                    *)
(***************************************************************************)
EXTENDS Naturals

CONSTANTS Tasks, None

VARIABLES
  phase,    \* where each task is in its life
  cause,    \* the request, finished parent or failed attempt behind it
  applied   \* how many times its result was post-processed

vars == <<phase, cause, applied>>

Failed == {"failed", "canceled"}

Init ==
  /\ phase = [t \in Tasks |-> "absent"]
  /\ cause = [t \in Tasks |-> [kind |-> "client", of |-> None]]
  /\ applied = [t \in Tasks |-> 0]

\* A follow-up needs a finished parent whose result was applied, a rerun an
\* attempt that failed or was canceled.
Justified(c) ==
  \/ c.kind = "client" /\ c.of = None
  \/ c.kind = "next" /\ c.of \in Tasks
       /\ phase[c.of] = "finished" /\ applied[c.of] = 1
  \/ c.kind = "rerun" /\ c.of \in Tasks /\ phase[c.of] \in Failed

Causes == [kind: {"client", "next", "rerun"}, of: Tasks \cup {None}]

\* A task that no wizard can run is rejected at once.
Emit(t, c, p) ==
  /\ phase[t] = "absent" /\ p \in {"pending", "failed"}
  /\ Justified(c)
  /\ phase' = [phase EXCEPT ![t] = p]
  /\ cause' = [cause EXCEPT ![t] = c]
  /\ UNCHANGED applied

\* Some tasks in phases From move to phase p together.
Move(S, From, p) ==
  /\ \A t \in S : phase[t] \in From
  /\ phase' = [t \in Tasks |-> IF t \in S THEN p ELSE phase[t]]
  /\ UNCHANGED <<cause, applied>>

Execute(t) == Move({t}, {"pending"}, "running")
Finish(t)  == Move({t}, {"running"}, "finished")
Fail(S)    == Move(S, {"running"}, "failed")
Cancel(S)  == Move(S, {"pending", "running"}, "canceled")

Apply(t) ==
  /\ phase[t] \in {"finished", "failed"}
  /\ applied[t] = 0
  /\ applied' = [applied EXCEPT ![t] = 1]
  /\ UNCHANGED <<phase, cause>>

Next ==
  \/ \E t \in Tasks : Execute(t) \/ Finish(t) \/ Apply(t)
  \/ \E t \in Tasks, c \in Causes, p \in {"pending", "failed"} : Emit(t, c, p)
  \/ \E S \in SUBSET Tasks : Fail(S) \/ Cancel(S)

Spec == Init /\ [][Next]_vars
============================================================================
