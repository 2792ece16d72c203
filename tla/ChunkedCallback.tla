--------------------------- MODULE ChunkedCallback ---------------------------
(* Results too large for one request: a worker sends them in chunks, or      *)
(* uploads them under a signed url and says so (src/src/wizard/              *)
(* internal.wizard.controller.ts, chunk-manager.service.ts,                  *)
(* WizardService.uploadedTaskDoneCallback).  The keys in S3 know the task,   *)
(* not the worker: a task that was taken over has two senders.               *)
EXTENDS Naturals, Sequences, FiniteSets

CONSTANTS
  Senders,    \* workers that send a result of the one task
  ChunksOf,   \* [Senders -> Nat], total_chunks of a sender
  MaxSends,   \* bound: times each begins to send
  Nobody

Parts == UNION {0 .. (ChunksOf[s] - 1) : s \in Senders}

ASSUME ChunkAssumption == MaxSends \in Nat /\ ChunksOf \in [Senders -> Nat \ {0}] /\ Nobody \notin Senders

VARIABLES
  chunk,      \* [Parts -> Senders \union {Nobody}], whose chunk is in S3
  whole,      \* whose upload is at wizard-tasks/<id>
  sender,     \* [Senders -> [at, n, got]]
  cleanups,   \* [Senders -> Nat], cleanup timers that run
  sends,      \* [Senders -> Nat], how often each began
  received,   \* the payload that reached taskDoneCallback last
  disturbed   \* history: senders next to whom others wrote or cleaned up

chunkVars == <<chunk, whole, sender, cleanups, sends, received, disturbed>>

Nothing == [from |-> Nobody, by |-> "none", parts |-> <<>>]
Unsent == [at |-> "unsent", n |-> 0, got |-> <<>>]

ChunkInit ==
  /\ chunk = [i \in Parts |-> Nobody]
  /\ whole = Nobody
  /\ sender = [s \in Senders |-> Unsent]
  /\ cleanups = [s \in Senders |-> 0]
  /\ sends = [s \in Senders |-> 0]
  /\ received = Nothing
  /\ disturbed = {}

Busy(s) == sender[s].at \in {"sending", "assembling", "uploaded", "fetched"}
Begins(s) == sends[s] < MaxSends /\ sends' = [sends EXCEPT ![s] = @ + 1]
\* Whoever else is at it is disturbed by a step of s, and s by them.
Disturb(s) ==
  LET others == {t \in Senders \ {s} : Busy(t)} IN
  disturbed' = disturbed \union others \union (IF others = {} THEN {} ELSE {s})

\* A fault of Kept: a chunk that is there already is kept.
KeptOnce(i, s) == IF chunk[i] = Nobody THEN s ELSE chunk[i]

\* storeChunk: the key has the task and the index, and no more.
Kept(i, s) == s

\* Chunks are sent one after the other, each when the one before is stored;
\* a sender may start all over, or stop.
StoreChunk(s) ==
  LET n == IF sender[s].at = "sending" THEN sender[s].n ELSE 0 IN
  /\ sender[s].at \in {"unsent", "sending"} /\ n < ChunksOf[s]
  /\ chunk' = [chunk EXCEPT ![n] = Kept(n, s)]
  /\ sender' = [sender EXCEPT ![s] = [at |-> IF n + 1 = ChunksOf[s] THEN "assembling" ELSE "sending",
                                      n |-> IF n + 1 = ChunksOf[s] THEN 0 ELSE n + 1, got |-> <<>>]]
  /\ IF n = 0 THEN Begins(s) ELSE UNCHANGED sends
  /\ Disturb(s)
  /\ UNCHANGED <<whole, cleanups, received>>

\* A chunk is not stored, or the worker dies.
GiveUp(s) ==
  /\ sender[s].at \in {"sending", "uploaded"}
  /\ sender' = [sender EXCEPT ![s] = Unsent]
  /\ UNCHANGED <<chunk, whole, cleanups, sends, received, disturbed>>

CleanUpLater(s) == cleanups' = [cleanups EXCEPT ![s] = @ + 1]

\* The final chunk: assembleChunks reads one object after the other; one that
\* is missing is an error, which cleans up as a success does.
AssembleChunk(s) ==
  LET q == sender[s] IN
  /\ q.at = "assembling" /\ q.n < ChunksOf[s]
  /\ IF chunk[q.n] # Nobody
       THEN sender' = [sender EXCEPT ![s].n = @ + 1, ![s].got = Append(@, <<chunk[q.n], q.n>>)] /\ UNCHANGED cleanups
       ELSE sender' = [sender EXCEPT ![s] = Unsent] /\ CleanUpLater(s)
  /\ UNCHANGED <<chunk, whole, sends, received, disturbed>>

\* taskDoneCallback of the whole; what it does is in TaskQueue.
DeliverChunks(s) ==
  /\ sender[s].at = "assembling" /\ sender[s].n = ChunksOf[s]
  /\ received' = [from |-> s, by |-> "chunks", parts |-> sender[s].got]
  /\ sender' = [sender EXCEPT ![s] = [Unsent EXCEPT !.at = "done"]]
  /\ CleanUpLater(s)
  /\ UNCHANGED <<chunk, whole, sends, disturbed>>

\* performCleanup removes as many chunks as the request said there were.
CleanedUp(s) == 0 .. (ChunksOf[s] - 1)

\* OBB_CHUNK_CLEANUP_DELAY after the final chunk, whoever sends meanwhile.
CleanUp(s) ==
  /\ cleanups[s] > 0
  /\ cleanups' = [cleanups EXCEPT ![s] = @ - 1]
  /\ chunk' = [i \in Parts |-> IF i \in CleanedUp(s) THEN Nobody ELSE chunk[i]]
  /\ UNCHANGED <<whole, sender, sends, received, disturbed>>

\* The answer is lost and the worker sends again, ...
SendAgain(s) ==
  /\ sender[s].at = "done"
  /\ sender' = [sender EXCEPT ![s] = Unsent]
  /\ UNCHANGED <<chunk, whole, cleanups, sends, received, disturbed>>

----------------------------------------------------------------------------
\* createTaskUploadUrl and the worker's PUT (external).
UploadWhole(s) ==
  /\ sender[s].at = "unsent"
  /\ whole' = s
  /\ sender' = [sender EXCEPT ![s].at = "uploaded"]
  /\ Begins(s)
  /\ Disturb(s)
  /\ UNCHANGED <<chunk, cleanups, received>>

\* uploadedTaskDoneCallback reads the object, ...
FetchWhole(s) ==
  /\ sender[s].at = "uploaded"
  /\ sender' = [sender EXCEPT ![s] = IF whole = Nobody THEN Unsent
                                     ELSE [@ EXCEPT !.at = "fetched", !.got = <<<<whole, 0>>>>]]
  /\ UNCHANGED <<chunk, whole, cleanups, sends, received, disturbed>>

\* ... calls back and removes it; if the callback throws, it stays.
DeliverWhole(s) ==
  /\ sender[s].at = "fetched"
  /\ received' = [from |-> s, by |-> "upload", parts |-> sender[s].got]
  /\ whole' \in {whole, Nobody}
  /\ sender' = [sender EXCEPT ![s] = [Unsent EXCEPT !.at = "done"]]
  /\ UNCHANGED <<chunk, cleanups, sends, disturbed>>

ChunkNext ==
  \E s \in Senders :
    \/ StoreChunk(s) \/ GiveUp(s) \/ AssembleChunk(s) \/ DeliverChunks(s) \/ CleanUp(s) \/ SendAgain(s)
    \/ UploadWhole(s) \/ FetchWhole(s) \/ DeliverWhole(s)

ChunkSpec == ChunkInit /\ [][ChunkNext]_chunkVars

(* What reaches the callback is the result of the one who sent it, all of    *)
(* it: not what another worker of the task, or an earlier attempt that broke *)
(* off, left under the same keys, and nothing that a cleanup left over.  The *)
(* exception is two senders at once, whose chunks replace each other's.      *)
ResultsWhole ==
  LET p == received IN
  \/ p = Nothing \/ p.from \in disturbed
  \/ p.parts = IF p.by = "upload" THEN <<<<p.from, 0>>>>
               ELSE [i \in 1..ChunksOf[p.from] |-> <<p.from, i - 1>>]
===============================================================================
