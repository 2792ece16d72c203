---------------------------- MODULE AgentStream ----------------------------
(* The answers of the agent in one conversation, streamed by any of several  *)
(* backend processes (src/src/wizard/stream.service.ts) and stored as        *)
(* messages (src/src/messages/messages.service.ts).                          *)
(*                                                                           *)
(* A session relays what the wizard sends, chunk by chunk: it numbers the    *)
(* chunk in Redis, stores it in PostgreSQL, appends it to the Redis log that *)
(* resumed streams read, and hands it to its subscribers.  Each of these     *)
(* awaits, and so do the steps of whatever stops the session meanwhile: a    *)
(* cancellation that reached the same process, a message on the control      *)
(* channel, or the cancel flag.                                              *)
(*                                                                           *)
(* Redis is configured and does not fail, and its keys do not expire while a *)
(* behaviour lasts.  Messages the system writes, checkpoints and metrics are *)
(* left out, and so is the text of a chunk: a message counts its deltas.     *)
EXTENDS Naturals, Sequences, FiniteSets

CONSTANTS Servers, Cancels,
          MaxSessions,   \* bound on the sessions of a behaviour
          MaxTogether,   \* bound on the sessions that run at once
          MaxMessages,   \* bound on the messages of a behaviour
          MaxDeltas      \* bound on the deltas of a message

ASSUME BoundsAssumption == {MaxSessions, MaxTogether, MaxMessages, MaxDeltas} \subseteq Nat

VARIABLES rows,      \* the messages of the conversation, in the order of creation
          sess,      \* the sessions, in the order of their start
          active,    \* the mark of a session in Redis
          flag,      \* the cancel flag in Redis
          seq,       \* the counter of event ids in Redis
          log,       \* the log of events in Redis
          listening, \* sessions that listen on the control channel
          told,      \* sessions a published cancellation is on its way to
          cancels,   \* the cancel requests
          lapses     \* "cleared": a session's start took a flag a cancellation
                     \* had set; "ghost": one marked itself active after its end;
                     \* "spared": a cancellation that stopped the session of its
                     \* process told no other

vars == <<rows, sess, active, flag, seq, log, listening, told, cancels, lapses>>

Open == {"pending", "streaming"}
Settled == {"success", "stopped", "failed"}
Kinds == {"bos", "delta", "eos", "error", "done"}
Terminal == {"done", "error"}

Sessions == 1..Len(sess)
Messages == 1..Len(rows)
NoRow == [status |-> "none"]
NoStop == [at |-> "none", msg |-> 0, snap |-> NoRow]

\* Neither the session nor a stop of it has anything left to do.
Gone(s) == sess[s].clean /\ sess[s].at = "over" /\ sess[s].stop.at = "none"

Fresh(v) ==
  [server |-> v, at |-> "open", chunk |-> "none", event |-> 0, msg |-> 0,
   snap |-> NoRow, sent |-> <<>>, aborted |-> FALSE, finished |-> FALSE,
   clean |-> FALSE, stop |-> NoStop, alone |-> \A s \in Sessions : Gone(s),
   covered |-> FALSE]

Init ==
  /\ rows = <<>> /\ sess = <<>>
  /\ active = FALSE /\ flag = FALSE
  /\ seq = 0 /\ log = <<>>
  /\ listening = {} /\ told = {}
  /\ cancels = [c \in Cancels |-> [at |-> "idle"]]
  /\ lapses = {}

(* ------------------------------- messages -------------------------------- *)

\* The message stopRunning looks for, 0 if there is none.
LatestOpen ==
  LET open == {m \in Messages : rows[m].status \in Open}
  IN  IF open = {} THEN 0 ELSE CHOOSE m \in open : \A n \in open : n <= m

\* A fault of Accepts: a delta is stored whatever became of its message.
AcceptsAlways(row) == TRUE

\* updateDelta leaves a settled message as it is.
Accepts(row) == row.status \notin Settled

\* save writes the whole entity, as it was read and then changed.
Saved(m, row) ==
  [rows EXCEPT ![m] = [row EXCEPT !.given = rows[m].given, !.lapse = rows[m].lapse]]

(* ------------------------------- sessions -------------------------------- *)

\* The session in the map of a process.
Current(v) == {s \in Sessions : sess[s].server = v /\ ~sess[s].finished}

\* createAgentStream, when the conversation has no session in the process to
\* join.  What another process runs for the conversation is not looked at.
StartSession(v) ==
  /\ Len(sess) < MaxSessions /\ Current(v) = {}
  /\ Cardinality({s \in Sessions : ~sess[s].finished}) < MaxTogether
  /\ sess' = Append([s \in Sessions |-> [sess[s] EXCEPT !.alone = @ /\ Gone(s)]], Fresh(v))
  /\ UNCHANGED <<rows, active, flag, seq, log, listening, told, cancels, lapses>>

\* The first half of startRedisSession.  A process sends what it sends to Redis
\* over one connection, its earlier session's clean-up first.
ClearLog(s) ==
  /\ sess[s].at = "open"
  /\ \A r \in Sessions : r < s /\ sess[r].server = sess[s].server => sess[r].clean
  /\ sess' = [sess EXCEPT ![s].at = "mark"]
  /\ IF active THEN UNCHANGED <<seq, log>> ELSE seq' = 0 /\ log' = <<>>
  /\ UNCHANGED <<rows, active, flag, listening, told, cancels, lapses>>

\* Its second half.
MarkActive(s) ==
  /\ sess[s].at = "mark"
  /\ active' = TRUE /\ flag' = FALSE
  /\ sess' = [sess EXCEPT ![s].at = "subscribe"]
  /\ lapses' = lapses \union (IF flag THEN {"cleared"} ELSE {})
                      \union (IF sess[s].finished THEN {"ghost"} ELSE {})
  /\ UNCHANGED <<rows, seq, log, listening, told, cancels>>

Subscribe(s) ==
  /\ sess[s].at = "subscribe"
  /\ listening' = listening \union {s}
  /\ sess' = [sess EXCEPT ![s].at = "read"]
  /\ UNCHANGED <<rows, active, flag, seq, log, told, cancels, lapses>>

\* completeSession: the subscribers are gone, and no cancellation is awaited.
Completed(x) == [x EXCEPT !.finished = TRUE, !.sent = <<>>, !.covered = FALSE]

\* A fault of CleanUp: the mark of the session stays behind.
CleanUpKeeping(s) ==
  /\ sess[s].finished /\ ~sess[s].clean
  /\ listening' = listening \ {s}
  /\ sess' = [sess EXCEPT ![s].clean = TRUE]
  /\ UNCHANGED <<rows, active, flag, seq, log, told, cancels, lapses>>

\* Another: the flag of a cancellation goes with the mark.
CleanUpClearing(s) ==
  /\ sess[s].finished /\ ~sess[s].clean
  /\ active' = FALSE /\ flag' = FALSE
  /\ listening' = listening \ {s} /\ told' = told \ {s}
  /\ sess' = [sess EXCEPT ![s].clean = TRUE]
  /\ UNCHANGED <<rows, seq, log, cancels, lapses>>

\* cleanupRedisSession.  A cancellation on its way would find the session finished.
CleanUp(s) ==
  /\ sess[s].finished /\ ~sess[s].clean
  /\ active' = FALSE
  /\ listening' = listening \ {s} /\ told' = told \ {s}
  /\ sess' = [sess EXCEPT ![s].clean = TRUE]
  /\ UNCHANGED <<rows, flag, seq, log, cancels, lapses>>

\* The guard of stopSession, and its abort.
Stopping(x) ==
  IF x.finished \/ x.aborted THEN x
  ELSE [x EXCEPT !.aborted = TRUE, !.stop.at = "find"]

(* -------------------------------- chunks --------------------------------- *)

\* What the wizard may send next: messages one after another, and "done" or
\* "error" last, an error whether or not a message is open.
MaySend(x) ==
  {k \in Kinds : /\ x.chunk \notin Terminal
                 /\ k \in {"delta", "eos"} => x.msg # 0
                 /\ k \in {"bos", "done"} => x.msg = 0
                 /\ k = "done" => x.chunk # "none"}

\* The handler has something to store: an error only of an open message.
Stores(x, k) == k # "done" /\ (k = "error" => x.msg # 0)

\* The rows there are, and those about to be.
Inserting == {s \in Sessions : sess[s].at = "store" /\ sess[s].chunk = "bos"}

\* A fault of Canceled: a session looks at the flag of its process only.
CanceledHere(x) == x.aborted

\* isSessionCanceled.
Canceled(x) == flag

\* A chunk arrives at a session that has not been stopped: unless the flag is
\* set it is accepted and gets its number (addNextEventId), and nothing looks at
\* the flag again until the next.  A stop that begins in between gets a later
\* number: its own comes after reads of the database, on the same connection.
Receive(s, k) ==
  LET x == sess[s] IN
  /\ x.at = "read" /\ ~x.aborted /\ ~x.finished
  /\ k \in MaySend(x)
  /\ k = "bos" => Len(rows) + Cardinality(Inserting) < MaxMessages
  /\ k = "delta" => rows[x.msg].given < MaxDeltas
  /\ IF Canceled(x)
       THEN /\ sess' = [sess EXCEPT ![s] = Stopping(x)]
            /\ UNCHANGED <<rows, seq>>
       ELSE /\ sess' = [sess EXCEPT ![s].at = IF Stores(x, k) THEN "store" ELSE "publish",
                                  ![s].chunk = k,
                                  ![s].event = seq + 1]
            /\ seq' = seq + 1
            /\ rows' = IF k = "delta" THEN [rows EXCEPT ![x.msg].given = @ + 1] ELSE rows
  /\ UNCHANGED <<active, flag, log, listening, told, cancels, lapses>>

\* bos inserts the message; a session that has been stopped since leaves it open.
Insert(s) ==
  LET x == sess[s] IN
  /\ x.at = "store" /\ x.chunk = "bos"
  /\ rows' = Append(rows, [status |-> "pending", text |-> 0, given |-> 0,
                           of |-> s, lapse |-> x.aborted])
  /\ sess' = [sess EXCEPT ![s].at = "publish", ![s].msg = Len(rows) + 1]
  /\ UNCHANGED <<active, flag, seq, log, listening, told, cancels, lapses>>

\* updateDelta and update read the message ...
Load(s) ==
  LET x == sess[s] IN
  /\ x.at = "store" /\ x.chunk # "bos"
  /\ IF x.chunk = "delta" /\ ~Accepts(rows[x.msg])
       THEN sess' = [sess EXCEPT ![s].at = "publish"]
       ELSE sess' = [sess EXCEPT ![s].at = "save", ![s].snap = rows[x.msg]]
  /\ UNCHANGED <<rows, active, flag, seq, log, listening, told, cancels, lapses>>

\* ... what becomes of it ...
Written(x) ==
  CASE x.chunk = "delta" -> [x.snap EXCEPT !.status = "streaming", !.text = @ + 1]
    [] x.chunk = "eos"   -> [x.snap EXCEPT !.status = "success"]
    [] OTHER             -> [x.snap EXCEPT !.status = "failed"]

\* ... and save it (an error in two such rounds, of which the second tells),
\* over what a stop has saved in between.
Save(s) ==
  LET x == sess[s]
      overtaken == x.snap.status \in Open /\ rows[x.msg].status \in Settled /\ x.chunk = "delta"
  IN
  /\ x.at = "save"
  /\ rows' = [Saved(x.msg, Written(x)) EXCEPT ![x.msg].lapse = @ \/ overtaken]
  /\ sess' = [sess EXCEPT ![s].at = "publish", ![s].snap = NoRow,
                          ![s].msg = IF x.chunk = "eos" THEN 0 ELSE @]
  /\ UNCHANGED <<active, flag, seq, log, listening, told, cancels, lapses>>

\* XADD refuses an id that is not above the last one; the error is logged.
Logged(e) ==
  IF log = <<>> \/ log[Len(log)].id < e.id THEN Append(log, e) ELSE log

\* sendSessionData, to the log and then to the subscribers.
Publish(s) ==
  LET x == sess[s] IN
  /\ x.at = "publish"
  /\ IF x.finished
       THEN /\ sess' = [sess EXCEPT ![s].at = "read", ![s].event = 0]
            /\ UNCHANGED log
       ELSE /\ sess' = [sess EXCEPT ![s].at = "read", ![s].event = 0,
                                    ![s].sent = Append(@, x.event)]
            /\ log' = Logged([id |-> x.event, of |-> s, kind |-> x.chunk])
  /\ UNCHANGED <<rows, active, flag, seq, listening, told, cancels, lapses>>

\* The wizard's stream ends or fails: a message it leaves open stays open.
EndStream(s) ==
  LET x == sess[s] IN
  /\ x.at = "read"
  /\ sess' = [sess EXCEPT ![s] = [Completed(x) EXCEPT !.at = "over", !.msg = 0, !.chunk = "none"]]
  /\ rows' = IF x.msg # 0 /\ ~x.aborted /\ rows[x.msg].status \in Open
              THEN [rows EXCEPT ![x.msg].lapse = TRUE] ELSE rows
  /\ UNCHANGED <<active, flag, seq, log, listening, told, cancels, lapses>>

\* The reader of a session that has been stopped throws, which nobody heeds.
Quit(s) ==
  /\ sess[s].at = "read" /\ sess[s].aborted
  /\ sess' = [sess EXCEPT ![s].at = "over", ![s].msg = 0, ![s].chunk = "none"]
  /\ UNCHANGED <<rows, active, flag, seq, log, listening, told, cancels, lapses>>

(* -------------------------------- stopping ------------------------------- *)

\* markSessionCanceled, and stopRunning up to the read before its save.
StopFind(s) ==
  LET m == LatestOpen IN
  /\ sess[s].stop.at = "find"
  /\ flag' = TRUE
  /\ sess' = IF m = 0 THEN [sess EXCEPT ![s].stop.at = "publish"]
             ELSE [sess EXCEPT ![s].stop = [at |-> "save", msg |-> m, snap |-> rows[m]]]
  /\ UNCHANGED <<rows, active, seq, log, listening, told, cancels, lapses>>

StopSave(s) ==
  LET y == sess[s].stop IN
  /\ y.at = "save"
  /\ rows' = Saved(y.msg, [y.snap EXCEPT !.status = "stopped"])
  /\ sess' = [sess EXCEPT ![s].stop = [NoStop EXCEPT !.at = "publish"]]
  /\ UNCHANGED <<active, flag, seq, log, listening, told, cancels, lapses>>

\* The log and the subscribers hear of it, unless the stream has ended on its
\* own, and completeSession is the end of the session.
StopEnd(s) ==
  LET x == sess[s] IN
  /\ x.stop.at = "publish"
  /\ sess' = [sess EXCEPT ![s] = [Completed(x) EXCEPT !.stop = NoStop]]
  /\ IF x.finished THEN UNCHANGED <<seq, log>>
     ELSE /\ seq' = seq + 1
          /\ log' = Logged([id |-> seq + 1, of |-> s, kind |-> "stopped"])
  /\ UNCHANGED <<rows, active, flag, listening, told, cancels, lapses>>

(* ------------------------------ cancellation ----------------------------- *)

\* cancelAgentStream reaches some process and sets the flag ...
Cancel(c, v) ==
  /\ cancels[c].at = "idle"
  /\ flag' = TRUE
  /\ cancels' = [cancels EXCEPT ![c] = [at |-> "look", server |-> v, msg |-> 0, snap |-> NoRow]]
  /\ sess' = [s \in Sessions |->
       [sess[s] EXCEPT !.covered = @ \/ (s \in listening /\ ~sess[s].finished)]]
  /\ UNCHANGED <<rows, active, seq, log, listening, told, lapses>>

\* ... stops the session of that process, and leaves those of other processes to
\* the flag ...
CancelHere(c) ==
  /\ cancels[c].at = "look"
  /\ \E s \in Current(cancels[c].server) :
       /\ sess' = [sess EXCEPT ![s] = Stopping(@)]
       /\ lapses' = IF \E r \in Sessions : r # s /\ sess[r].covered
                      THEN lapses \union {"spared"} ELSE lapses
  /\ cancels' = [cancels EXCEPT ![c].at = "done"]
  /\ UNCHANGED <<rows, active, flag, seq, log, listening, told>>

\* ... or, if it has none, the message itself ...
CancelFind(c) ==
  LET m == LatestOpen IN
  /\ cancels[c].at = "look" /\ Current(cancels[c].server) = {}
  /\ cancels' = IF m = 0 THEN [cancels EXCEPT ![c].at = "publish"]
                ELSE [cancels EXCEPT ![c].at = "save", ![c].msg = m, ![c].snap = rows[m]]
  /\ UNCHANGED <<rows, sess, active, flag, seq, log, listening, told, lapses>>

CancelSave(c) ==
  LET y == cancels[c] IN
  /\ y.at = "save"
  /\ rows' = Saved(y.msg, [y.snap EXCEPT !.status = "stopped"])
  /\ cancels' = [cancels EXCEPT ![c].at = "publish", ![c].snap = NoRow]
  /\ UNCHANGED <<sess, active, flag, seq, log, listening, told, lapses>>

\* A fault of Audience: the channel reaches the process that publishes.
AudienceHere(v) == {s \in listening : sess[s].server = v}

\* All processes hear what is published.
Audience(v) == listening

\* ... and tells the other processes.
CancelPublish(c) ==
  /\ cancels[c].at = "publish"
  /\ told' = told \union Audience(cancels[c].server)
  /\ cancels' = [cancels EXCEPT ![c].at = "done"]
  /\ UNCHANGED <<rows, sess, active, flag, seq, log, listening, lapses>>

Hear(s) ==
  /\ s \in told
  /\ told' = told \ {s}
  /\ sess' = [sess EXCEPT ![s] = Stopping(@)]
  /\ UNCHANGED <<rows, active, flag, seq, log, listening, cancels, lapses>>

(* ----------------------------- specification ------------------------------ *)

Next ==
  \/ \E v \in Servers : StartSession(v)
  \/ \E s \in Sessions :
       \/ ClearLog(s)
       \/ MarkActive(s)
       \/ Subscribe(s)
       \/ \E k \in Kinds : Receive(s, k)
       \/ Insert(s)
       \/ Load(s)
       \/ Save(s)
       \/ Publish(s)
       \/ EndStream(s)
       \/ Quit(s)
       \/ CleanUp(s)
       \/ StopFind(s)
       \/ StopSave(s)
       \/ StopEnd(s)
       \/ Hear(s)
  \/ \E c \in Cancels :
       \/ \E v \in Servers : Cancel(c, v)
       \/ CancelHere(c) \/ CancelFind(c) \/ CancelSave(c) \/ CancelPublish(c)

Spec == Init /\ [][Next]_vars

(* ------------------------------- properties ------------------------------- *)

Quiet ==
  /\ told = {} /\ \A c \in Cancels : cancels[c].at \in {"idle", "done"}
  /\ \A s \in Sessions : sess[s].stop.at = "none"

\* A message is settled by the time its session is over, unless the stream
\* ended without settling it, it was inserted or its delta was stored over the
\* stop, or another process ran a session meanwhile; and one marked successful
\* holds every delta accepted for it, although those for a stopped message are
\* dropped: the session is stopped before the end of the message, unless a start
\* took the cancel flag (stream.service.ts).
MessagesSound ==
  \A m \in Messages :
    LET s == rows[m].of IN
    /\ sess[s].alone /\ Gone(s) /\ ~rows[m].lapse => rows[m].status \in Settled
    /\ rows[m].status = "success" /\ "cleared" \notin lapses => rows[m].text = rows[m].given

\* A cancellation stops the sessions that listen when it begins, whichever
\* process it reaches, and even if the wizard sends nothing more.  When it found
\* a session in the process it reached, those of other processes may run on, but
\* the flag that stops them at their next chunk is still set, unless the start of
\* a session took it.
CancelsTakeEffect ==
  Quiet => \A s \in Sessions : sess[s].covered =>
    sess[s].finished \/ ("spared" \in lapses /\ (flag \/ "cleared" \in lapses))

\* A stream can be resumed while its session runs: the session is marked active,
\* and the log has what its subscribers have heard, event by event, and nothing
\* of a session before, unless one marked itself active after its end.
Resumable ==
  \A s \in Sessions :
    LET x == sess[s] IN
    x.alone /\ ~x.aborted /\ ~x.finished /\ x.at \notin {"open", "mark"} /\ "ghost" \notin lapses
      => /\ active
         /\ \A i \in DOMAIN log : log[i].of = s
         /\ [i \in DOMAIN log |-> log[i].id] = x.sent
=============================================================================
