---------------------------- MODULE ConnectionPool ----------------------------
(* The database connections of one process.  TypeORM takes them from a pool  *)
(* (src/src/app/app.module.ts gives it neither a size nor a time limit: ten  *)
(* connections, and a wait without end); a transaction keeps one from its    *)
(* begin to its end, and a statement of a repository takes one for itself,   *)
(* whether or not its caller is inside a transaction.  A request is the      *)
(* sequence of what it may have to wait for: a connection, or the locks of   *)
(* its transaction.  Which rows these are, and in which order, is left open: *)
(* a transaction that writes may have to wait for any others that do, and    *)
(* PostgreSQL breaks a circle of such waits.  Reads on the connection of the *)
(* transaction wait for nothing and are left out, and statements outside it  *)
(* that follow one another are one.                                          *)
EXTENDS Naturals, FiniteSets, Sequences

CONSTANTS
  Clerks,      \* requests and background runs of the process
  PoolSize     \* connections of the pool

ASSUME PoolAssumption == PoolSize \in Nat \ {0}

VARIABLES
  kind,     \* [Clerks -> Kinds]
  step,     \* [Clerks -> Nat], the step of its program it is at, or past the last
  inside,   \* those in a transaction: one connection each
  asking,   \* those in a statement outside their transaction: one more each
  queue,    \* Seq(Clerks), waiting for a connection, first come first served
  awaits    \* [Clerks -> SUBSET Clerks], whose transactions hold a lock it needs

poolVars == <<kind, step, inside, asking, queue, awaits>>

\* The requests: "ask" is a statement outside the transaction, "write" one or
\* several inside it that take locks: advisory ones, those of rows that are
\* read for a change or changed, and those of rows that foreign keys name.
Look == <<"ask">>

\* A fault of ClaimPoll: the last poll is looked up by a repository.
ClaimByLooking == <<"begin", "write", "ask", "write", "commit">>
ClaimPoll == <<"begin", "write", "commit">>

\* A fault of InsertItem: the tags of the item are looked up for the index.
InsertTaggedItem == <<"begin", "write", "ask", "write", "commit">>
InsertItem == <<"begin", "write", "commit">>

EditFeedFolder == <<"ask", "begin", "write", "commit", "ask">>
CreateFile == <<"begin", "ask", "write", "commit">>
EditTagged == <<"ask", "begin", "write", "ask", "write", "commit">>
ChangeTag == <<"begin", "ask", "write", "ask", "write", "commit">>
CreateFeedFolder == <<"ask", "begin", "ask", "write", "ask", "write", "commit", "ask">>
CreateSmartFolder == <<"ask", "begin", "ask", "write", "commit", "ask">>
MoveTagged == <<"ask", "begin", "ask", "write", "ask", "write", "ask", "write", "commit">>
BatchMove == <<"begin", "write", "ask", "write", "ask", "write", "ask", "write", "commit">>

Program == [
  look |-> Look, claim |-> ClaimPoll, insert |-> InsertItem, editFeed |-> EditFeedFolder,
  file |-> CreateFile, edit |-> EditTagged, tag |-> ChangeTag, feed |-> CreateFeedFolder,
  smartFolder |-> CreateSmartFolder, move |-> MoveTagged, batch |-> BatchMove]

Kinds == DOMAIN Program

PoolInit ==
  /\ kind \in [Clerks -> Kinds]
  /\ step = [c \in Clerks |-> 1]
  /\ inside = {} /\ asking = {} /\ queue = <<>>
  /\ awaits = [c \in Clerks |-> {}]

InUse == Cardinality(inside) + Cardinality(asking)
Ahead(c, what) ==
  step[c] \in DOMAIN Program[kind[c]] /\ Program[kind[c]][step[c]] \in what
Queued(c) == \E i \in DOMAIN queue : queue[i] = c
Busy(c) == c \in asking \/ Queued(c)

\* A connection for each of G: its transaction begins, or its statement runs.
\* The others are at the step that left says.
Serve(G, ins, ask, left) ==
  LET begun == {c \in G : Ahead(c, {"begin"})} IN
  /\ inside' = ins \union begun
  /\ asking' = ask \union (G \ begun)
  /\ step' = [c \in Clerks |-> IF c \in begun THEN step[c] + 1 ELSE left[c]]

\* The first in the queue has the connection that is handed back.
HandBack(ins, ask, left) ==
  IF queue = <<>> THEN Serve({}, ins, ask, left) /\ UNCHANGED queue
                  ELSE Serve({Head(queue)}, ins, ask, left) /\ queue' = Tail(queue)

Connect(c) ==
  /\ Ahead(c, {"begin", "ask"}) /\ ~Busy(c)
  /\ \/ InUse < PoolSize /\ Serve({c}, inside, asking, step) /\ UNCHANGED queue
     \/ InUse = PoolSize /\ queue' = Append(queue, c) /\ UNCHANGED <<inside, asking, step>>
  /\ UNCHANGED <<kind, awaits>>

\* A statement outside the transaction ends; it waits for no lock.
Answered(c) ==
  /\ c \in asking
  /\ HandBack(inside, asking \ {c}, [step EXCEPT ![c] = @ + 1])
  /\ UNCHANGED <<kind, awaits>>

\* Others that hold a lock which c needs, if they have come to one yet.
Wait(c) ==
  /\ c \in inside /\ Ahead(c, {"write"}) /\ awaits[c] = {}
  /\ \E D \in SUBSET {d \in inside \ {c} : \E i \in 1..step[d] : Program[kind[d]][i] = "write"} :
       D # {} /\ awaits' = [awaits EXCEPT ![c] = D]
  /\ UNCHANGED <<kind, step, inside, asking, queue>>

Write(c) ==
  /\ c \in inside /\ Ahead(c, {"write"}) /\ awaits[c] = {}
  /\ step' = [step EXCEPT ![c] = @ + 1]
  /\ UNCHANGED <<kind, inside, asking, queue, awaits>>

\* The transaction is over, and with it its locks.
EndOf(c, next) ==
  /\ HandBack(inside \ {c}, asking, [step EXCEPT ![c] = next])
  /\ awaits' = [d \in Clerks |-> IF d = c THEN {} ELSE awaits[d] \ {c}]
  /\ UNCHANGED kind

CommitAll(c) == c \in inside /\ Ahead(c, {"commit"}) /\ EndOf(c, step[c] + 1)

\* A check fails and the request with it: a quota, a name, a resource that is
\* not there.  Not while the transaction waits for something.
Rollback(c) ==
  /\ c \in inside /\ ~Busy(c) /\ awaits[c] = {}
  /\ EndOf(c, Len(Program[kind[c]]) + 1)

\* Transactions of which each waits for one that is among them.
Circle(K) == K # {} /\ \A c \in K : awaits[c] \intersect K # {}

\* PostgreSQL finds that its wait is part of a circle, and ends it.
BreakCircle(c) ==
  /\ \E K \in SUBSET inside : c \in K /\ Circle(K) /\ \A J \in SUBSET K : Circle(J) => J = K
  /\ EndOf(c, Len(Program[kind[c]]) + 1)

PoolNext == \E c \in Clerks :
  \/ Connect(c) \/ Answered(c) \/ Wait(c) \/ Write(c)
  \/ CommitAll(c) \/ Rollback(c) \/ BreakCircle(c)

PoolSpec == PoolInit /\ [][PoolNext]_poolVars

(* ------------------------------ Properties ------------------------------ *)

\* Those that ask for a second connection with one in their hands.
Nesting == {"file", "edit", "tag", "feed", "smartFolder", "move", "batch"}

\* Every transaction waits, for a connection or for another transaction, and
\* PostgreSQL sees no circle: it knows nothing of waits for connections.
Jam ==
  /\ inside # {} /\ asking = {}
  /\ \A c \in inside : Queued(c) \/ awaits[c] # {}
  /\ \A K \in SUBSET inside : ~Circle(K)

\* When no transaction can go on, and so no request of the process ever will,
\* one of those in Nesting waits for its second connection: polls, the items
\* they insert, edits of feed folders and requests without a transaction never
\* bring the process to a halt by themselves, whatever the pool's size and
\* whichever locks they wait for (app.module.ts, transaction-utils.ts).
PoolServes == Jam => \E c \in inside : Queued(c) /\ kind[c] \in Nesting
===============================================================================
