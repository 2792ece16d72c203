----------------------------- MODULE SearchIndex -----------------------------
(* The index of resources, which the wizard keeps, and the tasks that bring  *)
(* it up to date: each carries the text of the moment it was emitted in      *)
(* (src/src/resources, src/src/tasks/wizard-task.service.ts, the refreshes   *)
(* of src/src/search/search.service.ts).  Leases are held here, TaskQueue    *)
(* has what happens when they are not.                                       *)
EXTENDS Naturals, Sequences, FiniteSets, Functions

CONSTANTS
  Documents,   \* resources below a root, of a type that is indexed
  Versions,    \* [Documents -> Nat], bound: the texts of one; 0 is the empty content
  MaxOrders,   \* bound: tasks in all
  Absent

Texts == UNION {0..Versions[d] : d \in Documents}

ASSUME IndexAssumption ==
  IsFiniteSet(Documents) /\ Versions \in [Documents -> Nat] /\ MaxOrders \in Nat /\ Absent \notin Texts

VARIABLES
  document,   \* [Documents -> [state, text]]
  orders,     \* the index tasks that are not over, by their number: createdAt
  emitted,    \* how many there were
  index,      \* [Documents -> Texts \union {Absent}], the index itself (external)
  walk,       \* what a refresh read of the rows it has not come to yet
  astray      \* history: documents whose tasks went another way than one by one

indexVars == <<document, orders, emitted, index, walk, astray>>

NoWalk == [mode |-> "none", page |-> [d \in {} |-> 0]]

IndexInit ==
  /\ document = [d \in Documents |-> [state |-> "none", text |-> 0]]
  /\ orders = [i \in {} |-> 0]
  /\ emitted = 0
  /\ index = [d \in Documents |-> Absent]
  /\ walk = NoWalk
  /\ astray = {}

Indexed(d) == document[d].state = "live"
Pending == {i \in DOMAIN orders : orders[i].state = "pending"}
Unfinished(d) == {i \in DOMAIN orders : orders[i].doc = d}

\* TASK_PRIORITY of resources and of the refresh; a deletion has the priority
\* of the namespace, in a batch that of the column.
Upsert(d, n) == [kind |-> "upsert", doc |-> d, text |-> n, rank |-> 5, state |-> "pending"]
Removal(d, p) == [kind |-> "delete", doc |-> d, text |-> 0, rank |-> p, state |-> "pending"]

Queue(q, new) ==
  /\ emitted + Len(new) <= MaxOrders /\ emitted' = emitted + Len(new)
  /\ orders' = [i \in DOMAIN q \union (emitted + 1)..emitted' |-> IF i > emitted THEN new[i - emitted] ELSE q[i]]
Over(i) == orders' = Restrict(orders, DOMAIN orders \ {i}) /\ UNCHANGED emitted

\* emitUpsertIndexTask: nothing for a resource without content.
Upserts(d, n) == IF n = 0 THEN <<>> ELSE <<Upsert(d, n)>>

\* cancelResourceTasks: a worker that runs such a task is not told.
Withdrawn(d) ==
  [i \in DOMAIN orders \ (Pending \intersect Unfinished(d)) |->
     IF orders[i].doc = d THEN [orders[i] EXCEPT !.state = "late"] ELSE orders[i]]

----------------------------------------------------------------------------
CreateDocument(d, n) ==
  /\ document[d].state = "none"
  /\ document' = [document EXCEPT ![d] = [state |-> "live", text |-> n]]
  /\ Queue(orders, Upserts(d, n))
  /\ UNCHANGED <<index, walk, astray>>

\* updateResource: every update emits, also one of the name, the place or the
\* tags, unless the content is (now) empty; then the old text stays indexed.
UpdateDocument(d, n) ==
  /\ Indexed(d)
  /\ document' = [document EXCEPT ![d].text = n]
  /\ Queue(orders, Upserts(d, n))
  /\ astray' = IF n = 0 /\ document[d].text # 0 THEN astray \union {d} ELSE astray
  /\ UNCHANGED <<index, walk>>

\* batchMoveResources: those of the rows that have a content, in one insert.
MoveDocuments(S) ==
  LET filled == {d \in S : document[d].text # 0} IN
  /\ \A d \in S : Indexed(d)
  /\ \E rows \in Bijection(1..Cardinality(filled), filled) :
       Queue(orders, [i \in DOMAIN rows |-> Upsert(rows[i], document[rows[i]].text)])
  /\ UNCHANGED <<document, index, walk, astray>>

\* A fault of Removals: a deletion that only cancels what is pending.
RemovalsForgotten(d, p) == <<>>

\* emitDeleteIndexTask, emitDeleteIndexTasks.
Removals(d, p) == <<Removal(d, p)>>

\* deleteResource (the default priority of a namespace is 1) and
\* batchDeleteResources (that of a task is 5).
DeleteDocument(d, p) ==
  /\ Indexed(d) /\ p \in {1, 5}
  /\ document' = [document EXCEPT ![d].state = "trashed"]
  /\ Queue(Withdrawn(d), Removals(d, p))
  /\ UNCHANGED <<index, walk, astray>>

\* restoreResource; what is pending for the row in the trash stays pending.
RestoreDocument(d) ==
  /\ document[d].state = "trashed"
  /\ document' = [document EXCEPT ![d].state = "live"]
  /\ Queue(orders, Upserts(d, document[d].text))
  /\ UNCHANGED <<index, walk, astray>>

----------------------------------------------------------------------------
(* A refresh reads a page of rows and comes to one after the other. *)

BeginRefresh(m) ==
  /\ walk = NoWalk /\ \E d \in Documents : Indexed(d)
  /\ walk' = [mode |-> m, page |-> [d \in {e \in Documents : Indexed(e)} |-> document[d].text]]
  /\ UNCHANGED <<document, orders, emitted, index, astray>>

Left(d) ==
  IF DOMAIN walk.page = {d} THEN NoWalk
  ELSE [walk EXCEPT !.page = [e \in DOMAIN walk.page \ {d} |-> walk.page[e]]]

Outdated(d) == ~Indexed(d) \/ document[d].text # walk.page[d]

Stray(d) == IF Outdated(d) THEN astray \union {d} ELSE astray

\* refreshResourceIndex emits a task with the text of the page, ...
RefreshDocument(d) ==
  /\ walk.mode = "tasks" /\ d \in DOMAIN walk.page
  /\ Queue(orders, [i \in DOMAIN Upserts(d, walk.page[d]) |-> [Upsert(d, walk.page[d]) EXCEPT !.rank = 4]])
  /\ walk' = Left(d) /\ astray' = Stray(d)
  /\ UNCHANGED <<document, index>>

\* ... syncResourcesToWeaviate writes it to the index itself, or fails to.
SyncDocument(d) ==
  /\ walk.mode = "direct" /\ d \in DOMAIN walk.page
  /\ index' \in {index, [index EXCEPT ![d] = walk.page[d]]}
  /\ walk' = Left(d) /\ astray' = Stray(d)
  /\ UNCHANGED <<document, orders, emitted>>

----------------------------------------------------------------------------
(* Workers *)

\* getNextTaskV2: the oldest of the highest priority, and one time in five of
\* the lowest, so that nothing starves.
Dispatched(i) ==
  /\ i \in Pending
  /\ \A j \in Pending : orders[j].rank = orders[i].rank => i <= j
  /\ \/ \A j \in Pending : orders[j].rank <= orders[i].rank
     \/ \A j \in Pending : orders[j].rank >= orders[i].rank

Start(i) ==
  /\ Dispatched(i)
  /\ orders' = [orders EXCEPT ![i].state = "running"]
  /\ astray' = IF \E j \in Unfinished(orders[i].doc) : j < i
               THEN astray \union {orders[i].doc} ELSE astray
  /\ UNCHANGED <<document, emitted, index, walk>>

\* The wizard writes what the task says, and reports.  A worker whose task was
\* canceled meanwhile is told when it reports.
Perform(i) ==
  /\ orders[i].state # "pending"
  /\ index' = [index EXCEPT ![orders[i].doc] =
                 IF orders[i].kind = "upsert" THEN orders[i].text ELSE Absent]
  /\ Over(i)
  /\ UNCHANGED <<document, walk, astray>>

\* The task ends in an error.
Give(i) ==
  /\ orders[i].state # "pending"
  /\ Over(i)
  /\ astray' = IF orders[i].state = "late" THEN astray ELSE astray \union {orders[i].doc}
  /\ UNCHANGED <<document, index, walk>>

IndexNext ==
  \/ \E d \in Documents :
       \/ \E n \in 0..Versions[d] : CreateDocument(d, n) \/ UpdateDocument(d, n)
       \/ \E p \in {1, 5} : DeleteDocument(d, p)
       \/ RestoreDocument(d) \/ RefreshDocument(d) \/ SyncDocument(d)
  \/ \E S \in SUBSET Documents : MoveDocuments(S)
  \/ \E m \in {"tasks", "direct"} : BeginRefresh(m)
  \/ \E i \in DOMAIN orders : Start(i) \/ Perform(i) \/ Give(i)

IndexSpec == IndexInit /\ [][IndexNext]_indexVars

(* With nothing left to do for a document, the index has its text, and       *)
(* nothing of a document that is in the trash, although every task carries   *)
(* the text it was emitted with and deletions withdraw tasks that may be     *)
(* running.  What it relies on is that the tasks of one document run one by  *)
(* one in the order they were emitted in, which the dispatcher does not see  *)
(* to: priorities differ, are turned round at random, and several workers    *)
(* run at once; and that texts do not become empty, pages do not get old.    *)
IndexAgrees ==
  \A d \in Documents \ astray :
    Unfinished(d) = {} =>
      /\ Indexed(d) /\ document[d].text # 0 => index[d] = document[d].text
      /\ Indexed(d) /\ document[d].text = 0 => index[d] \in {0, Absent}
      /\ ~Indexed(d) => index[d] = Absent
===============================================================================
