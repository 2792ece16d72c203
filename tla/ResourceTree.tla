---------------------------- MODULE ResourceTree ----------------------------
(* The tree of a namespace's resources: who is whose parent, and under which *)
(* name (src/src/resources/resources.service.ts and                          *)
(* src/src/namespace-resources/namespace-resources.service.ts).              *)
(*                                                                           *)
(* A request checks the tree first and writes later; between the two other   *)
(* requests commit.  What keeps them apart is modelled as the code has it:   *)
(* a move and a rename lock their own row, batch moves lock the namespace,   *)
(* and the foreign key of parent_id locks the new parent against writers.    *)
(*                                                                           *)
(* Resource types are left out: they never change, so the containment rules  *)
(* a request checks cannot become false before it writes.  So are            *)
(* permissions: any request may be refused.                                  *)
EXTENDS Naturals, FiniteSets

CONSTANTS Resources,     \* rows, present and future
          Root,          \* the root they hang off
          Names,         \* names that differ in more than case
          Unnamed,       \* the empty name
          Handlers,      \* concurrent requests
          MaxCommits,    \* bound on the commits of a behaviour
          None,          \* no parent
          InitialParent, \* the tree to begin with, None for the rows to come
          InitialName

ASSUME RootAssumption == Root \in Resources /\ None \notin Resources

\* The tree to begin with: rows hang off rows that are there, none off itself,
\* and the rows of one have different names if they have any.
ASSUME InitialAssumption ==
  /\ InitialParent \in [Resources -> Resources \union {None}]
  /\ InitialName \in [Resources -> Names]
  /\ InitialParent[Root] = None
  /\ \A r \in Resources : InitialParent[r] \in Resources \ {Root} => InitialParent[InitialParent[r]] # None
  /\ \A C \in SUBSET Resources : (\A r \in C : InitialParent[r] \in C) => C = {}
  /\ \A r, s \in Resources :
       r # s /\ InitialParent[r] = InitialParent[s] /\ InitialParent[r] # None
         => InitialName[r] # InitialName[s] \/ InitialName[r] = Unnamed

ASSUME BoundAssumption == MaxCommits \in Nat

VARIABLES row,      \* the rows of resources
          req,      \* the request each handler is at
          loose,    \* the rows whose place or name was not checked when written
          commits   \* commits so far

vars == <<row, req, loose, commits>>

Parents == Resources \union {None}

Row == [state : {"absent", "live", "trashed"}, parent : Parents, name : Names]

Idle == [op |-> "idle"]

\* A request between its checks and its write: the rows it writes, the parent
\* and the name it checked, and whether a place or a name it relies on has
\* changed since.
Request ==
  [op : {"create", "rename", "move", "batch", "reparent", "check", "restore"},
   rows : SUBSET Resources, parent : Parents, name : Names,
   moved : BOOLEAN, named : BOOLEAN]

Live(r) == row[r].state = "live"

Init ==
  /\ row = [r \in Resources |->
       [state |-> IF r = Root \/ InitialParent[r] # None THEN "live" ELSE "absent",
        parent |-> InitialParent[r],
        name |-> InitialName[r]]]
  /\ req = [h \in Handlers |-> Idle]
  /\ loose = [moved |-> {}, named |-> {}]
  /\ commits = 0

(* ------------------------------- reading --------------------------------- *)

\* The resource and its parents: the least set that holds the one and, with
\* each row, its parent (getParentResources).
Closed(C) == \A r \in C : row[r].parent \in C \union {None}
Chain(r) == {x \in Resources : \A C \in SUBSET (Resources \ {x}) : r \in C => ~Closed(C)}

\* getParentResources gives up when one of them is in the trash, and when it
\* comes back to one of them instead of the root.
Reachable(r) == Root \in Chain(r) /\ \A x \in Chain(r) : Live(x)

\* A live child of the parent has the name.
Taken(p, n, except) ==
  \E s \in Resources \ except : Live(s) /\ row[s].parent = p /\ row[s].name = n

\* checkNameConflict, which creations, renames and moves of one resource call:
\* an empty name is not looked for.
Conflicts(p, n, except) == n # Unnamed /\ Taken(p, n, except)

\* A row lock that a move or a rename holds from its checks to its commit.
Locked(r) == \E h \in Handlers : req[h].op \in {"rename", "move"} /\ r \in req[h].rows
LockedByOther(h, r) ==
  \E k \in Handlers \ {h} : req[k].op \in {"rename", "move"} /\ r \in req[k].rows

\* The lock on the namespace row that a batch move holds.
Batching == \E h \in Handlers : req[h].op = "batch"

Free(h) == req[h] = Idle /\ commits < MaxCommits

Begin(h, op, rows, parent, name) ==
  /\ req' = [req EXCEPT ![h] = [op |-> op, rows |-> rows, parent |-> parent,
                                name |-> name, moved |-> FALSE, named |-> FALSE]]
  /\ UNCHANGED <<row, loose, commits>>

(* -------------------------------- commits -------------------------------- *)

\* The requests under way that a commit of these rows proves wrong: all that
\* rely on the place of some row when a row changes its place, and those that
\* write one of its rows or checked a name that is now taken.  Batch moves,
\* which hold the lock on the namespace, are not excused by each other.
Checked(q) == IF q.op = "batch" THEN {row[r].name : r \in q.rows} ELSE {q.name}

Together(h, k) == req[h].op = "batch" /\ req[k].op = "batch"

Overtaken(h, k, rows) ==
  \E r \in rows : \/ r \in req[k].rows
                  \/ row'[r].parent = req[k].parent /\ row'[r].name \in Checked(req[k])

Marked(q, moved, named) == [q EXCEPT !.moved = @ \/ moved, !.named = @ \/ named]

Disturbed(h, rows, moves) ==
  [k \in Handlers |->
     IF k = h \/ req[k] = Idle THEN req[k]
     ELSE Marked(req[k], moves /\ ~Together(h, k), ~Together(h, k) /\ Overtaken(h, k, rows))]

Commit(h, rows, moves) ==
  /\ commits < MaxCommits
  /\ commits' = commits + 1
  /\ req' = [Disturbed(h, rows, moves) EXCEPT ![h] = Idle]

With(set, rows, add) == IF add THEN set \union rows ELSE set \ rows

(* ---------------------- creating, renaming, moving ----------------------- *)

BeginCreate(h, r, p, n) ==
  /\ row[r].state = "absent" /\ \A k \in Handlers : req[k] # Idle => r \notin req[k].rows
  /\ Live(p) /\ ~Conflicts(p, n, {})
  /\ Begin(h, "create", {r}, p, n)

Create(h) ==
  /\ req[h].op = "create" /\ ~Locked(req[h].parent)
  /\ row' = [r \in Resources |-> IF r \in req[h].rows
       THEN [state |-> "live", parent |-> req[h].parent, name |-> req[h].name] ELSE row[r]]
  /\ loose' = [loose EXCEPT !.named = With(@, req[h].rows, req[h].named)]
  /\ Commit(h, req[h].rows, FALSE)

BeginRename(h, r, n) ==
  /\ Live(r) /\ ~Locked(r)
  /\ ~Conflicts(row[r].parent, n, {r})
  /\ Begin(h, "rename", {r}, row[r].parent, n)

Rename(h) ==
  /\ req[h].op = "rename"
  /\ row' = [r \in Resources |-> IF r \in req[h].rows
       THEN [row[r] EXCEPT !.name = req[h].name] ELSE row[r]]
  /\ loose' = [loose EXCEPT !.named = With(@, req[h].rows, req[h].named)]
  /\ Commit(h, req[h].rows, FALSE)

\* A resource cannot go below itself: not under one whose chain it is in.
MayHoldOther(p, r) == Reachable(p) /\ p # r
MayHold(p, r) == Reachable(p) /\ r \notin Chain(p)

BeginMove(h, r, p, n) ==
  /\ Live(r) /\ ~Locked(r)
  /\ Live(p) /\ ~Conflicts(p, n, {r}) /\ MayHold(p, r)
  /\ Begin(h, "move", {r}, p, n)

Move(h) ==
  /\ req[h].op = "move" /\ ~LockedByOther(h, req[h].parent)
  /\ row' = [r \in Resources |-> IF r \in req[h].rows
       THEN [row[r] EXCEPT !.parent = req[h].parent, !.name = req[h].name] ELSE row[r]]
  /\ loose' = [moved |-> With(loose.moved, req[h].rows, req[h].moved),
               named |-> With(loose.named, req[h].rows, req[h].named)]
  /\ Commit(h, req[h].rows, TRUE)

(* ------------------------------ batch moves ------------------------------ *)

\* Of the selected resources those go that hang off no other of them and may
\* go below the target, and whose name no other row will have there.
TopLevel(S) == {r \in S : Live(r) /\ row[r].parent # None /\ Chain(r) \intersect S = {r}}

Unoccupied(S, p) == {r \in S : ~Taken(p, row[r].name, S)}
Unambiguous(S, p) ==
  {r \in S : /\ ~Taken(p, row[r].name, S)
             /\ \A s \in S : row[s].name = row[r].name => s = r}

NamespaceUnlocked == TRUE
NamespaceFree == ~Batching

BeginBatch(h, S, p) ==
  /\ NamespaceFree
  /\ Reachable(p)
  /\ LET moves == Unambiguous({r \in TopLevel(S) : r \notin Chain(p)}, p)
     IN moves # {} /\ Begin(h, "batch", moves, p, row[p].name)

\* The UPDATE has no condition on deleted_at.
BatchMove(h) ==
  /\ req[h].op = "batch"
  /\ \A r \in req[h].rows \union {req[h].parent} : ~LockedByOther(h, r)
  /\ row' = [r \in Resources |-> IF r \in req[h].rows
       THEN [row[r] EXCEPT !.parent = req[h].parent] ELSE row[r]]
  /\ loose' = [moved |-> With(loose.moved, req[h].rows, req[h].moved),
               named |-> With(loose.named, req[h].rows, req[h].named)]
  /\ Commit(h, req[h].rows, TRUE)

(* ------------------------------- the trash ------------------------------- *)

\* Trashing a resource leaves what hangs off it as it is.
Trash(r) ==
  /\ Live(r) /\ row[r].parent # None /\ ~Locked(r)
  /\ row' = [row EXCEPT ![r].state = "trashed"]
  /\ loose' = [loose EXCEPT !.named = @ \ {r}]
  /\ commits < MaxCommits /\ commits' = commits + 1
  /\ UNCHANGED req

\* restore reads the resource, in the trash or not; when its parent is in the
\* trash it will be put under the root of its owner first.
BeginRestore(h, r) ==
  /\ row[r].state # "absent" /\ row[r].parent # None
  /\ IF Live(row[r].parent) THEN Begin(h, "check", {r}, row[r].parent, row[r].name)
                            ELSE Begin(h, "reparent", {r}, Root, row[r].name)

\* That write is not part of the restore and checks nothing.
Reparent(h) ==
  /\ req[h].op = "reparent"
  /\ ~Locked(Root) /\ \A r \in req[h].rows : ~Locked(r)
  /\ row' = [r \in Resources |-> IF r \in req[h].rows
       THEN [row[r] EXCEPT !.parent = Root] ELSE row[r]]
  /\ loose' = [moved |-> loose.moved \ req[h].rows, named |-> loose.named \union req[h].rows]
  /\ commits < MaxCommits /\ commits' = commits + 1
  /\ req' = [Disturbed(h, req[h].rows, TRUE) EXCEPT ![h].op = "check"]

\* The name it read at first must be free under the parent it has now.
CheckRestore(h) ==
  /\ req[h].op = "check"
  /\ \E r \in req[h].rows :
       req' = [req EXCEPT ![h] =
         IF Taken(row[r].parent, @.name, {r}) THEN Idle
         ELSE [@ EXCEPT !.op = "restore", !.parent = row[r].parent,
                        !.named = row[r].name # req[h].name]]
  /\ UNCHANGED <<row, loose, commits>>

Restore(h) ==
  /\ req[h].op = "restore"
  /\ \E r \in req[h].rows :
       IF row[r].state = "trashed"
       THEN /\ row' = [row EXCEPT ![r].state = "live"]
            /\ loose' = [loose EXCEPT !.named =
                 With(@, {r}, req[h].named \/ row[r].parent # req[h].parent)]
            /\ Commit(h, {r}, FALSE)
       ELSE /\ req' = [req EXCEPT ![h] = Idle]
            /\ UNCHANGED <<row, loose, commits>>

\* The request is refused, or its transaction rolls back.
Abort(h) ==
  /\ req[h] # Idle
  /\ req' = [req EXCEPT ![h] = Idle]
  /\ UNCHANGED <<row, loose, commits>>

BeginStep(h) ==
  /\ Free(h)
  /\ \/ \E r \in Resources : BeginRestore(h, r)
     \/ \E r \in Resources, n \in Names : BeginRename(h, r, n)
     \/ \E r, p \in Resources, n \in Names : BeginCreate(h, r, p, n) \/ BeginMove(h, r, p, n)
     \/ \E S \in SUBSET Resources, p \in Resources : BeginBatch(h, S, p)

Step(h) ==
  \/ BeginStep(h)
  \/ Create(h) \/ Rename(h) \/ Move(h) \/ BatchMove(h)
  \/ Reparent(h) \/ CheckRestore(h) \/ Restore(h) \/ Abort(h)

Next == \/ \E h \in Handlers : Step(h)
        \/ \E r \in Resources : Trash(r)

Spec == Init /\ [][Next]_vars

(* ------------------------------ properties ------------------------------- *)

TypeOK ==
  /\ row \in [Resources -> Row]
  /\ req \in [Handlers -> Request \union {Idle}]
  /\ loose \in [moved : SUBSET Resources, named : SUBSET Resources]
  /\ commits \in 0..MaxCommits

\* No resource hangs off itself, however moves, batch moves and restores
\* interleave (cannotSetParentToSubResource, CYCLE_DETECTED), but through a
\* row that a move put there although another had moved a row since its check.
Acyclic ==
  \A C \in SUBSET (Resources \ loose.moved) :
    (\A r \in C : row[r].parent \in C) => C = {}

\* Two resources of a folder that have names have different ones
\* (resourceNameConflict), but where a name was written that another request had taken since its check, or
\* a restore moved a resource before checking anything.
NamesUnique ==
  \A r, s \in Resources :
    /\ r # s /\ Live(r) /\ Live(s) /\ row[r].name # Unnamed
    /\ row[r].parent = row[s].parent /\ row[r].name = row[s].name
    => r \in loose.named \/ s \in loose.named

(* ------------------------- what the proofs need -------------------------- *)

\* Rows to come hang nowhere, rows hang off rows that are there, and the root
\* off nothing.
TreeShaped ==
  /\ row[Root].state # "absent" /\ row[Root].parent = None
  /\ \A r \in Resources :
       /\ row[r].state = "absent" => row[r].parent = None
       /\ row[r].parent # None => row[row[r].parent].state # "absent"

Moving == {"move", "batch"}

\* What a request checked and no commit can have changed; and, as long as no
\* row changed its place, that what it moves does not hold its target.
RequestSound(h) ==
  /\ req[h].op \in {"create", "move", "batch", "reparent"} =>
       req[h].parent \in Resources /\ row[req[h].parent].state # "absent"
  /\ req[h].op = "create" => \A r \in req[h].rows : row[r].state = "absent"
  /\ req[h].op \notin {"idle", "create"} => \A r \in req[h].rows : row[r].state # "absent"
  /\ req[h].op \notin {"idle", "create", "rename"} => Root \notin req[h].rows
  /\ req[h].op = "reparent" => req[h].parent = Root
  /\ req[h].op \in Moving /\ ~req[h].moved => req[h].rows \intersect Chain(req[h].parent) = {}

\* Two creations do not share a row, two batch moves do not overlap.
Apart ==
  \A h, k \in Handlers : h # k =>
    /\ req[h].op = "create" /\ req[k].op = "create" => req[h].rows \intersect req[k].rows = {}
    /\ ~(req[h].op = "batch" /\ req[k].op = "batch")

IInv == TypeOK /\ TreeShaped /\ (\A h \in Handlers : RequestSound(h)) /\ Apart /\ Acyclic
=============================================================================
