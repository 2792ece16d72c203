--------------------------- MODULE ResourceAccess ---------------------------
(* What a user may see of the tree while others change it                    *)
(* (src/src/permissions/permissions.service.ts and the readers of            *)
(* src/src/resources/resources.service.ts).                                  *)
(*                                                                           *)
(* A permission is given by the nearest entry on the way from a resource to  *)
(* the root: one of everybody, one of the user, one of the user's group; the *)
(* best of the three counts.  No reader sees all of that at once: it reads a *)
(* row after the other and then the entries, one query per table, outside a  *)
(* transaction or in one that shows each query what is committed by then.    *)
(* The tree changes meanwhile as ResourceTree has it, and so do the entries. *)
(*                                                                           *)
(* Of the ladder of permissions only the rung a reader asks for is kept: an  *)
(* entry allows or it denies.  The user stays a member of the namespace and  *)
(* of one group (see NamespaceMembers).                                      *)
(*                                                                           *)
(* A visitor of a share goes the same ways up, and asks whether they lead    *)
(* over the shared folder (src/src/shared-resources); smart folders are not  *)
(* shared here.                                                              *)
EXTENDS ResourceTree, Sequences, FiniteSetsExt, Functions

CONSTANTS InitialEntry,  \* the entries to begin with
          Changeable,    \* what requests make of entries: source, row and entry
          Watched,       \* the resources asked for
          Shared,        \* folders that are shared with all that is in them
          MaxServed      \* bound on the requests served at once

Sources == {"global", "user", "group"}

Entry == {"unset", "denies", "allows"}

ASSUME AccessAssumption ==
  /\ InitialEntry \in [Sources -> [Resources -> Entry]]
  /\ Changeable \subseteq Sources \X Resources \X Entry
  /\ Watched \subseteq Resources
  /\ Shared \subseteq Resources \ Watched
  /\ MaxServed \in Nat

VARIABLES entry,   \* who may see what: global_permission, user_permissions, group_permissions
          reader   \* the request that asks for a resource

accessVars == <<vars, entry, reader>>

(* ------------------------------ permissions ------------------------------ *)

\* The way from a resource to the root: as many rows as the chain has, each
\* the parent of the one before.
WayUp(r) ==
  LET up[k \in 1..Cardinality(Chain(r))] == IF k = 1 THEN r ELSE row[up[k - 1]].parent IN up

\* getGlobalPermission, getUserPermissions, getGroupPermissions: the entry of
\* the first row on the way that has one.
Nearest(e, way) ==
  LET set == {i \in DOMAIN way : e[way[i]] # "unset"}
  IN IF set = {} THEN "unset" ELSE e[way[Min(set)]]

\* maxPermissions reaches the rung when one of its arguments does.
Allows(found) == \E s \in Sources : found[s] = "allows"

\* What the answer is to one who sees it all at once.
Allowed(r) ==
  Reachable(r) /\ \E way \in {WayUp(r)} : Allows([s \in Sources |-> Nearest(entry[s], way)])

InShare(r, f) == Reachable(r) /\ f \in Chain(r)

(* -------------------------------- asking --------------------------------- *)

NotAsking == [phase |-> "idle"]

Asking == reader.phase \in {"rows", "entries"}

Serving == Cardinality({h \in Handlers : req[h] # Idle}) + (IF Asking THEN 1 ELSE 0)

\* MaxCommits bounds the commits to the tree and the changed entries together; a
\* request that asks begins while two may still come.
Changed(c) == entry[c[1]][c[2]] # InitialEntry[c[1]][c[2]]
Spent == commits + Cardinality({c \in Changeable : Changed(c)})

\* possible holds the answers that were right since the request began, shown
\* those of a share, changes counts the commits since, hung says that the
\* resource hung off the root, and knotted that some row stood where its place
\* had not been checked.
Ask(kind, r, todo) ==
  /\ reader = NotAsking /\ Serving < MaxServed /\ Spent + 2 <= MaxCommits
  /\ reader' = [phase |-> "rows", kind |-> kind, of |-> r, next |-> r, path |-> <<>>,
                looped |-> FALSE, found |-> [s \in Sources |-> "unset"], todo |-> todo,
                possible |-> {Allowed(r)}, shown |-> [f \in Shared |-> {InShare(r, f)}], changes |-> 0,
                hung |-> Reachable(r), knotted |-> loose.moved # {}]
  /\ UNCHANGED <<vars, entry>>

\* userHasPermission and permissionFilter go up row by row, getAllResourcesByUser
\* reads all rows in one query and keeps those that hang off a root; then one
\* asks for the entries of the user and of the group, the others the other way.
BeginCheck(r) == Ask("check", r, <<"user", "group">>)
BeginFilter(r) == Ask("filter", r, <<"group", "user">>)
BeginList(r) == Ask("list", r, <<"group", "user">>)

\* A row in the trash is not found, for either kind of walk.  MissingNever is a
\* query that has forgotten deleted_at.
MissingNever(r) == FALSE
Missing(r) == ~Live(r)

\* The first query of a listing, or the next of a walk, refuses: the resource
\* does not hang off a root, its way comes back to a row read before, or a row is
\* not found.  The filter goes on with the rows it has.
Refused ==
  /\ reader.phase = "rows"
  /\ \/ reader.kind = "list" /\ ~Reachable(reader.of)
     \/ /\ reader.kind # "list" /\ reader.next # None
        /\ IF reader.next \in Range(reader.path) THEN reader.kind = "check"
           ELSE Missing(reader.next) /\ (reader.kind = "check" \/ reader.next = reader.of)

Walked(looped) == reader' = [reader EXCEPT !.phase = "entries", !.next = None, !.looped = looped]

ReadRow ==
  /\ reader.phase = "rows" /\ reader.kind # "list" /\ ~Refused
  /\ UNCHANGED <<vars, entry>>
  /\ LET x == reader.next IN
       IF x = None THEN Walked(FALSE)
       ELSE IF x \in Range(reader.path) \/ Missing(x) THEN Walked(x \in Range(reader.path))
       ELSE reader' = [reader EXCEPT !.next = row[x].parent, !.path = Append(@, x),
                         !.found.global = IF @ = "unset" THEN entry.global[x] ELSE @]

ReadRows ==
  /\ reader.phase = "rows" /\ reader.kind = "list" /\ ~Refused
  /\ UNCHANGED <<vars, entry>>
  /\ LET way == WayUp(reader.of) IN
       reader' = [reader EXCEPT !.phase = "entries", !.next = None, !.path = way,
                    !.found.global = Nearest(entry.global, way)]

\* What has been found once the next table is read.
Found ==
  LET s == Head(reader.todo) IN [reader.found EXCEPT ![s] = Nearest(entry[s], reader.path)]

\* The climb of getCurrentPermissions ends at an entry or at the end of the
\* way, of which a way that closes on itself has none.
Endless == reader.looped /\ \E s \in Sources : Found[s] = "unset"

ReadEntries ==
  /\ reader.phase = "entries"
  /\ UNCHANGED <<vars, entry>>
  /\ \/ /\ Len(reader.todo) > 1
        /\ reader' = [reader EXCEPT !.found = Found, !.todo = Tail(@)]
     \/ /\ Len(reader.todo) = 1 /\ Endless
        /\ reader' = [phase |-> "endless", changes |-> reader.changes, knotted |-> reader.knotted]

Decided == reader.phase = "entries" /\ Len(reader.todo) = 1 /\ ~Endless

Verdict == Decided /\ Allows(Found)

Answer ==
  /\ Refused \/ Decided
  /\ reader' = NotAsking
  /\ UNCHANGED <<vars, entry>>

\* The walk of getAndValidateResource, which refuses as a check does, and that
\* of batchGetResourcePath, which goes by the rows it has, are over here.
WalkOver == reader.phase = "entries" /\ reader.kind # "list" /\ Len(reader.todo) > 1

\* A fault of Includes: the parents are read and not looked at.
IncludesAll(path, f) == TRUE

Includes(path, f) == f \in Range(path)

\* The loop of batchGetResourcePath ends at the shared folder or where a parent
\* has not been read.
PathEndless ==
  WalkOver /\ reader.kind = "filter" /\ reader.looped /\ \E f \in Shared : ~Includes(reader.path, f)

(* ------------------------------- changing -------------------------------- *)

\* What a commit makes of the answer; of an answer that two of them overtook
\* nothing more is said.
Overtake ==
  IF ~Asking THEN reader' = reader
  ELSE IF reader.changes # 0
  THEN reader' = [reader EXCEPT !.changes = 2, !.possible = BOOLEAN, !.shown = [f \in Shared |-> BOOLEAN], !.hung = FALSE]
  ELSE \E r \in Watched :
         /\ r = reader.of
         /\ reader' = [reader EXCEPT !.changes = 1, !.possible = @ \union {Allowed(r)'},
                                     !.shown = [f \in Shared |-> @[f] \union {InShare(r, f)'}],
                                     !.hung = @ /\ Reachable(r)', !.knotted = @ \/ loose'.moved # {}]

ChangeTree ==
  /\ \/ \E h \in Handlers : (req[h] = Idle => Serving < MaxServed) /\ Step(h)
     \/ \E r \in Resources : Trash(r)
  /\ UNCHANGED entry /\ Spent' <= MaxCommits
  /\ IF commits' = commits THEN UNCHANGED reader ELSE Overtake

\* updateGlobalPermission, which takes no entry away, and update and delete of
\* the entries of users and groups; followed only while there is an answer of
\* which something is said.
SetEntry(s, r, e) ==
  /\ Asking /\ reader.changes < 2
  /\ entry[s][r] # e /\ Reachable(r)
  /\ s = "global" => e # "unset"
  /\ s = "user" => row[r].parent # None
  /\ entry' = [entry EXCEPT ![s][r] = e]
  /\ UNCHANGED vars /\ Spent' <= MaxCommits
  /\ Overtake

AccessInit ==
  /\ Init
  /\ entry = InitialEntry
  /\ reader = NotAsking

AccessNext ==
  \/ ChangeTree
  \/ \E c \in Changeable : SetEntry(c[1], c[2], c[3])
  \/ \E r \in Watched : BeginCheck(r) \/ BeginFilter(r) \/ BeginList(r)
  \/ ReadRow \/ ReadRows \/ ReadEntries \/ Answer

AccessSpec == AccessInit /\ [][AccessNext]_accessVars

(* ------------------------------ properties ------------------------------- *)

\* What is said of answers: not those that two commits overtook, nor those in
\* a tree with a row whose place was not checked, where one commit may move two
\* rows of a way at once and circles may be.
Followed == reader.changes < 2 /\ ~reader.knotted

\* An answer was the right one at some moment of the request, although no
\* reader sees the tree and the entries at once.  The listings that load parents
\* on their own (search, tags, recent) say so only of a resource that hung off
\* the root all the time.
AnswersHold ==
  /\ Refused \/ Decided
  /\ Followed
  /\ reader.kind = "filter" => reader.hung
  => Verdict \in reader.possible

\* The climb through the loaded rows ends (it has no bound of its own), and
\* rows that never were a circle do not look like one.
ClimbEnds == reader.phase = "endless" => ~Followed

\* What is shown of a share was in it at some moment of the request, and what
\* is refused was not, and the path of what is shown ends
\* (shared-resources.service.ts).
SharesHold ==
  /\ WalkOver \/ (Refused /\ reader.kind # "list")
  /\ Followed
  /\ reader.kind = "filter" => reader.hung
  => \A f \in Shared : (WalkOver /\ Includes(reader.path, f)) \in reader.shown[f]

PathEnds == PathEndless => ~Followed

\* Whoever asks what they may do, or for what a share shows, gets an answer,
\* and it was the right one, when at most one commit fell into the request and
\* all rows stood where their place had been checked.
ReadersServed == AnswersHold /\ ClimbEnds /\ SharesHold /\ PathEnds
=============================================================================
