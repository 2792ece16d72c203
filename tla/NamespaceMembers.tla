-------------------------- MODULE NamespaceMembers --------------------------
(* Who belongs to a namespace, in which role, with which root and which      *)
(* access (src/src/namespaces/namespaces.service.ts), and the deletion of    *)
(* accounts (src/src/user/user.service.ts).                                  *)
(*                                                                           *)
(* Every operation reads, checks, writes and commits in one READ COMMITTED   *)
(* transaction without locking what it has read.  Its first checks are one   *)
(* step, its writes with the checks that follow them a second one, which     *)
(* sees its own writes and what others have committed, and its commit a      *)
(* third; between the last two it holds the locks of the rows it wrote.      *)
(*                                                                           *)
(* One namespace.  Of permissions there is each user's row for the teamspace *)
(* root; groups, global permissions and everything below the roots are left  *)
(* out, and so are the api keys, applications, tasks and shares that a       *)
(* removal ends, which nothing here depends on.                              *)
EXTENDS Naturals, FiniteSets

CONSTANTS Users, Handlers,
          MaxCommits     \* bound on the commits of a behaviour

ASSUME BoundAssumption == MaxCommits \in Nat

VARIABLES role,     \* the live row of each user in namespace_members, or why there is none
          root,     \* the private root of each user
          access,   \* the user_permissions row of each user for the teamspace root
          live,     \* is the namespace live, and its teamspace root with it
          req,      \* the request each handler is at
          late,     \* the operations that committed on what another had changed, and
                    \* "self" when an owner transferred the namespace to themselves
          commits   \* commits so far

vars == <<role, root, access, live, req, late, commits>>

Roles == {"owner", "admin", "member"}
Standing == Roles \union {"outside", "removed", "gone"}
Levels == {"none", "some", "full"}

\* ROLE_LEVEL, the lower the mightier.
Rank == [r \in Roles |-> CASE r = "owner" -> 0 [] r = "admin" -> 1 [] OTHER -> 2]

Ops == {"add", "role", "remove", "transfer", "delete", "account", "grant"}

Idle == [op |-> "idle"]

\* A request: on whom, by whom, the role and the level it sets; how far it is,
\* whether it made the private root live, whether the member row it read is
\* gone, and whether a commit changed what it relies on.
Request ==
  [op : Ops, user : Users, by : Users, role : Roles, level : Levels,
   phase : {"checked", "placed", "written"}, made : BOOLEAN,
   replaced : BOOLEAN, outdated : BOOLEAN]

Members == {u \in Users : role[u] \in Roles}
Owners == {u \in Users : role[u] = "owner"}
Admins == {u \in Users : role[u] \in {"owner", "admin"}}

\* createAndJoinNamespace: the creator owns the namespace.
Init ==
  /\ \E o \in Users :
       /\ role = [u \in Users |-> IF u = o THEN "owner" ELSE "outside"]
       /\ root = [u \in Users |-> IF u = o THEN "live" ELSE "none"]
       /\ access = [u \in Users |-> IF u = o THEN "full" ELSE "none"]
  /\ live = TRUE
  /\ req = [h \in Handlers |-> Idle]
  /\ late = {}
  /\ commits = 0

(* ------------------------------- requests -------------------------------- *)

Begin(h, op, u, by, r, l) ==
  /\ req[h] = Idle /\ commits < MaxCommits
  /\ req' = [req EXCEPT ![h] =
       [op |-> op, user |-> u, by |-> by, role |-> r, level |-> l,
        phase |-> "checked", made |-> FALSE, replaced |-> FALSE, outdated |-> FALSE]]
  /\ UNCHANGED <<role, root, access, live, late, commits>>

\* The rows a request holds locked: those it has written.
Holds(q) ==
  IF q # Idle /\ (q.phase = "written" \/ q.made)
    THEN IF q.op = "transfer" THEN {q.user, q.by} ELSE {q.user}
    ELSE {}

Unlocked(h, u) == \A g \in Handlers \ {h} : u \notin Holds(req[g])

\* Writes and the checks after them; a check that fails rolls back (Abort).
Written(h, check) ==
  /\ check
  /\ req' = [req EXCEPT ![h].phase = "written"]
  /\ UNCHANGED <<role, root, access, live, late, commits>>

\* The users whose role a request relies on and will not look at again.
Relies(q) ==
  CASE q.op = "transfer"                         -> {q.user, q.by}
    [] q.op \in {"add", "grant"}                 -> {q.user}
    [] q.op \in {"delete", "account"}            -> Users
    [] OTHER -> IF \/ q.phase = "written"
                   \/ q.op = "remove" /\ q.user = q.by
                   \/ q.op = "role" /\ q.role = "owner" THEN Users ELSE {}

\* What a commit does to a request under way.
Overtaken(q) ==
  LET changed == {u \in Users : role'[u] # role[u]}
      lost == q.user \in Members /\ role'[q.user] \notin Roles
  IN  [q EXCEPT
         !.replaced = @ \/ lost,
         !.outdated = \/ @
                      \/ lost
                      \/ Relies(q) \intersect changed # {}
                      \/ live' # live /\ (q.op = "add" => q.phase = "written")]

\* To be used after the primed values of role and live are fixed.
Commit(h) ==
  /\ commits < MaxCommits
  /\ commits' = commits + 1
  /\ req' = [g \in Handlers |->
       IF g = h \/ req[g] = Idle THEN (IF g = h THEN Idle ELSE req[g])
                                 ELSE Overtaken(req[g])]
  /\ late' = late \union (IF req[h].outdated THEN {req[h].op} ELSE {})
                 \union (IF req[h].op = "transfer" /\ req[h].user = req[h].by THEN {"self"} ELSE {})

\* A request is refused, or its transaction ends as one of a deadlock.
Abort(h) ==
  /\ req[h] # Idle
  /\ req' = [req EXCEPT ![h] = Idle]
  /\ UNCHANGED <<role, root, access, live, late, commits>>

(* -------------------------------- joining -------------------------------- *)

\* validateNamespaceHasMembers, and the first checks of addMember.
BeginAdd(h, u, r, l) ==
  /\ live /\ Members # {}
  /\ role[u] \notin Roles \union {"gone"}
  /\ Begin(h, "add", u, u, IF r = "owner" /\ Owners # {} THEN "admin" ELSE r, l)

\* A fault of NeedsRoot: a root in the trash is left there.
NeedsRootOnce(u) == root[u] = "none"

NeedsRoot(u) == root[u] # "live"

\* createOrRestorePrivateRoot: the root of a former row is restored, unless it
\* is live already.
Place(h) ==
  LET q == req[h] IN
  /\ q.op = "add" /\ q.phase = "checked"
  /\ root[q.user] = "trashed" => Unlocked(h, q.user)
  /\ req' = [req EXCEPT ![h].phase = "placed", ![h].made = NeedsRoot(q.user)]
  /\ UNCHANGED <<role, root, access, live, late, commits>>

\* The insert, against the unique index over live rows, and getTeamspaceRoot.
WriteAdd(h) ==
  LET q == req[h] IN
  /\ q.op = "add" /\ q.phase = "placed"
  /\ Unlocked(h, q.user)
  /\ Written(h, q.user \notin Members /\ live)

Add(h) ==
  LET q == req[h] IN
  /\ q.op = "add" /\ q.phase = "written"
  /\ role' = [role EXCEPT ![q.user] = q.role]
  /\ root' = [root EXCEPT ![q.user] = IF q.made THEN "live" ELSE @]
  /\ access' = [access EXCEPT ![q.user] = q.level]
  /\ UNCHANGED live
  /\ Commit(h)

(* ------------------------- changing roles, leaving ------------------------ *)

MayAssign(by, u, r) ==
  /\ \/ by \in Owners
     \/ by \in Admins /\ Rank[role[by]] < Rank[role[u]] /\ Rank[role[by]] < Rank[r]
  /\ r = "owner" /\ u \notin Owners => Owners = {}

BeginRole(h, by, u, r) ==
  /\ u \in Members /\ MayAssign(by, u, r)
  /\ Begin(h, "role", u, by, r, "none")

\* A fault of KeepsOwner: what the request itself has written is not seen.
KeepsOwnerBefore(q) == Owners # {}

\* hasOwner after the writes of q.
KeepsOwner(q) ==
  \/ Owners \ {q.user} # {}
  \/ q.op = "role" /\ q.role = "owner" /\ q.user \in Members

WriteRole(h) ==
  LET q == req[h] IN
  /\ q.op = "role" /\ q.phase = "checked"
  /\ Unlocked(h, q.user)
  /\ Written(h, KeepsOwner(q))

\* The UPDATE takes soft-deleted rows along, which nobody sees.
Given(u, r) == IF u \in Members THEN r ELSE role[u]

Role(h) ==
  LET q == req[h] IN
  /\ q.op = "role" /\ q.phase = "written"
  /\ role' = [role EXCEPT ![q.user] = Given(q.user, q.role)]
  /\ UNCHANGED <<root, access, live>>
  /\ Commit(h)

MayRemove(by, u) ==
  IF by = u THEN Cardinality(Members) # 1 /\ (u \in Owners => Cardinality(Owners) # 1)
            ELSE by \in Admins /\ (u \in Admins => by \in Owners)

BeginRemove(h, by, u) ==
  /\ u \in Members /\ MayRemove(by, u)
  /\ Begin(h, "remove", u, by, "member", "none")

\* deleteResource of the private root, which must be live, and, when others are
\* removed, hasOwner.
WriteRemove(h) ==
  LET q == req[h] IN
  /\ q.op = "remove" /\ q.phase = "checked"
  /\ Unlocked(h, q.user)
  /\ Written(h, root[q.user] = "live" /\ (q.user # q.by => KeepsOwner(q)))


\* The member row is deleted by the id that was read, and stays as a former row.
Dismissed(q) == IF q.replaced \/ q.user \notin Members THEN role[q.user] ELSE "removed"

Remove(h) ==
  LET q == req[h] IN
  /\ q.op = "remove" /\ q.phase = "written"
  /\ role' = [role EXCEPT ![q.user] = Dismissed(q)]
  /\ root' = [root EXCEPT ![q.user] = "trashed"]
  /\ access' = [access EXCEPT ![q.user] = "none"]
  /\ UNCHANGED live
  /\ Commit(h)

(* ------------------------- ownership, access, ends ------------------------ *)

BeginTransfer(h, by, u) ==
  /\ by \in Owners /\ u \in Members
  /\ Begin(h, "transfer", u, by, "owner", "none")

\* The new owner first, the former owner second.
Transferred(q) ==
  [role EXCEPT ![q.user] = Given(q.user, "owner"), ![q.by] = Given(q.by, "admin")]

\* Two UPDATEs without a check between or after them.
Transfer(h) ==
  LET q == req[h] IN
  /\ q.op = "transfer"
  /\ Unlocked(h, q.user) /\ Unlocked(h, q.by)
  /\ role' = Transferred(q)
  /\ UNCHANGED <<root, access, live>>
  /\ Commit(h)

\* A fault of MayDelete: members are not counted.
MayDeleteCrowded(by) == by \in Members

\* The count in delete, for an owner (NamespaceOwner): the one member is it.
MayDelete(by) == Members = {by}

BeginDelete(h, by) ==
  /\ by \in Owners /\ MayDelete(by)
  /\ Begin(h, "delete", by, by, "member", "none")

WriteDelete(h) ==
  LET q == req[h] IN
  /\ q.op = "delete" /\ q.phase = "checked"
  /\ Unlocked(h, q.user)
  /\ Written(h, live /\ root[q.user] = "live")

Delete(h) ==
  LET q == req[h] IN
  /\ q.op = "delete" /\ q.phase = "written"
  /\ role' = [role EXCEPT ![q.user] = Dismissed(q)]
  /\ root' = [root EXCEPT ![q.user] = "trashed"]
  /\ access' = [access EXCEPT ![q.user] = "none"]
  /\ live' = FALSE
  /\ Commit(h)

\* checkNamespaceOwnershipConstraint: an owner with other members is refused,
\* and the level records whether the namespace goes with the account.
BeginAccount(h, u) ==
  /\ role[u] # "gone"
  /\ u \in Owners => Members = {u}
  /\ Begin(h, "account", u, u, "member", IF u \in Owners THEN "full" ELSE "none")

\* confirmAccountDeletion soft-deletes the memberships and the namespaces;
\* roots and permissions stay.
Account(h) ==
  LET q == req[h] IN
  /\ q.op = "account" /\ Unlocked(h, q.user)
  /\ role' = [role EXCEPT ![q.user] = "gone"]
  /\ live' = (live /\ q.level # "full")
  /\ UNCHANGED <<root, access>>
  /\ Commit(h)

\* A fault of MayGrant: the owner is not asked for.
MayGrantOwner(by, u, l) ==
  /\ live /\ by \in Members /\ access[by] = "full"
  /\ IF u \in Members THEN by \in Owners \/ Rank[role[by]] < Rank[role[u]]
                      ELSE by \in Admins

\* updateUserPermission and deleteUserPermission of the namespace, with
\* canModifyUserPermission.
MayGrant(by, u, l) ==
  /\ l # "full" => u \notin Owners
  /\ MayGrantOwner(by, u, l)

BeginGrant(h, by, u, l) ==
  /\ MayGrant(by, u, l)
  /\ Begin(h, "grant", u, by, "member", l)

Grant(h) ==
  LET q == req[h] IN
  /\ q.op = "grant"
  /\ access' = [access EXCEPT ![q.user] = q.level]
  /\ UNCHANGED <<role, root, live>>
  /\ Commit(h)

(* ----------------------------- specification ------------------------------ *)

Next ==
  \E h \in Handlers :
    \/ \E u \in Users :
         \/ \E r \in Roles, l \in Levels \ {"none"} : BeginAdd(h, u, r, l)
         \/ \E by \in Users :
              \/ \E r \in Roles : BeginRole(h, by, u, r)
              \/ \E l \in Levels : BeginGrant(h, by, u, l)
              \/ BeginRemove(h, by, u) \/ BeginTransfer(h, by, u)
         \/ BeginDelete(h, u) \/ BeginAccount(h, u)
    \/ Place(h) \/ WriteAdd(h) \/ Add(h)
    \/ WriteRole(h) \/ Role(h)
    \/ WriteRemove(h) \/ Remove(h)
    \/ Transfer(h)
    \/ WriteDelete(h) \/ Delete(h)
    \/ Account(h) \/ Grant(h) \/ Abort(h)

Spec == Init /\ [][Next]_vars

(* ------------------------------- properties ------------------------------- *)

\* Types, and what the restoring of private roots builds on: who has a root has
\* a row, live or former.
TypeOK ==
  /\ role \in [Users -> Standing]
  /\ root \in [Users -> {"none", "live", "trashed"}]
  /\ \A u \in Users : role[u] = "outside" => root[u] = "none"
  /\ access \in [Users -> Levels]
  /\ live \in BOOLEAN
  /\ req \in [Handlers -> Request \union {Idle}]
  /\ late \subseteq Ops \union {"self"}
  /\ commits \in 0..MaxCommits

\* "The namespace requires at least one owner" (hasOwner) and has no second one
\* (NAMESPACE_HAS_OWNER), unless a transfer, a departure or a change of role was
\* overtaken by another after its last look at the owners, or the owner made
\* themselves the new owner.
OneOwner ==
  live /\ late \intersect {"transfer", "self", "remove", "role", "account"} = {}
    => Cardinality(Owners) = 1

\* A member has a live private root, however joining, leaving and joining again
\* interleave, unless the row was gone by the time its root was dealt with; and
\* a deleted namespace has no members, unless one joined after the count, or
\* after the namespace was found live (addMember, deleteMember, delete).
MembershipsWhole ==
  /\ late \intersect {"add", "remove", "delete"} = {} => \A u \in Members : root[u] = "live"
  /\ ~live /\ late \intersect {"add", "delete", "account"} = {} => Members = {}

\* updateUserPermission takes full access from no owner, and a removal none from
\* an owner who stays, unless the target became owner after the check.
OwnerKeepsAccess ==
  [][\A u \in Owners :
       access[u] = "full" /\ role'[u] = "owner" =>
         \/ access'[u] = "full"
         \/ \E h \in Handlers : req[h] # Idle /\ req[h].outdated /\ req'[h] = Idle]_vars
=============================================================================
