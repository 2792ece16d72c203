---------------------------- MODULE MemberProofs ----------------------------
(* Proofs about the members of a namespace, for any users and requests.  A    *)
(* request knows what it has read as long as nothing overtook it, which       *)
(* "late" records; the invariant says which of its findings then still hold.  *)
EXTENDS NamespaceMembers, FiniteSetTheorems, TLAPS

Under == {h \in Handlers : req[h] # Idle}

\* No operation that decides about owners has been overtaken.
OwnersKnown == live /\ late \intersect {"transfer", "self", "remove", "role", "account"} = {}
RootsKnown == late \intersect {"add", "remove", "delete"} = {}
EndKnown == late \intersect {"add", "delete", "account"} = {}

\* What a request has found out and still holds unless it is outdated.
Sound(q) ==
  /\ q.replaced => q.outdated
  /\ q.op = "add" /\ q.phase = "written" => q.user \notin Members /\ (~q.outdated => live)
  /\ q.op \in {"remove", "delete"} => role[q.user] # "outside" /\ (~q.replaced => q.user \in Members)
  /\ q.op = "delete" /\ ~q.outdated => Members = {q.user}
  /\ q.op = "account" /\ ~q.outdated /\ q.level = "full" => Members = {q.user}
  /\ q.op = "grant" /\ ~q.outdated /\ q.level # "full" => q.user \notin Owners

\* The same about the one owner.
Owned(q) ==
  /\ q.op = "add" => q.role # "owner"
  /\ q.op = "role" /\ ~q.outdated /\ q.role = "owner" => q.user \in Owners
  /\ q.op = "role" /\ ~q.outdated /\ q.role # "owner" /\ q.phase = "written" => q.user \notin Owners
  /\ q.op = "remove" /\ ~q.outdated /\ (q.user = q.by \/ q.phase = "written") => q.user \notin Owners
  /\ q.op = "transfer" /\ ~q.outdated => q.by \in Owners /\ q.user \in Members
  /\ q.op = "account" /\ ~q.outdated /\ q.level # "full" => q.user \notin Owners

\* The private root that an addition has found live.
Placed(q) ==
  q.op = "add" /\ q.phase # "checked" /\ ~q.outdated /\ ~q.made => root[q.user] = "live"

\* Two requests have not written to the same row.
Apart == \A h, g \in Under : req[h].phase = "written" /\ req[g].phase = "written" /\ req[h].user = req[g].user => h = g

OwnerKept == OwnersKnown => (\E o \in Users : Owners = {o}) /\ \A h \in Under : Owned(req[h])
RootsKept == RootsKnown => (\A u \in Members : root[u] = "live") /\ \A h \in Under : Placed(req[h])
EndKept == ~live /\ EndKnown => Members = {}

MemberInv ==
  /\ TypeOK /\ Apart
  /\ \A h \in Under : Sound(req[h])
  /\ OwnerKept /\ RootsKept /\ EndKept

LEMMA MemberInvSound == MemberInv => OneOwner /\ MembershipsWhole
<1> SUFFICES ASSUME MemberInv PROVE OneOwner /\ MembershipsWhole
  OBVIOUS
<1>1. \A o : Cardinality({o}) = 1
  BY FS_Singleton
<1>2. OneOwner
  BY <1>1 DEF MemberInv, OwnerKept, OwnersKnown, OneOwner
<1>3. MembershipsWhole
  BY DEF MemberInv, RootsKept, RootsKnown, EndKept, EndKnown, MembershipsWhole
<1> QED BY <1>2, <1>3

LEMMA MemberInitInv == Init => MemberInv
<1> SUFFICES ASSUME Init PROVE MemberInv
  OBVIOUS
<1>1. PICK o \in Users :
        /\ role = [u \in Users |-> IF u = o THEN "owner" ELSE "outside"]
        /\ root = [u \in Users |-> IF u = o THEN "live" ELSE "none"]
        /\ access = [u \in Users |-> IF u = o THEN "full" ELSE "none"]
  BY DEF Init
<1>2. live = TRUE /\ req = [h \in Handlers |-> Idle] /\ late = {} /\ commits = 0
  BY DEF Init
<1>3. Owners = {o} /\ Members = {o} /\ Under = {}
  BY <1>1, <1>2 DEF Owners, Members, Roles, Under
<1>4. TypeOK
  BY <1>1, <1>2, BoundAssumption DEF TypeOK, Standing, Roles, Levels
<1> QED BY <1>1, <1>2, <1>3, <1>4 DEF MemberInv, Apart, OwnerKept, RootsKept, EndKept

(* ------------------------------ before a commit ---------------------------- *)

\* A request that goes on with q, and changes nothing else.
LEMMA GoesOnInv ==
  ASSUME MemberInv, NEW h \in Handlers, NEW q \in Request \union {Idle}, req' = [req EXCEPT ![h] = q],
         role' = role, root' = root, access' = access, live' = live, late' = late, commits' = commits,
         q # Idle => /\ Sound(q)
                     /\ OwnersKnown => Owned(q)
                     /\ RootsKnown => Placed(q)
                     /\ q.phase = "written" => \A g \in Under \ {h} : req[g].phase = "written" => req[g].user # q.user
  PROVE  MemberInv'
<1>1. /\ \A g \in Handlers : req'[g] = IF g = h THEN q ELSE req[g]
      /\ req' \in [Handlers -> Request \union {Idle}]
  BY DEF MemberInv, TypeOK
<1>2. Members' = Members /\ Owners' = Owners /\ OwnersKnown' = OwnersKnown /\ RootsKnown' = RootsKnown
  BY DEF Members, Owners, OwnersKnown, RootsKnown
<1>3. /\ \A r : Sound(r)' <=> Sound(r)
      /\ \A r : Owned(r)' <=> Owned(r)
      /\ \A r : Placed(r)' <=> Placed(r)
  BY <1>2 DEF Sound, Owned, Placed
<1>4. \A g \in Under' : IF g = h THEN req'[g] = q /\ q # Idle ELSE req'[g] = req[g] /\ g \in Under
  BY <1>1 DEF Under
<1>5. TypeOK'
  BY <1>1 DEF MemberInv, TypeOK
<1>6. Apart'
  BY <1>4 DEF MemberInv, Apart
<1>7. \A g \in Under' : Sound(req[g])'
  BY <1>2, <1>4 DEF MemberInv, Sound
<1>8. OwnerKept'
  BY <1>2, <1>4 DEF MemberInv, OwnerKept, Owned
<1>9. RootsKept'
  BY <1>2, <1>4 DEF MemberInv, RootsKept, Placed
<1>10. EndKept'
  BY <1>2 DEF MemberInv, EndKept, EndKnown
<1> QED BY <1>5, <1>6, <1>7, <1>8, <1>9, <1>10 DEF MemberInv

LEMMA RequestFields ==
  ASSUME TypeOK, NEW h \in Handlers, req[h] # Idle \/ req[h].op # "idle"
  PROVE  req[h] \in Request /\ h \in Under
BY DEF TypeOK, Idle, Request, Ops, Under

LEMMA BegunRequest ==
  ASSUME NEW h, NEW op \in Ops, NEW u \in Users, NEW by \in Users, NEW r \in Roles, NEW l \in Levels, Begin(h, op, u, by, r, l)
  PROVE  \E q \in Request :
           /\ req' = [req EXCEPT ![h] = q] /\ q # Idle
           /\ q.op = op /\ q.user = u /\ q.by = by /\ q.role = r /\ q.level = l
           /\ q.phase = "checked" /\ ~q.made /\ ~q.replaced /\ ~q.outdated
           /\ role' = role /\ root' = root /\ access' = access /\ live' = live /\ late' = late /\ commits' = commits
<1> DEFINE q == [op |-> op, user |-> u, by |-> by, role |-> r, level |-> l,
                 phase |-> "checked", made |-> FALSE, replaced |-> FALSE, outdated |-> FALSE]
<1>1. q \in Request /\ q # Idle
  BY DEF Request, Idle, Ops
<1> QED BY <1>1 DEF Begin

LEMMA BeginInv ==
  ASSUME MemberInv, NEW h \in Handlers,
         \/ \E u \in Users, r \in Roles, l \in Levels \ {"none"} : BeginAdd(h, u, r, l)
         \/ \E u \in Users, by \in Users, r \in Roles : BeginRole(h, by, u, r)
         \/ \E u \in Users, by \in Users, l \in Levels : BeginGrant(h, by, u, l)
         \/ \E u \in Users, by \in Users : BeginRemove(h, by, u) \/ BeginTransfer(h, by, u)
         \/ \E u \in Users : BeginDelete(h, u) \/ BeginAccount(h, u)
  PROVE  MemberInv'
<1>0. \A o : Cardinality({o}) = 1
  BY FS_Singleton
<1>1. ASSUME NEW u \in Users, NEW r \in Roles, NEW l \in Levels \ {"none"}, BeginAdd(h, u, r, l)
      PROVE  MemberInv'
  <2>1. PICK s \in Roles : Begin(h, "add", u, u, s, l) /\ s = IF r = "owner" /\ Owners # {} THEN "admin" ELSE r
    BY <1>1 DEF BeginAdd, Roles
  <2>2. PICK q \in Request :
           /\ req' = [req EXCEPT ![h] = q] /\ q # Idle
           /\ q.op = "add" /\ q.user = u /\ q.by = u /\ q.role = s /\ q.level = l
           /\ q.phase = "checked" /\ ~q.made /\ ~q.replaced /\ ~q.outdated
           /\ role' = role /\ root' = root /\ access' = access /\ live' = live /\ late' = late /\ commits' = commits
    BY <2>1, BegunRequest DEF Ops
  <2>3. Sound(q) /\ Placed(q)
    BY <2>2 DEF Sound, Placed
  <2>4. OwnersKnown => Owned(q)
    BY <2>1, <2>2 DEF MemberInv, OwnerKept, Owned
  <2> QED BY <2>2, <2>3, <2>4, GoesOnInv
<1>2. ASSUME NEW u \in Users, NEW by \in Users, NEW r \in Roles, BeginRole(h, by, u, r) PROVE MemberInv'
  <2>1. Begin(h, "role", u, by, r, "none") /\ MayAssign(by, u, r)
    BY <1>2 DEF BeginRole
  <2>2. PICK q \in Request :
           /\ req' = [req EXCEPT ![h] = q] /\ q # Idle
           /\ q.op = "role" /\ q.user = u /\ q.by = by /\ q.role = r /\ q.level = "none"
           /\ q.phase = "checked" /\ ~q.made /\ ~q.replaced /\ ~q.outdated
           /\ role' = role /\ root' = root /\ access' = access /\ live' = live /\ late' = late /\ commits' = commits
    BY <2>1, BegunRequest DEF Ops, Levels
  <2>3. Sound(q) /\ Placed(q)
    BY <2>2 DEF Sound, Placed
  <2>4. OwnersKnown => Owned(q)
    BY <2>1, <2>2 DEF MemberInv, OwnerKept, Owned, MayAssign
  <2> QED BY <2>2, <2>3, <2>4, GoesOnInv
<1>3. ASSUME NEW u \in Users, NEW by \in Users, NEW l \in Levels, BeginGrant(h, by, u, l) PROVE MemberInv'
  <2>1. Begin(h, "grant", u, by, "member", l) /\ (l # "full" => u \notin Owners)
    BY <1>3 DEF BeginGrant, MayGrant
  <2>2. PICK q \in Request :
           /\ req' = [req EXCEPT ![h] = q] /\ q # Idle
           /\ q.op = "grant" /\ q.user = u /\ q.by = by /\ q.role = "member" /\ q.level = l
           /\ q.phase = "checked" /\ ~q.made /\ ~q.replaced /\ ~q.outdated
           /\ role' = role /\ root' = root /\ access' = access /\ live' = live /\ late' = late /\ commits' = commits
    BY <2>1, BegunRequest DEF Ops, Roles
  <2>3. Sound(q) /\ Placed(q) /\ Owned(q)
    BY <2>1, <2>2 DEF Sound, Placed, Owned
  <2> QED BY <2>2, <2>3, GoesOnInv
<1>4. ASSUME NEW u \in Users, NEW by \in Users, BeginRemove(h, by, u) PROVE MemberInv'
  <2>1. Begin(h, "remove", u, by, "member", "none") /\ u \in Members /\ MayRemove(by, u)
    BY <1>4 DEF BeginRemove
  <2>2. PICK q \in Request :
           /\ req' = [req EXCEPT ![h] = q] /\ q # Idle
           /\ q.op = "remove" /\ q.user = u /\ q.by = by /\ q.role = "member" /\ q.level = "none"
           /\ q.phase = "checked" /\ ~q.made /\ ~q.replaced /\ ~q.outdated
           /\ role' = role /\ root' = root /\ access' = access /\ live' = live /\ late' = late /\ commits' = commits
    <3>1. "remove" \in Ops /\ "member" \in Roles /\ "none" \in Levels
      BY DEF Ops, Roles, Levels
    <3> QED BY <2>1, <3>1, BegunRequest
  <2>3. Sound(q) /\ Placed(q)
    BY <2>1, <2>2 DEF Sound, Placed, Members, Roles
  <2>4. OwnersKnown => Owned(q)
    BY <1>0, <2>1, <2>2 DEF MemberInv, OwnerKept, Owned, MayRemove
  <2> QED BY <2>2, <2>3, <2>4, GoesOnInv
<1>5. ASSUME NEW u \in Users, NEW by \in Users, BeginTransfer(h, by, u) PROVE MemberInv'
  <2>1. Begin(h, "transfer", u, by, "owner", "none") /\ by \in Owners /\ u \in Members
    BY <1>5 DEF BeginTransfer
  <2>2. PICK q \in Request :
           /\ req' = [req EXCEPT ![h] = q] /\ q # Idle
           /\ q.op = "transfer" /\ q.user = u /\ q.by = by /\ q.role = "owner" /\ q.level = "none"
           /\ q.phase = "checked" /\ ~q.made /\ ~q.replaced /\ ~q.outdated
           /\ role' = role /\ root' = root /\ access' = access /\ live' = live /\ late' = late /\ commits' = commits
    BY <2>1, BegunRequest, ZenonT(40) DEF Ops, Roles, Levels
  <2>3. Sound(q) /\ Placed(q) /\ Owned(q)
    BY <2>1, <2>2 DEF Sound, Placed, Owned
  <2> QED BY <2>2, <2>3, GoesOnInv
<1>6. ASSUME NEW u \in Users, BeginDelete(h, u) PROVE MemberInv'
  <2>1. Begin(h, "delete", u, u, "member", "none") /\ Members = {u}
    BY <1>6 DEF BeginDelete, MayDelete
  <2>2. PICK q \in Request :
           /\ req' = [req EXCEPT ![h] = q] /\ q # Idle
           /\ q.op = "delete" /\ q.user = u /\ q.by = u /\ q.role = "member" /\ q.level = "none"
           /\ q.phase = "checked" /\ ~q.made /\ ~q.replaced /\ ~q.outdated
           /\ role' = role /\ root' = root /\ access' = access /\ live' = live /\ late' = late /\ commits' = commits
    BY <2>1, BegunRequest DEF Ops, Roles, Levels
  <2>3. role[u] # "outside"
    BY <2>1 DEF Members, Roles
  <2>4. Sound(q) /\ Placed(q) /\ Owned(q)
    BY <2>1, <2>2, <2>3 DEF Sound, Placed, Owned
  <2> QED BY <2>2, <2>4, GoesOnInv
<1>7. ASSUME NEW u \in Users, BeginAccount(h, u) PROVE MemberInv'
  <2>1. PICK l \in Levels : /\ Begin(h, "account", u, u, "member", l)
                            /\ l = IF u \in Owners THEN "full" ELSE "none"
                            /\ u \in Owners => Members = {u}
    BY <1>7 DEF BeginAccount, Levels
  <2>2. PICK q \in Request :
           /\ req' = [req EXCEPT ![h] = q] /\ q # Idle
           /\ q.op = "account" /\ q.user = u /\ q.by = u /\ q.role = "member" /\ q.level = l
           /\ q.phase = "checked" /\ ~q.made /\ ~q.replaced /\ ~q.outdated
           /\ role' = role /\ root' = root /\ access' = access /\ live' = live /\ late' = late /\ commits' = commits
    <3>1. Begin(h, "account", u, u, "member", l) /\ "account" \in Ops /\ "member" \in Roles
      BY <2>1 DEF Ops, Roles
    <3> QED BY <3>1, BegunRequest
  <2>3. Sound(q) /\ Placed(q) /\ Owned(q)
    BY <2>1, <2>2 DEF Sound, Placed, Owned
  <2> QED BY <2>2, <2>3, GoesOnInv
<1> QED BY <1>1, <1>2, <1>3, <1>4, <1>5, <1>6, <1>7

LEMMA WritesInv ==
  ASSUME MemberInv, NEW h \in Handlers,
         Place(h) \/ WriteAdd(h) \/ WriteRole(h) \/ WriteRemove(h) \/ WriteDelete(h) \/ Abort(h)
  PROVE  MemberInv'
<1> USE DEF MemberInv
<1>1. CASE Abort(h)
  BY <1>1, GoesOnInv DEF Abort
<1>2. ASSUME ~Abort(h) PROVE h \in Under /\ req[h] \in Request
  BY <1>2, RequestFields DEF Place, WriteAdd, WriteRole, WriteRemove, WriteDelete
<1>3. ASSUME NEW u \in Users, Unlocked(h, u), u = req[h].user
      PROVE  \A g \in Under \ {h} : req[g].phase = "written" => req[g].user # u
  BY <1>3 DEF Unlocked, Holds, Under
<1>4. ASSUME Place(h), ~Abort(h) PROVE MemberInv'
  <2>1. PICK q \in Request : q = [req[h] EXCEPT !.phase = "placed", !.made = NeedsRoot(req[h].user)]
    BY <1>2, <1>4 DEF Request, NeedsRoot
  <2>2. /\ req' = [req EXCEPT ![h] = q] /\ q # Idle /\ q.phase = "placed" /\ q.made = NeedsRoot(q.user)
        /\ q.op = "add" /\ q.user = req[h].user /\ q.role = req[h].role
        /\ q.replaced = req[h].replaced /\ q.outdated = req[h].outdated /\ req[h].op = "add"
        /\ role' = role /\ root' = root /\ access' = access /\ live' = live /\ late' = late /\ commits' = commits
    BY <1>2, <1>4, <2>1 DEF Place, TypeOK, Request, Idle
  <2>3. Sound(q) /\ Placed(q)
    BY <1>2, <1>4, <2>2 DEF Sound, Placed, NeedsRoot
  <2>4. OwnersKnown => Owned(q)
    BY <1>2, <1>4, <2>2 DEF OwnerKept, Owned
  <2> QED BY <2>2, <2>3, <2>4, GoesOnInv
<1>5. ASSUME NEW check, Written(h, check), Unlocked(h, req[h].user), ~Abort(h),
             \/ req[h].op = "add" /\ req[h].phase = "placed" /\ (check => req[h].user \notin Members /\ live)
             \/ req[h].op = "role" /\ (check => KeepsOwner(req[h]))
             \/ req[h].op = "remove" /\ (check /\ req[h].user # req[h].by => KeepsOwner(req[h]))
             \/ req[h].op = "delete"
      PROVE  MemberInv'
  <2>1. PICK q \in Request : q = [req[h] EXCEPT !.phase = "written"]
    BY <1>2, <1>5 DEF Request
  <2>2. /\ req' = [req EXCEPT ![h] = q] /\ q # Idle /\ q.phase = "written"
        /\ q.op = req[h].op /\ q.user = req[h].user /\ q.by = req[h].by /\ q.role = req[h].role
        /\ q.level = req[h].level /\ q.made = req[h].made
        /\ q.replaced = req[h].replaced /\ q.outdated = req[h].outdated
        /\ role' = role /\ root' = root /\ access' = access /\ live' = live /\ late' = late /\ commits' = commits
    BY <1>2, <1>5, <2>1 DEF Written, TypeOK, Request, Idle
  <2>3. h \in Under /\ Sound(req[h]) /\ (OwnersKnown => Owned(req[h])) /\ (RootsKnown => Placed(req[h]))
    BY <1>2, <1>5 DEF OwnerKept, RootsKept
  <2>4. check
    BY <1>5 DEF Written
  <2>5. Sound(q)
    BY <1>5, <2>2, <2>3, <2>4 DEF Sound
  <2>6. RootsKnown => Placed(q)
    BY <1>5, <2>2, <2>3 DEF Placed
  <2>7. ASSUME OwnersKnown PROVE Owned(q)
    <3>1. PICK o : Owners = {o}
      BY <2>7 DEF OwnerKept
    <3>2. q.op \in {"role", "remove"} /\ Owners \ {q.user} # {} => q.user \notin Owners
      BY <3>1
    <3>3. q.op = "role" /\ q.role # "owner" => q.user \notin Owners
      BY <1>5, <2>2, <2>4, <3>2 DEF KeepsOwner
    <3>4. q.op = "remove" /\ q.user # q.by => q.user \notin Owners
      BY <1>5, <2>2, <2>4, <3>2 DEF KeepsOwner
    <3> QED BY <2>2, <2>3, <2>7, <3>3, <3>4 DEF Owned
  <2>8. \A g \in Under \ {h} : req[g].phase = "written" => req[g].user # q.user
    BY <1>3, <1>5, <2>1, <2>2 DEF Request
  <2> QED BY <2>2, <2>5, <2>6, <2>7, <2>8, GoesOnInv
<1>6. ASSUME WriteAdd(h), ~Abort(h) PROVE MemberInv'
  <2>1. Written(h, req[h].user \notin Members /\ live) /\ Unlocked(h, req[h].user)
        /\ req[h].op = "add" /\ req[h].phase = "placed"
    BY <1>6 DEF WriteAdd
  <2> QED BY <1>5, <1>6, <2>1
<1>7. ASSUME WriteRole(h), ~Abort(h) PROVE MemberInv'
  <2>1. Written(h, KeepsOwner(req[h])) /\ Unlocked(h, req[h].user) /\ req[h].op = "role"
    BY <1>7 DEF WriteRole
  <2> QED BY <1>5, <1>7, <2>1
<1>8. ASSUME WriteRemove(h), ~Abort(h) PROVE MemberInv'
  <2>1. Written(h, root[req[h].user] = "live" /\ (req[h].user # req[h].by => KeepsOwner(req[h])))
        /\ Unlocked(h, req[h].user) /\ req[h].op = "remove"
    BY <1>8 DEF WriteRemove
  <2> QED BY <1>5, <1>8, <2>1
<1>9. ASSUME WriteDelete(h), ~Abort(h) PROVE MemberInv'
  <2>1. Written(h, live /\ root[req[h].user] = "live") /\ Unlocked(h, req[h].user) /\ req[h].op = "delete"
    BY <1>9 DEF WriteDelete
  <2> QED BY <1>5, <1>9, <2>1
<1> QED BY <1>1, <1>4, <1>6, <1>7, <1>8, <1>9

(* -------------------------------- a commit --------------------------------- *)

\* What a commit leaves to a request that it does not outdate.
LEMMA OvertakenKeeps ==
  ASSUME NEW q \in Request, role \in [Users -> Standing], role' \in [Users -> Standing]
  PROVE  LET p == Overtaken(q) IN
         /\ p \in Request /\ p # Idle
         /\ p.op = q.op /\ p.user = q.user /\ p.by = q.by /\ p.role = q.role /\ p.level = q.level
         /\ p.phase = q.phase /\ p.made = q.made
         /\ (p.replaced <=> q.replaced \/ (q.user \in Members /\ role'[q.user] \notin Roles))
         /\ (p.replaced /\ ~q.replaced => p.outdated) /\ (q.outdated => p.outdated)
         /\ ~p.outdated =>
              /\ Relies(q) = Users => role' = role
              /\ \A u \in Relies(q) \cap Users : role'[u] = role[u]
              /\ q.op = "add" /\ q.phase = "written" => live' = live
<1> DEFINE changed == {u \in Users : role'[u] # role[u]}
           lost == q.user \in Members /\ role'[q.user] \notin Roles
           out == \/ q.outdated \/ lost \/ Relies(q) \intersect changed # {}
                  \/ live' # live /\ (q.op = "add" => q.phase = "written")
           p == [q EXCEPT !.replaced = @ \/ lost, !.outdated = out]
<1>1. Overtaken(q) = p
  BY DEF Overtaken, Request
<1>2. p \in Request /\ p # Idle
  BY DEF Request, Idle
<1>3. /\ p.op = q.op /\ p.user = q.user /\ p.by = q.by /\ p.role = q.role /\ p.level = q.level
      /\ p.phase = q.phase /\ p.made = q.made /\ p.replaced = (q.replaced \/ lost) /\ p.outdated = out
  BY DEF Request
<1>4. ASSUME ~out
      PROVE  /\ ~q.outdated /\ ~lost /\ \A u \in Relies(q) \cap Users : role'[u] = role[u]
             /\ q.op = "add" /\ q.phase = "written" => live' = live
  BY <1>4
<1>5. ASSUME ~out, Relies(q) = Users PROVE role' = role
  BY <1>4, <1>5
<1> HIDE DEF out, lost
<1>6. q.replaced \in BOOLEAN
  BY DEF Request
<1> QED BY <1>1, <1>2, <1>3, <1>4, <1>5, <1>6 DEF lost, out

LEMMA CommitFacts ==
  ASSUME MemberInv, NEW h \in Under, Commit(h), role' \in [Users -> Standing], live' => live
  PROVE  /\ req' \in [Handlers -> Request \union {Idle}] /\ commits' \in 0..MaxCommits
         /\ late \subseteq late' /\ late' \subseteq Ops \union {"self"}
         /\ req[h].outdated => req[h].op \in late'
         /\ req[h].op = "transfer" /\ req[h].user = req[h].by => "self" \in late'
         /\ \A g \in Under' : g \in Under /\ g # h /\ req'[g] = Overtaken(req[g]) /\ req[g] \in Request
         /\ (OwnersKnown' => OwnersKnown) /\ (RootsKnown' => RootsKnown) /\ (EndKnown' => EndKnown)
<1>1. h \in Handlers /\ req[h] \in Request
  BY DEF Under, MemberInv, TypeOK
<1>2. \A g \in Handlers : req'[g] = IF g = h THEN Idle ELSE IF req[g] = Idle THEN Idle ELSE Overtaken(req[g])
  BY <1>1 DEF Commit
<1>3. \A g \in Handlers : req[g] # Idle => req[g] \in Request /\ Overtaken(req[g]) \in Request
  BY OvertakenKeeps DEF MemberInv, TypeOK
<1>4. req' \in [Handlers -> Request \union {Idle}]
  <2>1. \A g \in Handlers : req'[g] \in Request \union {Idle}
    BY <1>2, <1>3
  <2> QED BY <2>1 DEF Commit
<1>5. \A g \in Under' : g \in Under /\ g # h /\ req'[g] = Overtaken(req[g]) /\ req[g] \in Request
  BY <1>2, <1>3 DEF Under
<1>6. commits' \in 0..MaxCommits
  BY BoundAssumption DEF Commit, MemberInv, TypeOK
<1>7. /\ late \subseteq late' /\ late' \subseteq Ops \union {"self"}
      /\ req[h].outdated => req[h].op \in late'
      /\ req[h].op = "transfer" /\ req[h].user = req[h].by => "self" \in late'
  BY <1>1 DEF Commit, MemberInv, TypeOK, Request
<1>8. (OwnersKnown' => OwnersKnown) /\ (RootsKnown' => RootsKnown) /\ (EndKnown' => EndKnown)
  BY <1>7 DEF OwnersKnown, RootsKnown, EndKnown
<1> QED BY <1>4, <1>5, <1>6, <1>7, <1>8

LEMMA CommitSound ==
  ASSUME MemberInv, NEW h \in Under, Commit(h), role' \in [Users -> Standing], live' => live,
         \A u \in Users : role[u] # "outside" => role'[u] # "outside",
         \A u \in Members' : u \in Members \/ (req[h].op = "add" /\ req[h].phase = "written" /\ u = req[h].user)
  PROVE  Apart' /\ \A g \in Under' : Sound(req[g])'
<1>1. ASSUME NEW g \in Under' PROVE Sound(req[g])'
  <2>1. PICK q \in Request, p \in Request :
          /\ q = req[g] /\ p = Overtaken(q) /\ req'[g] = p /\ g \in Under /\ g # h
          /\ p.op = q.op /\ p.user = q.user /\ p.by = q.by /\ p.role = q.role /\ p.level = q.level
          /\ p.phase = q.phase /\ p.made = q.made
          /\ (p.replaced <=> q.replaced \/ (q.user \in Members /\ role'[q.user] \notin Roles))
          /\ (p.replaced /\ ~q.replaced => p.outdated) /\ (q.outdated => p.outdated)
          /\ ~p.outdated =>
               /\ Relies(q) = Users => role' = role
               /\ \A u \in Relies(q) \cap Users : role'[u] = role[u]
               /\ q.op = "add" /\ q.phase = "written" => live' = live
    BY <1>1, CommitFacts, OvertakenKeeps DEF MemberInv, TypeOK
  <2>2. Sound(q) /\ q.user \in Users
    BY <2>1 DEF MemberInv, Request
  <2>3. \A u \in Users : u \in Members' <=> role'[u] \in Roles
    BY DEF Members
  <2>4. p.replaced => p.outdated
    BY <2>1, <2>2 DEF Sound
  <2>5. p.op = "add" /\ p.phase = "written" => p.user \notin Members' /\ (~p.outdated => live')
    <3>1. SUFFICES ASSUME p.op = "add", p.phase = "written"
                   PROVE  p.user \notin Members' /\ (~p.outdated => live')
      OBVIOUS
    <3>2. q.user \notin Members /\ (~q.outdated => live)
      BY <2>1, <2>2, <3>1 DEF Sound
    <3>3. ~(req[h].phase = "written" /\ q.user = req[h].user)
      BY <2>1, <3>1, ZenonT(40) DEF MemberInv, Apart
    <3> QED BY <2>1, <3>1, <3>2, <3>3
  <2>6. p.op \in {"remove", "delete"} => role'[p.user] # "outside" /\ (~p.replaced => p.user \in Members')
    BY <2>1, <2>2, <2>3 DEF Sound
  <2>7. q.op \in {"delete", "account"} => Relies(q) = Users
    BY DEF Relies
  <2>8. q.op = "grant" => Relies(q) = {q.user}
    BY DEF Relies
  <2>9. role' = role => Members' = Members
    BY DEF Members
  <2>10. p.op = "delete" /\ ~p.outdated => Members' = {p.user}
    BY <2>1, <2>2, <2>7, <2>9 DEF Sound
  <2>11. p.op = "account" /\ ~p.outdated /\ p.level = "full" => Members' = {p.user}
    BY <2>1, <2>2, <2>7, <2>9 DEF Sound
  <2>12. p.op = "grant" /\ ~p.outdated /\ p.level # "full" => p.user \notin Owners'
    BY <2>1, <2>2, <2>8 DEF Sound, Owners
  <2> QED BY <2>1, <2>4, <2>5, <2>6, <2>10, <2>11, <2>12 DEF Sound
<1>2. ASSUME NEW g \in Under', NEW f \in Under', req'[g].phase = "written", req'[f].phase = "written",
             req'[g].user = req'[f].user
      PROVE  g = f
  <2>1. \A e \in Under' : e \in Under /\ req'[e].phase = req[e].phase /\ req'[e].user = req[e].user
    BY CommitFacts, OvertakenKeeps DEF MemberInv, TypeOK
  <2> QED BY <1>2, <2>1 DEF MemberInv, Apart
<1> QED BY <1>1, <1>2 DEF Apart

LEMMA CommitOwned ==
  ASSUME MemberInv, NEW h \in Under, Commit(h), role' \in [Users -> Standing], live' => live, OwnersKnown'
  PROVE  \A g \in Under' : Owned(req[g])'
<1> SUFFICES ASSUME NEW g \in Under' PROVE Owned(req[g])'
  OBVIOUS
<1>1. PICK q \in Request, p \in Request :
          /\ q = req[g] /\ p = Overtaken(q) /\ req'[g] = p /\ g \in Under
          /\ p.op = q.op /\ p.user = q.user /\ p.by = q.by /\ p.role = q.role /\ p.level = q.level
          /\ p.phase = q.phase /\ (q.outdated => p.outdated)
          /\ ~p.outdated =>
               /\ Relies(q) = Users => role' = role
               /\ \A u \in Relies(q) \cap Users : role'[u] = role[u]
    BY CommitFacts, OvertakenKeeps DEF MemberInv, TypeOK
<1>2. Owned(q) /\ q.user \in Users /\ q.by \in Users
  BY <1>1, CommitFacts DEF MemberInv, OwnerKept, Request
<1>3. /\ q.op = "account" => Relies(q) = Users
      /\ q.op = "remove" /\ (q.user = q.by \/ q.phase = "written") => Relies(q) = Users
      /\ q.op = "role" /\ (q.role = "owner" \/ q.phase = "written") => Relies(q) = Users
      /\ q.op = "transfer" => Relies(q) = {q.user, q.by}
  BY DEF Relies
<1>4. role' = role => Owners' = Owners
  BY DEF Owners
<1>5. p.op = "role" /\ ~p.outdated /\ p.role = "owner" => p.user \in Owners'
  BY <1>1, <1>2, <1>3, <1>4 DEF Owned
<1>6. p.op = "role" /\ ~p.outdated /\ p.role # "owner" /\ p.phase = "written" => p.user \notin Owners'
  BY <1>1, <1>2, <1>3, <1>4 DEF Owned
<1>7. p.op = "remove" /\ ~p.outdated /\ (p.user = p.by \/ p.phase = "written") => p.user \notin Owners'
  BY <1>1, <1>2, <1>3, <1>4 DEF Owned
<1>8. p.op = "transfer" /\ ~p.outdated => p.by \in Owners' /\ p.user \in Members'
  BY <1>1, <1>2, <1>3 DEF Owned, Owners, Members
<1>9. p.op = "account" /\ ~p.outdated /\ p.level # "full" => p.user \notin Owners'
  BY <1>1, <1>2, <1>3, <1>4 DEF Owned
<1> QED BY <1>1, <1>2, <1>5, <1>6, <1>7, <1>8, <1>9 DEF Owned

LEMMA CommitPlaced ==
  ASSUME MemberInv, NEW h \in Under, Commit(h), role' \in [Users -> Standing], live' => live, RootsKnown',
         \A u \in Users : root[u] = "live" => root'[u] = "live" \/ role'[u] # role[u]
  PROVE  \A g \in Under' : Placed(req[g])'
<1> SUFFICES ASSUME NEW g \in Under' PROVE Placed(req[g])'
  OBVIOUS
<1>1. PICK q \in Request, p \in Request :
          /\ q = req[g] /\ p = Overtaken(q) /\ req'[g] = p /\ g \in Under
          /\ p.op = q.op /\ p.user = q.user /\ p.phase = q.phase /\ p.made = q.made /\ (q.outdated => p.outdated)
          /\ ~p.outdated => \A u \in Relies(q) \cap Users : role'[u] = role[u]
    BY CommitFacts, OvertakenKeeps DEF MemberInv, TypeOK
<1>2. Placed(q) /\ q.user \in Users
  BY <1>1, CommitFacts DEF MemberInv, RootsKept, Request
<1>3. q.op = "add" => Relies(q) = {q.user}
  BY DEF Relies
<1> QED BY <1>1, <1>2, <1>3 DEF Placed

LEMMA CommitInv ==
  ASSUME MemberInv, NEW h \in Under, Commit(h),
         role' \in [Users -> Standing], root' \in [Users -> {"none", "live", "trashed"}],
         access' \in [Users -> Levels], live' \in BOOLEAN, live' => live,
         \A u \in Users : role'[u] = "outside" => role[u] = "outside" /\ root'[u] = root[u],
         \A u \in Members' : u \in Members \/ (req[h].op = "add" /\ req[h].phase = "written" /\ u = req[h].user),
         OwnersKnown' => \E o \in Users : Owners' = {o},
         RootsKnown' => /\ \A u \in Members' : root'[u] = "live"
                        /\ \A u \in Users : root[u] = "live" => root'[u] = "live" \/ role'[u] # role[u],
         EndKept'
  PROVE  MemberInv'
<1>1. TypeOK'
  BY CommitFacts DEF MemberInv, TypeOK
<1>2. Apart' /\ \A g \in Under' : Sound(req[g])'
  BY CommitSound
<1>3. OwnerKept'
  BY CommitOwned DEF OwnerKept
<1>4. RootsKept'
  BY CommitPlaced DEF RootsKept
<1> QED BY <1>1, <1>2, <1>3, <1>4 DEF MemberInv

\* An operation that was not overtaken relies on what is there.
LEMMA InTime ==
  ASSUME MemberInv, NEW h \in Under, Commit(h), role' \in [Users -> Standing], live' => live
  PROVE  /\ OwnersKnown' => /\ OwnersKnown /\ Owned(req[h])
                            /\ req[h].op \in {"transfer", "remove", "role", "account"} => ~req[h].outdated
                            /\ req[h].op = "transfer" => req[h].user # req[h].by
         /\ RootsKnown' => /\ RootsKnown /\ Placed(req[h])
                           /\ req[h].op \in {"add", "remove", "delete"} => ~req[h].outdated
         /\ EndKnown' => EndKnown /\ (req[h].op \in {"add", "delete", "account"} => ~req[h].outdated)
         /\ Sound(req[h])
<1>1. OwnersKnown' => OwnersKnown /\ (req[h].op \in {"transfer", "remove", "role", "account"} => ~req[h].outdated)
                      /\ (req[h].op = "transfer" => req[h].user # req[h].by)
  BY CommitFacts DEF OwnersKnown
<1>2. RootsKnown' => RootsKnown /\ (req[h].op \in {"add", "remove", "delete"} => ~req[h].outdated)
  BY CommitFacts DEF RootsKnown
<1>3. EndKnown' => EndKnown /\ (req[h].op \in {"add", "delete", "account"} => ~req[h].outdated)
  BY CommitFacts DEF EndKnown
<1> QED BY <1>1, <1>2, <1>3 DEF MemberInv, OwnerKept, RootsKept

LEMMA CommitsInv ==
  ASSUME MemberInv, NEW h \in Handlers,
         Add(h) \/ Role(h) \/ Remove(h) \/ Transfer(h) \/ Delete(h) \/ Account(h) \/ Grant(h)
  PROVE  MemberInv'
<1>0. h \in Under /\ req[h] \in Request /\ Commit(h)
  BY RequestFields DEF Add, Role, Remove, Transfer, Delete, Account, Grant, MemberInv
<1>1. PICK q \in Request : q = req[h]
  BY <1>0
<1>2. /\ role \in [Users -> Standing] /\ root \in [Users -> {"none", "live", "trashed"}]
      /\ access \in [Users -> Levels] /\ live \in BOOLEAN
      /\ q.user \in Users /\ q.by \in Users /\ q.role \in Roles /\ q.level \in Levels
  BY DEF MemberInv, TypeOK, Request
<1>3. (\A u \in Users : u \in Members <=> role[u] \in Roles) /\ (\A u \in Users : u \in Members' <=> role'[u] \in Roles)
      /\ (\A u \in Users : u \in Owners <=> role[u] = "owner") /\ (\A u \in Users : u \in Owners' <=> role'[u] = "owner")
      /\ Owners \subseteq Users /\ Owners' \subseteq Users /\ Members \subseteq Users /\ Members' \subseteq Users
  BY DEF Members, Owners
<1>4. OwnersKnown => \E o \in Users : Owners = {o}
  BY DEF MemberInv, OwnerKept
<1>5. RootsKnown => \A u \in Members : root[u] = "live"
  BY DEF MemberInv, RootsKept
<1>6. CASE Add(h)
  <2>1. /\ role' = [role EXCEPT ![q.user] = q.role]
        /\ root' = [root EXCEPT ![q.user] = IF q.made THEN "live" ELSE @]
        /\ access' = [access EXCEPT ![q.user] = q.level] /\ live' = live
        /\ q.op = "add" /\ q.phase = "written"
    BY <1>1, <1>6 DEF Add
  <2>2. /\ role' \in [Users -> Standing] /\ root' \in [Users -> {"none", "live", "trashed"}]
        /\ access' \in [Users -> Levels]
    BY <1>2, <2>1 DEF Standing
  <2>3. /\ role'[q.user] = q.role /\ root'[q.user] = IF q.made THEN "live" ELSE root[q.user]
        /\ \A u \in Users \ {q.user} : role'[u] = role[u] /\ root'[u] = root[u]
    BY <1>2, <2>1
  <2>4. /\ OwnersKnown' => OwnersKnown /\ Owned(q)
        /\ RootsKnown' => RootsKnown /\ Placed(q) /\ ~q.outdated
        /\ EndKnown' => ~q.outdated
        /\ Sound(q)
    BY <1>0, <1>1, <2>1, <2>2, InTime
  <2>5. q.user \notin Members /\ (~q.outdated => live)
    BY <2>1, <2>4 DEF Sound
  <2>6. ASSUME OwnersKnown' PROVE \E o \in Users : Owners' = {o}
    <3>1. q.role # "owner"
      BY <2>1, <2>4, <2>6 DEF Owned
    <3>2. Owners' = Owners
      BY <1>2, <1>3, <2>3, <2>5, <3>1 DEF Roles
    <3> QED BY <1>4, <2>4, <2>6, <3>2
  <2>7. ASSUME RootsKnown' PROVE \A u \in Members' : root'[u] = "live"
    <3>1. root'[q.user] = "live"
      BY <2>1, <2>3, <2>4, <2>7 DEF Placed
    <3> QED BY <1>3, <1>5, <2>3, <2>4, <2>7, <3>1
  <2>8. EndKept'
    BY <2>1, <2>4, <2>5 DEF EndKept
  <2>9. \A u \in Users : /\ role'[u] = "outside" => role[u] = "outside" /\ root'[u] = root[u]
                         /\ root[u] = "live" => root'[u] = "live"
    BY <1>2, <2>3 DEF Roles
  <2>10. \A u \in Members' : u \in Members \/ u = q.user
    BY <1>3, <2>3
  <2> QED BY <1>0, <1>1, <1>2, <2>1, <2>2, <2>6, <2>7, <2>8, <2>9, <2>10, CommitInv
<1>7. CASE Role(h)
  <2>1. /\ role' = [role EXCEPT ![q.user] = IF q.user \in Members THEN q.role ELSE @]
        /\ root' = root /\ access' = access /\ live' = live
        /\ q.op = "role" /\ q.phase = "written"
    BY <1>1, <1>7 DEF Role, Given
  <2>2. role' \in [Users -> Standing]
    BY <1>2, <2>1 DEF Standing
  <2>3. /\ role'[q.user] = IF q.user \in Members THEN q.role ELSE role[q.user]
        /\ \A u \in Users \ {q.user} : role'[u] = role[u]
    BY <1>2, <2>1
  <2>4. /\ OwnersKnown' => OwnersKnown /\ Owned(q) /\ ~q.outdated
        /\ RootsKnown' => RootsKnown
        /\ EndKnown' => EndKnown
    BY <1>0, <1>1, <2>1, <2>2, InTime
  <2>5. Members' = Members
    BY <1>2, <1>3, <2>3, SMTT(20)
  <2>6. ASSUME OwnersKnown' PROVE \E o \in Users : Owners' = {o}
    <3>1. q.role = "owner" <=> q.user \in Owners
      BY <2>1, <2>4, <2>6 DEF Owned
    <3>2. Owners' = Owners
      BY <1>2, <1>3, <2>3, <3>1 DEF Roles
    <3> QED BY <1>4, <2>4, <2>6, <3>2
  <2>7. EndKept'
    BY <2>1, <2>4, <2>5 DEF EndKept, MemberInv
  <2>8. \A u \in Users : role'[u] = "outside" => role[u] = "outside"
    BY <1>2, <2>3 DEF Roles
  <2> QED BY <1>0, <1>1, <1>2, <1>5, <2>1, <2>2, <2>4, <2>5, <2>6, <2>7, <2>8, CommitInv
<1>8. CASE Remove(h) \/ Delete(h)
  <2>1. /\ role' = [role EXCEPT ![q.user] = IF q.replaced \/ q.user \notin Members THEN @ ELSE "removed"]
        /\ root' = [root EXCEPT ![q.user] = "trashed"]
        /\ access' = [access EXCEPT ![q.user] = "none"] /\ live' = (live /\ q.op # "delete")
        /\ q.op \in {"remove", "delete"} /\ q.phase = "written"
    BY <1>1, <1>2, <1>8 DEF Remove, Delete, Dismissed
  <2>2. /\ role' \in [Users -> Standing] /\ root' \in [Users -> {"none", "live", "trashed"}]
        /\ access' \in [Users -> Levels] /\ live' \in BOOLEAN
    BY <1>2, <2>1 DEF Standing, Levels
  <2>3. /\ role'[q.user] = IF q.replaced \/ q.user \notin Members THEN role[q.user] ELSE "removed"
        /\ \A u \in Users \ {q.user} : role'[u] = role[u] /\ root'[u] = root[u]
    BY <1>2, <2>1
  <2>4. /\ OwnersKnown' => OwnersKnown /\ Owned(q) /\ (q.op = "remove" => ~q.outdated)
        /\ RootsKnown' => RootsKnown /\ ~q.outdated
        /\ EndKnown' => EndKnown /\ (q.op = "delete" => ~q.outdated)
        /\ Sound(q)
    BY <1>0, <1>1, <2>1, <2>2, InTime
  <2>5. /\ role[q.user] # "outside" /\ (~q.outdated => ~q.replaced /\ q.user \in Members)
        /\ q.op = "delete" /\ ~q.outdated => Members = {q.user}
    BY <2>1, <2>4 DEF Sound
  <2>6. Members' \subseteq Members /\ (~q.outdated => q.user \notin Members' /\ role'[q.user] # role[q.user])
    BY <1>2, <1>3, <2>3, <2>5 DEF Roles
  <2>7. ASSUME OwnersKnown' PROVE \E o \in Users : Owners' = {o}
    <3>1. q.op = "remove"
      BY <2>1, <2>7 DEF OwnersKnown
    <3>2. q.user \notin Owners
      BY <2>1, <2>4, <2>7, <3>1 DEF Owned
    <3>3. Owners' = Owners
      BY <1>2, <1>3, <2>3, <3>2
    <3> QED BY <1>4, <2>4, <2>7, <3>3
  <2>8. ASSUME RootsKnown'
        PROVE  /\ \A u \in Members' : root'[u] = "live"
               /\ \A u \in Users : root[u] = "live" => root'[u] = "live" \/ role'[u] # role[u]
    BY <1>3, <1>5, <2>3, <2>4, <2>6, <2>8
  <2>9. EndKept'
    <3>1. ASSUME ~live', EndKnown' PROVE Members' = {}
      <4>1. CASE q.op = "delete"
        BY <2>4, <2>5, <2>6, <3>1, <4>1
      <4>2. CASE q.op # "delete"
        BY <2>1, <2>4, <2>6, <3>1, <4>2 DEF EndKept, MemberInv
      <4> QED BY <4>1, <4>2
    <3> QED BY <3>1 DEF EndKept
  <2>10. \A u \in Users : role'[u] = "outside" => role[u] = "outside" /\ root'[u] = root[u]
    BY <2>3, <2>5
  <2> QED BY <1>0, <1>1, <2>1, <2>2, <2>6, <2>7, <2>8, <2>9, <2>10, CommitInv
<1>9. CASE Transfer(h)
  <2>1. /\ role' = [role EXCEPT ![q.user] = IF q.user \in Members THEN "owner" ELSE role[q.user],
                                ![q.by] = IF q.by \in Members THEN "admin" ELSE role[q.by]]
        /\ root' = root /\ access' = access /\ live' = live /\ q.op = "transfer"
    BY <1>1, <1>9 DEF Transfer, Transferred, Given
  <2>2. role' \in [Users -> Standing]
    BY <1>2, <2>1 DEF Standing, Roles
  <2>3. /\ role'[q.by] = IF q.by \in Members THEN "admin" ELSE role[q.by]
        /\ q.user # q.by => role'[q.user] = IF q.user \in Members THEN "owner" ELSE role[q.user]
        /\ \A u \in Users \ {q.user, q.by} : role'[u] = role[u]
    BY <1>2, <2>1
  <2>4. /\ OwnersKnown' => OwnersKnown /\ Owned(q) /\ ~q.outdated /\ q.user # q.by
        /\ RootsKnown' => RootsKnown
        /\ EndKnown' => EndKnown
    BY <1>0, <1>1, <2>1, <2>2, InTime
  <2>5. Members' = Members
    BY <1>2, <1>3, <2>3, SMTT(20) DEF Roles
  <2>6. ASSUME OwnersKnown' PROVE \E o \in Users : Owners' = {o}
    <3>1. q.by \in Owners /\ q.user \in Members /\ q.user # q.by
      BY <2>1, <2>4, <2>6 DEF Owned
    <3>2. Owners = {q.by}
      BY <1>4, <2>4, <2>6, <3>1
    <3>3. Owners' = {q.user}
      BY <1>2, <1>3, <2>3, <3>1, <3>2 DEF Roles
    <3> QED BY <1>2, <3>3
  <2>7. EndKept'
    BY <2>1, <2>4, <2>5 DEF EndKept, MemberInv
  <2>8. \A u \in Users : role'[u] = "outside" => role[u] = "outside"
    BY <1>2, <2>3
  <2> QED BY <1>0, <1>1, <1>2, <1>5, <2>1, <2>2, <2>4, <2>5, <2>6, <2>7, <2>8, CommitInv
<1>10. CASE Account(h)
  <2>1. /\ role' = [role EXCEPT ![q.user] = "gone"] /\ live' = (live /\ q.level # "full")
        /\ root' = root /\ access' = access /\ q.op = "account"
    BY <1>1, <1>10 DEF Account
  <2>2. role' \in [Users -> Standing] /\ live' \in BOOLEAN
    BY <1>2, <2>1 DEF Standing
  <2>3. role'[q.user] = "gone" /\ \A u \in Users \ {q.user} : role'[u] = role[u]
    BY <1>2, <2>1
  <2>4. /\ OwnersKnown' => OwnersKnown /\ Owned(q) /\ ~q.outdated
        /\ RootsKnown' => RootsKnown
        /\ EndKnown' => EndKnown /\ ~q.outdated
        /\ Sound(q)
    BY <1>0, <1>1, <2>1, <2>2, InTime
  <2>5. Members' = Members \ {q.user}
    BY <1>2, <1>3, <2>3 DEF Roles
  <2>6. ASSUME OwnersKnown' PROVE \E o \in Users : Owners' = {o}
    <3>1. q.level # "full"
      BY <2>1, <2>6 DEF OwnersKnown
    <3>2. q.user \notin Owners
      BY <2>1, <2>4, <2>6, <3>1 DEF Owned
    <3>3. \A u \in Users : u \in Owners' <=> u \in Owners
      BY <1>3, <2>3, <3>2
    <3>4. Owners' = Owners
      BY <1>3, <3>3
    <3> QED BY <1>4, <2>4, <2>6, <3>4
  <2>7. EndKept'
    <3>1. ASSUME ~live', EndKnown' PROVE Members' = {}
      <4>1. CASE q.level = "full"
        BY <2>1, <2>4, <2>5, <3>1, <4>1 DEF Sound
      <4>2. CASE q.level # "full"
        BY <2>1, <2>4, <2>5, <3>1, <4>2 DEF EndKept, MemberInv
      <4> QED BY <4>1, <4>2
    <3> QED BY <3>1 DEF EndKept
  <2>8. \A u \in Users : role'[u] = "outside" => role[u] = "outside"
    BY <2>3
  <2> QED BY <1>0, <1>1, <1>2, <1>5, <2>1, <2>2, <2>4, <2>5, <2>6, <2>7, <2>8, CommitInv
<1>11. CASE Grant(h)
  <2>1. access' = [access EXCEPT ![q.user] = q.level] /\ role' = role /\ root' = root /\ live' = live
    BY <1>1, <1>11 DEF Grant
  <2>2. access' \in [Users -> Levels]
    BY <1>2, <2>1
  <2>3. Members' = Members /\ Owners' = Owners
    BY <2>1 DEF Members, Owners
  <2>4. (OwnersKnown' => OwnersKnown) /\ (RootsKnown' => RootsKnown) /\ (EndKnown' => EndKnown)
    BY <1>0, <1>2, <2>1, CommitFacts
  <2>5. EndKept'
    BY <2>1, <2>3, <2>4 DEF EndKept, MemberInv
  <2> QED BY <1>0, <1>2, <1>4, <1>5, <2>1, <2>2, <2>3, <2>4, <2>5, CommitInv
<1> QED BY <1>6, <1>7, <1>8, <1>9, <1>10, <1>11

LEMMA MemberStep == MemberInv /\ [Next]_vars => MemberInv'
<1>1. ASSUME MemberInv, Next PROVE MemberInv'
  BY <1>1, BeginInv, WritesInv, CommitsInv DEF Next
<1>2. ASSUME MemberInv, UNCHANGED vars PROVE MemberInv'
  BY <1>2 DEF vars, MemberInv, TypeOK, Apart, Sound, Owned, Placed, OwnerKept, RootsKept, EndKept,
              OwnersKnown, RootsKnown, EndKnown, Members, Owners, Under
<1> QED BY <1>1, <1>2

LEMMA AccessStep ==
  ASSUME MemberInv, [Next]_vars, NEW u \in Owners, access[u] = "full", role'[u] = "owner"
  PROVE  \/ access'[u] = "full"
         \/ \E h \in Handlers : req[h] # Idle /\ req[h].outdated /\ req'[h] = Idle
<1>1. u \in Users /\ u \in Members /\ role[u] = "owner" /\ access \in [Users -> Levels] /\ role \in [Users -> Standing]
  BY DEF Owners, Members, Roles, MemberInv, TypeOK
<1>2. CASE access' = access
  BY <1>2
<1>3. ASSUME NEW h \in Handlers, Add(h) \/ Remove(h) \/ Delete(h) \/ Grant(h)
      PROVE  \/ access'[u] = "full"
             \/ req[h] # Idle /\ req[h].outdated /\ req'[h] = Idle
  <2>1. /\ h \in Under /\ req[h] \in Request /\ req'[h] = Idle /\ Sound(req[h]) /\ req[h].user \in Users
    BY <1>3, RequestFields DEF Add, Remove, Delete, Grant, Commit, MemberInv, Request
  <2>2. CASE req[h].user # u
    BY <1>1, <1>3, <2>2 DEF Add, Remove, Delete, Grant
  <2>3. CASE req[h].user = u /\ Add(h)
    BY <1>1, <2>1, <2>3 DEF Add, Sound
  <2>4. CASE req[h].user = u /\ (Remove(h) \/ Delete(h))
    <3>1. role'[u] = Dismissed(req[h]) /\ req[h].op \in {"remove", "delete"}
      BY <1>1, <2>4 DEF Remove, Delete
    <3>2. req[h].replaced
      BY <1>1, <2>4, <3>1 DEF Dismissed
    <3> QED BY <2>1, <3>2 DEF Sound, Under
  <2>5. CASE req[h].user = u /\ Grant(h)
    BY <1>1, <2>1, <2>5 DEF Grant, Sound, Under
  <2> QED BY <1>3, <2>2, <2>3, <2>4, <2>5
<1>4. \/ access' = access
      \/ \E h \in Handlers : Add(h) \/ Remove(h) \/ Delete(h) \/ Grant(h)
  <2>1. ASSUME NEW h \in Handlers, Place(h) \/ WriteAdd(h) \/ WriteRole(h) \/ WriteRemove(h) \/ WriteDelete(h)
                                    \/ Abort(h) \/ Role(h) \/ Transfer(h) \/ Account(h)
        PROVE  access' = access
    BY <2>1 DEF Place, WriteAdd, WriteRole, WriteRemove, WriteDelete, Written, Abort, Role, Transfer, Account
  <2>2. ASSUME NEW h, NEW op, NEW v, NEW by, NEW r, NEW l, Begin(h, op, v, by, r, l)
        PROVE  access' = access
    BY <2>2 DEF Begin
  <2>3. UNCHANGED vars => access' = access
    BY DEF vars
  <2> QED BY <2>1, <2>2, <2>3 DEF Next, BeginAdd, BeginRole, BeginGrant, BeginRemove, BeginTransfer, BeginDelete, BeginAccount
<1> QED BY <1>2, <1>3, <1>4

\* The namespace has exactly one owner while no operation that decides about
\* owners was overtaken after its last look at them (hasOwner, transferOwnership,
\* updateRole, deleteMember), for any users and requests.
THEOREM OneOwnerAlways == Spec => []OneOwner
BY MemberInitInv, MemberStep, MemberInvSound, PTL DEF Spec

\* A member has a live private root, and a deleted namespace no members, unless
\* one of addMember, deleteMember and delete was overtaken.
THEOREM MembershipsAlwaysWhole == Spec => []MembershipsWhole
BY MemberInitInv, MemberStep, MemberInvSound, PTL DEF Spec

\* No step takes full access from who is owner and stays owner, except that of a
\* request that was overtaken after it asked for the role (updateUserPermission).
THEOREM OwnerKeepsAccessAlways == Spec => OwnerKeepsAccess
<1>1. MemberInv /\ [Next]_vars =>
        [\A u \in Owners :
           access[u] = "full" /\ role'[u] = "owner" =>
             \/ access'[u] = "full"
             \/ \E h \in Handlers : req[h] # Idle /\ req[h].outdated /\ req'[h] = Idle]_vars
  BY AccessStep
<1> QED BY <1>1, MemberInitInv, MemberStep, PTL DEF Spec, OwnerKeepsAccess
====
