------------------------------- MODULE Shares -------------------------------
(* The settings of a share (src/src/shares/shares.service.ts), of which a    *)
(* resource has one.  A request reads the row, changes its copy, and saves   *)
(* it: TypeORM reads the row once more and writes every column in which the  *)
(* copy is different, those the request never named among them.  Deleting an *)
(* account closes the shares that it opened (src/src/user/user.service.ts).  *)
(*                                                                           *)
(* The password stands for the settings that only matter to visitors; what a *)
(* share shows is in ResourceAccess.                                         *)
EXTENDS Naturals

CONSTANTS
  Hosts,       \* users that may share the resource
  Updates,     \* requests
  MaxUpdates,  \* bound: requests in all
  Ownerless    \* the user of a share that is older than the column user_id

ASSUME ShareAssumption == MaxUpdates \in Nat /\ Ownerless \notin Hosts

VARIABLES
  share,    \* the row: [enabled, password, owner], or NoShare
  hosts,    \* the accounts there are
  update,   \* [Updates -> what a request read, and what it makes of it]
  updates,  \* how many there were
  orders,    \* history: [enabled, password] as last asked for
  torn      \* history: columns of which a save that was overtaken decided

shareVars == <<share, hosts, update, updates, orders, torn>>

NoShare == [enabled |-> FALSE, password |-> "absent", owner |-> Ownerless]
NewShare == [NoShare EXCEPT !.password = "none"]
NoUpdate == [at |-> "rest"]

\* An open share from before the column, or none.
ShareInit ==
  /\ share \in {NoShare, [enabled |-> TRUE, password |-> "none", owner |-> Ownerless]}
  /\ hosts = Hosts
  /\ update = [h \in Updates |-> NoUpdate] /\ updates = 0
  /\ orders = [enabled |-> share.enabled, password |-> "none"]
  /\ torn = {}

Columns == {"enabled", "password"}
AllColumns == Columns \union {"owner"}

\* A fault of Opener: the share stays with who opened it first.
OpenerOnce(row, u, named) == IF row.owner = Ownerless THEN u ELSE row.owner

\* Whoever opens or closes it has it, and who changes an open one without owner.
Opener(row, u, named) ==
  IF named \/ (row.enabled /\ row.owner = Ownerless) THEN u ELSE row.owner

\* updateShareInfo up to the save.
BeginSetting(h, u, named, value) ==
  /\ update[h] = NoUpdate /\ updates < MaxUpdates /\ updates' = updates + 1
  /\ u \in hosts
  /\ LET row == IF share = NoShare THEN NewShare ELSE share IN
       update' = [update EXCEPT ![h] =
         [at |-> "save", first |-> share = NoShare, named |-> named, late |-> FALSE, differ |-> {},
          copy |-> [enabled |-> IF "enabled" \in named THEN value.enabled ELSE row.enabled,
                    password |-> IF "password" \in named THEN value.password ELSE row.password,
                    owner |-> Opener(row, u, "enabled" \in named)]]]
  /\ UNCHANGED <<share, hosts, orders, torn>>

\* save: the second reading.
Compare(h) ==
  /\ update[h].at = "save" /\ ~update[h].first
  /\ update' = [update EXCEPT ![h].at = "write",
                              ![h].differ = {c \in AllColumns : update[h].copy[c] # share[c]}]
  /\ UNCHANGED <<share, hosts, updates, orders, torn>>

\* The others are overtaken by it.
Overtaking(h) ==
  update' = [g \in Updates |-> IF g = h THEN NoUpdate
                               ELSE IF update[g] = NoUpdate THEN NoUpdate ELSE [update[g] EXCEPT !.late = TRUE]]

Saved(h, row) ==
  LET q == update[h]
      wanted == [c \in Columns |-> IF c \in q.named THEN q.copy[c] ELSE orders[c]]
  IN /\ share' = row
     /\ orders' = wanted
     /\ torn' = IF q.late THEN {c \in Columns : row[c] # wanted[c]} \union {"owner"}
                ELSE torn \ (q.named \union IF "enabled" \in q.named THEN {"owner"} ELSE {})
     /\ Overtaking(h)
     /\ UNCHANGED <<hosts, updates>>

\* The index allows one row of a resource: the second insert fails.
Insert(h) ==
  /\ update[h].at = "save" /\ update[h].first
  /\ \/ share = NoShare /\ Saved(h, update[h].copy)
     \/ /\ share # NoShare
        /\ update' = [update EXCEPT ![h] = NoUpdate]
        /\ UNCHANGED <<share, hosts, updates, orders, torn>>

WriteShare(h) ==
  /\ update[h].at = "write"
  /\ Saved(h, [c \in AllColumns |-> IF c \in update[h].differ THEN update[h].copy[c] ELSE share[c]])

\* confirmAccountDeletion
DeleteHost(u) ==
  /\ u \in hosts
  /\ hosts' = hosts \ {u}
  /\ IF share.owner = u
     THEN share' = [share EXCEPT !.enabled = FALSE] /\ orders' = [orders EXCEPT !.enabled = FALSE]
     ELSE UNCHANGED <<share, orders>>
  /\ update' = [g \in Updates |-> IF update[g] = NoUpdate THEN NoUpdate ELSE [update[g] EXCEPT !.late = TRUE]]
  /\ UNCHANGED <<updates, torn>>

Settings == [enabled : BOOLEAN, password : {"none", "set"}]

ShareNext ==
  \/ \E h \in Updates :
       \/ \E u \in Hosts, named \in SUBSET Columns, value \in Settings : BeginSetting(h, u, named, value)
       \/ Compare(h) \/ Insert(h) \/ WriteShare(h)
  \/ \E u \in Hosts : DeleteHost(u)

ShareSpec == ShareInit /\ [][ShareNext]_shareVars

(* A share is as it was last asked to be and, while it is open, is of an     *)
(* account that is there, unless a save was overtaken by another or by the   *)
(* deletion of an account: it may open again what was closed meanwhile, or   *)
(* take the password off.                                                    *)
SharesAsAsked ==
  /\ share # NoShare => \A c \in Columns \ torn : share[c] = orders[c]
  /\ share.enabled /\ "owner" \notin torn => share.owner \in hosts \union {Ownerless}
=============================================================================
