----------------------------- MODULE SmartFolders -----------------------------
(* Smart folders: a resource and a row of smart_folder_configs that says     *)
(* whose it is, and how many a user, or the team, may have                   *)
(* (src/src/smart-folders).  Rules, their limit and their matching are left  *)
(* out; that a row is written from what was read of it is not.               *)
EXTENDS Naturals, FiniteSets

CONSTANTS
  Smarts,      \* smart folders
  Viewers,     \* users
  Team,        \* the quota and the root of the team; a user stands for theirs
  SmartLimit,  \* smartFolderPrivateLimit, smartFolderTeamLimit
  Tickets,     \* requests between two statements at the same time
  MaxTickets,  \* bound: such requests in all
  Open

Owners == Viewers \union {Team}

ASSUME SmartAssumption ==
  /\ SmartLimit \in Nat /\ MaxTickets \in Nat /\ Team \notin Viewers
  /\ IsFiniteSet(Smarts) /\ Open \notin Tickets

VARIABLES
  smart,       \* [Smarts -> [state, scope, owner, seat]]
  dimension,   \* [Owners -> Tickets \union {Open}], the advisory lock
  ticket,      \* [Tickets -> request]
  tickets,     \* how many there were
  uncounted    \* history, [Owners -> Nat]: came in with no check they fell under

smartVars == <<smart, dimension, ticket, tickets, uncounted>>

Waiting == [at |-> "rest"]

SmartInit ==
  /\ smart = [f \in Smarts |-> [state |-> "none", scope |-> "private", owner |-> Team, seat |-> Team]]
  /\ dimension = [d \in Owners |-> Open]
  /\ ticket = [t \in Tickets |-> Waiting]
  /\ tickets = 0
  /\ uncounted = [d \in Owners |-> 0]

\* Whose quota a scope is checked against, and a row falls under.
Quota(scope, u) == IF scope = "team" THEN Team ELSE u

\* countActive: by the scope and, if private, by owner_user_id.
Holding(S, d) == {f \in Smarts : S[f].state = "live" /\ Quota(S[f].scope, S[f].owner) = d}

MayEdit(u, f) == smart[f].state = "live" /\ smart[f].seat \in {u, Team}

Excess(n) == IF n > 0 THEN n ELSE 0
Joined(d) == Cardinality(Holding(smart', d)) - Cardinality(Holding(smart, d))
Admit(d, n) ==
  uncounted' = [e \in Owners |-> uncounted[e] + (IF e = d /\ n > 0 THEN Excess(Joined(e) - n)
                                                  ELSE Excess(Joined(e)))]

Overtaken(T) ==
  [t \in DOMAIN T |-> IF T[t].at = "counted" /\ Joined(T[t].to) > 0 THEN [T[t] EXCEPT !.late = TRUE] ELSE T[t]]
Draw(t, r) ==
  /\ ticket[t] = Waiting /\ tickets < MaxTickets
  /\ tickets' = tickets + 1 /\ ticket' = [ticket EXCEPT ![t] = r]
Close(t) == ticket' = Overtaken([ticket EXCEPT ![t] = Waiting])
Freed(t) == [d \in Owners |-> IF dimension[d] = t THEN Open ELSE dimension[d]]

----------------------------------------------------------------------------
\* create and update read what they need outside the transaction, ...
BeginCreateSmart(t, f, u, scope) ==
  /\ smart[f].state = "none"
  /\ \A o \in Tickets : ticket[o] # Waiting => ticket[o].what # f
  /\ Draw(t, [at |-> "asked", way |-> "create", what |-> f, by |-> u, to |-> Quota(scope, u),
              row |-> [state |-> "live", scope |-> scope, owner |-> u, seat |-> Quota(scope, u)]])
  /\ UNCHANGED <<smart, dimension, uncounted>>

\* ... the row with whatever is not changed; the owner stays.
BeginUpdateSmart(t, f, u, scope) ==
  /\ MayEdit(u, f)
  /\ Draw(t, [at |-> IF scope = smart[f].scope THEN "unasked" ELSE "asked", way |-> "update",
              what |-> f, by |-> u, to |-> Quota(scope, u),
              row |-> [smart[f] EXCEPT !.scope = scope,
                                       !.seat = IF scope = @ THEN @ ELSE Quota(scope, u)]])
  /\ UNCHANGED <<smart, dimension, uncounted>>

\* A fault of DimensionFree: there is no lock.
DimensionFreeAlways(d) == TRUE

\* lockQuotaDimension
DimensionFree(d) == dimension[d] = Open

\* assertEntitlements: the lock, then the count of the caller's.
Entitle(t) ==
  LET q == ticket[t] IN
  /\ q.at = "asked" /\ DimensionFree(q.to)
  /\ IF Cardinality(Holding(smart, q.to)) < SmartLimit
       THEN /\ dimension' = [dimension EXCEPT ![q.to] = t]
            /\ ticket' = [ticket EXCEPT ![t].at = IF q.way = "create" THEN "holds" ELSE "entitled"]
       ELSE /\ ticket' = [ticket EXCEPT ![t] = Waiting]
            /\ UNCHANGED dimension
  /\ UNCHANGED <<smart, tickets, uncounted>>

\* A change of the scope moves the resource, in a transaction of its own: it
\* stays moved if the one around it fails.
Reseat(t) ==
  LET q == ticket[t] IN
  /\ q.at = "entitled" /\ smart[q.what].state = "live"
  /\ smart' = [smart EXCEPT ![q.what].seat = Quota(q.row.scope, q.by)]
  /\ ticket' = [ticket EXCEPT ![t].at = "holds"]
  /\ UNCHANGED <<dimension, tickets, uncounted>>

\* Both rows, or the config alone, are written, and the lock goes.  An update
\* writes the scope that it read if it does not change it.
SaveSmart(t) ==
  LET q == ticket[t] IN
  /\ q.at \in {"unasked", "holds"}
  /\ smart' = [smart EXCEPT ![q.what] =
                 IF q.way = "create" THEN q.row ELSE [@ EXCEPT !.scope = q.row.scope]]
  /\ dimension' = Freed(t)
  /\ Admit(q.to, IF q.at = "holds" THEN 1 ELSE 0)
  /\ Close(t)
  /\ UNCHANGED tickets

AbandonSmart(t) ==
  /\ ticket[t].at \in {"asked", "entitled", "holds", "unasked", "counted"}
  /\ dimension' = Freed(t)
  /\ ticket' = [ticket EXCEPT ![t] = Waiting]
  /\ UNCHANGED <<smart, tickets, uncounted>>

DeleteSmart(f) ==
  /\ smart[f].state = "live"
  /\ smart' = [smart EXCEPT ![f].state = "trashed"]
  /\ UNCHANGED <<dimension, ticket, tickets, uncounted>>

\* restore of a resource: assertRestoreEntitlements counts those of the caller,
\* without the lock, ...
BeginRestoreSmart(t, f, u) ==
  LET d == Quota(smart[f].scope, u) IN
  /\ smart[f].state = "trashed" /\ smart[f].seat \in {u, Team}
  /\ Cardinality(Holding(smart, d)) < SmartLimit
  /\ Draw(t, [at |-> "counted", way |-> "restore", what |-> f, to |-> d, late |-> FALSE])
  /\ UNCHANGED <<smart, dimension, uncounted>>

\* Others came in since, or are about to.
Alone(q) == ~q.late /\ DimensionFree(q.to)

\* ... and restoreResource does not ask again.
RestoreSmart(t) ==
  LET q == ticket[t] IN
  /\ q.at = "counted" /\ smart[q.what].state = "trashed"
  /\ smart' = [smart EXCEPT ![q.what].state = "live"]
  /\ Admit(q.to, IF Alone(q) THEN 1 ELSE 0)
  /\ Close(t)
  /\ UNCHANGED <<dimension, tickets>>

SmartNext ==
  \/ \E t \in Tickets, f \in Smarts, u \in Viewers :
       \/ \E scope \in {"private", "team"} : BeginCreateSmart(t, f, u, scope) \/ BeginUpdateSmart(t, f, u, scope)
       \/ BeginRestoreSmart(t, f, u)
  \/ \E t \in Tickets : Entitle(t) \/ Reseat(t) \/ SaveSmart(t) \/ AbandonSmart(t) \/ RestoreSmart(t)
  \/ \E f \in Smarts : DeleteSmart(f)

SmartSpec == SmartInit /\ [][SmartNext]_smartVars

(* Neither a user nor the team has more smart folders than the limit, but    *)
(* for those that came in uncounted: restored next to another arrival or by  *)
(* another than the owner, made private by another than the owner, or given  *)
(* back their old scope by an update that had read the row before.           *)
SmartWithinLimit ==
  \A d \in Owners : Cardinality(Holding(smart, d)) <= SmartLimit + uncounted[d]
===============================================================================
