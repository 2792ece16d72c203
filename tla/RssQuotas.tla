------------------------------ MODULE RssQuotas ------------------------------
(* How many feed folders a space may have: creations, moves, edits and       *)
(* restores of feed folders and of ordinary folders that hold some           *)
(* (src/src/rss/rss-folders-quota.service.ts and its callers in              *)
(* rss-folders.service.ts and namespace-resources.service.ts).               *)
EXTENDS Integers, FiniteSets

CONSTANTS
  Feeds,         \* rss_folder resources
  Boxes,         \* ordinary folders, directly below a space
  Spaces,        \* the roots: the team's, and the private ones
  PrivateRoot,   \* the private root of who creates feeds
  FolderLimit,   \* [Spaces -> Int], rssFolderTeamLimit, rssFolderPrivateLimit; < 0 is none
  Movers,        \* requests between two statements at the same time
  MaxMoves,      \* bound: requests in all, trashing aside
  Free

ASSUME RssQuotaAssumption ==
  /\ PrivateRoot \in Spaces /\ FolderLimit \in [Spaces -> Int] /\ MaxMoves \in Nat
  /\ IsFiniteSet(Feeds) /\ Feeds \intersect Boxes = {} /\ Free \notin Movers

Targets == Spaces \union Boxes
Holdings == Feeds \union Boxes

VARIABLES
  place,    \* [Holdings -> Targets], parent_id
  stage,    \* [Holdings -> {"none", "live", "trashed"}]
  quotaLock,   \* [Spaces -> Movers \union {Free}], the advisory lock
  mover,    \* [Movers -> request]
  moves,    \* how many there were
  unchecked \* history, [Spaces -> Nat]: feeds that came in with no check they fell under

rssQuotaVars == <<place, stage, quotaLock, mover, moves, unchecked>>

Still == [at |-> "rest"]

RssQuotaInit ==
  /\ place \in [Holdings -> Spaces]
  /\ \A f \in Feeds : place[f] = PrivateRoot
  /\ stage = [x \in Holdings |-> IF x \in Feeds THEN "none" ELSE "live"]
  /\ quotaLock = [s \in Spaces |-> Free]
  /\ mover = [m \in Movers |-> Still]
  /\ moves = 0
  /\ unchecked = [s \in Spaces |-> 0]

\* getRootIdForParent
Root(p) == IF p \in Spaces THEN p ELSE place[p]
Alive(p) == p \in Spaces \union {x \in Boxes : stage[x] = "live"}

Within(pl, st, s) ==
  {f \in Feeds : /\ st[f] = "live"
                 /\ pl[f] = s \/ (pl[f] \in Boxes /\ st[pl[f]] = "live" /\ pl[pl[f]] = s)}

\* countActive: all that can be reached from the root.
CountActive(s) == Cardinality(Within(place, stage, s))

\* countIncomingRssFolders: the feeds among x and below it, of other spaces.
Incoming(x, s) ==
  {f \in Feeds : /\ stage[f] = "live" /\ stage[x] = "live"
                 /\ f = x \/ place[f] = x
                 /\ Root(place[f]) # s}

\* How many come into s by a step, and how many of them a check let in.
Positive(n) == IF n > 0 THEN n ELSE 0
Came(s) == Positive(Cardinality(Within(place', stage', s)) - Cardinality(Within(place, stage, s)))
Enter(covered) ==
  unchecked' = [s \in Spaces |-> unchecked[s] + Positive(Came(s) - covered[s])]
Covers(s, n) == [t \in Spaces |-> IF t = s THEN n ELSE 0]

\* Counts that are no longer what they were.
Missed(M) ==
  [m \in DOMAIN M |-> IF M[m].at = "counted" /\ Came(M[m].to) > 0 THEN [M[m] EXCEPT !.missed = TRUE] ELSE M[m]]

Proceed(m, r) == mover' = [mover EXCEPT ![m] = r]
Ask(m, r) == mover[m] = Still /\ moves < MaxMoves /\ moves' = moves + 1 /\ Proceed(m, r)
Done(m) == mover' = Missed([mover EXCEPT ![m] = Still])

----------------------------------------------------------------------------
\* create, move, batchMove and batchCreateFolder resolve the root of the
\* target, and moves count what is coming in, ...
BeginCreate(m, f, p) ==
  /\ stage[f] = "none" /\ Alive(p)
  /\ \A n \in Movers : mover[n] # Still => mover[n].what # f
  /\ Ask(m, [at |-> "asked", what |-> f, into |-> p, to |-> Root(p), number |-> 1, way |-> "create"])
  /\ UNCHANGED <<place, stage, quotaLock, unchecked>>

BeginMove(m, x, p) ==
  /\ stage[x] = "live" /\ Alive(p) /\ (x \in Boxes => p \in Spaces)
  /\ Ask(m, [at |-> "asked", what |-> x, into |-> p, to |-> Root(p),
             number |-> Cardinality(Incoming(x, Root(p))), way |-> "move"])
  /\ UNCHANGED <<place, stage, quotaLock, unchecked>>

\* ... wait for the lock and count what is there, if there is a limit ...
NeedsLock(q) == FolderLimit[q.to] >= 0 /\ q.number > 0

\* A fault of LockFree: there is no lock.
LockFreeAlways(s) == TRUE
LockFree(s) == quotaLock[s] = Free

Check(m) ==
  LET q == mover[m]
      ok == CountActive(q.to) + q.number <= FolderLimit[q.to] IN
  /\ q.at = "asked" /\ NeedsLock(q) /\ LockFree(q.to)
  /\ IF ok THEN quotaLock' = [quotaLock EXCEPT ![q.to] = m] /\ Proceed(m, [q EXCEPT !.at = "holds"])
     ELSE Proceed(m, Still) /\ UNCHANGED quotaLock
  /\ UNCHANGED <<place, stage, moves, unchecked>>

Released(m) == [s \in Spaces |-> IF quotaLock[s] = m THEN Free ELSE quotaLock[s]]

\* ... and write, if the target is still there.  The lock goes with the commit.
Write(m) ==
  LET q == mover[m] IN
  /\ q.at = "holds" \/ (q.at = "asked" /\ ~NeedsLock(q))
  /\ Alive(q.into) /\ (q.way = "move" => stage[q.what] = "live")
  /\ place' = [place EXCEPT ![q.what] = q.into]
  /\ stage' = [stage EXCEPT ![q.what] = "live"]
  /\ quotaLock' = Released(m)
  /\ Enter(Covers(q.to, IF q.at = "holds" THEN q.number ELSE 0))
  /\ Done(m)
  /\ UNCHANGED moves

\* A name that is taken, a target that went: everything is rolled back.
Fail(m) ==
  /\ mover[m].at \in {"asked", "holds", "counted"}
  /\ quotaLock' = Released(m)
  /\ Proceed(m, Still)
  /\ UNCHANGED <<place, stage, moves, unchecked>>

\* update of a resource (PATCH) with a parent: no quota at all.
Patch(x, p) ==
  /\ stage[x] = "live" /\ Alive(p) /\ (x \in Boxes => p \in Spaces) /\ moves < MaxMoves
  /\ moves' = moves + 1
  /\ place' = [place EXCEPT ![x] = p]
  /\ UNCHANGED <<stage, quotaLock>>
  /\ Enter(Covers(p, 0))
  /\ mover' = Missed(mover)

\* deleteResource: what is below a folder in the trash keeps its row.
Trash(x) ==
  /\ stage[x] = "live"
  /\ stage' = [stage EXCEPT ![x] = "trashed"]
  /\ UNCHANGED <<place, quotaLock, mover, moves, unchecked>>

----------------------------------------------------------------------------
\* getRestoreRootId: where it was, or the creator's private root.
Returns(f) == IF Alive(place[f]) THEN place[f] ELSE PrivateRoot

\* restore counts without the lock, ...
BeginRestoreFeed(m, f) ==
  LET s == Root(Returns(f)) IN
  /\ f \in Feeds /\ stage[f] = "trashed"
  /\ FolderLimit[s] >= 0 => CountActive(s) < FolderLimit[s]
  /\ Ask(m, [at |-> "counted", what |-> f, to |-> s, missed |-> FALSE])
  /\ UNCHANGED <<place, stage, quotaLock, unchecked>>

\* ... and writes what is true now.  Others hold the lock, or came in since.
RestoreFeed(m) ==
  LET q == mover[m]
      alone == ~q.missed /\ quotaLock[q.to] = Free IN
  /\ q.at = "counted" /\ stage[q.what] = "trashed"
  /\ place' = [place EXCEPT ![q.what] = Returns(q.what)]
  /\ stage' = [stage EXCEPT ![q.what] = "live"]
  /\ Enter(Covers(q.to, IF alone THEN 1 ELSE 0))
  /\ Done(m)
  /\ UNCHANGED <<quotaLock, moves>>

\* An ordinary folder: what it holds is back with it, and nobody counts it.
RestoreBox(x) ==
  /\ x \in Boxes /\ stage[x] = "trashed" /\ moves < MaxMoves
  /\ moves' = moves + 1
  /\ stage' = [stage EXCEPT ![x] = "live"]
  /\ UNCHANGED <<place, quotaLock>>
  /\ Enter(Covers(place[x], 0))
  /\ mover' = Missed(mover)

RssQuotaNext ==
  \/ \E m \in Movers, x \in Holdings :
       \/ \E p \in Targets : (x \in Feeds /\ BeginCreate(m, x, p)) \/ BeginMove(m, x, p)
       \/ BeginRestoreFeed(m, x)
  \/ \E m \in Movers : Check(m) \/ Write(m) \/ Fail(m) \/ RestoreFeed(m)
  \/ \E x \in Holdings : Trash(x) \/ RestoreBox(x) \/ \E p \in Targets : Patch(x, p)

RssQuotaSpec == RssQuotaInit /\ [][RssQuotaNext]_rssQuotaVars

(* A space has no more feed folders than its limit, but for those that came  *)
(* in unchecked: with a folder that is restored, by an edit of the parent,   *)
(* by a restore next to another arrival, by a move or a creation whose       *)
(* target or whose content went elsewhere between the check and the write.   *)
RssWithinLimit ==
  \A s \in Spaces : FolderLimit[s] >= 0 =>
    Cardinality(Within(place, stage, s)) <= FolderLimit[s] + unchecked[s]
===============================================================================
