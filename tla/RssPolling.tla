----------------------------- MODULE RssPolling -----------------------------
(* The poller of one feed url (src/src/rss/rss-polling.service.ts), run by   *)
(* several server instances against the folders of RssFolders.               *)
(*                                                                           *)
(* A worker is one call of pollUrl together with the row of rss_polls it     *)
(* inserts.  Every await is a point where other workers and edits step in.   *)
(* The entries of a batch are stored at once: when one of them fails the     *)
(* poll, its siblings go on, strays beside whatever poll comes next.         *)
(* Urls do not share polls, articles or links, so one url stands for all.    *)
(*                                                                           *)
(* Time is counted in poll windows.  Ages stop at Stale, after which they    *)
(* make no difference.                                                       *)
EXTENDS RssFolders

CONSTANTS Entries,     \* the feed's entries, 1..n in feed order
          GuidOf,      \* [Entries -> Guids]: the guid of each entry
          Bare,        \* guids whose entry has neither a link nor a body
          Window,      \* POLL_WINDOW_MS
          Stale,       \* POLL_STALE_MS
          MaxExponent, \* PARSE_BACKOFF_MAX_EXPONENT
          MaxFaults,   \* bound on crashes and failed polls
          Nothing      \* no text yet, no latest poll

\* A poll may outlast its window by the parse that is under way when it ends.
ASSUME PollAssumption ==
  /\ IsFiniteSet(Entries) /\ Entries = 1..Cardinality(Entries)
  /\ GuidOf \in [Entries -> Guids] /\ Bare \subseteq Guids
  /\ Window \in Nat /\ Stale \in Nat /\ 0 < Window /\ Window < Stale
  /\ MaxExponent \in Nat /\ MaxFaults \in Nat
  /\ Nothing \notin Bodies \union Workers \union (Links \X Guids)
  /\ Unused \notin [state : {"live", "retired"}, folder : Folders]
                 \union [folder : Folders, drop : SUBSET Links, add : BOOLEAN, rename : BOOLEAN,
                         locked : SUBSET Links, holdsFolder : BOOLEAN]

VARIABLES content,     \* rss_item_contents of the url
          poll,        \* each worker and its rss_polls row
          item,        \* how far each worker got with each entry
          work,        \* the copies each worker still has to insert
          latest,      \* the worker that inserted the newest row of rss_polls
          faults,      \* crashes and failed polls so far
          contested    \* guids that a poll and its strays, or two of its entries, parsed at once

pollVars == <<content, poll, item, work, latest, faults, contested>>
vars == <<folderVars, pollVars>>

Phases == {"idle", "listed", "claimed", "storing", "links", "folders", "copies",
           "inserting", "finishing"}

Poll == [phase : Phases, status : {"none", "polling", "failed", "succeed"}, age : 0..Stale]

Body == Bodies \union {Nothing}

\* Doubling of the backoff stops at the clamped exponent, so attempts beyond it
\* are not told apart.
Backoff(attempts) == 2 ^ attempts

\* What induction shows of powers, which the proofs need.
ASSUME BackoffAssumption ==
  \A n \in 0..MaxExponent : Backoff(n) \in Nat /\ Backoff(n) <= Backoff(MaxExponent)

Content == [seen : BOOLEAN, snapshot : Body, parsed : Body,
            attempts : 0..MaxExponent, wait : 0..Backoff(MaxExponent)]

\* An entry of a fetched feed: absent, listed with some text, being parsed
\* (with the number of attempts it read), or stored with the text it settled on.
Item == [step : {"absent", "listed", "parsing", "stored"}, body : Body,
         attempts : 0..MaxExponent, late : BOOLEAN]

\* The work of linkItems: the links it read, the (link, guid) pairs without a
\* copy, and the pair whose insert transaction holds the link row.
Pairs == Links \X Guids
Work == [links : SUBSET Links, pairs : SUBSET Pairs, at : Pairs \union {Nothing}]

NoPoll == [phase |-> "idle", status |-> "none", age |-> 0]
NoWork == [links |-> {}, pairs |-> {}, at |-> Nothing]
Absent == [step |-> "absent", body |-> Nothing, attempts |-> 0, late |-> FALSE]
Unseen == [seen |-> FALSE, snapshot |-> Nothing, parsed |-> Nothing, attempts |-> 0, wait |-> 0]

Init ==
  /\ FoldersInit
  /\ content = [g \in Guids |-> Unseen]
  /\ poll = [w \in Workers |-> NoPoll]
  /\ item = [w \in Workers |-> [n \in Entries |-> Absent]]
  /\ work = [w \in Workers |-> NoWork]
  /\ latest = Nothing
  /\ faults = 0
  /\ contested = {}

\* The entries of a poll that failed which are still being stored.
Strays(w) == {n \in Entries : poll[w].phase = "idle" /\ item[w][n].step # "absent"}

(* ------------------------------- the claim ------------------------------- *)

\* pollDueLinks lists the urls that some live link has, then polls each.  The
\* next call is another worker's while this one has strays.
ListUrl(w) ==
  /\ poll[w].phase = "idle" /\ Strays(w) = {} /\ LiveLinks # {}
  /\ poll' = [poll EXCEPT ![w].phase = "listed"]
  /\ UNCHANGED <<folderVars, content, item, work, latest, faults, contested>>

BlockingForOneWindow(p) == p.status # "none" /\ p.age < Window
BlockingForEver(p) == p.status = "polling" \/ p.age < Window

Blocking(p) ==
  \/ p.status = "polling" /\ p.age < Stale
  \/ p.status \in {"failed", "succeed"} /\ p.age < Window

Claimable == latest # Nothing => ~Blocking(poll[latest])

\* Under the advisory lock of the url.  A stale row is marked failed; its
\* worker, if it is only slow, goes on.  A row that is not the newest is never
\* read again, so a finished worker's old row is forgotten.
Retire(p) ==
  IF p.phase \in {"idle", "listed"} THEN [p EXCEPT !.status = "none", !.age = 0]
  ELSE IF p.status = "polling" THEN [p EXCEPT !.status = "failed"] ELSE p

Claim(w) ==
  /\ poll[w].phase = "listed" /\ Claimable
  /\ poll' = [v \in Workers |->
       IF v = w THEN [NoPoll EXCEPT !.phase = "claimed", !.status = "polling"]
       ELSE IF v = latest THEN Retire(poll[v]) ELSE poll[v]]
  /\ latest' = w
  /\ UNCHANGED <<folderVars, content, item, work, faults, contested>>

Skip(w) ==
  /\ poll[w].phase = "listed" /\ ~Claimable
  /\ poll' = [poll EXCEPT ![w].phase = "idle"]
  /\ UNCHANGED <<folderVars, content, item, work, latest, faults, contested>>

(* ------------------------------ the articles ----------------------------- *)

\* fetchAndParse: the feed lists some of its entries, with whatever text they
\* have now.  The text matters where no parse replaces it.
Fetch(w, listed) ==
  /\ poll[w].phase = "claimed"
  /\ \E text \in [listed -> Bodies] :
       item' = [item EXCEPT ![w] = [n \in Entries |->
         IF n \in listed
         THEN [Absent EXCEPT !.step = "listed", !.body = IF GuidOf[n] \in Bare THEN text[n] ELSE @]
         ELSE Absent]]
  /\ poll' = [poll EXCEPT ![w].phase = "storing"]
  /\ UNCHANGED <<folderVars, content, work, latest, faults, contested>>

\* ensureItemContent: ON CONFLICT DO NOTHING keeps the first text for ever.
Seen(c, text) == IF c.seen THEN c ELSE [c EXCEPT !.seen = TRUE, !.snapshot = text]

NoDeadline(w) == TRUE
BeforeDeadline(w) == poll[w].age < Window

DueAgain(c) == c.wait = 0
Due(c) == c.parsed = Nothing /\ c.wait = 0

\* What storeItem returns to a poll that has failed meanwhile is dropped.
Stored(w, n, text) ==
  IF n \in Strays(w) THEN Absent ELSE [Absent EXCEPT !.step = "stored", !.body = text]

\* storeItem up to the call of the wizard.  Entries are started before the
\* deadline only; batches are not told apart.  A stray was started before.
Storing(w, n) == poll[w].phase = "storing" \/ n \in Strays(w)

StoreItem(w, n) ==
  /\ Storing(w, n) /\ item[w][n].step = "listed"
  /\ BeforeDeadline(w) \/ n \in Strays(w)
  /\ LET g == GuidOf[n]
         c == Seen(content[g], item[w][n].body)
         settled == IF g \in Bare /\ c.parsed = Nothing THEN c.snapshot ELSE c.parsed
     IN /\ content' = [content EXCEPT ![g] = c]
        /\ item' = [item EXCEPT ![w][n] =
             IF g \notin Bare /\ Due(c)
             THEN [step |-> "parsing", body |-> Nothing, attempts |-> c.attempts, late |-> FALSE]
             ELSE Stored(w, n, settled)]
  /\ UNCHANGED <<folderVars, poll, work, latest, faults, contested>>

\* Another parse of the same article is under way: of the same fetch, or of a
\* poll that failed, or beside one.
Rival(w, n) ==
  \E v \in Workers, m \in Entries :
    /\ <<v, m>> # <<w, n>> /\ GuidOf[m] = GuidOf[n] /\ item[v][m].step = "parsing"
    /\ v = w \/ n \in Strays(w) \/ m \in Strays(v)

\* The wizard rendered the article; what it returns may differ from call to
\* call.  The row is written without looking at it again.
Parsed(w, n) ==
  /\ Storing(w, n) /\ item[w][n].step = "parsing"
  /\ \E text \in Bodies :
       /\ content' = [content EXCEPT ![GuidOf[n]].parsed = text, ![GuidOf[n]].wait = 0]
       /\ item' = [item EXCEPT ![w][n] = Stored(w, n, text)]
  /\ contested' = IF Rival(w, n) THEN contested \union {GuidOf[n]} ELSE contested
  /\ UNCHANGED <<folderVars, poll, work, latest, faults>>

\* recordParseFailure: one more attempt than the worker had read, the exponent
\* of the backoff clamped.
Unclamped(attempts) == attempts + 1
Attempted(attempts) == IF attempts < MaxExponent THEN attempts + 1 ELSE MaxExponent

ParseFailed(w, n) ==
  /\ Storing(w, n) /\ item[w][n].step = "parsing"
  /\ LET tried == Attempted(item[w][n].attempts)
     IN content' = [content EXCEPT ![GuidOf[n]].attempts = tried,
                                   ![GuidOf[n]].wait = Backoff(tried)]
  /\ item' = [item EXCEPT ![w][n] = Stored(w, n, Nothing)]
  /\ UNCHANGED <<folderVars, poll, work, latest, faults, contested>>

\* All entries are stored, or the deadline keeps the rest for the next poll.
ItemsStored(w) ==
  /\ poll[w].phase = "storing"
  /\ \A n \in Entries : /\ item[w][n].step # "parsing"
                        /\ item[w][n].step = "listed" => ~BeforeDeadline(w)
  /\ poll' = [poll EXCEPT ![w].phase =
       IF \E n \in Entries : item[w][n].step = "stored" THEN "links" ELSE "finishing"]
  /\ UNCHANGED <<folderVars, content, item, work, latest, faults, contested>>

(* ------------------------------- the copies ------------------------------ *)

\* linkItems reads the links, their folders and the live copies, one after the
\* other and outside any transaction.
ReadLinks(w) ==
  /\ poll[w].phase = "links"
  /\ work' = [work EXCEPT ![w].links = LiveLinks]
  /\ poll' = [poll EXCEPT ![w].phase = IF LiveLinks = {} THEN "finishing" ELSE "folders"]
  /\ UNCHANGED <<folderVars, content, item, latest, faults, contested>>

ReadFolders(w) ==
  /\ poll[w].phase = "folders"
  /\ work' = [work EXCEPT ![w].links = {l \in @ : folder[link[l].folder] = "live"}]
  /\ poll' = [poll EXCEPT ![w].phase = "copies"]
  /\ UNCHANGED <<folderVars, content, item, latest, faults, contested>>

\* A feed can list a guid twice: the last of its entries stands for it.
StoredEntries(w) == {n \in Entries : item[w][n].step = "stored"}
EntryOf(w, g) == CHOOSE n \in StoredEntries(w) :
  /\ GuidOf[n] = g
  /\ \A m \in StoredEntries(w) : GuidOf[m] = g => m <= n

SettledGuids(w) ==
  {g \in {GuidOf[n] : n \in StoredEntries(w)} : item[w][EntryOf(w, g)].body # Nothing}

ReadCopies(w) ==
  /\ poll[w].phase = "copies"
  /\ work' = [work EXCEPT ![w].links = {}, ![w].pairs =
       {p \in work[w].links \X SettledGuids(w) : copies[p] = <<>>}]
  /\ poll' = [poll EXCEPT ![w].phase = "inserting"]
  /\ UNCHANGED <<folderVars, content, item, latest, faults, contested>>

\* insertItemResource begins: subscriptionIsLive takes the link row FOR SHARE
\* and then looks at the folder, without locking it.
Subscribed(l) == IsLive(l) /\ folder[link[l].folder] = "live"

CanShare(l) == LinkHolders(l) = {}

CheckLink(w) ==
  /\ poll[w].phase = "inserting" /\ work[w].at = Nothing
  /\ \E p \in work[w].pairs :
       /\ CanShare(p[1])
       /\ share' = [share EXCEPT ![p[1]] = IF Subscribed(p[1]) THEN @ \union {w} ELSE @]
       /\ work' = [work EXCEPT ![w].pairs = @ \ {p},
                               ![w].at = IF Subscribed(p[1]) THEN p ELSE Nothing]
  /\ UNCHANGED <<link, folder, copies, edit, content, poll, item, latest, faults, contested>>

\* The insert takes FOR KEY SHARE on the folder row; the identity index drops
\* a copy that exists by now.
InsertedAgain(old, text) == Append(old, text)
Inserted(old, text) == IF old = <<>> THEN <<text>> ELSE old

InsertItem(w) ==
  /\ poll[w].phase = "inserting" /\ work[w].at # Nothing
  /\ LET p == work[w].at
     IN /\ FolderHolders(link[p[1]].folder) = {}
        /\ copies' = [copies EXCEPT ![p] = Inserted(@, item[w][EntryOf(w, p[2])].body)]
        /\ share' = [share EXCEPT ![p[1]] = @ \ {w}]
  /\ work' = [work EXCEPT ![w].at = Nothing]
  /\ UNCHANGED <<link, folder, edit, content, poll, item, latest, faults, contested>>

ItemsLinked(w) ==
  /\ poll[w].phase = "inserting" /\ work[w].at = Nothing /\ work[w].pairs = {}
  /\ poll' = [poll EXCEPT ![w].phase = "finishing"]
  /\ UNCHANGED <<folderVars, content, item, work, latest, faults, contested>>

(* ------------------------------- the end --------------------------------- *)

\* finishPoll writes the worker's own row, whatever became of it meanwhile.
Ended(w, status) ==
  [poll EXCEPT ![w] = IF w = latest THEN [@ EXCEPT !.phase = "idle", !.status = status]
                      ELSE NoPoll]

Release(w) ==
  /\ share' = [l \in Links |-> share[l] \ {w}]
  /\ work' = [work EXCEPT ![w] = NoWork]
  /\ item' = [item EXCEPT ![w] = [n \in Entries |-> Absent]]

Finish(w) ==
  /\ poll[w].phase = "finishing"
  /\ poll' = Ended(w, "succeed")
  /\ Release(w)
  /\ UNCHANGED <<link, folder, copies, edit, content, latest, faults, contested>>

\* The fetch, a query or an insert throws: the poll is marked failed.
Running(w) == poll[w].phase \notin {"idle", "listed"}

Fail(w) ==
  /\ Running(w) /\ poll[w].phase # "storing" /\ faults < MaxFaults
  /\ poll' = Ended(w, "failed")
  /\ Release(w)
  /\ faults' = faults + 1
  /\ UNCHANGED <<link, folder, copies, edit, content, latest, contested>>

\* A row of content cannot be read or written.  Promise.all rejects at the first
\* entry that throws, and nobody waits for the others of the batch: those that
\* the wizard renders, and those whose row is still to come, go on.
StoreFails(w, n, batch) ==
  /\ poll[w].phase = "storing" /\ item[w][n].step = "listed" /\ BeforeDeadline(w)
  /\ faults < MaxFaults
  /\ \E status \in {"failed", poll[w].status} : poll' = Ended(w, status)
  /\ item' = [item EXCEPT ![w] = [m \in Entries |->
       IF @[m].step = "parsing" \/ (@[m].step = "listed" /\ m \in batch) THEN @[m] ELSE Absent]]
  /\ faults' = faults + 1
  /\ UNCHANGED <<folderVars, content, work, latest, contested>>

\* The process dies, or cannot write the end of the poll: the row stays polling.
Crash(w) ==
  /\ Running(w) \/ Strays(w) # {}
  /\ faults < MaxFaults
  /\ poll' = Ended(w, poll[w].status)
  /\ Release(w)
  /\ faults' = faults + 1
  /\ UNCHANGED <<link, folder, copies, edit, content, latest, contested>>

\* WIZARD_PARSE_TIMEOUT_MS is a fifth of a window: the end of at most one
\* window passes while an entry is being parsed.
Tick ==
  /\ \A w \in Workers, n \in Entries : ~item[w][n].late
  /\ poll' = [w \in Workers |-> [poll[w] EXCEPT !.age = IF @ < Stale /\ poll[w].status # "none" THEN @ + 1 ELSE @]]
  /\ item' = [w \in Workers |-> [n \in Entries |->
       [item[w][n] EXCEPT !.late = item[w][n].step = "parsing"]]]
  /\ content' = [g \in Guids |-> [content[g] EXCEPT !.wait = IF @ > 0 THEN @ - 1 ELSE 0]]
  /\ UNCHANGED <<folderVars, work, latest, faults, contested>>

PollStep(w) ==
  \/ ListUrl(w) \/ Claim(w) \/ Skip(w)
  \/ \E listed \in SUBSET Entries : Fetch(w, listed)
  \/ \E n \in Entries : StoreItem(w, n) \/ Parsed(w, n) \/ ParseFailed(w, n)
  \/ ItemsStored(w)
  \/ ReadLinks(w) \/ ReadFolders(w) \/ ReadCopies(w)
  \/ CheckLink(w) \/ InsertItem(w) \/ ItemsLinked(w)
  \/ Finish(w)

PollerNext == \/ \E w \in Workers : PollStep(w) \/ Fail(w) \/ Crash(w)
              \/ \E w \in Workers, n \in Entries, batch \in SUBSET Entries : StoreFails(w, n, batch \ {n})
              \/ Tick

Next == \/ FoldersNext /\ UNCHANGED pollVars
        \/ PollerNext

Spec == Init /\ [][Next]_vars

\* The cron, the clock and the statements of a worker go on.  A fetch of the
\* whole feed in time, a start of an entry in time and a parse that keep being
\* possible happen eventually, and so does a claim, against the other workers,
\* and a row lock, against the edits.  An edit that began ends.
FetchInTime(w) == Fetch(w, Entries) /\ BeforeDeadline(w)

Fairness ==
  /\ WF_vars(Tick)
  /\ \A e \in Editors : WF_vars((EditStep(e) \/ AbortEdit(e)) /\ UNCHANGED pollVars)
  /\ \A w \in Workers :
       /\ WF_vars(PollStep(w))
       /\ SF_vars(Claim(w)) /\ SF_vars(FetchInTime(w)) /\ SF_vars(CheckLink(w)) /\ SF_vars(InsertItem(w))
       /\ \A n \in Entries : SF_vars(StoreItem(w, n)) /\ SF_vars(Parsed(w, n))

FairSpec == Spec /\ Fairness

(* ------------------------------ properties ------------------------------- *)

TypeOK ==
  /\ FoldersTypeOK
  /\ content \in [Guids -> Content]
  /\ poll \in [Workers -> Poll]
  /\ item \in [Workers -> [Entries -> Item]]
  /\ work \in [Workers -> Work]
  /\ latest \in Workers \union {Nothing}
  /\ faults \in 0..MaxFaults
  /\ contested \subseteq Guids

\* An article has at most one live copy under a subscription, however polls
\* overlap (the comment of linkItems).
SingleCopy == \A p \in Pairs : Len(copies[p]) <= 1

\* No live copy hangs off a subscription that is gone (the comment of
\* subscriptionIsLive): nothing would ever remove it.
NoOrphanCopy == \A p \in Pairs : copies[p] # <<>> => IsLive(p[1])

\* The text an article settles on, once for all.
SettledText(g) == IF g \in Bare THEN content[g].snapshot ELSE content[g].parsed

Agree(p) == \A i \in 1..Len(copies[p]) : copies[p][i] = SettledText(p[2])

\* Every copy of an article, of this poll or a later one and in any folder, is
\* built from the one result of its parse (the comment of parseItemContent),
\* where the feed lists it once and no poll left a parse of it behind.
CopiesAgree == \A p \in Pairs : p[2] \notin contested => Agree(p)

\* The same without the reservation, as the comments of storeItem ("no two
\* polls parse the same row") and of parseItemContent have it.
OneResult == \A p \in Pairs : Agree(p)

\* Whatever polls, takeovers, edits and trashings interleave, the copies are
\* one each, under subscriptions that live, with the text that settled.
CopiesSound == SingleCopy /\ NoOrphanCopy /\ CopiesAgree

\* Two workers run a poll of the url at once only when one of them has outlived
\* POLL_STALE_MS (the comment of claim).
OnePoller ==
  \A v, w \in Workers : v # w /\ Running(v) /\ Running(w) =>
    poll[v].age = Stale \/ poll[w].age = Stale

\* An edit and an insert never wait for each other's row (the comment of
\* update): no insert that holds a link waits for the folder of an edit that
\* waits for that link.
NoDeadlock ==
  \A w \in Workers, e \in Editors :
    work[w].at # Nothing /\ Editing(e) /\ edit[e].holdsFolder
      /\ link[work[w].at[1]].folder = edit[e].folder
    => work[w].at[1] \notin edit[e].drop \ edit[e].locked

\* Workers neither do each other's work nor stop an editor and themselves.
WorkersSound == OnePoller /\ NoDeadlock

\* A subscription that stays, in a folder that stays, eventually has a copy of
\* every article the feed lists, whatever polls died or failed on the way.
EventuallyDelivered ==
  \A l \in Links, n \in Entries :
    <>[](Subscribed(l)) => <>(copies[l, GuidOf[n]] # <<>>)
=============================================================================
