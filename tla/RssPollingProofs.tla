--------------------------- MODULE RssPollingProofs ---------------------------
(* Proofs about the poller of a feed url and the edits of the folders it      *)
(* feeds, for any workers, editors, folders, links and articles.              *)
EXTENDS RssPolling, FiniteSetTheorems, WellFoundedInduction, TLAPS

(* ------------------------- least and greatest numbers ---------------------- *)

LEMMA Smallest ==
  ASSUME NEW T, T \subseteq Nat, T # {}
  PROVE  \E x \in T : \A y \in T : x <= y
<1>1. IsWellFoundedOn(OpToRel(<, Nat), Nat)
  BY NatLessThanWellFounded
<1>2. PICK R : R = OpToRel(<, Nat)
  OBVIOUS
<1>3. ASSUME NEW x \in Nat, NEW y \in Nat, y < x PROVE <<y, x>> \in R
  BY <1>2, <1>3 DEF OpToRel
<1>4. PICK x \in T : \A y \in T : ~(<<y, x>> \in R)
  BY <1>1, <1>2, WFMin
<1>5. ASSUME NEW y \in T PROVE x <= y
  <2>1. x \in Nat /\ y \in Nat /\ ~(y < x)
    BY <1>3, <1>4
  <2> QED BY <2>1
<1> QED BY <1>5

LEMMA Largest ==
  ASSUME NEW n \in Nat, NEW T, T \subseteq 1..n, T # {}
  PROVE  \E x \in T : \A y \in T : y <= x
<1>1. PICK S : S = {n - x : x \in T}
  OBVIOUS
<1>2. \A y \in T : n - y \in Nat
  OBVIOUS
<1>3. S \subseteq Nat /\ S # {}
  BY <1>1, <1>2
<1>4. \A y \in T : n - y \in S
  BY <1>1
<1>5. PICK s \in S : \A y \in S : s <= y
  BY <1>3, Smallest
<1>6. PICK x \in T : s = n - x
  BY <1>1
<1>7. ASSUME NEW y \in T PROVE y <= x
  <2>1. n - x <= n - y
    BY <1>4, <1>5, <1>6
  <2> QED BY <2>1
<1> QED BY <1>7

(* --------------------------------- types ---------------------------------- *)

\* An edit drops rows that are there.
DropsKnown == \A e \in Editors : Editing(e) => \A l \in edit[e].drop : link[l] # Unused

\* What w stored of g last is settled.
Settles(w, g) ==
  \E n \in Entries :
    /\ item[w][n].step = "stored" /\ GuidOf[n] = g /\ item[w][n].body # Nothing
    /\ \A m \in Entries : item[w][m].step = "stored" /\ GuidOf[m] = g => m <= n

WorkSettled ==
  \A w \in Workers, p \in Pairs :
    p \in work[w].pairs \/ p = work[w].at => poll[w].phase = "inserting" /\ Settles(w, p[2])

RssTyped == TypeOK /\ DropsKnown /\ WorkSettled

LEMMA Windows ==
  /\ Window \in Nat /\ Stale \in Nat /\ 0 < Window /\ Window < Stale /\ MaxExponent \in Nat /\ MaxFaults \in Nat
  /\ Nothing \notin Bodies /\ Nothing \notin Workers /\ Nothing \notin Pairs
  /\ Unused \notin Edit /\ Unused \notin [state : {"live", "retired"}, folder : Folders]
  /\ 0 \in 0..Stale /\ 0 \in 0..MaxExponent /\ 0 \in 0..MaxFaults /\ Backoff(MaxExponent) \in Nat
BY PollAssumption, BackoffAssumption DEF Pairs, Edit

LEMMA Empties ==
  /\ NoPoll \in Poll /\ NoWork \in Work /\ Absent \in Item /\ Unseen \in Content
  /\ NoPoll.phase = "idle" /\ NoPoll.status = "none" /\ NoPoll.age = 0
  /\ NoWork.at = Nothing /\ NoWork.pairs = {} /\ Absent.step = "absent" /\ ~Absent.late
<1>1. NoPoll \in Poll
  BY Windows DEF NoPoll, Poll, Phases
<1>2. NoWork \in Work
  BY DEF NoWork, Work
<1>3. Absent \in Item
  BY Windows DEF Absent, Item, Body
<1>4. Unseen \in Content
  <2>1. 0 \in 0..MaxExponent /\ 0 \in 0..Backoff(MaxExponent)
    BY Windows
  <2> QED BY <2>1 DEF Unseen, Content, Body
<1> QED BY <1>1, <1>2, <1>3, <1>4 DEF NoPoll, NoWork, Absent

LEMMA InitType == Init => TypeOK
<1> SUFFICES ASSUME Init PROVE TypeOK
  OBVIOUS
<1>1. FoldersTypeOK
  <2>1. copies \in [Links \X Guids -> Seq(Bodies)]
    BY DEF Init, FoldersInit
  <2> QED BY <2>1 DEF Init, FoldersInit, FoldersTypeOK, Link
<1>2. content \in [Guids -> Content] /\ poll \in [Workers -> Poll] /\ item \in [Workers -> [Entries -> Item]]
      /\ work \in [Workers -> Work] /\ latest \in Workers \union {Nothing}
  BY Empties DEF Init
<1>3. faults \in 0..MaxFaults /\ contested \subseteq Guids
  BY Windows DEF Init
<1> QED BY <1>1, <1>2, <1>3 DEF TypeOK

LEMMA InitTyped == Init => RssTyped
<1> SUFFICES ASSUME Init PROVE RssTyped
  OBVIOUS
<1>1. DropsKnown
  BY DEF Init, FoldersInit, DropsKnown, Editing
<1>2. WorkSettled
  BY Empties, Windows DEF Init, WorkSettled
<1> QED BY <1>1, <1>2, InitType DEF RssTyped

\* The fields of an edit.
LEMMA EditFields ==
  ASSUME TypeOK, NEW e \in Editors, Editing(e)
  PROVE  edit[e] \in Edit
BY DEF TypeOK, FoldersTypeOK, Editing

LEMMA FoldersTyped ==
  ASSUME RssTyped, FoldersNext
  PROVE  FoldersTypeOK' /\ DropsKnown'
<1>0. TypeOK /\ FoldersTypeOK
  BY DEF RssTyped, TypeOK
<1>1. ASSUME NEW e \in Editors, NEW f \in Folders, NEW drop \in SUBSET LiveLinks, NEW add \in BOOLEAN, NEW rename \in BOOLEAN,
             edit' = [edit EXCEPT ![e] = [folder |-> f, drop |-> drop, add |-> add, rename |-> rename,
                                          locked |-> {}, holdsFolder |-> FALSE]],
             UNCHANGED <<link, folder, copies, share>>
      PROVE  FoldersTypeOK' /\ DropsKnown'
  <2>1. drop \subseteq Links /\ \A l \in drop : link[l] # Unused
    BY DEF LiveLinks, IsLive
  <2>2. edit' \in [Editors -> Edit \union {Unused}]
    BY <1>0, <1>1, <2>1 DEF FoldersTypeOK, Edit
  <2>3. DropsKnown'
    BY <1>0, <1>1, <2>1 DEF RssTyped, DropsKnown, Editing, FoldersTypeOK
  <2> QED BY <1>0, <1>1, <2>2, <2>3 DEF FoldersTypeOK
<1>2. ASSUME NEW e \in Editors, BeginEdit(e) PROVE FoldersTypeOK' /\ DropsKnown'
  <2>1. PICK f \in Folders, keep \in BOOLEAN, rename \in BOOLEAN :
          LET mine == {l \in LiveLinks : link[l].folder = f} IN
          \E reused \in IF keep /\ mine # {} THEN {{l} : l \in mine} ELSE {{}} :
               edit' = [edit EXCEPT ![e] =
                 [folder |-> f, drop |-> mine \ reused, add |-> keep /\ mine = {},
                  rename |-> rename, locked |-> {}, holdsFolder |-> FALSE]]
    BY <1>2, ZenonT(40) DEF BeginEdit
  <2>2. PICK drop \in SUBSET LiveLinks, add \in BOOLEAN :
          edit' = [edit EXCEPT ![e] =
                    [folder |-> f, drop |-> drop, add |-> add, rename |-> rename, locked |-> {}, holdsFolder |-> FALSE]]
    BY <2>1
  <2> QED BY <1>1, <1>2, <2>2 DEF BeginEdit
<1>3. ASSUME NEW e \in Editors, LockLink(e) \/ LockFolder(e) PROVE FoldersTypeOK' /\ DropsKnown'
  <2>1. edit[e] \in Edit /\ edit[e] # Unused
    BY <1>0, <1>3, EditFields DEF LockLink, LockFolder, Editing
  <2>2. PICK q \in Edit : q.drop = edit[e].drop /\ edit' = [edit EXCEPT ![e] = q]
    <3>1. CASE LockLink(e)
      <4>1. PICK l \in edit[e].drop : edit' = [edit EXCEPT ![e].locked = @ \union {l}]
        BY <3>1 DEF LockLink
      <4>2. [edit[e] EXCEPT !.locked = @ \union {l}] \in Edit
        BY <2>1 DEF Edit
      <4> QED BY <4>1, <4>2, <2>1 DEF Edit
    <3>2. CASE LockFolder(e)
      <4>1. [edit[e] EXCEPT !.holdsFolder = TRUE] \in Edit
        BY <2>1 DEF Edit
      <4> QED BY <3>2, <4>1, <2>1 DEF LockFolder, Edit
    <3> QED BY <1>3, <3>1, <3>2
  <2>3. edit' \in [Editors -> Edit \union {Unused}] /\ link' = link
    BY <1>0, <1>3, <2>2 DEF FoldersTypeOK, LockLink, LockFolder
  <2>4. DropsKnown'
    BY <1>0, <2>1, <2>2, <2>3 DEF RssTyped, DropsKnown, Editing, FoldersTypeOK
  <2> QED BY <1>0, <1>3, <2>3, <2>4 DEF LockLink, LockFolder, FoldersTypeOK
<1>4. ASSUME NEW e \in Editors, CommitEdit(e) PROVE FoldersTypeOK' /\ DropsKnown'
  <2>1. edit[e] \in Edit /\ \A l \in edit[e].drop : link[l] # Unused
    BY <1>0, <1>4, EditFields DEF CommitEdit, RssTyped, DropsKnown
  <2>2. PICK new : link' = [l \in Links |-> IF l \in new THEN [state |-> "live", folder |-> edit[e].folder]
                                            ELSE Retired(l, edit[e].drop)]
    BY <1>4 DEF CommitEdit
  <2>3. ASSUME NEW l \in Links PROVE Retired(l, edit[e].drop) \in Link /\ (link[l] # Unused => Retired(l, edit[e].drop) # Unused)
    <3>1. CASE l \in edit[e].drop
      <4>1. link[l] \in [state : {"live", "retired"}, folder : Folders]
        BY <1>0, <2>1, <3>1 DEF FoldersTypeOK, Link
      <4>2. [link[l] EXCEPT !.state = "retired"] \in [state : {"live", "retired"}, folder : Folders]
        BY <4>1
      <4> QED BY <3>1, <4>2, Windows DEF Retired, Link
    <3>2. CASE l \notin edit[e].drop
      BY <1>0, <3>2 DEF Retired, FoldersTypeOK
    <3> QED BY <3>1, <3>2
  <2>4. [state |-> "live", folder |-> edit[e].folder] \in [state : {"live", "retired"}, folder : Folders]
    BY <2>1 DEF Edit
  <2>5. link' \in [Links -> Link]
    BY <2>2, <2>3, <2>4 DEF Link
  <2>6. \A l \in Links : link[l] # Unused => link'[l] # Unused
    BY <2>2, <2>3, <2>4, Windows
  <2>7. copies' \in [Links \X Guids -> Seq(Bodies)]
    <3>1. copies' = [p \in Links \X Guids |-> IF p[1] \in edit[e].drop THEN <<>> ELSE copies[p]]
      BY <1>4 DEF CommitEdit
    <3>2. <<>> \in Seq(Bodies)
      OBVIOUS
    <3> QED BY <1>0, <3>1, <3>2 DEF FoldersTypeOK
  <2>8. edit' = [edit EXCEPT ![e] = Unused] /\ UNCHANGED <<folder, share>>
    BY <1>4 DEF CommitEdit
  <2>9. DropsKnown'
    <3>1. ASSUME NEW d \in Editors, edit'[d] # Unused, NEW l \in edit'[d].drop PROVE link'[l] # Unused
      <4>1. edit'[d] = edit[d] /\ edit[d] \in Edit
        BY <1>0, <2>8, <3>1 DEF FoldersTypeOK
      <4>2. l \in Links /\ link[l] # Unused
        BY <3>1, <4>1 DEF RssTyped, DropsKnown, Editing, Edit
      <4> QED BY <2>6, <4>2
    <3> QED BY <3>1 DEF DropsKnown, Editing
  <2> QED BY <1>0, <2>5, <2>7, <2>8, <2>9 DEF FoldersTypeOK
<1>5. ASSUME NEW e \in Editors, AbortEdit(e) PROVE FoldersTypeOK' /\ DropsKnown'
  BY <1>0, <1>5 DEF AbortEdit, RssTyped, DropsKnown, Editing, FoldersTypeOK
<1>6. ASSUME NEW f \in Folders, TrashFolder(f) \/ RestoreFolder(f) PROVE FoldersTypeOK' /\ DropsKnown'
  BY <1>0, <1>6 DEF TrashFolder, RestoreFolder, RssTyped, DropsKnown, Editing, FoldersTypeOK
<1> QED BY <1>2, <1>3, <1>4, <1>5, <1>6 DEF FoldersNext, EditStep

LEMMA PhaseSet ==
  ASSUME TypeOK, NEW w \in Workers, NEW x \in Phases, poll' = [poll EXCEPT ![w].phase = x]
  PROVE  /\ poll' \in [Workers -> Poll] /\ poll'[w].phase = x
         /\ \A v \in Workers : /\ poll'[v].status = poll[v].status /\ poll'[v].age = poll[v].age
                              /\ (v # w => poll'[v] = poll[v])
BY DEF TypeOK, Poll

LEMMA ItemSet ==
  ASSUME TypeOK, NEW w \in Workers, NEW n \in Entries, NEW r \in Item, item' = [item EXCEPT ![w][n] = r]
  PROVE  /\ item' \in [Workers -> [Entries -> Item]] /\ item'[w][n] = r
         /\ \A v \in Workers, m \in Entries : v # w \/ m # n => item'[v][m] = item[v][m]
BY DEF TypeOK

LEMMA ContentSet ==
  ASSUME TypeOK, NEW g \in Guids, NEW c \in Content, content' = [content EXCEPT ![g] = c]
  PROVE  /\ content' \in [Guids -> Content] /\ content'[g] = c /\ \A f \in Guids : f # g => content'[f] = content[f]
BY DEF TypeOK

\* A worker that does not insert has nothing to insert.
LEMMA IdleWork ==
  ASSUME RssTyped, NEW w \in Workers, poll[w].phase # "inserting"
  PROVE  work[w].pairs = {} /\ work[w].at = Nothing
<1>1. work[w].pairs \subseteq Pairs /\ work[w].at \in Pairs \union {Nothing}
  BY DEF RssTyped, TypeOK, Work
<1> QED BY <1>1 DEF RssTyped, WorkSettled

\* What the others have to insert stays settled.
LEMMA WorkKept ==
  ASSUME RssTyped, NEW w \in Workers, work'[w].pairs = {}, work'[w].at = Nothing,
         \A v \in Workers : v # w => /\ poll'[v].phase = poll[v].phase /\ item'[v] = item[v]
                                     /\ work'[v].pairs = work[v].pairs /\ work'[v].at = work[v].at
  PROVE  WorkSettled'
<1>1. ASSUME NEW v \in Workers, NEW p \in Pairs, p \in work'[v].pairs \/ p = work'[v].at
      PROVE  poll'[v].phase = "inserting" /\ Settles(v, p[2])'
  <2>1. v # w
    BY <1>1, Windows
  <2>2. poll[v].phase = "inserting" /\ Settles(v, p[2])
    BY <1>1, <2>1 DEF RssTyped, WorkSettled
  <2> QED BY <2>1, <2>2 DEF Settles
<1> QED BY <1>1 DEF WorkSettled

LEMMA FoldersKept == ASSUME RssTyped, UNCHANGED folderVars PROVE FoldersTypeOK' /\ DropsKnown'
BY DEF folderVars, RssTyped, TypeOK, FoldersTypeOK, DropsKnown, Editing

\* A worker that does not insert goes on to another phase.
LEMMA PhaseTyped ==
  ASSUME RssTyped, NEW w \in Workers, NEW x \in Phases, poll' = [poll EXCEPT ![w].phase = x],
         poll[w].phase # "inserting" \/ (work[w].pairs = {} /\ work[w].at = Nothing),
         work' \in [Workers -> Work], work'[w].pairs = {}, work'[w].at = Nothing,
         \A v \in Workers : v # w => work'[v] = work[v],
         item' \in [Workers -> [Entries -> Item]], \A v \in Workers : v # w => item'[v] = item[v],
         UNCHANGED <<folderVars, content, latest, faults, contested>>
  PROVE  RssTyped'
<1>1. poll' \in [Workers -> Poll] /\ \A v \in Workers : v # w => poll'[v] = poll[v]
  BY PhaseSet DEF RssTyped
<1>2. WorkSettled'
  BY <1>1, WorkKept
<1>3. TypeOK'
  BY <1>1, FoldersKept DEF RssTyped, TypeOK
<1> QED BY <1>2, <1>3, FoldersKept DEF RssTyped

LEMMA SamePhase ==
  ASSUME RssTyped, NEW w \in Workers, poll' = poll, poll[w].phase # "inserting", work' = work,
         item' \in [Workers -> [Entries -> Item]], \A v \in Workers : v # w => item'[v] = item[v],
         content' \in [Guids -> Content], contested' \subseteq Guids, UNCHANGED <<folderVars, latest, faults>>
  PROVE  RssTyped'
<1>1. WorkSettled'
  BY IdleWork, WorkKept
<1>2. TypeOK'
  BY FoldersKept DEF RssTyped, TypeOK
<1> QED BY <1>1, <1>2, FoldersKept DEF RssTyped

\* The row of a poll that ended.
LEMMA EndedPoll ==
  ASSUME TypeOK, NEW w \in Workers, NEW status \in {"none", "polling", "failed", "succeed"}, poll' = Ended(w, status)
  PROVE  /\ poll' \in [Workers -> Poll] /\ poll'[w].phase = "idle"
         /\ \A v \in Workers : v # w => poll'[v] = poll[v]
<1>1. [poll[w] EXCEPT !.phase = "idle", !.status = status] \in Poll
      /\ [poll[w] EXCEPT !.phase = "idle", !.status = status].phase = "idle"
  BY DEF TypeOK, Poll, Phases
<1>2. poll' = [poll EXCEPT ![w] = IF w = latest THEN [poll[w] EXCEPT !.phase = "idle", !.status = status] ELSE NoPoll]
  BY DEF Ended
<1> QED BY <1>1, <1>2, Empties DEF TypeOK

\* A poll ends, or dies.
LEMMA EndTyped ==
  ASSUME RssTyped, NEW w \in Workers, NEW status \in {"none", "polling", "failed", "succeed"}, poll' = Ended(w, status),
         Release(w), faults' \in 0..MaxFaults, UNCHANGED <<link, folder, copies, edit, content, latest, contested>>
  PROVE  RssTyped'
<1>1. /\ poll' \in [Workers -> Poll] /\ \A v \in Workers : v # w => poll'[v] = poll[v]
  BY EndedPoll DEF RssTyped
<1>2. /\ work' \in [Workers -> Work] /\ work'[w].pairs = {} /\ work'[w].at = Nothing
      /\ \A v \in Workers : v # w => work'[v] = work[v]
  BY Empties DEF Release, RssTyped, TypeOK
<1>3. item' \in [Workers -> [Entries -> Item]] /\ \A v \in Workers : v # w => item'[v] = item[v]
  <2>1. item' = [item EXCEPT ![w] = [n \in Entries |-> Absent]]
    BY DEF Release
  <2> QED BY <2>1, Empties DEF RssTyped, TypeOK
<1>4. share' \in [Links -> SUBSET Workers]
  BY DEF Release, RssTyped, TypeOK, FoldersTypeOK
<1>5. WorkSettled'
  BY <1>1, <1>2, <1>3, WorkKept
<1>6. FoldersTypeOK'
  BY <1>4 DEF RssTyped, TypeOK, FoldersTypeOK
<1>7. TypeOK'
  BY <1>1, <1>2, <1>3, <1>6 DEF RssTyped, TypeOK
<1>8. DropsKnown'
  BY DEF RssTyped, DropsKnown, Editing
<1> QED BY <1>5, <1>7, <1>8 DEF RssTyped

\* Entries are numbered in feed order.
LEMMA EntryNumbers == \E n \in Nat : Entries = 1..n
BY PollAssumption, FS_CardinalityType

LEMMA SettledGuid ==
  ASSUME RssTyped, NEW w \in Workers, NEW g \in SettledGuids(w)
  PROVE  g \in Guids /\ Settles(w, g)
<1>1. PICK k \in StoredEntries(w) : GuidOf[k] = g
  BY DEF SettledGuids
<1>2. g \in Guids
  BY <1>1, PollAssumption DEF StoredEntries
<1>3. PICK T : T = {n \in StoredEntries(w) : GuidOf[n] = g}
  OBVIOUS
<1>4. PICK n \in T : \A m \in T : m <= n
  <2>1. PICK N \in Nat : Entries = 1..N
    BY EntryNumbers
  <2>2. T \subseteq 1..N /\ T # {}
    BY <1>1, <1>3, <2>1 DEF StoredEntries
  <2> QED BY <2>2, Largest
<1>5. EntryOf(w, g) \in StoredEntries(w) /\ GuidOf[EntryOf(w, g)] = g
      /\ \A m \in StoredEntries(w) : GuidOf[m] = g => m <= EntryOf(w, g)
  BY <1>3, <1>4 DEF EntryOf
<1>6. item[w][EntryOf(w, g)].body # Nothing
  BY DEF SettledGuids
<1> QED BY <1>2, <1>5, <1>6 DEF Settles, StoredEntries

\* The entry whose text is inserted is the last of its guid, and settled.
LEMMA SettledEntry ==
  ASSUME RssTyped, NEW w \in Workers, NEW g, Settles(w, g)
  PROVE  /\ EntryOf(w, g) \in Entries /\ GuidOf[EntryOf(w, g)] = g /\ item[w][EntryOf(w, g)].step = "stored"
         /\ item[w][EntryOf(w, g)].body \in Bodies
<1>1. PICK n \in Entries : /\ item[w][n].step = "stored" /\ GuidOf[n] = g /\ item[w][n].body # Nothing
                           /\ \A m \in Entries : item[w][m].step = "stored" /\ GuidOf[m] = g => m <= n
  BY DEF Settles
<1>2. EntryOf(w, g) \in StoredEntries(w) /\ GuidOf[EntryOf(w, g)] = g
      /\ \A m \in StoredEntries(w) : GuidOf[m] = g => m <= EntryOf(w, g)
  BY <1>1 DEF EntryOf, StoredEntries
<1>3. Entries \subseteq Nat
  BY EntryNumbers
<1>4. EntryOf(w, g) = n
  <2>1. PICK k \in Entries : k = EntryOf(w, g)
    BY <1>2 DEF StoredEntries
  <2>2. k <= n /\ n <= k
    BY <1>1, <1>2, <2>1 DEF StoredEntries
  <2>3. k \in Nat /\ n \in Nat
    BY <1>3
  <2> QED BY <2>1, <2>2, <2>3
<1> QED BY <1>1, <1>4 DEF RssTyped, TypeOK, Item, Body

LEMMA StoredItem ==
  ASSUME NEW w, NEW n, NEW text \in Body
  PROVE  /\ Stored(w, n, text) \in Item
         /\ \/ Stored(w, n, text).step = "absent"
            \/ Stored(w, n, text).step = "stored" /\ Stored(w, n, text).body = text
<1>1. /\ [Absent EXCEPT !.step = "stored", !.body = text] \in Item
      /\ [Absent EXCEPT !.step = "stored", !.body = text].step = "stored"
      /\ [Absent EXCEPT !.step = "stored", !.body = text].body = text
  BY Windows DEF Absent, Item
<1> QED BY <1>1, Empties DEF Stored

\* What a failed poll leaves behind.
LEMMA FailedItems ==
  ASSUME TypeOK, NEW w \in Workers, NEW n \in Entries, NEW batch, StoreFails(w, n, batch)
  PROVE  /\ item' \in [Workers -> [Entries -> Item]] /\ \A v \in Workers : v # w => item'[v] = item[v]
         /\ \A m \in Entries : \/ item'[w][m].step = "absent"
                               \/ item'[w][m] = item[w][m] /\ item[w][m].step \in {"listed", "parsing"}
<1>1. item' = [item EXCEPT ![w] = [m \in Entries |->
        IF item[w][m].step = "parsing" \/ (item[w][m].step = "listed" /\ m \in batch) THEN item[w][m] ELSE Absent]]
  BY DEF StoreFails
<1> QED BY <1>1, Empties DEF TypeOK

LEMMA PollerTyped ==
  ASSUME RssTyped, PollerNext
  PROVE  RssTyped'
<1>0. TypeOK /\ FoldersTypeOK
  BY DEF RssTyped, TypeOK
<1>1. ASSUME NEW w \in Workers, ListUrl(w) \/ Skip(w) \/ ItemsStored(w) \/ ItemsLinked(w) PROVE RssTyped'
  <2>1. PICK x \in Phases : poll' = [poll EXCEPT ![w].phase = x]
    BY <1>1 DEF ListUrl, Skip, ItemsStored, ItemsLinked, Phases
  <2>2. work[w].pairs = {} /\ work[w].at = Nothing
    BY <1>1, IdleWork DEF ListUrl, Skip, ItemsStored, ItemsLinked
  <2>3. UNCHANGED <<folderVars, content, item, work, latest, faults, contested>>
    BY <1>1 DEF ListUrl, Skip, ItemsStored, ItemsLinked
  <2> QED BY <1>0, <2>1, <2>2, <2>3, PhaseTyped DEF TypeOK
<1>2. ASSUME NEW w \in Workers, Claim(w) PROVE RssTyped'
  <2>1. [NoPoll EXCEPT !.phase = "claimed", !.status = "polling"] \in Poll
    BY Windows DEF NoPoll, Poll, Phases
  <2>2. ASSUME NEW v \in Workers PROVE Retire(poll[v]) \in Poll /\ Retire(poll[v]).phase = poll[v].phase
    BY <1>0, Windows DEF TypeOK, Retire, Poll
  <2>3. /\ poll' \in [Workers -> Poll] /\ \A v \in Workers : v # w => poll'[v].phase = poll[v].phase
    BY <1>0, <1>2, <2>1, <2>2 DEF Claim, TypeOK
  <2>4. WorkSettled'
    BY <1>2, <2>3, IdleWork, WorkKept DEF Claim
  <2>5. TypeOK'
    BY <1>0, <1>2, <2>3, FoldersKept DEF Claim, TypeOK
  <2> QED BY <1>2, <2>4, <2>5, FoldersKept DEF Claim, RssTyped
<1>3. ASSUME NEW w \in Workers, NEW listed \in SUBSET Entries, Fetch(w, listed) PROVE RssTyped'
  <2>1. PICK text \in [listed -> Bodies] :
          item' = [item EXCEPT ![w] = [n \in Entries |->
            IF n \in listed
            THEN [Absent EXCEPT !.step = "listed", !.body = IF GuidOf[n] \in Bare THEN text[n] ELSE @]
            ELSE Absent]]
    BY <1>3 DEF Fetch
  <2>2. \A b \in Body : [Absent EXCEPT !.step = "listed", !.body = b] \in Item
    BY Windows DEF Absent, Item, Body
  <2>3. \A n \in Entries :
          (IF n \in listed
            THEN [Absent EXCEPT !.step = "listed", !.body = IF GuidOf[n] \in Bare THEN text[n] ELSE @]
            ELSE Absent) \in Item
    BY <2>2, Empties DEF Body, Absent
  <2>4. item' \in [Workers -> [Entries -> Item]] /\ \A v \in Workers : v # w => item'[v] = item[v]
    BY <1>0, <2>1, <2>3 DEF TypeOK
  <2> QED BY <1>0, <1>3, <2>4, IdleWork, PhaseTyped DEF Fetch, TypeOK, Phases
<1>4. ASSUME NEW w \in Workers, NEW n \in Entries, StoreItem(w, n) PROVE RssTyped'
  <2>1. PICK g \in Guids : g = GuidOf[n]
    BY PollAssumption
  <2>2. PICK c \in Content : c = Seen(content[g], item[w][n].body)
    BY <1>0 DEF TypeOK, Seen, Content, Item
  <2>3. content' = [content EXCEPT ![g] = c]
    BY <1>4, <2>1, <2>2 DEF StoreItem
  <2>4. PICK r \in Item : item' = [item EXCEPT ![w][n] = r]
    <3>1. PICK settled \in Body : settled = IF g \in Bare /\ c.parsed = Nothing THEN c.snapshot ELSE c.parsed
      BY DEF Content
    <3>2. [step |-> "parsing", body |-> Nothing, attempts |-> c.attempts, late |-> FALSE] \in Item
      BY DEF Content, Item, Body
    <3>3. Stored(w, n, settled) \in Item
      BY StoredItem
    <3>4. \/ item' = [item EXCEPT ![w][n] = [step |-> "parsing", body |-> Nothing, attempts |-> c.attempts, late |-> FALSE]]
          \/ item' = [item EXCEPT ![w][n] = Stored(w, n, settled)]
      BY <1>4, <2>1, <2>2, <3>1 DEF StoreItem
    <3> QED BY <3>2, <3>3, <3>4
  <2>5. item' \in [Workers -> [Entries -> Item]] /\ \A v \in Workers : v # w => item'[v] = item[v]
    BY <1>0, <2>4 DEF TypeOK
  <2>6. content' \in [Guids -> Content]
    BY <1>0, <2>3, ContentSet
  <2>7. poll[w].phase # "inserting"
    BY <1>4 DEF StoreItem, Storing, Strays
  <2> QED BY <1>0, <1>4, <2>5, <2>6, <2>7, SamePhase DEF StoreItem, TypeOK
<1>5. ASSUME NEW w \in Workers, NEW n \in Entries, Parsed(w, n) \/ ParseFailed(w, n) PROVE RssTyped'
  <2>1. PICK g \in Guids : g = GuidOf[n]
    BY PollAssumption
  <2>2. PICK text \in Body : item' = [item EXCEPT ![w][n] = Stored(w, n, text)]
    BY <1>5 DEF Parsed, ParseFailed, Body
  <2>3. Stored(w, n, text) \in Item
    BY StoredItem
  <2>4. item' \in [Workers -> [Entries -> Item]] /\ \A v \in Workers : v # w => item'[v] = item[v]
    BY <1>0, <2>2, <2>3 DEF TypeOK
  <2>5. content' \in [Guids -> Content]
    <3>1. content[g] \in Content
      BY <1>0 DEF TypeOK
    <3>2. CASE Parsed(w, n)
      <4>1. PICK t \in Bodies : content' = [content EXCEPT ![g] = [content[g] EXCEPT !.parsed = t, !.wait = 0]]
        BY <1>0, <2>1, <3>2 DEF Parsed, TypeOK
      <4>2. 0 \in 0..Backoff(MaxExponent)
        BY Windows
      <4>3. [content[g] EXCEPT !.parsed = t, !.wait = 0] \in Content
        BY <3>1, <4>2 DEF Content, Body
      <4> QED BY <1>0, <4>1, <4>3, ContentSet
    <3>3. CASE ParseFailed(w, n)
      <4>1. PICK tried \in 0..MaxExponent : tried = Attempted(item[w][n].attempts)
        BY <1>0, Windows DEF Attempted, TypeOK, Item
      <4>2. content' = [content EXCEPT ![g] = [content[g] EXCEPT !.attempts = tried, !.wait = Backoff(tried)]]
        BY <1>0, <2>1, <3>3, <4>1 DEF ParseFailed, TypeOK
      <4>3. PICK wait \in 0..Backoff(MaxExponent) : wait = Backoff(tried)
        BY Windows, BackoffAssumption
      <4>4. [content[g] EXCEPT !.attempts = tried, !.wait = wait] \in Content
        BY <3>1 DEF Content
      <4> QED BY <1>0, <4>2, <4>3, <4>4, ContentSet
    <3> QED BY <1>5, <3>2, <3>3
  <2>6. poll[w].phase # "inserting"
    BY <1>5 DEF Parsed, ParseFailed, Storing, Strays
  <2>7. contested' \subseteq Guids
    BY <1>0, <1>5, <2>1 DEF Parsed, ParseFailed, TypeOK
  <2> QED BY <1>5, <2>4, <2>5, <2>6, <2>7, SamePhase DEF Parsed, ParseFailed
<1>6. ASSUME NEW w \in Workers, ReadLinks(w) \/ ReadFolders(w) PROVE RssTyped'
  <2>1. PICK links \in SUBSET Links : work' = [work EXCEPT ![w] = [work[w] EXCEPT !.links = links]]
    <3>1. CASE ReadLinks(w)
      BY <1>0, <3>1 DEF ReadLinks, TypeOK, LiveLinks
    <3>2. CASE ReadFolders(w)
      <4>1. {l \in work[w].links : folder[link[l].folder] = "live"} \in SUBSET Links
        BY <1>0 DEF TypeOK, Work
      <4> QED BY <1>0, <3>2, <4>1 DEF ReadFolders, TypeOK
    <3> QED BY <1>6, <3>1, <3>2
  <2>2. [work[w] EXCEPT !.links = links] \in Work
        /\ [work[w] EXCEPT !.links = links].pairs = work[w].pairs /\ [work[w] EXCEPT !.links = links].at = work[w].at
    BY <1>0 DEF TypeOK, Work
  <2>3. work' \in [Workers -> Work] /\ work'[w].pairs = {} /\ work'[w].at = Nothing
        /\ \A v \in Workers : v # w => work'[v] = work[v]
    BY <1>0, <1>6, <2>1, <2>2, IdleWork DEF ReadLinks, ReadFolders, TypeOK
  <2>4. PICK x \in Phases : poll' = [poll EXCEPT ![w].phase = x]
    BY <1>6 DEF ReadLinks, ReadFolders, Phases
  <2> QED BY <1>0, <1>6, <2>3, <2>4, PhaseTyped DEF ReadLinks, ReadFolders, TypeOK
<1>7. ASSUME NEW w \in Workers, ReadCopies(w) PROVE RssTyped'
  <2>1. PICK pairs \in SUBSET Pairs : pairs = {p \in work[w].links \X SettledGuids(w) : copies[p] = <<>>}
    <3>1. work[w].links \subseteq Links /\ SettledGuids(w) \subseteq Guids
      BY <1>0, SettledGuid DEF TypeOK, Work
    <3> QED BY <3>1 DEF Pairs
  <2>2. \A p \in pairs : Settles(w, p[2])
    BY <2>1, SettledGuid
  <2>3. PICK q \in Work : q.pairs = pairs /\ q.at = Nothing /\ work' = [work EXCEPT ![w] = q]
    <3>1. work[w].at = Nothing /\ work[w] \in Work
      BY <1>0, <1>7, IdleWork DEF ReadCopies, TypeOK
    <3>2. work' = [work EXCEPT ![w] = [work[w] EXCEPT !.links = {}, !.pairs = pairs]]
      BY <1>0, <1>7, <2>1 DEF ReadCopies, TypeOK
    <3>3. PICK q \in Work : q = [work[w] EXCEPT !.links = {}, !.pairs = pairs] /\ q.pairs = pairs /\ q.at = Nothing
      <4>1. \A r \in Work : [r EXCEPT !.links = {}, !.pairs = pairs] \in Work
        BY DEF Work
      <4>2. \A r \in Work : [r EXCEPT !.links = {}, !.pairs = pairs].pairs = pairs
        BY DEF Work
      <4>3. \A r \in Work : [r EXCEPT !.links = {}, !.pairs = pairs].at = r.at
        BY DEF Work
      <4> QED BY <3>1, <4>1, <4>2, <4>3
    <3> QED BY <3>2, <3>3
  <2>5. work' \in [Workers -> Work] /\ work'[w].pairs = pairs /\ work'[w].at = Nothing
        /\ \A v \in Workers : v # w => work'[v] = work[v]
    BY <1>0, <2>3 DEF TypeOK
  <2>6. /\ poll' \in [Workers -> Poll] /\ poll'[w].phase = "inserting"
        /\ \A v \in Workers : v # w => poll'[v] = poll[v]
    BY <1>0, <1>7, PhaseSet DEF ReadCopies, Phases
  <2>7. UNCHANGED <<folderVars, content, item, latest, faults, contested>>
    BY <1>7 DEF ReadCopies
  <2>8. WorkSettled'
    <3>1. ASSUME NEW v \in Workers, NEW p \in Pairs, p \in work'[v].pairs \/ p = work'[v].at
          PROVE  poll'[v].phase = "inserting" /\ Settles(v, p[2])
      BY <2>2, <2>5, <2>6, <3>1, Windows DEF RssTyped, WorkSettled
    <3> QED BY <2>7, <3>1 DEF WorkSettled, Settles
  <2>9. TypeOK'
    BY <1>0, <2>5, <2>6, <2>7, FoldersKept DEF TypeOK
  <2> QED BY <2>7, <2>8, <2>9, FoldersKept DEF RssTyped
<1>8. ASSUME NEW w \in Workers, CheckLink(w) \/ InsertItem(w) PROVE RssTyped'
  <2>1. PICK q \in Work : /\ work' = [work EXCEPT ![w] = q] /\ q.pairs \subseteq work[w].pairs
                          /\ q.at = Nothing \/ q.at \in work[w].pairs
    <3>1. work[w] \in Work
      BY <1>0 DEF TypeOK
    <3>2. CASE CheckLink(w)
      <4>1. PICK p \in work[w].pairs : \E at \in {p, Nothing} :
               work' = [work EXCEPT ![w] = [work[w] EXCEPT !.pairs = @ \ {p}, !.at = at]]
        BY <1>0, <3>2, ZenonT(40) DEF CheckLink, TypeOK
      <4>3. PICK at \in {p, Nothing} : work' = [work EXCEPT ![w] = [work[w] EXCEPT !.pairs = @ \ {p}, !.at = at]]
        BY <4>1
      <4>2. [work[w] EXCEPT !.pairs = @ \ {p}, !.at = at] \in Work
        BY <3>1, <4>1 DEF Work
      <4> QED BY <3>1, <4>3, <4>2 DEF Work
    <3>3. CASE InsertItem(w)
      <4>1. [work[w] EXCEPT !.at = Nothing] \in Work
        BY <3>1 DEF Work
      <4> QED BY <3>1, <3>3, <4>1 DEF InsertItem, Work
    <3> QED BY <1>8, <3>2, <3>3
  <2>2. work' \in [Workers -> Work] /\ work'[w] = q /\ \A v \in Workers : v # w => work'[v] = work[v]
    BY <1>0, <2>1 DEF TypeOK
  <2>3. UNCHANGED <<link, folder, edit, content, poll, item, latest, faults, contested>>
    BY <1>8 DEF CheckLink, InsertItem
  <2>4. WorkSettled'
    <3>1. ASSUME NEW v \in Workers, NEW p \in Pairs, p \in work'[v].pairs \/ p = work'[v].at
          PROVE  p \in work[v].pairs \/ p = work[v].at
      BY <2>1, <2>2, <3>1, Windows
    <3> QED BY <2>3, <3>1 DEF RssTyped, WorkSettled, Settles
  <2>5. share' \in [Links -> SUBSET Workers]
    <3>1. CASE CheckLink(w)
      <4>1. PICK p \in work[w].pairs : share' = [share EXCEPT ![p[1]] = IF Subscribed(p[1]) THEN @ \union {w} ELSE @]
        BY <3>1 DEF CheckLink
      <4>2. p[1] \in Links
        BY <1>0 DEF TypeOK, Work, Pairs
      <4> QED BY <1>0, <4>1, <4>2 DEF FoldersTypeOK
    <3>2. CASE InsertItem(w)
      <4>1. share' = [share EXCEPT ![work[w].at[1]] = @ \ {w}]
        BY <3>2 DEF InsertItem
      <4> QED BY <1>0, <4>1 DEF FoldersTypeOK
    <3> QED BY <1>8, <3>1, <3>2
  <2>6. copies' \in [Links \X Guids -> Seq(Bodies)]
    <3>1. CASE CheckLink(w)
      BY <1>0, <3>1 DEF CheckLink, FoldersTypeOK
    <3>2. CASE InsertItem(w)
      <4>1. PICK p \in Pairs : p = work[w].at
        BY <1>0, <3>2 DEF InsertItem, TypeOK, Work
      <4>2. Settles(w, p[2])
        BY <4>1 DEF RssTyped, WorkSettled
      <4>3. PICK text \in Bodies : text = item[w][EntryOf(w, p[2])].body
        BY <4>2, SettledEntry
      <4>4. copies' = [copies EXCEPT ![p] = Inserted(copies[p], text)]
        BY <3>2, <4>1, <4>3 DEF InsertItem
      <4>5. Inserted(copies[p], text) \in Seq(Bodies)
        <5>1. copies[p] \in Seq(Bodies) /\ <<text>> \in Seq(Bodies)
          BY <1>0, <4>1 DEF FoldersTypeOK, Pairs
        <5> QED BY <5>1 DEF Inserted
      <4> QED BY <1>0, <4>4, <4>5 DEF FoldersTypeOK
    <3> QED BY <1>8, <3>1, <3>2
  <2>7. TypeOK'
    BY <1>0, <2>2, <2>3, <2>5, <2>6 DEF TypeOK, FoldersTypeOK
  <2>8. DropsKnown'
    BY <2>3 DEF RssTyped, DropsKnown, Editing
  <2> QED BY <2>4, <2>7, <2>8 DEF RssTyped
<1>9. ASSUME NEW w \in Workers, Finish(w) PROVE RssTyped'
  BY <1>0, <1>9, EndTyped DEF Finish, TypeOK
<1>10. ASSUME NEW w \in Workers, Fail(w) \/ Crash(w) PROVE RssTyped'
  <2>1. faults' \in 0..MaxFaults
    BY <1>0, <1>10, Windows DEF Fail, Crash, TypeOK
  <2>2. PICK status \in {"none", "polling", "failed", "succeed"} : poll' = Ended(w, status)
    BY <1>0, <1>10 DEF Fail, Crash, TypeOK, Poll
  <2> QED BY <1>10, <2>1, <2>2, EndTyped DEF Fail, Crash
<1>11. CASE Tick
  <2>1. poll' \in [Workers -> Poll] /\ \A w \in Workers : poll'[w].phase = poll[w].phase
    <3>1. ASSUME NEW w \in Workers, NEW age \in Nat, age = IF poll[w].age < Stale /\ poll[w].status # "none" THEN poll[w].age + 1 ELSE poll[w].age
          PROVE  [poll[w] EXCEPT !.age = age] \in Poll /\ [poll[w] EXCEPT !.age = age].phase = poll[w].phase
      <4>1. poll[w].age \in 0..Stale /\ poll[w] \in Poll
        BY <1>0 DEF TypeOK, Poll
      <4>2. age \in 0..Stale
        BY <3>1, <4>1, Windows
      <4> QED BY <4>1, <4>2 DEF Poll
    <3>2. \A w \in Workers : (IF poll[w].age < Stale /\ poll[w].status # "none" THEN poll[w].age + 1 ELSE poll[w].age) \in Nat
      BY <1>0, Windows DEF TypeOK, Poll
    <3>3. poll' = [w \in Workers |-> [poll[w] EXCEPT !.age =
                     IF poll[w].age < Stale /\ poll[w].status # "none" THEN poll[w].age + 1 ELSE poll[w].age]]
      BY <1>11 DEF Tick
    <3> QED BY <3>1, <3>2, <3>3
  <2>2. /\ item' \in [Workers -> [Entries -> Item]]
        /\ \A w \in Workers, n \in Entries : item'[w][n].step = item[w][n].step /\ item'[w][n].body = item[w][n].body
    <3>1. ASSUME NEW w \in Workers, NEW n \in Entries, NEW late \in BOOLEAN
          PROVE  /\ [item[w][n] EXCEPT !.late = late] \in Item
                 /\ [item[w][n] EXCEPT !.late = late].step = item[w][n].step
                 /\ [item[w][n] EXCEPT !.late = late].body = item[w][n].body
      <4>1. PICK i \in Item : i = item[w][n]
        BY <1>0 DEF TypeOK
      <4>2. [i EXCEPT !.late = late] \in Item
        BY DEF Item
      <4>3. [i EXCEPT !.late = late].step = i.step /\ [i EXCEPT !.late = late].body = i.body
        BY DEF Item
      <4> QED BY <4>1, <4>2, <4>3
    <3>2. item' = [w \in Workers |-> [n \in Entries |-> [item[w][n] EXCEPT !.late = (item[w][n].step = "parsing")]]]
      BY <1>11 DEF Tick
    <3>3. \A w \in Workers, n \in Entries : (item[w][n].step = "parsing") \in BOOLEAN
      OBVIOUS
    <3> QED BY <3>1, <3>2, <3>3
  <2>3. content' \in [Guids -> Content]
    <3>1. ASSUME NEW g \in Guids PROVE (IF content[g].wait > 0 THEN content[g].wait - 1 ELSE 0) \in 0..Backoff(MaxExponent)
      BY <1>0, Windows DEF TypeOK, Content
    <3>2. ASSUME NEW g \in Guids, NEW wait \in 0..Backoff(MaxExponent) PROVE [content[g] EXCEPT !.wait = wait] \in Content
      BY <1>0 DEF TypeOK, Content
    <3>3. content' = [g \in Guids |-> [content[g] EXCEPT !.wait = IF content[g].wait > 0 THEN content[g].wait - 1 ELSE 0]]
      BY <1>11 DEF Tick
    <3> QED BY <3>1, <3>2, <3>3
  <2>4. UNCHANGED <<folderVars, work, latest, faults, contested>>
    BY <1>11 DEF Tick
  <2>5. WorkSettled'
    <3>1. ASSUME NEW w \in Workers, NEW p \in Pairs, p \in work[w].pairs \/ p = work[w].at
          PROVE  poll'[w].phase = "inserting" /\ Settles(w, p[2])'
      <4>1. poll[w].phase = "inserting" /\ Settles(w, p[2])
        BY <3>1 DEF RssTyped, WorkSettled
      <4> QED BY <2>1, <2>2, <4>1 DEF Settles
    <3> QED BY <2>4, <3>1 DEF WorkSettled
  <2>6. TypeOK'
    BY <1>0, <2>1, <2>2, <2>3, <2>4, FoldersKept DEF TypeOK
  <2> QED BY <2>4, <2>5, <2>6, FoldersKept DEF RssTyped
<1>12. ASSUME NEW w \in Workers, NEW n \in Entries, NEW batch, StoreFails(w, n, batch) PROVE RssTyped'
  <2>1. PICK status \in {"none", "polling", "failed", "succeed"} : poll' = Ended(w, status)
    BY <1>0, <1>12 DEF StoreFails, TypeOK, Poll
  <2>2. item' \in [Workers -> [Entries -> Item]] /\ \A v \in Workers : v # w => item'[v] = item[v]
    BY <1>0, <1>12, FailedItems
  <2>3. faults' \in 0..MaxFaults
    BY <1>0, <1>12, Windows DEF StoreFails, TypeOK
  <2>4. UNCHANGED <<folderVars, content, work, latest, contested>> /\ poll[w].phase # "inserting"
    BY <1>12 DEF StoreFails
  <2>5. poll' \in [Workers -> Poll] /\ \A v \in Workers : v # w => poll'[v] = poll[v]
    BY <1>0, <2>1, EndedPoll
  <2>6. WorkSettled'
    BY <2>2, <2>4, <2>5, IdleWork, WorkKept
  <2>7. TypeOK'
    BY <1>0, <2>2, <2>3, <2>4, <2>5, FoldersKept DEF TypeOK
  <2> QED BY <2>4, <2>6, <2>7, FoldersKept DEF RssTyped
<1> QED BY <1>1, <1>2, <1>3, <1>4, <1>5, <1>6, <1>7, <1>8, <1>9, <1>10, <1>11, <1>12 DEF PollerNext, PollStep

LEMMA RssTypedStep == RssTyped /\ [Next]_vars => RssTyped'
<1> SUFFICES ASSUME RssTyped, [Next]_vars PROVE RssTyped'
  OBVIOUS
<1>1. CASE FoldersNext /\ UNCHANGED pollVars
  <2>1. WorkSettled'
    BY <1>1 DEF pollVars, RssTyped, WorkSettled, Settles
  <2>2. TypeOK'
    BY <1>1, FoldersTyped DEF pollVars, RssTyped, TypeOK
  <2> QED BY <1>1, <2>1, <2>2, FoldersTyped DEF RssTyped
<1>2. CASE PollerNext
  BY <1>2, PollerTyped
<1>3. CASE UNCHANGED vars
  <2>1. UNCHANGED folderVars /\ UNCHANGED pollVars
    BY <1>3 DEF vars
  <2>2. TypeOK'
    BY <2>1, FoldersKept DEF pollVars, RssTyped, TypeOK
  <2>3. WorkSettled'
    BY <2>1 DEF pollVars, RssTyped, WorkSettled, Settles
  <2> QED BY <2>1, <2>2, <2>3, FoldersKept DEF RssTyped
<1> QED BY <1>1, <1>2, <1>3 DEF Next

(* --------------------------- locks and live links --------------------------- *)

\* An edit holds the folder once it holds the links it drops, and nobody shares
\* a link that it holds.
EditsOrdered ==
  \A e \in Editors : Editing(e) =>
    /\ edit[e].holdsFolder => edit[e].drop \subseteq edit[e].locked
    /\ \A l \in edit[e].locked : share[l] = {}

\* A worker about to insert shares the link, which is live.
ChecksHold == \A w \in Workers, p \in Pairs : p = work[w].at => w \in share[p[1]] /\ IsLive(p[1])

CopiesHeld == \A p \in Pairs : copies[p] # <<>> => IsLive(p[1]) /\ Len(copies[p]) = 1

LocksInv == EditsOrdered /\ ChecksHold /\ CopiesHeld

LEMMA LocksInit == Init => LocksInv
<1> SUFFICES ASSUME Init PROVE LocksInv
  OBVIOUS
<1>1. EditsOrdered
  BY DEF Init, FoldersInit, EditsOrdered, Editing
<1>2. ChecksHold
  BY Empties, Windows DEF Init, ChecksHold
<1>3. CopiesHeld
  BY DEF Init, FoldersInit, CopiesHeld, Pairs
<1> QED BY <1>1, <1>2, <1>3 DEF LocksInv

\* Nobody begins to share a link or to insert.
LEMMA LocksKept ==
  ASSUME RssTyped, LocksInv, UNCHANGED <<link, copies, edit>>,
         \A l \in Links : share'[l] \subseteq share[l],
         \A w \in Workers :
           \/ work'[w].at = Nothing
           \/ work'[w].at = work[w].at /\ \A l \in Links : w \in share[l] => w \in share'[l]
  PROVE  LocksInv'
<1>1. EditsOrdered'
  <2>1. ASSUME NEW e \in Editors, Editing(e), NEW l \in edit[e].locked PROVE share'[l] = {}
    <3>1. l \in Links /\ share[l] = {}
      BY <2>1, EditFields DEF RssTyped, Edit, LocksInv, EditsOrdered
    <3> QED BY <3>1
  <2> QED BY <2>1 DEF LocksInv, EditsOrdered, Editing
<1>2. ChecksHold'
  <2>1. ASSUME NEW w \in Workers, NEW p \in Pairs, p = work'[w].at PROVE w \in share'[p[1]] /\ IsLive(p[1])
    <3>1. w \in share[p[1]] /\ IsLive(p[1]) /\ p[1] \in Links
      BY <2>1, Windows DEF LocksInv, ChecksHold, Pairs
    <3> QED BY <2>1, <3>1, Windows
  <2> QED BY <2>1 DEF ChecksHold, IsLive
<1>3. CopiesHeld'
  BY DEF LocksInv, CopiesHeld, IsLive
<1> QED BY <1>1, <1>2, <1>3 DEF LocksInv

LEMMA FoldersLocks ==
  ASSUME RssTyped, LocksInv, FoldersNext, UNCHANGED pollVars
  PROVE  LocksInv'
<1>0. FoldersTypeOK /\ work' = work
  BY DEF RssTyped, TypeOK, pollVars
<1>1. ASSUME NEW e \in Editors, BeginEdit(e) \/ AbortEdit(e) \/ LockLink(e) \/ LockFolder(e) PROVE LocksInv'
  <2>1. UNCHANGED <<link, copies, share>>
    BY <1>1 DEF BeginEdit, AbortEdit, LockLink, LockFolder
  <2>2. ChecksHold' /\ CopiesHeld'
    BY <1>0, <2>1 DEF LocksInv, ChecksHold, CopiesHeld, IsLive
  <2>3. ASSUME NEW q, edit' = [edit EXCEPT ![e] = q],
               q = Unused \/ ((q.holdsFolder => q.drop \subseteq q.locked) /\ \A l \in q.locked : share[l] = {})
        PROVE  EditsOrdered'
    BY <1>0, <2>1, <2>3 DEF LocksInv, EditsOrdered, Editing, FoldersTypeOK
  <2>4. CASE BeginEdit(e)
    <3>1. PICK f \in Folders, keep \in BOOLEAN, rename \in BOOLEAN :
            LET mine == {l \in LiveLinks : link[l].folder = f} IN
            \E reused \in IF keep /\ mine # {} THEN {{l} : l \in mine} ELSE {{}} :
                 edit' = [edit EXCEPT ![e] =
                   [folder |-> f, drop |-> mine \ reused, add |-> keep /\ mine = {},
                    rename |-> rename, locked |-> {}, holdsFolder |-> FALSE]]
      BY <2>4, ZenonT(40) DEF BeginEdit
    <3>2. PICK drop, add :
            edit' = [edit EXCEPT ![e] =
                      [folder |-> f, drop |-> drop, add |-> add, rename |-> rename, locked |-> {}, holdsFolder |-> FALSE]]
      BY <3>1
    <3> QED BY <2>2, <2>3, <3>2 DEF LocksInv
  <2>5. CASE AbortEdit(e)
    BY <2>2, <2>3, <2>5 DEF LocksInv, AbortEdit
  <2>6. CASE LockLink(e)
    <3>1. edit[e] \in Edit /\ Editing(e)
      BY <2>6, EditFields DEF LockLink, RssTyped
    <3>2. PICK l \in edit[e].drop : share[l] = {} /\ edit' = [edit EXCEPT ![e].locked = @ \union {l}]
      BY <2>6 DEF LockLink, CanLock
    <3>3. PICK q : q = [edit[e] EXCEPT !.locked = @ \union {l}] /\ edit' = [edit EXCEPT ![e] = q]
      BY <3>2
    <3>4. q.holdsFolder = edit[e].holdsFolder /\ q.drop = edit[e].drop /\ q.locked = edit[e].locked \union {l}
      BY <3>1, <3>3 DEF Edit
    <3> QED BY <2>2, <2>3, <3>1, <3>2, <3>3, <3>4 DEF LocksInv, EditsOrdered
  <2>7. CASE LockFolder(e)
    <3>1. edit[e] \in Edit /\ Editing(e) /\ edit[e].drop \subseteq edit[e].locked
      BY <2>7, EditFields DEF LockFolder, RssTyped, LinksDone
    <3>2. PICK q : q = [edit[e] EXCEPT !.holdsFolder = TRUE] /\ edit' = [edit EXCEPT ![e] = q]
      BY <2>7 DEF LockFolder
    <3>3. q.drop = edit[e].drop /\ q.locked = edit[e].locked
      BY <3>1, <3>2 DEF Edit
    <3> QED BY <2>2, <2>3, <3>1, <3>2, <3>3 DEF LocksInv, EditsOrdered
  <2> QED BY <1>1, <2>4, <2>5, <2>6, <2>7
<1>2. ASSUME NEW e \in Editors, CommitEdit(e) PROVE LocksInv'
  <2>1. edit[e] \in Edit /\ Editing(e) /\ \A l \in edit[e].drop : share[l] = {}
    BY <1>2, EditFields DEF CommitEdit, RssTyped, LocksInv, EditsOrdered
  <2>2. PICK new : link' = [l \in Links |-> IF l \in new THEN [state |-> "live", folder |-> edit[e].folder]
                                            ELSE Retired(l, edit[e].drop)]
    BY <1>2 DEF CommitEdit
  <2>3. ASSUME NEW l \in Links, IsLive(l), l \notin edit[e].drop PROVE IsLive(l)'
    <3>1. CASE l \in new
      <4>1. link'[l] = [state |-> "live", folder |-> edit[e].folder]
        BY <2>2, <3>1
      <4>2. [state |-> "live", folder |-> edit[e].folder] \in [state : {"live", "retired"}, folder : Folders]
        BY <2>1 DEF Edit
      <4> QED BY <4>1, <4>2, Windows DEF IsLive
    <3>2. CASE l \notin new
      <4>1. link'[l] = link[l]
        BY <2>2, <2>3, <3>2 DEF Retired
      <4> QED BY <2>3, <4>1 DEF IsLive
    <3> QED BY <3>1, <3>2
  <2>4. share' = share /\ edit' = [edit EXCEPT ![e] = Unused]
        /\ copies' = [p \in Pairs |-> IF p[1] \in edit[e].drop THEN <<>> ELSE copies[p]]
    BY <1>2 DEF CommitEdit, Pairs
  <2>5. EditsOrdered'
    BY <1>0, <2>4 DEF LocksInv, EditsOrdered, Editing, FoldersTypeOK
  <2>6. ChecksHold'
    <3>1. ASSUME NEW w \in Workers, NEW p \in Pairs, p = work[w].at PROVE w \in share[p[1]] /\ IsLive(p[1])'
      <4>1. w \in share[p[1]] /\ IsLive(p[1]) /\ p[1] \in Links
        BY <3>1 DEF LocksInv, ChecksHold, Pairs
      <4> QED BY <2>1, <2>3, <4>1
    <3> QED BY <1>0, <2>4, <3>1 DEF ChecksHold
  <2>7. CopiesHeld'
    <3>1. ASSUME NEW p \in Pairs, copies'[p] # <<>> PROVE IsLive(p[1])' /\ Len(copies'[p]) = 1
      <4>1. p[1] \notin edit[e].drop /\ copies'[p] = copies[p] /\ p[1] \in Links
        BY <2>4, <3>1 DEF Pairs
      <4>2. IsLive(p[1]) /\ Len(copies[p]) = 1
        BY <3>1, <4>1 DEF LocksInv, CopiesHeld
      <4> QED BY <2>3, <4>1, <4>2
    <3> QED BY <3>1 DEF CopiesHeld
  <2> QED BY <2>5, <2>6, <2>7 DEF LocksInv
<1>3. ASSUME NEW f \in Folders, TrashFolder(f) \/ RestoreFolder(f) PROVE LocksInv'
  <2>1. UNCHANGED <<link, copies, share, edit>>
    BY <1>3 DEF TrashFolder, RestoreFolder
  <2> QED BY <1>0, <2>1, LocksKept
<1> QED BY <1>1, <1>2, <1>3 DEF FoldersNext, EditStep

LEMMA PollerLocks ==
  ASSUME RssTyped, LocksInv, PollerNext
  PROVE  LocksInv'
<1>0. TypeOK /\ FoldersTypeOK
  BY DEF RssTyped, TypeOK
<1>1. ASSUME UNCHANGED folderVars, \A w \in Workers : work'[w].at \in {work[w].at, Nothing} PROVE LocksInv'
  BY <1>1, LocksKept DEF folderVars
<1>2. ASSUME NEW w \in Workers,
             \/ ListUrl(w) \/ Claim(w) \/ Skip(w) \/ ItemsStored(w) \/ ItemsLinked(w)
             \/ \E listed \in SUBSET Entries : Fetch(w, listed)
             \/ \E n \in Entries : StoreItem(w, n) \/ Parsed(w, n) \/ ParseFailed(w, n)
             \/ \E n \in Entries, batch \in SUBSET Entries : StoreFails(w, n, batch \ {n})
      PROVE  LocksInv'
  <2>1. UNCHANGED <<folderVars, work>>
    BY <1>2 DEF ListUrl, Claim, Skip, ItemsStored, ItemsLinked, Fetch, StoreItem, Parsed, ParseFailed, StoreFails
  <2> QED BY <1>1, <2>1
<1>3. ASSUME NEW w \in Workers, ReadLinks(w) \/ ReadFolders(w) \/ ReadCopies(w) PROVE LocksInv'
  <2>1. UNCHANGED folderVars
    BY <1>3 DEF ReadLinks, ReadFolders, ReadCopies
  <2>2. ASSUME NEW links, NEW pairs,
               \/ work' = [work EXCEPT ![w].links = links]
               \/ work' = [work EXCEPT ![w].links = links, ![w].pairs = pairs]
        PROVE  \A v \in Workers : work'[v].at = work[v].at
    <3>1. \A r \in Work : /\ [r EXCEPT !.links = links].at = r.at
                         /\ [r EXCEPT !.links = links, !.pairs = pairs].at = r.at
      BY DEF Work
    <3>2. \/ work' = [work EXCEPT ![w] = [work[w] EXCEPT !.links = links]]
          \/ work' = [work EXCEPT ![w] = [work[w] EXCEPT !.links = links, !.pairs = pairs]]
      BY <2>2
    <3>3. work \in [Workers -> Work]
      BY <1>0 DEF TypeOK
    <3>4. CASE work' = [work EXCEPT ![w] = [work[w] EXCEPT !.links = links]]
      BY <3>1, <3>3, <3>4
    <3>5. CASE work' = [work EXCEPT ![w] = [work[w] EXCEPT !.links = links, !.pairs = pairs]]
      <4>1. \A v \in Workers : work'[v] = IF v = w THEN [work[w] EXCEPT !.links = links, !.pairs = pairs] ELSE work[v]
        BY <3>3, <3>5
      <4> QED BY <3>1, <3>3, <4>1
    <3> QED BY <3>2, <3>4, <3>5
  <2>3. \A v \in Workers : work'[v].at = work[v].at
    <3>1. CASE ReadLinks(w)
      BY <2>2, <3>1 DEF ReadLinks
    <3>2. CASE ReadFolders(w)
      <4>1. PICK links : work' = [work EXCEPT ![w].links = links]
        BY <1>0, <3>2 DEF ReadFolders, TypeOK
      <4> QED BY <2>2, <4>1
    <3>3. CASE ReadCopies(w)
      <4>1. PICK pairs : work' = [work EXCEPT ![w].links = {}, ![w].pairs = pairs]
        BY <3>3 DEF ReadCopies
      <4> QED BY <2>2, <4>1
    <3> QED BY <1>3, <3>1, <3>2, <3>3
  <2> QED BY <1>1, <2>1, <2>3
<1>4. ASSUME NEW w \in Workers, CheckLink(w) PROVE LocksInv'
  <2>1. PICK p \in work[w].pairs : /\ LinkHolders(p[1]) = {}
               /\ share' = [share EXCEPT ![p[1]] = IF Subscribed(p[1]) THEN @ \union {w} ELSE @]
               /\ work' = [work EXCEPT ![w].pairs = @ \ {p}, ![w].at = IF Subscribed(p[1]) THEN p ELSE Nothing]
    BY <1>4 DEF CheckLink, CanShare
  <2>2. p \in Pairs /\ p[1] \in Links /\ work[w] \in Work
    BY <1>0 DEF TypeOK, Work, Pairs
  <2>3. UNCHANGED <<link, folder, copies, edit>>
    BY <1>4 DEF CheckLink
  <2>4. /\ \A v \in Workers : v # w => work'[v] = work[v]
        /\ work'[w].at = IF Subscribed(p[1]) THEN p ELSE Nothing
    BY <1>0, <2>1, <2>2 DEF TypeOK, Work
  <2>5. CASE ~Subscribed(p[1])
    <3>1. share' = share
      BY <1>0, <2>1, <2>5 DEF FoldersTypeOK
    <3> QED BY <2>3, <2>4, <2>5, <3>1, LocksKept
  <2>6. CASE Subscribed(p[1])
    <3>1. /\ share'[p[1]] = share[p[1]] \union {w}
          /\ \A l \in Links : l # p[1] => share'[l] = share[l]
      BY <1>0, <2>1, <2>2, <2>6 DEF FoldersTypeOK
    <3>2. EditsOrdered'
      <4>1. ASSUME NEW e \in Editors, Editing(e), NEW l \in edit[e].locked PROVE share'[l] = {}
        <5>1. l # p[1]
          BY <2>1, <4>1 DEF LinkHolders
        <5>2. l \in Links /\ share[l] = {}
          BY <4>1, EditFields, <1>0 DEF Edit, LocksInv, EditsOrdered
        <5> QED BY <3>1, <5>1, <5>2
      <4> QED BY <2>3, <4>1 DEF LocksInv, EditsOrdered, Editing
    <3>3. ChecksHold'
      <4>1. ASSUME NEW v \in Workers, NEW r \in Pairs, r = work'[v].at PROVE v \in share'[r[1]] /\ IsLive(r[1])
        <5>1. CASE v = w
          BY <2>4, <2>6, <3>1, <4>1, <5>1 DEF Subscribed
        <5>2. CASE v # w
          <6>1. v \in share[r[1]] /\ IsLive(r[1]) /\ r[1] \in Links
            BY <2>4, <4>1, <5>2 DEF LocksInv, ChecksHold, Pairs
          <6> QED BY <3>1, <6>1
        <5> QED BY <5>1, <5>2
      <4> QED BY <2>3, <4>1 DEF ChecksHold, IsLive
    <3>4. CopiesHeld'
      BY <2>3 DEF LocksInv, CopiesHeld, IsLive
    <3> QED BY <3>2, <3>3, <3>4 DEF LocksInv
  <2> QED BY <2>5, <2>6
<1>5. ASSUME NEW w \in Workers, InsertItem(w) PROVE LocksInv'
  <2>1. PICK p \in Pairs : p = work[w].at
    BY <1>0, <1>5 DEF InsertItem, TypeOK, Work
  <2>2. p[1] \in Links /\ IsLive(p[1])
    BY <2>1 DEF LocksInv, ChecksHold, Pairs
  <2>3. UNCHANGED <<link, folder, edit>> /\ share' = [share EXCEPT ![p[1]] = @ \ {w}]
        /\ work' = [work EXCEPT ![w].at = Nothing]
    BY <1>5, <2>1 DEF InsertItem
  <2>4. PICK text : copies' = [copies EXCEPT ![p] = Inserted(copies[p], text)]
    BY <1>5, <2>1 DEF InsertItem
  <2>5. /\ \A l \in Links : share'[l] \subseteq share[l]
        /\ \A v \in Workers, l \in Links : v # w /\ v \in share[l] => v \in share'[l]
        /\ \A v \in Workers : v # w => work'[v] = work[v]
        /\ work'[w].at = Nothing
    BY <1>0, <2>3 DEF FoldersTypeOK, TypeOK, Work
  <2>6. EditsOrdered'
    <3>1. ASSUME NEW e \in Editors, Editing(e), NEW l \in edit[e].locked PROVE share'[l] = {}
      <4>1. l \in Links /\ share[l] = {}
        BY <1>0, <3>1, EditFields DEF Edit, LocksInv, EditsOrdered
      <4> QED BY <2>5, <4>1
    <3> QED BY <2>3, <3>1 DEF LocksInv, EditsOrdered, Editing
  <2>7. ChecksHold'
    <3>1. ASSUME NEW v \in Workers, NEW r \in Pairs, r = work'[v].at PROVE v \in share'[r[1]] /\ IsLive(r[1])
      <4>1. v # w
        BY <2>5, <3>1, Windows
      <4>2. v \in share[r[1]] /\ IsLive(r[1]) /\ r[1] \in Links
        BY <2>5, <3>1, <4>1 DEF LocksInv, ChecksHold, Pairs
      <4> QED BY <2>5, <4>1, <4>2
    <3> QED BY <2>3, <3>1 DEF ChecksHold, IsLive
  <2>8. CopiesHeld'
    <3>1. Len(<<text>>) = 1 /\ (Inserted(copies[p], text) = copies[p] \/ Inserted(copies[p], text) = <<text>>)
      BY DEF Inserted
    <3>2. \A r \in Pairs : copies'[r] = IF r = p THEN Inserted(copies[p], text) ELSE copies[r]
      BY <1>0, <2>4 DEF FoldersTypeOK, Pairs
    <3> QED BY <2>2, <2>3, <3>1, <3>2 DEF LocksInv, CopiesHeld, IsLive
  <2> QED BY <2>6, <2>7, <2>8 DEF LocksInv
<1>6. ASSUME NEW w \in Workers, Finish(w) \/ Fail(w) \/ Crash(w) PROVE LocksInv'
  <2>1. Release(w) /\ UNCHANGED <<link, copies, edit>>
    BY <1>6 DEF Finish, Fail, Crash
  <2>2. share' = [l \in Links |-> share[l] \ {w}] /\ work' = [work EXCEPT ![w] = NoWork]
    BY <2>1 DEF Release
  <2>3. /\ work'[w].at = Nothing
        /\ \A v \in Workers : v # w => work'[v] = work[v] /\ \A l \in Links : v \in share[l] => v \in share'[l]
        /\ \A l \in Links : share'[l] \subseteq share[l]
    <3>1. work'[w].at = Nothing /\ \A v \in Workers : v # w => work'[v] = work[v]
      BY <1>0, <2>2, Empties DEF TypeOK
    <3>2. \A l \in Links : share'[l] \subseteq share[l] /\ \A v \in Workers : v # w /\ v \in share[l] => v \in share'[l]
      BY <2>2
    <3> QED BY <3>1, <3>2
  <2>4. ASSUME NEW v \in Workers
        PROVE  \/ work'[v].at = Nothing
               \/ work'[v].at = work[v].at /\ \A l \in Links : v \in share[l] => v \in share'[l]
    <3>1. CASE v = w
      BY <2>3, <3>1
    <3>2. CASE v # w
      BY <2>3, <3>2
    <3> QED BY <3>1, <3>2
  <2>5. UNCHANGED <<link, copies, edit>> /\ \A l \in Links : share'[l] \subseteq share[l]
    BY <2>1, <2>3
  <2> QED BY <2>4, <2>5, LocksKept
<1>7. CASE Tick
  BY <1>1, <1>7 DEF Tick
<1> QED BY <1>2, <1>3, <1>4, <1>5, <1>6, <1>7 DEF PollerNext, PollStep

(* ------------------------------ one poller --------------------------------- *)

\* The newest poll that runs is polling, and any other that runs is stale.
PollsOrdered ==
  \A w \in Workers : Running(w) => IF w = latest THEN poll[w].status = "polling" ELSE poll[w].age = Stale

LEMMA PollsKept ==
  ASSUME TypeOK, PollsOrdered, latest' = latest, NEW w \in Workers,
         ~Running(w)' \/ (Running(w) /\ poll'[w].status = poll[w].status /\ poll'[w].age = poll[w].age),
         \A v \in Workers : v # w => poll'[v] = poll[v]
  PROVE  PollsOrdered'
BY DEF PollsOrdered, Running

LEMMA PollsStep == TypeOK /\ PollsOrdered /\ [Next]_vars => PollsOrdered'
<1> SUFFICES ASSUME TypeOK, PollsOrdered, [Next]_vars PROVE PollsOrdered'
  OBVIOUS
<1>1. ASSUME NEW w \in Workers, NEW x \in Phases, poll' = [poll EXCEPT ![w].phase = x], latest' = latest,
             x \in {"idle", "listed"} \/ Running(w)
      PROVE  PollsOrdered'
  <2>1. ~Running(w)' \/ Running(w)
    BY <1>1, PhaseSet DEF Running
  <2> QED BY <1>1, <2>1, PhaseSet, PollsKept
<1>2. ASSUME NEW w \in Workers,
             \/ ListUrl(w) \/ Skip(w) \/ ItemsStored(w) \/ ReadLinks(w) \/ ReadFolders(w) \/ ReadCopies(w)
             \/ ItemsLinked(w) \/ \E listed \in SUBSET Entries : Fetch(w, listed)
      PROVE  PollsOrdered'
  <2>1. PICK x \in Phases : /\ poll' = [poll EXCEPT ![w].phase = x] /\ latest' = latest
                            /\ x \in {"idle", "listed"} \/ Running(w)
    BY <1>2 DEF ListUrl, Skip, ItemsStored, ReadLinks, ReadFolders, ReadCopies, ItemsLinked, Fetch, Phases, Running
  <2> QED BY <1>1, <2>1
<1>3. ASSUME NEW w \in Workers, Claim(w) PROVE PollsOrdered'
  <2>1. latest' = w /\ poll'[w].status = "polling"
    BY <1>3 DEF Claim, NoPoll
  <2>2. ASSUME NEW v \in Workers, v # w, Running(v)' PROVE poll'[v].age = Stale
    <3>1. CASE v # latest
      <4>1. poll'[v] = poll[v]
        BY <1>3, <2>2, <3>1 DEF Claim
      <4> QED BY <2>2, <3>1, <4>1 DEF PollsOrdered, Running
    <3>2. CASE v = latest
      <4>1. poll'[v] = Retire(poll[v]) /\ ~Blocking(poll[v]) /\ poll[v] \in Poll
        BY <1>3, <2>2, <3>2, Windows DEF Claim, Claimable, TypeOK
      <4>2. Running(v)
        <5>1. CASE poll[v].phase \in {"idle", "listed"}
          <6>1. poll'[v].phase = poll[v].phase
            BY <4>1, <5>1 DEF Retire, Poll
          <6> QED BY <2>2, <5>1, <6>1 DEF Running
        <5> QED BY <5>1 DEF Running
      <4>3. poll[v].status = "polling"
        BY <3>2, <4>2 DEF PollsOrdered
      <4>4. poll'[v].age = poll[v].age
        BY <4>1, <4>2, <4>3 DEF Retire, Running, Poll
      <4>5. poll[v].age = Stale
        BY <4>1, <4>3, Windows DEF Blocking, Poll
      <4> QED BY <4>4, <4>5
    <3> QED BY <3>1, <3>2
  <2> QED BY <2>1, <2>2 DEF PollsOrdered
<1>4. ASSUME NEW w \in Workers,
             \/ \E n \in Entries : StoreItem(w, n) \/ Parsed(w, n) \/ ParseFailed(w, n)
             \/ CheckLink(w) \/ InsertItem(w)
      PROVE  PollsOrdered'
  <2>1. UNCHANGED <<poll, latest>>
    BY <1>4 DEF StoreItem, Parsed, ParseFailed, CheckLink, InsertItem
  <2> QED BY <2>1 DEF PollsOrdered, Running
<1>5. ASSUME NEW w \in Workers,
             \/ Finish(w) \/ Fail(w) \/ Crash(w)
             \/ \E n \in Entries, batch \in SUBSET Entries : StoreFails(w, n, batch \ {n})
      PROVE  PollsOrdered'
  <2>1. PICK status : poll' = Ended(w, status)
    BY <1>5 DEF Finish, Fail, Crash, StoreFails
  <2>2. /\ poll'[w].phase = "idle" /\ \A v \in Workers : v # w => poll'[v] = poll[v]
    <3>1. poll' = [poll EXCEPT ![w] = IF w = latest THEN [poll[w] EXCEPT !.phase = "idle", !.status = status] ELSE NoPoll]
      BY <2>1 DEF Ended
    <3>2. [poll[w] EXCEPT !.phase = "idle", !.status = status].phase = "idle"
      BY DEF TypeOK, Poll
    <3> QED BY <3>1, <3>2, Empties DEF TypeOK
  <2>3. latest' = latest /\ ~Running(w)'
    BY <1>5, <2>2 DEF Finish, Fail, Crash, StoreFails, Running
  <2> QED BY <2>2, <2>3, PollsKept
<1>6. CASE Tick
  <2>1. ASSUME NEW w \in Workers
        PROVE  /\ poll'[w].phase = poll[w].phase /\ poll'[w].status = poll[w].status
               /\ poll[w].age = Stale => poll'[w].age = Stale
    <3>1. poll[w] \in Poll
      BY DEF TypeOK
    <3>2. PICK age : /\ poll'[w] = [poll[w] EXCEPT !.age = age]
                     /\ age = IF poll[w].age < Stale /\ poll[w].status # "none" THEN poll[w].age + 1 ELSE poll[w].age
      BY <1>6 DEF Tick
    <3>3. poll[w].age = Stale => age = Stale
      BY <3>2, Windows
    <3> QED BY <3>1, <3>2, <3>3 DEF Poll
  <2>2. latest' = latest
    BY <1>6 DEF Tick
  <2> QED BY <2>1, <2>2 DEF PollsOrdered, Running
<1>7. CASE UNCHANGED pollVars
  BY <1>7 DEF pollVars, PollsOrdered, Running
<1>8. CASE UNCHANGED vars
  BY <1>7, <1>8 DEF vars
<1> QED BY <1>2, <1>3, <1>4, <1>5, <1>6, <1>7, <1>8 DEF Next, PollerNext, PollStep

(* -------------------------------- theorems --------------------------------- *)

\* The state of the poller and of the folders has its type: no counter, backoff
\* or age leaves its range, and an edit or a worker holds rows that exist.
THEOREM RssTypeCorrect == Spec => []TypeOK
<1>1. RssTyped => TypeOK
  BY DEF RssTyped
<1> QED BY <1>1, InitTyped, RssTypedStep, PTL DEF Spec

LEMMA LocksStep == RssTyped /\ LocksInv /\ [Next]_vars => LocksInv'
<1> SUFFICES ASSUME RssTyped, LocksInv, [Next]_vars PROVE LocksInv'
  OBVIOUS
<1>1. CASE UNCHANGED vars
  <2>1. UNCHANGED <<link, copies, edit, share, work>>
    BY <1>1 DEF vars, folderVars, pollVars
  <2> QED BY <2>1 DEF LocksInv, EditsOrdered, ChecksHold, CopiesHeld, Editing, IsLive
<1> QED BY <1>1, FoldersLocks, PollerLocks DEF Next

LEMMA LocksAlways == Spec => [](RssTyped /\ LocksInv)
BY InitTyped, LocksInit, RssTypedStep, LocksStep, PTL DEF Spec

LEMMA PollsInit == Init => PollsOrdered
BY Empties DEF Init, PollsOrdered, Running

LEMMA PollsAlways == Spec => [](TypeOK /\ PollsOrdered)
<1>1. RssTyped => TypeOK
  BY DEF RssTyped
<1> QED BY <1>1, InitTyped, RssTypedStep, PollsInit, PollsStep, PTL DEF Spec

\* Two runs of pollUrl for one url overlap only when one of them has outlived
\* POLL_STALE_MS (claim), and an edit that locks links and then the folder
\* (update) never waits in a circle with an insert that locks the link and then
\* the folder (insertItemResource).
THEOREM WorkersAlwaysSound == Spec => []WorkersSound
<1>1. PollsOrdered => OnePoller
  BY DEF PollsOrdered, OnePoller
<1>2. RssTyped /\ LocksInv => NoDeadlock
  BY DEF LocksInv, EditsOrdered, NoDeadlock
<1> QED BY <1>1, <1>2, LocksAlways, PollsAlways, PTL DEF WorkersSound

\* However polls, takeovers, crashes, edits and trashings interleave, an article
\* has one copy at most under a subscription, and none under one that is gone:
\* the FOR SHARE of the link row orders the insert (insertItemResource) and the
\* removal (removeLink).
THEOREM CopiesStayHeld == Spec => [](SingleCopy /\ NoOrphanCopy)
<1>1. RssTyped /\ LocksInv => SingleCopy /\ NoOrphanCopy
  <2>1. ASSUME LocksInv, NEW p \in Pairs PROVE Len(copies[p]) <= 1
    <3>1. CASE copies[p] = <<>>
      BY <3>1
    <3>2. CASE copies[p] # <<>>
      <4>1. Len(copies[p]) = 1
        BY <2>1, <3>2 DEF LocksInv, CopiesHeld
      <4> QED BY <4>1
    <3> QED BY <3>1, <3>2
  <2> QED BY <2>1 DEF LocksInv, CopiesHeld, SingleCopy, NoOrphanCopy
<1> QED BY <1>1, LocksAlways, PTL

(* ------------------------- one text for each article ------------------------ *)

Settled(g) == SettledText(g) # Nothing /\ (g \in Bare => content[g].seen)

BareUnparsed == \A g \in Bare : content[g].parsed = Nothing

StoredSettled ==
  \A w \in Workers, n \in Entries :
    item[w][n].step = "stored" /\ item[w][n].body # Nothing /\ GuidOf[n] \notin contested
      => Settled(GuidOf[n]) /\ item[w][n].body = SettledText(GuidOf[n])

\* A parse of a poll began in its window and outlives at most one end of it.
Timely(w, n) ==
  /\ poll[w].phase \in {"storing", "idle"}
  /\ poll[w].phase = "storing" => poll[w].age <= Window /\ (item[w][n].late \/ poll[w].age < Window)

\* While a parse is under way no other text is stored, or the article is contested.
ParsesAlone ==
  \A w \in Workers, n \in Entries : item[w][n].step = "parsing" =>
    /\ Timely(w, n)
    /\ GuidOf[n] \notin Bare /\ (content[GuidOf[n]].parsed = Nothing \/ GuidOf[n] \in contested)

CopiesSettled ==
  \A p \in Pairs : p[2] \notin contested =>
    \A i \in 1..Len(copies[p]) : Settled(p[2]) /\ copies[p][i] = SettledText(p[2])

TextsInv == BareUnparsed /\ StoredSettled /\ ParsesAlone /\ CopiesSettled

LEMMA TextsInit == Init => TextsInv
<1> SUFFICES ASSUME Init PROVE TextsInv
  OBVIOUS
<1>1. \A g \in Guids : content[g].parsed = Nothing
  BY DEF Init, Unseen
<1>2. \A w \in Workers, n \in Entries : item[w][n].step = "absent"
  BY DEF Init, Absent
<1>3. \A p \in Pairs : copies[p] = <<>>
  BY DEF Init, FoldersInit, Pairs
<1> QED BY <1>1, <1>2, <1>3, PollAssumption DEF TextsInv, BareUnparsed, StoredSettled, ParsesAlone, CopiesSettled

LEMMA EntryGuid == \A n \in Entries : GuidOf[n] \in Guids
BY PollAssumption

\* A step that settles nothing.
LEMMA TextsSame ==
  ASSUME RssTyped, TextsInv,
         \A g \in Guids : /\ content'[g].seen = content[g].seen /\ content'[g].snapshot = content[g].snapshot
                          /\ content'[g].parsed = content[g].parsed,
         \A v \in Workers, m \in Entries :
           \/ item'[v][m].step \notin {"stored", "parsing"}
           \/ item'[v][m].step = "stored" /\ item'[v][m].body = Nothing
           \/ item'[v][m].step = item[v][m].step /\ item'[v][m].body = item[v][m].body,
         \A v \in Workers, m \in Entries : item'[v][m].step = "parsing" => Timely(v, m)',
         \A p \in Pairs : copies'[p] = <<>> \/ copies'[p] = copies[p], UNCHANGED contested
  PROVE  TextsInv'
<1>1. \A g \in Guids : (Settled(g) <=> Settled(g)') /\ SettledText(g)' = SettledText(g)
  BY DEF Settled, SettledText
<1>2. BareUnparsed'
  BY PollAssumption DEF TextsInv, BareUnparsed
<1>3. StoredSettled'
  <2>1. ASSUME NEW w \in Workers, NEW n \in Entries, item'[w][n].step = "stored", item'[w][n].body # Nothing,
               GuidOf[n] \notin contested
        PROVE  Settled(GuidOf[n])' /\ item'[w][n].body = SettledText(GuidOf[n])'
    <3>1. item[w][n].step = "stored" /\ item[w][n].body = item'[w][n].body
      BY <2>1
    <3>2. Settled(GuidOf[n]) /\ item[w][n].body = SettledText(GuidOf[n])
      BY <2>1, <3>1 DEF TextsInv, StoredSettled
    <3> QED BY <1>1, <3>1, <3>2, EntryGuid
  <2> QED BY <2>1 DEF StoredSettled
<1>4. ParsesAlone'
  <2>1. ASSUME NEW w \in Workers, NEW n \in Entries, item'[w][n].step = "parsing"
        PROVE  GuidOf[n] \notin Bare /\ (content'[GuidOf[n]].parsed = Nothing \/ GuidOf[n] \in contested)
    <3>1. item[w][n].step = "parsing"
      BY <2>1
    <3> QED BY <3>1, EntryGuid DEF TextsInv, ParsesAlone
  <2> QED BY <2>1 DEF ParsesAlone
<1>5. CopiesSettled'
  <2>1. ASSUME NEW p \in Pairs, p[2] \notin contested, NEW i \in 1..Len(copies'[p])
        PROVE  Settled(p[2])' /\ copies'[p][i] = SettledText(p[2])'
    <3>1. copies'[p] = copies[p]
      <4>1. CASE copies'[p] = <<>>
        BY <2>1, <4>1
      <4> QED BY <4>1
    <3>2. Settled(p[2]) /\ copies[p][i] = SettledText(p[2])
      BY <2>1, <3>1 DEF TextsInv, CopiesSettled
    <3>3. p[2] \in Guids
      BY DEF Pairs
    <3> QED BY <1>1, <3>1, <3>2, <3>3
  <2> QED BY <2>1 DEF CopiesSettled
<1> QED BY <1>2, <1>3, <1>4, <1>5 DEF TextsInv

\* A parse that goes on in an unchanged poll, or outlives its own.
LEMMA TextsAside ==
  ASSUME RssTyped, TextsInv, NEW w \in Workers, UNCHANGED <<content, contested>>,
         \A v \in Workers : v # w => item'[v] = item[v] /\ poll'[v] = poll[v],
         \A m \in Entries : \/ item'[w][m].step \notin {"stored", "parsing"}
                            \/ item'[w][m] = item[w][m] /\ (item[w][m].step = "parsing" => poll'[w].phase = "idle"),
         \A p \in Pairs : copies'[p] = <<>> \/ copies'[p] = copies[p]
  PROVE  TextsInv'
<1>1. ASSUME NEW v \in Workers, NEW m \in Entries
      PROVE  \/ item'[v][m].step \notin {"stored", "parsing"}
             \/ item'[v][m].step = item[v][m].step /\ item'[v][m].body = item[v][m].body
  BY <1>1
<1>2. ASSUME NEW v \in Workers, NEW m \in Entries, item'[v][m].step = "parsing"
      PROVE  Timely(v, m)'
  <2>1. CASE v = w
    <3>1. poll'[w].phase = "idle"
      BY <1>2, <2>1
    <3> QED BY <2>1, <3>1 DEF Timely
  <2>2. CASE v # w
    <3>1. item[v][m].step = "parsing" /\ item'[v] = item[v] /\ poll'[v] = poll[v]
      BY <1>2, <2>2
    <3> QED BY <3>1 DEF TextsInv, ParsesAlone, Timely
  <2> QED BY <2>1, <2>2
<1> QED BY <1>1, <1>2, TextsSame

\* Of the polls that go on only the newest parses.
LEMMA ParsingNewest ==
  ASSUME RssTyped, PollsOrdered, TextsInv, NEW w \in Workers, NEW n \in Entries, item[w][n].step = "parsing",
         n \notin Strays(w)
  PROVE  w = latest
<1>1. poll[w].phase = "storing"
  BY DEF TextsInv, ParsesAlone, Timely, Strays
<1>2. poll[w].age <= Window /\ poll[w].age \in 0..Stale
  BY <1>1 DEF TextsInv, ParsesAlone, Timely, RssTyped, TypeOK, Poll
<1>3. poll[w].age < Stale
  BY <1>2, Windows
<1> QED BY <1>1, <1>2, <1>3, Windows DEF PollsOrdered, Running

LEMMA FoldersTexts ==
  ASSUME RssTyped, TextsInv, FoldersNext, UNCHANGED pollVars
  PROVE  TextsInv'
<1>1. \A p \in Pairs : copies'[p] = <<>> \/ copies'[p] = copies[p]
  BY DEF FoldersNext, EditStep, BeginEdit, LockLink, LockFolder, CommitEdit, AbortEdit, TrashFolder, RestoreFolder, Pairs
<1>2. UNCHANGED <<content, poll, item, contested>>
  BY DEF pollVars
<1>3. \A v \in Workers, m \in Entries : item'[v][m].step = "parsing" => Timely(v, m)'
  BY <1>2 DEF TextsInv, ParsesAlone, Timely
<1> QED BY <1>1, <1>2, <1>3, TextsSame

\* The start of a poll's entry, which takes the text that is there or parses.
LEMMA StoreTexts ==
  ASSUME RssTyped, TextsInv, NEW w \in Workers, NEW n \in Entries, StoreItem(w, n)
  PROVE  TextsInv'
<1>0. TypeOK
  BY DEF RssTyped
<1>1. PICK g \in Guids : g = GuidOf[n]
  BY EntryGuid
<1>2. PICK c \in Content : c = Seen(content[g], item[w][n].body)
  BY <1>0 DEF TypeOK, Seen, Content, Item
<1>3. /\ c.seen /\ c.parsed = content[g].parsed
      /\ content[g].seen => c.snapshot = content[g].snapshot
  <2>1. content[g] \in Content
    BY <1>0 DEF TypeOK
  <2>2. CASE content[g].seen
    BY <1>2, <2>2 DEF Seen
  <2>3. CASE ~content[g].seen
    <3>1. c = [content[g] EXCEPT !.seen = TRUE, !.snapshot = item[w][n].body]
      BY <1>2, <2>3 DEF Seen
    <3>2. \A r \in Content : \A b : /\ [r EXCEPT !.seen = TRUE, !.snapshot = b].seen
                                    /\ [r EXCEPT !.seen = TRUE, !.snapshot = b].parsed = r.parsed
      BY DEF Content
    <3> QED BY <2>1, <2>3, <3>1, <3>2
  <2> QED BY <2>2, <2>3
<1>4. content' = [content EXCEPT ![g] = c]
  BY <1>1, <1>2 DEF StoreItem
<1>5. content'[g] = c /\ \A h \in Guids : h # g => content'[h] = content[h]
  BY <1>0, <1>4, ContentSet
<1>6. ASSUME NEW h \in Guids, Settled(h) PROVE Settled(h)' /\ SettledText(h)' = SettledText(h)
  BY <1>3, <1>5, <1>6 DEF Settled, SettledText
<1>7. BareUnparsed'
  BY <1>3, <1>5, PollAssumption DEF TextsInv, BareUnparsed
<1>8. CopiesSettled'
  <2>1. UNCHANGED <<copies, contested>>
    BY DEF StoreItem, folderVars
  <2> QED BY <1>6, <2>1 DEF TextsInv, CopiesSettled, Pairs
<1>9. PICK settled \in Body : settled = IF g \in Bare /\ c.parsed = Nothing THEN c.snapshot ELSE c.parsed
  BY DEF Content
<1>10. PICK r \in Item : /\ item' = [item EXCEPT ![w][n] = r]
                         /\ \/ r.step = "parsing" /\ g \notin Bare /\ c.parsed = Nothing
                            \/ r.step = "stored" /\ r.body = settled
                            \/ r.step = "absent"
  <2>1. [step |-> "parsing", body |-> Nothing, attempts |-> c.attempts, late |-> FALSE] \in Item
    BY DEF Content, Item, Body
  <2>2. /\ Stored(w, n, settled) \in Item
        /\ \/ Stored(w, n, settled).step = "absent"
           \/ Stored(w, n, settled).step = "stored" /\ Stored(w, n, settled).body = settled
    BY StoredItem
  <2>3. CASE g \notin Bare /\ Due(c)
    <3>1. item' = [item EXCEPT ![w][n] = [step |-> "parsing", body |-> Nothing, attempts |-> c.attempts, late |-> FALSE]]
      BY <1>1, <1>2, <2>3 DEF StoreItem
    <3> QED BY <2>1, <2>3, <3>1 DEF Due
  <2>4. CASE ~(g \notin Bare /\ Due(c))
    <3>1. item' = [item EXCEPT ![w][n] = Stored(w, n, settled)]
      BY <1>1, <1>2, <1>9, <2>4 DEF StoreItem
    <3> QED BY <2>2, <3>1
  <2> QED BY <2>3, <2>4
<1>11. item'[w][n] = r /\ \A v \in Workers, m \in Entries : v # w \/ m # n => item'[v][m] = item[v][m]
  BY <1>0, <1>10 DEF TypeOK
<1>12. StoredSettled'
  <2>1. ASSUME NEW v \in Workers, NEW m \in Entries, item'[v][m].step = "stored", item'[v][m].body # Nothing,
               GuidOf[m] \notin contested
        PROVE  Settled(GuidOf[m])' /\ item'[v][m].body = SettledText(GuidOf[m])'
    <3>1. CASE v = w /\ m = n
      <4>1. r.body = settled /\ settled # Nothing
        BY <1>10, <1>11, <2>1, <3>1
      <4>2. settled = IF g \in Bare THEN c.snapshot ELSE c.parsed
        BY <1>3, <1>9, <1>7, <1>5 DEF BareUnparsed
      <4>3. Settled(g)' /\ SettledText(g)' = settled
        BY <1>3, <1>5, <4>1, <4>2 DEF Settled, SettledText
      <4> QED BY <1>1, <1>11, <3>1, <4>1, <4>3
    <3>2. CASE v # w \/ m # n
      <4>1. item'[v][m] = item[v][m]
        BY <1>11, <3>2
      <4>2. Settled(GuidOf[m]) /\ item[v][m].body = SettledText(GuidOf[m])
        BY <2>1, <4>1 DEF TextsInv, StoredSettled
      <4> QED BY <1>6, <4>1, <4>2, EntryGuid
    <3> QED BY <3>1, <3>2
  <2>2. UNCHANGED contested
    BY DEF StoreItem
  <2> QED BY <2>1, <2>2 DEF StoredSettled
<1>13. ParsesAlone'
  <2>1. /\ UNCHANGED <<poll, contested>> /\ poll[w].phase \in {"storing", "idle"}
        /\ poll[w].phase = "storing" => poll[w].age < Window /\ poll[w].age \in Nat
    BY <1>0 DEF StoreItem, Storing, Strays, BeforeDeadline, TypeOK, Poll
  <2>2. ASSUME NEW v \in Workers, NEW m \in Entries, item'[v][m].step = "parsing"
        PROVE  /\ Timely(v, m)'
               /\ GuidOf[m] \notin Bare /\ (content'[GuidOf[m]].parsed = Nothing \/ GuidOf[m] \in contested)
    <3>1. CASE v = w /\ m = n
      <4>1. g \notin Bare /\ c.parsed = Nothing
        BY <1>10, <1>11, <2>2, <3>1
      <4>2. poll[w].phase = "storing" => poll[w].age <= Window /\ poll[w].age < Window
        BY <2>1, Windows
      <4>3. Timely(v, m)'
        BY <2>1, <3>1, <4>2 DEF Timely
      <4> QED BY <1>1, <1>5, <3>1, <4>1, <4>3
    <3>2. CASE v # w \/ m # n
      <4>1. item'[v][m] = item[v][m]
        BY <1>11, <3>2
      <4>2. /\ Timely(v, m)
            /\ GuidOf[m] \notin Bare /\ (content[GuidOf[m]].parsed = Nothing \/ GuidOf[m] \in contested)
        BY <2>2, <4>1 DEF TextsInv, ParsesAlone
      <4>3. content'[GuidOf[m]].parsed = content[GuidOf[m]].parsed
        BY <1>3, <1>5, EntryGuid
      <4>4. Timely(v, m)'
        BY <2>1, <4>1, <4>2 DEF Timely
      <4> QED BY <4>2, <4>3, <4>4
    <3> QED BY <3>1, <3>2
  <2> QED BY <2>1, <2>2 DEF ParsesAlone
<1> QED BY <1>7, <1>8, <1>12, <1>13 DEF TextsInv

\* The end of a parse, which gives the article its text.
LEMMA ParsedTexts ==
  ASSUME RssTyped, PollsOrdered, TextsInv, NEW w \in Workers, NEW n \in Entries, Parsed(w, n)
  PROVE  TextsInv'
<1>0. TypeOK
  BY DEF RssTyped
<1>1. PICK g \in Guids : g = GuidOf[n]
  BY EntryGuid
<1>2. /\ g \notin Bare /\ (content[g].parsed = Nothing \/ g \in contested) /\ content[g] \in Content
      /\ item[w][n].step = "parsing"
  BY <1>0, <1>1 DEF TextsInv, ParsesAlone, Parsed, TypeOK
<1>3. PICK text \in Bodies : /\ content' = [content EXCEPT ![g] = [content[g] EXCEPT !.parsed = text, !.wait = 0]]
                             /\ item' = [item EXCEPT ![w][n] = Stored(w, n, text)]
  BY <1>0, <1>1 DEF Parsed, TypeOK
<1>4. /\ content'[g].parsed = text /\ \A h \in Guids : h # g => content'[h] = content[h]
  <2>1. \A r \in Content : [r EXCEPT !.parsed = text, !.wait = 0].parsed = text
    BY DEF Content
  <2> QED BY <1>0, <1>2, <1>3, <2>1 DEF TypeOK
<1>5. Settled(g)' /\ SettledText(g)' = text
  BY <1>2, <1>4, Windows DEF Settled, SettledText
<1>6. /\ contested \subseteq contested' /\ (Rival(w, n) => g \in contested')
  BY <1>1 DEF Parsed
<1>7. ASSUME NEW h \in Guids, h \notin contested', Settled(h) PROVE Settled(h)' /\ SettledText(h)' = SettledText(h)
  <2>1. CASE h = g
    BY <1>2, <1>6, <1>7, <2>1 DEF Settled, SettledText
  <2>2. CASE h # g
    BY <1>4, <1>7, <2>2 DEF Settled, SettledText
  <2> QED BY <2>1, <2>2
<1>8. BareUnparsed'
  BY <1>2, <1>4, PollAssumption DEF TextsInv, BareUnparsed
<1>9. CopiesSettled'
  <2>1. UNCHANGED copies
    BY DEF Parsed, folderVars
  <2>2. ASSUME NEW p \in Pairs, p[2] \notin contested', NEW i \in 1..Len(copies[p])
        PROVE  Settled(p[2])' /\ copies[p][i] = SettledText(p[2])'
    <3>1. p[2] \in Guids /\ p[2] \notin contested
      BY <1>6, <2>2 DEF Pairs
    <3>2. Settled(p[2]) /\ copies[p][i] = SettledText(p[2])
      BY <2>2, <3>1 DEF TextsInv, CopiesSettled
    <3> QED BY <1>7, <2>2, <3>1, <3>2
  <2> QED BY <2>1, <2>2 DEF CopiesSettled
<1>10. PICK r \in Item : /\ item' = [item EXCEPT ![w][n] = r]
                         /\ r.step = "absent" \/ (r.step = "stored" /\ r.body = text)
  <2>1. /\ Stored(w, n, text) \in Item
        /\ Stored(w, n, text).step = "absent" \/ (Stored(w, n, text).step = "stored" /\ Stored(w, n, text).body = text)
    <3>1. text \in Body
      BY DEF Body
    <3> QED BY <3>1, StoredItem
  <2>2. item' = [item EXCEPT ![w][n] = Stored(w, n, text)]
    BY <1>3
  <2> QED BY <2>1, <2>2
<1>11. item'[w][n] = r /\ \A v \in Workers, m \in Entries : v # w \/ m # n => item'[v][m] = item[v][m]
  BY <1>0, <1>10 DEF TypeOK
<1>12. StoredSettled'
  <2>1. ASSUME NEW v \in Workers, NEW m \in Entries, item'[v][m].step = "stored", item'[v][m].body # Nothing,
               GuidOf[m] \notin contested'
        PROVE  Settled(GuidOf[m])' /\ item'[v][m].body = SettledText(GuidOf[m])'
    <3>1. CASE v = w /\ m = n
      BY <1>1, <1>5, <1>10, <1>11, <2>1, <3>1
    <3>2. CASE v # w \/ m # n
      <4>1. item'[v][m] = item[v][m]
        BY <1>11, <3>2
      <4>2. Settled(GuidOf[m]) /\ item[v][m].body = SettledText(GuidOf[m])
        BY <1>6, <2>1, <4>1 DEF TextsInv, StoredSettled
      <4> QED BY <1>7, <2>1, <4>1, <4>2, EntryGuid
    <3> QED BY <3>1, <3>2
  <2> QED BY <2>1 DEF StoredSettled
<1>13. ParsesAlone'
  <2>1. poll' = poll
    BY DEF Parsed
  <2>2. ASSUME NEW v \in Workers, NEW m \in Entries, item'[v][m].step = "parsing"
        PROVE  /\ Timely(v, m)'
               /\ GuidOf[m] \notin Bare /\ (content'[GuidOf[m]].parsed = Nothing \/ GuidOf[m] \in contested')
    <3>1. v # w \/ m # n
      BY <1>10, <1>11, <2>2
    <3>2. item'[v][m] = item[v][m]
      BY <1>11, <3>1
    <3>3. Timely(v, m)' /\ GuidOf[m] \notin Bare /\ (content[GuidOf[m]].parsed = Nothing \/ GuidOf[m] \in contested)
      BY <2>1, <2>2, <3>2 DEF TextsInv, ParsesAlone, Timely
    <3>4. CASE GuidOf[m] # g
      BY <1>4, <1>6, <3>3, <3>4, EntryGuid
    <3>5. CASE GuidOf[m] = g
      <4>1. SUFFICES ASSUME ~Rival(w, n) PROVE FALSE
        BY <1>6, <3>3, <3>5
      <4>2. item[v][m].step = "parsing" /\ <<v, m>> # <<w, n>>
        BY <2>2, <3>1, <3>2
      <4>3. v # w /\ n \notin Strays(w) /\ m \notin Strays(v)
        BY <1>1, <3>5, <4>1, <4>2 DEF Rival
      <4> QED BY <1>2, <4>2, <4>3, ParsingNewest
    <3> QED BY <3>3, <3>4, <3>5
  <2> QED BY <2>1, <2>2 DEF ParsesAlone
<1> QED BY <1>8, <1>9, <1>12, <1>13 DEF TextsInv

\* The insert of a copy with the text the poll settled.
LEMMA InsertTexts ==
  ASSUME RssTyped, TextsInv, NEW w \in Workers, InsertItem(w)
  PROVE  TextsInv'
<1>0. TypeOK /\ FoldersTypeOK
  BY DEF RssTyped, TypeOK
<1>1. PICK p \in Pairs : p = work[w].at
  BY <1>0 DEF InsertItem, TypeOK, Work
<1>2. Settles(w, p[2])
  BY <1>1 DEF RssTyped, WorkSettled
<1>3. PICK n \in Entries : n = EntryOf(w, p[2]) /\ GuidOf[n] = p[2] /\ item[w][n].step = "stored" /\ item[w][n].body \in Bodies
  BY <1>2, SettledEntry
<1>4. p[2] \notin contested => Settled(p[2]) /\ item[w][n].body = SettledText(p[2])
  BY <1>3, Windows DEF TextsInv, StoredSettled
<1>5. UNCHANGED <<content, poll, item, contested>>
  BY DEF InsertItem
<1>6. copies' = [copies EXCEPT ![p] = Inserted(copies[p], item[w][n].body)]
  BY <1>1, <1>3 DEF InsertItem
<1>7. \A r \in Pairs : copies'[r] = IF r = p THEN Inserted(copies[p], item[w][n].body) ELSE copies[r]
  BY <1>0, <1>6 DEF FoldersTypeOK, Pairs
<1>8. ASSUME NEW r \in Pairs, r[2] \notin contested, NEW i \in 1..Len(copies'[r])
      PROVE  Settled(r[2]) /\ copies'[r][i] = SettledText(r[2])
  <2>1. CASE copies'[r] = copies[r]
    BY <1>8, <2>1 DEF TextsInv, CopiesSettled
  <2>2. CASE copies'[r] # copies[r]
    <3>1. r = p /\ copies'[r] = <<item[w][n].body>>
      BY <1>7, <2>2 DEF Inserted
    <3>2. i = 1
      BY <1>8, <3>1
    <3> QED BY <1>4, <1>8, <3>1, <3>2
  <2> QED BY <2>1, <2>2
<1>9. CopiesSettled'
  BY <1>5, <1>8 DEF CopiesSettled, Settled, SettledText
<1>10. BareUnparsed' /\ StoredSettled' /\ ParsesAlone'
  BY <1>5 DEF TextsInv, BareUnparsed, StoredSettled, ParsesAlone, Timely, Settled, SettledText
<1> QED BY <1>9, <1>10 DEF TextsInv

LEMMA PollerTexts ==
  ASSUME RssTyped, PollsOrdered, TextsInv, PollerNext
  PROVE  TextsInv'
<1>0. TypeOK
  BY DEF RssTyped
<1>1. ASSUME NEW w \in Workers,
             \/ ListUrl(w) \/ Skip(w) \/ ItemsStored(w) \/ ReadLinks(w) \/ ReadFolders(w) \/ ReadCopies(w) \/ ItemsLinked(w)
      PROVE  TextsInv'
  <2>1. UNCHANGED <<content, item, copies, contested>>
    BY <1>1 DEF ListUrl, Skip, ItemsStored, ReadLinks, ReadFolders, ReadCopies, ItemsLinked, folderVars
  <2>2. PICK x \in Phases : poll' = [poll EXCEPT ![w].phase = x]
    BY <1>1 DEF ListUrl, Skip, ItemsStored, ReadLinks, ReadFolders, ReadCopies, ItemsLinked, Phases
  <2>3. \A v \in Workers : v # w => poll'[v] = poll[v]
    BY <1>0, <2>2, PhaseSet
  <2>4. \A m \in Entries : item[w][m].step # "parsing"
    <3>1. CASE poll[w].phase = "storing"
      BY <1>1, <3>1 DEF ListUrl, Skip, ItemsStored, ReadLinks, ReadFolders, ReadCopies, ItemsLinked
    <3>2. CASE poll[w].phase = "idle"
      BY <1>1, <3>2 DEF ListUrl, Skip, ItemsStored, ReadLinks, ReadFolders, ReadCopies, ItemsLinked, Strays
    <3>3. CASE poll[w].phase \notin {"storing", "idle"}
      BY <3>3 DEF TextsInv, ParsesAlone, Timely
    <3> QED BY <3>1, <3>2, <3>3
  <2> QED BY <2>1, <2>3, <2>4, TextsAside
<1>2. ASSUME NEW w \in Workers, Claim(w) PROVE TextsInv'
  <2>1. UNCHANGED <<content, item, copies, contested>>
    BY <1>2 DEF Claim, folderVars
  <2>2. ASSUME NEW v \in Workers, NEW m \in Entries, item[v][m].step = "parsing" PROVE Timely(v, m)'
    <3>1. Timely(v, m)
      BY <2>2 DEF TextsInv, ParsesAlone
    <3>2. v # w
      BY <1>2, <3>1 DEF Claim, Timely
    <3>3. poll'[v] = IF v = latest THEN Retire(poll[v]) ELSE poll[v]
      BY <1>2, <3>2 DEF Claim
    <3>4. poll[v] \in Poll
      BY <1>0 DEF TypeOK
    <3>5. /\ Retire(poll[v]).phase = poll[v].phase
          /\ poll[v].phase = "storing" => Retire(poll[v]).age = poll[v].age
      BY <3>4 DEF Retire, Poll
    <3> QED BY <2>1, <3>1, <3>3, <3>5 DEF Timely
  <2> QED BY <2>1, <2>2, TextsSame
<1>3. ASSUME NEW w \in Workers, NEW listed \in SUBSET Entries, Fetch(w, listed) PROVE TextsInv'
  <2>1. PICK text \in [listed -> Bodies] :
          item' = [item EXCEPT ![w] = [n \in Entries |->
            IF n \in listed
            THEN [Absent EXCEPT !.step = "listed", !.body = IF GuidOf[n] \in Bare THEN text[n] ELSE @]
            ELSE Absent]]
    BY <1>3 DEF Fetch
  <2>2. \A b : [Absent EXCEPT !.step = "listed", !.body = b].step = "listed"
    BY DEF Absent
  <2>3. /\ \A m \in Entries : item'[w][m].step \notin {"stored", "parsing"}
        /\ \A v \in Workers : v # w => item'[v] = item[v]
    BY <1>0, <2>1, <2>2, Empties DEF TypeOK
  <2>4. \A v \in Workers : v # w => poll'[v] = poll[v]
    BY <1>0, <1>3, PhaseSet DEF Fetch, Phases
  <2>5. UNCHANGED <<content, copies, contested>>
    BY <1>3 DEF Fetch, folderVars
  <2> QED BY <2>3, <2>4, <2>5, TextsAside
<1>4. ASSUME NEW w \in Workers, NEW n \in Entries, ParseFailed(w, n) PROVE TextsInv'
  <2>1. PICK g \in Guids : g = GuidOf[n]
    BY EntryGuid
  <2>2. PICK tried, wait : content' = [content EXCEPT ![g] = [content[g] EXCEPT !.attempts = tried, !.wait = wait]]
    <3>1. PICK tried : tried = Attempted(item[w][n].attempts)
      OBVIOUS
    <3>2. content' = [content EXCEPT ![g] = [content[g] EXCEPT !.attempts = tried, !.wait = Backoff(tried)]]
      BY <1>0, <1>4, <2>1, <3>1 DEF ParseFailed, TypeOK
    <3> QED BY <3>2
  <2>3. \A h \in Guids : /\ content'[h].seen = content[h].seen /\ content'[h].snapshot = content[h].snapshot
                         /\ content'[h].parsed = content[h].parsed
    <3>1. \A c \in Content : /\ [c EXCEPT !.attempts = tried, !.wait = wait].seen = c.seen
                             /\ [c EXCEPT !.attempts = tried, !.wait = wait].snapshot = c.snapshot
                             /\ [c EXCEPT !.attempts = tried, !.wait = wait].parsed = c.parsed
      BY DEF Content
    <3>2. \A h \in Guids : content[h] \in Content
      BY <1>0 DEF TypeOK
    <3>3. \A h \in Guids : content'[h] = IF h = g THEN [content[g] EXCEPT !.attempts = tried, !.wait = wait] ELSE content[h]
      BY <1>0, <2>2 DEF TypeOK
    <3> QED BY <3>1, <3>2, <3>3, ZenonT(40)
  <2>4. PICK r \in Item : /\ r.step = "absent" \/ (r.step = "stored" /\ r.body = Nothing)
                          /\ item' = [item EXCEPT ![w][n] = r]
    <3>1. item' = [item EXCEPT ![w][n] = Stored(w, n, Nothing)] /\ Nothing \in Body
      BY <1>4 DEF ParseFailed, Body
    <3> QED BY <3>1, StoredItem
  <2>5. item'[w][n] = r /\ \A v \in Workers, m \in Entries : v # w \/ m # n => item'[v][m] = item[v][m]
    BY <1>0, <2>4 DEF TypeOK
  <2>6. UNCHANGED <<poll, copies, contested>>
    BY <1>4 DEF ParseFailed, folderVars
  <2>7. ASSUME NEW v \in Workers, NEW m \in Entries
        PROVE  \/ item'[v][m].step = "absent"
               \/ item'[v][m].step = "stored" /\ item'[v][m].body = Nothing
               \/ item'[v][m] = item[v][m]
    BY <2>4, <2>5
  <2>8. ASSUME NEW v \in Workers, NEW m \in Entries, item'[v][m].step = "parsing"
        PROVE  Timely(v, m)'
    BY <2>6, <2>7, <2>8 DEF TextsInv, ParsesAlone, Timely
  <2> QED BY <2>3, <2>6, <2>7, <2>8, TextsSame
<1>5. ASSUME NEW w \in Workers, CheckLink(w) PROVE TextsInv'
  <2>1. UNCHANGED <<content, item, copies, poll, contested>>
    BY <1>5 DEF CheckLink
  <2>2. \A v \in Workers, m \in Entries : item'[v][m].step = "parsing" => Timely(v, m)'
    BY <2>1 DEF TextsInv, ParsesAlone, Timely
  <2> QED BY <2>1, <2>2, TextsSame
<1>6. ASSUME NEW w \in Workers, Finish(w) \/ Fail(w) \/ Crash(w) PROVE TextsInv'
  <2>1. /\ item' = [item EXCEPT ![w] = [n \in Entries |-> Absent]]
        /\ UNCHANGED <<content, copies, contested>>
    BY <1>6 DEF Finish, Fail, Crash, Release
  <2>2. \A v \in Workers : v # w => poll'[v] = poll[v]
    BY <1>0, <1>6 DEF Finish, Fail, Crash, Ended, TypeOK
  <2>3. /\ \A m \in Entries : item'[w][m].step = "absent"
        /\ \A v \in Workers : v # w => item'[v] = item[v]
    BY <1>0, <2>1, Empties DEF TypeOK
  <2> QED BY <2>1, <2>2, <2>3, TextsAside
<1>7. CASE Tick
  <2>1. ASSUME NEW g \in Guids
        PROVE  /\ content'[g].seen = content[g].seen /\ content'[g].snapshot = content[g].snapshot
               /\ content'[g].parsed = content[g].parsed
    <3>1. PICK wait : content'[g] = [content[g] EXCEPT !.wait = wait]
      BY <1>7 DEF Tick
    <3>2. content[g] \in Content
      BY <1>0 DEF TypeOK
    <3> QED BY <3>1, <3>2 DEF Content
  <2>2. ASSUME NEW w \in Workers, NEW n \in Entries
        PROVE  /\ item'[w][n].step = item[w][n].step /\ item'[w][n].body = item[w][n].body
               /\ item[w][n].step = "parsing" => item'[w][n].late
    <3>1. PICK late \in BOOLEAN : late = (item[w][n].step = "parsing")
      OBVIOUS
    <3>2. item'[w][n] = [item[w][n] EXCEPT !.late = late]
      BY <1>7, <3>1 DEF Tick
    <3>3. item[w][n] \in Item
      BY <1>0 DEF TypeOK
    <3>4. \A i \in Item : /\ [i EXCEPT !.late = late].step = i.step /\ [i EXCEPT !.late = late].body = i.body
                          /\ [i EXCEPT !.late = late].late = late
      BY DEF Item
    <3> QED BY <3>1, <3>2, <3>3, <3>4
  <2>3. ASSUME NEW w \in Workers
        PROVE  poll'[w].phase = poll[w].phase /\ (poll[w].age < Window => poll'[w].age <= Window)
    <3>1. poll[w] \in Poll /\ poll[w].age \in 0..Stale
      BY <1>0 DEF TypeOK, Poll
    <3>2. PICK age : /\ poll'[w] = [poll[w] EXCEPT !.age = age]
                     /\ age = IF poll[w].age < Stale /\ poll[w].status # "none" THEN poll[w].age + 1 ELSE poll[w].age
      BY <1>7 DEF Tick
    <3>3. poll[w].age < Window => age <= Window
      BY <3>1, <3>2, Windows
    <3> QED BY <3>1, <3>2, <3>3 DEF Poll
  <2>4. ASSUME NEW w \in Workers, NEW n \in Entries, item'[w][n].step = "parsing"
        PROVE  Timely(w, n)'
    <3>1. item[w][n].step = "parsing" /\ item'[w][n].late
      BY <2>2, <2>4
    <3>2. ~item[w][n].late
      BY <1>7 DEF Tick
    <3>3. poll[w].phase \in {"storing", "idle"} /\ (poll[w].phase = "storing" => poll[w].age < Window)
      BY <3>1, <3>2 DEF TextsInv, ParsesAlone, Timely
    <3> QED BY <2>3, <3>1, <3>3 DEF Timely
  <2>5. UNCHANGED <<copies, contested>>
    BY <1>7 DEF Tick, folderVars
  <2> QED BY <2>1, <2>2, <2>4, <2>5, TextsSame
<1>8. ASSUME NEW w \in Workers, NEW n \in Entries, NEW batch, StoreFails(w, n, batch) PROVE TextsInv'
  <2>1. PICK status \in {"none", "polling", "failed", "succeed"} : poll' = Ended(w, status)
    BY <1>0, <1>8 DEF StoreFails, TypeOK, Poll
  <2>2. poll'[w].phase = "idle" /\ \A v \in Workers : v # w => poll'[v] = poll[v]
    BY <1>0, <2>1, EndedPoll
  <2>3. UNCHANGED <<content, copies, contested>>
    BY <1>8 DEF StoreFails, folderVars
  <2>4. /\ \A v \in Workers : v # w => item'[v] = item[v]
        /\ \A m \in Entries : item'[w][m].step = "absent" \/ item'[w][m] = item[w][m]
    BY <1>0, <1>8, FailedItems
  <2> QED BY <2>2, <2>3, <2>4, TextsAside
<1> QED BY <1>1, <1>2, <1>3, <1>4, <1>5, <1>6, <1>7, <1>8, StoreTexts, ParsedTexts, InsertTexts DEF PollerNext, PollStep

LEMMA TextsStep == RssTyped /\ PollsOrdered /\ TextsInv /\ [Next]_vars => TextsInv'
<1> SUFFICES ASSUME RssTyped, PollsOrdered, TextsInv, [Next]_vars PROVE TextsInv'
  OBVIOUS
<1>1. CASE UNCHANGED vars
  <2>1. UNCHANGED <<content, item, copies, poll, contested>>
    BY <1>1 DEF vars, folderVars, pollVars
  <2> QED BY <2>1 DEF TextsInv, BareUnparsed, StoredSettled, ParsesAlone, Timely, CopiesSettled, Settled, SettledText
<1> QED BY <1>1, FoldersTexts, PollerTexts DEF Next

\* All copies of an article, of this poll or a later one and under any
\* subscription, have the one text that settled it (the comment of
\* parseItemContent), unless two entries of one fetch were parsed at once, or a
\* parse that a failed poll left behind (storeItems) and another: a parse cannot
\* outlive the claim of a poll that goes on, so two such never parse at once.
THEOREM CopiesAlwaysSound == Spec => []CopiesSound
<1>1. TextsInv => CopiesAgree
  BY DEF TextsInv, CopiesSettled, CopiesAgree, Agree
<1>2. Init => TextsInv
  BY TextsInit
<1>3. RssTyped /\ PollsOrdered /\ TextsInv /\ [Next]_vars => TextsInv'
  BY TextsStep
<1> QED BY <1>1, <1>2, <1>3, LocksAlways, PollsAlways, CopiesStayHeld, PTL DEF Spec, CopiesSound
====
