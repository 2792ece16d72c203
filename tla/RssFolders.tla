----------------------------- MODULE RssFolders -----------------------------
(* The feed folders and their subscriptions to one feed url, and the         *)
(* transaction that edits a folder (src/src/rss/rss-folders.service.ts).     *)
(*                                                                           *)
(* A row of rss_links is a slot of Links; its row lock is a pair: the        *)
(* pollers that hold it FOR SHARE (share) and the edits that hold it FOR     *)
(* UPDATE (the locks of edit).  Positions and names of links, and the edits  *)
(* of a folder's other urls, are left out: they change nothing of this url's *)
(* subscriptions.                                                            *)
EXTENDS Naturals, FiniteSets, Sequences

CONSTANTS Links,     \* rows of rss_links with this url, past and present
          Folders,   \* rss folder resources
          Editors,   \* concurrent requests that edit a folder
          Workers,   \* pollers, see RssPolling
          Guids,     \* articles of the feed
          Bodies     \* texts an article can have

CONSTANTS Unused     \* a link slot that holds no row, or an idle editor

VARIABLES link,      \* the rows of rss_links
          folder,    \* is the folder resource live or trashed
          copies,    \* the live rss_item resources of each (link, guid)
          share,     \* the pollers that hold the link row FOR SHARE
          edit       \* the edit in progress of each editor

folderVars == <<link, folder, copies, share, edit>>

Link == [state : {"live", "retired"}, folder : Folders] \union {Unused}

\* An edit between its read of the folder's links and its commit: the links it
\* will remove, whether it inserts one, whether it renames the folder, and the
\* rows it has locked.
Edit == [folder : Folders, drop : SUBSET Links, add : BOOLEAN, rename : BOOLEAN,
         locked : SUBSET Links, holdsFolder : BOOLEAN]

IsLive(l) == link[l] # Unused /\ link[l].state = "live"

LiveLinks == {l \in Links : IsLive(l)}

\* A folder is created with the url among its own, or without it.
FoldersInit ==
  /\ link \in [Links -> {[state |-> "live", folder |-> f] : f \in Folders} \union {Unused}]
  /\ \A l, m \in Links : link[l] = link[m] /\ link[l] # Unused => l = m
  /\ folder = [f \in Folders |-> "live"]
  /\ copies = [p \in Links \X Guids |-> <<>>]
  /\ share = [l \in Links |-> {}]
  /\ edit = [e \in Editors |-> Unused]

Editing(e) == edit[e] # Unused

LinkHolders(l) == {e \in Editors : Editing(e) /\ l \in edit[e].locked}
FolderHolders(f) == {e \in Editors : Editing(e) /\ edit[e].folder = f /\ edit[e].holdsFolder}

\* The transaction begins: it reads the links of the folder without a lock and
\* reconciles them by url.  When the new config keeps the url the first row is
\* reused and its duplicates go, otherwise every row goes.
BeginEdit(e) ==
  /\ ~Editing(e)
  /\ \E f \in Folders, keep \in BOOLEAN, rename \in BOOLEAN :
       LET mine == {l \in LiveLinks : link[l].folder = f}
       IN /\ folder[f] = "live"
          /\ \E reused \in IF keep /\ mine # {} THEN {{l} : l \in mine} ELSE {{}} :
               edit' = [edit EXCEPT ![e] =
                 [folder |-> f, drop |-> mine \ reused, add |-> keep /\ mine = {},
                  rename |-> rename, locked |-> {}, holdsFolder |-> FALSE]]
  /\ UNCHANGED <<link, folder, copies, share>>

\* removeLink takes the row FOR UPDATE before it reads the link's items.
CanLockShared(e, l) == LinkHolders(l) \subseteq {e}
CanLock(e, l) == share[l] = {} /\ LinkHolders(l) \subseteq {e}

LockLink(e) ==
  /\ Editing(e)
  /\ \E l \in edit[e].drop \ edit[e].locked :
       /\ CanLock(e, l)
       /\ edit' = [edit EXCEPT ![e].locked = @ \union {l}]
  /\ UNCHANGED <<link, folder, copies, share>>

\* The rename takes the folder row FOR UPDATE, after the links.
FolderFirst(e) == TRUE
LinksDone(e) == edit[e].drop \subseteq edit[e].locked

LockFolder(e) ==
  /\ Editing(e) /\ edit[e].rename /\ ~edit[e].holdsFolder
  /\ LinksDone(e)
  /\ FolderHolders(edit[e].folder) = {}
  /\ folder[edit[e].folder] = "live"
  /\ edit' = [edit EXCEPT ![e].holdsFolder = TRUE]
  /\ UNCHANGED <<link, folder, copies, share>>

\* The items of a removed link are soft-deleted with it.
Retired(l, gone) ==
  IF l \in gone THEN [link[l] EXCEPT !.state = "retired"] ELSE link[l]

CommitEdit(e) ==
  /\ Editing(e)
  /\ edit[e].drop \subseteq edit[e].locked
  /\ edit[e].rename => edit[e].holdsFolder
  /\ \E new \in IF edit[e].add THEN {{l} : l \in {k \in Links : link[k] = Unused}} ELSE {{}} :
       link' = [l \in Links |-> IF l \in new
                  THEN [state |-> "live", folder |-> edit[e].folder]
                  ELSE Retired(l, edit[e].drop)]
  /\ copies' = [p \in Links \X Guids |-> IF p[1] \in edit[e].drop THEN <<>> ELSE copies[p]]
  /\ edit' = [edit EXCEPT ![e] = Unused]
  /\ UNCHANGED <<folder, share>>

\* Any error rolls the transaction back: a deadlock, a lost connection, a
\* rename of a folder that was trashed meanwhile.
AbortEdit(e) ==
  /\ Editing(e)
  /\ edit' = [edit EXCEPT ![e] = Unused]
  /\ UNCHANGED <<link, folder, copies, share>>

\* Trashing a folder leaves its links and its items as they are; restoring it
\* brings them back.
TrashFolder(f) ==
  /\ folder[f] = "live" /\ FolderHolders(f) = {}
  /\ folder' = [folder EXCEPT ![f] = "trashed"]
  /\ UNCHANGED <<link, copies, share, edit>>

RestoreFolder(f) ==
  /\ folder[f] = "trashed" /\ FolderHolders(f) = {}
  /\ folder' = [folder EXCEPT ![f] = "live"]
  /\ UNCHANGED <<link, copies, share, edit>>

EditStep(e) == LockLink(e) \/ LockFolder(e) \/ CommitEdit(e)

FoldersNext ==
  \/ \E e \in Editors : BeginEdit(e) \/ EditStep(e) \/ AbortEdit(e)
  \/ \E f \in Folders : TrashFolder(f) \/ RestoreFolder(f)

FoldersTypeOK ==
  /\ link \in [Links -> Link]
  /\ folder \in [Folders -> {"live", "trashed"}]
  /\ copies \in [Links \X Guids -> Seq(Bodies)]
  /\ share \in [Links -> SUBSET Workers]
  /\ edit \in [Editors -> Edit \union {Unused}]
=============================================================================
