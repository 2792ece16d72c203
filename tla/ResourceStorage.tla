--------------------------- MODULE ResourceStorage ---------------------------
(***************************************************************************)
(* What the rows of `resources` cost their owners: creation, updates, the  *)
(* trash, and the backfills of legacy rows, with every adjustment of       *)
(* `storage_usages` (src/resources/resources.service.ts, src/files).       *)
(*                                                                         *)
(* storage_usages holds one sum per user; `charged` keeps the sum apart    *)
(* by the resource each adjustment is for, so that a drift of one resource *)
(* cannot hide behind the opposite drift of another.                       *)
(*                                                                         *)
(* A transaction that locks its row (FOR UPDATE) before it reads it is one *)
(* step.  One that reads without a lock is cut after the read.             *)
(***************************************************************************)
EXTENDS Integers, FiniteSets

CONSTANTS
  Resources,
  Owned,        \* resources with a user id
  Exempt,       \* rss items: read-only to users, never charged
  Legacy,       \* rows older than content_size: content, but size 0
  Files,
  FileOf,       \* [Resources -> Files \cup {None}], fileId
  Declared,     \* [Files -> size announced by the client, or Unknown]
  Stored,       \* [Files -> size of the S3 object at first, 0 if missing]
  MaxSize,      \* bound: content and files have 0..MaxSize units
  Handlers,     \* requests between two statements at the same time
  Endpoints,    \* the operations clients use in this instance
  ChargeCap,    \* bound: no charge leaves -ChargeCap..ChargeCap
  None, Unknown

Sizes == 0..MaxSize

ASSUME StorageAssumption ==
  /\ Owned \subseteq Resources /\ Exempt \subseteq Resources
  /\ Legacy \subseteq Resources /\ MaxSize \in Nat /\ ChargeCap \in Nat
  /\ FileOf \in [Resources -> Files \cup {None}] /\ None \notin Files
  /\ Declared \in [Files -> Sizes \cup {Unknown}] /\ Unknown \notin Sizes
  /\ Stored \in [Files -> Sizes]
  /\ \A r \in Legacy : FileOf[r] # None => Declared[FileOf[r]] = Unknown

VARIABLES
  row,       \* [Resources -> Row]
  file,      \* [Files -> File], the files table and the objects in S3
  charged,   \* [Resources -> Charges], what storage_usages counts for a row
  req,       \* [Handlers -> Request]
  stale,     \* history: rows whose content was charged from a stale read
  mixed      \* history: rows whose file was adjusted by unequal sizes

vars == <<row, file, charged, req, stale, mixed>>
history == <<stale, mixed>>

Row  == [state: {"absent", "live", "trashed"}, purged: BOOLEAN,
         size: Sizes,      \* content_size
         length: Sizes]    \* bytes of the content itself
File == [size: Sizes \cup {Unknown}, object: Sizes]

Amounts == -ChargeCap..ChargeCap
Charges == [content: Amounts, upload: Amounts]

Idle == [pc |-> "idle"]
Request ==
       {Idle}
  \cup [pc: {"restore"}, row: Resources, size: Sizes]
  \cup [pc: {"purge"}, row: Resources]
  \cup [pc: {"backfill"}, row: Resources, length: Sizes]
  \cup [pc: {"backfill_file"}, row: {r \in Resources : FileOf[r] # None},
        object: Sizes]

TypeOK ==
  /\ row \in [Resources -> Row]
  /\ file \in [Files -> File]
  /\ charged \in [Resources -> Charges]
  /\ req \in [Handlers -> Request]
  /\ stale \subseteq Resources /\ mixed \subseteq Resources

AbsentRow == [state |-> "absent", purged |-> FALSE, size |-> 0, length |-> 0]
NoCharge  == [content |-> 0, upload |-> 0]

Init ==
  /\ row = [r \in Resources |->
              IF r \in Legacy
                THEN [AbsentRow EXCEPT !.state = "live", !.length = MaxSize]
                ELSE AbsentRow]
  /\ file = [f \in Files |-> [size |-> Declared[f], object |-> Stored[f]]]
  /\ charged = [r \in Resources |-> NoCharge]
  /\ req = [h \in Handlers |-> Idle]
  /\ stale = {} /\ mixed = {}

----------------------------------------------------------------------------
(* Charging *)

\* resource.userId && !isStorageExemptResourceType(resource.resourceType)
Billable(r) == r \in Owned /\ r \notin Exempt

\* A fault of FileSize: what is refunded does not depend on the recorded size.
FileSizeIgnored(r) == IF FileOf[r] = None THEN 0 ELSE file[FileOf[r]].object

\* file.size, 0 when the row has no file or its size was never recorded.
FileSize(r) ==
  IF FileOf[r] = None \/ file[FileOf[r]].size = Unknown
    THEN 0 ELSE file[FileOf[r]].size

\* headFile(fileId).contentLength.
ObjectSize(r) == IF FileOf[r] = None THEN 0 ELSE file[FileOf[r]].object

Plus(c, content, upload) ==
  [content |-> c.content + content, upload |-> c.upload + upload]

\* Adjust the usage by the amounts content[r] and upload[r] for the r in S.
Adjust(S, content, upload) ==
  /\ charged' = [r \in Resources |->
                   IF r \in S /\ Billable(r)
                     THEN Plus(charged[r], content[r], upload[r])
                     ELSE charged[r]]
  /\ charged' \in [Resources -> Charges]

Each(n) == [r \in Resources |-> n]

\* History: r is marked when p.
MarkIf(marked, r, p) == IF p THEN marked \cup {r} ELSE marked

Answer(h)  == req' = [req EXCEPT ![h] = Idle]
GoTo(h, r) == req' = [req EXCEPT ![h] = r]

----------------------------------------------------------------------------
(* Live rows *)

\* createResource; rss items come from the poller (options.internal).
Create(r, n) ==
  /\ "write" \in Endpoints
  /\ row[r].state = "absent"
  /\ row' = [row EXCEPT ![r] = [@ EXCEPT !.state = "live", !.size = n,
                                         !.length = n]]
  /\ Adjust({r}, Each(n), Each(FileSize(r)))
  /\ UNCHANGED <<file, req, history>>

\* contentSizeDiff.
Growth(old, n) == n - old

\* updateResource with new content.  The old size is read under the row lock.
Update(r, n) ==
  /\ "write" \in Endpoints
  /\ row[r].state = "live"
  /\ row' = [row EXCEPT ![r].size = n, ![r].length = n]
  /\ Adjust({r}, Each(Growth(row[r].size, n)), Each(0))
  /\ UNCHANGED <<file, req, history>>

\* The client sends the object with the presigned form, which bounds its
\* length by the announced size, possibly more than once.
Upload(f, n) ==
  /\ "form_upload" \in Endpoints
  /\ file[f].size # Unknown /\ n <= file[f].size
  /\ file' = [file EXCEPT ![f].object = n]
  /\ UNCHANGED <<row, charged, req, history>>

----------------------------------------------------------------------------
(* The trash *)

Trashed(w) == [w EXCEPT !.state = "trashed"]

\* deleteResource: refunds the content and the stored object.
Delete(r) ==
  /\ "trash" \in Endpoints
  /\ row[r].state = "live" /\ r \notin Exempt
  /\ row' = [row EXCEPT ![r] = Trashed(@)]
  /\ Adjust({r}, Each(-row[r].size), Each(-ObjectSize(r)))
  /\ mixed' = MarkIf(mixed, r, FileSize(r) # ObjectSize(r))
  /\ UNCHANGED <<file, req, stale>>

\* batchDeleteResources: refunds the content and the announced file sizes.
\* Only the rss folders' own bookkeeping (internal) may retire items.
BatchDelete(S) ==
  LET live == {r \in S : row[r].state = "live"} IN
  /\ "trash" \in Endpoints
  /\ live # {} /\ (live \cap Exempt = {} \/ live \subseteq Exempt)
  /\ row' = [r \in Resources |->
               IF r \in live THEN Trashed(row[r]) ELSE row[r]]
  /\ Adjust(live, [r \in Resources |-> -row[r].size],
                  [r \in Resources |-> -FileSize(r)])
  /\ UNCHANGED <<file, req, history>>

InTrash(r) == row[r].state = "trashed" /\ ~row[r].purged

\* restoreResource reads the row without a lock, ...
BeginRestore(h, r) ==
  /\ "restore" \in Endpoints
  /\ req[h] = Idle
  /\ InTrash(r) /\ r \notin Exempt
  /\ GoTo(h, [pc |-> "restore", row |-> r, size |-> row[r].size])
  /\ UNCHANGED <<row, file, charged, history>>

\* ... clears deleted_at by id, whatever the row has become, and charges what
\* it had read.
Restore(h) ==
  /\ req[h].pc = "restore"
  /\ LET r == req[h].row IN
     /\ row' = [row EXCEPT ![r].state = "live"]
     /\ Adjust({r}, Each(req[h].size), Each(ObjectSize(r)))
     /\ stale' = MarkIf(stale, r, \/ row[r].state # "trashed"
                                  \/ row[r].size # req[h].size)
     /\ mixed' = MarkIf(mixed, r, \/ row[r].state # "trashed"
                                  \/ FileSize(r) # ObjectSize(r))
  /\ Answer(h)
  /\ UNCHANGED file

\* hardDeleteResource reads without a lock and updates by id.
BeginPurge(h, r) ==
  /\ "purge" \in Endpoints
  /\ req[h] = Idle
  /\ InTrash(r) /\ r \notin Exempt
  /\ GoTo(h, [pc |-> "purge", row |-> r])
  /\ UNCHANGED <<row, file, charged, history>>

Purge(h) ==
  /\ req[h].pc = "purge"
  /\ row' = [row EXCEPT ![req[h].row].purged = TRUE]
  /\ Answer(h)
  /\ UNCHANGED <<file, charged, history>>

\* hardDeleteAllTrash: one conditional UPDATE over ids that emptyTrash
\* selected before, never those of items.
PurgeAll(S) ==
  /\ "purge" \in Endpoints /\ S \cap Exempt = {}
  /\ \E r \in S : InTrash(r)
  /\ row' = [r \in Resources |->
               IF r \in S /\ InTrash(r)
                 THEN [row[r] EXCEPT !.purged = TRUE] ELSE row[r]]
  /\ UNCHANGED <<file, charged, req, history>>

----------------------------------------------------------------------------
(* Backfills of rows and files that are older than their size columns *)

\* recalculateContentSizes measures a live row whose size is 0, ...
BeginBackfill(h, r) ==
  /\ "backfill" \in Endpoints
  /\ req[h] = Idle
  /\ row[r].state = "live" /\ r \in Owned
  /\ row[r].size = 0 /\ row[r].length > 0
  /\ GoTo(h, [pc |-> "backfill", row |-> r, length |-> row[r].length])
  /\ UNCHANGED <<row, file, charged, history>>

\* A fault of Unmeasured: the UPDATE is by id only.
UnmeasuredAlways(w) == TRUE
Unmeasured(w) == w.size = 0

\* ... and stores and charges it if the size is still 0.
Backfill(h) ==
  /\ req[h].pc = "backfill"
  /\ LET r == req[h].row IN
     IF Unmeasured(row[r])
       THEN /\ row' = [row EXCEPT ![r].size = req[h].length]
            /\ Adjust({r}, Each(req[h].length), Each(0))
            /\ stale' = MarkIf(stale, r, row[r].state # "live")
       ELSE UNCHANGED <<row, charged, stale>>
  /\ Answer(h)
  /\ UNCHANGED <<file, mixed>>

\* recalculateFileSizes asks S3 first; the charge goes to the file's creator,
\* here to one of the resources that show the file.
BeginBackfillFile(h, r) ==
  /\ "backfill" \in Endpoints
  /\ req[h] = Idle
  /\ row[r].state # "absent"
  /\ FileOf[r] # None /\ file[FileOf[r]].size = Unknown
  /\ GoTo(h, [pc |-> "backfill_file", row |-> r, object |-> ObjectSize(r)])
  /\ UNCHANGED <<row, file, charged, history>>

\* A fault of Unrecorded: two backfills of the same file both charge it.
UnrecordedAlways(f) == TRUE
Unrecorded(f) == f.size = Unknown

BackfillFile(h) ==
  /\ req[h].pc = "backfill_file"
  /\ LET r == req[h].row
         f == FileOf[r] IN
     IF Unrecorded(file[f])
       THEN /\ file' = [file EXCEPT ![f].size = req[h].object]
            /\ Adjust({r}, Each(0), Each(req[h].object))
            /\ mixed' = mixed \cup
                 {q \in Resources : /\ FileOf[q] = f
                                    /\ (q = r) <=> (row[q].state # "live")}
       ELSE UNCHANGED <<file, charged, mixed>>
  /\ Answer(h)
  /\ UNCHANGED <<row, stale>>

----------------------------------------------------------------------------
Next ==
  \/ \E r \in Resources, n \in Sizes : Create(r, n) \/ Update(r, n)
  \/ \E r \in Resources : Delete(r)
  \/ \E S \in SUBSET Resources : BatchDelete(S) \/ PurgeAll(S)
  \/ \E f \in Files, n \in Sizes : Upload(f, n)
  \/ \E h \in Handlers :
       \/ Restore(h) \/ Purge(h) \/ Backfill(h) \/ BackfillFile(h)
       \/ \E r \in Resources :
            \/ BeginRestore(h, r) \/ BeginPurge(h, r)
            \/ BeginBackfill(h, r) \/ BeginBackfillFile(h, r)

Spec == Init /\ [][Next]_vars

----------------------------------------------------------------------------
(* Properties *)

\* What an owner pays for a row's content is its size while it is live and
\* nothing while it is in the trash, although updates, single and batch
\* deletions, restores and backfills each adjust the usage by a computation of
\* their own.  The one way out is a restore or a backfill that charges what it
\* had read before the row changed its state or size.
ContentExact ==
  \A r \in Resources \ stale :
    Billable(r) => charged[r].content =
                     IF row[r].state = "live" THEN row[r].size ELSE 0

\* What an owner pays for a row's file is its recorded size while the row is
\* live, as long as no deletion or restore, which ask S3, finds an object of
\* another size, and no backfill finds the row in the trash.
UploadExact ==
  \A r \in Resources \ mixed :
    Billable(r) => charged[r].upload =
                     IF row[r].state # "live" \/ FileOf[r] = None THEN 0
                     ELSE IF file[FileOf[r]].size = Unknown THEN 0
                     ELSE file[FileOf[r]].size
=============================================================================
