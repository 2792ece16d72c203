----------------------------- MODULE ContentProofs -----------------------------
(* Proofs about what a namespace holds: the storage it is charged for, the   *)
(* attachments, the results that arrive in chunks, the search index, the     *)
(* quotas, tags and the manual order; for any numbers of them.               *)
EXTENDS MCContents, SequenceTheorems, FiniteSetTheorems, FunctionTheorems, WellFoundedInduction, TLAPS

(* --------------------------- storage accounting -------------------------- *)

\* Requests have the fields their next statement needs.
LEMMA RequestFields ==
  ASSUME TypeOK, NEW h \in Handlers
  PROVE  /\ req[h].pc = "restore" => req[h].row \in Resources /\ req[h].size \in Sizes
         /\ req[h].pc = "purge" => req[h].row \in Resources
         /\ req[h].pc = "backfill" => req[h].row \in Resources /\ req[h].length \in Sizes
         /\ req[h].pc = "backfill_file" =>
              /\ req[h].row \in Resources /\ FileOf[req[h].row] # None
              /\ req[h].object \in Sizes
BY DEF TypeOK, Request, Idle

\* What a charge does to one resource.
LEMMA Adjusted ==
  ASSUME TypeOK, NEW S, NEW content, NEW bytes, Adjust(S, content, bytes),
         NEW r \in Resources
  PROVE  /\ charged' \in [Resources -> Charges]
         /\ r \in S /\ Billable(r) =>
              charged'[r] = Plus(charged[r], content[r], bytes[r])
         /\ ~(r \in S /\ Billable(r)) => charged'[r] = charged[r]
BY DEF Adjust

LEMMA AdjustedContent ==
  ASSUME TypeOK, NEW S, NEW content, NEW bytes, Adjust(S, content, bytes)
  PROVE  \A r \in Resources :
           charged'[r].content = IF r \in S /\ Billable(r)
                                   THEN charged[r].content + content[r]
                                   ELSE charged[r].content
BY DEF Adjust, Plus, TypeOK

\* A row that is given another size, or size and length, is a row.
LEMMA MeasuredRow ==
  ASSUME NEW old \in Row, NEW n \in Sizes, NEW m \in Sizes
  PROVE  [old EXCEPT !.size = n] \in Row /\ [old EXCEPT !.size = n, !.length = m] \in Row
BY DEF Row

\* The guard of Adjust keeps the charges in range, so every step is well typed.
LEMMA TypeStep == TypeOK /\ [Next]_vars => TypeOK'
<1> SUFFICES ASSUME TypeOK, [Next]_vars PROVE TypeOK'
    OBVIOUS
<1> USE StorageAssumption DEF StorageAssumption, MarkIf, history
<1>1. ASSUME NEW r \in Resources, NEW n \in Sizes, Create(r, n) PROVE TypeOK'
      BY <1>1, ZenonT(40) DEF TypeOK, Create, Row, Adjust
<1>2. ASSUME NEW r \in Resources, NEW n \in Sizes, Update(r, n) PROVE TypeOK'
  <2>1. row[r] \in Row
        BY DEF TypeOK
  <2>2. [row[r] EXCEPT !.size = n, !.length = n] \in Row
        BY <2>1, MeasuredRow
  <2>3. row' = [row EXCEPT ![r] = [row[r] EXCEPT !.size = n, !.length = n]]
        BY <1>2 DEF Update, TypeOK
  <2>4. row' \in [Resources -> Row]
        BY <2>2, <2>3 DEF TypeOK
  <2>5. charged' \in [Resources -> Charges] /\ file' = file /\ req' = req /\ stale' = stale /\ mixed' = mixed
        BY <1>2 DEF Update, Adjust
  <2> QED BY <2>4, <2>5 DEF TypeOK
<1>3. ASSUME NEW r \in Resources, Delete(r) PROVE TypeOK'
      BY <1>3 DEF TypeOK, Delete, Trashed, Row, Adjust
<1>4. ASSUME NEW S \in SUBSET Resources, BatchDelete(S) PROVE TypeOK'
      BY <1>4 DEF TypeOK, BatchDelete, Trashed, Row, Adjust
<1>5. ASSUME NEW S \in SUBSET Resources, PurgeAll(S) PROVE TypeOK'
      BY <1>5 DEF TypeOK, PurgeAll, Row
<1>6. ASSUME NEW f \in Files, NEW n \in Sizes, Upload(f, n) PROVE TypeOK'
      BY <1>6 DEF TypeOK, Upload, File
<1>7. ASSUME NEW h \in Handlers, Restore(h) PROVE TypeOK'
  <2>1. req[h].row \in Resources
        BY <1>7, RequestFields DEF Restore
  <2>2. row' \in [Resources -> Row]
        BY <1>7, <2>1, ZenonT(40) DEF TypeOK, Restore, Row
  <2>3. /\ charged' \in [Resources -> Charges] /\ file' = file
        /\ stale' \subseteq Resources /\ mixed' \subseteq Resources
        BY <1>7, <2>1 DEF TypeOK, Restore, Adjust
  <2>4. req' \in [Handlers -> Request]
        BY <1>7 DEF TypeOK, Restore, Answer, Request
  <2> QED BY <2>2, <2>3, <2>4 DEF TypeOK
<1>8. ASSUME NEW h \in Handlers, Purge(h) PROVE TypeOK'
  <2>1. req[h].row \in Resources
        BY <1>8, RequestFields DEF Purge
  <2>2. row' \in [Resources -> Row]
        BY <1>8, <2>1, ZenonT(40) DEF TypeOK, Purge, Row
  <2>3. /\ req' \in [Handlers -> Request] /\ file' = file
        /\ charged' = charged /\ stale' = stale /\ mixed' = mixed
        BY <1>8 DEF TypeOK, Purge, Answer, Request
  <2> QED BY <2>2, <2>3 DEF TypeOK
<1>9. ASSUME NEW h \in Handlers, Backfill(h) PROVE TypeOK'
  <2>1. req[h].row \in Resources /\ req[h].length \in Sizes
        BY <1>9, RequestFields DEF Backfill
  <2>2. row' \in [Resources -> Row]
    <3>1. row' = row \/ row' = [row EXCEPT ![req[h].row] = [row[req[h].row] EXCEPT !.size = req[h].length]]
      BY <1>9 DEF Backfill
    <3>2. row[req[h].row] \in Row
      BY <2>1 DEF TypeOK
    <3>3. [row[req[h].row] EXCEPT !.size = req[h].length] \in Row
      BY <2>1, <3>2, MeasuredRow
    <3> QED BY <3>1, <3>3 DEF TypeOK
  <2>3. /\ charged' \in [Resources -> Charges] /\ file' = file
        /\ stale' \subseteq Resources /\ mixed' = mixed
        BY <1>9, <2>1 DEF TypeOK, Backfill, Adjust
  <2>4. req' \in [Handlers -> Request]
        BY <1>9 DEF TypeOK, Backfill, Answer, Request
  <2> QED BY <2>2, <2>3, <2>4 DEF TypeOK
<1>10. ASSUME NEW h \in Handlers, BackfillFile(h) PROVE TypeOK'
  <2> req[h].row \in Resources /\ req[h].object \in Sizes
      BY <1>10, RequestFields DEF BackfillFile
  <2>1. /\ req' \in [Handlers -> Request] /\ row' = row
        /\ stale' \subseteq Resources /\ mixed' \subseteq Resources
        BY <1>10 DEF TypeOK, BackfillFile, Answer, Request
  <2>2. file' \in [Files -> File] /\ charged' \in [Resources -> Charges]
    <3>1. CASE Unrecorded(file[FileOf[req[h].row]])
      <4>1. file' = [file EXCEPT ![FileOf[req[h].row]].size = req[h].object]
            /\ charged' \in [Resources -> Charges]
            BY <1>10, <3>1 DEF BackfillFile, Adjust
      <4>3. file' = [f \in Files |->
                       IF f = FileOf[req[h].row]
                         THEN [file[f] EXCEPT !.size = req[h].object]
                         ELSE file[f]]
            BY <4>1 DEF TypeOK
      <4>4. \A f \in Files : [file[f] EXCEPT !.size = req[h].object] \in File
            BY DEF TypeOK, File
      <4>5. \A f \in Files : file[f] \in File
            BY DEF TypeOK
      <4>6. file' \in [Files -> File]
            BY <4>3, <4>4, <4>5
      <4> QED BY <4>1, <4>6
    <3>2. CASE ~Unrecorded(file[FileOf[req[h].row]])
          BY <1>10, <3>2 DEF TypeOK, BackfillFile
    <3> QED BY <3>1, <3>2
  <2> QED BY <2>1, <2>2 DEF TypeOK
<1>11. ASSUME NEW h \in Handlers, NEW r \in Resources, BeginRestore(h, r)
       PROVE TypeOK'
       BY <1>11 DEF TypeOK, BeginRestore, GoTo, Request, Row
<1>12. ASSUME NEW h \in Handlers, NEW r \in Resources, BeginPurge(h, r)
       PROVE TypeOK'
       BY <1>12 DEF TypeOK, BeginPurge, GoTo, Request
<1>13. ASSUME NEW h \in Handlers, NEW r \in Resources, BeginBackfill(h, r)
       PROVE TypeOK'
       BY <1>13 DEF TypeOK, BeginBackfill, GoTo, Request, Row
<1>14. ASSUME NEW h \in Handlers, NEW r \in Resources, BeginBackfillFile(h, r)
       PROVE TypeOK'
       BY <1>14 DEF TypeOK, BeginBackfillFile, GoTo, Request, ObjectSize, File
<1>15. CASE UNCHANGED vars
       BY <1>15 DEF TypeOK, vars
<1> QED
    BY <1>1, <1>2, <1>3, <1>4, <1>5, <1>6, <1>7, <1>8, <1>9, <1>10, <1>11,
       <1>12, <1>13, <1>14, <1>15 DEF Next

LEMMA TypeInit == Init => TypeOK
<1> SUFFICES ASSUME Init PROVE TypeOK
    OBVIOUS
<1>1. 0 \in Sizes /\ MaxSize \in Sizes /\ 0 \in Amounts
      BY StorageAssumption DEF StorageAssumption, Sizes, Amounts
<1>2. row \in [Resources -> Row]
      BY <1>1 DEF Init, Row, AbsentRow
<1>3. file \in [Files -> File]
      BY StorageAssumption DEF StorageAssumption, Init, File
<1>4. charged \in [Resources -> Charges]
      BY <1>1 DEF Init, Charges, NoCharge
<1>5. req \in [Handlers -> Request]
      BY DEF Init, Request
<1>6. stale \subseteq Resources /\ mixed \subseteq Resources
      BY DEF Init
<1> QED BY <1>2, <1>3, <1>4, <1>5, <1>6 DEF TypeOK

\* Rows, files, charges and requests stay well formed.
THEOREM TypeCorrect == Spec => []TypeOK
BY TypeInit, TypeStep, PTL DEF Spec

----------------------------------------------------------------------------
(* The charges are exact.  Every action adjusts the charge of a row by the *)
(* same amount as its size, unless it marks the row.                       *)

\* What a row, or its file, should cost.
ContentDue(r) == IF row[r].state = "live" THEN row[r].size ELSE 0
UploadDue(r)  == IF row[r].state = "live" THEN FileSize(r) ELSE 0

LEMMA AdjustedUpload ==
  ASSUME TypeOK, NEW S, NEW content, NEW bytes, Adjust(S, content, bytes)
  PROVE  \A r \in Resources :
           charged'[r].upload = IF r \in S /\ Billable(r)
                                  THEN charged[r].upload + bytes[r]
                                  ELSE charged[r].upload
BY DEF Adjust, Plus, TypeOK

LEMMA Numbers ==
  ASSUME TypeOK
  PROVE  /\ row \in [Resources -> Row] /\ file \in [Files -> File]
         /\ \A r \in Resources : /\ row[r].size \in Int
                                 /\ charged[r].content \in Int
                                 /\ charged[r].upload \in Int
                                 /\ FileSize(r) \in Int /\ ObjectSize(r) \in Int
         /\ \A n \in Sizes : n \in Int
<1> USE StorageAssumption DEF StorageAssumption
<1>1. \A n \in Sizes : n \in Int
      BY DEF Sizes
<1>2. \A r \in Resources : charged[r].content \in Int /\ charged[r].upload \in Int
      BY DEF TypeOK, Charges, Amounts
<1>3. \A r \in Resources : FileOf[r] # None => FileOf[r] \in Files
      OBVIOUS
<1>4. \A r \in Resources : FileSize(r) \in Int /\ ObjectSize(r) \in Int
      BY <1>1, <1>3 DEF TypeOK, File, FileSize, ObjectSize
<1> QED BY <1>1, <1>2, <1>4 DEF TypeOK, Row

LEMMA ContentStep ==
  ASSUME TypeOK, ContentExact, [Next]_vars
  PROVE  ContentExact'
<1> SUFFICES ASSUME NEW q \in Resources, q \notin stale', Billable(q)
             PROVE  charged'[q].content = ContentDue(q)'
    BY DEF ContentExact, ContentDue, Billable
<1> USE Numbers, StorageAssumption DEF StorageAssumption, ContentDue, history
<1>0. /\ q \notin stale => charged[q].content = ContentDue(q)
      /\ stale \subseteq stale' => charged[q].content = ContentDue(q)
      BY DEF ContentExact
<1>1. ASSUME NEW r \in Resources, NEW n \in Sizes, Create(r, n)
      PROVE  charged'[q].content = ContentDue(q)'
  <2>1. Adjust({r}, Each(n), Each(FileSize(r))) /\ stale' = stale
        BY <1>1 DEF Create
  <2> QED BY <1>0, <1>1, <2>1, AdjustedContent DEF Create, Each
<1>2. ASSUME NEW r \in Resources, NEW n \in Sizes, Update(r, n)
      PROVE  charged'[q].content = ContentDue(q)'
  <2>1. Adjust({r}, Each(Growth(row[r].size, n)), Each(0)) /\ stale' = stale
        BY <1>2 DEF Update
  <2> QED BY <1>0, <1>2, <2>1, AdjustedContent DEF Update, Growth, Each
<1>3. ASSUME NEW r \in Resources, Delete(r)
      PROVE  charged'[q].content = ContentDue(q)'
  <2>1. Adjust({r}, Each(-row[r].size), Each(-ObjectSize(r))) /\ stale' = stale
        BY <1>3 DEF Delete
  <2> QED BY <1>0, <1>3, <2>1, AdjustedContent DEF Delete, Trashed, Each
<1>4. ASSUME NEW S \in SUBSET Resources, BatchDelete(S)
      PROVE  charged'[q].content = ContentDue(q)'
  <2> DEFINE live == {r \in S : row[r].state = "live"}
  <2>1. /\ Adjust(live, [r \in Resources |-> -row[r].size],
                        [r \in Resources |-> -FileSize(r)])
        /\ row' = [r \in Resources |->
                     IF r \in live THEN Trashed(row[r]) ELSE row[r]]
        /\ stale' = stale
        BY <1>4 DEF BatchDelete
  <2>2. CASE q \in live
        BY <1>0, <2>1, <2>2, AdjustedContent DEF Trashed
  <2>3. CASE q \notin live
        BY <1>0, <2>1, <2>3, AdjustedContent
  <2> QED BY <2>2, <2>3
<1>5. ASSUME NEW S \in SUBSET Resources, PurgeAll(S)
      PROVE  charged'[q].content = ContentDue(q)'
      BY <1>0, <1>5 DEF PurgeAll
<1>6. ASSUME NEW h \in Handlers, Restore(h)
      PROVE  charged'[q].content = ContentDue(q)'
  <2>1. /\ req[h].row \in Resources /\ req[h].size \in Int
        BY <1>6, RequestFields DEF Restore
  <2>2. Adjust({req[h].row}, Each(req[h].size), Each(ObjectSize(req[h].row)))
        BY <1>6 DEF Restore
  <2>3. CASE q = req[h].row
    <3>1. /\ row[q].state = "trashed" /\ row[q].size = req[h].size
          /\ q \notin stale
          BY <1>6, <2>3 DEF Restore, MarkIf
    <3> QED BY <1>0, <1>6, <2>1, <2>2, <2>3, <3>1, AdjustedContent
            DEF Restore, Each
  <2>4. CASE q # req[h].row
    <3>1. q \notin stale /\ row' = [row EXCEPT ![req[h].row].state = "live"]
          BY <1>6 DEF Restore, MarkIf
    <3>2. row'[q] = row[q]
          BY <2>4, <3>1 DEF TypeOK
    <3>3. charged'[q].content = charged[q].content
          BY <2>2, <2>4, AdjustedContent
    <3> QED BY <1>0, <3>1, <3>2, <3>3
  <2> QED BY <2>3, <2>4
<1>7. ASSUME NEW h \in Handlers, Purge(h)
      PROVE  charged'[q].content = ContentDue(q)'
      BY <1>0, <1>7, RequestFields DEF Purge
<1>8. ASSUME NEW h \in Handlers, Backfill(h)
      PROVE  charged'[q].content = ContentDue(q)'
  <2>1. /\ req[h].row \in Resources /\ req[h].length \in Int
        BY <1>8, RequestFields DEF Backfill
  <2>2. CASE ~Unmeasured(row[req[h].row])
        BY <1>0, <1>8, <2>2 DEF Backfill
  <2>3. CASE Unmeasured(row[req[h].row])
    <3>1. /\ Adjust({req[h].row}, Each(req[h].length), Each(0))
          /\ row' = [row EXCEPT ![req[h].row].size = req[h].length]
          /\ q \notin stale
          /\ q = req[h].row => row[q].state = "live"
          BY <1>8, <2>3 DEF Backfill, MarkIf
    <3> QED BY <1>0, <2>1, <2>3, <3>1, AdjustedContent DEF Each, Unmeasured
  <2> QED BY <2>2, <2>3
<1>9. ASSUME NEW h \in Handlers, BackfillFile(h)
      PROVE  charged'[q].content = ContentDue(q)'
  <2>1. \/ charged' = charged
        \/ Adjust({req[h].row}, Each(0), Each(req[h].object))
        BY <1>9 DEF BackfillFile
  <2>2. row' = row /\ stale' = stale
        BY <1>9 DEF BackfillFile
  <2> QED BY <1>0, <2>1, <2>2, AdjustedContent DEF Each
<1>10. CASE row' = row /\ charged' = charged /\ stale' = stale
       BY <1>0, <1>10
<1> QED
    BY <1>1, <1>2, <1>3, <1>4, <1>5, <1>6, <1>7, <1>8, <1>9, <1>10
       DEF Next, vars, Upload, BeginRestore, BeginPurge, BeginBackfill,
           BeginBackfillFile

\* In every reachable state the content usage of a row is exact, unless a
\* restore or a backfill charged what was no longer so.
THEOREM ContentCharged == Spec => []ContentExact
<1>1. Init => ContentExact
      BY StorageAssumption
         DEF StorageAssumption, Init, ContentExact, NoCharge, AbsentRow
<1> QED BY <1>1, ContentStep, TypeCorrect, PTL DEF Spec

LEMMA UploadStep ==
  ASSUME TypeOK, UploadExact, [Next]_vars
  PROVE  UploadExact'
<1> SUFFICES ASSUME NEW q \in Resources, q \notin mixed', Billable(q)
             PROVE  charged'[q].upload = UploadDue(q)'
    BY DEF UploadExact, UploadDue, FileSize, Billable
<1> USE Numbers, StorageAssumption DEF StorageAssumption, history
<1>0. q \notin mixed => charged[q].upload = UploadDue(q)
      BY DEF UploadExact, UploadDue, FileSize
<1>F. file' = file => FileSize(q)' = FileSize(q)
      BY DEF FileSize
<1>1. ASSUME NEW r \in Resources, NEW n \in Sizes, Create(r, n)
      PROVE  charged'[q].upload = UploadDue(q)'
  <2>1. /\ Adjust({r}, Each(n), Each(FileSize(r)))
        /\ mixed' = mixed /\ file' = file
        BY <1>1 DEF Create
  <2> QED BY <1>0, <1>F, <1>1, <2>1, AdjustedUpload DEF Create, Each, UploadDue
<1>2. ASSUME NEW r \in Resources, NEW n \in Sizes, Update(r, n)
      PROVE  charged'[q].upload = UploadDue(q)'
  <2>1. /\ Adjust({r}, Each(Growth(row[r].size, n)), Each(0))
        /\ mixed' = mixed /\ file' = file
        BY <1>2 DEF Update
  <2> QED BY <1>0, <1>F, <1>2, <2>1, AdjustedUpload DEF Update, Each, UploadDue
<1>3. ASSUME NEW r \in Resources, Delete(r)
      PROVE  charged'[q].upload = UploadDue(q)'
  <2>1. /\ Adjust({r}, Each(-row[r].size), Each(-ObjectSize(r)))
        /\ file' = file /\ q \notin mixed
        /\ q = r => FileSize(q) = ObjectSize(q)
        BY <1>3 DEF Delete, MarkIf
  <2> QED BY <1>0, <1>F, <1>3, <2>1, AdjustedUpload
          DEF Delete, Trashed, Each, UploadDue
<1>4. ASSUME NEW S \in SUBSET Resources, BatchDelete(S)
      PROVE  charged'[q].upload = UploadDue(q)'
  <2> DEFINE live == {r \in S : row[r].state = "live"}
  <2>1. /\ Adjust(live, [r \in Resources |-> -row[r].size],
                        [r \in Resources |-> -FileSize(r)])
        /\ row' = [r \in Resources |->
                     IF r \in live THEN Trashed(row[r]) ELSE row[r]]
        /\ mixed' = mixed /\ file' = file
        BY <1>4 DEF BatchDelete
  <2>2. CASE q \in live
        BY <1>0, <1>F, <2>1, <2>2, AdjustedUpload DEF Trashed, UploadDue
  <2>3. CASE q \notin live
        BY <1>0, <1>F, <2>1, <2>3, AdjustedUpload DEF UploadDue
  <2> QED BY <2>2, <2>3
<1>5. ASSUME NEW S \in SUBSET Resources, PurgeAll(S)
      PROVE  charged'[q].upload = UploadDue(q)'
      BY <1>0, <1>F, <1>5 DEF PurgeAll, UploadDue
<1>6. ASSUME NEW f \in Files, NEW n \in Sizes, Upload(f, n)
      PROVE  charged'[q].upload = UploadDue(q)'
  <2>1. FileSize(q)' = FileSize(q)
        BY <1>6 DEF Upload, FileSize
  <2> QED BY <1>0, <1>6, <2>1 DEF Upload, UploadDue
<1>7. ASSUME NEW h \in Handlers, Restore(h)
      PROVE  charged'[q].upload = UploadDue(q)'
  <2>1. /\ req[h].row \in Resources /\ file' = file /\ q \notin mixed
        BY <1>7, RequestFields DEF Restore, MarkIf
  <2>2. Adjust({req[h].row}, Each(req[h].size), Each(ObjectSize(req[h].row)))
        BY <1>7 DEF Restore
  <2>3. CASE q = req[h].row
    <3>1. row[q].state = "trashed" /\ FileSize(q) = ObjectSize(q)
          BY <1>7, <2>3 DEF Restore, MarkIf
    <3>2. row'[q].state = "live"
          BY <1>7, <2>1, <2>3 DEF Restore
    <3> QED BY <1>0, <1>F, <2>1, <2>2, <2>3, <3>1, <3>2, AdjustedUpload
            DEF Each, UploadDue
  <2>4. CASE q # req[h].row
        BY <1>0, <1>F, <1>7, <2>1, <2>2, <2>4, AdjustedUpload
           DEF Restore, UploadDue
  <2> QED BY <2>3, <2>4
<1>8. ASSUME NEW h \in Handlers, Purge(h)
      PROVE  charged'[q].upload = UploadDue(q)'
      BY <1>0, <1>F, <1>8, RequestFields DEF Purge, UploadDue
<1>9. ASSUME NEW h \in Handlers, Backfill(h)
      PROVE  charged'[q].upload = UploadDue(q)'
  <2>1. \/ charged' = charged
        \/ Adjust({req[h].row}, Each(req[h].length), Each(0))
        BY <1>9 DEF Backfill
  <2>a. req[h].row \in Resources
        BY <1>9, RequestFields DEF Backfill
  <2>b. \/ row' = row
        \/ row' = [row EXCEPT ![req[h].row].size = req[h].length]
        BY <1>9 DEF Backfill
  <2>2. row'[q].state = row[q].state /\ file' = file /\ mixed' = mixed
    <3>1. file' = file /\ mixed' = mixed
          BY <1>9 DEF Backfill
    <3>2. row'[q].state = row[q].state
          BY <2>a, <2>b DEF Row
    <3> QED BY <3>1, <3>2
  <2>3. charged'[q].upload = charged[q].upload
        BY <2>1, AdjustedUpload DEF Each
  <2> QED BY <1>0, <1>F, <2>2, <2>3 DEF UploadDue
<1>10. ASSUME NEW h \in Handlers, BackfillFile(h)
       PROVE  charged'[q].upload = UploadDue(q)'
  <2> DEFINE r == req[h].row
             f == FileOf[r]
  <2>1. /\ r \in Resources /\ f \in Files
        /\ req[h].object \in Sizes /\ row' = row
        BY <1>10, RequestFields DEF BackfillFile
  <2>2. CASE ~Unrecorded(file[f])
    <3>1. file' = file /\ charged' = charged /\ mixed' = mixed
          BY <1>10, <2>2 DEF BackfillFile
    <3> QED BY <1>0, <1>F, <2>1, <3>1 DEF UploadDue
  <2>3. CASE Unrecorded(file[f])
    <3>1. /\ file' = [file EXCEPT ![f].size = req[h].object]
          /\ Adjust({r}, Each(0), Each(req[h].object))
          /\ q \notin mixed
          /\ FileOf[q] = f => (q = r <=> row[q].state = "live")
          BY <1>10, <2>3 DEF BackfillFile
    <3>2. CASE FileOf[q] # f
      <4>1. FileSize(q)' = FileSize(q)
            BY <3>1, <3>2 DEF FileSize
      <4>2. charged'[q].upload = charged[q].upload
            BY <3>1, <3>2, AdjustedUpload
      <4> QED BY <1>0, <2>1, <3>1, <4>1, <4>2 DEF UploadDue
    <3>3. CASE FileOf[q] = f /\ q # r
      <4>1. charged'[q].upload = charged[q].upload
            BY <3>1, <3>3, AdjustedUpload
      <4> QED BY <1>0, <2>1, <3>1, <3>3, <4>1 DEF UploadDue
    <3>4. CASE q = r
      <4>1. charged'[q].upload = charged[q].upload + req[h].object
            BY <2>1, <3>1, <3>4, AdjustedUpload DEF Each
      <4>2. FileSize(q) = 0
            BY <2>3, <3>4 DEF FileSize, Unrecorded
      <4>3. FileSize(q)' = req[h].object
            BY <2>1, <3>1, <3>4 DEF FileSize, TypeOK
      <4> QED BY <1>0, <2>1, <3>1, <3>4, <4>1, <4>2, <4>3 DEF UploadDue
    <3> QED BY <3>2, <3>3, <3>4
  <2> QED BY <2>2, <2>3
<1>11. CASE row' = row /\ file' = file /\ charged' = charged /\ mixed' = mixed
       BY <1>0, <1>F, <1>11 DEF UploadDue
<1> QED
    BY <1>1, <1>2, <1>3, <1>4, <1>5, <1>6, <1>7, <1>8, <1>9, <1>10, <1>11
       DEF Next, vars, BeginRestore, BeginPurge, BeginBackfill,
           BeginBackfillFile

\* In every reachable state the upload usage of a row is its file's recorded
\* size while it is live, unless the recorded and the stored size differed or
\* another row shares the file that was backfilled.
THEOREM UploadCharged == Spec => []UploadExact
<1>1. Init => UploadExact
      BY StorageAssumption
         DEF StorageAssumption, Init, UploadExact, NoCharge, AbsentRow
<1> QED BY <1>1, UploadStep, TypeCorrect, PTL DEF Spec

(* -------------------------- results in chunks ---------------------------- *)

\* The first n chunks of s, read in order.
ReadBy(s, n) == [i \in 1..n |-> <<s, i - 1>>]

SenderStages == {"unsent", "sending", "assembling", "uploaded", "fetched", "done"}

\* A sender nobody disturbs finds its own chunks, or none where a cleanup
\* removed them.
OwnChunks(s) ==
  /\ sender[s].at = "sending" => \A i \in 0 .. (sender[s].n - 1) : chunk[i] \in {s, Nobody}
  /\ sender[s].at = "assembling" =>
       /\ \A i \in 0 .. (ChunksOf[s] - 1) : chunk[i] \in {s, Nobody}
       /\ sender[s].got = ReadBy(s, sender[s].n)
  /\ sender[s].at = "uploaded" => whole \in {s, Nobody}
  /\ sender[s].at = "fetched" => sender[s].got = <<<<s, 0>>>>

ChunkTyped ==
  /\ chunk \in [Parts -> Senders \union {Nobody}]
  /\ whole \in Senders \union {Nobody}
  /\ DOMAIN sender = Senders
  /\ \A s \in Senders : /\ sender[s] \in [at : SenderStages, n : Nat, got : {sender[s].got}]
                        /\ sender[s].at = "sending" => sender[s].n < ChunksOf[s]
                        /\ sender[s].at = "assembling" => sender[s].n <= ChunksOf[s]

ChunkInv ==
  /\ ChunkTyped
  /\ \A s \in Senders \ disturbed : OwnChunks(s)
  /\ ResultsWhole

LEMMA ChunkNumbers ==
  ASSUME NEW s \in Senders
  PROVE  /\ ChunksOf[s] \in Nat /\ ChunksOf[s] > 0
         /\ \A i \in 0 .. (ChunksOf[s] - 1) : i \in Parts
BY ChunkAssumption DEF Parts

LEMMA ReadOne ==
  ASSUME NEW s, NEW n \in Nat
  PROVE  Append(ReadBy(s, n), <<s, n>>) = ReadBy(s, n + 1)
BY DEF ReadBy

LEMMA ReadFirst == \A s : ReadBy(s, 0) = <<>>
BY DEF ReadBy

LEMMA ChunkInitInv == ChunkInit => ChunkInv
<1> SUFFICES ASSUME ChunkInit PROVE ChunkInv
  OBVIOUS
<1>1. ChunkTyped
  BY DEF ChunkInit, ChunkTyped, Unsent, SenderStages
<1>2. \A s \in Senders : OwnChunks(s)
  BY DEF ChunkInit, OwnChunks, Unsent
<1> QED BY <1>1, <1>2 DEF ChunkInit, ChunkInv, ResultsWhole

\* Whoever is left alone, or only loses chunks, keeps what is its own.
LEMMA LeftAlone ==
  ASSUME ChunkInv, NEW t \in Senders, t \notin disturbed', disturbed \subseteq disturbed', sender'[t] = sender[t],
         \A i \in Parts : chunk'[i] \in {chunk[i], Nobody}, whole' \in {whole, Nobody}
  PROVE  OwnChunks(t)'
<1>1. OwnChunks(t) /\ ChunkTyped
  BY DEF ChunkInv
<1>2. ASSUME sender[t].at = "sending", NEW i \in 0 .. (sender[t].n - 1)
      PROVE  chunk'[i] \in {t, Nobody}
  <2>1. i \in 0 .. (ChunksOf[t] - 1)
    BY <1>1, <1>2, ChunkNumbers DEF ChunkTyped
  <2> QED BY <1>1, <1>2, <2>1, ChunkNumbers DEF OwnChunks
<1>3. ASSUME sender[t].at = "assembling", NEW i \in 0 .. (ChunksOf[t] - 1)
      PROVE  chunk'[i] \in {t, Nobody}
  BY <1>1, <1>3, ChunkNumbers DEF OwnChunks
<1> QED BY <1>1, <1>2, <1>3 DEF OwnChunks

\* Who is at nothing has nothing to lose.
LEMMA NotBusyOwn ==
  ASSUME ChunkTyped, NEW t \in Senders, sender'[t] = sender[t], ~Busy(t)
  PROVE  OwnChunks(t)'
BY DEF OwnChunks, Busy

LEMMA ChunkStep == ChunkInv /\ [ChunkNext]_chunkVars => ChunkInv'
<1> SUFFICES ASSUME ChunkInv, [ChunkNext]_chunkVars PROVE ChunkInv'
  OBVIOUS
<1>0. ChunkTyped /\ ResultsWhole
  BY DEF ChunkInv
<1>1. CASE UNCHANGED chunkVars
  BY <1>1 DEF chunkVars, ChunkInv, ChunkTyped, OwnChunks, ResultsWhole
<1>2. ASSUME NEW s \in Senders, NEW r, r \in [at : SenderStages, n : Nat, got : {r.got}],
             r.at = "sending" => r.n < ChunksOf[s], r.at = "assembling" => r.n <= ChunksOf[s],
             sender' = [sender EXCEPT ![s] = r],
             chunk' \in [Parts -> Senders \union {Nobody}], whole' \in Senders \union {Nobody}
      PROVE  /\ ChunkTyped' /\ sender'[s] = r
             /\ \A t \in Senders \ {s} : sender'[t] = sender[t]
  BY <1>0, <1>2 DEF ChunkTyped
<1>3. ASSUME NEW s \in Senders, Disturb(s)
      PROVE  /\ disturbed \subseteq disturbed'
             /\ \A t \in Senders \ {s} : Busy(t) => t \in disturbed'
  BY <1>3 DEF Disturb
<1>4. ASSUME received' = received, disturbed \subseteq disturbed' PROVE ResultsWhole'
  BY <1>0, <1>4 DEF ResultsWhole
<1>5. Unsent \in [at : SenderStages, n : Nat, got : {Unsent.got}] /\ Unsent.at = "unsent"
  BY DEF Unsent, SenderStages
<1>6. ASSUME NEW s \in Senders, StoreChunk(s) PROVE ChunkInv'
  <2> DEFINE n == IF sender[s].at = "sending" THEN sender[s].n ELSE 0
             last == n + 1 = ChunksOf[s]
             r == [at |-> IF last THEN "assembling" ELSE "sending", n |-> IF last THEN 0 ELSE n + 1, got |-> <<>>]
  <2>1. n \in Nat /\ n < ChunksOf[s] /\ n \in Parts
    <3>1. n \in Nat /\ n < ChunksOf[s]
      BY <1>0, <1>6 DEF StoreChunk, ChunkTyped
    <3> QED BY <3>1, ChunkNumbers
  <2>2. r \in [at : SenderStages, n : Nat, got : {r.got}] /\ r.n < ChunksOf[s]
    BY <2>1, ChunkNumbers DEF SenderStages
  <2>3. /\ sender' = [sender EXCEPT ![s] = r] /\ chunk' = [chunk EXCEPT ![n] = s]
        /\ whole' = whole /\ received' = received /\ Disturb(s)
    BY <1>6 DEF StoreChunk, Kept
  <2>4. chunk' \in [Parts -> Senders \union {Nobody}]
    BY <1>0, <2>3 DEF ChunkTyped
  <2>5. /\ ChunkTyped' /\ sender'[s] = r
        /\ \A t \in Senders \ {s} : sender'[t] = sender[t]
    <3> HIDE DEF r
    <3> QED BY <1>0, <1>2, <2>2, <2>3, <2>4, ChunkNumbers DEF ChunkTyped
  <2>6. disturbed \subseteq disturbed' /\ \A t \in Senders \ {s} : Busy(t) => t \in disturbed'
    BY <1>3, <2>3
  <2>7. ASSUME NEW t \in Senders \ {s}, t \notin disturbed' PROVE OwnChunks(t)'
    BY <1>0, <2>5, <2>6, <2>7, NotBusyOwn
  <2>8. ASSUME s \notin disturbed' PROVE OwnChunks(s)'
    <3>1. OwnChunks(s)
      BY <2>6, <2>8 DEF ChunkInv
    <3>2. \A i \in 0 .. n : chunk'[i] \in {s, Nobody}
      <4> SUFFICES ASSUME NEW i \in 0 .. n PROVE chunk'[i] \in {s, Nobody}
        OBVIOUS
      <4>1. i \in Parts
        BY <2>1, ChunkNumbers
      <4>2. CASE i = n
        BY <1>0, <2>1, <2>3, <4>2 DEF ChunkTyped
      <4>3. CASE i # n
        <5>1. sender[s].at = "sending" /\ i \in 0 .. (sender[s].n - 1)
          BY <2>1, <4>3
        <5> QED BY <1>0, <2>3, <3>1, <4>1, <4>3, <5>1 DEF ChunkTyped, OwnChunks
      <4> QED BY <4>2, <4>3
    <3>3. CASE last
      <4>1. sender'[s].at = "assembling" /\ sender'[s].n = 0 /\ sender'[s].got = <<>>
        BY <2>5, <3>3
      <4>2. \A i \in 0 .. (ChunksOf[s] - 1) : chunk'[i] \in {s, Nobody}
        BY <2>1, <3>2, <3>3
      <4> QED BY <4>1, <4>2, ReadFirst DEF OwnChunks
    <3>4. CASE ~last
      <4>1. sender'[s].at = "sending" /\ sender'[s].n = n + 1
        BY <2>5, <3>4
      <4>2. \A i \in 0 .. (sender'[s].n - 1) : chunk'[i] \in {s, Nobody}
        BY <2>1, <3>2, <4>1
      <4> HIDE DEF n, r
      <4> QED BY <4>1, <4>2 DEF OwnChunks
    <3> QED BY <3>3, <3>4
  <2> QED BY <1>4, <2>3, <2>5, <2>6, <2>7, <2>8 DEF ChunkInv
<1>7. ASSUME NEW s \in Senders, GiveUp(s) \/ SendAgain(s) PROVE ChunkInv'
  <2>1. /\ sender' = [sender EXCEPT ![s] = Unsent] /\ chunk' = chunk
        /\ whole' = whole /\ received' = received /\ disturbed' = disturbed
    BY <1>7 DEF GiveUp, SendAgain
  <2>2. /\ ChunkTyped' /\ sender'[s] = Unsent
        /\ \A t \in Senders \ {s} : sender'[t] = sender[t]
    BY <1>0, <1>2, <1>5, <2>1 DEF ChunkTyped
  <2>3. ASSUME NEW t \in Senders \ {s}, t \notin disturbed' PROVE OwnChunks(t)'
    BY <2>1, <2>2, <2>3, LeftAlone
  <2>4. OwnChunks(s)'
    BY <2>2 DEF OwnChunks, Unsent
  <2> QED BY <1>4, <2>1, <2>2, <2>3, <2>4 DEF ChunkInv
<1>8. ASSUME NEW s \in Senders, AssembleChunk(s) PROVE ChunkInv'
  <2>0. /\ sender[s].at = "assembling" /\ sender[s].n \in Nat /\ sender[s].n < ChunksOf[s]
        /\ chunk' = chunk /\ whole' = whole /\ received' = received /\ disturbed' = disturbed
    BY <1>0, <1>8 DEF AssembleChunk, ChunkTyped
  <2>1. CASE chunk[sender[s].n] = Nobody
    <3>1. sender' = [sender EXCEPT ![s] = Unsent]
      BY <1>8, <2>1 DEF AssembleChunk
    <3>2. /\ ChunkTyped' /\ sender'[s] = Unsent
          /\ \A t \in Senders \ {s} : sender'[t] = sender[t]
      BY <1>0, <1>2, <1>5, <2>0, <3>1 DEF ChunkTyped
    <3>3. ASSUME NEW t \in Senders \ {s}, t \notin disturbed' PROVE OwnChunks(t)'
      BY <2>0, <3>2, <3>3, LeftAlone
    <3>4. OwnChunks(s)'
      BY <3>2 DEF OwnChunks, Unsent
    <3> QED BY <1>4, <2>0, <3>2, <3>3, <3>4 DEF ChunkInv
  <2>2. CASE chunk[sender[s].n] # Nobody
    <3>1. PICK r : r = [at |-> "assembling", n |-> sender[s].n + 1,
                        got |-> Append(sender[s].got, <<chunk[sender[s].n], sender[s].n>>)]
      OBVIOUS
    <3>2. sender' = [sender EXCEPT ![s] = r]
      BY <1>0, <1>8, <2>0, <2>2, <3>1 DEF AssembleChunk, ChunkTyped
    <3>3. r \in [at : SenderStages, n : Nat, got : {r.got}] /\ r.at = "assembling" /\ r.n <= ChunksOf[s]
      BY <2>0, <3>1, ChunkNumbers DEF SenderStages
    <3>4. /\ ChunkTyped' /\ sender'[s] = r
          /\ \A t \in Senders \ {s} : sender'[t] = sender[t]
      BY <1>0, <1>2, <2>0, <3>2, <3>3 DEF ChunkTyped
    <3>5. ASSUME NEW t \in Senders \ {s}, t \notin disturbed' PROVE OwnChunks(t)'
      BY <2>0, <3>4, <3>5, LeftAlone
    <3>6. ASSUME s \notin disturbed' PROVE OwnChunks(s)'
      <4>1. OwnChunks(s)
        BY <2>0, <3>6 DEF ChunkInv
      <4>2. chunk[sender[s].n] = s
        BY <2>0, <2>2, <4>1, ChunkNumbers DEF OwnChunks
      <4>3. r.got = ReadBy(s, sender[s].n + 1)
        BY <2>0, <3>1, <4>1, <4>2, ReadOne DEF OwnChunks
      <4> QED BY <2>0, <3>1, <3>4, <4>1, <4>3, SMTT(20) DEF OwnChunks
    <3> QED BY <1>4, <2>0, <3>4, <3>5, <3>6 DEF ChunkInv
  <2> QED BY <2>1, <2>2
<1>9. ASSUME NEW s \in Senders, DeliverChunks(s) \/ DeliverWhole(s) PROVE ChunkInv'
  <2>1. PICK by \in {"chunks", "upload"} :
          /\ received' = [from |-> s, by |-> by, parts |-> sender[s].got]
          /\ by = "chunks" => sender[s].at = "assembling" /\ sender[s].n = ChunksOf[s]
          /\ by = "upload" => sender[s].at = "fetched"
    BY <1>9 DEF DeliverChunks, DeliverWhole
  <2>2. PICK r : r = [Unsent EXCEPT !.at = "done"]
    OBVIOUS
  <2>3. r \in [at : SenderStages, n : Nat, got : {r.got}] /\ r.at = "done"
    BY <2>2 DEF Unsent, SenderStages
  <2>4. /\ sender' = [sender EXCEPT ![s] = r] /\ chunk' = chunk
        /\ whole' \in {whole, Nobody} /\ disturbed' = disturbed
    BY <1>9, <2>2 DEF DeliverChunks, DeliverWhole
  <2>5. /\ ChunkTyped' /\ sender'[s] = r
        /\ \A t \in Senders \ {s} : sender'[t] = sender[t]
    BY <1>0, <1>2, <2>3, <2>4 DEF ChunkTyped
  <2>6. ASSUME NEW t \in Senders \ {s}, t \notin disturbed' PROVE OwnChunks(t)'
    BY <2>4, <2>5, <2>6, LeftAlone
  <2>7. OwnChunks(s)'
    BY <2>3, <2>5 DEF OwnChunks
  <2>8. ResultsWhole'
    <3>1. CASE s \in disturbed
      BY <2>1, <2>4, <3>1 DEF ResultsWhole
    <3>2. CASE s \notin disturbed /\ by = "chunks"
      <4>1. sender[s].got = ReadBy(s, ChunksOf[s])
        BY <2>1, <3>2 DEF ChunkInv, OwnChunks
      <4> QED BY <2>1, <3>2, <4>1 DEF ResultsWhole, ReadBy
    <3>3. CASE s \notin disturbed /\ by = "upload"
      <4>1. sender[s].got = <<<<s, 0>>>>
        BY <2>1, <3>3 DEF ChunkInv, OwnChunks
      <4> QED BY <2>1, <3>3, <4>1 DEF ResultsWhole
    <3> QED BY <3>1, <3>2, <3>3
  <2> QED BY <2>5, <2>6, <2>7, <2>8 DEF ChunkInv
<1>10. ASSUME NEW s \in Senders, CleanUp(s) PROVE ChunkInv'
  <2>1. /\ sender' = sender /\ whole' = whole /\ received' = received /\ disturbed' = disturbed
        /\ chunk' \in [Parts -> Senders \union {Nobody}]
        /\ \A i \in Parts : chunk'[i] \in {chunk[i], Nobody}
    BY <1>0, <1>10 DEF CleanUp, ChunkTyped
  <2>2. ChunkTyped'
    BY <1>0, <2>1 DEF ChunkTyped
  <2>3. ASSUME NEW t \in Senders, t \notin disturbed' PROVE OwnChunks(t)'
    BY <2>1, <2>3, LeftAlone
  <2> QED BY <1>4, <2>1, <2>2, <2>3 DEF ChunkInv
<1>11. ASSUME NEW s \in Senders, UploadWhole(s) PROVE ChunkInv'
  <2>1. PICK r : r = [sender[s] EXCEPT !.at = "uploaded"]
    OBVIOUS
  <2>2. r \in [at : SenderStages, n : Nat, got : {r.got}] /\ r.at = "uploaded"
    BY <1>0, <2>1 DEF ChunkTyped, SenderStages
  <2>3. /\ sender' = [sender EXCEPT ![s] = r] /\ chunk' = chunk
        /\ whole' = s /\ received' = received /\ Disturb(s)
    BY <1>11, <2>1 DEF UploadWhole
  <2>4. /\ ChunkTyped' /\ sender'[s] = r
        /\ \A t \in Senders \ {s} : sender'[t] = sender[t]
    BY <1>0, <1>2, <2>2, <2>3 DEF ChunkTyped
  <2>5. disturbed \subseteq disturbed' /\ \A t \in Senders \ {s} : Busy(t) => t \in disturbed'
    BY <1>3, <2>3
  <2>6. ASSUME NEW t \in Senders \ {s}, t \notin disturbed' PROVE OwnChunks(t)'
    BY <1>0, <2>4, <2>5, <2>6, NotBusyOwn
  <2>7. OwnChunks(s)'
    BY <2>2, <2>3, <2>4 DEF OwnChunks
  <2> QED BY <1>4, <2>3, <2>4, <2>5, <2>6, <2>7 DEF ChunkInv
<1>12. ASSUME NEW s \in Senders, FetchWhole(s) PROVE ChunkInv'
  <2>1. PICK r : r = IF whole = Nobody THEN Unsent
                     ELSE [sender[s] EXCEPT !.at = "fetched", !.got = <<<<whole, 0>>>>]
    OBVIOUS
  <2>2. /\ r \in [at : SenderStages, n : Nat, got : {r.got}]
        /\ \/ r.at = "unsent"
           \/ r.at = "fetched" /\ r.got = <<<<whole, 0>>>> /\ whole # Nobody
    <3>1. CASE whole = Nobody
      <4>1. r = Unsent
        BY <2>1, <3>1
      <4> QED BY <4>1 DEF Unsent, SenderStages
    <3>2. CASE whole # Nobody
      <4>1. r = [sender[s] EXCEPT !.at = "fetched", !.got = <<<<whole, 0>>>>]
        BY <2>1, <3>2
      <4>2. sender[s] \in [at : SenderStages, n : Nat, got : {sender[s].got}]
        BY <1>0 DEF ChunkTyped
      <4>3. r = [at |-> "fetched", n |-> sender[s].n, got |-> <<<<whole, 0>>>>]
        BY <4>1, <4>2
      <4> QED BY <3>2, <4>2, <4>3 DEF SenderStages
    <3> QED BY <3>1, <3>2
  <2>3. /\ sender' = [sender EXCEPT ![s] = r] /\ chunk' = chunk /\ sender[s].at = "uploaded"
        /\ whole' = whole /\ received' = received /\ disturbed' = disturbed
    BY <1>12, <2>1 DEF FetchWhole
  <2>4. /\ ChunkTyped' /\ sender'[s] = r
        /\ \A t \in Senders \ {s} : sender'[t] = sender[t]
    BY <1>0, <1>2, <2>2, <2>3 DEF ChunkTyped
  <2>5. ASSUME NEW t \in Senders \ {s}, t \notin disturbed' PROVE OwnChunks(t)'
    BY <2>3, <2>4, <2>5, LeftAlone
  <2>6. ASSUME s \notin disturbed' PROVE OwnChunks(s)'
    <3>1. whole \in {s, Nobody}
      BY <2>3, <2>6 DEF ChunkInv, OwnChunks
    <3> QED BY <2>2, <2>4, <3>1 DEF OwnChunks
  <2> QED BY <1>4, <2>3, <2>4, <2>5, <2>6 DEF ChunkInv
<1> QED BY <1>1, <1>6, <1>7, <1>8, <1>9, <1>10, <1>11, <1>12 DEF ChunkNext

\* What reaches the callback is all of one sender's result and nothing else,
\* unless two sent at once, for any workers and numbers of chunks
\* (storeChunk, assembleChunks, performCleanup).
THEOREM ResultsAlwaysWhole == ChunkSpec => []ResultsWhole
<1>1. ChunkInv => ResultsWhole
  BY DEF ChunkInv
<1> QED BY <1>1, ChunkInitInv, ChunkStep, PTL DEF ChunkSpec

(* --------------------------------- tags ---------------------------------- *)

Lists == [TagIds -> Nat]
NamesIn(T, list) == {T[i] : i \in {j \in DOMAIN T : list[j] > 0}}
Unique(T, x) == \A i, j \in DOMAIN T : T[i] = x /\ T[j] = x => i = j

TagOps == {"add", "openAdd", "remove", "openRemove", "rename", "extract"}

\* What a request holds fits a table T of tags that has grown since.
AskFits(q, T) ==
  /\ q \in [at : {"read", "found"}, op : TagOps, sheets : SUBSET Sheets, label : Labels, new : Labels,
            old : SUBSET DOMAIN T, seen : {q.seen}, ids : SUBSET DOMAIN T, none : BOOLEAN]
  /\ \A s \in q.sheets : q.seen[s] \in Lists /\ \A i \in TagIds \ DOMAIN T : q.seen[s][i] = 0
  /\ \A i \in q.old : T[i] = q.label
  /\ \A i \in q.ids : T[i] = q.new
  /\ q.op # "rename" => q.label = q.new
  /\ q.op \in {"remove", "openRemove", "rename"} => q.old # {}
  /\ q.at = "found" => q.op \in {"add", "openAdd", "rename", "extract"}
  /\ q.at = "found" /\ q.ids = {} => q.none

TagTyped ==
  /\ tags \in Seq(Labels) /\ Len(tags) <= MaxTags
  /\ carried \in [Sheets -> Lists]
  /\ \A s \in Sheets, i \in TagIds \ DOMAIN tags : carried[s][i] = 0
  /\ DOMAIN change = Taggers /\ \A t \in Taggers : change[t] = Pause \/ AskFits(change[t], tags)
  /\ DOMAIN wanted = Sheets

TagInv == TagTyped /\ TagsKept

LEMMA TagTable ==
  ASSUME NEW T \in Seq(Labels), Len(T) <= MaxTags
  PROVE  DOMAIN T = 1..Len(T) /\ DOMAIN T \subseteq TagIds /\ \A i \in DOMAIN T : T[i] \in Labels
BY TagAssumption DEF TagIds

\* Lists that are written are lists.
LEMMA AlteredLists ==
  ASSUME NEW q, q.op \in TagOps, NEW list \in Lists, NEW ids
  PROVE  Altered(q, list, ids) \in Lists
<1>1. CASE q.op \in {"add", "openAdd"}
  BY <1>1 DEF Altered, Lists, Once
<1>2. CASE q.op = "remove"
  BY <1>2 DEF Altered, Lists, Once
<1>3. CASE q.op = "openRemove"
  BY <1>3 DEF Altered, Lists
<1>4. CASE q.op = "rename"
  BY <1>4 DEF Altered, Lists, Renamed
<1>5. CASE q.op = "extract"
  BY <1>5 DEF Altered, Lists
<1> QED BY <1>1, <1>2, <1>3, <1>4, <1>5 DEF TagOps

\* How often an id is in the list that is written.
LEMMA AlteredAt ==
  ASSUME NEW q, q.op \in TagOps, NEW list \in Lists, NEW ids, NEW i \in TagIds
  PROVE  /\ q.op \in {"add", "openAdd"} =>
              /\ Altered(q, list, ids)[i] > 0 <=> i \in ids \/ list[i] > 0
              /\ Altered(q, list, ids)[i] <= 1
         /\ q.op = "remove" =>
              /\ Altered(q, list, ids)[i] > 0 <=> i \notin q.old /\ list[i] > 0
              /\ Altered(q, list, ids)[i] <= 1
         /\ q.op = "openRemove" =>
              /\ Altered(q, list, ids)[i] > 0 <=> i \notin q.old /\ list[i] > 0
              /\ Altered(q, list, ids)[i] <= list[i]
         /\ q.op = "rename" =>
              /\ Altered(q, list, ids)[i] > 0 <=> i \in ids \/ (i \notin q.old /\ list[i] > 0)
              /\ Altered(q, list, ids)[i] <= list[i] + 1
              /\ i \notin ids => Altered(q, list, ids)[i] <= list[i]
         /\ q.op = "extract" =>
              /\ Altered(q, list, ids)[i] > 0 <=> i \in ids
              /\ Altered(q, list, ids)[i] <= 1
<1>0. list[i] \in Nat
  BY DEF Lists
<1>1. CASE q.op \in {"add", "openAdd"}
  BY <1>0, <1>1 DEF Altered, Once
<1>2. CASE q.op = "remove"
  BY <1>0, <1>2 DEF Altered, Once
<1>3. CASE q.op = "openRemove"
  BY <1>0, <1>3 DEF Altered
<1>4. CASE q.op = "rename"
  BY <1>0, <1>4 DEF Altered, Renamed
<1>5. CASE q.op = "extract"
  BY <1>0, <1>5 DEF Altered
<1> QED BY <1>1, <1>2, <1>3, <1>4, <1>5 DEF TagOps

\* What is written carries the names that were wished for.
LEMMA AlteredNames ==
  ASSUME NEW T \in Seq(Labels), Len(T) <= MaxTags, NEW q, AskFits(q, T),
         NEW list \in Lists, NEW ids \in SUBSET DOMAIN T, \A i \in ids : T[i] = q.new,
         q.at = "found" => ids # {}, q.at = "read" => q.op \in {"remove", "openRemove"},
         NEW x, Unique(T, x), NEW W, x \in NamesIn(T, list) <=> x \in W
  PROVE  x \in NamesIn(T, Altered(q, list, ids)) <=> x \in Wished(q, W)
<1> DEFINE new == Altered(q, list, ids)
<1>0. /\ DOMAIN T \subseteq TagIds /\ q.op \in TagOps /\ q.old \in SUBSET DOMAIN T
      /\ \A i \in q.old : T[i] = q.label
      /\ q.at \in {"read", "found"}
  BY TagTable DEF AskFits
<1>1. /\ x \in NamesIn(T, list) <=> \E i \in DOMAIN T : list[i] > 0 /\ T[i] = x
      /\ x \in NamesIn(T, new) <=> \E i \in DOMAIN T : new[i] > 0 /\ T[i] = x
  BY DEF NamesIn
<1>2. CASE q.op \in {"add", "openAdd"}
  <2>1. ids # {} /\ q.label = q.new
    BY <1>0, <1>2 DEF AskFits
  <2>2. \A i \in DOMAIN T : new[i] > 0 <=> i \in ids \/ list[i] > 0
    BY <1>0, <1>2, AlteredAt
  <2>3. x \in NamesIn(T, new) <=> x = q.new \/ x \in W
    <3> HIDE DEF new
    <3> QED BY <1>1, <2>1, <2>2
  <2> QED BY <1>2, <2>1, <2>3 DEF Wished
<1>3. CASE q.op \in {"remove", "openRemove"}
  <2>1. q.old # {}
    BY <1>3 DEF AskFits
  <2>2. \A i \in DOMAIN T : new[i] > 0 <=> i \notin q.old /\ list[i] > 0
    BY <1>0, <1>3, AlteredAt
  <2>3. x \in NamesIn(T, new) <=> x # q.label /\ x \in W
    <3> HIDE DEF new
    <3> QED BY <1>0, <1>1, <2>1, <2>2 DEF Unique
  <2> QED BY <1>3, <2>3 DEF Wished
<1>4. CASE q.op = "rename"
  <2>1. ids # {} /\ q.old # {}
    BY <1>0, <1>4 DEF AskFits
  <2>2. \A i \in DOMAIN T : new[i] > 0 <=> i \in ids \/ (i \notin q.old /\ list[i] > 0)
    BY <1>0, <1>4, AlteredAt
  <2>3. x \in NamesIn(T, new) <=> x = q.new \/ (x # q.label /\ x \in W)
    <3> HIDE DEF new
    <3> QED BY <1>0, <1>1, <2>1, <2>2 DEF Unique
  <2> QED BY <1>4, <2>3 DEF Wished
<1>5. CASE q.op = "extract"
  <2>1. ids # {} /\ q.label = q.new
    BY <1>0, <1>5 DEF AskFits
  <2>2. \A i \in DOMAIN T : new[i] > 0 <=> i \in ids
    BY <1>0, <1>5, AlteredAt
  <2>3. x \in NamesIn(T, new) <=> x = q.new
    <3> HIDE DEF new
    <3> QED BY <1>1, <2>1, <2>2
  <2> QED BY <1>5, <2>1, <2>3 DEF Wished
<1> QED BY <1>0, <1>2, <1>3, <1>4, <1>5 DEF TagOps

LEMMA NamesBoth == \A list : Names(list) = NamesIn(tags, list) /\ Names(list)' = NamesIn(tags', list)
BY DEF Names, NamesIn

\* A table that grows keeps what was said of it.
LEMMA FitsGrown ==
  ASSUME NEW T, NEW U, NEW q, AskFits(q, T), DOMAIN T \subseteq DOMAIN U, \A i \in DOMAIN T : U[i] = T[i]
  PROVE  AskFits(q, U)
BY DEF AskFits

LEMMA TagInitInv == TagInit => TagInv
<1> SUFFICES ASSUME TagInit PROVE TagInv
  OBVIOUS
<1>1. tags = <<>> /\ Len(tags) = 0 /\ tags \in Seq(Labels) /\ DOMAIN tags = {}
  BY DEF TagInit
<1>2. TagTyped
  BY <1>1, TagAssumption DEF TagInit, TagTyped, Lists, NoTags
<1>3. TagsKept
  BY <1>1 DEF TagInit, TagsKept, Names, NoTags
<1> QED BY <1>2, <1>3 DEF TagInv

\* Requests that only read.
LEMMA ReadFits ==
  ASSUME TagTyped, NEW t \in Taggers, NEW op \in TagOps, NEW S \in SUBSET Sheets, NEW label \in Labels,
         NEW new \in Labels, NEW old \in SUBSET DOMAIN tags, \A i \in old : tags[i] = label,
         op # "rename" => label = new, op \in {"remove", "openRemove", "rename"} => old # {},
         Read(t, op, S, label, new, old), TagsKept
  PROVE  TagInv'
<1> DEFINE q == [at |-> "read", op |-> op, sheets |-> S, label |-> label, new |-> new, old |-> old,
                 seen |-> [s \in S |-> carried[s]], ids |-> {}, none |-> FALSE]
<1>1. q.seen \in [S -> Lists] /\ \A s \in S : q.seen[s] = carried[s]
  BY DEF TagTyped
<1>2. AskFits(q, tags)
  BY <1>1 DEF AskFits, TagTyped
<1>3. /\ change' = [change EXCEPT ![t] = q]
      /\ tags' = tags /\ carried' = carried /\ wanted' = wanted /\ crossing' = crossing
      /\ twice' = twice /\ doubled' = doubled
  BY DEF Read
<1> HIDE DEF q
<1>4. TagTyped'
  BY <1>2, <1>3 DEF TagTyped
<1>5. TagsKept'
  BY <1>3 DEF TagsKept, Names
<1> QED BY <1>4, <1>5 DEF TagInv

LEMMA TagStepRead ==
  ASSUME TagInv, NEW t \in Taggers,
         \/ \E s \in Sheets :
              \/ \E label \in Labels :
                   BeginAdd(t, s, label) \/ BeginOpenAdd(t, s, label)
                   \/ BeginRemove(t, s, label) \/ BeginExtract(t, s, label)
              \/ \E i \in DOMAIN tags : BeginOpenRemove(t, s, i)
         \/ \E i \in DOMAIN tags, new \in Labels : BeginRename(t, i, new)
  PROVE  TagInv'
<1>0. TagTyped /\ TagsKept /\ \A i \in DOMAIN tags : tags[i] \in Labels
  BY TagTable DEF TagInv, TagTyped
<1>1. {} \in SUBSET DOMAIN tags
  OBVIOUS
<1>2. ASSUME NEW s \in Sheets, NEW label \in Labels, BeginAdd(t, s, label) PROVE TagInv'
  BY <1>0, <1>1, <1>2, ReadFits DEF BeginAdd, TagOps
<1>3. ASSUME NEW s \in Sheets, NEW label \in Labels, BeginOpenAdd(t, s, label) PROVE TagInv'
  BY <1>0, <1>1, <1>3, ReadFits DEF BeginOpenAdd, TagOps
<1>4. ASSUME NEW s \in Sheets, NEW label \in Labels, BeginExtract(t, s, label) PROVE TagInv'
  BY <1>0, <1>1, <1>4, ReadFits DEF BeginExtract, TagOps
<1>5. ASSUME NEW s \in Sheets, NEW label \in Labels, BeginRemove(t, s, label) PROVE TagInv'
  <2>1. Named(label) \in SUBSET DOMAIN tags /\ Named(label) # {} /\ \A i \in Named(label) : tags[i] = label
    BY <1>5 DEF BeginRemove, Names, Named
  <2> QED BY <1>0, <1>5, <2>1, ReadFits DEF BeginRemove, TagOps
<1>6. ASSUME NEW s \in Sheets, NEW i \in DOMAIN tags, BeginOpenRemove(t, s, i) PROVE TagInv'
  <2>1. {i} \in SUBSET DOMAIN tags /\ {i} # {} /\ \A j \in {i} : tags[j] = tags[i]
    OBVIOUS
  <2> QED BY <1>0, <1>6, <2>1, ReadFits DEF BeginOpenRemove, TagOps
<1>7. ASSUME NEW i \in DOMAIN tags, NEW new \in Labels, BeginRename(t, i, new) PROVE TagInv'
  <2>1. {i} \in SUBSET DOMAIN tags /\ {i} # {} /\ \A j \in {i} : tags[j] = tags[i]
    OBVIOUS
  <2>2. {s \in Sheets : carried[s][i] > 0} \in SUBSET Sheets
    OBVIOUS
  <2> QED BY <1>0, <1>7, <2>1, <2>2, ReadFits, SMTT(20) DEF BeginRename, TagOps
<1> QED BY <1>2, <1>3, <1>4, <1>5, <1>6, <1>7

LEMMA TagStepLookUp ==
  ASSUME TagInv, NEW t \in Taggers, LookUp(t)
  PROVE  TagInv'
<1>0. TagTyped /\ TagsKept /\ change[t] # Pause /\ AskFits(change[t], tags)
  BY DEF LookUp, TagInv, TagTyped, Pause
<1>1. PICK F \in Answers(change[t].op, change[t].new) :
        change' = [change EXCEPT ![t].at = "found", ![t].ids = F, ![t].none = (Named(change[t].new) = {})]
  BY DEF LookUp
<1>2. PICK q : q = change[t]
  OBVIOUS
<1>3. PICK none \in BOOLEAN : none = (Named(q.new) = {})
  OBVIOUS
<1>4. F \in SUBSET DOMAIN tags /\ (\A i \in F : tags[i] = q.new) /\ (F = {} => none)
  BY <1>1, <1>2, <1>3 DEF Answers, Found, Named
<1>5. PICK r : r = [q EXCEPT !.at = "found", !.ids = F, !.none = none]
  OBVIOUS
<1>6. change' = [change EXCEPT ![t] = r]
  BY <1>0, <1>1, <1>2, <1>3, <1>5 DEF TagTyped
<1>7. AskFits(q, tags) /\ q.op \in {"add", "openAdd", "rename", "extract"}
  BY <1>0, <1>2 DEF LookUp
<1>8. /\ r.at = "found" /\ r.ids = F /\ r.none = none /\ r.op = q.op /\ r.sheets = q.sheets
      /\ r.label = q.label /\ r.new = q.new /\ r.old = q.old /\ r.seen = q.seen
      /\ r = [at |-> "found", op |-> q.op, sheets |-> q.sheets, label |-> q.label, new |-> q.new, old |-> q.old,
              seen |-> q.seen, ids |-> F, none |-> none]
  BY <1>5, <1>7 DEF AskFits
<1>9. AskFits(r, tags)
  BY <1>4, <1>7, <1>8 DEF AskFits
<1>10. /\ tags' = tags /\ carried' = carried /\ wanted' = wanted /\ crossing' = crossing
       /\ twice' = twice /\ doubled' = doubled
  BY DEF LookUp
<1>11. TagTyped'
  BY <1>0, <1>6, <1>9, <1>10 DEF TagTyped
<1>12. TagsKept'
  BY <1>0, <1>10 DEF TagsKept, Names
<1> QED BY <1>11, <1>12 DEF TagInv

\* A list that was read is written over one that may have changed.
LEMMA TagStepWrite ==
  ASSUME TagInv, NEW t \in Taggers, WriteList(t)
  PROVE  TagInv'
<1> DEFINE q == change[t]
           makes == q.at = "found" /\ q.ids = {}
           ids == IF makes THEN {Len(tags) + 1} ELSE q.ids
<1>0. TagTyped /\ TagsKept /\ q # Pause /\ AskFits(q, tags)
  BY DEF WriteList, TagInv, TagTyped, Pause
<1>1. /\ tags \in Seq(Labels) /\ Len(tags) \in Nat /\ Len(tags) <= MaxTags
      /\ DOMAIN tags = 1..Len(tags) /\ q.new \in Labels
  BY <1>0, TagTable DEF TagTyped, AskFits
<1>2. /\ tags' \in Seq(Labels) /\ Len(tags') <= MaxTags /\ DOMAIN tags' = 1..Len(tags')
      /\ DOMAIN tags \subseteq DOMAIN tags' /\ \A i \in DOMAIN tags : tags'[i] = tags[i]
      /\ ids \in SUBSET DOMAIN tags' /\ \A i \in ids : tags'[i] = q.new
      /\ \A i \in DOMAIN tags' \ DOMAIN tags : makes /\ i = Len(tags) + 1
  <2>1. CASE makes
    <3>1. tags' = Append(tags, q.new) /\ Len(tags) < MaxTags
      BY <2>1 DEF WriteList
    <3>2. /\ tags' \in Seq(Labels) /\ Len(tags') = Len(tags) + 1
          /\ \A i \in 1..Len(tags) : tags'[i] = tags[i]
          /\ tags'[Len(tags) + 1] = q.new
      BY <1>1, <3>1, AppendProperties
    <3>3. DOMAIN tags' = 1..(Len(tags) + 1)
      BY <3>2
    <3>4. ids = {Len(tags) + 1}
      BY <2>1
    <3> HIDE DEF q, ids, makes
    <3>5. ids \in SUBSET DOMAIN tags' /\ \A i \in ids : tags'[i] = q.new
      BY <1>1, <3>2, <3>3, <3>4
    <3>6. DOMAIN tags \subseteq DOMAIN tags' /\ \A i \in DOMAIN tags : tags'[i] = tags[i]
      BY <1>1, <3>2, <3>3
    <3>7. \A i \in DOMAIN tags' \ DOMAIN tags : makes /\ i = Len(tags) + 1
      BY <1>1, <2>1, <3>3
    <3>8. Len(tags') <= MaxTags
      BY <1>1, <3>1, <3>2, TagAssumption
    <3>9. DOMAIN tags' = 1..Len(tags')
      BY <3>2, <3>3
    <3>10. tags' \in Seq(Labels)
      BY <3>2
    <3> QED BY <3>5, <3>6, <3>7, <3>8, <3>9, <3>10
  <2>2. CASE ~makes
    <3>1. tags' = tags
      BY <2>2 DEF WriteList
    <3> QED BY <1>0, <1>1, <2>2, <3>1 DEF AskFits
  <2> QED BY <2>1, <2>2
<1>3. /\ carried' = [s \in Sheets |-> IF s \in q.sheets THEN Altered(q, q.seen[s], ids) ELSE carried[s]]
      /\ wanted' = [s \in Sheets |-> IF s \in q.sheets THEN Wished(q, wanted[s]) ELSE wanted[s]]
      /\ crossing' = crossing \union {s \in q.sheets : carried[s] # q.seen[s]}
      /\ twice' = IF q.none /\ Named(q.new) # {} THEN twice \union {q.new} ELSE twice
      /\ doubled' = doubled \union {s \in q.sheets : q.op = "rename" /\ \E i \in ids : q.seen[s][i] > 0}
      /\ change' = [change EXCEPT ![t] = Pause]
      /\ q.at = "found" \/ (q.at = "read" /\ q.op \in {"remove", "openRemove"})
  BY DEF WriteList
<1>4. /\ AskFits(q, tags') /\ q.op \in TagOps /\ (q.at = "found" => ids # {})
      /\ (q.at = "read" => q.op \in {"remove", "openRemove"})
      /\ \A s \in q.sheets : q.seen[s] \in Lists
  <2>1. AskFits(q, tags')
    BY <1>0, <1>2, FitsGrown
  <2>2. q.at = "found" => ids # {}
    BY <1>2
  <2>3. q.op \in TagOps /\ \A s \in q.sheets : q.seen[s] \in Lists
    BY <1>0 DEF AskFits
  <2>4. q.at = "read" => q.op \in {"remove", "openRemove"}
    BY <1>3
  <2> QED BY <2>1, <2>2, <2>3, <2>4
<1> HIDE DEF q, ids, makes
<1>5. ASSUME NEW s \in q.sheets, NEW i \in TagIds \ DOMAIN tags'
      PROVE  Altered(q, q.seen[s], ids)[i] = 0
  <2>1. q.seen[s] \in Lists /\ q.seen[s][i] = 0 /\ i \notin ids
    BY <1>2, <1>4 DEF AskFits
  <2>2. Altered(q, q.seen[s], ids) \in Lists
    BY <1>4, <2>1, AlteredLists
  <2>3. ~(Altered(q, q.seen[s], ids)[i] > 0)
    BY <1>4, <2>1, AlteredAt DEF TagOps
  <2> QED BY <2>2, <2>3 DEF Lists
<1>6. TagTyped'
  <2>1. carried' \in [Sheets -> Lists]
    BY <1>0, <1>3, <1>4, AlteredLists DEF TagTyped
  <2>2. \A s \in Sheets, i \in TagIds \ DOMAIN tags' : carried'[s][i] = 0
    BY <1>0, <1>2, <1>3, <1>5 DEF TagTyped
  <2>3. DOMAIN change' = Taggers /\ \A u \in Taggers : change'[u] = Pause \/ AskFits(change'[u], tags')
    BY <1>0, <1>2, <1>3, FitsGrown DEF TagTyped
  <2>4. DOMAIN wanted' = Sheets
    BY <1>3
  <2> QED BY <1>2, <2>1, <2>2, <2>3, <2>4 DEF TagTyped
<1>7. ASSUME NEW x \in Labels \ twice' PROVE Unique(tags', x)
  <2>1. x \notin twice
    BY <1>3, <1>7
  <2>2. Unique(tags, x)
    BY <1>0, <2>1 DEF TagsKept, Unique
  <2>3. CASE makes /\ x = q.new
    <3>1. q.none
      BY <1>0, <2>3 DEF AskFits, makes
    <3>2. Named(q.new) = {}
      BY <1>3, <1>7, <2>3, <3>1
    <3> QED BY <1>2, <2>3, <3>2 DEF Named, Unique
  <2>4. CASE ~makes
    BY <1>2, <2>2, <2>4 DEF Unique
  <2>5. CASE makes /\ x # q.new
    <3>1. \A i \in DOMAIN tags' \ DOMAIN tags : tags'[i] = q.new
      BY <1>2, <2>5 DEF ids
    <3> QED BY <1>2, <2>2, <2>5, <3>1 DEF Unique
  <2> QED BY <2>3, <2>4, <2>5
<1>8. ASSUME NEW s \in Sheets \ crossing' PROVE Names(carried[s])' \ twice' = wanted'[s] \ twice'
  <2>1. s \in Sheets \ crossing /\ (s \in q.sheets => q.seen[s] = carried[s])
    BY <1>3, <1>8
  <2>2. Names(carried[s]) \ twice = wanted[s] \ twice
    BY <1>0, <2>1 DEF TagsKept
  <2>3. ASSUME NEW x, x \notin twice'
        PROVE  x \in NamesIn(tags', carried[s]) <=> x \in wanted[s]
    <3>1. x \in NamesIn(tags, carried[s]) <=> x \in wanted[s]
      BY <1>3, <2>2, <2>3, NamesBoth
    <3>2. \A i \in DOMAIN tags' : carried[s][i] > 0 => i \in DOMAIN tags
      <4>1. \A i \in TagIds \ DOMAIN tags : carried[s][i] = 0
        BY <1>0, <2>1 DEF TagTyped
      <4>2. DOMAIN tags' \subseteq TagIds
        BY <1>2, TagTable
      <4> QED BY <4>1, <4>2
    <3> QED BY <1>2, <3>1, <3>2 DEF NamesIn
  <2>4. ASSUME NEW x, x \notin twice'
        PROVE  x \in NamesIn(tags', carried'[s]) <=> x \in wanted'[s]
    <3>1. CASE s \notin q.sheets
      BY <1>3, <2>1, <2>3, <2>4, <3>1
    <3>2. CASE s \in q.sheets
      <4>1. carried'[s] = Altered(q, carried[s], ids) /\ wanted'[s] = Wished(q, wanted[s])
        BY <1>3, <2>1, <3>2
      <4>2. carried[s] \in Lists
        BY <1>0, <2>1 DEF TagTyped
      <4>3. Unique(tags', x)
        <5>1. CASE x \in Labels
          BY <1>7, <2>4, <5>1
        <5>2. CASE x \notin Labels
          BY <1>2, <5>2, TagTable DEF Unique
        <5> QED BY <5>1, <5>2
      <4>4. x \in NamesIn(tags', carried[s]) <=> x \in wanted[s]
        BY <2>3, <2>4
      <4>5. PICK T \in Seq(Labels) : T = tags' /\ Len(T) <= MaxTags
        BY <1>2
      <4>6. ids \in SUBSET DOMAIN T /\ \A i \in ids : T[i] = q.new
        BY <1>2, <4>5
      <4>7. AskFits(q, T) /\ (q.at = "found" => ids # {}) /\ (q.at = "read" => q.op \in {"remove", "openRemove"})
        BY <1>4, <4>5
      <4>8. x \in NamesIn(T, Altered(q, carried[s], ids)) <=> x \in Wished(q, wanted[s])
        BY <4>2, <4>3, <4>4, <4>5, <4>6, <4>7, AlteredNames
      <4> QED BY <4>1, <4>5, <4>8
    <3> QED BY <3>1, <3>2
  <2>5. Names(carried[s])' = NamesIn(tags', carried'[s])
    BY DEF Names, NamesIn
  <2> QED BY <2>4, <2>5
<1>9. ASSUME NEW s \in Sheets \ (crossing' \union doubled'), NEW i \in TagIds
      PROVE  carried'[s][i] <= 1
  <2>1. s \in Sheets \ (crossing \union doubled) /\ (s \in q.sheets => q.seen[s] = carried[s])
        /\ (s \in q.sheets /\ q.op = "rename" => \A j \in ids : ~(q.seen[s][j] > 0))
    BY <1>3, <1>9
  <2>2. carried[s] \in Lists /\ carried[s][i] \in Nat /\ carried[s][i] <= 1
    BY <1>0, <2>1 DEF TagsKept, TagTyped, Lists
  <2>3. CASE s \notin q.sheets
    BY <1>3, <2>1, <2>2, <2>3
  <2>4. CASE s \in q.sheets
    <3>1. carried'[s] = Altered(q, carried[s], ids) /\ Altered(q, carried[s], ids) \in Lists
      BY <1>3, <1>4, <2>1, <2>2, <2>4, AlteredLists
    <3>2. Altered(q, carried[s], ids)[i] \in Nat
      BY <3>1 DEF Lists
    <3>3. q.op = "rename" /\ i \in ids => carried[s][i] = 0
      BY <2>1, <2>2, <2>4
    <3>4. Altered(q, carried[s], ids)[i] <= 1
      BY <1>4, <2>2, <3>2, <3>3, AlteredAt DEF TagOps
    <3> QED BY <3>1, <3>4
  <2> QED BY <2>3, <2>4
<1>10. TagsKept'
  BY <1>7, <1>8, <1>9 DEF TagsKept, Unique
<1> QED BY <1>6, <1>10 DEF TagInv

LEMMA TagStepReplace ==
  ASSUME TagInv, NEW s \in Sheets, NEW S \in SUBSET DOMAIN tags, Replace(s, S)
  PROVE  TagInv'
<1>0. TagTyped /\ TagsKept /\ DOMAIN tags \subseteq TagIds
  BY TagTable DEF TagInv, TagTyped
<1>1. PICK list \in Lists : list = [i \in TagIds |-> IF i \in S THEN 1 ELSE 0]
  BY DEF Lists
<1>2. /\ carried' = [carried EXCEPT ![s] = list] /\ wanted' = [wanted EXCEPT ![s] = {tags[i] : i \in S}]
      /\ tags' = tags /\ change' = change /\ crossing' = crossing /\ twice' = twice /\ doubled' = doubled
  BY <1>1 DEF Replace
<1>3. TagTyped'
  BY <1>0, <1>1, <1>2 DEF TagTyped
<1>4. carried'[s] = list /\ wanted'[s] = {tags[i] : i \in S}
  BY <1>0, <1>2 DEF TagTyped
<1>5. \A u \in Sheets \ {s} : carried'[u] = carried[u] /\ wanted'[u] = wanted[u]
  BY <1>0, <1>2 DEF TagTyped
<1>6. NamesIn(tags, list) = {tags[i] : i \in S}
  BY <1>0, <1>1 DEF NamesIn
<1>7. ASSUME NEW u \in Sheets \ crossing PROVE Names(carried[u])' \ twice = wanted'[u] \ twice
  <2>1. Names(carried[u])' = NamesIn(tags, carried'[u]) /\ Names(carried[u]) = NamesIn(tags, carried[u])
    BY <1>2 DEF Names, NamesIn
  <2>2. Names(carried[u]) \ twice = wanted[u] \ twice
    BY <1>0 DEF TagsKept
  <2>3. CASE u = s
    BY <1>4, <1>6, <2>1, <2>3
  <2>4. CASE u # s
    BY <1>5, <2>1, <2>2, <2>4
  <2> QED BY <2>3, <2>4
<1>8. \A u \in Sheets \ (crossing \union doubled), i \in TagIds : carried'[u][i] <= 1
  BY <1>0, <1>1, <1>4, <1>5 DEF TagsKept
<1> QED BY <1>0, <1>2, <1>3, <1>7, <1>8 DEF TagInv, TagsKept

LEMMA TagStep == TagInv /\ [TagNext]_tagVars => TagInv'
<1> SUFFICES ASSUME TagInv, [TagNext]_tagVars PROVE TagInv'
  OBVIOUS
<1>1. CASE UNCHANGED tagVars
  BY <1>1 DEF tagVars, TagInv, TagTyped, TagsKept, Names
<1>2. CASE TagNext
  BY <1>2, TagStepRead, TagStepLookUp, TagStepWrite, TagStepReplace DEF TagNext
<1> QED BY <1>1, <1>2

\* A resource carries the tags it was given and none that were taken from it,
\* each once, and a name has one tag, but for what requests tore that crossed,
\* for any resources, tags and requests (resource-tags.service.ts,
\* tag.service.ts).
THEOREM TagsAlwaysKept == TagSpec => []TagsKept
<1>1. TagInv => TagsKept
  BY DEF TagInv
<1> QED BY <1>1, TagInitInv, TagStep, PTL DEF TagSpec

(* -------------------------- quota of feed folders ------------------------- *)

Asking == [at : {"asked", "holds"}, what : Holdings, into : Targets, to : Spaces, number : Nat,
           way : {"create", "move"}]
Counting == [at : {"counted"}, what : Feeds, to : Spaces, missed : BOOLEAN]

FeedTyped ==
  /\ place \in [Holdings -> Targets] /\ \A b \in Boxes : place[b] \in Spaces
  /\ quotaLock \in [Spaces -> Movers \union {Free}]
  /\ DOMAIN mover = Movers
  /\ \A m \in Movers :
       /\ mover[m] \in Asking \union Counting \union {Still}
       /\ mover[m].at \in {"asked", "holds"} /\ mover[m].what \in Boxes => mover[m].into \in Spaces
  /\ unchecked \in [Spaces -> Nat]

\* Room in s for n more.
Room(s, n) == FolderLimit[s] >= 0 => CountActive(s) + n <= FolderLimit[s] + unchecked[s]

\* Who was let in still fits: who holds the lock, and who counted what nobody
\* added to.
LetIn(m) ==
  /\ mover[m].at = "holds" => quotaLock[mover[m].to] = m /\ Room(mover[m].to, mover[m].number)
  /\ mover[m].at = "counted" /\ ~mover[m].missed => Room(mover[m].to, 1)

FeedInv == FeedTyped /\ RssWithinLimit /\ \A m \in Movers : LetIn(m)

LEMMA FeedSpaces ==
  ASSUME FeedTyped, NEW p \in Targets
  PROVE  Root(p) \in Spaces
BY DEF FeedTyped, Root, Targets, Holdings

LEMMA CountsAreNumbers ==
  ASSUME NEW pl, NEW st, NEW s
  PROVE  Cardinality(Within(pl, st, s)) \in Nat
<1>1. Within(pl, st, s) \subseteq Feeds
  BY DEF Within
<1> QED BY <1>1, RssQuotaAssumption, FS_Subset, FS_CardinalityType

LEMMA IncomingIsNumber == \A x, s : Cardinality(Incoming(x, s)) \in Nat
<1> TAKE x, s
<1>1. Incoming(x, s) \subseteq Feeds
  BY DEF Incoming
<1> QED BY <1>1, RssQuotaAssumption, FS_Subset, FS_CardinalityType

LEMMA CameIsNumber ==
  ASSUME NEW s
  PROVE  /\ Came(s) \in Nat /\ CountActive(s) \in Nat /\ CountActive(s)' \in Nat
         /\ CountActive(s)' <= CountActive(s) + Came(s)
<1>1. CountActive(s) \in Nat /\ CountActive(s)' \in Nat
  BY CountsAreNumbers DEF CountActive
<1>2. Came(s) = Positive(CountActive(s)' - CountActive(s))
  BY DEF Came, CountActive
<1> QED BY <1>1, <1>2 DEF Positive

\* What comes in is covered or noted, so there is as much room as before.
LEMMA RoomAfterEnter ==
  ASSUME FeedTyped, NEW s \in Spaces, NEW n \in Nat, Enter(Covers(s, n))
  PROVE  /\ unchecked' \in [Spaces -> Nat]
         /\ \A k \in Spaces, i \in Nat : (k # s \/ n = 0) /\ Room(k, i) => Room(k, i)'
         /\ Room(s, n) => Room(s, 0)'
         /\ \A k \in Spaces, i \in Nat : Came(k) = 0 /\ Room(k, i) => Room(k, i)'
<1>1. \A k \in Spaces : Came(k) \in Nat
  BY CameIsNumber
<1>2. \A k \in Spaces : unchecked'[k] = unchecked[k] + Positive(Came(k) - (IF k = s THEN n ELSE 0))
  BY DEF Enter, Covers
<1>3. unchecked' \in [Spaces -> Nat]
  <2>1. \A k \in Spaces : unchecked[k] + Positive(Came(k) - (IF k = s THEN n ELSE 0)) \in Nat
    BY <1>1 DEF FeedTyped, Positive
  <2>2. unchecked' = [k \in Spaces |-> unchecked[k] + Positive(Came(k) - (IF k = s THEN n ELSE 0))]
    BY DEF Enter, Covers
  <2> QED BY <2>1, <2>2
<1>4. FolderLimit \in [Spaces -> Int]
  BY RssQuotaAssumption
<1>5. ASSUME NEW k \in Spaces, NEW i \in Nat, k # s \/ n = 0, Room(k, i)
      PROVE  Room(k, i)'
  <2>1. unchecked'[k] = unchecked[k] + Came(k)
    BY <1>1, <1>2, <1>5 DEF Positive
  <2>2. unchecked[k] \in Nat
    BY DEF FeedTyped
  <2>3. /\ Came(k) \in Nat /\ CountActive(k) \in Nat /\ CountActive(k)' \in Nat
        /\ CountActive(k)' <= CountActive(k) + Came(k)
    BY CameIsNumber
  <2> QED BY <1>4, <1>5, <2>1, <2>2, <2>3 DEF Room
<1>6. ASSUME Room(s, n) PROVE Room(s, 0)'
  <2>1. unchecked'[s] >= unchecked[s] + Came(s) - n
    BY <1>1, <1>2 DEF Positive, FeedTyped
  <2>2. unchecked[s] \in Nat /\ unchecked'[s] \in Nat
    BY <1>3 DEF FeedTyped
  <2>3. /\ Came(s) \in Nat /\ CountActive(s) \in Nat /\ CountActive(s)' \in Nat
        /\ CountActive(s)' <= CountActive(s) + Came(s)
    BY CameIsNumber
  <2> QED BY <1>4, <1>6, <2>1, <2>2, <2>3 DEF Room
<1>7. ASSUME NEW k \in Spaces, NEW i \in Nat, Came(k) = 0, Room(k, i)
      PROVE  Room(k, i)'
  <2>1. unchecked'[k] = unchecked[k]
    BY <1>2, <1>7 DEF Positive, FeedTyped
  <2>2. unchecked[k] \in Nat
    BY DEF FeedTyped
  <2>3. CountActive(k) \in Nat /\ CountActive(k)' \in Nat /\ CountActive(k)' <= CountActive(k)
    BY <1>7, CameIsNumber
  <2> QED BY <1>4, <1>7, <2>1, <2>2, <2>3 DEF Room
<1> QED BY <1>3, <1>5, <1>6, <1>7

\* Rooms are where no number changed.
LEMMA RoomKept ==
  ASSUME place' = place, stage' = stage, unchecked' = unchecked
  PROVE  \A s, n : Room(s, n) <=> Room(s, n)'
BY DEF Room, CountActive, Within

LEMMA LimitIsRoom == RssWithinLimit <=> \A s \in Spaces : Room(s, 0)
<1>1. \A s \in Spaces : CountActive(s) \in Nat
  BY CountsAreNumbers DEF CountActive
<1> QED BY <1>1 DEF RssWithinLimit, Room, CountActive

LEMMA FeedInitInv == RssQuotaInit => FeedInv
<1> SUFFICES ASSUME RssQuotaInit PROVE FeedInv
  OBVIOUS
<1>1. FeedTyped
  BY RssQuotaAssumption DEF RssQuotaInit, FeedTyped, Holdings, Targets, Still
<1>2. ASSUME NEW s \in Spaces PROVE Room(s, 0)
  <2>1. Within(place, stage, s) = {}
    BY DEF RssQuotaInit, Within, Holdings
  <2>2. CountActive(s) = 0
    BY <2>1, FS_EmptySet DEF CountActive
  <2> QED BY <2>2, RssQuotaAssumption DEF RssQuotaInit, Room
<1>3. \A m \in Movers : LetIn(m)
  BY DEF RssQuotaInit, LetIn, Still
<1> QED BY <1>1, <1>2, <1>3, LimitIsRoom DEF FeedInv

\* A request goes on, and what there is stays.
LEMMA FeedQuiet ==
  ASSUME FeedInv, NEW m \in Movers, NEW r \in Asking \union Counting \union {Still},
         r.at \in {"asked", "holds"} /\ r.what \in Boxes => r.into \in Spaces,
         mover' = [mover EXCEPT ![m] = r],
         place' = place, stage' = stage, unchecked' = unchecked,
         quotaLock' \in [Spaces -> Movers \union {Free}],
         \A k \in Movers \ {m}, s \in Spaces : quotaLock[s] = k => quotaLock'[s] = k,
         r.at = "holds" => quotaLock'[r.to] = m /\ Room(r.to, r.number),
         r.at = "counted" /\ ~r.missed => Room(r.to, 1)
  PROVE  FeedInv'
<1>1. FeedTyped /\ RssWithinLimit /\ \A k \in Movers : LetIn(k)
  BY DEF FeedInv
<1>2. FeedTyped'
  BY <1>1 DEF FeedTyped
<1>3. RssWithinLimit'
  BY <1>1 DEF RssWithinLimit, Within
<1>4. mover'[m] = r /\ \A k \in Movers \ {m} : mover'[k] = mover[k]
  BY <1>1 DEF FeedTyped
<1>5. LetIn(m)'
  BY <1>4, RoomKept DEF LetIn
<1>6. ASSUME NEW k \in Movers, k # m PROVE LetIn(k)'
  <2>1. LetIn(k) /\ mover'[k] = mover[k] /\ mover[k] \in Asking \union Counting \union {Still}
    BY <1>1, <1>4, <1>6 DEF FeedTyped
  <2>2. mover[k].at = "holds" => mover[k].to \in Spaces
    BY <2>1 DEF Asking, Counting, Still
  <2> QED BY <1>6, <2>1, <2>2, RoomKept DEF LetIn
<1> QED BY <1>2, <1>3, <1>5, <1>6 DEF FeedInv

\* Something came, went or moved.
LEMMA FeedMoves ==
  ASSUME FeedInv, NEW M, DOMAIN M = Movers,
         \A k \in Movers : M[k] = Still \/ M[k] = mover[k],
         mover' = Missed(M),
         place' \in [Holdings -> Targets], \A b \in Boxes : place'[b] \in Spaces,
         quotaLock' \in [Spaces -> Movers \union {Free}],
         \A k \in Movers, s \in Spaces : quotaLock[s] = k /\ M[k] # Still => quotaLock'[s] = k,
         NEW t \in Spaces, NEW n \in Nat, Enter(Covers(t, n)),
         n > 0 => /\ Room(t, n)
                  /\ \A k \in Movers : M[k].at = "holds" => M[k].to # t
  PROVE  FeedInv'
<1>1. FeedTyped /\ RssWithinLimit /\ \A k \in Movers : LetIn(k)
  BY DEF FeedInv
<1>2. \A k \in Movers : M[k] \in Asking \union Counting \union {Still}
  BY <1>1 DEF FeedTyped
<1>3. /\ DOMAIN mover' = Movers
      /\ \A k \in Movers : mover'[k] = IF M[k].at = "counted" /\ Came(M[k].to) > 0
                                         THEN [M[k] EXCEPT !.missed = TRUE] ELSE M[k]
  BY DEF Missed
<1>4. ASSUME NEW k \in Movers, M[k].at = "counted", Came(M[k].to) > 0
      PROVE  mover'[k] \in Counting /\ mover'[k].missed = TRUE
  <2>1. M[k] \in Counting
    BY <1>2, <1>4 DEF Asking, Still
  <2>2. mover'[k] = [M[k] EXCEPT !.missed = TRUE]
    BY <1>3, <1>4
  <2> QED BY <2>1, <2>2 DEF Counting
<1>5. ASSUME NEW k \in Movers, ~(M[k].at = "counted" /\ Came(M[k].to) > 0)
      PROVE  mover'[k] = M[k]
  BY <1>3, <1>5
<1>6. /\ unchecked' \in [Spaces -> Nat]
      /\ \A k \in Spaces, i \in Nat : (k # t \/ n = 0) /\ Room(k, i) => Room(k, i)'
      /\ Room(t, n) => Room(t, 0)'
      /\ \A k \in Spaces, i \in Nat : Came(k) = 0 /\ Room(k, i) => Room(k, i)'
  BY <1>1, RoomAfterEnter
<1>7. FeedTyped'
  <2>1. ASSUME NEW k \in Movers
        PROVE  /\ mover'[k] \in Asking \union Counting \union {Still}
               /\ mover'[k].at \in {"asked", "holds"} /\ mover'[k].what \in Boxes => mover'[k].into \in Spaces
    <3>1. CASE M[k].at = "counted" /\ Came(M[k].to) > 0
      BY <1>4, <3>1 DEF Counting
    <3>2. CASE ~(M[k].at = "counted" /\ Came(M[k].to) > 0)
      BY <1>1, <1>2, <1>5, <3>2 DEF FeedTyped, Still
    <3> QED BY <3>1, <3>2
  <2> QED BY <1>3, <1>6, <2>1 DEF FeedTyped
<1>8. RssWithinLimit'
  <2>1. ASSUME NEW s \in Spaces PROVE Room(s, 0)'
    <3>1. Room(s, 0)
      BY <1>1, LimitIsRoom
    <3> QED BY <1>6, <3>1
  <2>2. RssWithinLimit' <=> \A s \in Spaces : Room(s, 0)'
    <3>1. \A s \in Spaces : CountActive(s)' \in Nat
      BY CountsAreNumbers DEF CountActive
    <3> QED BY <3>1, <1>6 DEF RssWithinLimit, Room, CountActive
  <2> QED BY <2>1, <2>2
<1>9. ASSUME NEW k \in Movers PROVE LetIn(k)'
  <2>1. CASE M[k].at = "counted" /\ Came(M[k].to) > 0
    BY <1>4, <2>1 DEF LetIn, Counting
  <2>2. CASE ~(M[k].at = "counted" /\ Came(M[k].to) > 0) /\ M[k] # Still
    <3>1. mover'[k] = mover[k] /\ M[k] = mover[k] /\ LetIn(k)
      BY <1>1, <1>5, <2>2
    <3>2. ASSUME mover[k].at = "holds"
          PROVE  quotaLock'[mover[k].to] = k /\ Room(mover[k].to, mover[k].number)'
      <4>1. mover[k].to \in Spaces /\ mover[k].number \in Nat
        BY <1>2, <3>1, <3>2 DEF Asking, Counting, Still
      <4>2. quotaLock[mover[k].to] = k /\ Room(mover[k].to, mover[k].number)
        BY <3>1, <3>2 DEF LetIn
      <4>3. mover[k].to # t \/ n = 0
        BY <3>1, <3>2
      <4>4. PICK s, i : s = mover[k].to /\ i = mover[k].number
        OBVIOUS
      <4>5. Room(s, i)'
        BY <1>6, <4>1, <4>2, <4>3, <4>4
      <4>6. s = mover'[k].to /\ i = mover'[k].number
        BY <3>1, <4>4
      <4> QED BY <2>2, <3>1, <4>1, <4>2, <4>4, <4>5, <4>6
    <3>3. ASSUME mover[k].at = "counted", ~mover[k].missed
          PROVE  Room(mover[k].to, 1)'
      <4>1. mover[k].to \in Spaces
        BY <1>2, <3>1, <3>3 DEF Asking, Counting, Still
      <4>2. Came(mover[k].to) = 0
        BY <2>2, <3>1, <3>3, <4>1, CameIsNumber
      <4>3. PICK s : s = mover[k].to
        OBVIOUS
      <4>4. Room(s, 1)'
        BY <1>6, <3>1, <3>3, <4>1, <4>2, <4>3 DEF LetIn
      <4> QED BY <3>1, <4>3, <4>4
    <3> QED BY <3>1, <3>2, <3>3 DEF LetIn
  <2>3. CASE M[k] = Still
    <3>1. mover'[k] = Still
      BY <1>5, <2>3 DEF Still
    <3> QED BY <3>1 DEF LetIn, Still
  <2> QED BY <2>1, <2>2, <2>3
<1> QED BY <1>7, <1>8, <1>9 DEF FeedInv

LEMMA StillIsNoOther == \A m \in Movers : mover[m].at \in {"asked", "holds", "counted"} => mover[m] # Still
BY DEF Still

LEMMA FeedStepBegin ==
  ASSUME FeedInv, NEW m \in Movers, NEW x \in Holdings,
         (\E p \in Targets : (x \in Feeds /\ BeginCreate(m, x, p)) \/ BeginMove(m, x, p)) \/ BeginRestoreFeed(m, x)
  PROVE  FeedInv'
<1>1. FeedTyped
  BY DEF FeedInv
<1>2. ASSUME NEW p \in Targets, x \in Feeds, BeginCreate(m, x, p) PROVE FeedInv'
  <2> DEFINE r == [at |-> "asked", what |-> x, into |-> p, to |-> Root(p), number |-> 1, way |-> "create"]
  <2>1. r \in Asking /\ x \notin Boxes /\ r.at = "asked" /\ r.what = x
    BY <1>1, <1>2, FeedSpaces, RssQuotaAssumption DEF Asking
  <2>2. /\ mover' = [mover EXCEPT ![m] = r]
        /\ place' = place /\ stage' = stage /\ quotaLock' = quotaLock /\ unchecked' = unchecked
    BY <1>2 DEF BeginCreate, Ask, Proceed
  <2>3. quotaLock \in [Spaces -> Movers \union {Free}]
    BY <1>1 DEF FeedTyped
  <2> HIDE DEF r
  <2> QED BY <2>1, <2>2, <2>3, FeedQuiet
<1>3. ASSUME NEW p \in Targets, BeginMove(m, x, p) PROVE FeedInv'
  <2> DEFINE r == [at |-> "asked", what |-> x, into |-> p, to |-> Root(p),
                   number |-> Cardinality(Incoming(x, Root(p))), way |-> "move"]
  <2>1. /\ r \in Asking /\ r.at = "asked" /\ r.what = x /\ r.into = p
        /\ x \in Boxes => p \in Spaces
    BY <1>1, <1>3, FeedSpaces, IncomingIsNumber DEF Asking, BeginMove
  <2>2. /\ mover' = [mover EXCEPT ![m] = r]
        /\ place' = place /\ stage' = stage /\ quotaLock' = quotaLock /\ unchecked' = unchecked
    BY <1>3 DEF BeginMove, Ask, Proceed
  <2>3. quotaLock \in [Spaces -> Movers \union {Free}]
    BY <1>1 DEF FeedTyped
  <2> HIDE DEF r
  <2> QED BY <2>1, <2>2, <2>3, FeedQuiet
<1>4. ASSUME BeginRestoreFeed(m, x) PROVE FeedInv'
  <2> DEFINE s == Root(Returns(x))
             r == [at |-> "counted", what |-> x, to |-> s, missed |-> FALSE]
  <2>1. Returns(x) \in Targets
    BY <1>1, RssQuotaAssumption DEF Returns, FeedTyped, Targets
  <2>2. s \in Spaces
    BY <1>1, <2>1, FeedSpaces
  <2>3. r \in Counting /\ r.at = "counted" /\ r.to = s /\ r.missed = FALSE
    BY <1>4, <2>2 DEF Counting, BeginRestoreFeed
  <2>4. /\ mover' = [mover EXCEPT ![m] = r]
        /\ place' = place /\ stage' = stage /\ quotaLock' = quotaLock /\ unchecked' = unchecked
        /\ FolderLimit[s] >= 0 => CountActive(s) < FolderLimit[s]
    BY <1>4 DEF BeginRestoreFeed, Ask, Proceed
  <2>5. quotaLock \in [Spaces -> Movers \union {Free}] /\ unchecked[s] \in Nat /\ FolderLimit[s] \in Int
    BY <1>1, <2>2, RssQuotaAssumption DEF FeedTyped
  <2> HIDE DEF r, s
  <2>6. Room(s, 1)
    BY <2>4, <2>5, CountsAreNumbers DEF Room, CountActive
  <2> QED BY <2>2, <2>3, <2>4, <2>5, <2>6, FeedQuiet
<1> QED BY <1>2, <1>3, <1>4

LEMMA FeedStepCheck ==
  ASSUME FeedInv, NEW m \in Movers, Check(m)
  PROVE  FeedInv'
<1>1. FeedTyped /\ mover[m] \in Asking /\ mover[m].at = "asked"
  BY DEF FeedInv, FeedTyped, Check, Asking, Counting, Still
<1>2. PICK q \in Asking : q = mover[m]
  BY <1>1
<1>3. /\ q.to \in Spaces /\ q.number \in Nat /\ q.at = "asked" /\ (q.what \in Boxes => q.into \in Spaces)
      /\ quotaLock \in [Spaces -> Movers \union {Free}]
      /\ unchecked[q.to] \in Nat /\ FolderLimit[q.to] \in Int
  BY <1>1, <1>2, RssQuotaAssumption DEF Asking, FeedTyped
<1>4. quotaLock[q.to] = Free /\ place' = place /\ stage' = stage /\ unchecked' = unchecked
  BY <1>2 DEF Check, LockFree
<1>5. CASE CountActive(q.to) + q.number <= FolderLimit[q.to]
  <2> DEFINE r == [q EXCEPT !.at = "holds"]
  <2>1. mover' = [mover EXCEPT ![m] = r] /\ quotaLock' = [quotaLock EXCEPT ![q.to] = m]
    BY <1>2, <1>5 DEF Check, Proceed
  <2>2. /\ r \in Asking /\ r.at = "holds" /\ r.to = q.to /\ r.number = q.number
        /\ r.what = q.what /\ r.into = q.into
    BY DEF Asking
  <2> HIDE DEF r
  <2>3. Room(q.to, q.number)
    BY <1>3, <1>5, CountsAreNumbers DEF Room, CountActive
  <2>4. \A k \in Movers \ {m}, s \in Spaces : quotaLock[s] = k => quotaLock'[s] = k
    BY <1>3, <1>4, <2>1, RssQuotaAssumption
  <2> QED BY <1>3, <1>4, <2>1, <2>2, <2>3, <2>4, FeedQuiet
<1>6. CASE ~(CountActive(q.to) + q.number <= FolderLimit[q.to])
  <2>1. mover' = [mover EXCEPT ![m] = Still] /\ quotaLock' = quotaLock
    BY <1>2, <1>6 DEF Check, Proceed
  <2> QED BY <1>3, <1>4, <2>1, FeedQuiet DEF Still
<1> QED BY <1>5, <1>6

LEMMA ReleasedLocks ==
  ASSUME FeedTyped, NEW m \in Movers
  PROVE  /\ Released(m) \in [Spaces -> Movers \union {Free}]
         /\ \A k \in Movers \ {m}, s \in Spaces : quotaLock[s] = k => Released(m)[s] = k
BY DEF Released, FeedTyped

LEMMA FeedStepFail ==
  ASSUME FeedInv, NEW m \in Movers, Fail(m)
  PROVE  FeedInv'
<1>1. FeedTyped
  BY DEF FeedInv
<1>2. /\ mover' = [mover EXCEPT ![m] = Still] /\ quotaLock' = Released(m)
      /\ place' = place /\ stage' = stage /\ unchecked' = unchecked
  BY DEF Fail, Proceed
<1>3. /\ quotaLock' \in [Spaces -> Movers \union {Free}]
      /\ \A k \in Movers \ {m}, s \in Spaces : quotaLock[s] = k => quotaLock'[s] = k
  BY <1>1, <1>2, ReleasedLocks
<1>4. Still.at = "rest" /\ Still \in Asking \union Counting \union {Still}
  BY DEF Still
<1> QED BY <1>2, <1>3, <1>4, FeedQuiet

\* What rests when a request is done.
LEMMA DoneRests ==
  ASSUME FeedTyped, NEW m \in Movers, Done(m)
  PROVE  \E M : /\ DOMAIN M = Movers /\ M[m] = Still /\ \A k \in Movers \ {m} : M[k] = mover[k]
               /\ mover' = Missed(M)
<1>1. PICK M : M = [mover EXCEPT ![m] = Still]
  OBVIOUS
<1>2. DOMAIN M = Movers /\ M[m] = Still /\ \A k \in Movers \ {m} : M[k] = mover[k]
  BY <1>1 DEF FeedTyped
<1>3. mover' = Missed(M)
  BY <1>1 DEF Done, Missed
<1> QED BY <1>2, <1>3

LEMMA FeedStepWrite ==
  ASSUME FeedInv, NEW m \in Movers, Write(m)
  PROVE  FeedInv'
<1>1. FeedTyped /\ mover[m] \in Asking /\ LetIn(m) /\ \A k \in Movers : LetIn(k)
  BY DEF FeedInv, FeedTyped, Write, Asking, Counting, Still
<1>2. PICK q \in Asking : q = mover[m]
  BY <1>1
<1>3. PICK n : n = IF q.at = "holds" THEN q.number ELSE 0
  OBVIOUS
<1>4. /\ q.to \in Spaces /\ n \in Nat /\ q.what \in Holdings /\ q.into \in Targets
      /\ q.what \in Boxes => q.into \in Spaces
  BY <1>1, <1>2, <1>3 DEF Asking, FeedTyped
<1>5. place' = [place EXCEPT ![q.what] = q.into] /\ quotaLock' = Released(m) /\ Enter(Covers(q.to, n)) /\ Done(m)
  BY <1>2, <1>3 DEF Write
<1>6. PICK M : /\ DOMAIN M = Movers /\ M[m] = Still /\ \A k \in Movers \ {m} : M[k] = mover[k]
               /\ mover' = Missed(M)
  BY <1>1, <1>5, DoneRests
<1>7. /\ place' \in [Holdings -> Targets]
      /\ \A b \in Boxes : place'[b] \in Spaces
  BY <1>1, <1>4, <1>5 DEF FeedTyped, Holdings
<1>8. /\ quotaLock' \in [Spaces -> Movers \union {Free}]
      /\ \A k \in Movers, s \in Spaces : quotaLock[s] = k /\ M[k] # Still => quotaLock'[s] = k
  BY <1>1, <1>5, <1>6, ReleasedLocks
<1>9. ASSUME n > 0
      PROVE  Room(q.to, n) /\ \A k \in Movers : M[k].at = "holds" => M[k].to # q.to
  <2>1. q.at = "holds" /\ n = q.number
    BY <1>3, <1>9
  <2>2. quotaLock[q.to] = m /\ Room(q.to, n)
    BY <1>1, <1>2, <2>1 DEF LetIn
  <2>3. ASSUME NEW k \in Movers, M[k].at = "holds" PROVE M[k].to # q.to
    <3>1. k # m
      BY <1>6, <2>3 DEF Still
    <3>2. M[k] = mover[k] /\ quotaLock[M[k].to] = k
      BY <1>1, <1>6, <2>3, <3>1 DEF LetIn
    <3> QED BY <2>2, <3>1, <3>2
  <2> QED BY <2>2, <2>3
<1>10. \A k \in Movers : M[k] = Still \/ M[k] = mover[k]
  BY <1>6
<1> QED BY <1>4, <1>5, <1>6, <1>7, <1>8, <1>9, <1>10, FeedMoves

LEMMA FeedStepRestore ==
  ASSUME FeedInv, NEW m \in Movers, RestoreFeed(m)
  PROVE  FeedInv'
<1>1. FeedTyped /\ mover[m] \in Counting /\ mover[m].at = "counted" /\ \A k \in Movers : LetIn(k)
  BY DEF FeedInv, FeedTyped, RestoreFeed, Asking, Counting, Still
<1>2. PICK q \in Counting : q = mover[m]
  BY <1>1
<1>3. PICK n : n = IF ~q.missed /\ quotaLock[q.to] = Free THEN 1 ELSE 0
  OBVIOUS
<1>4. /\ q.to \in Spaces /\ n \in Nat /\ q.what \in Feeds
  BY <1>1, <1>2, <1>3 DEF Counting
<1>5. place' = [place EXCEPT ![q.what] = Returns(q.what)] /\ quotaLock' = quotaLock /\ Enter(Covers(q.to, n)) /\ Done(m)
  BY <1>2, <1>3 DEF RestoreFeed
<1>6. PICK M : /\ DOMAIN M = Movers /\ M[m] = Still /\ \A k \in Movers \ {m} : M[k] = mover[k]
               /\ mover' = Missed(M)
  BY <1>1, <1>5, DoneRests
<1>7. /\ place' \in [Holdings -> Targets]
      /\ \A b \in Boxes : place'[b] \in Spaces
  <2>1. Returns(q.what) \in Targets /\ q.what \notin Boxes
    BY <1>1, <1>4, RssQuotaAssumption DEF Returns, FeedTyped, Targets, Holdings
  <2> QED BY <1>1, <1>4, <1>5, <2>1 DEF FeedTyped, Holdings
<1>8. /\ quotaLock' \in [Spaces -> Movers \union {Free}]
      /\ \A k \in Movers, s \in Spaces : quotaLock[s] = k /\ M[k] # Still => quotaLock'[s] = k
  BY <1>1, <1>5 DEF FeedTyped
<1>9. ASSUME n > 0
      PROVE  Room(q.to, n) /\ \A k \in Movers : M[k].at = "holds" => M[k].to # q.to
  <2>1. ~q.missed /\ quotaLock[q.to] = Free /\ n = 1
    BY <1>3, <1>9
  <2>2. Room(q.to, n)
    BY <1>1, <1>2, <2>1 DEF LetIn
  <2>3. ASSUME NEW k \in Movers, M[k].at = "holds" PROVE M[k].to # q.to
    <3>1. M[k] = mover[k] /\ quotaLock[M[k].to] = k
      BY <1>1, <1>6, <2>3 DEF LetIn, Still
    <3> QED BY <2>1, <3>1, RssQuotaAssumption
  <2> QED BY <2>2, <2>3
<1>10. \A k \in Movers : M[k] = Still \/ M[k] = mover[k]
  BY <1>6
<1> QED BY <1>4, <1>5, <1>6, <1>7, <1>8, <1>9, <1>10, FeedMoves

LEMMA FeedStepOther ==
  ASSUME FeedInv, NEW x \in Holdings, Trash(x) \/ RestoreBox(x) \/ \E p \in Targets : Patch(x, p)
  PROVE  FeedInv'
<1>1. FeedTyped /\ DOMAIN mover = Movers /\ quotaLock \in [Spaces -> Movers \union {Free}]
  BY DEF FeedInv, FeedTyped
<1>2. PICK M : M = mover
  OBVIOUS
<1>3. CASE Trash(x)
  <2>1. /\ stage' = [stage EXCEPT ![x] = "trashed"] /\ place' = place /\ quotaLock' = quotaLock
        /\ mover' = mover /\ unchecked' = unchecked
    BY <1>3 DEF Trash
  <2>2. ASSUME NEW s PROVE CountActive(s)' <= CountActive(s)
    <3>1. Within(place', stage', s) \subseteq Within(place, stage, s)
      BY <2>1 DEF Within
    <3>2. Within(place, stage, s) \subseteq Feeds
      BY DEF Within
    <3> QED BY <3>1, <3>2, RssQuotaAssumption, FS_Subset DEF CountActive
  <2>3. ASSUME NEW s \in Spaces, NEW n \in Nat, Room(s, n) PROVE Room(s, n)'
    <3>1. CountActive(s) \in Nat /\ CountActive(s)' \in Nat /\ FolderLimit[s] \in Int /\ unchecked[s] \in Nat
      BY <1>1, CountsAreNumbers, RssQuotaAssumption DEF CountActive, FeedTyped
    <3> QED BY <2>1, <2>2, <2>3, <3>1 DEF Room
  <2>4. FeedTyped'
    BY <1>1, <2>1 DEF FeedTyped
  <2>5. RssWithinLimit'
    <3>1. \A s \in Spaces : Room(s, 0)'
      BY <2>3, LimitIsRoom DEF FeedInv
    <3>2. \A s \in Spaces : CountActive(s)' \in Nat
      BY CountsAreNumbers DEF CountActive
    <3> QED BY <3>1, <3>2 DEF RssWithinLimit, Room, CountActive
  <2>6. ASSUME NEW k \in Movers PROVE LetIn(k)'
    <3>1. LetIn(k) /\ mover[k] \in Asking \union Counting \union {Still}
      BY <1>1 DEF FeedInv, FeedTyped
    <3>2. PICK q : q = mover[k]
      OBVIOUS
    <3>3. /\ q.at = "holds" => q.to \in Spaces /\ q.number \in Nat
          /\ q.at = "counted" => q.to \in Spaces
      BY <3>1, <3>2 DEF Asking, Counting, Still
    <3>4. /\ q.at = "holds" => quotaLock'[q.to] = k /\ Room(q.to, q.number)'
          /\ q.at = "counted" /\ ~q.missed => Room(q.to, 1)'
      BY <2>1, <2>3, <3>1, <3>2, <3>3 DEF LetIn
    <3>5. mover'[k] = q
      BY <2>1, <3>2
    <3> QED BY <3>4, <3>5 DEF LetIn
  <2> QED BY <2>4, <2>5, <2>6 DEF FeedInv
<1>4. CASE RestoreBox(x)
  <2>1. x \in Boxes /\ place[x] \in Spaces
    BY <1>1, <1>4 DEF RestoreBox, FeedTyped
  <2>2. place' = place /\ quotaLock' = quotaLock /\ Enter(Covers(place[x], 0)) /\ mover' = Missed(M)
    BY <1>2, <1>4 DEF RestoreBox
  <2>3. place' \in [Holdings -> Targets] /\ \A b \in Boxes : place'[b] \in Spaces
    BY <1>1, <2>2 DEF FeedTyped
  <2> QED BY <1>1, <1>2, <2>1, <2>2, <2>3, FeedMoves
<1>5. ASSUME NEW p \in Targets, Patch(x, p) PROVE FeedInv'
  <2>1. /\ place' = [place EXCEPT ![x] = p] /\ quotaLock' = quotaLock /\ Enter(Covers(p, 0)) /\ mover' = Missed(M)
        /\ x \in Boxes => p \in Spaces
    BY <1>2, <1>5 DEF Patch
  <2>2. place' \in [Holdings -> Targets] /\ \A b \in Boxes : place'[b] \in Spaces
    BY <1>1, <2>1 DEF FeedTyped, Holdings
  <2>3. Covers(p, 0) = Covers(PrivateRoot, 0) /\ PrivateRoot \in Spaces
    BY RssQuotaAssumption DEF Covers
  <2>4. Enter(Covers(PrivateRoot, 0))
    BY <2>1, <2>3
  <2> QED BY <1>1, <1>2, <2>1, <2>2, <2>3, <2>4, FeedMoves
<1> QED BY <1>3, <1>4, <1>5

LEMMA FeedLimitInvariant == RssQuotaSpec => []FeedInv
<1>1. FeedInv /\ [RssQuotaNext]_rssQuotaVars => FeedInv'
  <2> SUFFICES ASSUME FeedInv, [RssQuotaNext]_rssQuotaVars PROVE FeedInv'
    OBVIOUS
  <2>1. CASE RssQuotaNext
    BY <2>1, FeedStepBegin, FeedStepCheck, FeedStepFail, FeedStepWrite, FeedStepRestore, FeedStepOther
       DEF RssQuotaNext
  <2>2. CASE UNCHANGED rssQuotaVars
    BY <2>2 DEF rssQuotaVars, FeedInv, FeedTyped, RssWithinLimit, LetIn, Room, CountActive, Within
  <2> QED BY <2>1, <2>2
<1> QED BY <1>1, FeedInitInv, PTL DEF RssQuotaSpec

(* ------------------------- quota of smart folders ------------------------- *)

SmartRow == [state : {"none", "live", "trashed"}, scope : {"private", "team"}, owner : Owners, seat : Owners]
Drawn == [at : {"asked", "unasked", "entitled", "holds"}, way : {"create", "update"}, what : Smarts,
          by : Viewers, to : Owners, row : SmartRow]
Returning == [at : {"counted"}, way : {"restore"}, what : Smarts, to : Owners, late : BOOLEAN]

SmartTyped ==
  /\ smart \in [Smarts -> SmartRow]
  /\ dimension \in [Owners -> Tickets \union {Open}]
  /\ ticket \in [Tickets -> Drawn \union Returning \union {Waiting}]
  /\ uncounted \in [Owners -> Nat]

SmartCount(d) == Cardinality(Holding(smart, d))
Vacant(d, n) == SmartCount(d) + n <= SmartLimit + uncounted[d]

\* Who was entitled still fits, as does who counted what nobody added to.
Entitled(t) ==
  /\ ticket[t].at \in {"entitled", "holds"} => dimension[ticket[t].to] = t /\ Vacant(ticket[t].to, 1)
  /\ ticket[t].at = "counted" /\ ~ticket[t].late => Vacant(ticket[t].to, 1)

SmartInv == SmartTyped /\ SmartWithinLimit /\ \A t \in Tickets : Entitled(t)

LEMMA HeldIsNumber == \A d : SmartCount(d) \in Nat /\ SmartCount(d)' \in Nat
<1>1. ASSUME NEW S, NEW d PROVE Cardinality(Holding(S, d)) \in Nat
  <2>1. Holding(S, d) \subseteq Smarts
    BY DEF Holding
  <2> QED BY <2>1, SmartAssumption, FS_Subset, FS_CardinalityType
<1> QED BY <1>1 DEF SmartCount

LEMMA QuotaOwner ==
  ASSUME NEW scope, NEW u \in Viewers
  PROVE  Quota(scope, u) \in Owners
BY DEF Quota, Owners

\* What joins was counted or is noted.
LEMMA VacantAfterAdmit ==
  ASSUME SmartTyped, NEW d \in Owners, NEW n \in {0, 1}, Admit(d, n)
  PROVE  /\ uncounted' \in [Owners -> Nat]
         /\ \A e \in Owners, i \in Nat : (e # d \/ n = 0) /\ Vacant(e, i) => Vacant(e, i)'
         /\ Vacant(d, n) => Vacant(d, 0)'
         /\ \A e \in Owners, i \in Nat : ~(Joined(e) > 0) /\ Vacant(e, i) => Vacant(e, i)'
<1>1. \A e : Joined(e) = SmartCount(e)' - SmartCount(e)
  BY DEF Joined, SmartCount
<1>2. \A e \in Owners : SmartCount(e) \in Nat /\ SmartCount(e)' \in Nat /\ uncounted[e] \in Nat
  BY HeldIsNumber DEF SmartTyped
<1>3. uncounted' = [e \in Owners |-> uncounted[e] + (IF e = d /\ n > 0 THEN Excess(Joined(e) - n)
                                                     ELSE Excess(Joined(e)))]
  BY DEF Admit
<1>4. uncounted' \in [Owners -> Nat]
  <2>1. \A e \in Owners : uncounted[e] + (IF e = d /\ n > 0 THEN Excess(Joined(e) - n)
                                          ELSE Excess(Joined(e))) \in Nat
    BY <1>1, <1>2 DEF Excess
  <2> QED BY <1>3, <2>1
<1>5. \A e \in Owners : uncounted'[e] = uncounted[e] + (IF e = d /\ n > 0 THEN Excess(Joined(e) - n)
                                                        ELSE Excess(Joined(e)))
  BY <1>3
<1>6. ASSUME NEW e \in Owners, NEW i \in Nat, (e # d \/ n = 0) \/ ~(Joined(e) > 0), Vacant(e, i)
      PROVE  Vacant(e, i)'
  BY <1>1, <1>2, <1>4, <1>5, <1>6, SmartAssumption DEF Vacant, Excess
<1>7. ASSUME Vacant(d, n) PROVE Vacant(d, 0)'
  BY <1>1, <1>2, <1>4, <1>5, <1>7, SmartAssumption DEF Vacant, Excess
<1> QED BY <1>4, <1>6, <1>7

LEMMA SmartLimitIsVacant == SmartWithinLimit <=> \A d \in Owners : Vacant(d, 0)
BY HeldIsNumber DEF SmartWithinLimit, Vacant, SmartCount

LEMMA SmartInitInv == SmartInit => SmartInv
<1> SUFFICES ASSUME SmartInit PROVE SmartInv
  OBVIOUS
<1>1. SmartTyped
  BY DEF SmartInit, SmartTyped, SmartRow, Owners
<1>2. ASSUME NEW d \in Owners PROVE Vacant(d, 0)
  <2>1. Holding(smart, d) = {}
    BY DEF SmartInit, Holding
  <2>2. SmartCount(d) = 0
    BY <2>1, FS_EmptySet DEF SmartCount
  <2>3. uncounted[d] = 0
    BY DEF SmartInit
  <2>4. SmartLimit \in Nat
    BY SmartAssumption
  <2> QED BY <2>2, <2>3, <2>4 DEF Vacant
<1>3. \A t \in Tickets : Entitled(t)
  BY DEF SmartInit, Entitled, Waiting
<1> QED BY <1>1, <1>2, <1>3, SmartLimitIsVacant DEF SmartInv

\* A request goes on, and what is held stays.
LEMMA SmartQuiet ==
  ASSUME SmartInv, NEW t \in Tickets, NEW r \in Drawn \union Returning \union {Waiting},
         ticket' = [ticket EXCEPT ![t] = r],
         smart' \in [Smarts -> SmartRow], \A d : Holding(smart', d) = Holding(smart, d), uncounted' = uncounted,
         dimension' \in [Owners -> Tickets \union {Open}],
         \A k \in Tickets \ {t}, d \in Owners : dimension[d] = k => dimension'[d] = k,
         r.at \in {"entitled", "holds"} => dimension'[r.to] = t /\ Vacant(r.to, 1),
         r.at = "counted" /\ ~r.late => Vacant(r.to, 1)
  PROVE  SmartInv'
<1>1. SmartTyped /\ SmartWithinLimit /\ \A k \in Tickets : Entitled(k)
  BY DEF SmartInv
<1>2. SmartTyped'
  BY <1>1 DEF SmartTyped
<1>3. SmartWithinLimit'
  BY <1>1 DEF SmartWithinLimit
<1>4. ticket'[t] = r /\ \A k \in Tickets \ {t} : ticket'[k] = ticket[k]
  BY <1>1 DEF SmartTyped
<1>5. \A d, n : Vacant(d, n) <=> Vacant(d, n)'
  BY DEF Vacant, SmartCount
<1>6. Entitled(t)'
  BY <1>4, <1>5 DEF Entitled
<1>7. ASSUME NEW k \in Tickets, k # t PROVE Entitled(k)'
  <2>1. Entitled(k) /\ ticket'[k] = ticket[k] /\ ticket[k] \in Drawn \union Returning \union {Waiting}
    BY <1>1, <1>4, <1>7 DEF SmartTyped
  <2>2. ticket[k].at \in {"entitled", "holds"} => ticket[k].to \in Owners
    BY <2>1 DEF Drawn, Returning, Waiting
  <2> QED BY <1>5, <1>7, <2>1, <2>2 DEF Entitled
<1> QED BY <1>2, <1>3, <1>6, <1>7 DEF SmartInv

\* A folder joined, left or changed its owner.
LEMMA SmartJoins ==
  ASSUME SmartInv, NEW t \in Tickets, Close(t),
         smart' \in [Smarts -> SmartRow],
         dimension' \in [Owners -> Tickets \union {Open}],
         \A k \in Tickets \ {t}, e \in Owners : dimension[e] = k => dimension'[e] = k,
         NEW d \in Owners, NEW n \in {0, 1}, Admit(d, n),
         n > 0 => /\ Vacant(d, n)
                  /\ \A k \in Tickets \ {t} : ticket[k].at \in {"entitled", "holds"} => ticket[k].to # d
  PROVE  SmartInv'
<1>1. SmartTyped /\ SmartWithinLimit /\ \A k \in Tickets : Entitled(k)
  BY DEF SmartInv
<1>2. PICK T : T = [ticket EXCEPT ![t] = Waiting]
  OBVIOUS
<1>3. /\ DOMAIN T = Tickets /\ T[t] = Waiting /\ \A k \in Tickets \ {t} : T[k] = ticket[k]
      /\ \A k \in Tickets : T[k] \in Drawn \union Returning \union {Waiting}
  BY <1>1, <1>2 DEF SmartTyped
<1>4. ticket' = [k \in Tickets |-> IF T[k].at = "counted" /\ Joined(T[k].to) > 0
                                   THEN [T[k] EXCEPT !.late = TRUE] ELSE T[k]]
  BY <1>2, <1>3 DEF Close, Overtaken
<1>5. ASSUME NEW k \in Tickets, T[k].at = "counted", Joined(T[k].to) > 0
      PROVE  ticket'[k] \in Returning /\ ticket'[k].late = TRUE
  <2>1. T[k] \in Returning
    BY <1>3, <1>5 DEF Drawn, Waiting
  <2>2. ticket'[k] = [T[k] EXCEPT !.late = TRUE]
    BY <1>4, <1>5
  <2> QED BY <2>1, <2>2 DEF Returning
<1>6. ASSUME NEW k \in Tickets, ~(T[k].at = "counted" /\ Joined(T[k].to) > 0)
      PROVE  ticket'[k] = T[k]
  BY <1>4, <1>6
<1>7. /\ uncounted' \in [Owners -> Nat]
      /\ \A e \in Owners, i \in Nat : (e # d \/ n = 0) /\ Vacant(e, i) => Vacant(e, i)'
      /\ Vacant(d, n) => Vacant(d, 0)'
      /\ \A e \in Owners, i \in Nat : ~(Joined(e) > 0) /\ Vacant(e, i) => Vacant(e, i)'
  BY <1>1, VacantAfterAdmit
<1>8. SmartTyped'
  <2>1. ASSUME NEW k \in Tickets PROVE ticket'[k] \in Drawn \union Returning \union {Waiting}
    BY <1>3, <1>5, <1>6
  <2>2. DOMAIN ticket' = Tickets /\ ticket' = [k \in Tickets |-> ticket'[k]]
    BY <1>4
  <2>3. ticket' \in [Tickets -> Drawn \union Returning \union {Waiting}]
    BY <2>1, <2>2
  <2> QED BY <1>7, <2>3 DEF SmartTyped
<1>9. SmartWithinLimit'
  <2>1. ASSUME NEW e \in Owners PROVE Vacant(e, 0)'
    <3>1. Vacant(e, 0)
      BY <1>1, SmartLimitIsVacant
    <3> QED BY <1>7, <3>1
  <2>2. \A e \in Owners : SmartCount(e)' \in Nat
    BY HeldIsNumber
  <2> QED BY <2>1, <2>2, <1>7 DEF SmartWithinLimit, Vacant, SmartCount
<1>10. ASSUME NEW k \in Tickets PROVE Entitled(k)'
  <2>1. CASE T[k].at = "counted" /\ Joined(T[k].to) > 0
    BY <1>5, <2>1 DEF Entitled, Returning
  <2>2. CASE ~(T[k].at = "counted" /\ Joined(T[k].to) > 0) /\ k # t
    <3>1. ticket'[k] = T[k] /\ T[k] = ticket[k] /\ Entitled(k)
      BY <1>1, <1>3, <1>6, <2>2
    <3>2. PICK q \in Drawn \union Returning \union {Waiting} : q = T[k]
      BY <1>3
    <3>3. ASSUME q.at \in {"entitled", "holds"}
          PROVE  dimension'[q.to] = k /\ Vacant(q.to, 1)'
      <4>1. q.to \in Owners
        BY <3>2, <3>3 DEF Drawn, Returning, Waiting
      <4>2. dimension[q.to] = k /\ Vacant(q.to, 1)
        BY <3>1, <3>2, <3>3 DEF Entitled
      <4>3. q.to # d \/ n = 0
        BY <2>2, <3>1, <3>2, <3>3
      <4>4. Vacant(q.to, 1)'
        BY <1>7, <4>1, <4>2, <4>3
      <4> QED BY <2>2, <4>1, <4>2, <4>4
    <3>4. ASSUME q.at = "counted", ~q.late
          PROVE  Vacant(q.to, 1)'
      <4>1. q.to \in Owners
        BY <3>2, <3>4 DEF Drawn, Returning, Waiting
      <4> QED BY <1>7, <2>2, <3>1, <3>2, <3>4, <4>1 DEF Entitled
    <3> QED BY <3>1, <3>2, <3>3, <3>4 DEF Entitled
  <2>3. CASE k = t
    <3>1. ticket'[k] = Waiting
      BY <1>3, <1>6, <2>3 DEF Waiting
    <3> QED BY <3>1 DEF Entitled, Waiting
  <2> QED BY <2>1, <2>2, <2>3
<1> QED BY <1>8, <1>9, <1>10 DEF SmartInv

LEMMA FreedDimensions ==
  ASSUME SmartTyped, NEW t \in Tickets
  PROVE  /\ Freed(t) \in [Owners -> Tickets \union {Open}]
         /\ \A k \in Tickets \ {t}, d \in Owners : dimension[d] = k => Freed(t)[d] = k
BY DEF Freed, SmartTyped

LEMMA SmartStepBegin ==
  ASSUME SmartInv, NEW t \in Tickets, NEW f \in Smarts, NEW u \in Viewers,
         \/ \E scope \in {"private", "team"} : BeginCreateSmart(t, f, u, scope) \/ BeginUpdateSmart(t, f, u, scope)
         \/ BeginRestoreSmart(t, f, u)
  PROVE  SmartInv'
<1>1. SmartTyped /\ smart[f] \in SmartRow /\ u \in Owners
  BY DEF SmartInv, SmartTyped, Owners
<1>2. smart \in [Smarts -> SmartRow] /\ dimension \in [Owners -> Tickets \union {Open}]
  BY <1>1 DEF SmartTyped
<1>3. ASSUME NEW scope \in {"private", "team"}, BeginCreateSmart(t, f, u, scope) PROVE SmartInv'
  <2> DEFINE r == [at |-> "asked", way |-> "create", what |-> f, by |-> u, to |-> Quota(scope, u),
                   row |-> [state |-> "live", scope |-> scope, owner |-> u, seat |-> Quota(scope, u)]]
  <2>1. r \in Drawn /\ r.at = "asked"
    BY <1>1, QuotaOwner DEF Drawn, SmartRow
  <2>2. ticket' = [ticket EXCEPT ![t] = r] /\ smart' = smart /\ dimension' = dimension /\ uncounted' = uncounted
    BY <1>3 DEF BeginCreateSmart, Draw
  <2> HIDE DEF r
  <2> QED BY <1>2, <2>1, <2>2, SmartQuiet
<1>4. ASSUME NEW scope \in {"private", "team"}, BeginUpdateSmart(t, f, u, scope) PROVE SmartInv'
  <2> DEFINE fresh == [smart[f] EXCEPT !.scope = scope, !.seat = IF scope = @ THEN @ ELSE Quota(scope, u)]
             r == [at |-> IF scope = smart[f].scope THEN "unasked" ELSE "asked", way |-> "update",
                   what |-> f, by |-> u, to |-> Quota(scope, u), row |-> fresh]
  <2>1. fresh \in SmartRow
    BY <1>1, QuotaOwner DEF SmartRow
  <2> HIDE DEF fresh
  <2>2. r \in Drawn /\ r.at \in {"asked", "unasked"}
    BY <2>1, QuotaOwner DEF Drawn
  <2>3. ticket' = [ticket EXCEPT ![t] = r] /\ smart' = smart /\ dimension' = dimension /\ uncounted' = uncounted
    BY <1>4 DEF BeginUpdateSmart, Draw, fresh
  <2> HIDE DEF r
  <2> QED BY <1>2, <2>2, <2>3, SmartQuiet
<1>5. ASSUME BeginRestoreSmart(t, f, u) PROVE SmartInv'
  <2> DEFINE d == Quota(smart[f].scope, u)
             r == [at |-> "counted", way |-> "restore", what |-> f, to |-> d, late |-> FALSE]
  <2>1. d \in Owners /\ uncounted[d] \in Nat
    BY <1>1, QuotaOwner DEF SmartTyped
  <2>2. r \in Returning /\ r.at = "counted" /\ r.to = d
    BY <2>1 DEF Returning
  <2>3. /\ ticket' = [ticket EXCEPT ![t] = r] /\ smart' = smart /\ dimension' = dimension /\ uncounted' = uncounted
        /\ Cardinality(Holding(smart, d)) < SmartLimit
    BY <1>5 DEF BeginRestoreSmart, Draw
  <2> HIDE DEF r, d
  <2>4. Vacant(d, 1)
    BY <2>1, <2>3, HeldIsNumber, SmartAssumption DEF Vacant, SmartCount
  <2> QED BY <1>2, <2>2, <2>3, <2>4, SmartQuiet
<1> QED BY <1>3, <1>4, <1>5

LEMMA SmartStepAsk ==
  ASSUME SmartInv, NEW t \in Tickets, Entitle(t) \/ Reseat(t) \/ AbandonSmart(t)
  PROVE  SmartInv'
<1>1. /\ SmartTyped /\ smart \in [Smarts -> SmartRow] /\ dimension \in [Owners -> Tickets \union {Open}]
      /\ ticket \in [Tickets -> Drawn \union Returning \union {Waiting}] /\ Entitled(t)
  BY DEF SmartInv, SmartTyped
<1>2. PICK q \in Drawn \union Returning \union {Waiting} : q = ticket[t]
  BY <1>1
<1>3. Waiting.at = "rest" /\ Waiting \in Drawn \union Returning \union {Waiting}
  BY DEF Waiting
<1>4. CASE Entitle(t) /\ Cardinality(Holding(smart, q.to)) < SmartLimit
  <2>1. q.at = "asked" /\ dimension[q.to] = Open
    BY <1>2, <1>4 DEF Entitle, DimensionFree
  <2>2. q \in Drawn /\ q.to \in Owners /\ uncounted[q.to] \in Nat
    BY <1>1, <1>2, <2>1 DEF Drawn, Returning, Waiting, SmartTyped
  <2>3. PICK r : r = [q EXCEPT !.at = IF q.way = "create" THEN "holds" ELSE "entitled"]
    OBVIOUS
  <2>4. r \in Drawn /\ r.to = q.to /\ r.at \in {"entitled", "holds"}
    BY <2>2, <2>3 DEF Drawn
  <2>5. /\ dimension' = [dimension EXCEPT ![q.to] = t] /\ smart' = smart /\ uncounted' = uncounted
        /\ ticket' = [ticket EXCEPT ![t] = r]
    BY <1>1, <1>2, <1>4, <2>3 DEF Entitle
  <2>6. Vacant(q.to, 1)
    BY <1>4, <2>2, HeldIsNumber, SmartAssumption DEF Vacant, SmartCount
  <2>7. \A k \in Tickets \ {t}, d \in Owners : dimension[d] = k => dimension'[d] = k
    BY <1>1, <2>1, <2>2, <2>5, SmartAssumption
  <2>8. dimension' \in [Owners -> Tickets \union {Open}] /\ dimension'[r.to] = t /\ smart' \in [Smarts -> SmartRow]
    BY <1>1, <2>2, <2>4, <2>5
  <2>9. \A d : Holding(smart', d) = Holding(smart, d)
    BY <2>5
  <2>10. Vacant(r.to, 1) /\ r.at # "counted" /\ r \in Drawn \union Returning \union {Waiting}
    BY <2>4, <2>6
  <2> QED BY <2>5, <2>7, <2>8, <2>9, <2>10, SmartQuiet
<1>5. CASE Entitle(t) /\ ~(Cardinality(Holding(smart, q.to)) < SmartLimit)
  <2>1. dimension' = dimension /\ smart' = smart /\ uncounted' = uncounted /\ ticket' = [ticket EXCEPT ![t] = Waiting]
    BY <1>2, <1>5 DEF Entitle
  <2> QED BY <1>1, <1>3, <2>1, SmartQuiet
<1>6. CASE Reseat(t)
  <2>1. q.at = "entitled"
    BY <1>2, <1>6 DEF Reseat
  <2>2. q \in Drawn
    BY <2>1 DEF Returning, Waiting
  <2>3. PICK r : r = [q EXCEPT !.at = "holds"]
    OBVIOUS
  <2>4. r \in Drawn /\ r.at = "holds" /\ r.to = q.to
    BY <2>2, <2>3 DEF Drawn
  <2>5. PICK seat \in Owners : seat = Quota(q.row.scope, q.by)
    BY <2>2, QuotaOwner DEF Drawn
  <2>6. PICK f \in Smarts : f = q.what
    BY <2>2 DEF Drawn
  <2>7. /\ smart' = [smart EXCEPT ![f].seat = seat] /\ dimension' = dimension /\ uncounted' = uncounted
        /\ ticket' = [ticket EXCEPT ![t] = r]
    BY <1>1, <1>2, <1>6, <2>3, <2>5, <2>6 DEF Reseat
  <2>8. /\ smart' \in [Smarts -> SmartRow]
        /\ \A g \in Smarts : /\ smart'[g].state = smart[g].state /\ smart'[g].scope = smart[g].scope
                             /\ smart'[g].owner = smart[g].owner
    BY <1>1, <2>5, <2>6, <2>7 DEF SmartRow
  <2>9. \A d : Holding(smart', d) = Holding(smart, d)
    BY <2>8 DEF Holding
  <2>10. dimension[q.to] = t /\ Vacant(q.to, 1)
    BY <1>1, <1>2, <2>1 DEF Entitled
  <2> QED BY <1>1, <2>4, <2>7, <2>8, <2>9, <2>10, SmartQuiet
<1>7. CASE AbandonSmart(t)
  <2>1. dimension' = Freed(t) /\ smart' = smart /\ uncounted' = uncounted /\ ticket' = [ticket EXCEPT ![t] = Waiting]
    BY <1>7 DEF AbandonSmart
  <2>2. /\ dimension' \in [Owners -> Tickets \union {Open}]
        /\ \A k \in Tickets \ {t}, d \in Owners : dimension[d] = k => dimension'[d] = k
    BY <1>1, <2>1, FreedDimensions
  <2> QED BY <1>1, <1>3, <2>1, <2>2, SmartQuiet
<1> QED BY <1>4, <1>5, <1>6, <1>7

LEMMA SmartStepSave ==
  ASSUME SmartInv, NEW t \in Tickets, SaveSmart(t)
  PROVE  SmartInv'
<1>1. /\ SmartTyped /\ smart \in [Smarts -> SmartRow] /\ dimension \in [Owners -> Tickets \union {Open}]
      /\ ticket \in [Tickets -> Drawn \union Returning \union {Waiting}] /\ \A k \in Tickets : Entitled(k)
  BY DEF SmartInv, SmartTyped
<1>2. PICK q \in Drawn \union Returning \union {Waiting} : q = ticket[t]
  BY <1>1
<1>3. q \in Drawn /\ q.at \in {"unasked", "holds"}
  BY <1>2 DEF SaveSmart, Returning, Waiting
<1>4. PICK n \in {0, 1} : n = IF q.at = "holds" THEN 1 ELSE 0
  OBVIOUS
<1>5. q.to \in Owners /\ q.what \in Smarts /\ q.row \in SmartRow /\ q.row.scope \in {"private", "team"}
  BY <1>3 DEF Drawn, SmartRow
<1>6. PICK r : r = IF q.way = "create" THEN q.row ELSE [smart[q.what] EXCEPT !.scope = q.row.scope]
  OBVIOUS
<1>7. r \in SmartRow
  <2>1. smart[q.what] \in SmartRow
    BY <1>1, <1>5
  <2> QED BY <1>5, <1>6, <2>1 DEF SmartRow
<1>8. /\ smart' = [smart EXCEPT ![q.what] = r] /\ dimension' = Freed(t)
      /\ Admit(q.to, n) /\ Close(t)
  BY <1>1, <1>2, <1>4, <1>5, <1>6 DEF SaveSmart
<1>9. smart' \in [Smarts -> SmartRow]
  BY <1>1, <1>5, <1>7, <1>8
<1>10. /\ dimension' \in [Owners -> Tickets \union {Open}]
       /\ \A k \in Tickets \ {t}, e \in Owners : dimension[e] = k => dimension'[e] = k
  BY <1>1, <1>8, FreedDimensions
<1>11. ASSUME n > 0
       PROVE  /\ Vacant(q.to, n)
              /\ \A k \in Tickets \ {t} : ticket[k].at \in {"entitled", "holds"} => ticket[k].to # q.to
  <2>1. q.at = "holds" /\ n = 1
    BY <1>4, <1>11
  <2>2. dimension[q.to] = t /\ Vacant(q.to, 1)
    BY <1>1, <1>2, <2>1 DEF Entitled
  <2>3. \A k \in Tickets : ticket[k].at \in {"entitled", "holds"} => dimension[ticket[k].to] = k
    BY <1>1 DEF Entitled
  <2> QED BY <2>1, <2>2, <2>3
<1> QED BY <1>5, <1>8, <1>9, <1>10, <1>11, SmartJoins

LEMMA SmartStepRestore ==
  ASSUME SmartInv, NEW t \in Tickets, RestoreSmart(t)
  PROVE  SmartInv'
<1>1. /\ SmartTyped /\ smart \in [Smarts -> SmartRow] /\ dimension \in [Owners -> Tickets \union {Open}]
      /\ ticket \in [Tickets -> Drawn \union Returning \union {Waiting}] /\ \A k \in Tickets : Entitled(k)
  BY DEF SmartInv, SmartTyped
<1>2. PICK q \in Drawn \union Returning \union {Waiting} : q = ticket[t]
  BY <1>1
<1>3. q \in Returning /\ q.at = "counted"
  BY <1>2 DEF RestoreSmart, Drawn, Waiting
<1>4. PICK n \in {0, 1} : n = IF Alone(q) THEN 1 ELSE 0
  OBVIOUS
<1>5. q.to \in Owners /\ q.what \in Smarts
  BY <1>3 DEF Returning
<1>6. /\ smart' = [smart EXCEPT ![q.what].state = "live"] /\ dimension' = dimension
      /\ Admit(q.to, n) /\ Close(t)
  BY <1>2, <1>4 DEF RestoreSmart
<1>7. smart' \in [Smarts -> SmartRow]
  <2>1. smart[q.what] \in SmartRow
    BY <1>1, <1>5
  <2>2. [smart[q.what] EXCEPT !.state = "live"] \in SmartRow
    BY <2>1 DEF SmartRow
  <2> QED BY <1>1, <1>5, <1>6, <2>2
<1>8. ASSUME n > 0
      PROVE  /\ Vacant(q.to, n)
             /\ \A k \in Tickets \ {t} : ticket[k].at \in {"entitled", "holds"} => ticket[k].to # q.to
  <2>1. n = 1 /\ ~q.late /\ dimension[q.to] = Open
    BY <1>4, <1>8 DEF Alone, DimensionFree
  <2>2. Vacant(q.to, 1)
    BY <1>1, <1>2, <1>3, <2>1 DEF Entitled
  <2>3. \A k \in Tickets : ticket[k].at \in {"entitled", "holds"} => dimension[ticket[k].to] = k
    BY <1>1 DEF Entitled
  <2> QED BY <2>1, <2>2, <2>3, SmartAssumption
<1> QED BY <1>1, <1>5, <1>6, <1>7, <1>8, SmartJoins

LEMMA SmartStepDelete ==
  ASSUME SmartInv, NEW f \in Smarts, DeleteSmart(f)
  PROVE  SmartInv'
<1>1. /\ SmartTyped /\ smart \in [Smarts -> SmartRow] /\ smart[f] \in SmartRow
      /\ ticket \in [Tickets -> Drawn \union Returning \union {Waiting}] /\ \A k \in Tickets : Entitled(k)
  BY DEF SmartInv, SmartTyped
<1>2. /\ smart' = [smart EXCEPT ![f].state = "trashed"] /\ dimension' = dimension /\ ticket' = ticket
      /\ uncounted' = uncounted
  BY DEF DeleteSmart
<1>3. /\ smart' \in [Smarts -> SmartRow] /\ smart'[f].state = "trashed"
      /\ \A g \in Smarts \ {f} : smart'[g] = smart[g]
  <2>1. [smart[f] EXCEPT !.state = "trashed"] \in SmartRow
    BY <1>1 DEF SmartRow
  <2> QED BY <1>1, <1>2, <2>1 DEF SmartRow
<1>4. SmartTyped'
  BY <1>1, <1>2, <1>3 DEF SmartTyped
<1>5. ASSUME NEW d PROVE SmartCount(d)' <= SmartCount(d)
  <2>1. Holding(smart', d) \subseteq Holding(smart, d)
    BY <1>3 DEF Holding
  <2>2. Holding(smart, d) \subseteq Smarts
    BY DEF Holding
  <2> QED BY <2>1, <2>2, SmartAssumption, FS_Subset DEF SmartCount
<1>6. ASSUME NEW d \in Owners, NEW n \in Nat, Vacant(d, n) PROVE Vacant(d, n)'
  <2>1. SmartCount(d) \in Nat /\ SmartCount(d)' \in Nat /\ uncounted[d] \in Nat
    BY <1>1, HeldIsNumber DEF SmartTyped
  <2> QED BY <1>2, <1>5, <1>6, <2>1, SmartAssumption DEF Vacant
<1>7. SmartWithinLimit'
  <2>1. \A d \in Owners : Vacant(d, 0)'
    BY <1>6, SmartLimitIsVacant DEF SmartInv
  <2> QED BY <2>1, HeldIsNumber DEF SmartWithinLimit, Vacant, SmartCount
<1>8. ASSUME NEW k \in Tickets PROVE Entitled(k)'
  <2>1. PICK q \in Drawn \union Returning \union {Waiting} : q = ticket[k]
    BY <1>1
  <2>2. q.at \in {"entitled", "holds", "counted"} => q.to \in Owners
    BY DEF Drawn, Returning, Waiting
  <2>3. /\ q.at \in {"entitled", "holds"} => dimension'[q.to] = k /\ Vacant(q.to, 1)'
        /\ q.at = "counted" /\ ~q.late => Vacant(q.to, 1)'
    BY <1>1, <1>2, <1>6, <2>1, <2>2 DEF Entitled
  <2>4. ticket'[k] = q
    BY <1>2, <2>1
  <2> QED BY <2>3, <2>4 DEF Entitled
<1> QED BY <1>4, <1>7, <1>8 DEF SmartInv

LEMMA SmartLimitInvariant == SmartSpec => []SmartInv
<1>1. SmartInv /\ [SmartNext]_smartVars => SmartInv'
  <2> SUFFICES ASSUME SmartInv, [SmartNext]_smartVars PROVE SmartInv'
    OBVIOUS
  <2>1. CASE SmartNext
    BY <2>1, SmartStepBegin, SmartStepAsk, SmartStepSave, SmartStepRestore, SmartStepDelete DEF SmartNext
  <2>2. CASE UNCHANGED smartVars
    BY <2>2 DEF smartVars, SmartInv, SmartTyped, SmartWithinLimit, Entitled, Vacant, SmartCount, Holding
  <2> QED BY <2>1, <2>2
<1> QED BY <1>1, SmartInitInv, PTL DEF SmartSpec

\* Neither kind of folder comes to be more than its limit, but for those that
\* the code lets in without a count they fall under (QuotasRespected).
THEOREM QuotasAlwaysRespected == RssQuotaSpec /\ SmartSpec => []QuotasRespected
<1>1. FeedInv => RssWithinLimit
  BY DEF FeedInv
<1>2. SmartInv => SmartWithinLimit
  BY DEF SmartInv
<1> QED BY <1>1, <1>2, FeedLimitInvariant, SmartLimitInvariant, PTL DEF QuotasRespected

(* ------------------------------ attachments ------------------------------ *)

AttachedRow == [state : {"none", "live", "gone"}, size : Nat \union {Unsized}]
AttachAsk == [at : {"attach"}, place : Places, by : Payers]
DetachAsk == [at : {"detach"}, place : Places, by : Payers, size : Nat \union {Unsized}]
MeasureAsk == [at : {"measure"}, place : Places, for : Payers \union {NoPayer}]
HandAsk == AttachAsk \union DetachAsk \union MeasureAsk \union {AtRest}

PayTyped ==
  /\ page \in [Pages -> {"none", "live", "trashed"}]
  /\ attached \in [Places -> AttachedRow]
  /\ paid \in [Places -> [Payers -> Int]]
  /\ payer \in [Places -> Payers \union {NoPayer}]
  /\ hand \in [Hands -> HandAsk]

\* Rows are of objects that are stored and pages that were made.
RowsFounded ==
  \A p \in Places : attached[p].state # "none" => p[2] \in stored /\ page[p[1]] # "none"

\* An object that is being attached has no row, and nobody else attaches it.
AttachFounded(h) ==
  hand[h].at = "attach" =>
    /\ hand[h].place[2] \in stored /\ page[hand[h].place[1]] # "none"
    /\ \A p \in Places : p[2] = hand[h].place[2] => attached[p].state = "none"
    /\ \A k \in Hands \ {h} : hand[k].at = "attach" => hand[k].place[2] # hand[h].place[2]

\* What a user was charged for a row and not given back.
Owed(p, u) ==
  IF u = payer[p] /\ attached[p].state = "live" /\ attached[p].size # Unsized THEN attached[p].size ELSE 0

PayInv == PayTyped /\ RowsFounded /\ (\A h \in Hands : AttachFounded(h)) /\ AttachmentsPaid

LEMMA PaidIsOwed ==
  ASSUME NEW p, paid[p] \in [Payers -> Int]
  PROVE  paid[p] = [u \in Payers |-> Owed(p, u)] <=> \A u \in Payers : paid[p][u] = Owed(p, u)
OBVIOUS

LEMMA AskParts ==
  ASSUME PayTyped, NEW h \in Hands
  PROVE  /\ hand[h].at = "attach" => hand[h] \in AttachAsk /\ hand[h].place \in Places
         /\ hand[h].at = "detach" => hand[h] \in DetachAsk /\ hand[h].place \in Places
         /\ hand[h].at = "measure" => hand[h] \in MeasureAsk /\ hand[h].place \in Places
BY DEF PayTyped, HandAsk, AttachAsk, DetachAsk, MeasureAsk, AtRest

LEMMA PayInitInv == AttachmentInit => PayInv
<1> SUFFICES ASSUME AttachmentInit PROVE PayInv
  OBVIOUS
<1>1. \A p \in Places : attached[p] = IF p \in OldRows THEN [state |-> "live", size |-> Unsized] ELSE Empty
  BY DEF AttachmentInit, Empty
<1>2. attached \in [Places -> AttachedRow]
  BY <1>1 DEF AttachmentInit, AttachedRow, Empty
<1>3. PayTyped
  <2>1. page \in [Pages -> {"none", "live", "trashed"}]
    BY DEF AttachmentInit
  <2>2. paid \in [Places -> [Payers -> Int]]
    BY DEF AttachmentInit
  <2>3. payer \in [Places -> Payers \union {NoPayer}] /\ hand \in [Hands -> HandAsk]
    BY DEF AttachmentInit, HandAsk
  <2> QED BY <1>2, <2>1, <2>2, <2>3 DEF PayTyped
<1>4. RowsFounded
  <2>1. ASSUME NEW p \in Places, attached[p].state # "none" PROVE p[2] \in stored /\ page[p[1]] # "none"
    <3>1. p \in OldRows
      BY <1>1, <2>1 DEF Empty
    <3>2. p[1] \in Pages \ Copies
      BY <3>1, AttachmentAssumption
    <3> QED BY <3>1, <3>2 DEF AttachmentInit
  <2> QED BY <2>1 DEF RowsFounded
<1>5. \A h \in Hands : AttachFounded(h)
  BY DEF AttachmentInit, AttachFounded, AtRest
<1>6. AttachmentsPaid
  <2>1. ASSUME NEW p \in Places PROVE paid[p] = [u \in Payers |-> Owed(p, u)]
    <3>1. attached[p].state # "live" \/ attached[p].size = Unsized
      BY <1>1 DEF Empty
    <3> QED BY <3>1 DEF AttachmentInit, Owed
  <2> QED BY <2>1 DEF AttachmentsPaid, Owed
<1> QED BY <1>3, <1>4, <1>5, <1>6 DEF PayInv

\* A place is as well accounted for as it was where nothing of it changed.
LEMMA PaidElsewhere ==
  ASSUME AttachmentsPaid, NEW p \in Places, p \notin crossed,
         paid'[p] = paid[p], payer'[p] = payer[p], attached'[p] = attached[p]
  PROVE  paid'[p] = [u \in Payers |-> Owed(p, u)']
BY DEF AttachmentsPaid, Owed

\* A row that nobody was charged for is charged.
LEMMA PaidFirst ==
  ASSUME PayTyped, AttachmentsPaid, NEW p \in Places, p \notin crossed, NEW u \in Payers, NEW n \in Nat,
         attached[p].state = "none" \/ attached[p].size = Unsized,
         paid'[p] = [paid[p] EXCEPT ![u] = @ + n], payer'[p] = u,
         attached'[p] = [state |-> "live", size |-> n]
  PROVE  paid'[p] = [v \in Payers |-> Owed(p, v)']
<1>1. \A v \in Payers : paid[p][v] = 0
  <2>1. ~(attached[p].state = "live" /\ attached[p].size # Unsized)
    OBVIOUS
  <2>2. paid[p] = [v \in Payers |-> IF v = payer[p] /\ attached[p].state = "live" /\ attached[p].size # Unsized
                                   THEN attached[p].size ELSE 0]
    BY DEF AttachmentsPaid
  <2> QED BY <2>1, <2>2
<1>2. paid[p] \in [Payers -> Int]
  BY DEF PayTyped
<1>3. \A v \in Payers : paid'[p][v] = IF v = u THEN n ELSE 0
  BY <1>1, <1>2
<1>4. \A v \in Payers : Owed(p, v)' = IF v = u THEN n ELSE 0
  BY AttachmentAssumption DEF Owed
<1> QED BY <1>2, <1>3, <1>4

\* Requests that change no row.
LEMMA PayQuiet ==
  ASSUME PayInv, NEW h \in Hands, NEW r \in HandAsk, r.at # "attach",
         hand' = [hand EXCEPT ![h] = r], UNCHANGED <<page, stored, attached, paid, payer, crossed>>
  PROVE  PayInv'
<1>1. PayTyped /\ RowsFounded /\ (\A k \in Hands : AttachFounded(k)) /\ AttachmentsPaid
  BY DEF PayInv
<1>2. PayTyped'
  BY <1>1 DEF PayTyped
<1>3. RowsFounded' /\ AttachmentsPaid'
  BY <1>1 DEF RowsFounded, AttachmentsPaid
<1>4. hand'[h] = r /\ \A k \in Hands \ {h} : hand'[k] = hand[k]
  BY <1>1 DEF PayTyped
<1>5. ASSUME NEW k \in Hands PROVE AttachFounded(k)'
  <2>1. \A j \in Hands : hand'[j].at = "attach" => hand'[j] = hand[j] /\ hand[j].at = "attach"
    BY <1>4
  <2>2. CASE hand'[k].at = "attach"
    <3>1. hand'[k] = hand[k] /\ AttachFounded(k) /\ hand[k].at = "attach"
      BY <1>1, <2>1, <2>2
    <3> QED BY <2>1, <3>1 DEF AttachFounded
  <2>3. CASE hand'[k].at # "attach"
    BY <2>3 DEF AttachFounded
  <2> QED BY <2>2, <2>3
<1> QED BY <1>2, <1>3, <1>5 DEF PayInv

LEMMA PayStepBegin ==
  ASSUME PayInv, NEW h \in Hands, NEW u \in Payers,
         (\E r \in Pages : BeginAttach(h, r, u)) \/ \E p \in Places : BeginDetach(h, p, u)
  PROVE  PayInv'
<1>1. PayTyped /\ RowsFounded /\ (\A k \in Hands : AttachFounded(k)) /\ AttachmentsPaid
  BY DEF PayInv
<1>2. ASSUME NEW p \in Places, BeginDetach(h, p, u) PROVE PayInv'
  <2> DEFINE r == [at |-> "detach", place |-> p, by |-> u, size |-> attached[p].size]
  <2>1. r \in HandAsk /\ r.at # "attach"
    BY <1>1 DEF PayTyped, AttachedRow, HandAsk, DetachAsk
  <2>2. hand' = [hand EXCEPT ![h] = r] /\ UNCHANGED <<page, stored, attached, paid, payer, crossed>>
    BY <1>2 DEF BeginDetach, Take
  <2> HIDE DEF r
  <2> QED BY <2>1, <2>2, PayQuiet
<1>4. ASSUME NEW r \in Pages, BeginAttach(h, r, u) PROVE PayInv'
  <2>1. PICK o \in Objects : /\ o \notin stored /\ stored' = stored \union {o}
                             /\ hand' = [hand EXCEPT ![h] = [at |-> "attach", place |-> <<r, o>>, by |-> u]]
    BY <1>4 DEF BeginAttach, FreshKeys, Take
  <2>2. page[r] = "live" /\ page' = page /\ attached' = attached /\ paid' = paid /\ payer' = payer /\ crossed' = crossed
    BY <1>4 DEF BeginAttach
  <2>3. PICK q \in AttachAsk : q = [at |-> "attach", place |-> <<r, o>>, by |-> u]
    BY DEF AttachAsk, Places
  <2>4. q.place[1] = r /\ q.place[2] = o /\ q.at = "attach" /\ q.place \in Places
    BY <2>3 DEF Places
  <2>5. hand'[h] = q /\ \A k \in Hands \ {h} : hand'[k] = hand[k]
    BY <1>1, <2>1, <2>3 DEF PayTyped
  <2>6. PayTyped'
    <3>1. hand' \in [Hands -> HandAsk]
      BY <1>1, <2>1, <2>3 DEF PayTyped, HandAsk
    <3> QED BY <1>1, <2>2, <3>1 DEF PayTyped
  <2>7. RowsFounded' /\ AttachmentsPaid'
    BY <1>1, <2>1, <2>2 DEF RowsFounded, AttachmentsPaid
  <2>8. AttachFounded(h)'
    <3>1. \A p \in Places : p[2] = o => attached[p].state = "none"
      BY <1>1, <2>1 DEF RowsFounded
    <3>2. \A k \in Hands \ {h} : hand[k].at = "attach" => hand[k].place[2] # o
      BY <1>1, <2>1 DEF AttachFounded
    <3>3. \A k \in Hands \ {h} : hand'[k].at = "attach" => hand'[k].place[2] # o
      BY <2>5, <3>2
    <3> QED BY <2>1, <2>2, <2>4, <2>5, <3>1, <3>3 DEF AttachFounded
  <2>9. ASSUME NEW k \in Hands, k # h PROVE AttachFounded(k)'
    <3>1. hand'[k] = hand[k] /\ AttachFounded(k)
      BY <1>1, <2>5, <2>9
    <3>2. CASE hand[k].at = "attach"
      <4>1. hand[k].place[2] \in stored /\ hand[k].place[2] # o
        BY <2>1, <3>1, <3>2 DEF AttachFounded
      <4>2. \A j \in Hands \ {k} : hand'[j].at = "attach" => hand'[j].place[2] # hand[k].place[2]
        BY <2>4, <2>5, <3>1, <3>2, <4>1 DEF AttachFounded
      <4> QED BY <2>1, <2>2, <3>1, <3>2, <4>1, <4>2 DEF AttachFounded
    <3>3. CASE hand[k].at # "attach"
      BY <3>1, <3>3 DEF AttachFounded
    <3> QED BY <3>2, <3>3
  <2> QED BY <2>6, <2>7, <2>8, <2>9 DEF PayInv
<1> QED BY <1>2, <1>4

\* An object gets its row, and who uploaded it pays.
LEMMA PayStepAttach ==
  ASSUME PayInv, NEW h \in Hands, Attach(h)
  PROVE  PayInv'
<1>1. PayTyped /\ RowsFounded /\ (\A k \in Hands : AttachFounded(k)) /\ AttachmentsPaid
  BY DEF PayInv
<1>2. PICK q \in AttachAsk : q = hand[h]
  BY <1>1, AskParts DEF Attach
<1>3. PICK p \in Places : p = q.place
  BY DEF AttachAsk
<1>4. PICK u \in Payers : u = q.by
  BY DEF AttachAsk
<1>5. p[2] \in Objects /\ Bytes[p[2]] \in Nat /\ Bytes \in [Objects -> Nat]
  BY AttachmentAssumption DEF Places
<1>6. /\ attached' = [attached EXCEPT ![p] = [state |-> "live", size |-> Bytes[p[2]]]]
      /\ Charge({p}, u, [i \in Places |-> Bytes[i[2]]])
      /\ hand' = [hand EXCEPT ![h] = AtRest] /\ page' = page /\ stored' = stored /\ crossed' = crossed
  BY <1>2, <1>3, <1>4 DEF Attach, Finish
<1>7. /\ p[2] \in stored /\ page[p[1]] # "none" /\ attached[p].state = "none"
      /\ \A k \in Hands \ {h} : hand[k].at = "attach" => hand[k].place[2] # p[2]
  BY <1>1, <1>2, <1>3 DEF AttachFounded, AttachAsk
<1>8. /\ paid' = [i \in Places |-> IF i = p THEN [paid[i] EXCEPT ![u] = @ + Bytes[p[2]]] ELSE paid[i]]
      /\ payer' = [i \in Places |-> IF i = p THEN u ELSE payer[i]]
  BY <1>6 DEF Charge
<1>9. PayTyped'
  <2>1. attached' \in [Places -> AttachedRow]
    BY <1>1, <1>5, <1>6 DEF PayTyped, AttachedRow
  <2>2. ASSUME NEW i \in Places PROVE (IF i = p THEN [paid[i] EXCEPT ![u] = @ + Bytes[p[2]]] ELSE paid[i]) \in [Payers -> Int]
    <3>1. paid[i] \in [Payers -> Int] /\ paid[i][u] \in Int
      BY <1>1 DEF PayTyped
    <3> QED BY <1>5, <3>1
  <2>3. paid' \in [Places -> [Payers -> Int]]
    BY <1>8, <2>2
  <2>4. payer' \in [Places -> Payers \union {NoPayer}] /\ hand' \in [Hands -> HandAsk]
    BY <1>1, <1>6, <1>8 DEF PayTyped, HandAsk
  <2> QED BY <1>1, <1>6, <2>1, <2>3, <2>4 DEF PayTyped
<1>10. \A i \in Places : attached'[i] = IF i = p THEN [state |-> "live", size |-> Bytes[p[2]]] ELSE attached[i]
  BY <1>1, <1>6 DEF PayTyped
<1>11. RowsFounded'
  BY <1>1, <1>6, <1>7, <1>10 DEF RowsFounded
<1>12. hand'[h] = AtRest /\ \A k \in Hands \ {h} : hand'[k] = hand[k]
  BY <1>1, <1>6 DEF PayTyped
<1>13. ASSUME NEW k \in Hands PROVE AttachFounded(k)'
  <2>1. \A j \in Hands : hand'[j].at = "attach" => hand'[j] = hand[j] /\ j # h
    BY <1>12 DEF AtRest
  <2>2. CASE hand'[k].at = "attach"
    <3>1. hand'[k] = hand[k] /\ k # h /\ AttachFounded(k) /\ hand[k].at = "attach"
      BY <1>1, <2>1, <2>2
    <3>2. hand[k].place[2] # p[2]
      BY <1>7, <3>1
    <3>3. \A i \in Places : i[2] = hand[k].place[2] => attached'[i].state = "none"
      BY <1>10, <3>1, <3>2 DEF AttachFounded
    <3> QED BY <1>6, <2>1, <3>1, <3>3 DEF AttachFounded
  <2>3. CASE hand'[k].at # "attach"
    BY <2>3 DEF AttachFounded
  <2> QED BY <2>2, <2>3
<1>14. AttachmentsPaid'
  <2>1. ASSUME NEW i \in Places, i \notin crossed PROVE paid'[i] = [v \in Payers |-> Owed(i, v)']
    <3>1. CASE i = p
      BY <1>1, <1>5, <1>7, <1>8, <1>10, <2>1, <3>1, PaidFirst
    <3>2. CASE i # p
      BY <1>1, <1>8, <1>10, <2>1, <3>2, PaidElsewhere
    <3> QED BY <3>1, <3>2
  <2> QED BY <1>6, <2>1 DEF AttachmentsPaid, Owed
<1> QED BY <1>9, <1>11, <1>13, <1>14 DEF PayInv

\* A row goes or gets a size: what a request that is not an upload may do to it.
LEMMA PayRow ==
  ASSUME PayInv, NEW h \in Hands, NEW p \in Places, attached[p].state # "none", NEW r \in AttachedRow, r.state # "none",
         hand[h].at # "attach", hand' = [hand EXCEPT ![h] = AtRest],
         attached' = [attached EXCEPT ![p] = r],
         page' = page, stored' = stored, crossed \subseteq crossed',
         paid' \in [Places -> [Payers -> Int]], payer' \in [Places -> Payers \union {NoPayer}],
         \A i \in Places \ {p} : paid'[i] = paid[i] /\ payer'[i] = payer[i],
         p \notin crossed' => paid'[p] = [v \in Payers |-> Owed(p, v)']
  PROVE  PayInv'
<1>1. PayTyped /\ RowsFounded /\ (\A k \in Hands : AttachFounded(k)) /\ AttachmentsPaid
  BY DEF PayInv
<1>2. PayTyped'
  BY <1>1 DEF PayTyped, HandAsk
<1>3. attached'[p] = r /\ \A i \in Places \ {p} : attached'[i] = attached[i]
  BY <1>1 DEF PayTyped
<1>4. RowsFounded'
  BY <1>1, <1>3 DEF RowsFounded
<1>5. hand'[h] = AtRest /\ \A k \in Hands \ {h} : hand'[k] = hand[k]
  BY <1>1 DEF PayTyped
<1>6. ASSUME NEW k \in Hands PROVE AttachFounded(k)'
  <2>1. \A j \in Hands : hand'[j].at = "attach" => hand'[j] = hand[j]
    BY <1>5 DEF AtRest
  <2>2. CASE hand'[k].at = "attach"
    <3>1. hand'[k] = hand[k] /\ AttachFounded(k) /\ hand[k].at = "attach"
      BY <1>1, <2>1, <2>2
    <3>2. \A i \in Places : i[2] = hand[k].place[2] => attached'[i].state = "none"
      BY <1>3, <3>1 DEF AttachFounded
    <3> QED BY <2>1, <3>1, <3>2 DEF AttachFounded
  <2>3. CASE hand'[k].at # "attach"
    BY <2>3 DEF AttachFounded
  <2> QED BY <2>2, <2>3
<1>7. AttachmentsPaid'
  <2>1. ASSUME NEW i \in Places, i \notin crossed' PROVE paid'[i] = [v \in Payers |-> Owed(i, v)']
    <3>1. CASE i # p
      BY <1>1, <1>3, <2>1, <3>1, PaidElsewhere
    <3> QED BY <2>1, <3>1
  <2> QED BY <2>1 DEF AttachmentsPaid, Owed
<1> QED BY <1>2, <1>4, <1>6, <1>7 DEF PayInv

\* A request that is no upload is about a row that was there.
AskedRows == \A h \in Hands : hand[h].at \in {"detach", "measure"} => attached[hand[h].place].state # "none"

\* Rows stay, and so does what was asked of them.
LEMMA RowsStay ==
  ASSUME PayTyped, AskedRows, \A p \in Places : attached[p].state # "none" => attached'[p].state # "none",
         NEW h \in Hands, NEW r, hand' = [hand EXCEPT ![h] = r],
         r.at \in {"detach", "measure"} => r.place \in Places /\ attached[r.place].state # "none"
  PROVE  AskedRows'
<1>1. hand'[h] = r /\ \A k \in Hands \ {h} : hand'[k] = hand[k]
  BY DEF PayTyped
<1>2. ASSUME NEW k \in Hands, hand'[k].at \in {"detach", "measure"}
      PROVE  attached'[hand'[k].place].state # "none"
  <2>1. CASE k = h
    BY <1>1, <1>2, <2>1
  <2>2. CASE k # h
    <3>1. hand'[k] = hand[k] /\ hand[k].place \in Places
      BY <1>1, <1>2, <2>2, AskParts
    <3> QED BY <1>2, <3>1 DEF AskedRows
  <2> QED BY <2>1, <2>2
<1> QED BY <1>2 DEF AskedRows

LEMMA AskedInit == AttachmentInit => AskedRows
BY DEF AttachmentInit, AskedRows, AtRest

LEMMA AskedKept ==
  ASSUME PayTyped, AskedRows, AttachmentNext
  PROVE  AskedRows'
<1>1. ASSUME NEW h \in Hands, NEW u \in Payers, NEW r \in Pages, BeginAttach(h, r, u) PROVE AskedRows'
  <2>1. PICK q : q.at = "attach" /\ hand' = [hand EXCEPT ![h] = q]
    BY <1>1 DEF BeginAttach, Take
  <2>2. attached' = attached
    BY <1>1 DEF BeginAttach
  <2> QED BY <2>1, <2>2, RowsStay
<1>2. ASSUME NEW h \in Hands, NEW u \in Payers, NEW p \in Places, BeginDetach(h, p, u) PROVE AskedRows'
  <2>1. PICK q : q.at = "detach" /\ q.place = p /\ hand' = [hand EXCEPT ![h] = q]
    BY <1>2 DEF BeginDetach, Take
  <2>2. attached' = attached /\ attached[p].state # "none"
    BY <1>2 DEF BeginDetach
  <2> QED BY <2>1, <2>2, RowsStay
<1>3. ASSUME NEW h \in Hands, NEW p \in Places, BeginMeasure(h, p) PROVE AskedRows'
  <2>1. PICK u : hand' = [hand EXCEPT ![h] = [at |-> "measure", place |-> p, for |-> u]]
    BY <1>3 DEF BeginMeasure, Take
  <2>2. attached' = attached /\ attached[p].state # "none"
    BY <1>3 DEF BeginMeasure
  <2> QED BY <2>1, <2>2, RowsStay
<1>4. ASSUME NEW h \in Hands, Attach(h) \/ AttachFails(h) \/ Detach(h) \/ Measure(h) PROVE AskedRows'
  <2>1. hand' = [hand EXCEPT ![h] = AtRest] /\ hand[h].place \in Places
    BY <1>4, AskParts DEF Attach, AttachFails, Detach, Measure, Finish
  <2>2. PICK p \in Places : p = hand[h].place
    BY <2>1
  <2>3. ASSUME NEW i \in Places, attached[i].state # "none" PROVE attached'[i].state # "none"
    <3>1. attached[i] \in AttachedRow /\ attached[p] \in AttachedRow
      BY DEF PayTyped
    <3>2. CASE Attach(h)
      <4>1. PICK n : attached' = [attached EXCEPT ![p] = [state |-> "live", size |-> n]]
        BY <2>2, <3>2 DEF Attach
      <4> QED BY <2>3, <4>1 DEF PayTyped
    <3>3. CASE AttachFails(h)
      BY <2>3, <3>3 DEF AttachFails
    <3>4. CASE Detach(h)
      <4>1. attached' = [attached EXCEPT ![p].state = "gone"]
        BY <2>2, <3>4 DEF Detach
      <4> QED BY <2>3, <3>1, <4>1 DEF PayTyped, AttachedRow
    <3>5. CASE Measure(h)
      <4>1. (\E n : attached' = [attached EXCEPT ![p].size = n]) \/ attached' = attached
        BY <2>2, <3>5 DEF Measure
      <4> QED BY <2>3, <3>1, <4>1, SMTT(20) DEF PayTyped, AttachedRow
    <3> QED BY <1>4, <3>2, <3>3, <3>4, <3>5
  <2> QED BY <2>1, <2>3, RowsStay DEF AtRest
<1>5. ASSUME NEW r \in Pages, NEW c \in Pages, NEW u \in Payers, Duplicate(r, c, u) PROVE AskedRows'
  <2> DEFINE P == {p \in Places : p[1] = c /\ attached[<<r, p[2]>>].state = "live"}
  <2>1. /\ hand' = hand
        /\ attached' = [p \in Places |-> IF p \in P THEN [state |-> "live", size |-> attached[<<r, p[2]>>].size] ELSE attached[p]]
    BY <1>5 DEF Duplicate
  <2> HIDE DEF P
  <2>2. \A i \in Places : attached[i].state # "none" => attached'[i].state # "none"
    BY <2>1
  <2>3. \A k \in Hands : hand[k].at \in {"detach", "measure"} => hand[k].place \in Places
    BY AskParts
  <2> QED BY <2>1, <2>2, <2>3 DEF AskedRows
<1>6. ASSUME NEW r \in Pages, TrashPage(r) PROVE AskedRows'
  BY <1>6 DEF TrashPage, AskedRows
<1> QED BY <1>1, <1>2, <1>3, <1>4, <1>5, <1>6 DEF AttachmentNext

LEMMA PayStepDetach ==
  ASSUME PayInv, AskedRows, NEW h \in Hands, Detach(h)
  PROVE  PayInv'
<1>1. PayTyped /\ AttachmentsPaid
  BY DEF PayInv
<1>2. PICK q \in DetachAsk : q = hand[h]
  BY <1>1, AskParts DEF Detach
<1>3. PICK p \in Places : p = q.place
  BY DEF DetachAsk
<1>4. PICK u \in Payers : u = q.by
  BY DEF DetachAsk
<1>5. q.size \in Nat \union {Unsized} /\ q.at = "detach" /\ attached[p].state # "none" /\ attached[p] \in AttachedRow
  BY <1>1, <1>2, <1>3 DEF DetachAsk, AskedRows, PayTyped
<1>6. PICK n \in Nat : n = Refund(q) /\ (q.size # Unsized => n = q.size) /\ (q.size = Unsized => n = 0)
  BY <1>5 DEF Refund
<1>7. /\ attached' = [attached EXCEPT ![p].state = "gone"]
      /\ paid' = [paid EXCEPT ![p][u] = @ - n]
      /\ crossed' = IF \/ attached[p] # [state |-> "live", size |-> q.size]
                       \/ q.size # Unsized /\ u # payer[p]
                    THEN crossed \union {p} ELSE crossed
      /\ hand' = [hand EXCEPT ![h] = AtRest] /\ page' = page /\ stored' = stored /\ payer' = payer
  BY <1>2, <1>3, <1>4, <1>6 DEF Detach, Finish
<1>8. PICK r \in AttachedRow : r = [attached[p] EXCEPT !.state = "gone"] /\ r.state = "gone"
  <2>1. PICK r : r = [attached[p] EXCEPT !.state = "gone"]
    OBVIOUS
  <2>2. r \in AttachedRow /\ r.state = "gone"
    BY <1>5, <2>1 DEF AttachedRow
  <2> QED BY <2>1, <2>2
<1>9. attached' = [attached EXCEPT ![p] = r]
  BY <1>1, <1>7, <1>8 DEF PayTyped
<1>10. paid[p] \in [Payers -> Int] /\ paid[p][u] \in Int
  BY <1>1 DEF PayTyped
<1>11. paid'[p] = [paid[p] EXCEPT ![u] = @ - n] /\ \A i \in Places \ {p} : paid'[i] = paid[i]
  BY <1>1, <1>7 DEF PayTyped
<1>12. paid' \in [Places -> [Payers -> Int]]
  <2>1. [paid[p] EXCEPT ![u] = @ - n] \in [Payers -> Int]
    BY <1>10
  <2>2. paid' = [paid EXCEPT ![p] = [paid[p] EXCEPT ![u] = @ - n]]
    BY <1>1, <1>7 DEF PayTyped
  <2> QED BY <1>1, <2>1, <2>2 DEF PayTyped
<1>13. ASSUME p \notin crossed' PROVE paid'[p] = [v \in Payers |-> Owed(p, v)']
  <2>1. /\ p \notin crossed /\ attached[p] = [state |-> "live", size |-> q.size]
        /\ q.size # Unsized => u = payer[p]
    BY <1>7, <1>13
  <2>2. paid[p] = [v \in Payers |-> IF v = payer[p] /\ q.size # Unsized THEN q.size ELSE 0]
    BY <2>1 DEF AttachmentsPaid, PayInv
  <2>3. \A v \in Payers : paid'[p][v] = 0
    <3>1. CASE q.size = Unsized
      BY <1>6, <1>10, <1>11, <2>2, <3>1
    <3>2. CASE q.size # Unsized
      BY <1>5, <1>6, <1>10, <1>11, <2>1, <2>2, <3>2
    <3> QED BY <3>1, <3>2
  <2>4. \A v \in Payers : Owed(p, v)' = 0
    BY <1>1, <1>8, <1>9 DEF Owed, PayTyped
  <2>5. paid'[p] \in [Payers -> Int]
    BY <1>12
  <2> QED BY <2>3, <2>4, <2>5
<1>14. /\ r.state # "none" /\ hand[h].at # "attach" /\ crossed \subseteq crossed'
       /\ payer' \in [Places -> Payers \union {NoPayer}]
  BY <1>1, <1>2, <1>5, <1>7, <1>8 DEF PayTyped
<1>15. \A i \in Places \ {p} : paid'[i] = paid[i] /\ payer'[i] = payer[i]
  BY <1>7, <1>11
<1>16. r \in AttachedRow /\ attached[p].state # "none" /\ hand' = [hand EXCEPT ![h] = AtRest] /\ page' = page /\ stored' = stored
  BY <1>5, <1>7, <1>8
<1> QED BY <1>9, <1>12, <1>13, <1>14, <1>15, <1>16, PayRow

LEMMA PayStepMeasure ==
  ASSUME PayInv, AskedRows, NEW h \in Hands, Measure(h)
  PROVE  PayInv'
<1>1. PayTyped /\ AttachmentsPaid
  BY DEF PayInv
<1>2. PICK q \in MeasureAsk : q = hand[h]
  BY <1>1, AskParts DEF Measure
<1>3. PICK p \in Places : p = q.place
  BY DEF MeasureAsk
<1>4. PICK u \in Payers \union {NoPayer} : u = q.for
  BY DEF MeasureAsk
<1>5. q.at = "measure" /\ attached[p].state # "none" /\ attached[p] \in AttachedRow
  BY <1>1, <1>2, <1>3 DEF MeasureAsk, AskedRows, PayTyped
<1>6. Bytes[p[2]] \in Nat
  BY AttachmentAssumption DEF Places
<1>7. hand' = [hand EXCEPT ![h] = AtRest] /\ page' = page /\ stored' = stored
  BY <1>2 DEF Measure, Finish
<1>8. hand[h].at # "attach"
  BY <1>2, <1>5
<1>9. CASE attached[p].size = Unsized
  <2>1. PICK r : r = [attached[p] EXCEPT !.size = Bytes[p[2]]]
    OBVIOUS
  <2>2. r \in AttachedRow /\ r.state # "none" /\ r.size = Bytes[p[2]] /\ r.state = attached[p].state
    BY <1>5, <1>6, <2>1 DEF AttachedRow
  <2>3. /\ attached' = [attached EXCEPT ![p] = r]
        /\ crossed' = IF u = NoPayer \/ attached[p].state # "live" THEN crossed \union {p} ELSE crossed
        /\ IF u = NoPayer THEN paid' = paid /\ payer' = payer
           ELSE Charge({p}, u, [i \in Places |-> Bytes[i[2]]])
    BY <1>1, <1>2, <1>3, <1>4, <1>9, <2>1 DEF Measure, StillUnsized, PayTyped
  <2>4. CASE u = NoPayer
    <3>1. paid' = paid /\ payer' = payer /\ crossed' = crossed \union {p}
      BY <2>3, <2>4
    <3>2. /\ paid' \in [Places -> [Payers -> Int]] /\ payer' \in [Places -> Payers \union {NoPayer}]
          /\ crossed \subseteq crossed' /\ p \in crossed'
      BY <1>1, <3>1 DEF PayTyped
    <3> QED BY <1>5, <1>7, <1>8, <2>2, <2>3, <3>1, <3>2, PayRow
  <2>5. CASE u # NoPayer
    <3>1. /\ paid' = [i \in Places |-> IF i = p THEN [paid[i] EXCEPT ![u] = @ + Bytes[p[2]]] ELSE paid[i]]
          /\ payer' = [i \in Places |-> IF i = p THEN u ELSE payer[i]]
      BY <2>3, <2>5 DEF Charge
    <3>2. paid[p] \in [Payers -> Int] /\ paid[p][u] \in Int /\ u \in Payers
      BY <1>1, <2>5 DEF PayTyped
    <3>3. [paid[p] EXCEPT ![u] = @ + Bytes[p[2]]] \in [Payers -> Int]
      BY <1>6, <3>2
    <3>4. /\ paid' \in [Places -> [Payers -> Int]] /\ payer' \in [Places -> Payers \union {NoPayer}]
          /\ crossed \subseteq crossed'
          /\ \A i \in Places \ {p} : paid'[i] = paid[i] /\ payer'[i] = payer[i]
      BY <1>1, <2>3, <3>1, <3>2, <3>3 DEF PayTyped
    <3>5. ASSUME p \notin crossed' PROVE paid'[p] = [v \in Payers |-> Owed(p, v)']
      <4>1. p \notin crossed /\ attached[p].state = "live"
        BY <2>3, <2>5, <3>5
      <4>2. attached'[p] = r /\ r = [state |-> "live", size |-> Bytes[p[2]]]
        BY <1>1, <2>2, <2>3, <4>1 DEF PayTyped, AttachedRow
      <4> QED BY <1>1, <1>6, <1>9, <3>1, <3>2, <4>1, <4>2, PaidFirst
    <3> QED BY <1>5, <1>7, <1>8, <2>2, <2>3, <3>4, <3>5, PayRow
  <2> QED BY <2>4, <2>5
<1>10. CASE attached[p].size # Unsized
  <2>1. UNCHANGED <<attached, paid, payer, crossed>>
    BY <1>2, <1>3, <1>10 DEF Measure, StillUnsized
  <2> QED BY <1>7, <2>1, PayQuiet DEF AtRest, HandAsk
<1> QED BY <1>9, <1>10

\* A copy gets a row for each attachment that is there.
LEMMA PayStepDuplicate ==
  ASSUME PayInv, NEW r \in Pages, NEW c \in Pages, NEW u \in Payers, Duplicate(r, c, u)
  PROVE  PayInv'
<1> DEFINE P == {p \in Places : p[1] = c /\ attached[<<r, p[2]>>].state = "live"}
           size(p) == attached[<<r, p[2]>>].size
           sized == {p \in P : size(p) # Unsized}
<1>1. PayTyped /\ RowsFounded /\ (\A k \in Hands : AttachFounded(k)) /\ AttachmentsPaid
  BY DEF PayInv
<1>2. /\ page[r] = "live" /\ page[c] = "none" /\ page' = [page EXCEPT ![c] = "live"]
      /\ attached' = [p \in Places |-> IF p \in P THEN [state |-> "live", size |-> size(p)] ELSE attached[p]]
      /\ stored' = stored /\ crossed' = crossed /\ hand' = hand
  BY DEF Duplicate
<1>3. /\ paid' = [p \in Places |-> IF p \in sized THEN [paid[p] EXCEPT ![u] = @ + size(p)] ELSE paid[p]]
      /\ payer' = [p \in Places |-> IF p \in sized THEN u ELSE payer[p]]
  <2>1. Charge(sized, u, [p \in Places |-> size(p)])
    BY DEF Duplicate
  <2>2. \A p \in Places : [i \in Places |-> size(i)][p] = size(p)
    OBVIOUS
  <2> HIDE DEF size, sized
  <2> QED BY <2>1, <2>2 DEF Charge
<1>4. ASSUME NEW p \in P
      PROVE  /\ p \in Places /\ <<r, p[2]>> \in Places /\ p[1] = c
             /\ attached[<<r, p[2]>>].state = "live" /\ attached[p].state = "none"
             /\ size(p) \in Nat \union {Unsized} /\ p[2] \in stored
  <2>1. p \in Places /\ <<r, p[2]>> \in Places /\ p[1] = c /\ attached[<<r, p[2]>>].state = "live"
    BY DEF Places
  <2>2. attached[<<r, p[2]>>] \in AttachedRow
    BY <1>1, <2>1 DEF PayTyped
  <2>3. attached[p].state = "none"
    BY <1>1, <1>2, <2>1 DEF RowsFounded
  <2>4. p[2] \in stored
    <3>1. <<r, p[2]>>[2] = p[2]
      OBVIOUS
    <3> QED BY <1>1, <2>1, <3>1 DEF RowsFounded
  <2> QED BY <2>1, <2>2, <2>3, <2>4 DEF AttachedRow
<1>5. ASSUME NEW p \in sized PROVE p \in P /\ size(p) \in Nat
  BY <1>4
<1>6. \A p \in P \ sized : size(p) = Unsized
  OBVIOUS
<1>7. P \subseteq Places
  OBVIOUS
<1>8. \A k \in Hands : hand[k].at = "attach" => \A p \in P : hand[k].place[2] # p[2]
  <2>1. ASSUME NEW k \in Hands, hand[k].at = "attach", NEW p \in P PROVE hand[k].place[2] # p[2]
    <3>1. <<r, p[2]>> \in Places /\ attached[<<r, p[2]>>].state = "live" /\ <<r, p[2]>>[2] = p[2]
      BY <1>4
    <3> QED BY <1>1, <2>1, <3>1 DEF AttachFounded
  <2> QED BY <2>1
<1> HIDE DEF P, size, sized
<1>9. PayTyped'
  <2>1. \A p \in P : [state |-> "live", size |-> size(p)] \in AttachedRow
    BY <1>4 DEF AttachedRow
  <2>2. attached' \in [Places -> AttachedRow]
    BY <1>1, <1>2, <2>1 DEF PayTyped
  <2>3. ASSUME NEW p \in Places
        PROVE  (IF p \in sized THEN [paid[p] EXCEPT ![u] = @ + size(p)] ELSE paid[p]) \in [Payers -> Int]
    <3>1. paid[p] \in [Payers -> Int] /\ paid[p][u] \in Int
      BY <1>1 DEF PayTyped
    <3>2. CASE p \in sized
      BY <1>5, <3>1, <3>2
    <3> QED BY <3>1, <3>2
  <2>4. paid' \in [Places -> [Payers -> Int]]
    BY <1>3, <2>3
  <2> QED BY <1>1, <1>2, <1>3, <2>2, <2>4 DEF PayTyped
<1>10. page'[c] = "live" /\ \A i \in Pages : page[i] # "none" => page'[i] # "none"
  BY <1>1, <1>2 DEF PayTyped
<1>11. \A p \in Places : attached'[p] = IF p \in P THEN [state |-> "live", size |-> size(p)] ELSE attached[p]
  BY <1>2
<1>12. RowsFounded'
  <2>1. ASSUME NEW p \in Places, attached'[p].state # "none" PROVE p[2] \in stored' /\ page'[p[1]] # "none"
    <3>1. CASE p \in P
      BY <1>2, <1>4, <1>10, <3>1
    <3>2. CASE p \notin P
      <4>1. attached[p].state # "none" /\ p[1] \in Pages
        BY <1>11, <2>1, <3>2 DEF Places
      <4> QED BY <1>1, <1>2, <1>10, <4>1 DEF RowsFounded
    <3> QED BY <3>1, <3>2
  <2> QED BY <2>1 DEF RowsFounded
<1>13. ASSUME NEW k \in Hands PROVE AttachFounded(k)'
  <2>1. CASE hand[k].at = "attach"
    <3>1. AttachFounded(k) /\ hand[k].place \in Places
      BY <1>1, <2>1, AskParts
    <3>2. hand[k].place[1] \in Pages
      BY <3>1 DEF Places
    <3>3. \A p \in Places : p[2] = hand[k].place[2] => attached'[p].state = "none"
      BY <1>8, <1>11, <2>1, <3>1 DEF AttachFounded
    <3> QED BY <1>2, <1>10, <2>1, <3>1, <3>2, <3>3 DEF AttachFounded
  <2>2. CASE hand[k].at # "attach"
    BY <1>2, <2>2 DEF AttachFounded
  <2> QED BY <2>1, <2>2
<1>14. AttachmentsPaid'
  <2>1. ASSUME NEW p \in Places, p \notin crossed PROVE paid'[p] = [v \in Payers |-> Owed(p, v)']
    <3>1. CASE p \in sized
      <4>1. /\ paid'[p] = [paid[p] EXCEPT ![u] = @ + size(p)] /\ payer'[p] = u
            /\ attached'[p] = [state |-> "live", size |-> size(p)] /\ size(p) \in Nat
            /\ attached[p].state = "none"
        BY <1>3, <1>4, <1>5, <1>11, <2>1, <3>1
      <4> QED BY <1>1, <2>1, <4>1, PaidFirst
    <3>2. CASE p \in P /\ p \notin sized
      <4>0. attached'[p] = [state |-> "live", size |-> size(p)] /\ size(p) = Unsized
        BY <1>6, <1>11, <2>1, <3>2
      <4>a. paid'[p] = paid[p]
        BY <1>3, <2>1, <3>2
      <4>b. attached[p].state = "none"
        BY <1>4, <3>2
      <4>1. paid'[p] = paid[p] /\ attached'[p].size = Unsized /\ attached[p].state = "none"
        BY <4>a, <4>b, <4>0
      <4>2. paid[p] = [v \in Payers |-> Owed(p, v)]
        BY <1>1, <2>1 DEF AttachmentsPaid, Owed
      <4>3. \A v \in Payers : Owed(p, v) = 0 /\ Owed(p, v)' = 0
        BY <4>1 DEF Owed
      <4> QED BY <4>1, <4>2, <4>3
    <3>3. CASE p \notin P
      <4>1. paid'[p] = paid[p] /\ payer'[p] = payer[p] /\ attached'[p] = attached[p]
        BY <1>3, <1>5, <1>11, <2>1, <3>3
      <4> QED BY <1>1, <2>1, <4>1, PaidElsewhere
    <3> QED BY <3>1, <3>2, <3>3
  <2> QED BY <1>2, <2>1 DEF AttachmentsPaid, Owed
<1> QED BY <1>9, <1>12, <1>13, <1>14 DEF PayInv

LEMMA PayStepTrash ==
  ASSUME PayInv, NEW r \in Pages, TrashPage(r)
  PROVE  PayInv'
<1>1. PayTyped /\ RowsFounded /\ (\A k \in Hands : AttachFounded(k)) /\ AttachmentsPaid
  BY DEF PayInv
<1>2. /\ page[r] # "none" /\ page' = [page EXCEPT ![r] = IF @ = "live" THEN "trashed" ELSE "live"]
      /\ stored' = stored /\ attached' = attached /\ paid' = paid /\ payer' = payer /\ crossed' = crossed
      /\ hand' = hand
  BY DEF TrashPage
<1>3. /\ page' \in [Pages -> {"none", "live", "trashed"}]
      /\ \A i \in Pages : page[i] # "none" => page'[i] # "none"
  BY <1>1, <1>2 DEF PayTyped
<1>4. PayTyped'
  BY <1>1, <1>2, <1>3 DEF PayTyped
<1>5. RowsFounded'
  <2>1. \A p \in Places : p[1] \in Pages
    BY DEF Places
  <2> QED BY <1>1, <1>2, <1>3, <2>1 DEF RowsFounded
<1>6. ASSUME NEW k \in Hands PROVE AttachFounded(k)'
  <2>1. hand[k].at = "attach" => hand[k].place[1] \in Pages
    BY <1>1, AskParts DEF Places
  <2>2. AttachFounded(k)
    BY <1>1
  <2> QED BY <1>2, <1>3, <2>1, <2>2 DEF AttachFounded
<1>7. AttachmentsPaid'
  BY <1>1, <1>2 DEF AttachmentsPaid
<1> QED BY <1>4, <1>5, <1>6, <1>7 DEF PayInv

\* Every user's usage is what they were charged for and is still there, but
\* for the charges and refunds that crossed (AttachmentsPaid).
THEOREM AttachmentsAlwaysPaid == AttachmentSpec => []AttachmentsPaid
<1>1. PayInv /\ AskedRows /\ [AttachmentNext]_attachmentVars => PayInv' /\ AskedRows'
  <2> SUFFICES ASSUME PayInv, AskedRows, [AttachmentNext]_attachmentVars PROVE PayInv' /\ AskedRows'
    OBVIOUS
  <2>1. CASE AttachmentNext
    <3>1. AskedRows'
      BY <2>1, AskedKept DEF PayInv
    <3>2. ASSUME NEW h \in Hands, AttachFails(h) PROVE PayInv'
      <4>1. hand' = [hand EXCEPT ![h] = AtRest] /\ UNCHANGED <<page, stored, attached, paid, payer, crossed>>
        BY <3>2 DEF AttachFails, Finish
      <4> QED BY <4>1, PayQuiet DEF AtRest, HandAsk
    <3>3. ASSUME NEW h \in Hands, NEW u \in Payers, NEW r \in Pages, BeginAttach(h, r, u) PROVE PayInv'
      BY <3>3, PayStepBegin
    <3>4. ASSUME NEW h \in Hands, NEW u \in Payers, NEW p \in Places, BeginDetach(h, p, u) PROVE PayInv'
      BY <3>4, PayStepBegin
    <3>5. ASSUME NEW h \in Hands, NEW p \in Places, BeginMeasure(h, p) PROVE PayInv'
      <4> DEFINE r == [at |-> "measure", place |-> p, for |-> IF page[p[1]] = "live" THEN PageOf[p[1]] ELSE NoPayer]
      <4>1. p[1] \in Pages
        BY DEF Places
      <4>2. r \in HandAsk /\ r.at # "attach"
        BY <4>1, AttachmentAssumption DEF HandAsk, MeasureAsk
      <4>3. hand' = [hand EXCEPT ![h] = r] /\ UNCHANGED <<page, stored, attached, paid, payer, crossed>>
        BY <3>5 DEF BeginMeasure, Take
      <4> HIDE DEF r
      <4> QED BY <4>2, <4>3, PayQuiet
    <3>6. PayInv'
      BY <2>1, <3>2, <3>3, <3>4, <3>5, PayStepAttach, PayStepDetach, PayStepMeasure, PayStepDuplicate, PayStepTrash
         DEF AttachmentNext
    <3> QED BY <3>1, <3>6
  <2>2. CASE UNCHANGED attachmentVars
    BY <2>2 DEF attachmentVars, PayInv, PayTyped, RowsFounded, AttachFounded, AttachmentsPaid, AskedRows
  <2> QED BY <2>1, <2>2
<1>2. PayInv => AttachmentsPaid
  BY DEF PayInv
<1> QED BY <1>1, <1>2, PayInitInv, AskedInit, PTL DEF AttachmentSpec

(* -------------------------------- reading -------------------------------- *)

LEMMA Smallest ==
  ASSUME NEW T, T \subseteq Nat, T # {}
  PROVE  \E x \in T : \A y \in T : x <= y
<1>1. IsWellFoundedOn(OpToRel(<, Nat), Nat)
  BY NatLessThanWellFounded
<1>2. PICK R : R = OpToRel(<, Nat)
  OBVIOUS
<1>3. ASSUME NEW x \in Nat, NEW y \in Nat, y < x PROVE <<y, x>> \in R
  BY <1>2, <1>3 DEF OpToRel
<1>4. PICK x \in T : \A y \in T : ~(<<y, x>> \in R)
  BY <1>1, <1>2, WFMin
<1>5. ASSUME NEW y \in T PROVE x <= y
  <2>1. x \in Nat /\ y \in Nat /\ ~(y < x)
    BY <1>3, <1>4
  <2> QED BY <2>1
<1> QED BY <1>5

LEMMA Largest ==
  ASSUME NEW n \in Nat, NEW T, T \subseteq 0..n, T # {}
  PROVE  \E x \in T : \A y \in T : y <= x
<1>1. PICK S : S = {n - x : x \in T}
  OBVIOUS
<1>2. \A y \in T : n - y \in Nat
  OBVIOUS
<1>3. S \subseteq Nat /\ S # {}
  BY <1>1, <1>2
<1>4. \A y \in T : n - y \in S
  BY <1>1
<1>5. PICK s \in S : \A y \in S : s <= y
  BY <1>3, Smallest
<1>6. PICK x \in T : s = n - x
  BY <1>1
<1>7. ASSUME NEW y \in T PROVE y <= x
  <2>1. n - x <= n - y
    BY <1>4, <1>5, <1>6
  <2> QED BY <2>1
<1> QED BY <1>7

AttemptRow ==
  [fn : {"read", "fetch", "extra"}, state : {"pending", "running", "stopped", "finished", "error"},
   why : Failures \union {"none"}, due : {"nothing", "process", "dispatch"}, from : Nat, seen : Nat, hidden : BOOLEAN]

Asked(q) == q \in [at : {"read"}, text : {q.text}]
Planned(q) == q \in [at : {"clear", "emit"}, text : {q.text}, left : SUBSET Nat, seen : Nat, clears : BOOLEAN]

ReadTyped ==
  /\ attempts \in Seq(AttemptRow) /\ DOMAIN attempts = 1..Len(attempts) /\ Len(attempts) \in Nat
  /\ DOMAIN retry = Retries /\ \A h \in Retries : retry[h] = NoRetry \/ Asked(retry[h]) \/ Planned(retry[h])

\* A text is empty, of a user, of a task, or of a failure that some attempt had.
BodySound ==
  \/ body.by \in {"user", "task"} \/ body = Blank
  \/ \E j \in DOMAIN attempts : attempts[j].fn = "read" /\ attempts[j].why # "none" /\ body = Placeholder(attempts[j].why)

WhysSettled == \A j \in DOMAIN attempts : attempts[j].why # "none" => ~Ongoing(attempts[j])

\* What a retry is about to repeat was repeated since at most by one that it
\* does not know.
PlanFits(q) ==
  /\ q.left \in SUBSET (0..Len(attempts)) /\ q.left # {} /\ q.seen <= Len(attempts)
  /\ q.clears => q.text.by = "failure"
  /\ \A j \in DOMAIN attempts :
       attempts[j].from # 0 /\ attempts[j].from \in q.left /\ ~attempts[j].hidden => q.seen < j

ReadInv ==
  /\ ReadTyped /\ BodySound /\ WhysSettled /\ EditsSurvive /\ ReplacedOnce
  /\ \A h \in Retries : Planned(retry[h]) => PlanFits(retry[h])

LEMMA RestIsNoPlan == ~Planned(NoRetry) /\ ~Asked(NoRetry)
BY DEF Planned, Asked, NoRetry

LEMMA AttemptIsRow ==
  ASSUME NEW fn \in {"read", "fetch", "extra"}, NEW i \in Nat, NEW n \in Nat
  PROVE  Attempt(fn, i, n) \in AttemptRow /\ Attempt(fn, i, n).why = "none" /\ Attempt(fn, i, n).from = i
         /\ Attempt(fn, i, n).seen = n
BY DEF Attempt, AttemptRow

LEMMA ReadingInitInv == ReadingInit => ReadInv
<1> SUFFICES ASSUME ReadingInit PROVE ReadInv
  OBVIOUS
<1>1. PICK a \in AttemptRow : attempts = <<a>> /\ a.why = "none" /\ a.from = 0
  <2>1. PICK fn \in {"read", "fetch", "extra"} : attempts = <<Attempt(fn, 0, 0)>>
    BY DEF ReadingInit, FirstTask
  <2> QED BY <2>1, AttemptIsRow
<1>2. attempts \in Seq(AttemptRow) /\ Len(attempts) = 1 /\ DOMAIN attempts = 1..1 /\ attempts[1] = a
  BY <1>1
<1>3. ReadTyped
  BY <1>2 DEF ReadingInit, ReadTyped
<1>4. BodySound
  BY DEF ReadingInit, BodySound, Edited
<1>5. WhysSettled /\ EditsSurvive /\ ReplacedOnce
  BY <1>1, <1>2 DEF ReadingInit, WhysSettled, EditsSurvive, ReplacedOnce
<1>6. \A h \in Retries : ~Planned(retry[h])
  BY RestIsNoPlan DEF ReadingInit
<1> QED BY <1>3, <1>4, <1>5, <1>6 DEF ReadInv

\* One attempt goes on: what makes it which it is stays.
LEMMA AttemptGoesOn ==
  ASSUME ReadInv, NEW j \in DOMAIN attempts, NEW a \in AttemptRow, attempts' = [attempts EXCEPT ![j] = a],
         a.fn = attempts[j].fn, a.from = attempts[j].from, a.seen = attempts[j].seen,
         attempts[j].hidden => a.hidden, attempts[j].why # "none" => a.why = attempts[j].why,
         a.why # "none" => ~Ongoing(a),
         retry' = retry, erased' = erased, body' = body \/ BodySound'
  PROVE  ReadInv'
<1>1. ReadTyped /\ BodySound /\ WhysSettled /\ EditsSurvive /\ ReplacedOnce
  BY DEF ReadInv
<1>2. /\ Len(attempts') = Len(attempts) /\ DOMAIN attempts' = DOMAIN attempts /\ attempts' \in Seq(AttemptRow)
      /\ attempts'[j] = a /\ \A k \in DOMAIN attempts \ {j} : attempts'[k] = attempts[k]
  BY <1>1, ExceptSeq DEF ReadTyped
<1>3. ReadTyped'
  BY <1>1, <1>2 DEF ReadTyped
<1>4. \A k \in DOMAIN attempts :
        /\ attempts'[k].fn = attempts[k].fn /\ attempts'[k].from = attempts[k].from
        /\ attempts'[k].seen = attempts[k].seen /\ (attempts[k].hidden => attempts'[k].hidden)
        /\ attempts[k].why # "none" => attempts'[k].why = attempts[k].why
  BY <1>2
<1>5. BodySound'
  BY <1>1, <1>2, <1>4 DEF BodySound
<1>6. WhysSettled'
  BY <1>1, <1>2 DEF WhysSettled
<1>7. EditsSurvive'
  BY <1>1 DEF EditsSurvive
<1>8. ReplacedOnce'
  BY <1>1, <1>2, <1>4 DEF ReplacedOnce
<1>10. \A h \in Retries : Planned(retry[h])' => PlanFits(retry[h])'
  <2>1. ASSUME NEW h \in Retries, Planned(retry[h])' PROVE PlanFits(retry[h])'
    <3>1. Planned(retry[h]) /\ retry'[h] = retry[h]
      BY <2>1 DEF Planned
    <3>2. PlanFits(retry[h])
      BY <3>1 DEF ReadInv
    <3> QED BY <1>2, <1>4, <3>1, <3>2 DEF PlanFits
  <2> QED BY <2>1
<1> QED BY <1>3, <1>5, <1>6, <1>7, <1>8, <1>10 DEF ReadInv

\* A retry goes on, and attempts stay.
LEMMA RetryGoesOn ==
  ASSUME ReadInv, NEW h \in Retries, NEW r, retry' = [retry EXCEPT ![h] = r],
         r = NoRetry \/ Asked(r) \/ Planned(r), Planned(r) => PlanFits(r),
         attempts' = attempts, body' = body \/ BodySound', EditsSurvive'
  PROVE  ReadInv'
<1>1. ReadTyped /\ BodySound /\ WhysSettled /\ ReplacedOnce /\ \A k \in Retries : Planned(retry[k]) => PlanFits(retry[k])
  BY DEF ReadInv
<1>2. retry'[h] = r /\ \A k \in Retries \ {h} : retry'[k] = retry[k]
  BY <1>1 DEF ReadTyped
<1>3. ReadTyped'
  BY <1>1, <1>2 DEF ReadTyped, Asked, Planned
<1>4. BodySound' /\ WhysSettled' /\ ReplacedOnce'
  BY <1>1 DEF BodySound, WhysSettled, ReplacedOnce
<1>5. ASSUME NEW k \in Retries, Planned(retry[k])' PROVE PlanFits(retry[k])'
  <2>1. CASE k = h
    <3>1. Planned(r)
      BY <1>2, <1>5, <2>1 DEF Planned
    <3> QED BY <1>2, <2>1, <3>1 DEF PlanFits
  <2>2. CASE k # h
    <3>1. Planned(retry[k]) /\ retry'[k] = retry[k]
      BY <1>2, <1>5, <2>2 DEF Planned
    <3> QED BY <1>1, <3>1 DEF PlanFits
  <2> QED BY <2>1, <2>2
<1> QED BY <1>3, <1>4, <1>5 DEF ReadInv

\* A task is made, of the attempts s that differ in what is due at most.
LEMMA AttemptAdded ==
  ASSUME ReadInv, NEW s \in Seq(AttemptRow), Len(s) = Len(attempts), NEW a \in AttemptRow, a.why = "none",
         \A k \in 1..Len(attempts) :
           /\ s[k].fn = attempts[k].fn /\ s[k].state = attempts[k].state /\ s[k].why = attempts[k].why
           /\ s[k].from = attempts[k].from /\ s[k].seen = attempts[k].seen /\ s[k].hidden = attempts[k].hidden,
         attempts' = Append(s, a), body' = body, erased' = erased,
         a.from # 0 => \A k \in 1..Len(attempts) : attempts[k].from = a.from /\ ~attempts[k].hidden => a.seen < k,
         DOMAIN retry' = Retries,
         \A h \in Retries :
           \/ retry'[h] = retry[h] \/ retry'[h] = NoRetry
           \/ /\ Planned(retry[h]) /\ Planned(retry'[h]) /\ retry'[h].left # {}
              /\ retry'[h].left \subseteq retry[h].left /\ retry'[h].seen = retry[h].seen
              /\ retry'[h].clears = retry[h].clears /\ retry'[h].text = retry[h].text
  PROVE  ReadInv'
<1>1. /\ ReadTyped /\ BodySound /\ WhysSettled /\ EditsSurvive /\ ReplacedOnce
      /\ DOMAIN attempts = 1..Len(attempts) /\ Len(attempts) \in Nat
      /\ \A h \in Retries : Planned(retry[h]) => PlanFits(retry[h])
  BY DEF ReadInv, ReadTyped
<1>2. PICK n \in Nat : n = Len(attempts)
  BY <1>1
<1>3. /\ attempts' \in Seq(AttemptRow) /\ Len(attempts') = n + 1 /\ attempts'[n + 1] = a
      /\ \A k \in 1..n : attempts'[k] = s[k]
  BY <1>2, AppendProperties
<1>4. DOMAIN attempts' = 1..(n + 1) /\ DOMAIN attempts = 1..n
  BY <1>1, <1>2, <1>3
<1>5. \A k \in 1..n :
        /\ attempts'[k].fn = attempts[k].fn /\ attempts'[k].state = attempts[k].state
        /\ attempts'[k].why = attempts[k].why /\ attempts'[k].from = attempts[k].from
        /\ attempts'[k].seen = attempts[k].seen /\ attempts'[k].hidden = attempts[k].hidden
  BY <1>2, <1>3
<1>6. \A k \in 1..(n + 1) : k = n + 1 \/ k \in 1..n
  OBVIOUS
<1>7. \A h \in Retries : retry'[h] = NoRetry \/ Asked(retry'[h]) \/ Planned(retry'[h])
  BY <1>1 DEF ReadTyped
<1>8. ReadTyped'
  <2>1. attempts' \in Seq(AttemptRow) /\ DOMAIN attempts' = 1..Len(attempts') /\ Len(attempts') \in Nat
    BY <1>3, <1>4
  <2> QED BY <1>7, <2>1 DEF ReadTyped, Asked, Planned
<1>9. BodySound'
  BY <1>1, <1>4, <1>5 DEF BodySound
<1>10. WhysSettled' /\ EditsSurvive'
  BY <1>1, <1>3, <1>4, <1>5, <1>6 DEF WhysSettled, EditsSurvive, Ongoing
<1>11. ReplacedOnce'
  <2>1. ASSUME NEW j \in 1..(n + 1), NEW k \in 1..(n + 1),
               j < k, attempts'[j].from # 0, attempts'[j].from = attempts'[k].from, ~attempts'[j].hidden
        PROVE  attempts'[k].seen < j
    <3>1. j \in 1..n
      BY <2>1
    <3>2. CASE k \in 1..n
      BY <1>1, <1>4, <1>5, <2>1, <3>1, <3>2 DEF ReplacedOnce
    <3>3. CASE k = n + 1
      BY <1>2, <1>3, <1>5, <2>1, <3>1, <3>3
    <3> QED BY <1>6, <3>2, <3>3
  <2> QED BY <1>4, <2>1 DEF ReplacedOnce
<1>12. ASSUME NEW h \in Retries, NEW q, q = retry'[h], Planned(q) PROVE PlanFits(q)'
  <2>1. PICK p : p = retry[h]
    OBVIOUS
  <2>2. /\ Planned(p) /\ q.left \subseteq p.left /\ q.left # {} /\ q.seen = p.seen /\ q.clears = p.clears
        /\ q.text = p.text
    BY <1>1, <1>12, <2>1, RestIsNoPlan DEF PlanFits
  <2>3. PlanFits(p)
    BY <1>1, <2>1, <2>2
  <2>4. q.left \subseteq 0..(n + 1) /\ q.seen \in Nat /\ q.seen <= n /\ (q.clears => q.text.by = "failure")
    BY <1>2, <1>12, <2>2, <2>3 DEF PlanFits, Planned
  <2>5. ASSUME NEW j \in 1..(n + 1), attempts'[j].from # 0, attempts'[j].from \in q.left, ~attempts'[j].hidden
        PROVE  q.seen < j
    <3>1. CASE j = n + 1
      BY <2>4, <3>1
    <3>2. CASE j \in 1..n
      BY <1>4, <1>5, <2>2, <2>3, <2>5, <3>2 DEF PlanFits
    <3> QED BY <1>6, <3>1, <3>2
  <2> QED BY <1>3, <1>4, <2>2, <2>4, <2>5 DEF PlanFits
<1>13. \A h \in Retries : Planned(retry[h])' => PlanFits(retry[h])'
  <2>1. ASSUME NEW h \in Retries, Planned(retry[h])' PROVE PlanFits(retry[h])'
    <3>1. PICK q : q = retry'[h]
      OBVIOUS
    <3>2. PlanFits(q)'
      BY <1>12, <2>1, <3>1 DEF Planned
    <3> QED BY <3>1, <3>2 DEF PlanFits
  <2> QED BY <2>1
<1> QED BY <1>8, <1>9, <1>10, <1>11, <1>13 DEF ReadInv

LEMMA ReadStepAttempt ==
  ASSUME ReadInv, NEW j \in DOMAIN attempts,
         Claim(j) \/ Stop(j) \/ Hide(j) \/ Drop(j) \/ Process(j) \/ \E why \in Failures \union {"none"} : Report(j, why)
  PROVE  ReadInv'
<1>1. ReadTyped /\ BodySound /\ WhysSettled /\ EditsSurvive /\ ReplacedOnce
  BY DEF ReadInv
<1>2. PICK a \in AttemptRow : a = attempts[j]
  BY <1>1, ElementOfSeq DEF ReadTyped
<1>3. a.why # "none" => ~Ongoing(a)
  BY <1>1, <1>2 DEF WhysSettled
<1>4. CASE Claim(j)
  <2>1. PICK r : r = [a EXCEPT !.state = "running"]
    OBVIOUS
  <2>2. /\ r \in AttemptRow /\ r.fn = a.fn /\ r.from = a.from /\ r.seen = a.seen /\ r.hidden = a.hidden
        /\ r.why = a.why
    BY <2>1 DEF AttemptRow
  <2>3. attempts' = [attempts EXCEPT ![j] = r] /\ a.why = "none"
    BY <1>2, <1>3, <1>4, <2>1 DEF Claim, Ongoing
  <2>4. retry' = retry /\ erased' = erased /\ body' = body
    BY <1>4 DEF Claim
  <2> QED BY <1>2, <2>2, <2>3, <2>4, AttemptGoesOn
<1>5. CASE Stop(j)
  <2>1. PICK r : r = [a EXCEPT !.state = "stopped"]
    OBVIOUS
  <2>2. /\ r \in AttemptRow /\ r.fn = a.fn /\ r.from = a.from /\ r.seen = a.seen /\ r.hidden = a.hidden
        /\ r.why = a.why /\ ~Ongoing(r)
    BY <2>1 DEF AttemptRow, Ongoing
  <2>3. attempts' = [attempts EXCEPT ![j] = r]
    BY <1>2, <1>5, <2>1 DEF Stop
  <2>4. retry' = retry /\ erased' = erased /\ body' = body
    BY <1>5 DEF Stop
  <2> QED BY <1>2, <2>2, <2>3, <2>4, AttemptGoesOn
<1>6. CASE Hide(j)
  <2>1. PICK r : r = [a EXCEPT !.hidden = TRUE]
    OBVIOUS
  <2>2. /\ r \in AttemptRow /\ r.fn = a.fn /\ r.from = a.from /\ r.seen = a.seen /\ r.hidden
        /\ r.why = a.why /\ r.state = a.state
    BY <2>1 DEF AttemptRow
  <2>3. attempts' = [attempts EXCEPT ![j] = r]
    BY <1>2, <1>6, <2>1 DEF Hide
  <2>4. retry' = retry /\ erased' = erased /\ body' = body
    BY <1>6 DEF Hide
  <2> QED BY <1>2, <1>3, <2>2, <2>3, <2>4, AttemptGoesOn DEF Ongoing
<1>7. CASE Drop(j)
  <2>1. PICK r : r = [a EXCEPT !.due = "nothing"]
    OBVIOUS
  <2>2. /\ r \in AttemptRow /\ r.fn = a.fn /\ r.from = a.from /\ r.seen = a.seen /\ r.hidden = a.hidden
        /\ r.why = a.why /\ r.state = a.state
    BY <2>1 DEF AttemptRow
  <2>3. attempts' = [attempts EXCEPT ![j] = r]
    BY <1>2, <1>7, <2>1 DEF Drop
  <2>4. retry' = retry /\ erased' = erased /\ body' = body
    BY <1>7 DEF Drop
  <2> QED BY <1>2, <1>3, <2>2, <2>3, <2>4, AttemptGoesOn DEF Ongoing
<1>8. CASE Process(j)
  <2>0. PICK due \in {"nothing", "dispatch"} : attempts' = [attempts EXCEPT ![j].due = due]
    BY <1>8 DEF Process
  <2>1. PICK r : r = [a EXCEPT !.due = due]
    OBVIOUS
  <2>2. /\ r \in AttemptRow /\ r.fn = a.fn /\ r.from = a.from /\ r.seen = a.seen /\ r.hidden = a.hidden
        /\ r.why = a.why /\ r.state = a.state
    BY <2>1 DEF AttemptRow
  <2>3. attempts' = [attempts EXCEPT ![j] = r]
    BY <1>2, <2>0, <2>1
  <2>4. retry' = retry /\ erased' = erased
    BY <1>8 DEF Process
  <2>5. DOMAIN attempts' = DOMAIN attempts /\ attempts'[j] = r
    BY <2>3
  <2>6. body' = body \/ BodySound'
    <3>1. CASE a.fn # "read"
      BY <1>2, <1>8, <3>1 DEF Process, Results
    <3>2. CASE a.fn = "read" /\ a.why # "none"
      <4>1. body' = Placeholder(a.why)
        BY <1>2, <1>8, <3>2 DEF Process, Results
      <4> QED BY <2>2, <2>5, <3>2, <4>1 DEF BodySound, Placeholder
    <3>3. CASE a.fn = "read" /\ a.why = "none"
      <4>1. body' \in {body, Blank, Parsed(j)}
        BY <1>2, <1>8, <3>3 DEF Process, Results
      <4>2. CASE body' = Parsed(j)
        <5>1. body'.by = "task"
          BY <4>2 DEF Parsed
        <5> QED BY <5>1 DEF BodySound
      <4>3. CASE body' = Blank
        <5>1. Blank' = Blank
          BY DEF Blank
        <5> QED BY <4>3, <5>1 DEF BodySound
      <4> QED BY <4>1, <4>2, <4>3
    <3> QED BY <3>1, <3>2, <3>3
  <2> QED BY <1>2, <1>3, <2>2, <2>3, <2>4, <2>6, AttemptGoesOn DEF Ongoing
<1>9. ASSUME NEW why \in Failures \union {"none"}, Report(j, why) PROVE ReadInv'
  <2>0. PICK state \in {"finished", "error"} : state = IF why = "none" THEN "finished" ELSE "error"
    OBVIOUS
  <2>1. PICK r : r = [a EXCEPT !.state = state, !.why = why, !.due = "process"]
    OBVIOUS
  <2>2. /\ r \in AttemptRow /\ r.fn = a.fn /\ r.from = a.from /\ r.seen = a.seen /\ r.hidden = a.hidden
        /\ r.state = state /\ ~Ongoing(r)
    BY <2>1 DEF AttemptRow, Ongoing
  <2>3. /\ attempts' = [attempts EXCEPT ![j].state = state, ![j].why = why, ![j].due = "process"]
        /\ a.state = "running"
    BY <1>2, <1>9, <2>0 DEF Report
  <2>4. attempts' = [attempts EXCEPT ![j] = r]
    BY <1>2, <2>1, <2>3
  <2>5. a.why = "none"
    BY <1>3, <2>3 DEF Ongoing
  <2>6. attempts[j].why = "none" /\ r.fn = attempts[j].fn /\ r.from = attempts[j].from /\ r.seen = attempts[j].seen
        /\ r.hidden = attempts[j].hidden
    BY <1>2, <2>2, <2>5
  <2>7. retry' = retry /\ erased' = erased /\ body' = body
    BY <1>9 DEF Report
  <2> QED BY <2>2, <2>4, <2>6, <2>7, AttemptGoesOn
<1> QED BY <1>4, <1>5, <1>6, <1>7, <1>8, <1>9

LEMMA ReadStepDispatch ==
  ASSUME ReadInv, NEW j \in DOMAIN attempts, Dispatch(j)
  PROVE  ReadInv'
<1>1. /\ ReadTyped /\ attempts \in Seq(AttemptRow) /\ DOMAIN attempts = 1..Len(attempts) /\ Len(attempts) \in Nat
      /\ DOMAIN retry = Retries
  BY DEF ReadInv, ReadTyped
<1>2. PICK a \in AttemptRow : a = attempts[j]
  BY <1>1, ElementOfSeq
<1>3. PICK r : r = [a EXCEPT !.due = "nothing"]
  OBVIOUS
<1>4. /\ r \in AttemptRow /\ r.fn = a.fn /\ r.from = a.from /\ r.seen = a.seen /\ r.hidden = a.hidden
      /\ r.why = a.why /\ r.state = a.state
  BY <1>3 DEF AttemptRow
<1>5. PICK s : s = [attempts EXCEPT ![j] = r]
  OBVIOUS
<1>6. s \in Seq(AttemptRow) /\ Len(s) = Len(attempts) /\ s[j] = r /\ \A k \in DOMAIN attempts \ {j} : s[k] = attempts[k]
  BY <1>1, <1>4, <1>5, ExceptSeq
<1>7. PICK b \in AttemptRow : attempts' = Append(s, b) /\ b.why = "none" /\ b.from = 0
  <2>1. PICK fn \in {"read", "fetch", "extra"} : fn = IF attempts[j].fn = "fetch" THEN "read" ELSE "extra"
    OBVIOUS
  <2>2. attempts' = Append([attempts EXCEPT ![j].due = "nothing"], Attempt(fn, 0, Len(attempts)))
    BY <2>1 DEF Dispatch
  <2>3. [attempts EXCEPT ![j].due = "nothing"] = s
    BY <1>2, <1>3, <1>5
  <2>4. /\ Attempt(fn, 0, Len(attempts)) \in AttemptRow /\ Attempt(fn, 0, Len(attempts)).why = "none"
        /\ Attempt(fn, 0, Len(attempts)).from = 0
    BY <1>1, AttemptIsRow
  <2> QED BY <2>2, <2>3, <2>4
<1>8. body' = body /\ erased' = erased /\ retry' = retry
  BY DEF Dispatch
<1>9. \A k \in 1..Len(attempts) :
        /\ s[k].fn = attempts[k].fn /\ s[k].state = attempts[k].state /\ s[k].why = attempts[k].why
        /\ s[k].from = attempts[k].from /\ s[k].seen = attempts[k].seen /\ s[k].hidden = attempts[k].hidden
  BY <1>1, <1>2, <1>4, <1>6
<1> QED BY <1>1, <1>6, <1>7, <1>8, <1>9, AttemptAdded

LEMMA ReadStepRetry ==
  ASSUME ReadInv, NEW h \in Retries, BeginRetry(h) \/ PlanRetry(h) \/ ClearStale(h) \/ FailRetry(h)
  PROVE  ReadInv'
<1>1. /\ ReadTyped /\ EditsSurvive /\ attempts \in Seq(AttemptRow) /\ DOMAIN attempts = 1..Len(attempts)
      /\ Len(attempts) \in Nat
  BY DEF ReadInv, ReadTyped
<1>2. PICK q : q = retry[h] /\ (q = NoRetry \/ Asked(q) \/ Planned(q)) /\ (Planned(q) => PlanFits(q))
  BY <1>1 DEF ReadInv, ReadTyped
<1>3. CASE BeginRetry(h)
  <2>1. PICK r : r = [at |-> "read", text |-> body]
    OBVIOUS
  <2>2. Asked(r) /\ ~Planned(r)
    BY <2>1 DEF Asked, Planned
  <2>3. retry' = [retry EXCEPT ![h] = r] /\ attempts' = attempts /\ body' = body /\ erased' = erased
    BY <1>3, <2>1 DEF BeginRetry
  <2> QED BY <1>1, <2>2, <2>3, RetryGoesOn DEF EditsSurvive
<1>4. CASE FailRetry(h)
  <2>1. retry' = [retry EXCEPT ![h] = NoRetry] /\ attempts' = attempts /\ body' = body /\ erased' = erased
    BY <1>4 DEF FailRetry
  <2> QED BY <1>1, <2>1, RestIsNoPlan, RetryGoesOn DEF EditsSurvive
<1>5. CASE PlanRetry(h)
  <2>1. /\ retry' = [retry EXCEPT ![h] = Plan(q.text, attempts)] /\ attempts' = attempts /\ body' = body
        /\ erased' = erased
    BY <1>2, <1>5 DEF PlanRetry
  <2>2. PICK r : r = Plan(q.text, attempts)
    OBVIOUS
  <2>3. TaskErrorContent(q.text, attempts) => q.text.by = "failure"
    BY DEF TaskErrorContent, Placeholder
  <2>4. CASE r = NoRetry
    BY <1>1, <2>1, <2>2, <2>4, RestIsNoPlan, RetryGoesOn DEF EditsSurvive
  <2>5. CASE r # NoRetry
    <3>1. PICK left \in {Retryable(attempts), {0}}, clears \in BOOLEAN :
            /\ r = [at |-> "clear", text |-> q.text, left |-> left, seen |-> Len(attempts), clears |-> clears]
            /\ left # {} /\ (clears => TaskErrorContent(q.text, attempts))
      BY <2>2, <2>5 DEF Plan, TaskErrorContent
    <3>2. Retryable(attempts) \subseteq 1..Len(attempts)
      BY <1>1 DEF Retryable, Listed
    <3>3. left \subseteq 0..Len(attempts)
      BY <1>1, <3>1, <3>2
    <3>4. Planned(r)
      BY <1>1, <3>1, <3>3 DEF Planned
    <3>5. ASSUME NEW j \in DOMAIN attempts, attempts[j].from # 0, attempts[j].from \in left, ~attempts[j].hidden
          PROVE  FALSE
      BY <3>1, <3>5 DEF Retryable, Listed
    <3>6. PlanFits(r)
      BY <1>1, <2>3, <3>1, <3>3, <3>5 DEF PlanFits
    <3> QED BY <1>1, <2>1, <2>2, <3>4, <3>6, RetryGoesOn DEF EditsSurvive
  <2> QED BY <2>4, <2>5
<1>6. CASE ClearStale(h)
  <2>1. Planned(q) /\ q.at = "clear"
    BY <1>2, <1>6 DEF ClearStale, Asked, NoRetry
  <2>2. PICK r : r = [q EXCEPT !.at = "emit"]
    OBVIOUS
  <2>3. /\ Planned(r) /\ r.left = q.left /\ r.seen = q.seen /\ r.clears = q.clears /\ r.text = q.text
    BY <2>1, <2>2 DEF Planned
  <2>4. PlanFits(r)
    BY <1>2, <2>1, <2>3 DEF PlanFits
  <2>5. retry' = [retry EXCEPT ![h] = r] /\ attempts' = attempts
    BY <1>1, <1>2, <1>6, <2>2 DEF ClearStale, ReadTyped
  <2>6. CASE q.clears
    <3>1. body' = Blank /\ erased' = erased \union {[read |-> q.text, was |-> body]}
      BY <1>2, <1>6, <2>6 DEF ClearStale
    <3>2. q.text.by = "failure"
      BY <1>2, <2>1, <2>6 DEF PlanFits
    <3>3. EditsSurvive'
      BY <1>1, <3>1, <3>2 DEF EditsSurvive
    <3>4. BodySound'
      BY <3>1 DEF BodySound, Blank
    <3> QED BY <2>3, <2>4, <2>5, <3>3, <3>4, RetryGoesOn
  <2>7. CASE ~q.clears
    <3>1. body' = body /\ erased' = erased
      BY <1>2, <1>6, <2>7 DEF ClearStale
    <3> QED BY <1>1, <2>3, <2>4, <2>5, <3>1, RetryGoesOn DEF EditsSurvive
  <2> QED BY <2>6, <2>7
<1> QED BY <1>3, <1>4, <1>5, <1>6

LEMMA ReadStepEmit ==
  ASSUME ReadInv, NEW h \in Retries, EmitRetry(h)
  PROVE  ReadInv'
<1>1. /\ ReadTyped /\ attempts \in Seq(AttemptRow) /\ DOMAIN attempts = 1..Len(attempts) /\ Len(attempts) \in Nat
      /\ DOMAIN retry = Retries
  BY DEF ReadInv, ReadTyped
<1>2. PICK q : q = retry[h] /\ Planned(q) /\ PlanFits(q)
  BY <1>1 DEF ReadInv, ReadTyped, EmitRetry, Asked, NoRetry
<1>3. PICK i : i = CHOOSE j \in q.left : \A k \in q.left : k <= j
  OBVIOUS
<1>4. i \in q.left
  <2>1. \E j \in q.left : \A k \in q.left : k <= j
    BY <1>1, <1>2, Largest DEF PlanFits
  <2> QED BY <1>3, <2>1
<1>5. i \in 0..Len(attempts) /\ q.seen \in Nat
  BY <1>2, <1>4 DEF PlanFits, Planned
<1>6. PICK fn \in {"read", "fetch", "extra"} : fn = IF i = 0 THEN FirstTask(origin) ELSE attempts[i].fn
  <2>1. CASE i = 0
    BY <2>1 DEF FirstTask
  <2>2. CASE i # 0
    <3>1. attempts[i] \in AttemptRow
      BY <1>1, <1>5, <2>2, ElementOfSeq
    <3> QED BY <2>2, <3>1 DEF AttemptRow
  <2> QED BY <2>1, <2>2
<1>7. PICK a \in AttemptRow : a = Attempt(fn, i, q.seen) /\ a.why = "none" /\ a.from = i /\ a.seen = q.seen
  BY <1>5, AttemptIsRow
<1>8. /\ attempts' = Append(attempts, a) /\ body' = body /\ erased' = erased
      /\ retry' = [retry EXCEPT ![h] = IF q.left \ {i} = {} THEN NoRetry ELSE [q EXCEPT !.left = q.left \ {i}]]
  <2>1. attempts' = Append(attempts, Attempt(IF i = 0 THEN FirstTask(origin) ELSE attempts[i].fn, i, q.seen))
    BY <1>2, <1>3 DEF EmitRetry, Emit
  <2>2. retry' = [retry EXCEPT ![h] = IF q.left \ {i} = {} THEN NoRetry ELSE [q EXCEPT !.left = q.left \ {i}]]
    BY <1>1, <1>2, <1>3 DEF EmitRetry
  <2> QED BY <1>6, <1>7, <2>1, <2>2 DEF EmitRetry
<1>9. ASSUME i # 0, NEW k \in 1..Len(attempts), attempts[k].from = i, ~attempts[k].hidden
      PROVE  q.seen < k
  BY <1>1, <1>2, <1>4, <1>9 DEF PlanFits
<1>10. PICK r : r = [q EXCEPT !.left = q.left \ {i}]
  OBVIOUS
<1>11. /\ Planned(r) /\ r.left = q.left \ {i} /\ r.seen = q.seen /\ r.clears = q.clears /\ r.text = q.text
  BY <1>2, <1>10 DEF Planned
<1>12. DOMAIN retry' = Retries /\ \A k \in Retries \ {h} : retry'[k] = retry[k]
  BY <1>1, <1>8
<1>13. retry'[h] = NoRetry \/ (retry'[h] = r /\ r.left # {})
  BY <1>1, <1>8, <1>10, <1>11
<1>14. ASSUME NEW k \in Retries
       PROVE  \/ retry'[k] = retry[k] \/ retry'[k] = NoRetry
              \/ /\ Planned(retry[k]) /\ Planned(retry'[k]) /\ retry'[k].left # {}
                 /\ retry'[k].left \subseteq retry[k].left /\ retry'[k].seen = retry[k].seen
                 /\ retry'[k].clears = retry[k].clears /\ retry'[k].text = retry[k].text
  BY <1>2, <1>11, <1>12, <1>13
<1>15. a.from # 0 => \A k \in 1..Len(attempts) : attempts[k].from = a.from /\ ~attempts[k].hidden => a.seen < k
  BY <1>7, <1>9
<1> QED BY <1>1, <1>7, <1>8, <1>12, <1>14, <1>15, AttemptAdded

LEMMA ReadStepEdit ==
  ASSUME ReadInv, Edit
  PROVE  ReadInv'
<1>1. attempts' = attempts /\ retry' = retry /\ erased' = erased /\ body' \in {Blank, Edited(edits')}
  BY DEF Edit
<1>2. BodySound'
  BY <1>1 DEF BodySound, Edited, Blank
<1>3. ReadTyped' /\ WhysSettled' /\ EditsSurvive' /\ ReplacedOnce'
  BY <1>1 DEF ReadInv, ReadTyped, WhysSettled, EditsSurvive, ReplacedOnce, Asked, Planned
<1>4. \A h \in Retries : Planned(retry[h])' => PlanFits(retry[h])'
  BY <1>1 DEF ReadInv, Planned, PlanFits
<1> QED BY <1>2, <1>3, <1>4 DEF ReadInv

\* While nothing runs, a text is of somebody or there is something to repeat.
LEMMA RetryRemains == ReadInv => NothingBeyondRetry
<1> SUFFICES ASSUME ReadInv, origin # "note", body.by \in {"nobody", "failure"},
                    \A j \in DOMAIN attempts : attempts[j].due = "nothing" /\ (Ongoing(attempts[j]) => attempts[j].hidden),
                    \A j \in DOMAIN attempts : ~(attempts[j].hidden /\ body = Placeholder(attempts[j].why))
             PROVE  Plan(body, attempts) # NoRetry
  BY DEF NothingBeyondRetry
<1>1. body = Blank \/ TaskErrorContent(body, attempts)
  BY DEF ReadInv, BodySound, TaskErrorContent, Parses, Listed
<1>2. ~\E j \in Listed(attempts) : Ongoing(attempts[j])
  BY DEF Listed
<1> QED BY <1>1, <1>2 DEF Plan, NoRetry

\* Retries keep what a user wrote, repeat nothing twice that they could see,
\* and are left for a resource without a text (RetriesSound).
THEOREM RetriesAlwaysSound == ReadingSpec => []RetriesSound
<1>1. ReadInv /\ [ReadingNext]_readingVars => ReadInv'
  <2> SUFFICES ASSUME ReadInv, [ReadingNext]_readingVars PROVE ReadInv'
    OBVIOUS
  <2>1. CASE ReadingNext
    BY <2>1, ReadStepAttempt, ReadStepDispatch, ReadStepRetry, ReadStepEmit, ReadStepEdit DEF ReadingNext
  <2>2. CASE UNCHANGED readingVars
    <3>1. attempts' = attempts /\ retry' = retry /\ erased' = erased /\ body' = body
      BY <2>2 DEF readingVars
    <3>2. ReadTyped' /\ BodySound' /\ WhysSettled' /\ EditsSurvive' /\ ReplacedOnce'
      BY <3>1 DEF ReadInv, ReadTyped, BodySound, WhysSettled, EditsSurvive, ReplacedOnce, Asked, Planned
    <3>3. \A h \in Retries : Planned(retry[h])' => PlanFits(retry[h])'
      BY <3>1 DEF ReadInv, Planned, PlanFits
    <3> QED BY <3>2, <3>3 DEF ReadInv
  <2> QED BY <2>1, <2>2
<1>2. ReadInv => RetriesSound
  BY RetryRemains DEF ReadInv, RetriesSound
<1> QED BY <1>1, <1>2, ReadingInitInv, PTL DEF ReadingSpec

(* ----------------------------- search index ------------------------------ *)

IndexTask ==
  [kind : {"upsert", "delete"}, doc : Documents, text : Nat, rank : Nat, state : {"pending", "running", "late"}]

PageTyped == DOMAIN walk = {"mode", "page"} /\ \A d \in DOMAIN walk.page : d \in Documents /\ walk.page[d] \in Nat
IndexTyped ==
  /\ emitted \in Nat
  /\ document \in [Documents -> [state : {"none", "live", "trashed"}, text : Nat]]
  /\ DOMAIN index = Documents
  /\ DOMAIN orders \subseteq 1..emitted
  /\ \A i \in DOMAIN orders : orders[i] \in IndexTask
  /\ PageTyped

\* The index may have v of a row that is said to be so, and what it has once a task is performed.
Suits(said, v) ==
  /\ said.state = "live" /\ said.text # 0 => v = said.text
  /\ said.state = "live" /\ said.text = 0 => v \in {0, Absent}
  /\ said.state # "live" => v = Absent
Brings(o) == IF o.kind = "upsert" THEN o.text ELSE Absent

\* Of the tasks of d only the first is with a worker, one that was withdrawn
\* from its worker has a successor, and the last brings what d says.
InTurn(d) ==
  /\ \A i \in Unfinished(d) :
       /\ orders[i].state # "pending" => \A j \in Unfinished(d) : i <= j
       /\ orders[i].state = "late" => \E j \in Unfinished(d) : i < j
       /\ (\A j \in Unfinished(d) : j <= i) => Suits(document[d], Brings(orders[i]))
  /\ Unfinished(d) = {} => Suits(document[d], index[d])

IndexInv == IndexTyped /\ \A d \in Documents \ astray : InTurn(d)

\* The tasks of d stay, and what the index may have of it.
LEMMA TurnKept ==
  ASSUME NEW d, InTurn(d),
         Unfinished(d)' = Unfinished(d), \A i \in Unfinished(d) : orders'[i] = orders[i],
         \A v : Suits(document[d], v) => Suits(document'[d], v),
         index'[d] = index[d] \/ Suits(document'[d], index'[d])
  PROVE  InTurn(d)'
BY DEF InTurn

\* Tasks are added that bring what d says, the waiting ones may be withdrawn,
\* and those that run may be made late.
LEMMA TurnAdded ==
  ASSUME IndexTyped, NEW d, InTurn(d),
         \A i \in Unfinished(d)' : \/ i \in Unfinished(d) /\ (orders'[i].state = "pending" => orders[i].state = "pending")
                                     /\ (orders[i].state = "pending" => orders'[i].state = "pending")
                                   \/ i \in Nat /\ i > emitted /\ orders'[i].state = "pending" /\ Suits(document'[d], Brings(orders'[i])),
         \E i \in Unfinished(d)' : i \in Nat /\ i > emitted
  PROVE  InTurn(d)'
<1>1. \A i \in Unfinished(d) : i \in Nat /\ i <= emitted
  BY DEF IndexTyped, Unfinished
<1>2. emitted \in Nat
  BY DEF IndexTyped
<1>3. PICK last \in Unfinished(d)' : last \in Nat /\ last > emitted
  OBVIOUS
<1>4. ASSUME NEW i \in Unfinished(d)'
      PROVE  /\ orders'[i].state # "pending" => \A j \in Unfinished(d)' : i <= j
             /\ orders'[i].state = "late" => \E j \in Unfinished(d)' : i < j
             /\ (\A j \in Unfinished(d)' : j <= i) => Suits(document'[d], Brings(orders'[i]))
  <2>1. CASE i \in Unfinished(d)
    <3>1. i < last
      BY <1>1, <1>2, <1>3, <2>1
    <3>2. orders'[i].state # "pending" => \A j \in Unfinished(d)' : i <= j
      <4> SUFFICES ASSUME orders'[i].state # "pending", NEW j \in Unfinished(d)' PROVE i <= j
        OBVIOUS
      <4>1. CASE j \in Unfinished(d)
        BY <1>1, <1>2, <2>1, <4>1 DEF InTurn
      <4>2. CASE j \notin Unfinished(d)
        BY <1>1, <1>2, <2>1, <4>2
      <4> QED BY <4>1, <4>2
    <3>3. i \in Nat /\ last \in Nat
      BY <1>1, <1>3, <2>1
    <3>4. ~\A j \in Unfinished(d)' : j <= i
      BY <1>3, <3>1, <3>3
    <3> QED BY <1>3, <3>1, <3>2, <3>4
  <2>2. CASE i \notin Unfinished(d)
    BY <1>4, <2>2
  <2> QED BY <2>1, <2>2
<1>5. Unfinished(d)' # {}
  BY <1>3
<1> QED BY <1>4, <1>5 DEF InTurn

\* What queueing does.
LEMMA QueuedNothing ==
  ASSUME IndexTyped, NEW q, DOMAIN q \subseteq DOMAIN orders, Queue(q, <<>>)
  PROVE  emitted' = emitted /\ DOMAIN orders' = DOMAIN q /\ \A i \in DOMAIN q : orders'[i] = q[i]
<1>1. emitted \in Nat /\ \A i \in DOMAIN q : i \in Nat /\ i <= emitted
  BY DEF IndexTyped
<1>2. emitted' = emitted
  BY <1>1 DEF Queue
<1>3. (emitted + 1)..emitted' = {}
  BY <1>1, <1>2
<1>4. DOMAIN orders' = DOMAIN q /\ \A i \in DOMAIN q : orders'[i] = IF i > emitted THEN <<>>[i - emitted] ELSE q[i]
  BY <1>3 DEF Queue
<1> QED BY <1>1, <1>2, <1>4

LEMMA QueuedOne ==
  ASSUME IndexTyped, NEW q, DOMAIN q \subseteq DOMAIN orders, NEW o, Queue(q, <<o>>)
  PROVE  /\ emitted' = emitted + 1 /\ DOMAIN orders' = DOMAIN q \union {emitted + 1}
         /\ \A i \in DOMAIN q : orders'[i] = q[i] /\ i \in Nat /\ i <= emitted
         /\ orders'[emitted + 1] = o
<1>1. emitted \in Nat /\ \A i \in DOMAIN q : i \in Nat /\ i <= emitted
  BY DEF IndexTyped
<1>2. emitted' = emitted + 1
  BY <1>1 DEF Queue
<1> QED BY <1>1, <1>2 DEF Queue

\* A step that queues nothing, and changes one row at most.
LEMMA NothingAdded ==
  ASSUME IndexInv, NEW d \in Documents, emitted' = emitted, PageTyped',
         DOMAIN orders' = DOMAIN orders, \A i \in DOMAIN orders : orders'[i] = orders[i],
         document' \in [Documents -> [state : {"none", "live", "trashed"}, text : Nat]],
         \A e \in Documents \ {d} : document'[e] = document[e],
         DOMAIN index' = Documents, \A e \in Documents \ {d} : index'[e] = index[e],
         astray \subseteq astray',
         \/ d \in astray'
         \/ /\ \A v : Suits(document[d], v) => Suits(document'[d], v)
            /\ index'[d] = index[d] \/ Suits(document'[d], index'[d])
  PROVE  IndexInv'
<1>1. IndexTyped'
  BY DEF IndexInv, IndexTyped
<1>2. ASSUME NEW e \in Documents \ astray' PROVE InTurn(e)'
  <2>1. InTurn(e) /\ Unfinished(e)' = Unfinished(e) /\ \A i \in Unfinished(e) : orders'[i] = orders[i]
    BY DEF IndexInv, Unfinished
  <2>2. CASE e = d
    BY <2>1, <2>2, TurnKept
  <2>3. CASE e # d
    BY <2>1, <2>3, TurnKept
  <2> QED BY <2>2, <2>3
<1> QED BY <1>1, <1>2 DEF IndexInv

\* A step that queues one task, of the one row it changes if any.
LEMMA OneAdded ==
  ASSUME IndexInv, NEW d \in Documents, NEW o \in IndexTask, o.doc = d, o.state = "pending",
         Queue(orders, <<o>>), PageTyped',
         document' \in [Documents -> [state : {"none", "live", "trashed"}, text : Nat]],
         \A e \in Documents \ {d} : document'[e] = document[e],
         index' = index, astray \subseteq astray',
         d \in astray' \/ Suits(document'[d], Brings(o))
  PROVE  IndexInv'
<1>1. IndexTyped
  BY DEF IndexInv
<1>2. /\ emitted \in Nat /\ emitted' = emitted + 1 /\ DOMAIN orders' = DOMAIN orders \union {emitted + 1}
      /\ \A i \in DOMAIN orders : orders'[i] = orders[i] /\ i \in Nat /\ i <= emitted
      /\ orders'[emitted + 1] = o
  BY <1>1, QueuedOne DEF IndexTyped
<1>3. IndexTyped'
  BY <1>1, <1>2 DEF IndexTyped
<1>4. ASSUME NEW e \in Documents \ astray' PROVE InTurn(e)'
  <2>1. InTurn(e)
    BY DEF IndexInv
  <2>2. CASE e = d
    <3>1. Unfinished(d)' = Unfinished(d) \union {emitted + 1}
      BY <1>2 DEF Unfinished
    <3>2. \A i \in Unfinished(d) : orders'[i] = orders[i]
      BY <1>2 DEF Unfinished
    <3>3. orders'[emitted + 1].state = "pending" /\ Suits(document'[d], Brings(orders'[emitted + 1]))
      BY <1>2, <2>2
    <3>4. emitted + 1 \in Nat /\ emitted + 1 > emitted
      BY <1>2
    <3> QED BY <1>1, <2>1, <2>2, <3>1, <3>2, <3>3, <3>4, TurnAdded
  <2>3. CASE e # d
    <3>1. Unfinished(e)' = Unfinished(e) /\ \A i \in Unfinished(e) : orders'[i] = orders[i]
      BY <1>2, <2>3 DEF Unfinished
    <3> QED BY <2>1, <2>3, <3>1, TurnKept
  <2> QED BY <2>2, <2>3
<1> QED BY <1>3, <1>4 DEF IndexInv

\* An upsert is a task of its row.
LEMMA UpsertIsTask ==
  ASSUME NEW d \in Documents, NEW n \in Nat
  PROVE  /\ Upsert(d, n) \in IndexTask /\ Upsert(d, n).doc = d /\ Upsert(d, n).state = "pending"
         /\ Brings(Upsert(d, n)) = n
BY DEF Upsert, IndexTask, Brings

LEMMA IndexStepText ==
  ASSUME IndexInv, NEW d \in Documents, NEW n \in 0..Versions[d], CreateDocument(d, n) \/ UpdateDocument(d, n)
  PROVE  IndexInv'
<1>1. n \in Nat /\ document \in [Documents -> [state : {"none", "live", "trashed"}, text : Nat]] /\ PageTyped
      /\ DOMAIN index = Documents /\ IndexTyped
  BY IndexAssumption DEF IndexAssumption, IndexInv, IndexTyped
<1>2. /\ Queue(orders, Upserts(d, n)) /\ walk' = walk /\ index' = index /\ astray \subseteq astray'
      /\ document' = [document EXCEPT ![d] = [state |-> "live", text |-> n]]
  <2>1. CASE CreateDocument(d, n)
    BY <2>1 DEF CreateDocument
  <2>2. CASE UpdateDocument(d, n)
    <3>1. document[d] = [state |-> "live", text |-> document[d].text]
      BY <1>1, <2>2 DEF UpdateDocument, Indexed
    <3>2. [document[d] EXCEPT !.text = n] = [state |-> "live", text |-> n]
      BY <3>1
    <3> QED BY <1>1, <2>2, <3>2 DEF UpdateDocument
  <2> QED BY <2>1, <2>2
<1>3. /\ document' \in [Documents -> [state : {"none", "live", "trashed"}, text : Nat]]
      /\ document'[d] = [state |-> "live", text |-> n]
      /\ \A e \in Documents \ {d} : document'[e] = document[e]
  BY <1>1, <1>2
<1>4. PageTyped'
  BY <1>1, <1>2 DEF PageTyped
<1>5. CASE n = 0
  <2>1. Queue(orders, <<>>)
    BY <1>2, <1>5 DEF Upserts
  <2>2. emitted' = emitted /\ DOMAIN orders' = DOMAIN orders /\ \A i \in DOMAIN orders : orders'[i] = orders[i]
    BY <1>1, <2>1, QueuedNothing
  <2>3. d \in astray' \/ \A v : Suits(document[d], v) => Suits(document'[d], v)
    BY <1>1, <1>3, <1>5 DEF CreateDocument, UpdateDocument, Suits, Indexed
  <2> QED
  BY <1>1, <1>2, <1>3, <1>4, <2>2, <2>3, NothingAdded
<1>6. CASE n # 0
  <2>1. Queue(orders, <<Upsert(d, n)>>)
    BY <1>2, <1>6 DEF Upserts
  <2>2. Suits(document'[d], n)
    BY <1>1, <1>3, <1>6 DEF Suits
  <2> QED BY <1>1, <1>2, <1>3, <1>4, <2>1, <2>2, UpsertIsTask, OneAdded
<1> QED BY <1>5, <1>6

LEMMA IndexStepRestore ==
  ASSUME IndexInv, NEW d \in Documents, RestoreDocument(d)
  PROVE  IndexInv'
<1>1. document \in [Documents -> [state : {"none", "live", "trashed"}, text : Nat]] /\ PageTyped
      /\ DOMAIN index = Documents /\ IndexTyped
  BY DEF IndexInv, IndexTyped
<1>2. PICK n \in Nat : n = document[d].text
  BY <1>1
<1>3. /\ document[d] = [state |-> "trashed", text |-> n]
      /\ document' = [document EXCEPT ![d] = [state |-> "live", text |-> n]]
  <2>1. document[d] = [state |-> "trashed", text |-> n]
    BY <1>1, <1>2 DEF RestoreDocument
  <2>2. [document[d] EXCEPT !.state = "live"] = [state |-> "live", text |-> n]
    BY <2>1
  <2> QED BY <1>1, <2>1, <2>2 DEF RestoreDocument
<1>4. /\ document' \in [Documents -> [state : {"none", "live", "trashed"}, text : Nat]]
      /\ document'[d] = [state |-> "live", text |-> n]
      /\ \A e \in Documents \ {d} : document'[e] = document[e]
  BY <1>1, <1>3
<1>5. Queue(orders, Upserts(d, n)) /\ walk' = walk /\ index' = index /\ astray' = astray
  BY <1>2 DEF RestoreDocument
<1>6. PageTyped'
  BY <1>1, <1>5 DEF PageTyped
<1>7. CASE n = 0
  <2>1. Queue(orders, <<>>)
    BY <1>5, <1>7 DEF Upserts
  <2>2. emitted' = emitted /\ DOMAIN orders' = DOMAIN orders /\ \A i \in DOMAIN orders : orders'[i] = orders[i]
    BY <1>1, <2>1, QueuedNothing
  <2>3. \A v : Suits(document[d], v) => Suits(document'[d], v)
    BY <1>3, <1>4, <1>7 DEF Suits
  <2> QED BY <1>1, <1>4, <1>5, <1>6, <2>2, <2>3, NothingAdded
<1>8. CASE n # 0
  <2>1. Queue(orders, <<Upsert(d, n)>>)
    BY <1>5, <1>8 DEF Upserts
  <2>2. Suits(document'[d], n)
    BY <1>4, <1>8 DEF Suits
  <2> QED BY <1>1, <1>4, <1>5, <1>6, <2>1, <2>2, UpsertIsTask, OneAdded
<1> QED BY <1>7, <1>8

\* What is left of a page.
LEMMA LeftTyped ==
  ASSUME PageTyped, NEW d, walk' = Left(d)
  PROVE  PageTyped'
<1>1. CASE DOMAIN walk.page = {d}
  BY <1>1 DEF PageTyped, Left, NoWalk
<1>2. CASE DOMAIN walk.page # {d}
  <2>1. walk' = [walk EXCEPT !.page = [e \in DOMAIN walk.page \ {d} |-> walk.page[e]]]
    BY <1>2 DEF Left
  <2>2. DOMAIN walk' = {"mode", "page"} /\ walk'.page = [e \in DOMAIN walk.page \ {d} |-> walk.page[e]]
    BY <2>1 DEF PageTyped
  <2> QED BY <2>2 DEF PageTyped
<1> QED BY <1>1, <1>2

LEMMA IndexStepRefresh ==
  ASSUME IndexInv, NEW d \in Documents, RefreshDocument(d)
  PROVE  IndexInv'
<1>1. document \in [Documents -> [state : {"none", "live", "trashed"}, text : Nat]] /\ PageTyped
      /\ DOMAIN index = Documents /\ IndexTyped
  BY DEF IndexInv, IndexTyped
<1>2. PICK n \in Nat : n = walk.page[d]
  BY <1>1 DEF PageTyped, RefreshDocument
<1>3. PageTyped'
  BY <1>1, LeftTyped DEF RefreshDocument
<1>4. document' = document /\ index' = index /\ astray \subseteq astray'
  BY DEF RefreshDocument, Stray
<1>5. d \in astray' \/ document[d] = [state |-> "live", text |-> n]
  BY <1>1, <1>2 DEF RefreshDocument, Stray, Outdated, Indexed
<1>6. CASE n = 0
  <2>1. Queue(orders, <<>>)
    <3>1. Upserts(d, n) = <<>>
      BY <1>6 DEF Upserts
    <3>2. [i \in DOMAIN <<>> |-> [Upsert(d, n) EXCEPT !.rank = 4]] = <<>>
      OBVIOUS
    <3> QED BY <1>2, <3>1, <3>2 DEF RefreshDocument
  <2>2. emitted' = emitted /\ DOMAIN orders' = DOMAIN orders /\ \A i \in DOMAIN orders : orders'[i] = orders[i]
    BY <1>1, <2>1, QueuedNothing
  <2>3. \A v : Suits(document[d], v) => Suits(document'[d], v)
    BY <1>4
  <2> QED BY <1>1, <1>3, <1>4, <2>2, <2>3, NothingAdded
<1>7. CASE n # 0
  <2>1. PICK o : o = [Upsert(d, n) EXCEPT !.rank = 4]
    OBVIOUS
  <2>2. o \in IndexTask /\ o.doc = d /\ o.state = "pending" /\ Brings(o) = n
    BY <2>1 DEF Upsert, IndexTask, Brings
  <2>3. Queue(orders, <<o>>)
    <3>1. Upserts(d, n) = <<Upsert(d, n)>>
      BY <1>7 DEF Upserts
    <3>2. [i \in DOMAIN <<Upsert(d, n)>> |-> o] = <<o>>
      OBVIOUS
    <3> QED BY <1>2, <2>1, <3>1, <3>2 DEF RefreshDocument
  <2>4. d \in astray' \/ Suits(document'[d], Brings(o))
    BY <1>4, <1>5, <1>7, <2>2 DEF Suits
  <2> QED BY <1>1, <1>3, <1>4, <2>2, <2>3, <2>4, OneAdded
<1> QED BY <1>6, <1>7

LEMMA IndexStepSync ==
  ASSUME IndexInv, NEW d \in Documents, SyncDocument(d)
  PROVE  IndexInv'
<1>1. document \in [Documents -> [state : {"none", "live", "trashed"}, text : Nat]] /\ PageTyped
      /\ DOMAIN index = Documents /\ IndexTyped
  BY DEF IndexInv, IndexTyped
<1>2. PageTyped'
  BY <1>1, LeftTyped DEF SyncDocument
<1>3. /\ document' = document /\ orders' = orders /\ emitted' = emitted /\ astray \subseteq astray'
      /\ DOMAIN index' = Documents /\ \A e \in Documents \ {d} : index'[e] = index[e]
      /\ index'[d] = index[d] \/ index'[d] = walk.page[d]
  BY <1>1 DEF SyncDocument, Stray
<1>4. d \in astray' \/ (document[d].state = "live" /\ document[d].text = walk.page[d])
  BY DEF SyncDocument, Stray, Outdated, Indexed
<1>5. d \in astray' \/ index'[d] = index[d] \/ Suits(document'[d], index'[d])
  BY <1>3, <1>4 DEF Suits
<1> QED BY <1>1, <1>2, <1>3, <1>5, NothingAdded

LEMMA IndexStepPage ==
  ASSUME IndexInv, NEW m \in {"tasks", "direct"}, BeginRefresh(m)
  PROVE  IndexInv'
<1>1. document \in [Documents -> [state : {"none", "live", "trashed"}, text : Nat]]
      /\ DOMAIN index = Documents /\ IndexTyped
  BY DEF IndexInv, IndexTyped
<1>2. PageTyped'
  <2>1. DOMAIN walk' = {"mode", "page"} /\ walk'.page = [d \in {e \in Documents : Indexed(e)} |-> document[d].text]
    BY DEF BeginRefresh
  <2> QED BY <1>1, <2>1 DEF PageTyped
<1>3. PICK d \in Documents : TRUE
  BY DEF BeginRefresh
<1>4. document' = document /\ orders' = orders /\ emitted' = emitted /\ astray' = astray /\ index' = index
  BY DEF BeginRefresh
<1> QED BY <1>1, <1>2, <1>4, <1>3, NothingAdded

LEMMA IndexStepMove ==
  ASSUME IndexInv, NEW S \in SUBSET Documents, MoveDocuments(S)
  PROVE  IndexInv'
<1>1. /\ document \in [Documents -> [state : {"none", "live", "trashed"}, text : Nat]] /\ PageTyped
      /\ DOMAIN index = Documents /\ IndexTyped /\ emitted \in Nat
      /\ \A i \in DOMAIN orders : i \in Nat /\ i <= emitted
  BY DEF IndexInv, IndexTyped
<1>2. PICK filled : filled = {d \in S : document[d].text # 0}
  OBVIOUS
<1>3. PICK n \in Nat : n = Cardinality(filled)
  BY <1>2, IndexAssumption, FS_Subset, FS_CardinalityType DEF IndexAssumption
<1>4. PICK rows \in [1..n -> filled] :
         Queue(orders, [i \in DOMAIN rows |-> Upsert(rows[i], document[rows[i]].text)])
  BY <1>2, <1>3 DEF MoveDocuments, Bijection, Injection
<1>5. PICK new : new = [i \in 1..n |-> Upsert(rows[i], document[rows[i]].text)]
  OBVIOUS
<1>6. Queue(orders, new)
  BY <1>4, <1>5
<1>7. Len(new) = n
  BY <1>5
<1>8. emitted' = emitted + n /\ DOMAIN orders' = DOMAIN orders \union (emitted + 1)..(emitted + n)
  BY <1>6, <1>7 DEF Queue
<1>9. \A i \in DOMAIN orders : orders'[i] = orders[i]
  <2>1. \A i \in DOMAIN orders : orders'[i] = IF i > emitted THEN new[i - emitted] ELSE orders[i]
    BY <1>6 DEF Queue
  <2> QED BY <1>1, <2>1
<1>10. ASSUME NEW i \in (emitted + 1)..(emitted + n)
       PROVE  \E d \in filled : orders'[i] = Upsert(d, document[d].text)
  <2>1. orders'[i] = IF i > emitted THEN new[i - emitted] ELSE orders[i]
    BY <1>6, <1>7 DEF Queue
  <2>2. i > emitted /\ i - emitted \in 1..n
    BY <1>1, <1>3
  <2>3. orders'[i] = Upsert(rows[i - emitted], document[rows[i - emitted]].text)
    BY <1>5, <2>1, <2>2
  <2> QED BY <1>4, <2>2, <2>3
<1>11. document' = document /\ walk' = walk /\ index' = index /\ astray' = astray
  BY DEF MoveDocuments
<1>12. IndexTyped'
  <2>1. \A i \in DOMAIN orders' : orders'[i] \in IndexTask
    <3> SUFFICES ASSUME NEW i \in DOMAIN orders' PROVE orders'[i] \in IndexTask
      OBVIOUS
    <3>1. CASE i \in DOMAIN orders
      BY <1>1, <1>9, <3>1 DEF IndexTyped
    <3>2. CASE i \in (emitted + 1)..(emitted + n)
      <4>1. PICK d \in filled : orders'[i] = Upsert(d, document[d].text)
        BY <1>10, <3>2
      <4> QED BY <1>1, <1>2, <4>1, UpsertIsTask
    <3> QED BY <1>8, <3>1, <3>2
  <2>2. DOMAIN orders' \subseteq 1..emitted' /\ emitted' \in Nat
    BY <1>1, <1>8 DEF IndexTyped
  <2> QED BY <1>1, <1>11, <2>1, <2>2 DEF IndexTyped, PageTyped
<1>13. ASSUME NEW d \in Documents \ astray' PROVE InTurn(d)'
  <2>1. InTurn(d)
    BY <1>11 DEF IndexInv
  <2>2. CASE \A i \in Unfinished(d)' : i \in DOMAIN orders
    <3>1. Unfinished(d)' = Unfinished(d) /\ \A i \in Unfinished(d) : orders'[i] = orders[i]
      BY <1>8, <1>9, <2>2 DEF Unfinished
    <3> QED BY <1>11, <2>1, <3>1, TurnKept
  <2>3. CASE \E i \in Unfinished(d)' : i \notin DOMAIN orders
    <3>1. ASSUME NEW i \in Unfinished(d)', i \notin DOMAIN orders
          PROVE  i \in Nat /\ i > emitted /\ orders'[i].state = "pending" /\ Suits(document'[d], Brings(orders'[i]))
      <4>1. i \in (emitted + 1)..(emitted + n) /\ orders'[i].doc = d
        BY <1>8, <3>1 DEF Unfinished
      <4>2. PICK e \in filled : orders'[i] = Upsert(e, document[e].text)
        BY <1>10, <4>1
      <4>3. e = d /\ document[d].text # 0 /\ document[d].state = "live"
        BY <1>2, <4>1, <4>2 DEF Upsert, MoveDocuments, Indexed
      <4>4. orders'[i].state = "pending" /\ Suits(document'[d], Brings(orders'[i]))
        BY <1>11, <4>2, <4>3 DEF Upsert, Suits, Brings
      <4> QED BY <1>1, <1>3, <4>1, <4>4
    <3>2. \A i \in Unfinished(d)' : i \in DOMAIN orders => i \in Unfinished(d) /\ orders'[i] = orders[i]
      BY <1>9 DEF Unfinished
    <3> QED BY <1>1, <2>1, <2>3, <3>1, <3>2, TurnAdded
  <2> QED BY <2>2, <2>3
<1> QED BY <1>12, <1>13 DEF IndexInv

LEMMA IndexStepDelete ==
  ASSUME IndexInv, NEW d \in Documents, NEW p \in {1, 5}, DeleteDocument(d, p)
  PROVE  IndexInv'
<1>1. /\ document \in [Documents -> [state : {"none", "live", "trashed"}, text : Nat]] /\ PageTyped
      /\ DOMAIN index = Documents /\ IndexTyped /\ emitted \in Nat
  BY DEF IndexInv, IndexTyped
<1>2. PICK q : q = Withdrawn(d)
  OBVIOUS
<1>3. DOMAIN q = DOMAIN orders \ (Pending \intersect Unfinished(d))
  BY <1>2 DEF Withdrawn
<1>4. ASSUME NEW i \in DOMAIN q
      PROVE  /\ orders[i] \in IndexTask /\ q[i] \in IndexTask /\ q[i].doc = orders[i].doc
             /\ orders[i].doc # d => q[i] = orders[i]
             /\ orders[i].doc = d => orders[i].state # "pending" /\ q[i].state = "late"
  <2>1. orders[i] \in IndexTask
    BY <1>1, <1>3 DEF IndexTyped
  <2>2. orders[i].doc = d => orders[i].state # "pending"
    BY <1>3 DEF Pending, Unfinished
  <2>3. q[i] = IF orders[i].doc = d THEN [orders[i] EXCEPT !.state = "late"] ELSE orders[i]
    BY <1>2, <1>3 DEF Withdrawn
  <2> QED BY <2>1, <2>2, <2>3 DEF IndexTask
<1>5. PICK o : o = Removal(d, p)
  OBVIOUS
<1>6. o \in IndexTask /\ o.doc = d /\ o.state = "pending" /\ Brings(o) = Absent
  BY <1>5 DEF Removal, IndexTask, Brings
<1>7. Queue(q, <<o>>) /\ index' = index /\ walk' = walk /\ astray' = astray
  BY <1>2, <1>5 DEF DeleteDocument, Removals
<1>8. /\ emitted' = emitted + 1 /\ DOMAIN orders' = DOMAIN q \union {emitted + 1}
      /\ \A i \in DOMAIN q : orders'[i] = q[i] /\ i \in Nat /\ i <= emitted
      /\ orders'[emitted + 1] = o
  BY <1>1, <1>3, <1>7, QueuedOne
<1>9. /\ document' \in [Documents -> [state : {"none", "live", "trashed"}, text : Nat]]
      /\ document'[d].state = "trashed"
      /\ \A e \in Documents \ {d} : document'[e] = document[e]
  BY <1>1 DEF DeleteDocument
<1>10. IndexTyped'
  <2>1. DOMAIN orders' \subseteq 1..emitted' /\ emitted' \in Nat
    BY <1>1, <1>3, <1>8 DEF IndexTyped
  <2>2. \A i \in DOMAIN orders' : orders'[i] \in IndexTask
    BY <1>4, <1>6, <1>8
  <2> QED BY <1>1, <1>7, <1>9, <2>1, <2>2 DEF IndexTyped, PageTyped
<1>11. ASSUME NEW e \in Documents \ astray' PROVE InTurn(e)'
  <2>1. InTurn(e)
    BY <1>7 DEF IndexInv
  <2>2. CASE e = d
    <3>1. \A i \in Unfinished(d)' :
            \/ i \in Unfinished(d) /\ orders[i].state # "pending" /\ orders'[i].state = "late"
            \/ i = emitted + 1
      BY <1>3, <1>4, <1>8 DEF Unfinished
    <3>2. emitted + 1 \in Unfinished(d)'
      BY <1>6, <1>8 DEF Unfinished
    <3>3. orders'[emitted + 1].state = "pending" /\ Suits(document'[d], Brings(orders'[emitted + 1]))
      BY <1>6, <1>8, <1>9 DEF Suits
    <3>4. emitted + 1 \in Nat /\ emitted + 1 > emitted
      BY <1>1
    <3> QED BY <1>1, <2>1, <2>2, <3>1, <3>2, <3>3, <3>4, TurnAdded
  <2>3. CASE e # d
    <3>1. Unfinished(e)' = Unfinished(e) /\ \A i \in Unfinished(e) : orders'[i] = orders[i]
      BY <1>3, <1>4, <1>6, <1>8, <2>3 DEF Unfinished
    <3> QED BY <1>7, <1>9, <2>1, <2>3, <3>1, TurnKept
  <2> QED BY <2>2, <2>3
<1> QED BY <1>10, <1>11 DEF IndexInv

LEMMA IndexStepStart ==
  ASSUME IndexInv, NEW i \in DOMAIN orders, Start(i)
  PROVE  IndexInv'
<1>1. IndexTyped /\ orders[i] \in IndexTask
  BY DEF IndexInv, IndexTyped
<1>2. PICK d \in Documents : d = orders[i].doc
  BY <1>1 DEF IndexTask
<1>3. /\ DOMAIN orders' = DOMAIN orders /\ \A j \in DOMAIN orders : j # i => orders'[j] = orders[j]
      /\ orders'[i] = [orders[i] EXCEPT !.state = "running"]
      /\ document' = document /\ emitted' = emitted /\ index' = index /\ walk' = walk
      /\ astray \subseteq astray' /\ (d \in astray' \/ ~\E j \in Unfinished(d) : j < i)
  BY <1>2 DEF Start
<1>4. orders'[i] \in IndexTask /\ orders'[i].state = "running" /\ orders'[i].doc = d /\ Brings(orders'[i]) = Brings(orders[i])
  BY <1>1, <1>2, <1>3 DEF IndexTask, Brings
<1>5. IndexTyped'
  BY <1>1, <1>3, <1>4 DEF IndexTyped, PageTyped
<1>6. ASSUME NEW e \in Documents \ astray' PROVE InTurn(e)'
  <2>1. InTurn(e)
    BY <1>3 DEF IndexInv
  <2>2. Unfinished(e)' = Unfinished(e)
    BY <1>2, <1>3, <1>4 DEF Unfinished
  <2>3. CASE e = d
    <3>1. \A j \in Unfinished(d) : i <= j
      BY <1>1, <1>3, <2>3 DEF IndexTyped, Unfinished
    <3>2. ASSUME NEW k \in Unfinished(d)
          PROVE  /\ orders'[k].state # "pending" => \A j \in Unfinished(d) : k <= j
                 /\ orders'[k].state = "late" => \E j \in Unfinished(d) : k < j
                 /\ (\A j \in Unfinished(d) : j <= k) => Suits(document[d], Brings(orders'[k]))
      <4>1. CASE k = i
        BY <1>4, <2>1, <2>3, <3>1, <4>1 DEF InTurn
      <4>2. CASE k # i
        <5>1. orders'[k] = orders[k]
          BY <1>3, <4>2 DEF Unfinished
        <5> QED BY <2>1, <2>3, <5>1 DEF InTurn
      <4> QED BY <4>1, <4>2
    <3>3. Unfinished(d)' # {}
      BY <1>2, <2>2, <2>3 DEF Unfinished
    <3> QED BY <1>3, <2>2, <2>3, <3>2, <3>3 DEF InTurn
  <2>4. CASE e # d
    <3>1. \A j \in Unfinished(e) : orders'[j] = orders[j]
      BY <1>2, <1>3, <2>4 DEF Unfinished
    <3> QED BY <1>3, <2>1, <2>2, <3>1, TurnKept
  <2> QED BY <2>3, <2>4
<1> QED BY <1>5, <1>6 DEF IndexInv

\* A task that a worker has is over.
LEMMA TurnOver ==
  ASSUME IndexInv, NEW i \in DOMAIN orders, orders[i].state # "pending", Over(i),
         document' = document, walk' = walk, DOMAIN index' = Documents, astray \subseteq astray',
         \A d \in Documents \ {orders[i].doc} : index'[d] = index[d],
         \/ orders[i].doc \in astray' \/ orders[i].state = "late"
         \/ index'[orders[i].doc] = Brings(orders[i])
  PROVE  IndexInv'
<1>1. IndexTyped /\ orders[i] \in IndexTask
  BY DEF IndexInv, IndexTyped
<1>2. PICK d \in Documents : d = orders[i].doc
  BY <1>1 DEF IndexTask
<1>3. /\ DOMAIN orders' = DOMAIN orders \ {i} /\ emitted' = emitted
      /\ \A j \in DOMAIN orders \ {i} : orders'[j] = orders[j]
  BY DEF Over, Restrict
<1>4. IndexTyped'
  BY <1>1, <1>3 DEF IndexTyped, PageTyped
<1>5. ASSUME NEW e \in Documents \ astray' PROVE InTurn(e)'
  <2>1. InTurn(e)
    BY DEF IndexInv
  <2>2. CASE e = d
    <3>1. /\ Unfinished(d)' = Unfinished(d) \ {i} /\ i \in Unfinished(d)
          /\ \A j \in Unfinished(d)' : orders'[j] = orders[j]
      BY <1>2, <1>3 DEF Unfinished
    <3>2. \A j \in Unfinished(d) : j \in Nat
      BY <1>1 DEF IndexTyped, Unfinished
    <3>3. \A j \in Unfinished(d) : i <= j
      BY <2>1, <2>2, <3>1 DEF InTurn
    <3>4. ASSUME NEW k \in Unfinished(d)'
          PROVE  /\ orders'[k].state # "pending" => \A j \in Unfinished(d)' : k <= j
                 /\ orders'[k].state = "late" => \E j \in Unfinished(d)' : k < j
                 /\ (\A j \in Unfinished(d)' : j <= k) => Suits(document'[d], Brings(orders'[k]))
      <4>1. k \in Unfinished(d) /\ orders'[k] = orders[k] /\ k \in Nat /\ i \in Nat /\ i <= k /\ i # k
        BY <3>1, <3>2, <3>3
      <4>2. orders[k].state # "pending" => \A j \in Unfinished(d) : k <= j
        BY <2>1, <2>2, <4>1 DEF InTurn
      <4>3. orders[k].state = "late" => \E j \in Unfinished(d)' : k < j
        <5> SUFFICES ASSUME orders[k].state = "late" PROVE \E j \in Unfinished(d)' : k < j
          OBVIOUS
        <5>1. PICK j \in Unfinished(d) : k < j
          BY <2>1, <2>2, <4>1 DEF InTurn
        <5>2. j # i
          BY <3>2, <4>1, <5>1
        <5> QED BY <3>1, <5>1, <5>2
      <4>4. (\A j \in Unfinished(d)' : j <= k) => \A j \in Unfinished(d) : j <= k
        BY <3>1, <4>1
      <4>5. (\A j \in Unfinished(d) : j <= k) => Suits(document[d], Brings(orders[k]))
        BY <2>1, <2>2, <4>1 DEF InTurn
      <4> QED BY <3>1, <4>1, <4>2, <4>3, <4>4, <4>5
    <3>5. Unfinished(d)' = {} => Suits(document'[d], index'[d])
      <4> SUFFICES ASSUME Unfinished(d)' = {} PROVE Suits(document'[d], index'[d])
        OBVIOUS
      <4>1. Unfinished(d) = {i} /\ i \in Nat
        BY <3>1, <3>2
      <4>2. orders[i].state # "late"
        BY <2>1, <2>2, <4>1 DEF InTurn
      <4>3. Suits(document[d], Brings(orders[i]))
        BY <2>1, <2>2, <4>1 DEF InTurn
      <4> QED BY <1>2, <2>2, <4>2, <4>3
    <3> QED BY <2>2, <3>4, <3>5 DEF InTurn
  <2>3. CASE e # d
    <3>1. Unfinished(e)' = Unfinished(e) /\ \A j \in Unfinished(e) : orders'[j] = orders[j]
      BY <1>2, <1>3, <2>3 DEF Unfinished
    <3> QED BY <1>2, <2>1, <2>3, <3>1, TurnKept
  <2> QED BY <2>2, <2>3
<1> QED BY <1>4, <1>5 DEF IndexInv

LEMMA IndexStepOver ==
  ASSUME IndexInv, NEW i \in DOMAIN orders, Perform(i) \/ Give(i)
  PROVE  IndexInv'
<1>1. DOMAIN index = Documents
  BY DEF IndexInv, IndexTyped
<1>2. CASE Perform(i)
  <2>1. index' = [index EXCEPT ![orders[i].doc] = Brings(orders[i])]
    BY <1>2 DEF Perform, Brings
  <2>2. orders[i].doc \in Documents
    BY DEF IndexInv, IndexTyped, IndexTask
  <2> QED BY <1>1, <1>2, <2>1, <2>2, TurnOver DEF Perform
<1>3. CASE Give(i)
  BY <1>1, <1>3, TurnOver DEF Give
<1> QED BY <1>2, <1>3

LEMMA IndexInitInv == IndexInit => IndexInv
<1> SUFFICES ASSUME IndexInit PROVE IndexInv
  OBVIOUS
<1>1. IndexTyped
  BY DEF IndexInit, IndexTyped, PageTyped, NoWalk
<1>2. ASSUME NEW d \in Documents PROVE InTurn(d)
  <2>1. Unfinished(d) = {}
    BY DEF IndexInit, Unfinished
  <2>2. Suits(document[d], index[d])
    BY DEF IndexInit, Suits
  <2> QED BY <2>1, <2>2 DEF InTurn
<1> QED BY <1>1, <1>2 DEF IndexInv

\* When nothing is left to do for a document, the index has its text, or
\* nothing of one in the trash, unless its tasks did not run one by one, its
\* text became empty or a refresh wrote an old page (IndexAgrees).
THEOREM IndexAlwaysAgrees == IndexSpec => []IndexAgrees
<1>1. IndexInv /\ [IndexNext]_indexVars => IndexInv'
  <2> SUFFICES ASSUME IndexInv, [IndexNext]_indexVars PROVE IndexInv'
    OBVIOUS
  <2>1. CASE IndexNext
    BY <2>1, IndexStepText, IndexStepRestore, IndexStepRefresh, IndexStepSync, IndexStepPage, IndexStepMove,
       IndexStepDelete, IndexStepStart, IndexStepOver DEF IndexNext
  <2>2. CASE UNCHANGED indexVars
    <3>1. /\ document' = document /\ orders' = orders /\ emitted' = emitted /\ index' = index
          /\ walk' = walk /\ astray' = astray
      BY <2>2 DEF indexVars
    <3>2. IndexTyped'
      BY <3>1 DEF IndexInv, IndexTyped, PageTyped
    <3>3. ASSUME NEW d \in Documents \ astray PROVE InTurn(d)'
      BY <3>1, TurnKept DEF IndexInv, Unfinished
    <3> QED BY <3>1, <3>2, <3>3 DEF IndexInv
  <2> QED BY <2>1, <2>2
<1>2. IndexInv => IndexAgrees
  BY DEF IndexInv, InTurn, IndexAgrees, Suits, Indexed
<1> QED BY <1>1, <1>2, IndexInitInv, PTL DEF IndexSpec

(* ----------------------------- manual order ------------------------------ *)

\* Listings of a set of resources.
LEMMA ListOf ==
  ASSUME NEW S \in SUBSET Books, NEW list \in Orders(S)
  PROVE  /\ Cardinality(S) \in Nat /\ IsFiniteSet(S) /\ Range(list) = S
         /\ DOMAIN list = 1..Cardinality(S) /\ list \in [DOMAIN list -> S]
         /\ \A i, j \in DOMAIN list : list[i] = list[j] => i = j
         /\ \A x \in S : \E i \in DOMAIN list : list[i] = x
<1>1. IsFiniteSet(S)
  BY OrderAssumption, FS_Subset DEF OrderAssumption
<1>2. PICK n \in Nat : n = Cardinality(S)
  BY <1>1, FS_CardinalityType
<1>3. list \in Bijection(1..n, S)
  BY <1>2 DEF Orders
<1>4. /\ list \in [1..n -> S] /\ \A i, j \in 1..n : list[i] = list[j] => i = j
      /\ \A x \in S : \E i \in 1..n : list[i] = x
  BY <1>3, Fun_BijectionProperties
<1>5. Range(list) = S
  BY <1>4 DEF Range
<1> QED BY <1>1, <1>2, <1>4, <1>5

LEMMA ListedOnce ==
  ASSUME NEW S \in SUBSET Books, NEW n \in Nat, n = Cardinality(S), NEW list \in [1..n -> S],
         \A i, j \in 1..n : list[i] = list[j] => i = j
  PROVE  list \in Orders(S)
<1>1. IsFiniteSet(S)
  BY OrderAssumption, FS_Subset DEF OrderAssumption
<1>2. list \in Injection(1..n, S)
  BY Fun_IsInj
<1>3. IsFiniteSet(1..n) /\ Cardinality(1..n) = n
  BY FS_Interval
<1>4. list \in Surjection(1..n, S)
  BY <1>1, <1>2, <1>3, FS_Injection
<1> QED BY <1>2, <1>4 DEF Orders, Bijection

LEMMA Placed ==
  ASSUME NEW S \in SUBSET Books, NEW list \in Orders(S), NEW x \in S
  PROVE  /\ Place(list, x) \in DOMAIN list /\ list[Place(list, x)] = x /\ Place(list, x) \in Nat \ {0}
         /\ \A i \in DOMAIN list : list[i] = x => Place(list, x) = i
<1>1. /\ Cardinality(S) \in Nat /\ DOMAIN list = 1..Cardinality(S) /\ \E i \in DOMAIN list : list[i] = x
      /\ \A i, j \in DOMAIN list : list[i] = list[j] => i = j
  BY ListOf
<1>2. Place(list, x) \in DOMAIN list /\ list[Place(list, x)] = x
  BY <1>1 DEF Place
<1> QED BY <1>1, <1>2

LEMMA PlacesPrecede ==
  ASSUME NEW S \in SUBSET Books, NEW list \in Orders(S), NEW x \in S, NEW y \in S
  PROVE  Precedes(list, x, y) <=> Place(list, x) < Place(list, y)
<1>1. Precedes(list, x, y) => Place(list, x) < Place(list, y)
  BY Placed DEF Precedes
<1>2. Place(list, x) < Place(list, y) => Precedes(list, x, y)
  BY Placed DEF Precedes
<1> QED BY <1>1, <1>2

\* Of two lists that agree up to a place, and both have the named in order, the
\* first does not have an earlier one there.
LEMMA SameStart ==
  ASSUME NEW S \in SUBSET Books, NEW f \in Orders(S), NEW g \in Orders(S), NEW T \in SUBSET S, NEW ids \in Orders(T),
         \A i, j \in DOMAIN ids : i < j => Precedes(g, ids[i], ids[j]),
         NEW i \in DOMAIN f, \A j \in DOMAIN f : j < i => f[j] = g[j],
         NEW u \in DOMAIN ids, NEW v \in DOMAIN ids, f[i] = ids[u], g[i] = ids[v]
  PROVE  ~(u < v)
<1> SUFFICES ASSUME u < v PROVE FALSE
  OBVIOUS
<1>1. Cardinality(S) \in Nat /\ DOMAIN f = 1..Cardinality(S) /\ \A j, k \in DOMAIN f : f[j] = f[k] => j = k
  BY ListOf
<1>2. DOMAIN g = DOMAIN f /\ \A j, k \in DOMAIN g : g[j] = g[k] => j = k
  BY <1>1, ListOf
<1>3. PICK a \in DOMAIN f, b \in DOMAIN f : a < b /\ g[a] = ids[u] /\ g[b] = ids[v]
  BY <1>2 DEF Precedes
<1>4. b = i
  BY <1>2, <1>3
<1>5. f[a] = g[a]
  BY <1>3, <1>4
<1>6. a = i
  BY <1>1, <1>3, <1>5
<1> QED BY <1>1, <1>3, <1>4, <1>6

\* The named up to a place of a list.
NamedUpTo(seq, T, i) == {k \in 1..i : seq[k] \in T}

LEMMA NamedCounted ==
  ASSUME NEW S \in SUBSET Books, NEW seq \in Orders(S), NEW T \in SUBSET S,
         NEW i \in DOMAIN seq
  PROVE  /\ IsFiniteSet(NamedUpTo(seq, T, i)) /\ Cardinality(NamedUpTo(seq, T, i)) \in 0..Cardinality(T)
         /\ seq[i] \in T => Cardinality(NamedUpTo(seq, T, i)) \in 1..Cardinality(T)
         /\ \A j \in DOMAIN seq : i < j /\ seq[j] \in T =>
               Cardinality(NamedUpTo(seq, T, i)) < Cardinality(NamedUpTo(seq, T, j))
<1>1. /\ Cardinality(S) \in Nat /\ DOMAIN seq = 1..Cardinality(S) /\ seq \in [DOMAIN seq -> S]
      /\ \A j, k \in DOMAIN seq : seq[j] = seq[k] => j = k
  BY ListOf
<1>2. IsFiniteSet(T) /\ Cardinality(T) \in Nat
  BY OrderAssumption, FS_Subset, FS_CardinalityType DEF OrderAssumption
<1>3. ASSUME NEW j \in DOMAIN seq
      PROVE  IsFiniteSet(NamedUpTo(seq, T, j)) /\ Cardinality(NamedUpTo(seq, T, j)) \in Nat
  <2>1. 1 \in Int /\ j \in Int
    BY <1>1
  <2>2. IsFiniteSet(1..j)
    BY <2>1, FS_Interval
  <2> QED BY <2>2, FS_Subset, FS_CardinalityType DEF NamedUpTo
<1>4. Cardinality(NamedUpTo(seq, T, i)) <= Cardinality(T)
  <2>1. PICK N : N = NamedUpTo(seq, T, i)
    OBVIOUS
  <2>2. N \subseteq DOMAIN seq /\ \A k \in N : seq[k] \in T
    BY <1>1, <2>1 DEF NamedUpTo
  <2>3. [k \in N |-> seq[k]] \in [N -> T] /\ \A a, b \in N : [k \in N |-> seq[k]][a] = [k \in N |-> seq[k]][b] => a = b
    BY <1>1, <2>2
  <2>4. [k \in N |-> seq[k]] \in Injection(N, T)
    BY <2>3, Fun_IsInj
  <2> QED BY <1>2, <2>1, <2>4, FS_Injection
<1>5. seq[i] \in T => Cardinality(NamedUpTo(seq, T, i)) # 0
  <2> SUFFICES ASSUME seq[i] \in T PROVE Cardinality(NamedUpTo(seq, T, i)) # 0
    OBVIOUS
  <2>1. i \in NamedUpTo(seq, T, i)
    BY <1>1 DEF NamedUpTo
  <2> QED BY <1>3, <2>1, FS_EmptySet
<1>6. ASSUME NEW j \in DOMAIN seq, i < j, seq[j] \in T
      PROVE  Cardinality(NamedUpTo(seq, T, i)) < Cardinality(NamedUpTo(seq, T, j))
  <2>1. PICK N, L : N = NamedUpTo(seq, T, i) /\ L = NamedUpTo(seq, T, j)
    OBVIOUS
  <2>2. N \subseteq L /\ j \in L /\ j \notin N
    BY <1>1, <1>6, <2>1 DEF NamedUpTo
  <2>3. IsFiniteSet(L) /\ Cardinality(L) \in Nat /\ Cardinality(N) \in Nat
    BY <1>3, <2>1
  <2>4. Cardinality(N) <= Cardinality(L) /\ Cardinality(N) # Cardinality(L)
    BY <2>2, <2>3, FS_Subset
  <2> QED BY <2>1, <2>3, <2>4
<1> QED BY <1>2, <1>3, <1>4, <1>5, <1>6

\* What applyPartialManualOrder makes of a list is a list, the unnamed stand
\* where they stood, and the named are in the order they are named in.
AsAskedBy(out, seq, ids) ==
  /\ \A i \in DOMAIN seq : seq[i] \notin Range(ids) => out[i] = seq[i]
  /\ \A i, j \in DOMAIN ids : i < j => Precedes(out, ids[i], ids[j])

LEMMA MergedIsAsked ==
  ASSUME NEW S \in SUBSET Books, NEW seq \in Orders(S), NEW T \in SUBSET S, NEW ids \in Orders(T)
  PROVE  Merged(seq, ids) \in Orders(S) /\ AsAskedBy(Merged(seq, ids), seq, ids)
<1>1. /\ Cardinality(S) \in Nat /\ DOMAIN seq = 1..Cardinality(S) /\ seq \in [DOMAIN seq -> S]
      /\ \A j, k \in DOMAIN seq : seq[j] = seq[k] => j = k
      /\ \A x \in S : \E i \in DOMAIN seq : seq[i] = x
  BY ListOf
<1>2. /\ Cardinality(T) \in Nat /\ DOMAIN ids = 1..Cardinality(T) /\ ids \in [DOMAIN ids -> T]
      /\ \A j, k \in DOMAIN ids : ids[j] = ids[k] => j = k /\ Range(ids) = T
      /\ IsFiniteSet(T) /\ Range(ids) = T
  <2>1. T \in SUBSET Books
    OBVIOUS
  <2> QED BY <2>1, ListOf
<1>3. PICK c : c = [i \in DOMAIN seq |-> Cardinality(NamedUpTo(seq, T, i))]
  OBVIOUS
<1>4. /\ \A i \in DOMAIN seq : seq[i] \in T => c[i] \in DOMAIN ids
      /\ \A i, j \in DOMAIN seq : i < j /\ seq[j] \in T => c[i] < c[j]
      /\ \A i \in DOMAIN seq : c[i] \in Nat
  BY <1>2, <1>3, NamedCounted
<1>5. PICK out : out = Merged(seq, ids)
  OBVIOUS
<1>6. /\ DOMAIN out = DOMAIN seq
      /\ out = [i \in DOMAIN seq |-> IF seq[i] \in T THEN ids[c[i]] ELSE seq[i]]
  BY <1>2, <1>3, <1>5 DEF Merged, NamedUpTo
<1>7. ASSUME NEW i \in DOMAIN seq
      PROVE  /\ seq[i] \in T => out[i] = ids[c[i]] /\ out[i] \in T
             /\ seq[i] \notin T => out[i] = seq[i]
             /\ out[i] \in S
  BY <1>1, <1>2, <1>4, <1>6
<1>8. ASSUME NEW i \in DOMAIN seq, NEW j \in DOMAIN seq, out[i] = out[j]
      PROVE  i = j
  <2>1. CASE seq[i] \in T /\ seq[j] \in T
    <3>1. c[i] = c[j] /\ c[i] \in Nat
      BY <1>2, <1>4, <1>7, <1>8, <2>1
    <3>2. ~(i < j) /\ ~(j < i)
      BY <1>4, <2>1, <3>1
    <3> QED BY <1>1, <3>2
  <2>2. CASE seq[i] \notin T /\ seq[j] \notin T
    BY <1>1, <1>7, <1>8, <2>2
  <2>3. CASE (seq[i] \in T) # (seq[j] \in T)
    BY <1>7, <1>8, <2>3
  <2> QED BY <2>1, <2>2, <2>3
<1>9. out \in Orders(S)
  <2>1. out \in [1..Cardinality(S) -> S]
    BY <1>1, <1>6, <1>7
  <2> QED BY <1>1, <1>8, <2>1, ListedOnce
<1>10. ASSUME NEW u \in DOMAIN ids
       PROVE  \E i \in DOMAIN seq : seq[i] \in T /\ c[i] = u
  <2>1. ids[u] \in S /\ ids[u] \in T
    BY <1>2
  <2>2. PICK i \in DOMAIN out : out[i] = ids[u]
    BY <1>9, <2>1, ListOf
  <2>3. seq[i] \in T
    BY <1>6, <1>7, <2>1, <2>2
  <2> QED BY <1>2, <1>4, <1>6, <1>7, <2>2, <2>3
<1>11. ASSUME NEW u \in DOMAIN ids, NEW v \in DOMAIN ids, u < v
       PROVE  Precedes(out, ids[u], ids[v])
  <2>1. PICK i \in DOMAIN seq : seq[i] \in T /\ c[i] = u
    BY <1>10
  <2>2. PICK j \in DOMAIN seq : seq[j] \in T /\ c[j] = v
    BY <1>10
  <2>3. i < j
    <3>1. ~(j < i) /\ i # j
      BY <1>2, <1>4, <1>11, <2>1, <2>2
    <3> QED BY <1>1, <3>1
  <2>4. out[i] = ids[u] /\ out[j] = ids[v]
    BY <1>7, <2>1, <2>2
  <2> QED BY <1>6, <2>3, <2>4 DEF Precedes
<1>12. \A i \in DOMAIN seq : seq[i] \notin Range(ids) => out[i] = seq[i]
  BY <1>2, <1>7
<1> QED BY <1>5, <1>9, <1>11, <1>12 DEF AsAskedBy

\* There is one such list.
LEMMA AskedIsOne ==
  ASSUME NEW S \in SUBSET Books, NEW seq \in Orders(S), NEW T \in SUBSET S, NEW ids \in Orders(T),
         NEW f \in Orders(S), AsAskedBy(f, seq, ids), NEW g \in Orders(S), AsAskedBy(g, seq, ids)
  PROVE  f = g
<1>1. /\ Cardinality(S) \in Nat /\ DOMAIN seq = 1..Cardinality(S) /\ seq \in [DOMAIN seq -> S]
      /\ \A x \in S : \E i \in DOMAIN seq : seq[i] = x
  BY ListOf
<1>2. T \in SUBSET Books
  OBVIOUS
<1>3. Range(ids) = T /\ \A x \in T : \E u \in DOMAIN ids : ids[u] = x
  BY <1>2, ListOf
<1>4. DOMAIN ids = 1..Cardinality(T) /\ Cardinality(T) \in Nat
  BY <1>2, ListOf
<1>5. /\ DOMAIN f = DOMAIN seq /\ f \in [DOMAIN seq -> S] /\ \A j, k \in DOMAIN f : f[j] = f[k] => j = k
      /\ DOMAIN g = DOMAIN seq /\ g \in [DOMAIN seq -> S] /\ \A j, k \in DOMAIN g : g[j] = g[k] => j = k
  BY <1>1, ListOf
<1>6. ASSUME NEW i \in DOMAIN seq, seq[i] \in T PROVE f[i] \in T /\ g[i] \in T
  <2>1. PICK j \in DOMAIN seq : seq[j] = f[i]
    BY <1>1, <1>5
  <2>2. PICK k \in DOMAIN seq : seq[k] = g[i]
    BY <1>1, <1>5
  <2>3. f[i] \notin T => f[j] = f[i]
    BY <1>3, <2>1 DEF AsAskedBy
  <2>4. g[i] \notin T => g[k] = g[i]
    BY <1>3, <2>2 DEF AsAskedBy
  <2> QED BY <1>5, <1>6, <2>1, <2>2, <2>3, <2>4
<1>7. PICK D : D = {i \in DOMAIN seq : f[i] # g[i]}
  OBVIOUS
<1>8. CASE D # {}
  <2>1. PICK i \in D : \A j \in D : i <= j
    <3>1. D \subseteq Nat
      BY <1>1, <1>7
    <3> QED BY <1>8, <3>1, Smallest
  <2>2. i \in DOMAIN seq /\ f[i] # g[i] /\ \A j \in DOMAIN seq : j < i => f[j] = g[j]
    <3>1. i \in DOMAIN seq /\ f[i] # g[i]
      BY <1>7
    <3>2. ASSUME NEW j \in DOMAIN seq, j < i PROVE f[j] = g[j]
      <4>1. ~(i <= j)
        BY <1>1, <3>1, <3>2
      <4>2. j \notin D
        BY <2>1, <4>1
      <4> QED BY <1>7, <4>2
    <3> QED BY <3>1, <3>2
  <2>3. seq[i] \in T
    BY <1>3, <2>2 DEF AsAskedBy
  <2>4. PICK u \in DOMAIN ids, v \in DOMAIN ids : f[i] = ids[u] /\ g[i] = ids[v]
    BY <1>3, <1>6, <2>2, <2>3
  <2>5. ~(u < v)
    <3>1. \A a, b \in DOMAIN ids : a < b => Precedes(g, ids[a], ids[b])
      BY DEF AsAskedBy
    <3>2. i \in DOMAIN f /\ \A j \in DOMAIN f : j < i => f[j] = g[j]
      BY <1>5, <2>2
    <3> QED BY <2>4, <3>1, <3>2, SameStart
  <2>6. ~(v < u)
    <3>1. \A a, b \in DOMAIN ids : a < b => Precedes(f, ids[a], ids[b])
      BY DEF AsAskedBy
    <3>2. i \in DOMAIN g /\ \A j \in DOMAIN g : j < i => g[j] = f[j]
      BY <1>5, <2>2
    <3> QED BY <2>4, <3>1, <3>2, SameStart
  <2>7. u = v
    BY <1>4, <2>5, <2>6
  <2> QED BY <2>2, <2>4, <2>7
<1>9. CASE D = {}
  BY <1>5, <1>7, <1>9
<1> QED BY <1>8, <1>9

LEMMA AskedIsMerged ==
  ASSUME NEW S \in SUBSET Books, NEW seq \in Orders(S), NEW T \in SUBSET S, NEW ids \in Orders(T)
  PROVE  AsAsked(seq, ids) = Merged(seq, ids) /\ Merged(seq, ids) \in Orders(S)
<1>1. Range(seq) = S
  BY ListOf
<1>2. AsAsked(seq, ids) = CHOOSE out \in Orders(S) : AsAskedBy(out, seq, ids)
  BY <1>1 DEF AsAsked, AsAskedBy
<1>3. Merged(seq, ids) \in Orders(S) /\ AsAskedBy(Merged(seq, ids), seq, ids)
  BY MergedIsAsked
<1>4. PICK out : out = AsAsked(seq, ids)
  OBVIOUS
<1>5. out \in Orders(S) /\ AsAskedBy(out, seq, ids)
  BY <1>2, <1>3, <1>4
<1> QED BY <1>3, <1>4, <1>5, AskedIsOne

Listings == UNION {Orders(S) : S \in SUBSET Books}
Draft ==
  [at : {"open"}, left : SUBSET Live, parents : SUBSET Live, mover : Books \union {0}, to : Live,
   rows : SUBSET Books, ranks : [Books -> Nat], given : [Shelves -> Listings]]

OrderTyped ==
  /\ shelf \in [Books -> Shelves] /\ rank \in [Books -> Nat] /\ asked \in [Shelves -> Listings]
  /\ sorting # NoSort => sorting \in Draft

\* x has the rank n, which it was given in a list.
Told(list, x, n) == x \in Range(list) /\ n = Place(list, x)

\* Every rank in a folder is the place in the list last given to it.
RanksTold ==
  \A x \in Books \ (trashed \union loose) :
    shelf[x] \in Live /\ rank[x] > 0 => Told(asked[shelf[x]], x, rank[x])

\* A request moves and ranks rows it holds, and ranks all of a folder that it
\* has come to but what came in without a rank of this folder since.
DraftTold ==
  /\ sorting.left \subseteq sorting.parents /\ sorting.rows \intersect trashed = {}
  /\ sorting.mover \in Books => sorting.mover \in sorting.rows
  /\ \A x \in sorting.rows : PlaceThen[x] \in sorting.parents
  /\ \A x \in Books \ trashed :
       PlaceThen[x] \in sorting.parents \ sorting.left =>
         /\ x \in sorting.rows => Told(sorting.given[PlaceThen[x]], x, sorting.ranks[x])
         /\ x \notin sorting.rows /\ rank[x] > 0 => x \in loose

OrderInv == OrderTyped /\ RanksTold /\ (sorting # NoSort => DraftTold)

LEMMA NumbersOfBooks == 0 \notin Books /\ Home \in Live
BY OrderAssumption DEF OrderAssumption, Live

LEMMA OrderInitInv == OrderInit => OrderInv
<1> SUFFICES ASSUME OrderInit PROVE OrderInv
  OBVIOUS
<1>1. [i \in {} |-> 0] \in Listings
  <2>1. Cardinality({}) = 0
    BY FS_EmptySet
  <2>2. [i \in {} |-> 0] \in [1..0 -> {}]
    OBVIOUS
  <2>3. [i \in {} |-> 0] \in Orders({})
    <3>1. {} \in SUBSET Books /\ 0 \in Nat /\ \A i, j \in 1..0 : i = j
      OBVIOUS
    <3> QED BY <2>1, <2>2, <3>1, ListedOnce
  <2> QED BY <2>3 DEF Listings
<1>2. \A x \in Books : x \in Nat
  BY OrderAssumption DEF OrderAssumption
<1>3. OrderTyped
  BY <1>1, <1>2 DEF OrderInit, OrderTyped
<1>4. RanksTold
  BY DEF OrderInit, RanksTold, Live
<1> QED BY <1>3, <1>4 DEF OrderInv, OrderInit

LEMMA OrderStepInitialize ==
  ASSUME OrderInv, Initialize
  PROVE  OrderInv'
<1>1. PICK order \in [Live -> Listings] :
        /\ \A p \in Live : order[p] \in Orders(Inside(p, shelf))
        /\ LET all == UNION {Range(order[p]) : p \in Live} IN
           /\ rank' = [x \in Books |-> IF x \in all THEN Place(order[shelf[x]], x) ELSE rank[x]]
           /\ loose' = loose \ all
        /\ asked' = [p \in Shelves |-> IF p \in Live THEN order[p] ELSE asked[p]]
  BY DEF Initialize, Listings
<1>2. PICK all : /\ all = UNION {Range(order[p]) : p \in Live} /\ loose' = loose \ all
                 /\ rank' = [x \in Books |-> IF x \in all THEN Place(order[shelf[x]], x) ELSE rank[x]]
  BY <1>1
<1>3. shelf' = shelf /\ trashed' = trashed /\ sorting' = NoSort
  BY DEF Initialize
<1>4. \A p \in Live : Inside(p, shelf) \in SUBSET Books
  BY DEF Inside
<1>5. \A p \in Live : Range(order[p]) = Inside(p, shelf)
  BY <1>1, <1>4, ListOf
<1>6. ASSUME NEW x \in Books
      PROVE  /\ x \in all => x \in Inside(shelf[x], shelf) /\ shelf[x] \in Live
             /\ x \notin trashed /\ shelf[x] \in Live => x \in all
  BY <1>2, <1>5 DEF Inside
<1>7. ASSUME NEW x \in Books, x \in all
      PROVE  Place(order[shelf[x]], x) \in Nat
  BY <1>1, <1>4, <1>6, <1>7, Placed
<1>8. OrderTyped'
  BY <1>1, <1>2, <1>3, <1>7 DEF OrderInv, OrderTyped
<1>9. RanksTold'
  <2> SUFFICES ASSUME NEW x \in Books, x \notin trashed, shelf[x] \in Live
               PROVE  Told(asked'[shelf[x]], x, rank'[x])
    BY <1>3 DEF RanksTold
  <2>1. x \in all /\ rank'[x] = Place(order[shelf[x]], x)
    BY <1>2, <1>6
  <2>2. asked'[shelf[x]] = order[shelf[x]]
    BY <1>1 DEF Live
  <2> QED BY <1>5, <1>6, <2>1, <2>2 DEF Told
<1> QED BY <1>3, <1>8, <1>9 DEF OrderInv

LEMMA OrderStepBegin ==
  ASSUME OrderInv, NEW P \in SUBSET Live, NEW x \in Books \union {0}, NEW p \in Live, Begin(P, x, p)
  PROVE  OrderInv'
<1>1. /\ sorting' = [at |-> "open", left |-> P, parents |-> P, mover |-> x, to |-> p, rows |-> {x} \intersect Books,
                      ranks |-> [b \in Books |-> 0], given |-> asked]
      /\ shelf' = shelf /\ trashed' = trashed /\ rank' = rank /\ asked' = asked /\ loose' = loose
      /\ x \in Books => x \notin trashed /\ p \in P
  BY DEF Begin
<1>2. /\ sorting'.left = P /\ sorting'.parents = P /\ sorting'.mover = x /\ sorting'.to = p
      /\ sorting'.rows = {x} \intersect Books
  BY <1>1
<1>3. sorting' \in Draft
  BY <1>1 DEF Draft, OrderInv, OrderTyped
<1>4. OrderTyped'
  BY <1>1, <1>3 DEF OrderInv, OrderTyped
<1>5. RanksTold'
  BY <1>1 DEF OrderInv, RanksTold
<1>6. DraftTold'
  <2>1. \A b \in Books : PlaceThen'[b] = IF b = x THEN p ELSE shelf[b]
    BY <1>1, <1>2 DEF PlaceThen
  <2> QED BY <1>1, <1>2, <2>1 DEF DraftTold
<1> QED BY <1>4, <1>5, <1>6 DEF OrderInv

LEMMA OrderStepSort ==
  ASSUME OrderInv, NEW p \in Live, Sort(p)
  PROVE  OrderInv'
<1>1. sorting # NoSort /\ sorting \in Draft /\ DraftTold
  BY DEF Sort, OrderInv, OrderTyped
<1>2. PICK S : S = Inside(p, PlaceThen) /\ S \in SUBSET Books
  BY DEF Inside
<1> DEFINE Written(seq, ids) ==
      sorting' = [sorting EXCEPT !.left = @ \ {p}, !.rows = @ \union Range(seq), !.given[p] = AsAsked(seq, ids),
        !.ranks = [b \in Books |-> IF b \in Range(seq) THEN Place(Merged(seq, ids), b) ELSE sorting.ranks[b]]]
<1>3. \E seq \in Orders(S) : \E ids \in UNION {Orders(T) : T \in SUBSET Range(seq)} : Written(seq, ids)
  BY <1>2 DEF Sort, Sorted
<1> HIDE DEF Written
<1>4. PICK seq \in Orders(S) : \E ids \in UNION {Orders(T) : T \in SUBSET Range(seq)} : Written(seq, ids)
  BY <1>3
<1>5. Range(seq) = S
  BY <1>2, ListOf
<1>6. PICK ids, T : T \in SUBSET S /\ ids \in Orders(T) /\ Written(seq, ids)
  BY <1>4, <1>5
<1>7. AsAsked(seq, ids) = Merged(seq, ids) /\ Merged(seq, ids) \in Orders(S)
  BY <1>2, <1>6, AskedIsMerged
<1>8. PICK list : list = Merged(seq, ids)
  OBVIOUS
<1>9. PICK ranks : ranks = [b \in Books |-> IF b \in S THEN Place(list, b) ELSE sorting.ranks[b]]
  OBVIOUS
<1>10. sorting' = [sorting EXCEPT !.left = sorting.left \ {p}, !.rows = sorting.rows \union S,
                   !.given = [sorting.given EXCEPT ![p] = list], !.ranks = ranks]
  BY <1>1, <1>5, <1>6, <1>7, <1>8, <1>9 DEF Draft, Written
<1>11. /\ sorting'.left = sorting.left \ {p} /\ sorting'.parents = sorting.parents /\ sorting'.at = "open"
      /\ sorting'.mover = sorting.mover /\ sorting'.to = sorting.to
      /\ sorting'.rows = sorting.rows \union S /\ sorting'.ranks = ranks
      /\ sorting'.given = [sorting.given EXCEPT ![p] = list]
  BY <1>1, <1>10 DEF Draft
<1>12. /\ shelf' = shelf /\ trashed' = trashed /\ rank' = rank /\ asked' = asked /\ loose' = loose
  BY DEF Sort
<1>13. Range(list) = S /\ \A b \in S : Place(list, b) \in Nat
  BY <1>2, <1>7, <1>8, ListOf, Placed
<1>14. sorting' \in Draft
  <2>1. ranks \in [Books -> Nat]
    BY <1>1, <1>9, <1>13 DEF Draft
  <2>2. list \in Listings
    BY <1>2, <1>7, <1>8 DEF Listings
  <2>3. p \in Shelves
    BY DEF Live
  <2>4. [sorting.given EXCEPT ![p] = list] \in [Shelves -> Listings]
    BY <1>1, <2>2, <2>3 DEF Draft
  <2> QED BY <1>1, <1>2, <1>10, <2>1, <2>4 DEF Draft
<1>15. OrderTyped'
  BY <1>12, <1>14 DEF OrderInv, OrderTyped
<1>16. RanksTold'
  BY <1>12 DEF OrderInv, RanksTold
<1>17. \A x \in Books : PlaceThen'[x] = PlaceThen[x]
  BY <1>11, <1>12 DEF PlaceThen
<1>18. ASSUME NEW x \in Books, x \notin trashed, PlaceThen[x] \in sorting.parents \ sorting'.left
       PROVE  /\ x \in sorting'.rows => Told(sorting'.given[PlaceThen[x]], x, ranks[x])
              /\ x \notin sorting'.rows /\ rank[x] > 0 => x \in loose
  <2>1. CASE PlaceThen[x] = p
    <3>1. x \in S
      BY <1>2, <1>18, <2>1 DEF Inside
    <3>2. sorting'.given[p] = list /\ ranks[x] = Place(list, x)
      BY <1>1, <1>9, <1>11, <3>1 DEF Draft, Live
    <3> QED BY <1>11, <1>13, <2>1, <3>1, <3>2 DEF Told
  <2>2. CASE PlaceThen[x] # p
    <3>1. x \notin S /\ PlaceThen[x] \in sorting.parents \ sorting.left
      BY <1>2, <1>11, <1>18, <2>2 DEF Inside
    <3>2. sorting'.given[PlaceThen[x]] = sorting.given[PlaceThen[x]] /\ ranks[x] = sorting.ranks[x]
      BY <1>1, <1>9, <1>11, <2>2, <3>1 DEF Draft, Live
    <3> QED BY <1>1, <1>11, <1>18, <3>1, <3>2 DEF DraftTold
  <2> QED BY <2>1, <2>2
<1>19. DraftTold'
  <2>1. p \in sorting.parents
    BY <1>1 DEF Sort, DraftTold
  <2>2. \A x \in S : x \notin trashed /\ PlaceThen[x] = p
    BY <1>2 DEF Inside
  <2>3. \A x \in sorting'.rows : x \in Books
    BY <1>1, <1>2, <1>11 DEF Draft
  <2> QED BY <1>1, <1>11, <1>12, <1>17, <1>18, <2>1, <2>2, <2>3 DEF DraftTold
<1> QED BY <1>15, <1>16, <1>19 DEF OrderInv

LEMMA OrderStepCommit ==
  ASSUME OrderInv, Commit
  PROVE  OrderInv'
<1>1. sorting # NoSort /\ sorting \in Draft /\ DraftTold /\ sorting.left = {}
  BY DEF Commit, OrderInv, OrderTyped
<1>2. /\ shelf' = PlaceThen /\ rank' = RankThen /\ trashed' = trashed /\ sorting' = NoSort
      /\ asked' = [p \in Shelves |-> IF p \in sorting.parents THEN sorting.given[p] ELSE asked[p]]
      /\ loose' = loose \ sorting.rows
  BY DEF Commit
<1>3. OrderTyped'
  <2>1. PlaceThen \in [Books -> Shelves]
    BY <1>1 DEF PlaceThen, Draft, Live, OrderInv, OrderTyped
  <2>2. RankThen \in [Books -> Nat]
    BY <1>1 DEF RankThen, Draft, OrderInv, OrderTyped
  <2>3. asked' \in [Shelves -> Listings]
    BY <1>1, <1>2 DEF Draft, OrderInv, OrderTyped
  <2> QED BY <1>2, <2>1, <2>2, <2>3 DEF OrderTyped
<1>4. ASSUME NEW x \in Books, x \notin trashed, x \notin loose \ sorting.rows, PlaceThen[x] \in Live, RankThen[x] > 0
      PROVE  Told(asked'[PlaceThen[x]], x, RankThen[x])
  <2>1. RankThen[x] = IF x \in sorting.rows THEN sorting.ranks[x] ELSE rank[x]
    BY DEF RankThen
  <2>2. asked'[PlaceThen[x]] = IF PlaceThen[x] \in sorting.parents THEN sorting.given[PlaceThen[x]] ELSE asked[PlaceThen[x]]
    BY <1>2, <1>4 DEF Live
  <2>3. CASE PlaceThen[x] \in sorting.parents
    BY <1>1, <1>4, <2>1, <2>2, <2>3 DEF DraftTold
  <2>4. CASE PlaceThen[x] \notin sorting.parents
    <3>1. x \notin sorting.rows /\ x # sorting.mover
      BY <1>1, <1>4, <2>4 DEF DraftTold
    <3>2. PlaceThen[x] = shelf[x]
      BY <3>1 DEF PlaceThen
    <3> QED BY <1>4, <2>1, <2>2, <2>4, <3>1, <3>2 DEF OrderInv, RanksTold
  <2> QED BY <2>3, <2>4
<1>5. RanksTold'
  BY <1>2, <1>4 DEF RanksTold
<1> QED BY <1>2, <1>3, <1>5 DEF OrderInv

\* A row that no request holds comes without a rank, or with one that does not
\* count.
LEMMA OrderArrival ==
  ASSUME OrderInv, NEW x \in Books, ~Held(x), NEW p \in Shelves, NEW n \in Nat,
         shelf' = [shelf EXCEPT ![x] = p], rank' = [rank EXCEPT ![x] = n], n > 0 => x \in loose',
         loose \ {x} \subseteq loose', trashed \ {x} \subseteq trashed', trashed' \subseteq trashed,
         sorting' = sorting, asked' = asked
  PROVE  OrderInv'
<1>1. OrderTyped'
  BY DEF OrderInv, OrderTyped
<1>2. DOMAIN shelf = Books /\ DOMAIN rank = Books
  BY DEF OrderInv, OrderTyped
<1>3. /\ shelf'[x] = p /\ rank'[x] = n
      /\ \A y \in Books \ {x} : shelf'[y] = shelf[y] /\ rank'[y] = rank[y]
  BY <1>2
<1>4. RanksTold'
  <2> SUFFICES ASSUME NEW y \in Books, y \notin trashed', y \notin loose', shelf'[y] \in Live, rank'[y] > 0
               PROVE  Told(asked[shelf'[y]], y, rank'[y])
    BY DEF RanksTold
  <2>1. y # x
    BY <1>3
  <2> QED BY <1>3, <2>1 DEF OrderInv, RanksTold
<1>5. sorting # NoSort => DraftTold'
  <2> SUFFICES ASSUME sorting # NoSort PROVE DraftTold'
    OBVIOUS
  <2>1. sorting \in Draft /\ DraftTold /\ x \notin sorting.rows
    BY DEF OrderInv, OrderTyped, Held
  <2>2. \A y \in Books \ {x} : PlaceThen'[y] = PlaceThen[y]
    BY <1>3 DEF PlaceThen
  <2>3. sorting.rows \subseteq Books \ {x}
    BY <2>1 DEF Draft
  <2>4. \A y \in Books \ trashed' : y # x => y \in Books \ trashed
    OBVIOUS
  <2>5. rank'[x] > 0 => x \in loose'
    BY <1>3
  <2> QED BY <1>3, <2>1, <2>2, <2>3, <2>4, <2>5 DEF DraftTold
<1> QED BY <1>1, <1>4, <1>5 DEF OrderInv

LEMMA OrderSettled ==
  ASSUME OrderInv, NEW x \in Books, ~Held(x), NEW p \in Shelves, Settle(x, p),
         trashed' = trashed \/ trashed' = trashed \ {x}, sorting' = sorting, asked' = asked
  PROVE  OrderInv'
<1>1. shelf' = [shelf EXCEPT ![x] = p] /\ rank' = [rank EXCEPT ![x] = 0] /\ loose' = loose \ {x}
  BY DEF Settle
<1>2. 0 \in Nat /\ ~(0 > 0) /\ loose \ {x} \subseteq loose' /\ trashed \ {x} \subseteq trashed' /\ trashed' \subseteq trashed
  BY <1>1
<1> QED BY <1>1, <1>2, OrderArrival

LEMMA OrderStepPlace ==
  ASSUME OrderInv, NEW x \in Books,
         RestoreBook(x) \/ Rescue(x) \/ \E p \in Live : MoveBook(x, p)
  PROVE  OrderInv'
<1>1. shelf \in [Books -> Shelves] /\ rank \in [Books -> Nat] /\ Home \in Shelves
  BY OrderAssumption DEF OrderAssumption, OrderInv, OrderTyped
<1>2. CASE RestoreBook(x)
  <2>1. x \in trashed /\ Settle(x, shelf[x]) /\ trashed' = trashed \ {x} /\ sorting' = sorting /\ asked' = asked
    BY <1>2 DEF RestoreBook
  <2>2. ~Held(x)
    BY <2>1 DEF OrderInv, DraftTold, Held
  <2>3. shelf[x] \in Shelves
    BY <1>1
  <2> QED BY <2>1, <2>2, <2>3, OrderSettled
<1>3. CASE Rescue(x)
  <2>1. ~Held(x) /\ sorting' = sorting /\ asked' = asked
    BY <1>3 DEF Rescue
  <2>2. CASE x \in trashed /\ trashed' = trashed \ {x} /\ Settle(x, Home)
    BY <1>1, <2>1, <2>2, OrderSettled
  <2>3. CASE /\ shelf' = [shelf EXCEPT ![x] = Home]
             /\ loose' = (IF rank[x] > 0 THEN loose \union {x} ELSE loose)
             /\ trashed' = trashed /\ rank' = rank
    <3>1. rank' = [rank EXCEPT ![x] = rank[x]] /\ rank[x] \in Nat
      BY <1>1, <2>3
    <3>2. (rank[x] > 0 => x \in loose') /\ loose \ {x} \subseteq loose' /\ trashed \ {x} \subseteq trashed' /\ trashed' \subseteq trashed
      BY <2>3
    <3>3. shelf' = [shelf EXCEPT ![x] = Home]
      BY <2>3
    <3> QED BY <1>1, <2>1, <3>1, <3>2, <3>3, OrderArrival
  <2> QED BY <1>3, <2>2, <2>3 DEF Rescue
<1>4. ASSUME NEW p \in Live, MoveBook(x, p) PROVE OrderInv'
  <2>1. p \in Shelves
    BY DEF Live
  <2>2. ~Held(x) /\ Settle(x, p) /\ trashed' = trashed /\ sorting' = sorting /\ asked' = asked
    BY <1>4 DEF MoveBook
  <2> QED BY <2>1, <2>2, OrderSettled
<1> QED BY <1>2, <1>3, <1>4

LEMMA OrderStepOther ==
  ASSUME OrderInv, Abort \/ (\E x \in Books : BeginRescue(x) \/ TrashBook(x)) \/ UNCHANGED orderVars
  PROVE  OrderInv'
<1>1. CASE Abort
  BY <1>1 DEF Abort, OrderInv, OrderTyped, RanksTold
<1>2. ASSUME NEW x \in Books, BeginRescue(x) \/ UNCHANGED orderVars PROVE OrderInv'
  <2>1. /\ shelf' = shelf /\ rank' = rank /\ trashed' = trashed /\ asked' = asked /\ loose' = loose
        /\ sorting' = sorting
    BY <1>2 DEF BeginRescue, orderVars
  <2> QED BY <2>1 DEF OrderInv, OrderTyped, RanksTold, DraftTold, PlaceThen
<1>3. CASE UNCHANGED orderVars
  <2>1. /\ shelf' = shelf /\ rank' = rank /\ trashed' = trashed /\ asked' = asked /\ loose' = loose
        /\ sorting' = sorting
    BY <1>3 DEF orderVars
  <2> QED BY <2>1 DEF OrderInv, OrderTyped, RanksTold, DraftTold, PlaceThen
<1>4. ASSUME NEW x \in Books, TrashBook(x) PROVE OrderInv'
  <2>1. /\ shelf' = shelf /\ rank' = rank /\ trashed' = trashed \union {x} /\ asked' = asked /\ loose' = loose
        /\ sorting' = sorting /\ ~Held(x)
    BY <1>4 DEF TrashBook
  <2>2. OrderTyped' /\ RanksTold'
    BY <2>1 DEF OrderInv, OrderTyped, RanksTold
  <2>3. sorting # NoSort => DraftTold'
    BY <2>1 DEF OrderInv, DraftTold, PlaceThen, Held
  <2> QED BY <2>1, <2>2, <2>3 DEF OrderInv
<1> QED BY <1>1, <1>2, <1>3, <1>4

\* The order last given to a folder is the order of those of its resources
\* that have a rank, but for what a restore put there with the rank it had
\* elsewhere (OrderKept).
THEOREM OrderAlwaysKept == OrderSpec => []OrderKept
<1>1. OrderInv /\ [OrderNext]_orderVars => OrderInv'
  BY NumbersOfBooks, OrderStepInitialize, OrderStepBegin, OrderStepSort, OrderStepCommit, OrderStepPlace, OrderStepOther
  DEF OrderNext
<1>2. OrderInv => OrderKept
  <2> SUFFICES ASSUME OrderInv, NEW p \in Live, NEW ranked, ranked = {x \in Inside(p, shelf) \ loose : rank[x] > 0}
               PROVE  /\ ranked \subseteq Range(asked[p])
                      /\ \A x, y \in ranked : Precedes(asked[p], x, y) <=> Above(x, y, rank, since)
    BY DEF OrderKept
  <2>1. \A x \in ranked : x \in Books /\ Told(asked[p], x, rank[x]) /\ rank[x] > 0 /\ rank[x] \in Nat /\ x \in Nat
    BY OrderAssumption DEF OrderAssumption, OrderInv, OrderTyped, RanksTold, Inside
  <2>2. PICK S \in SUBSET Books : asked[p] \in Orders(S)
    BY DEF OrderInv, OrderTyped, Listings, Live
  <2>3. Range(asked[p]) = S
    BY <2>2, ListOf
  <2>4. ASSUME NEW x \in ranked, NEW y \in ranked
        PROVE  Precedes(asked[p], x, y) <=> Above(x, y, rank, since)
    <3>1. x \in S /\ y \in S /\ Place(asked[p], x) = rank[x] /\ Place(asked[p], y) = rank[y]
      BY <2>1, <2>3 DEF Told
    <3>2. Precedes(asked[p], x, y) <=> rank[x] < rank[y]
      BY <2>2, <3>1, PlacesPrecede
    <3>3. rank[x] = rank[y] => x = y
      BY <2>2, <3>1, Placed
    <3> QED BY <2>1, <3>2, <3>3 DEF Above
  <2> QED BY <2>1, <2>4 DEF Told
<1> QED BY <1>1, <1>2, OrderInitInv, PTL DEF OrderSpec

(* ------------------------------- side by side ------------------------------- *)

\* A behaviour of the specification that the run checks is about one part, which
\* does there what it does by itself.
LEMMA ContentParts ==
  ContentSpec =>
    /\ Spec /\ AttachmentSpec /\ ReadingSpec /\ ChunkSpec /\ IndexSpec /\ RssQuotaSpec /\ SmartSpec /\ TagSpec
    /\ OrderSpec
<1>1. ContentInit =>
        /\ Init /\ AttachmentInit /\ ReadingInit /\ ChunkInit /\ IndexInit /\ RssQuotaInit /\ SmartInit /\ TagInit
        /\ OrderInit
  BY DEF ContentInit
<1>2. ContentNext =>
        /\ (Next \/ UNCHANGED vars) /\ (AttachmentNext \/ UNCHANGED attachmentVars)
        /\ (ReadingNext \/ UNCHANGED readingVars) /\ (ChunkNext \/ UNCHANGED chunkVars)
        /\ (IndexNext \/ UNCHANGED indexVars) /\ (RssQuotaNext \/ UNCHANGED rssQuotaVars)
        /\ (SmartNext \/ UNCHANGED smartVars) /\ (TagNext \/ UNCHANGED tagVars)
        /\ (OrderNext \/ UNCHANGED orderVars)
  BY DEF ContentNext
<1>3. UNCHANGED contentVars =>
        /\ UNCHANGED vars /\ UNCHANGED attachmentVars /\ UNCHANGED readingVars /\ UNCHANGED chunkVars
        /\ UNCHANGED indexVars /\ UNCHANGED rssQuotaVars /\ UNCHANGED smartVars /\ UNCHANGED tagVars
        /\ UNCHANGED orderVars
  BY DEF contentVars
<1>4. [ContentNext]_contentVars =>
        /\ [Next]_vars /\ [AttachmentNext]_attachmentVars /\ [ReadingNext]_readingVars /\ [ChunkNext]_chunkVars
        /\ [IndexNext]_indexVars /\ [RssQuotaNext]_rssQuotaVars /\ [SmartNext]_smartVars /\ [TagNext]_tagVars
        /\ [OrderNext]_orderVars
  BY <1>2, <1>3
<1> QED
  BY <1>1, <1>4, PTL DEF ContentSpec, Spec, AttachmentSpec, ReadingSpec, ChunkSpec, IndexSpec, RssQuotaSpec, SmartSpec,
     TagSpec, OrderSpec

\* What a namespace holds and what follows it: the specification of the run has
\* all that the run checks.
THEOREM ContentsAlwaysSound ==
  ContentSpec =>
    [](/\ ContentExact /\ UploadExact /\ AttachmentsPaid /\ RetriesSound
       /\ ResultsWhole /\ IndexAgrees /\ QuotasRespected /\ TagsKept /\ OrderKept)
BY ContentParts, ContentCharged, UploadCharged, AttachmentsAlwaysPaid, RetriesAlwaysSound, ResultsAlwaysWhole,
   IndexAlwaysAgrees, QuotasAlwaysRespected, TagsAlwaysKept, OrderAlwaysKept, PTL
================================================================================
