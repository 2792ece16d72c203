----------------------------- MODULE Attachments -----------------------------
(* Attachments of resources and who pays for them: uploads, removals, copies *)
(* of a duplicated resource and the backfill of rows without a size          *)
(* (src/src/attachments, src/src/resource-attachments, src/src/s3).          *)
(*                                                                           *)
(* storage_usages has one sum per user; paid splits it by the attachment     *)
(* each adjustment was for.                                                  *)
EXTENDS Integers, FiniteSets

CONSTANTS
  Pages,        \* resources
  Payers,       \* users
  PageOf,       \* [Pages -> Payers \union {NoPayer}], userId of the resource
  Copies,       \* pages that do not exist until they are made as duplicates
  Objects,      \* attachment ids
  Bytes,        \* [Objects -> Nat], length of the object
  OldRows,      \* rows older than attachment_size
  Hands,        \* requests between two statements at the same time
  MaxHands,     \* bound: requests of more than one statement in all
  NoPayer, Unsized

Places == Pages \X Objects

ASSUME AttachmentAssumption ==
  /\ Copies \subseteq Pages /\ PageOf \in [Pages -> Payers \union {NoPayer}]
  /\ Bytes \in [Objects -> Nat \ {0}] /\ MaxHands \in Nat /\ Unsized \notin Nat /\ NoPayer \notin Payers
  /\ OldRows \subseteq (Pages \ Copies) \X Objects

VARIABLES
  page,       \* [Pages -> {"none", "live", "trashed"}]
  stored,     \* objects in S3
  attached,   \* [Places -> row], resource_attachments
  paid,       \* [Places -> [Payers -> Int]]
  payer,      \* history: who was charged for a row last
  crossed,    \* history: rows whose charge and refund were not of one kind
  hand,       \* [Hands -> request]
  handed      \* requests so far

attachmentVars == <<page, stored, attached, paid, payer, crossed, hand, handed>>

Empty == [state |-> "none", size |-> Unsized]
AtRest == [at |-> "rest"]

AttachmentInit ==
  /\ page = [r \in Pages |-> IF r \in Copies THEN "none" ELSE "live"]
  /\ stored = {p[2] : p \in OldRows}
  /\ attached = [p \in Places |-> IF p \in OldRows THEN [Empty EXCEPT !.state = "live"] ELSE Empty]
  /\ paid = [p \in Places |-> [u \in Payers |-> 0]]
  /\ payer = [p \in Places |-> NoPayer]
  /\ crossed = {}
  /\ hand = [h \in Hands |-> AtRest]
  /\ handed = 0

Take(h, r) ==
  /\ hand[h] = AtRest /\ handed < MaxHands
  /\ hand' = [hand EXCEPT ![h] = r] /\ handed' = handed + 1
Finish(h) == hand' = [hand EXCEPT ![h] = AtRest] /\ UNCHANGED handed

\* updateStorageUsage: one increment, negative for a refund.
Charge(P, u, n) ==
  /\ paid' = [p \in Places |-> IF p \in P THEN [paid[p] EXCEPT ![u] = @ + n[p]] ELSE paid[p]]
  /\ payer' = [p \in Places |-> IF p \in P THEN u ELSE payer[p]]

\* generateObjectKey: a key no object has.
FreshKeys == Objects \ stored

\* uploadAttachment checks the permission and stores the object, ...
BeginAttach(h, r, u) ==
  /\ page[r] = "live"
  /\ \E o \in FreshKeys :
       /\ stored' = stored \union {o}
       /\ Take(h, [at |-> "attach", place |-> <<r, o>>, by |-> u])
  /\ UNCHANGED <<page, attached, paid, payer, crossed>>

\* ... then inserts the row and charges who uploads, in one transaction, ...
Attach(h) ==
  LET p == hand[h].place IN
  /\ hand[h].at = "attach"
  /\ attached' = [attached EXCEPT ![p] = [state |-> "live", size |-> Bytes[p[2]]]]
  /\ Charge({p}, hand[h].by, [q \in Places |-> Bytes[q[2]]])
  /\ Finish(h)
  /\ UNCHANGED <<page, stored, crossed>>

\* ... unless that fails: the file is reported as failed, its object stays.
AttachFails(h) ==
  /\ hand[h].at = "attach"
  /\ Finish(h)
  /\ UNCHANGED <<page, stored, attached, paid, payer, crossed>>

\* removeAttachmentFromResource reads the row without a lock, ...
BeginDetach(h, p, u) ==
  /\ page[p[1]] = "live" /\ attached[p].state = "live"
  /\ Take(h, [at |-> "detach", place |-> p, by |-> u, size |-> attached[p].size])
  /\ UNCHANGED <<page, stored, attached, paid, payer, crossed>>

\* A fault of Refund: what the row says, when it never had a size to charge.
RefundMeasured(q) == Bytes[q.place[2]]

\* A row read before it had a size was never charged.
Refund(q) == IF q.size = Unsized THEN 0 ELSE q.size

\* ... deletes it whatever it has become, and refunds the size that was read
\* to the one who removes it.
Detach(h) ==
  LET q == hand[h]
      p == q.place IN
  /\ q.at = "detach"
  /\ attached' = [attached EXCEPT ![p].state = "gone"]
  /\ paid' = [paid EXCEPT ![p][q.by] = @ - Refund(q)]
  /\ crossed' = IF \/ attached[p] # [state |-> "live", size |-> q.size]
                   \/ q.size # Unsized /\ q.by # payer[p]
                THEN crossed \union {p} ELSE crossed
  /\ Finish(h)
  /\ UNCHANGED <<page, stored, payer>>

\* duplicate: the copy's rows have the sizes read from the source, and their
\* sum is charged to who makes it.  Nobody sees them before the commit.
Duplicate(r, c, u) ==
  LET P == {p \in Places : p[1] = c /\ attached[<<r, p[2]>>].state = "live"}
      size(p) == attached[<<r, p[2]>>].size
      sized == {p \in P : size(p) # Unsized} IN
  /\ page[r] = "live" /\ page[c] = "none" /\ PageOf[c] = u
  /\ page' = [page EXCEPT ![c] = "live"]
  /\ attached' = [p \in Places |-> IF p \in P THEN [state |-> "live", size |-> size(p)] ELSE attached[p]]
  /\ Charge(sized, u, [p \in Places |-> size(p)])
  /\ UNCHANGED <<stored, crossed, hand, handed>>

\* A resource goes to the trash or comes back; its attachments stay.
TrashPage(r) ==
  /\ page[r] \in {"live", "trashed"}
  /\ page' = [page EXCEPT ![r] = IF @ = "live" THEN "trashed" ELSE "live"]
  /\ UNCHANGED <<stored, attached, paid, payer, crossed, hand, handed>>

\* recalculateAttachmentSizes lists rows without a size, asks S3 for the
\* length, and looks for the owner of the resource, if it is live, ...
BeginMeasure(h, p) ==
  /\ attached[p] = [state |-> "live", size |-> Unsized]
  /\ Take(h, [at |-> "measure", place |-> p,
                 for |-> IF page[p[1]] = "live" THEN PageOf[p[1]] ELSE NoPayer])
  /\ UNCHANGED <<page, stored, attached, paid, payer, crossed>>

\* A fault of StillUnsized: the update is by id alone.
StillUnsizedAlways(row) == TRUE

\* WHERE id = ... AND attachment_size IS NULL, affected = 1.
StillUnsized(row) == row.size = Unsized

\* ... and writes the size, whatever else has become of the row; the owner, if
\* there is one, is charged.
Measure(h) ==
  LET p == hand[h].place
      u == hand[h].for IN
  /\ hand[h].at = "measure"
  /\ IF StillUnsized(attached[p])
       THEN /\ attached' = [attached EXCEPT ![p].size = Bytes[p[2]]]
            /\ IF u = NoPayer THEN UNCHANGED <<paid, payer>>
               ELSE Charge({p}, u, [q \in Places |-> Bytes[q[2]]])
            /\ crossed' = IF u = NoPayer \/ attached[p].state # "live"
                          THEN crossed \union {p} ELSE crossed
       ELSE UNCHANGED <<attached, paid, payer, crossed>>
  /\ Finish(h)
  /\ UNCHANGED <<page, stored>>

AttachmentNext ==
  \/ \E h \in Hands, u \in Payers :
       \/ \E r \in Pages : BeginAttach(h, r, u)
       \/ \E p \in Places : BeginDetach(h, p, u)
  \/ \E h \in Hands :
       \/ Attach(h) \/ AttachFails(h) \/ Detach(h) \/ Measure(h)
       \/ \E p \in Places : BeginMeasure(h, p)
  \/ \E r, c \in Pages, u \in Payers : Duplicate(r, c, u)
  \/ \E r \in Pages : TrashPage(r)

AttachmentSpec == AttachmentInit /\ [][AttachmentNext]_attachmentVars

(* The usage of every user is what they were charged for and is still there, *)
(* although uploads, removals, duplicates and backfills each adjust it by a   *)
(* computation of their own.  The exceptions are all there are: a removal by *)
(* another than who paid, or of a row that changed since it was read, and a  *)
(* backfill of a row that is removed meanwhile, or of a page in the trash.   *)
AttachmentsPaid ==
  \A p \in Places \ crossed :
    paid[p] = [u \in Payers |->
                 IF u = payer[p] /\ attached[p].state = "live" /\ attached[p].size # Unsized
                 THEN attached[p].size ELSE 0]
===============================================================================
