------------------------------ MODULE MCContents ------------------------------
(* What a namespace holds and what follows it: storage and its accounting,   *)
(* attachments, the tasks that read a file, the chunks their results arrive  *)
(* in, the search index, the quotas of feed and smart folders, tags, and the *)
(* order given by hand.  The modules share no variable, so one run explores  *)
(* them side by side: part says which one a behaviour is about, and the      *)
(* others keep their initial values.                                         *)
EXTENDS ResourceStorage, Attachments, Reading, ChunkedCallback, SearchIndex, RssQuotas, SmartFolders, ResourceTags,
  ManualOrder, TLC

CONSTANTS
  upload, item, f1,       \* a file, an rss item, the file's object
  ra, rb, ua, oa,         \* a page and its copy, a user, an attachment
  s1, s2,                 \* two workers on one task
  team, mine              \* the roots of a namespace

VARIABLE part

OneFile == [r \in Resources |-> IF r = upload THEN f1 ELSE None]

\* A file that is older than the column files.size, and of one unit.
DeclaredUnknown == [f \in Files |-> Unknown]
StoredUnit == [f \in Files |-> 1]

SamePayer == [r \in Pages |-> ua]
UnitBytes == [o \in Objects |-> 1]
OneOldRow == {<<ra, oa>>}

ChunkCounts == [s \in Senders |-> IF s = s1 THEN 3 ELSE 2]
TwoTexts == [d \in Documents |-> 2]
OneEach == [s \in Spaces |-> 1]

\* Neither a user, nor the team, has more feed folders or smart folders than
\* their limit, but for those that the code lets in without counting them:
\* the first for the team and private roots (rss-folders-quota.service.ts),
\* the second for the owners (smart-folders-quota.service.ts).
QuotasRespected == RssWithinLimit /\ SmartWithinLimit

contentVars ==
  <<part, vars, attachmentVars, readingVars, chunkVars, indexVars, rssQuotaVars, smartVars, tagVars, orderVars>>

ContentInit ==
  /\ part \in {"storage", "attachments", "reading", "chunks", "index", "feeds", "smart", "tags", "order"}
  /\ Init /\ AttachmentInit /\ ReadingInit /\ ChunkInit /\ IndexInit /\ RssQuotaInit /\ SmartInit
  /\ TagInit /\ OrderInit
  /\ part # "reading" => origin = "file"
  /\ shelf = [b \in Books |-> IF b = 3 THEN Lost ELSE Home]
  /\ part # "feeds" => \A x \in Holdings : place[x] = PrivateRoot

ContentNext ==
  /\ UNCHANGED part
  /\ \/ part = "storage" /\ Next
        /\ UNCHANGED <<attachmentVars, readingVars, chunkVars, indexVars, rssQuotaVars, smartVars, tagVars, orderVars>>
     \/ part = "attachments" /\ AttachmentNext
        /\ UNCHANGED <<vars, readingVars, chunkVars, indexVars, rssQuotaVars, smartVars, tagVars, orderVars>>
     \/ part = "reading" /\ ReadingNext
        /\ UNCHANGED <<vars, attachmentVars, chunkVars, indexVars, rssQuotaVars, smartVars, tagVars, orderVars>>
     \/ part = "chunks" /\ ChunkNext
        /\ UNCHANGED <<vars, attachmentVars, readingVars, indexVars, rssQuotaVars, smartVars, tagVars, orderVars>>
     \/ part = "index" /\ IndexNext
        /\ UNCHANGED <<vars, attachmentVars, readingVars, chunkVars, rssQuotaVars, smartVars, tagVars, orderVars>>
     \/ part = "feeds" /\ RssQuotaNext
        /\ UNCHANGED <<vars, attachmentVars, readingVars, chunkVars, indexVars, smartVars, tagVars, orderVars>>
     \/ part = "smart" /\ SmartNext
        /\ UNCHANGED <<vars, attachmentVars, readingVars, chunkVars, indexVars, rssQuotaVars, tagVars, orderVars>>
     \/ part = "tags" /\ TagNext
        /\ UNCHANGED <<vars, attachmentVars, readingVars, chunkVars, indexVars, rssQuotaVars, smartVars, orderVars>>
     \/ part = "order" /\ OrderNext
        /\ UNCHANGED <<vars, attachmentVars, readingVars, chunkVars, indexVars, rssQuotaVars, smartVars, tagVars>>

ContentSpec == ContentInit /\ [][ContentNext]_contentVars

Interchangeable == Permutations(Handlers)
===============================================================================
