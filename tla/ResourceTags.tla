----------------------------- MODULE ResourceTags -----------------------------
(* The tags of a namespace (the table tags, in which nothing makes a name    *)
(* unique) and the ids of tags that resources carry, a list that every       *)
(* change reads, alters and writes whole (src/src/tag, src/src/resource-tags *)
(* and src/src/namespace-resources/open-resources.service.ts).  A tag is     *)
(* made in the step that writes the list: in that transaction, or just       *)
(* before it.  Who may edit what is left out.                                *)
EXTENDS Naturals, Sequences

CONSTANTS
  Sheets,      \* resources
  Labels,      \* names of tags
  Taggers,     \* requests between two statements at the same time
  MaxTags,     \* bound: rows of the table
  MaxChanges   \* bound: requests in all

ASSUME TagAssumption == MaxTags \in Nat /\ MaxChanges \in Nat

VARIABLES
  tags,      \* Seq(Labels), the table: ids are places in it
  carried,   \* [Sheets -> [TagIds -> Nat]], Resource.tagIds: how often each id is in it
  change,    \* [Taggers -> request]
  changes,   \* how many there were
  wanted,    \* history, [Sheets -> SUBSET Labels]: what the requests asked for
  crossing,  \* history, SUBSET Sheets: written from a list that was no longer so
  twice,     \* history, SUBSET Labels: made by two that had not found it
  doubled    \* history, SUBSET Sheets: renamed into a tag they carried

tagVars == <<tags, carried, change, changes, wanted, crossing, twice, doubled>>

TagIds == 1..MaxTags
NoTags == [i \in TagIds |-> 0]
Pause == [at |-> "rest"]

TagInit ==
  /\ tags = <<>>
  /\ carried = [s \in Sheets |-> NoTags]
  /\ change = [t \in Taggers |-> Pause]
  /\ changes = 0
  /\ wanted = [s \in Sheets |-> {}] /\ crossing = {} /\ twice = {} /\ doubled = {}

Named(label) == {i \in DOMAIN tags : tags[i] = label}
Names(list) == {tags[i] : i \in {j \in DOMAIN tags : list[j] > 0}}

\* A request has read what it changes: the list of the resource, and of a
\* rename all lists that have the tag, any one of its name.
Read(t, op, S, label, new, old) ==
  /\ change[t] = Pause /\ changes < MaxChanges
  /\ change' = [change EXCEPT ![t] =
       [at |-> "read", op |-> op, sheets |-> S, label |-> label, new |-> new, old |-> old,
        seen |-> [s \in S |-> carried[s]], ids |-> {}, none |-> FALSE]]
  /\ changes' = changes + 1
  /\ UNCHANGED <<tags, carried, wanted, crossing, twice, doubled>>

BeginAdd(t, s, label) == label \notin Names(carried[s]) /\ Read(t, "add", {s}, label, label, {})
BeginOpenAdd(t, s, label) == Read(t, "openAdd", {s}, label, label, {})
BeginRemove(t, s, label) == label \in Names(carried[s]) /\ Read(t, "remove", {s}, label, label, Named(label))
BeginOpenRemove(t, s, i) == Read(t, "openRemove", {s}, tags[i], tags[i], {i})
BeginRename(t, i, new) ==
  LET S == {s \in Sheets : carried[s][i] > 0} IN
  tags[i] # new /\ S # {} /\ Read(t, "rename", S, tags[i], new, {i})

\* The task that extracts tags is emitted for a resource that has none.
BeginExtract(t, s, label) == carried[s] = NoTags /\ Read(t, "extract", {s}, label, label, {})

\* A fault of Found: no tag is found.
FoundNever(label) == {}

Found(label) == Named(label)

\* getOrCreateTagByName takes any row of the name, getOrCreateTagsByNames all
\* of them; none is made before the list is written.
Answers(op, label) ==
  IF op = "extract" \/ Found(label) = {} THEN {Found(label)} ELSE {{i} : i \in Found(label)}

LookUp(t) ==
  /\ change[t].at = "read" /\ change[t].op \in {"add", "openAdd", "rename", "extract"}
  /\ \E F \in Answers(change[t].op, change[t].new) :
       change' = [change EXCEPT ![t].at = "found", ![t].ids = F, ![t].none = (Named(change[t].new) = {})]
  /\ UNCHANGED <<tags, carried, changes, wanted, crossing, twice, doubled>>

Once(list) == [i \in TagIds |-> IF list[i] > 0 THEN 1 ELSE 0]

\* A fault of Renamed: the old tag stays.
RenamedBeside(list, old, ids) == [i \in TagIds |-> list[i] + (IF i \in ids THEN 1 ELSE 0)]

Renamed(list, old, ids) ==
  [i \in TagIds |-> (IF i \in old THEN 0 ELSE list[i]) + (IF i \in ids THEN 1 ELSE 0)]

\* The list that is written for the one that was read.  The ways of
\* resource-tags.service.ts read the tags of the ids, each once; a rename
\* takes the list as it is, and adds the new id to it.
Altered(q, list, ids) ==
  CASE q.op \in {"add", "openAdd"} -> [i \in TagIds |-> IF i \in ids THEN 1 ELSE Once(list)[i]]
    [] q.op = "remove" -> [i \in TagIds |-> IF i \in q.old THEN 0 ELSE Once(list)[i]]
    [] q.op = "openRemove" -> [i \in TagIds |-> IF i \in q.old THEN 0 ELSE list[i]]
    [] q.op = "rename" -> Renamed(list, q.old, ids)
    [] OTHER -> [i \in TagIds |-> IF i \in ids THEN 1 ELSE 0]

Wished(q, labels) ==
  CASE q.op \in {"add", "openAdd"} -> labels \union {q.label}
    [] q.op \in {"remove", "openRemove"} -> labels \ {q.label}
    [] q.op = "rename" -> (labels \ {q.label}) \union {q.new}
    [] OTHER -> {q.label}

WriteList(t) ==
  LET q == change[t]
      makes == q.at = "found" /\ q.ids = {}
      ids == IF makes THEN {Len(tags) + 1} ELSE q.ids IN
  /\ q.at = "found" \/ (q.at = "read" /\ q.op \in {"remove", "openRemove"})
  /\ IF makes THEN Len(tags) < MaxTags /\ tags' = Append(tags, q.new) ELSE UNCHANGED tags
  /\ carried' = [s \in Sheets |-> IF s \in q.sheets THEN Altered(q, q.seen[s], ids) ELSE carried[s]]
  /\ wanted' = [s \in Sheets |-> IF s \in q.sheets THEN Wished(q, wanted[s]) ELSE wanted[s]]
  /\ crossing' = crossing \union {s \in q.sheets : carried[s] # q.seen[s]}
  /\ twice' = IF q.none /\ Named(q.new) # {} THEN twice \union {q.new} ELSE twice
  /\ doubled' = doubled \union {s \in q.sheets : q.op = "rename" /\ \E i \in ids : q.seen[s][i] > 0}
  /\ change' = [change EXCEPT ![t] = Pause]
  /\ UNCHANGED changes

\* The list as the client has it, or as a parser's result has it.
Replace(s, S) ==
  /\ changes < MaxChanges /\ changes' = changes + 1
  /\ carried' = [carried EXCEPT ![s] = [i \in TagIds |-> IF i \in S THEN 1 ELSE 0]]
  /\ wanted' = [wanted EXCEPT ![s] = {tags[i] : i \in S}]
  /\ UNCHANGED <<tags, change, crossing, twice, doubled>>

TagNext ==
  \/ \E s \in Sheets, S \in SUBSET DOMAIN tags : Replace(s, S)
  \/ \E t \in Taggers :
       \/ LookUp(t) \/ WriteList(t)
       \/ \E s \in Sheets :
            \/ \E label \in Labels :
                 BeginAdd(t, s, label) \/ BeginOpenAdd(t, s, label)
                 \/ BeginRemove(t, s, label) \/ BeginExtract(t, s, label)
            \/ \E i \in DOMAIN tags : BeginOpenRemove(t, s, i)
       \/ \E i \in DOMAIN tags, new \in Labels : BeginRename(t, i, new)

TagSpec == TagInit /\ [][TagNext]_tagVars

(* ------------------------------ Properties ------------------------------ *)

\* A resource carries the tags that requests gave it and none they took from
\* it, each once, and a name has one tag, whatever is read between what:
\* except a resource whose list was written from one that had changed, a name
\* that two looked up before either had made it, and a tag that a resource got
\* by the rename of another beside it (resource-tags.service.ts, tag.service.ts).
TagsKept ==
  /\ \A s \in Sheets \ crossing : Names(carried[s]) \ twice = wanted[s] \ twice
  /\ \A s \in Sheets \ (crossing \union doubled), i \in TagIds : carried[s][i] <= 1
  /\ \A label \in Labels \ twice, i, j \in DOMAIN tags : tags[i] = label /\ tags[j] = label => i = j
===============================================================================
