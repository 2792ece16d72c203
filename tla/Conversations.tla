---------------------------- MODULE Conversations ----------------------------
(* A conversation, its messages, its title and what the index of messages    *)
(* holds of it (src/src/conversations, src/src/messages, the refreshes of    *)
(* src/src/search/search.service.ts).  Requests check that the conversation  *)
(* is there, read it, and write later; the messages of an answer that is     *)
(* being streamed are settled with no check at all.                          *)
(*                                                                           *)
(* AgentStream has the text of an answer and its status, this module whether *)
(* a message has one and where it is found.  A visitor's conversation in a   *)
(* share has no user and is never indexed.  Leases are held here.            *)
EXTENDS Naturals, SequencesExt, FiniteSets

CONSTANTS
  Sayings,     \* the messages there may be
  Talkers,     \* requests of the owner
  MaxTalks,    \* bound: requests and refreshes in all
  First        \* the parent of a message that follows none

ASSUME TalkAssumption == MaxTalks \in Nat /\ First \notin Sayings

VARIABLES
  talk,      \* the row of conversations: [removed, title]
  saying,    \* [Sayings -> [state, text, follows]], the rows of messages
  talker,    \* [Talkers -> what a request has checked and read]
  recall,    \* what a refresh has read and not come to yet
  chores,    \* the index tasks that are not over, by createdAt
  talks,     \* how many requests and refreshes there were
  found,     \* SUBSET Sayings, the index of messages (external)
  named,     \* history: the title was given by the user, not overtaken since
  amiss      \* history: [lost, left, crossed], see MessagesIndexed

talkVars == <<talk, saying, talker, recall, chores, talks, found, named, amiss>>

Silent == [at |-> "rest"]
NoRecall == [mode |-> "none", rest |-> {}]

TalkInit ==
  /\ talk = [removed |-> FALSE, title |-> "none"]
  /\ saying = [m \in Sayings |-> [state |-> "none", text |-> FALSE, follows |-> First]]
  /\ talker = [h \in Talkers |-> Silent]
  /\ recall = NoRecall
  /\ chores = <<>> /\ talks = 0
  /\ found = {}
  /\ named = FALSE
  /\ amiss = [lost |-> {}, left |-> {}, crossed |-> FALSE]

\* findAll.  An upsert is emitted of those that have a text.
Standing == {m \in Sayings : saying[m].state \in {"open", "settled"}}
Spoken == {m \in Standing : saying[m].text}

\* The messages on the way from one to the first.
Thread(m) ==
  LET up[k \in Nat] == IF k = 0 THEN {m}
                       ELSE up[k - 1] \union ({saying[n].follows : n \in up[k - 1]} \ {First})
  IN up[Cardinality(Sayings)]

\* getMessages and compose find every parent, or fail.
Composed(m) == Thread(m) \subseteq Standing

Indexing(m, low) == [kind |-> "upsert", of |-> m, low |-> low, running |-> FALSE]
Forgetting == [kind |-> "delete", of |-> First, low |-> FALSE, running |-> FALSE]

Hand(new) == chores' = chores \o new

\* emitUpsertMessageIndexTask; in a conversation that is removed by now nothing
\* will take the message out of the index again.
HandUpserts(S, low) ==
  LET new == SetToSeq(S) IN Hand([i \in DOMAIN new |-> Indexing(new[i], low)])

Behind(S) == IF talk.removed THEN S ELSE {}

Begun(h, q) ==
  /\ talker[h] = Silent /\ talks < MaxTalks /\ talks' = talks + 1
  /\ talker' = [talker EXCEPT ![h] = q]

Reply(h) == talker' = [talker EXCEPT ![h] = Silent]

----------------------------------------------------------------------------
(* Messages *)

\* MessagesService.create: that the conversation is there, and whose it is; a
\* stream has read the messages up to the parent.
BeginSay(h, p, posted) ==
  /\ ~talk.removed
  /\ p # First => p \in Standing /\ Composed(p)
  /\ Begun(h, [at |-> "say", follows |-> p, posted |-> posted])
  /\ UNCHANGED <<talk, saying, recall, chores, found, named, amiss>>

\* A posted message has its text and is indexed, one of a stream begins empty.
Say(h, m) ==
  /\ talker[h].at = "say" /\ saying[m].state = "none"
  /\ \E posted \in {talker[h].posted} :
       /\ saying' = [saying EXCEPT ![m] = [state |-> IF posted THEN "settled" ELSE "open",
                                           text |-> posted, follows |-> talker[h].follows]]
       /\ HandUpserts(IF posted THEN {m} ELSE {}, FALSE)
       /\ amiss' = IF posted THEN [amiss EXCEPT !.left = @ \union Behind({m})] ELSE amiss
  /\ Reply(h)
  /\ UNCHANGED <<talk, recall, talks, found, named>>

\* updateDelta
Speak(m) ==
  /\ saying[m].state = "open" /\ ~saying[m].text
  /\ saying' = [saying EXCEPT ![m].text = TRUE]
  /\ UNCHANGED <<talk, talker, recall, chores, talks, found, named, amiss>>

\* A fault of Heard: an answer is indexed as it begins, without a text.
HeardNever(m) == {}

Heard(m) == IF saying[m].text THEN {m} ELSE {}

\* update at the end of the message, by the stream or by stopRunning.
Settle(m) ==
  /\ saying[m].state = "open"
  /\ saying' = [saying EXCEPT ![m].state = "settled"]
  /\ HandUpserts(Heard(m), FALSE)
  /\ amiss' = [amiss EXCEPT !.left = @ \union Behind(Heard(m))]
  /\ UNCHANGED <<talk, talker, recall, talks, found, named>>

\* MessagesService.remove emits nothing: the message stays in the index, and
\* one that follows it cannot be composed any more.
RemoveSaying(m) ==
  /\ m \in Standing
  /\ saying' = [saying EXCEPT ![m].state = "removed"]
  /\ amiss' = [amiss EXCEPT !.left = @ \union {m}]
  /\ UNCHANGED <<talk, talker, recall, chores, talks, found, named>>

----------------------------------------------------------------------------
(* Conversations: findOneForUserInNamespace finds those that are not removed *)

BeginTalk(h, q) ==
  /\ ~talk.removed
  /\ Begun(h, q)
  /\ UNCHANGED <<talk, saying, recall, chores, found, named, amiss>>

BeginRemoval(h) == BeginTalk(h, [at |-> "remove"])

RemoveTalk(h) ==
  /\ talker[h].at = "remove"
  /\ talk' = [talk EXCEPT !.removed = TRUE]
  /\ Hand(<<Forgetting>>)
  /\ Reply(h)
  /\ UNCHANGED <<saying, recall, talks, found, named, amiss>>

\* restore makes the same check, so that it brings back only a conversation that
\* is removed between the check and the transaction.
BeginReturn(h) == BeginTalk(h, [at |-> "restore", read |-> Spoken])

ReturnTalk(h) ==
  /\ talker[h].at = "restore"
  /\ talk' = [talk EXCEPT !.removed = FALSE]
  /\ HandUpserts(talker[h].read, FALSE)
  /\ amiss' = IF talk.removed THEN [amiss EXCEPT !.lost = @ \union (Spoken \ talker[h].read)] ELSE amiss
  /\ Reply(h)
  /\ UNCHANGED <<saying, recall, talks, found, named>>

\* update reads the row and writes the title.
BeginTitle(h) == BeginTalk(h, [at |-> "title"])

GiveTitle(h) ==
  /\ talker[h].at = "title"
  /\ talk' = [talk EXCEPT !.title = "given"]
  /\ named' = TRUE
  /\ Reply(h)
  /\ UNCHANGED <<saying, recall, chores, talks, found, amiss>>

\* A fault of Untitled: a title is made whether there is one or not.
UntitledAlways == TRUE

Untitled == talk.title = "none"

\* createTitle reads the row and composes the thread of the last message, asks
\* the wizard and writes the title.  Any message may be the last here.
BeginMake(h) ==
  /\ Untitled
  /\ \E m \in Standing : Composed(m) /\ Thread(m) \cap Spoken # {}
  /\ BeginTalk(h, [at |-> "make", named |-> named])

\* What the user called it while the wizard thought is gone.
MakeTitle(h) ==
  /\ talker[h].at = "make"
  /\ talk' = [talk EXCEPT !.title = "made"]
  /\ named' = (named /\ talker[h].named)
  /\ Reply(h)
  /\ UNCHANGED <<saying, recall, chores, talks, found, amiss>>

----------------------------------------------------------------------------
(* Refreshes, and the workers that keep the index *)

BeginRecall(mode) ==
  /\ recall = NoRecall /\ ~talk.removed /\ Spoken # {}
  /\ talks < MaxTalks /\ talks' = talks + 1
  /\ recall' = [mode |-> mode, rest |-> Spoken]
  /\ UNCHANGED <<talk, saying, talker, chores, found, named, amiss>>

\* refreshMessageIndex emits a task, syncMessagesToWeaviate writes, or fails to.
Recall(m) ==
  /\ m \in recall.rest
  /\ recall' = IF recall.rest = {m} THEN NoRecall ELSE [recall EXCEPT !.rest = @ \ {m}]
  /\ amiss' = [amiss EXCEPT !.left = @ \union Behind({m})]
  /\ IF recall.mode = "tasks" THEN HandUpserts({m}, TRUE) /\ UNCHANGED found
     ELSE found' \in {found, found \union {m}} /\ UNCHANGED chores
  /\ UNCHANGED <<talk, saying, talker, talks, named>>

\* getNextTaskV2: the oldest of a priority.
StartChore(i) ==
  /\ ~chores[i].running
  /\ \A j \in DOMAIN chores : j < i => chores[j].running \/ chores[j].low # chores[i].low
  /\ chores' = [chores EXCEPT ![i].running = TRUE]
  /\ amiss' = IF \E j \in DOMAIN chores : j < i /\ "delete" \in {chores[i].kind, chores[j].kind}
              THEN [amiss EXCEPT !.crossed = TRUE] ELSE amiss
  /\ UNCHANGED <<talk, saying, talker, recall, talks, found, named>>

\* The wizard does as the task says (external), and reports.
DoChore(i) ==
  /\ chores[i].running
  /\ found' = IF chores[i].kind = "upsert" THEN found \union {chores[i].of} ELSE {}
  /\ chores' = RemoveAt(chores, i)
  /\ UNCHANGED <<talk, saying, talker, recall, talks, named, amiss>>

FailChore(i) ==
  /\ chores[i].running
  /\ chores' = RemoveAt(chores, i)
  /\ amiss' = IF chores[i].kind = "upsert" THEN [amiss EXCEPT !.lost = @ \union {chores[i].of}]
              ELSE [amiss EXCEPT !.left = Sayings]
  /\ UNCHANGED <<talk, saying, talker, recall, talks, found, named>>

TalkNext ==
  \/ \E h \in Talkers :
       \/ \E p \in Sayings \union {First}, posted \in BOOLEAN : BeginSay(h, p, posted)
       \/ \E m \in Sayings : Say(h, m)
       \/ BeginRemoval(h) \/ RemoveTalk(h) \/ BeginReturn(h) \/ ReturnTalk(h)
       \/ BeginTitle(h) \/ GiveTitle(h) \/ BeginMake(h) \/ MakeTitle(h)
  \/ \E m \in Sayings : Speak(m) \/ Settle(m) \/ RemoveSaying(m) \/ Recall(m)
  \/ \E mode \in {"tasks", "direct"} : BeginRecall(mode)
  \/ \E i \in DOMAIN chores : StartChore(i) \/ DoChore(i) \/ FailChore(i)

TalkSpec == TalkInit /\ [][TalkNext]_talkVars

(* With no task left, the index holds the settled messages of a conversation *)
(* that is there and nothing of one that is removed, unless tasks were       *)
(* performed across the one that forgets a conversation.  left: a message    *)
(* written after the conversation was removed, by a request that had checked *)
(* before or by a stream that ends, or removed on its own; lost: one a       *)
(* returning conversation had not read.                                      *)
MessagesIndexed ==
  chores = <<>> /\ ~amiss.crossed =>
    /\ found \subseteq amiss.left \union (IF talk.removed THEN {} ELSE Standing)
    /\ talk.removed \/ \A m \in Spoken : saying[m].state = "settled" => m \in found \union amiss.lost

\* The title the user gave stays, unless one was being made when it was given.
TitleKept == named => talk.title = "given"

ConversationKept == MessagesIndexed /\ TitleKept
==============================================================================
