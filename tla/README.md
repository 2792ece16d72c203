# OmniBox backend: a TLA+ model

The OmniBox backend (`src/`, a NestJS service) keeps the resources of users and
namespaces in PostgreSQL, files in S3, short-lived state in Redis, and hands
long work to external *wizard* workers. Several backend processes serve the
same database. This directory holds TLA+ specifications of it, the TLC
configurations that check them on small instances, and TLAPS proofs of what
matters most for instances of every size.

All paths below are relative to the repository, whose files lie under `src/`;
`src/src/` is its TypeScript.

Contents: [inventory](#inventory) · [modules](#modules) ·
[runs](#runs) · [the models, one by one](#the-models-one-by-one) ·
[proofs](#proofs) · [what is not modelled](#what-is-not-modelled) ·
[plan](#plan)

## Inventory

What the code has in common matters more than what its parts do. A request is
served by one process and gives way to others at every `await`. Most reads take
no lock, PostgreSQL runs at READ COMMITTED, and few rules are backed by an
index. So the questions are nearly always the same: what was read before, what
is written now, and who came in between. The parts, with the state they keep,
how they interact, and what makes them correct:

| part | state | operations | hard because | correct when | module |
| --- | --- | --- | --- | --- | --- |
| Task queue (`tasks/`, `wizard/wizard.service.ts`) | table `tasks` | emit, poll and claim, heartbeat, callback, follow-ups, cancel, start, rerun, delete, cron reaper | workers die, are slow, or answer twice; callbacks check a row and store later; whole entities are saved | one execution at a time, one application of a result, no task lost, settled is settled | `TaskQueue` |
| Storage accounting and trash (`resources/`, `files/`, `storage-usages/`) | `resources.content_size`, `files.size`, `storage_usages` | create, update, delete one or many, restore, purge, backfill | six code paths adjust one sum by computations of their own | an owner pays what lives, once | `ResourceStorage` |
| Resource tree (`resources/`, `namespace-resources/`) | `resources.parent_id`, `name`, `deleted_at` | create, rename, move, batch move, trash, restore | checks read a chain of parents without locks; no unique index on names | no cycle, sibling names unique | `ResourceTree` |
| RSS (`rss/`) | `rss_links`, `rss_polls`, `rss_item_contents`, copies in `resources` | edit folders, claim and poll a url, parse with backoff, link copies | several pollers, deadlines, takeovers, row locks, an advisory lock | each article once, with one text, delivered at last; no deadlock | `RssFolders`, `RssPolling` |
| Membership (`namespaces/`, `auth/`, `user/`) | `namespace_members`, roots, `user_permissions` | join, role, remove, leave, transfer, delete namespace or account, grant | counts of owners and members are taken without a lock | one owner, roots live, nobody in a deleted namespace | `NamespaceMembers` |
| Agent stream (`wizard/stream.service.ts`, `messages/`) | `messages`, a map of sessions per process, Redis flag, mark, log and channel | start, relay chunks, resume, cancel here or elsewhere | an `await` between any two effects; cancellation by three routes | messages settle, successes are complete, cancellations arrive, streams resume | `AgentStream` |
| Attachments (`attachments/`, `resource-attachments/`) | `resource_attachments`, S3 objects, `storage_usages` | upload, remove, duplicate with a resource, backfill sizes | a removal reads and refunds without a lock; a backfill charges whom it finds | who uploads pays once and is refunded once | `Attachments` |
| Chunked callbacks (`wizard/chunk-manager.service.ts`, `internal.wizard.controller.ts`) | S3 objects, timers | store, assemble, deliver, clean up; a whole upload instead | keys name the task, not the attempt; the clean-up comes a minute later | what is delivered is of one attempt and complete | `ChunkedCallback` |
| Processors and retry (`wizard/processors/`, `resource-retry.service.ts`) | the text of a resource, its attempts | report, write the text or a placeholder, follow up, retry | a user edits meanwhile; a process dies between storing and writing | no edit is lost to a retry, no attempt repeated, always one left | `Reading` |
| Search index (`search/`, `tasks/wizard-task.service.ts`) | an index outside; tasks that bring it up to date | emit on every change, withdraw, refresh one or all | tasks carry old texts and run in any order | at rest the index has what lives, as it is | `SearchIndex` |
| Quotas of feed folders (`rss/rss-folders-quota.service.ts`) | none of its own: it counts `resources` | check on create, move, restore | locked here, unlocked there, not at all in a third place | the limit, but for what is not counted | `RssQuotas` |
| Permissions and what depends on them (`permissions/`, `search/`, `shares/`, `shared-resources/`) | global, group and user permissions per resource | level on a resource, on many, of a share | rows and entries are read one after the other while both change; two algorithms for one question | an answer was right at some moment; the climb ends | `ResourceAccess`, in part `NamespaceMembers` |
| Smart folders (`smart-folders/`) | `smart_folder_configs` and a resource each | create, change of scope, delete, restore; matching on reading | restores count without the lock creations take; an update writes back what it read | quota kept, but for what is not counted | `SmartFolders` |
| Sign-in (`auth/`, `user/`) | `users`, `user_bindings`, pending emails, the screen of a scan | sign in by Google, Apple, WeChat, phone, email; bind, unbind, update, migrate, delete | look up, then link, bind or register in separate steps | a login is always the same account, leads somewhere, and nobody loses the last | `Identities` |
| One-time codes (`auth/otp.service.ts`) | cache entries: a code and its tries, a count of sends | send, type, follow the link | a record is read and written back whole | a code is accepted once, tries and sends are limited | `OneTimeCodes` |
| OAuth provider (`auth/oauth-provider/`) | codes and tokens in the cache, pairwise subjects | authorize, exchange, userinfo, revoke | first calls race for a subject; a code is read before it is deleted | one subject for one user and client, one token for a code | `OAuthProvider` |
| Keys and bots (`api-key/`, `applications/`) | `api_keys`, `applications` | create, delete, the callback that gives a bot its key | no transaction anywhere; an entity is saved as it was read | bots keep their key, nobody else does | `AccessKeys` |
| Settings of shares (`shares/`) | `shares` | open, close, protect; close with the account | a whole entity is read, changed and saved | as last asked for; of an account that is there | `Shares` |
| Conversations (`conversations/`, `messages/`) | `conversations`, `messages`, an index outside | post, answer, remove, restore, title by the user or a task | answers end after their conversation; the index is told by tasks | what can be found is there, and what the user called it stays | `Conversations` |
| Tags (`resource-tags/`, `tag/`) | `tags`, a list of ids per resource | add, remove, rename, replace, extract | a list is read, altered and written; no name is unique | a resource carries what it was given, once | `ResourceTags` |
| Manual order (`namespace-resources/resource-sorting.service.ts`) | a rank per resource | initialize, reorder, move into a place | a user orders what they see among what they do not | the order last given is the order | `ManualOrder` |
| Database connections (`app/app.module.ts`, `utils/transaction-utils.ts`) | the pool of a process | begin, statement, lock, commit | a statement outside its caller's transaction takes a second connection | a process never halts | `ConnectionPool` |
| Everything else | | | single-row writes under a unique index, calls out, formatting | | not modelled |

How they interact: every service emits rows into the task queue inside its own
transaction, and the result of a task is written back to resources by the
callback. RSS folders are resources; the poller inserts resources under them,
exempt from storage charges. Removing a member trashes their tree; deleting an
account ends memberships and cancels tasks. The stream writes messages and, for
their index, emits tasks. `PROJECT.json` lists every part with its sources and
its status, and the hazards, each at the line where it bites.

## Modules

| module | what it is |
| --- | --- |
| `TaskQueue` | the queue, one action per SQL statement |
| `TaskQueueProps` | its properties, its fairness, the refinement |
| `TaskLifecycle` | what the queue promises: the abstract specification |
| `TaskQueueProofs` | proofs about `TaskQueue` |
| `ResourceStorage` | charges and trash |
| `ResourceTree` | parents and names |
| `ResourceAccess` | who may see what of the tree; it extends `ResourceTree`, whose steps are its own, with entries and a reader |
| `ResourceTreeProofs` | proofs about both |
| `RssFolders` | subscriptions, copies and the transaction that edits a folder |
| `RssPolling` | the poller; it extends `RssFolders`, with which it shares rows and locks |
| `RssPollingProofs` | proofs about both |
| `NamespaceMembers`, `MemberProofs` | members, roles, roots, access, and proofs |
| `AgentStream` | sessions, messages, cancellation |
| `Identities`, `OneTimeCodes`, `OAuthProvider`, `AccessKeys` | accounts: logins, codes, clients, keys |
| `IdentityProofs` | proofs about `Identities` |
| `Attachments`, `ChunkedCallback`, `Reading`, `SearchIndex` | what follows a resource: its attachments, the results of tasks, its text, the index |
| `RssQuotas`, `SmartFolders` | the quotas of feed folders and of smart folders |
| `ResourceTags`, `ManualOrder` | the tags of resources, and the order given by hand |
| `ContentProofs` | proofs about storage, chunks, tags, the quotas, attachments, reading, the index and the order by hand |
| `Conversations` | what is said, what is found of it, and its title |
| `StreamProofs` | proofs about `AgentStream` and `Conversations` |
| `Shares` | the settings of a share; what it shows is in `ResourceAccess` |
| `ConnectionPool` | the connections that requests and background runs of one process share |
| `AccountProofs` | proofs about codes, clients, keys, shares and connections |
| `MC*` | instances: values of constants, symmetry. `MCAccounts`, `MCContents` and `MCAgentStream` put modules that share no state side by side: the variable `part`, chosen in the initial state, says which one a behaviour is about. In `MCRssPolling` it says which instance |

In each module the operations that begin with *A fault of X* are not part of
the specification. They are `X` with a plausible mistake in it, and
`PROJECT.json` names, for every property of every passing run, one that breaks
it: so each property is known to depend on the code it is about.

### Conventions

* A request is cut where the code awaits something others can see: after an
  unlocked read, after a write that takes a lock, and at the commit. A
  transaction that locks what it reads before it reads it is one step, and so is
  a single conditional `UPDATE`.
* Where the code has a race that no test or comment excludes, the model has it
  too, and a *history* variable (`stale`, `mixed`, `loose`, `late`, `lapses`,
  `effects`) records that it happened. The property then says: this is the only
  way things go wrong. It is stated as an exception of the property, never as a
  guard of an action.
* Any request may be refused or aborted; permission checks are therefore left
  out unless a property is about them.
* Times are ages in ticks, capped where comparisons stop telling them apart.

## Runs

Every bound has a name in the module and a value in the `.cfg`. State counts are
distinct states.

| run | instance | shows | states |
| --- | --- | --- | --- |
| `TaskQueue_conditional` | 2 tasks, 2 workers, 2 handlers, 2 attempts; bulk cancellation, rerun, delete | `RowsCoherent`, `AppliedAtMostOnce`, `NeverStranded`, `NeverReopened`, and that the queue implements `TaskLifecycle` | 97,407 |
| `TaskQueue_unconditional` | 1 task, 2 workers, 2 handlers; single cancellation, start, account deletion, which save whole entities | `TypeOK`, `OnlyOwnerPersists` | 1,177,170 |
| `TaskQueue_parallel` | 3 tasks, 2 workers, 2 handlers, limit 1, heartbeats in time | `OvershootBounded`, `ExclusiveExecution` | 482,157 |
| `TaskQueue_liveness` | 2 tasks, 2 workers, each polling for the function of one, 1 handler, fairness | `EventuallySettled` | 18,092 |
| `TaskQueue_account` | 1 task, account deletion | **violated**: `CanceledNeverRuns` | – |
| `Contents` | nine parts. Storage: a legacy file and an rss item, sizes 0 and 1. Attachments: a page and its copy, 2 objects, 2 users, 4 requests. Reading: 3 attempts, 1 edit, 2 retries. Chunks: workers with 3 and 2 chunks, each sending twice. Index: 1 document of 2 texts, 3 tasks. Feeds: 2 feed folders, 1 folder, limit 1, 4 requests. Smart: 2 smart folders, 2 users, limit 1, 4 requests. Tags: 2 resources, 2 names, 3 rows, 4 requests. Order: 3 resources, 3 folders, 4 requests. 2 requests at once everywhere | `ContentExact`, `UploadExact`, `AttachmentsPaid`, `RetriesSound`, `ResultsWhole`, `IndexAgrees`, `QuotasRespected`, `TagsKept`, `OrderKept` | 839,664 |
| `RssPolling` | two parts, each with 2 workers, 1 folder, 2 texts, 1 fault. Edits: 1 editor, 2 links, 1 entry. Siblings: no edits, 1 link, 2 entries (one is parsed) whose parses do not fail | `TypeOK`, `CopiesSound`, `WorkersSound` | 871,120 |
| `RssPolling_strays` | the same | **violated**: `OneResult` | – |
| `RssPolling_delivery` | 1 worker, 1 link, 1 editor, 2 entries, 1 fault, fairness | `EventuallyDelivered` | 64,288 |
| `ResourceTree` (of `ResourceAccess`) | 4 resources, 2 names (one of them empty), 2 handlers, 1 reader, 2 requests served at once, 3 commits, 2 entries that change, 2 shared folders | `Acyclic`, `NamesUnique`, `ReadersServed` | 910,614 |
| `Accounts` | seven parts. Members: 3 users, 3 commits. Identities: 3 people, 5 logins of 4 providers, 1 email, 3 visits. Codes: 2 codes, 5 requests, 2 tries, 2 sends. OAuth: 2 users, 1 client, 2 grants, 4 calls. Keys: 3 keys, 2 applications, 5 requests. Shares: 1 share, 2 users, 3 requests. Pool: 3 requests of any kind, 2 connections. 2 requests at once elsewhere | `OneOwner`, `MembershipsWhole`, `OwnerKeepsAccess`, `LoginsSound`, `SameAccountAgain`, `CodesAreSpent`, `SubjectsStable`, `GrantsFollow`, `PoolServes` | 908,770 |
| `AgentStream` | two parts. Stream: 2 processes, 2 sessions, in turn or at once, 1 cancellation, 1 message of 1 delta. Conversation: 2 messages, 2 requests at once, 4 requests and refreshes in all | `MessagesSound`, `CancelsTakeEffect`, `Resumable`, `ConversationKept` | 3,097,675 |

Why the bounds are enough. The races are between two requests: two handlers (or
two workers, or a worker and an editor) meet in every order, and a third request
is a sequence that a freed handler runs. Two tasks are a parent and its
follow-up, or an attempt and its rerun; three are needed for an overshoot. One
retry is enough for both sides of the limit. A cycle needs two moves, and a
third commit to build on it. A second session of a conversation meets what the
first left behind, and one that runs beside it what the other leaves for it;
nothing of a third would be new. A cancellation that spares a session needs two
at once. Size 1 tells a charge from
none. A third attempt is a retry of a retry. A code that is sent again while the
first is tried needs two codes, a subject that is asked for twice needs two
tokens of one client. Chunks left by a longer result need two lengths. A quota
of one is exceeded by two arrivals, and a third request moves or restores what
they counted. A limit of three visits lets a person sign in, sign in otherwise
and delete the account. A resource with two tags of one name needs two rows, and
a rename a third. An order that names some of three resources leaves one alone
between two others. Three tasks of one document are the index of a text, its
removal, and one that overtakes or is late. Of two messages one follows the other. Two users of a share
are who closes it and who changes it meanwhile; the deletion of an account is
not counted. With two connections two nested transactions halt a process, and a
third request is who waits behind them; what matters of the pool's size is that
requests can fill it. The proofs below lift what they cover to all values.

`CHECK_DEADLOCK FALSE`: clients need not send anything, sessions end, commits
and faults are bounded, so a state without a step is normal. The deadlock the
code could have are invariants: of row locks among pollers and edits in
`WorkersSound`, of connections in `PoolServes`.

### The two violations

* `CanceledNeverRuns`. `confirmAccountDeletion` says "Cancel pending tasks"
  (`src/src/user/user.service.ts:922`) and sets `canceledAt` alone (line 926). A
  poll selects by status, so the task still runs; nothing cancels it later, as it
  has a `canceledAt`.
* `OneResult`. `storeItems` awaits `Promise.all`
  (`src/src/rss/rss-polling.service.ts:337`). When one entry of a batch throws, the
  poll is failed (line 261) and the others go on: a parse of theirs is written
  (line 428) beside the next poll, which may have parsed the same row, though the
  comment at line 371 says "no two polls parse the same row". A copy then ends with a
  text that is not the row's, though "every copy of it ... is built from this one
  result" (line 402). Two entries of one guid in one fetch, which no run has, do the
  same without a failure: they are parsed side by side, and the `ON CONFLICT` the
  comment at line 345 counts on settles the insert and not the parse.

## The models, one by one

### The task queue (`TaskQueue`)

Work that takes long (parsing a file, indexing, generating a title) is a row of
the table `tasks`. Wizard workers poll for rows, refresh a heartbeat while they
work and report the result in a callback; clients cancel, rerun and delete
tasks; a cron job fails tasks that were scheduled too often.

| TLA+ | code |
| --- | --- |
| `task[t]` | a row: status, whether startedAt, endedAt, canceledAt, deletedAt are set, age of lastHeartbeat, workerId, numSchedules |
| `source[t]` | retriedFromTaskId, and payload.parent_task_id of follow-up tasks |
| `req[h]` | what the handler of one request still remembers at an await |
| `runs` | executions handed to a worker (external) |
| `effects[t]` | history: how often the processors ran for the task |
| `Emit`, `Rerun`, `Dispatch` | `emitTask`, from a client, `rerunTask`, and the follow-ups of a callback |
| `BeginPoll`, `Select`, `Claim`, `ClaimLost` | `getNextTaskV2` with `listNamespacesAtParallelismLimit`: the count per namespace, the selection; `claimTask`: the conditional `UPDATE` |
| `Heartbeat` | `updateHeartbeat` |
| `BeginCallback`, `Persist`, `Hook`, `Postprocess`, `Dispatch`, `DispatchDone` | `taskDoneCallback`: the ownership check, the conditional `UPDATE`, the pro hook, the processor, the next tasks |
| `BeginCancel`, `BeginStart`, `Load`, `Save`, `SaveStarted` | `cancelTaskOrFail`, `startTask`: read, and TypeORM's `save`, which reads again and writes what differs |
| `BulkCancel`, `DeleteAccount`, `Delete` | `cancelResourceTasks` and `cancelUserTasks`, `confirmAccountDeletion`, `delete` |
| `Reap` | `failTasksExceedingScheduleLimit`, from the cron job |
| `Tick`, `EndRun`, `Abort` | time, a worker that dies or forgets, a handler that fails |

What the runs show. With conditional updates alone, rows stay coherent, a result
is applied at most once however often it is reported, no open task gets out of
reach of both the polls and the reaper, and settled tasks stay settled; the
whole is a refinement of `TaskLifecycle`. The operations that save whole entities
(`cancelTaskOrFail`, `startTask`) are in a run of their own, as they break most
of that: a finished task can become canceled, and a save over a claim can strand
a task. What remains true, and is checked there, is that only the owner's report
is stored. Parallelism limits are overshot by less than the number of requests
served at once.

Fairness (`TaskQueueProps!Fairness`), and why: time passes and a due execution
ends (`Tick` is strongly fair because in-flight polls bound the age of their
cutoff, and so disable it); the cron job runs every minute; every worker polls
for ever, so that each function has one that asks for it (`Serves`); a poll that keeps finding candidates selects and claims one at last, which
is the one strong assumption about the scheduler; and handlers go on. Nothing is
assumed of clients, heartbeats or reports.

### Storage accounting and trash (`ResourceStorage`)

`charged[r]` splits the sum that `storage_usages` has per user by the resource
each adjustment was for, so that no drift hides behind another.

| TLA+ | code |
| --- | --- |
| `row[r]` | a resource: live, in the trash, purged; `content_size` and the length of the content |
| `file[f]` | the recorded size and the length of the S3 object |
| `Create`, `Update`, `Delete`, `BatchDelete` | the same in `resources.service.ts`, each with its own computation of the charge |
| `BeginRestore`/`Restore`, `BeginPurge`/`Purge`, `PurgeAll` | `restoreResource`, `hardDeleteResource`, `hardDeleteAllTrash` |
| `BeginBackfill`/`Backfill`, `BeginBackfillFile`/`BackfillFile` | `recalculateContentSizes`, `recalculateFileSizes`: read, measure, guarded `UPDATE`, charge |
| `Upload` | the presigned form of `s3.service.ts` |

`stale` collects rows whose content was charged from a stale read, and `mixed`
rows whose file was adjusted by sizes of two origins (recorded, and asked of
S3). Both do happen: two restores that read the row in the trash both charge it,
and a purge can race a restore, as `restoreResource` clears `deleted_at` by id
without asking whether it is set (`src/src/resources/resources.service.ts:1132`).
`ContentExact` and `UploadExact` say that there is no third way to be wrong.

### The resource tree (`ResourceTree`)

| TLA+ | code |
| --- | --- |
| `row[r]` | state, parent, name |
| `req[h]` | a request between its checks and its commit, with what it locks |
| `BeginCreate`/`Create`, … | create, rename, move, batch move, restore; the foreign key's lock on a new parent |
| `Chain` | `getParentResources` |
| `Taken` | `isNameExists`, and the same question in batch moves and restores |
| `Conflicts` | `checkNameConflict`, which creation, rename and move call: nothing is looked for when the name is empty (`Unnamed`) |
| `loose` | history: rows whose place, or name, was written although another commit had overtaken the check |

A move locks its own row and reads the chain of its target without a lock: two
moves, each fine alone, can make a cycle. A name is checked and written later,
and no unique index stands behind it; `restore` even moves the row in a write of
its own before any check (`src/src/namespace-resources/namespace-resources.service.ts:1720`).
Empty names are never looked for by a creation, a rename or a move, so two siblings
may both have none; a batch move and a restore do look for them.
`Acyclic` and `NamesUnique` say that, but for rows in `loose` and the empty name, neither goes
wrong, and in particular that two batch moves, which lock the namespace row,
never need that excuse.

### What a user may see (`ResourceAccess`)

It composes the steps of `ResourceTree` with permissions and one reader.

| TLA+ | code |
| --- | --- |
| `entry[source][r]` | `resources.global_permission`, `user_permissions`, `group_permissions` of one user and their group; which rung is asked for is fixed, so an entry allows or denies |
| `reader` | a request that asks for a resource: the rows read, and what was found |
| `BeginCheck`, `BeginFilter`, `BeginList` | `userHasPermission`, `permissionFilter` (tags, queries, recent), `getAllResourcesByUser` |
| `ReadRow`, `ReadRows` | `getParentResources` and `batchGetParentResources`; `getAllResources` |
| `Refused`, `ReadEntries`, `Found`, `Answer` | exceptions; the queries of the entries; `getCurrentPermission`, `getCurrentPermissions` |
| `SetEntry` | updates and deletions of entries |
| `Allowed` | what one would answer who sees all at once |

Every row and every table is read by a statement of its own, also in the
transaction of `getCurrentPermissions`, which is READ COMMITTED. `AnswersHold`, the first part of `ReadersServed`,
says that one commit in between, of whatever kind, does no harm as long as every
row stands where its place had been checked: the answer is that of before or
that of after (`Followed`). Two do: read the row of `c`, still in folder
`a`; let `c` be moved out of `a`, and `a` be opened to the user; read `a`: the
user sees `c`, which was theirs to see at no moment.

The climb of `getCurrentPermissions` ends because the rows form a tree. The
check of one resource throws when its way comes back to a row
(`CYCLE_DETECTED`), the batch does not: `while (true)` at
`src/src/permissions/permissions.service.ts:238`. `ClimbEnds`, its second part, says that one
commit cannot bring that about. Two can, although the tree is one all the time:
read `c` in `a`, then `c` is moved to the root and `a` into `c`, then `a` is read
in `c`. As the loop has no `await`, the process serves nobody any more.

The second excuse, `knotted`, is about rows whose place nobody had checked (the
`loose` of `ResourceTree`). They can make a circle of the tree, and then no climb
ends. They can also make one commit as harmful as two: let a batch be about to
move `a` and `b`, of which neither hangs off the other, and a move that does not
lock the row of the namespace put `b` below `a` meanwhile. The batch then takes
two rows of one way to new places at once, and a reader who is between them puts
together a way that never was. The proof of `ReadersServed` did not go through
without this excuse, and an instance larger than the one checked before showed
why.

The two algorithms disagree on purpose or not when a folder above is in the
trash: the check refuses, and so does the listing of all ("otherwise it's
considered deleted", `src/src/resources/resources.service.ts:562`); the filter
goes by the entries below the folder. `AnswersHold` is about filters of resources
that hung off the root all the time, and leaves the others out.

Two readers serve visitors of a share. `getAndValidateResource` reads the
parents of a resource and shows it when the shared folder is among them;
`batchGetResourcePath` does so for many, from the rows it has loaded. `Shared`
are the folders that may be shared, all at once, and `SharesHold` says of each
what `AnswersHold` says of permissions. The path that is returned is built by
`while (last(path).id != share.resourceId)`
(`src/src/shared-resources/shared-resources.service.ts:221`), which no bound
ends either: `PathEnds` says when it does, with the exceptions of `ClimbEnds`.
Shares of smart folders take another way and are not modelled. The four
statements are together `ReadersServed`.

### RSS (`RssFolders`, `RssPolling`)

One feed url stands for all, as urls share nothing.

| TLA+ | code |
| --- | --- |
| `link`, `folder`, `copies` | `rss_links`, the folder, live `rss_item` resources of (link, guid) |
| `share`, `edit[e].locked` | `FOR SHARE` by pollers, `FOR UPDATE` by edits |
| `poll[w]`, `latest` | a call of `pollUrl` with its `rss_polls` row; the newest row |
| `content[g]` | `rss_item_contents`: snapshot, parsed text, attempts, backoff |
| `ListUrl`, `Claim`, `Skip` | `pollDueLinks`, `claim` under the advisory lock |
| `Fetch`, `StoreItem`, `Parsed`, `ParseFailed`, `ItemsStored` | `pollUrl`, `storeItems`, `parseItemContent` |
| `StoreFails`, `Strays(w)` | an entry throws (`Promise.all`), and its siblings that go on after the poll has failed |
| `contested` | articles of which two parses were under way at once, of one fetch or beside a stray |
| `ReadLinks`, `ReadFolders`, `ReadCopies`, `CheckLink`, `InsertItem` | `linkItems`, `subscriptionIsLive` |
| `BeginEdit` … | the transaction of `RssFoldersService.update` |

A poll counts as dead after `POLL_STALE_MS`, but may only be slow; then two
workers run. The run shows that even so an article gets one copy under a
subscription, no copy hangs off a dropped one, and all copies have one text
(`CopiesAgree`), but for contested articles: those for which a parse that a failed poll
left behind, or another entry of the same fetch, was under way when the text was
written. It
also shows that the order in which an edit takes its locks (links before the
folder) excludes a deadlock with the poller, and that one worker at a time has the url
(`WorkersSound`), but for a poll that was taken for dead. The statements about
copies are together `CopiesSound`; `OneResult` is `CopiesAgree` without the
reservation, and fails, see above. A deadline that did not bound the start of parses would
break `CopiesAgree` itself.

Fairness: the clock and the cron go on, the worker's statements return, an edit
that began ends; a fetch of the whole feed in time, and a parse, succeed
eventually if tried for ever (a feed that is always down delivers nothing). `Tick`
waits for a parse that saw a tick already: the code has a timeout for parses
(`WIZARD_PARSE_TIMEOUT_MS`) well below the window that is the unit.

### Membership (`NamespaceMembers`)

Each operation is one READ COMMITTED transaction that locks nothing it reads:
first checks, writes with the checks after them, and commit are three steps, and
between the last two the written rows are locked.

| TLA+ | code |
| --- | --- |
| `role[u]`, `root[u]`, `access[u]` | the member row, the private root, the permission on the teamspace root |
| `BeginAdd`/`Place`/`WriteAdd`/`Add` | accepting an invitation, `createOrRestorePrivateRoot`, `addMember` |
| `BeginRole`…, `BeginRemove`…, `BeginTransfer`… | `updateMemberRole`, `deleteMember`, `transferOwnership` |
| `BeginDelete`…, `BeginAccount`… | `delete`, `confirmAccountDeletion` |
| `BeginGrant`/`Grant` | `updateUserPermission` |
| `late` | history: operations that committed on what another had changed after their last look; "self" |

`OneOwner`, `MembershipsWhole` and `OwnerKeepsAccess` list, one by one, the overtaken operations that break them. That
list is the result: for example only an overtaken transfer, removal, change of
role or account deletion, or a transfer to oneself, leaves a namespace without
exactly one owner. A transfer to oneself needs no second request: it writes
owner and then admin (`src/src/namespaces/namespaces.service.ts:950`). `OwnerKeepsAccess` is about what an
owner has, not about how they came by it: `transferOwnership` changes roles and no
permission, so a member who joined with less than full access owns the namespace
with as little.

### The agent stream (`AgentStream`)

A session relays the wizard's chunks of one answer: number it in Redis, store
it in PostgreSQL, append it to the Redis log, hand it to the subscribers.

| TLA+ | code |
| --- | --- |
| `sess[s]` | a `StreamSession` with the step its reader and its `stopSession` are at |
| `active`, `flag`, `seq`, `log` | the Redis keys `:active`, `:cancel`, `:seq`, `:events` |
| `listening`, `told` | subscriptions to `:control`, and messages under way |
| `rows[m]` | `messages`: status and number of deltas; `given` counts those accepted |
| `StartSession`, `ClearLog`, `MarkActive`, `Subscribe` | `startAgentSession`, `startRedisSession` |
| `Receive`, `Insert`, `Load`, `Save`, `Publish` | the callback, `addNextEventId`, `agentHandler`, `create`/`update`/`updateDelta`, `sendSessionData` |
| `EndStream`, `Quit`, `CleanUp` | the end of the reader, `completeSession`, `cleanupRedisSession` |
| `StopFind`, `StopSave`, `StopEnd` | `stopSession`, `stopRunning` |
| `Cancel` …, `Hear` | `cancelAgentStream`, the control channel |

Two arguments stand behind the steps. A process talks to Redis over one
connection, first in first out: so a chunk that passed the check of the flag has
its number before a stop that begins later, and a session's clean-up, which
nobody awaits, still goes before the commands of the process' next session.
`Receive` and the guard of `ClearLog` are these two facts. Across processes
neither holds: the map of sessions is per process
(`src/src/wizard/stream.service.ts:593`), so each process can run one of a
conversation. `StartSession` asks for no more than that its own process runs none.
What settles a message and what resumes a stream is about sessions that start when
the one before has nothing left to do and that no other joins (`alone`), and the
runs show in what else they may fail: a
delta saved over a stop leaves a message streaming for ever, as does one inserted
after the stop looked for it, or a stream that ends early (`lapse` of a row); the start
of a session deletes a cancel flag set just before ("cleared"); a session that is
stopped while it starts marks itself active when it is over ("ghost").

Cancellation is about all sessions, alone or not. One that reaches a process
without a session of the conversation is published and stops every session that
listens. One that finds a session in its own process stops that one and returns
(line 1041): a session of another process is spared ("spared"), whether or not
it listens. It is stopped by the flag at its next chunk, if one comes, as long as
no session that starts deletes the flag. `CancelsTakeEffect` says so of every
session that listened when a cancellation began, once all cancellations and
stops have run their course. The other statement without a hypothesis on the
other sessions is that a success holds all its deltas.

Within these limits a message settles, a success has all its deltas although
deltas for a stopped message are dropped, and the log holds what subscribers
heard. An error that comes when no message is open is relayed and stored nowhere.

### Conversations (`Conversations`)

| TLA+ | code |
| --- | --- |
| `talk`, `saying[m]` | the row of `conversations`: removed, title; a row of `messages`: open, settled or removed, with a text or not, the parent |
| `talker[h]` | a request that has checked that the conversation is there |
| `found`, `chores` | the index of messages (external), and the tasks that keep it |
| `BeginSay`/`Say`, `Speak`, `Settle`, `RemoveSaying` | `create`, `updateDelta`, `update` and `remove` of `MessagesService` |
| `BeginRemoval`/`RemoveTalk`, `BeginReturn`/`ReturnTalk` | `remove` and `restore` of `ConversationsService` |
| `BeginTitle`/`GiveTitle`, `BeginMake`/`MakeTitle` | `update`; `createTitle`, which asks the wizard in between |
| `BeginRecall`, `Recall` | `refreshMessageIndex`, and the direct synchronisation |
| `StartChore`, `DoChore`, `FailChore` | the order of `getNextTaskV2`, and workers |

What `ConversationKept` leaves out is what the code lets happen. An answer that
ends after its conversation was removed is indexed and stays findable; so does a
message that is removed on its own, for which no task is emitted, and one that
follows it makes `compose` throw
(`src/src/conversations/conversations.service.ts:113`), on which the list of
conversations depends. `restore` looks the conversation up as the other requests
do, among those that are not removed, so that it brings back only one that is
removed between its check and its transaction; what was written in between is
not indexed again. A title that is being made when the user gives one replaces
it.

### Accounts (`Identities`, `OneTimeCodes`, `OAuthProvider`, `AccessKeys`, `Shares`)

| TLA+ | code |
| --- | --- |
| `person`, `binding` | `users` with their email, live rows of `user_bindings` |
| `visit[v]` | a request and where it is: `lookup`, `link`, `bind`, `register`, `touch`, … The `After` operators say what a provider does when a lookup finds nothing |
| `mishaps` | history: an unbind, a change of email, a migration, a session of a deleted user, a stale write, that acted on what another had changed |
| `told` | whom each login and email was last answered with |
| `BeginSend`, `CountSend`, `Store` | `sendOTP`, `checkRateLimit`, `generateOtp` |
| `BeginVerify`/`Verify`, `BeginMagic`/`FollowLink` | `verifyOtp`, `verifyMagicToken`, and the scheme of `bindPhone` |
| `Authorize`, `BeginExchange`/`IssueToken`, `BeginUserinfo`, `LookupSubject`, `InsertSubject` | the authorization code, the token, `PairwiseSubjectService` |
| `share`, `update[h]` | the row of `shares`; a request between reading and saving it |
| `BeginSetting`, `Compare`, `Insert`, `WriteShare`, `DeleteHost` | `updateShareInfo`, TypeORM's `save`, which reads again and writes what differs, and `confirmAccountDeletion` |
| `CreateApplication`, `BeginCallback`, `CheckCallback`, `InsertKey`, `SaveApplication`, … | `applications`, `bot-base.ts`, `api-key.service.ts` |

What holds without exception: a client knows a user by one subject, as the
unique index decides and the loser of two inserts reads again
(`SubjectsStable`); and one code gives two tokens only if both exchanges read it
before either deleted it. The other properties name what breaks them. A code is
accepted twice, or tried more often than it may be, when a second request wrote
back the record it had read (`blurred`): the cache has no compare-and-set. The
last login (`LoginsSound`) goes when two unbinds each counted the other's
(`src/src/auth/social.service.ts:159`). A binding leads nowhere when it is made
from the session of a user who has been deleted meanwhile. A bot loses its key, or leaves one
behind, when its callback saves an application that was read before a deletion
(`crossed`). A share is saved with all that was read of it, so a request that
changes one setting can open again what another, or the deletion of the
account, has closed, or take a password off (`torn`): `SharesAsAsked` says that
only a save that was overtaken does so. Of two requests that make the first row
one fails, as the index on the resource allows one.

### Connections (`ConnectionPool`)

A transaction keeps a connection until it ends, and a statement that is not
given its entity manager takes one of its own. `src/src/app/app.module.ts` sets
neither the size of the pool nor a limit to waiting: ten connections, and a wait
without end. `Program` has, for each kind of request, the sequence of what it
may have to wait for: `"begin"` and `"ask"` a connection, `"write"` the locks of
other transactions. A write takes advisory locks, those of the rows it changes
and, by the foreign keys, those of the rows it names (a resource its parent and
its namespace, for instance), and no order on them keeps two transactions from
waiting for each other: two opposite moves do. So the model leaves open for
which others a transaction waits, and PostgreSQL, which looks for a circle of
waits, ends one transaction of it (`BreakCircle`). The locks of which the code
does say an order, links before folders, are those of `RssPolling`.

| TLA+ | code |
| --- | --- |
| `Program` | which statements of a request run inside its transaction, and which outside |
| `inside`, `asking`, `queue` | connections in use, and the line of those that wait |
| `awaits` | for whose locks a transaction waits |
| `Connect`, `Answered`, `Write`, `Wait`, `BreakCircle`, `CommitAll`, `Rollback` | the pool, PostgreSQL and `transaction` |

`PoolServes`: when no transaction can go on, and there is no circle of locks to
break, one of them waits for a second connection. PostgreSQL sees no waits for
connections and breaks nothing then. So a process halts, and for ever, when as many transactions of that
kind (create, edit, move, quotas, tags) begin as there are connections; or when
one batch move holds the row of a namespace, the others wait for that row with a
connection each, and it asks for a second. Polls, what they insert, and edits of
feed folders never cause it, whichever locks they hold.

### What follows a resource (`Attachments`, `Reading`, `ChunkedCallback`, `SearchIndex`)

| TLA+ | code |
| --- | --- |
| `attached[p]`, `stored`, `paid[p][u]` | `resource_attachments`, objects in S3, and the usage split by attachment and user |
| `BeginAttach`/`Attach`, `BeginDetach`/`Detach`, `Duplicate`, `BeginMeasure`/`Measure` | `uploadAttachment` and `addAttachmentToResource`, `removeAttachmentFromResource`, `duplicate`, `recalculateAttachmentSizes` |
| `body`, `attempts[j]` | the text of a file or link by who wrote it, and its tasks |
| `Report`, `Process`, `Dispatch`, `Drop` | `taskDoneCallback`: the stored result, the processor, the follow-ups, and a process that dies in between |
| `BeginRetry`, `PlanRetry`, `ClearStale`, `EmitRetry`, `FailRetry` | `ResourceRetryService.retry` |
| `chunk[i]`, `whole` | S3 objects of a task, by who wrote them |
| `StoreChunk`, `AssembleChunk`, `DeliverChunks`, `CleanUp`; `UploadWhole`, `FetchWhole`, `DeliverWhole` | `storeChunk`, `assembleChunks`, `handleChunkCallback`, `performCleanup`; `uploadedTaskDoneCallback` |
| `document[d]`, `index[d]`, `orders` | a resource with its text, what the wizard has of it, the tasks for it, by number |
| `Queue`, `Withdrawn`, `Dispatched`, `Start`, `Perform` | `emitTask`, `cancelResourceTasks`, the order of `getNextTaskV2`, the worker |

`AttachmentsPaid`: a removal refunds the size it read to the one who removes,
whoever paid, so two removals refund twice, and a removal by another moves the
charge; and a backfill charges for a row that was removed meanwhile, while
nobody pays for a page that is in the trash at the time. These rows are
`crossed`; there is no other way to be wrong. In particular the guard
`attachment_size IS NULL` keeps two backfills from charging twice. Objects of
uploads that fail stay in S3 and are not charged.

`RetriesSound` has three parts. A retry erases nothing but the placeholder of a
failure, except a text that was changed between its read and its write
(`clearStaleErrorContent` writes by id). No attempt is replaced twice, except by
retries that did not see each other's. And when nothing runs any more, a file or
link without a text can be retried, although a process may have died between
any two steps; what a user may do about it is delete the failed task that the
placeholder is of, and then nothing is left to retry.

`ResultsWhole`: with one sender at a time, what reaches the callback is all of
its result, whatever an earlier attempt left under the same keys and whichever
timer fires: an early clean-up makes an assembly fail and never mixes it. Two
workers on one task at once do replace each other's chunks, and a payload of
both can be delivered: they are `disturbed`.

`IndexAgrees`: when no task for it is left, the index has the text of a live
resource and nothing of a trashed one, provided its tasks ran one by one in the
order they were emitted in. That order is nobody's promise: a removal has
priority 1 and an upsert 5, one poll in five takes the oldest first, and several
workers run. A resource that is trashed and restored can drop out of the index
and stays out until it is edited. A text that becomes empty emits no task, so the
index keeps the old one, and a refresh of all reads pages that get old. Such
documents are `astray`.

### Quotas (`RssQuotas`, `SmartFolders`)

| TLA+ | code |
| --- | --- |
| `place`, `stage` | the parent of each feed folder and folder; live, in the trash, or not there |
| `BeginCreate`, `BeginMove`, `LockFree`, `Check`, `Write` | `create`, `assertMoveQuota`, the advisory lock of a root, the count, the commit |
| `BeginRestoreFeed`/`RestoreFeed`, `RestoreBox`, `Patch` | a restore, checked without the lock; one of a folder with feeds below; an edit that sets a parent |
| `smart[f]` | a row of `smart_folder_configs` with its resource |
| `BeginCreateSmart`, `BeginUpdateSmart`, `DimensionFree`, `Entitle`, `Reseat`, `SaveSmart` | `create`, `update`, the advisory lock, the count, the update of the resource in a transaction of its own, the save of the entity that was read |
| `unchecked[s]`, `uncounted[d]` | history: how many came in without having been counted where they ended |

`QuotasRespected` bounds the excess by these counts, which grow in the ways the
comments on the two properties list and in no others. With the lock two
creations never pass on one free place.

### Tags and order (`ResourceTags`, `ManualOrder`)

| TLA+ | code |
| --- | --- |
| `tags`, `carried[s]` | the table of names, and `resources.tag_ids` with how often an id is in it |
| `change[t]`, `LookUp`, `WriteList`, `Replace` | a request between reading a list and writing it; `getOrCreateTagByName`, the update, and lists that come from a client or a parser |
| `shelf`, `rank`, `since` | `parent_id`, `manual_sort_index`, and `manual_sort_unspecified_at` by its place among all |
| `Above`, `Sorted` | `compareManual`, and what `sortResources` makes of a folder |
| `sorting`, `Begin`, `Sort`, `Commit` | a transaction of `resource-sorting.service.ts`, a folder at a time |
| `Merged`, `AsAsked` | `applyPartialManualOrder`, and what it is for, stated without it |
| `MoveBook`, `TrashBook`, `RestoreBook`, `BeginRescue`/`Rescue` | what others do to the resources meanwhile |

`TagsKept`: a list is written by who read it, and two that change one resource
lose a tag (`crossing`). No index makes a name unique, so two requests that look
for it first make it twice (`twice`). A rename into a tag that a resource
carries already stores its id twice (`doubled`).

`OrderKept`: the transactions lock what they sort, so whatever comes or goes
meanwhile, the order last given is kept. The exception (`loose`) is a restore
whose folder is in the trash: its first write puts the resource below the
user's root with the rank it had elsewhere, and when the request ends there, or
another has restored the resource by then, nothing takes that rank away.

## Proofs

TLAPS checks all proofs, for any number of workers, requests, rows and so on,
from the assumptions on the constants that each module states. Each theorem has
an inductive invariant that is stronger than it; where a conjunct of one was in
doubt, TLC checked it on a run's instance first. A step of the specification is
taken action by action, and under each action conjunct by conjunct of the
invariant.

| theorem | says | invariant and argument |
| --- | --- | --- |
| **`TaskQueueProofs`** | | |
| `TypeCorrect` | `TypeOK` | |
| `ResultsAppliedOnce` | `AppliedAtMostOnce` | `ApplyInv`: an unsettled task has no effect and nobody about to apply it; one handler at most has the right to apply a result and has not used it; what waits to be saved is a canceled entity |
| `SettledNeverReopened` | `NeverReopened` | every write that leaves an open status requires one |
| `OwnerAlwaysPersists` | `OnlyOwnerPersists` | `ReporterOwns`: what a callback read of the row, and what its `UPDATE` asks of it |
| `NoTaskStranded` | `NeverStranded` | `LeaseInv`: a row that waits was never claimed, one that runs was claimed and stamped. `RowWrite` and `RowStep` list every `UPDATE` once, so that this is shown of rows and not of actions |
| `RowsAlwaysCoherent` | `RowsCoherent` | `QueueInv`: with the lease, requests still fit the rows they are about, and a follow-up keeps its cause |
| `ExecutionsExclusive` | `ExclusiveExecution` | `RunsInv`: what an execution was handed is running under its worker with a fresh heartbeat, or settled |
| `OvershootAlwaysBounded` | `OvershootBounded` | `SlotsInv`: tasks executing and handlers about to claim are together fewer than the limit and the handlers; who is about to claim had counted |
| `QueueImplementsLifecycle` | the refinement of `TaskLifecycle`, initial states and steps | `QueueInv` and `EffectsStep`; each action is one of the lifecycle's or a stutter |
| `UnstartedTasksSafe`, `UnstartedTasksExclusive` | of a set `S` of tasks that are never started: results applied once, none out of reach, none reopened; one execution each | the same invariants, each of which is about the tasks of a set: a start writes the row of its own task and no other |
| **`ContentProofs`** | | |
| `TypeCorrect`, `ContentCharged`, `UploadCharged` | `TypeOK`, `ContentExact`, `UploadExact` | each inductive beside the types, thanks to the histories `stale` and `mixed` |
| `ResultsAlwaysWhole` | `ResultsWhole` | `ChunkInv`: the keys of a task hold parts of its one undisturbed sender, as many as it has sent |
| `TagsAlwaysKept` | `TagsKept` | `TagInv`: the property, and what a request has read of a list that nobody has written since |
| `QuotasAlwaysRespected` | `QuotasRespected` | `FeedInv`: who holds the lock of a root, or has counted, has room for what it lets in (`LetIn`). `SmartInv`: likewise for each dimension (`Entitled`) |
| `AttachmentsAlwaysPaid` | `AttachmentsPaid` | `PayInv`: a payer owes the size of a live row (`Owed`), rows are of stored objects, and an object that is being attached is in no row |
| `RetriesAlwaysSound` | `RetriesSound` | `ReadInv`: a text that is a placeholder is of a failed attempt (`BodySound`); what a retry is about to repeat was repeated since only by those it does not know (`PlanFits`) |
| `IndexAlwaysAgrees` | `IndexAgrees` | `InTurn`: of the tasks of a document that are left, only the first is with a worker, one that was withdrawn while a worker had it is not the last, and the last brings what the row says (`Suits`); with none left the index does |
| `OrderAlwaysKept` | `OrderKept` | `RanksTold`: a rank is the place in the list last given to the folder. `DraftTold`: so are those that a transaction is about to write, and it holds the rows. That `applyPartialManualOrder` makes what was asked for is below |
| `ContentsAlwaysSound` | the nine properties of the run `Contents`, of its specification | a behaviour of it is about one part |
| **`ResourceTreeProofs`** | | |
| `TypeCorrect`, `TreeAcyclic` | `TypeOK`, `Acyclic` | `IInv`, below |
| `NamesAlwaysUnique` | `NamesUnique` | `NameInv`: a request that no commit has dimmed still finds the name it checked free of others (`Unmet`) |
| `TreeAcyclicWhileRead` | `Acyclic` of the composed specification | each of its steps is one of the tree or changes nothing there |
| `ReadersAlwaysServed` | `ReadersServed` | `ReaderInv`, below |
| **`RssPollingProofs`** | | |
| `RssTypeCorrect` | `TypeOK` | with `DropsKnown` and `WorkSettled`: an insert finds the entry whose text it needs |
| `WorkersAlwaysSound` | `WorkersSound` | `PollsOrdered`: an older poll that runs is stale; `LocksInv`: an edit that holds the folder holds the links it drops |
| `CopiesStayHeld` | `CopiesSound` but for the texts | `LocksInv`: who inserts holds its link, live, and found no copy under it |
| `CopiesAlwaysSound` | `CopiesSound` | `TextsInv`: a parse of a poll that goes on outlives at most one end of its window, and `Window < Stale`, so that of such polls only the newest parses; any other parse beside it makes the article contested, and what is stored of one that is not is the text that settled it |
| **`MemberProofs`** | | |
| `OneOwnerAlways`, `MembershipsAlwaysWhole`, `OwnerKeepsAccessAlways` | `OneOwner`, `MembershipsWhole`, `OwnerKeepsAccess` | `MemberInv`: a request that is not outdated still knows what it found (`Sound`, `Owned`, `Placed`), as long as `late` names no operation that decides about it; two requests never have written one row |
| **`IdentityProofs`** | | |
| `LoginsAlwaysSound`, `AccountsStayTheSame` | `LoginsSound`, `SameAccountAgain` | `IdentityInv`: one keeper of a login and one login of a provider for each user, one holder of an email, and whom a login was last told, if there still, has it (`ToldHold`) |
| **`AccountProofs`** | | |
| `CodesAlwaysSpent` | `CodesAreSpent` | `CodeInv`: counts of tries and sends as the records have them, while no record was written back (`blurred`) |
| `SubjectsAlwaysStable` | `SubjectsStable` | `OAuthInv`: one row for a pair and one pair for a row, answers are rows, and a code that gave a token is gone or was read by two |
| `KeysAlwaysFollow`, `SharesStayAsAsked`, `GrantsAlwaysFollow` | the parts of `GrantsFollow`, and it of the specification of the run | `KeyInv`, `ShareInv`: until something is `crossed`, or `torn`, what requests have read is as it is |
| `PoolAlwaysServes` | `PoolServes` | `PoolInv`, below |
| `AccountsAlwaysSound` | the nine properties of the run `Accounts`, of its specification | a behaviour of it is about one part |
| **`StreamProofs`** | | |
| `ConversationAlwaysKept` | `ConversationKept` | `IndexInv`, below; `TitleInv`: a title that is being made was asked for when there was none |
| `MessagesAlwaysSound`, `CancelsAlwaysTakeEffect`, `AlwaysResumable` | `MessagesSound`, `CancelsTakeEffect`, `Resumable` | `AgentInv`, below |
| `ChatAlwaysSound` | the four properties of the run `AgentStream`, of its specification | a behaviour of it is about one part |

### Arguments worth knowing

*No circle.* `Acyclic` alone is not inductive: a request under way must still be
right about the tree it checked. `IInv` adds that rows hang off rows that exist
(`TreeShaped`); that what a request is about to move does not contain its
target, as long as nothing has changed its place since the check
(`RequestSound`); and that batch moves, which no history excuses, exclude each
other (`Apart`). `Chain(r)` is defined as a least closed set, so the proof never
needs induction over paths: a set closed after the step is turned into one
closed before it.

*Answers.* What has been read so far says nothing about the answer, so
`ReaderInv` is about what the walk *will* find if nothing changes any more:
`Foreseen`, from the rows read and the way up from the next row as it is now, is
among the answers that were right (`RowsSound`); and when the rows are read, so
is what the entries will tell (`EntriesSound`). Reading a row or a table does not
change what is foreseen. The one commit does, and the proof compares the way
before it with the way after it: a commit changes rows of which no two lie on one
way (`Flat`), so that the walk meets the change at one place at most. A batch move
has this of its rows as long as nothing moved since its check (`BatchFlat`), and
where that fails lies the excuse `knotted`. Ways are unique, which is induction
over their length.

*Pool.* Whoever is inside a transaction waits for a second connection, as only
`Nesting` do (`AsksAreNested`), or for others who are inside one, as `PoolInv`
keeps. If all wait and none for a connection, they are a circle themselves.

*The order that was asked for.* `Merged` is computed from a list and what a user
names of it, `AsAsked` is a choice: some list in which the named stand in their
order and the others where they stood. The proof shows that `Merged` is such a
list, so that there is one, and that there is at most one: of two, take the
least place where they differ; both have a named resource there, and each has
the other's further up, which puts these two in both orders. So the draft of a
transaction holds the choice by its ranks, and a rank stays the place in the list
last given as long as nobody but a transaction with the row in hand writes it.
That a folder may hold rows which nobody named, and some that the user cannot
see, is no hypothesis: they stand where they stood.

*The index of resources.* Numbers are given to tasks as they are emitted, and a
document that is not `astray` has its tasks performed by number. `InTurn` speaks of
the last task of a document only, as every one before it is overwritten; a
withdrawal takes away waiting tasks, and then a removal follows, which is the
last.

*Index of messages.* Of a queue of index tasks one has to know what will be found
when all have run in their order, `Future(chores, found, m)`. `IndexInv` says, as
long as no task overtook another (`crossed`), that this is right *now*, for every
message: emitting a task changes the future as the row changes, and performing
the first one leaves the future alone.

*Answers in a stream.* `AgentInv` has six parts, each of which rests on earlier
ones. `StreamInv`: types, and that what a session, a stop or a cancellation works on
is a message there is. `Lives`: the order in which a session ends; a session that is
alone starts when those before it are gone and is gone when another starts.
`Covering`: a session that a cancellation covers is told, or aborted, or spared, or
the cancellation is still on its way; and the flag stands unless a start took it. `Resuming`: the mark stands while some session
has to take it away, and the log of one that is alone is what it has sent, with
numbers below the counter, which is the number of the event in hand.
`SettlingAll`: a message of such a session that is open is the last one, and the
session is at it, or a stop of the session is about to settle it. `Counting`:
until a start has taken a cancel flag ("cleared"), either the flag is set or
nobody has begun to stop anything, and then every delta that was accepted is in
the text or in hand; once the end is accepted, whoever has read the row has read
all of it.

### Hypotheses

Some theorems do not hold for every use of the system, and say so:

* `NoStart`: clients do not use `start`, whose save of an entity read before can
  reopen a task. For `ResultsAppliedOnce`, `SettledNeverReopened`,
  `NoTaskStranded`, `ExecutionsExclusive`, `OvershootAlwaysBounded`. Single
  cancellation, which saves likewise, is allowed.
  `UnstartedTasksSafe` and `UnstartedTasksExclusive` need less: that the tasks
  they are about are not started (`Unstarted(S)`), whatever is done to others.
* `NoSaves`: neither `start` nor single cancellation nor account deletion. For
  `RowsAlwaysCoherent` and `QueueImplementsLifecycle`: the others leave rows whose
  columns disagree.
* `Timely`: live executions refresh their heartbeats before they are taken for
  dead. For `ExecutionsExclusive` and `OvershootAlwaysBounded`, as in the run.
* `IsFiniteSet(Handlers)`, for `OvershootAlwaysBounded`, whose bound counts them.

`OnlyOwnerPersists`, and everything outside the queue, needs none.

The assumptions on constants are their types, that sets which are counted
(feeds, smart folders, entries, documents, resources in an order) are finite, that values which stand for nobody
are not somebody, and:

* `InitialAssumption`: the tree is a tree to begin with, and the names of siblings
  differ, or are empty;
* `PollAssumption`: a window is shorter than what makes a poll stale (`Window <
  Stale`), as `POLL_STALE_MS` and the time limit of polls are
  (`src/src/rss/rss-polling.service.ts`);
* `BackoffAssumption`: backoffs are numbers and the last is the largest. It is
  true of the powers of two in the code, of which the provers know nothing; TLC
  evaluates it.

### Only model-checked

* Liveness under fairness: the liveness properties of the queue, and
  `EventuallyDelivered`. It is out of the prover's reach, and so is the fairness
  of the refinement, which `TaskLifecycle` does not state.

Every invariant and every action property that a passing run checks is stated by
a theorem.

Induction over data is out of reach where it takes a theorem with an operator
parameter. Where the proofs need one (the number of a step, the length of a way,
of a queue) they take the least number of a set of counterexamples instead: that
every set of numbers that is not empty has a least one is a theorem about sets,
`WFMin` of `WellFoundedInduction`.

## What is not modelled

`PROJECT.json` gives the reason for each part. In short:

* single-row writes that a unique index orders, and calls that change no state
  of ours: notifications, search queries, the open API (which calls the services
  modelled here), the listing of tasks;
* calls to services outside the repository (wizard, billing, mail, SMS, WeChat),
  of which only what comes back is modelled, and the relay of a websocket to
  such a call;
* conversions without state: matching of smart-folder conditions, rendering,
  translation, configuration, logging, migrations;
* shares of smart folders, and the conversation of a visitor of a share.

Within the modelled parts: contents, names and messages are abstract values;
resource types are left out of the tree, and who may request a change of it;
positions and names of RSS links; checkpoints, expiry of Redis keys and failures
of Redis in the stream; time limits in the codes and shares, which end by an
action or not at all.

Counted in lines, most of `src/` is none of this: specs that run the service end
to end, data transfer objects, controllers that pass a request on, modules that
wire providers, migrations, templates and tables of wording. They keep no state
and decide nothing that a property here could be about, so they have no
definition, and the share of all lines that the definitions stand for stays low
while the services that write are nearly all covered.

## Plan

Done, in this order: the task queue with its lifecycle and proofs; storage with
proofs; RSS; the tree with proofs; membership; the stream; permissions along the
tree; uploads, retries and the search index; sign-in, codes, clients and keys;
quotas; tags and order; connections; shares, what they show and their settings;
conversations.

To extend the model, most important first:

1. Shares of smart folders, and which resources a smart folder shows: its
   conditions against a reference definition.
2. The reader that resumes a stream, against an abstract log.
3. Conversations and the stream in one module, so that messages settle by the
   stream's own steps, with a visitor's conversation in a share.
4. The usage of attachments and of resources as one sum, over one trash.

To prove: all that the runs check is proved but liveness. Left are

1. the type invariants of the modules that have one only inside their
   strengthening (`PayTyped`, `StreamTyped` and the like), as theorems of their
   own where a reader would look for them;
2. more of `TaskLifecycle`: that with whole-entity saves the queue implements a
   weaker lifecycle, in which settled tasks change their outcome;
3. the composed specifications of the extension above, from the invariants of
   their parts;
4. `OvershootBounded`, `RowsCoherent` and the refinement of a set of tasks that
   nobody starts or cancels one by one, as is proved of the rest.
