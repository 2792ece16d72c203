------------------------------ MODULE AccessKeys ------------------------------
(* API keys and the bot applications that make one for themselves            *)
(* (src/src/api-key, src/src/applications), of one user in one namespace.    *)
(*                                                                           *)
(* Nothing here runs in a transaction but the end of a membership: a bot's   *)
(* callback reads the application, checks, inserts the key and saves the     *)
(* application as it has read it; a deletion deletes the application and     *)
(* then its key.  The attributes of keys, and what a key may do, are left    *)
(* out; a user has one live application of a kind, by a unique index.        *)
EXTENDS Naturals, FiniteSets

CONSTANTS Keys,       \* ids of keys, taken one by one
          Apps,       \* ids of applications, taken one by one
          Jobs,       \* requests that may be under way
          MaxJobs,    \* bound on the requests
          NoKey

ASSUME KeyAssumption == NoKey \notin Keys /\ MaxJobs \in Nat

VARIABLES joined,   \* is the user a member of the namespace?
          key,      \* the state of each key and what it was made for
          app,      \* the state of each application, its verify code and its key
          job,      \* requests under way, with what they have read
          crossed,  \* did a request act on what another had changed?
          jobs      \* requests so far

keyVars == <<joined, key, app, job, crossed, jobs>>

Quiet == [step |-> "quiet"]

KeyInit ==
  /\ joined = TRUE
  /\ key = [k \in Keys |-> [state |-> "free", for |-> "user"]]
  /\ app = [a \in Apps |-> [state |-> "free", waits |-> FALSE, key |-> NoKey]]
  /\ job = [j \in Jobs |-> Quiet]
  /\ crossed = FALSE /\ jobs = 0

Receive(j, q) ==
  /\ job[j] = Quiet /\ jobs < MaxJobs
  /\ jobs' = jobs + 1
  /\ job' = [job EXCEPT ![j] = q]

Rest(j) == job' = [job EXCEPT ![j] = Quiet]

Live(x) == {i \in DOMAIN x : x[i].state = "live"}

NewKey == CHOOSE k \in Keys : key[k].state = "free"
NewApp == CHOOSE a \in Apps : app[a].state = "free"
KeysLeft == \E k \in Keys : key[k].state = "free"

(* ---------------------------------- keys ---------------------------------- *)

\* create by the user: validateUserNamespacePermission, then the insert.
BeginCreateKey(j) ==
  /\ joined
  /\ Receive(j, [step |-> "insert", app |-> NoKey])
  /\ UNCHANGED <<joined, key, app, crossed>>

\* getPrivateRootId and validateUserNamespacePermission of a callback.
Checked == joined

CheckCallback(j) ==
  /\ job[j].step = "check"
  /\ IF Checked THEN job' = [job EXCEPT ![j].step = "insert"] ELSE Rest(j)
  /\ UNCHANGED <<joined, key, app, crossed, jobs>>

InsertKey(j) ==
  LET q == job[j] IN
  /\ q.step = "insert" /\ KeysLeft
  /\ key' = [key EXCEPT ![NewKey] =
       [state |-> "live", for |-> IF q.app = NoKey THEN "user" ELSE "bot"]]
  /\ crossed' = (crossed \/ (~joined /\ q.app = NoKey))
  /\ IF q.app = NoKey THEN Rest(j)
                      ELSE job' = [job EXCEPT ![j] = [step |-> "save", app |-> q.app, key |-> NewKey]]
  /\ UNCHANGED <<joined, app, jobs>>

\* The applications that go with key k.
WithKey(k) == {a \in Live(app) : app[a].key = k}

Ended(apps) == [a \in Apps |-> IF a \in apps THEN [app[a] EXCEPT !.state = "gone"] ELSE app[a]]

\* delete of a key: its applications first, itself second.
BeginDeleteKey(j, k) ==
  /\ key[k].state = "live"
  /\ Receive(j, [step |-> "drop", key |-> k])
  /\ app' = Ended(WithKey(k))
  /\ UNCHANGED <<joined, key, crossed>>

DropKey(j) ==
  LET k == job[j].key IN
  /\ job[j].step = "drop"
  /\ key' = [key EXCEPT ![k].state = "gone"]
  /\ crossed' = (crossed \/ WithKey(k) # {} \/ \E i \in Jobs : job[i].step = "save" /\ job[i].key = k)
  /\ Rest(j)
  /\ UNCHANGED <<joined, app, jobs>>

(* ------------------------------ applications ------------------------------ *)

\* create, for the WeChat, QQ, Telegram and claw bots: a verify code waits for
\* the bot.  The client may name a key that the application has until then; the
\* foreign key admits any that was made, also one that is deleted.
CreateApplication ==
  /\ joined /\ jobs < MaxJobs
  /\ Live(app) = {} /\ \E a \in Apps : app[a].state = "free"
  /\ jobs' = jobs + 1
  /\ \E k \in {NoKey} \union {i \in Keys : key[i].state # "free"} :
       app' = [app EXCEPT ![NewApp] = [state |-> "live", waits |-> TRUE, key |-> k]]
  /\ UNCHANGED <<joined, key, job, crossed>>

\* callback: getApplicationByKey.
BeginCallback(j, a) ==
  /\ a \in Live(app) /\ app[a].waits
  /\ Receive(j, [step |-> "check", app |-> a])
  /\ UNCHANGED <<joined, key, app, crossed>>

\* The application is saved with its key and without the code, over what became
\* of it meanwhile; a row that was deleted may come back by it.
SaveApplication(j) ==
  LET q == job[j] IN
  /\ q.step = "save"
  /\ \E state \in {"live", app[q.app].state} :
       /\ state = "live" /\ app[q.app].state = "gone" => Live(app) = {}
       /\ app' = [app EXCEPT ![q.app] = [state |-> state, waits |-> FALSE, key |-> q.key]]
  /\ crossed' = (crossed \/ app[q.app].state # "live" \/ ~app[q.app].waits
                         \/ key[q.key].state # "live")
  /\ Rest(j)
  /\ UNCHANGED <<joined, key, jobs>>

\* A fault of AfterDelete: the hook is not called.
AfterDeleteNever(row) == NoKey

\* postDelete: the key of the application that was read.
AfterDelete(row) == row.key

BeginDeleteApplication(j, a) ==
  /\ a \in Live(app)
  /\ Receive(j, [step |-> "end", app |-> a, row |-> app[a]])
  /\ UNCHANGED <<joined, key, app, crossed>>

\* An application deleted by another has no effect left.
DeleteApplication(j) ==
  LET q == job[j]
      there == app[q.app].state = "live" IN
  /\ q.step = "end"
  /\ app' = Ended({q.app})
  /\ crossed' = (crossed \/ (there /\ app[q.app] # q.row))
  /\ IF there /\ AfterDelete(q.row) # NoKey
       THEN job' = [job EXCEPT ![j] = [step |-> "drop", key |-> AfterDelete(q.row)]]
       ELSE Rest(j)
  /\ UNCHANGED <<joined, key, jobs>>

(* -------------------------------- members --------------------------------- *)

\* destructor, in the transaction that ends the membership.
Quit ==
  /\ joined /\ jobs < MaxJobs
  /\ jobs' = jobs + 1 /\ joined' = FALSE
  /\ key' = [k \in Keys |-> IF key[k].state = "live" THEN [key[k] EXCEPT !.state = "gone"] ELSE key[k]]
  /\ app' = Ended(Live(app))
  /\ UNCHANGED <<job, crossed>>

JoinAgain ==
  /\ ~joined /\ joined' = TRUE
  /\ UNCHANGED <<key, app, job, crossed, jobs>>

(* ----------------------------- specification ------------------------------ *)

KeyNext ==
  \/ CreateApplication \/ Quit \/ JoinAgain
  \/ \E j \in Jobs :
       \/ BeginCreateKey(j) \/ CheckCallback(j) \/ InsertKey(j)
       \/ \E k \in Keys : BeginDeleteKey(j, k)
       \/ DropKey(j)
       \/ \E a \in Apps : BeginCallback(j, a) \/ BeginDeleteApplication(j, a)
       \/ SaveApplication(j) \/ DeleteApplication(j)

KeySpec == KeyInit /\ [][KeyNext]_keyVars

(* ------------------------------- properties ------------------------------- *)

Making == {job[j].key : j \in {i \in Jobs : job[i].step \in {"save", "drop"}}}

\* A key a bot made is the key of a live application, or about to be, and a live
\* application has a live key or still waits for its bot; and who is no member
\* has no key - unless a request acted on what another had changed since it was
\* read.  Else a bot loses its access, or a key is left that nobody sees.
KeysFollow ==
  ~crossed =>
    /\ \A k \in Live(key) : key[k].for = "bot" => k \in Making \/ WithKey(k) # {}
    /\ \A a \in Live(app) : app[a].waits \/ app[a].key \in Live(key)
    /\ joined \/ \A k \in Live(key) : k \in Making
=============================================================================
