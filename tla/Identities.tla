----------------------------- MODULE Identities -----------------------------
(* How a person signs in: users, the logins bound to them and the email they *)
(* are known by (src/src/auth/{google,apple,wechat,social,auth}.service.ts,  *)
(* src/src/user/user.service.ts).                                            *)
(*                                                                           *)
(* A request looks up, links, binds or registers in separate steps; only the *)
(* registration is a transaction.  The providers differ in what they know of *)
(* the person and in what follows a fruitless lookup (the "After" operators).*)
(* Names, tokens and what the namespace and the options of a new user        *)
(* receive are left out, and so are passwords, which change no binding.      *)
EXTENDS Naturals, FiniteSets

CONSTANTS People,      \* user ids, taken one by one
          Emails,
          Logins,      \* ids a provider knows people by, phone numbers among them
          Provider,    \* whose id a login is
          Mailbox,     \* the email a provider tells of, or Unknown
          Visits,      \* requests that may be under way
          MaxVisits,   \* bound on the requests of a behaviour
          Unknown

ASSUME IdentityAssumption ==
  /\ Provider \in [Logins -> {"google", "apple", "wechat", "phone"}]
  /\ Mailbox \in [Logins -> Emails \union {Unknown}]
  /\ \A l \in Logins : Provider[l] \in {"wechat", "phone"} => Mailbox[l] = Unknown
  /\ MaxVisits \in Nat
  /\ Unknown \notin People \union Emails \union Logins /\ Logins \intersect Emails = {}

VARIABLES person,    \* users: their status and email
          binding,   \* the live rows of user_bindings
          mailed,    \* emails a verification code is out for
          screen,    \* the social state a browser polls: "none", "open", who signed in, "closed"
          visit,     \* the requests under way
          told,      \* whom each login and email was last answered with
          mishaps,   \* what a request did on what another had changed
          begun      \* requests so far

identityVars == <<person, binding, mailed, screen, visit, told, mishaps, begun>>

Nowhere == [step |-> "none"]

\* The id the next user gets.
Fresh ==
  LET free == {p \in People : person[p].status = "free"} IN
  IF free = {} THEN {} ELSE {CHOOSE p \in free : TRUE}

Living == {p \in People : person[p].status = "live"}
LoginsOf(p) == {b \in binding : b.user = p}
Keeper(l) == {b.user : b \in {c \in binding : c.login = l}}
Holder(e) == {p \in Living : person[p].email = e}

\* A fault of Fits: the schema before AddUserBindingUniqueConstraint.
FitsPerUser(p, l, rows) ==
  \A b \in rows : b.user = p => Provider[b.login] # Provider[l]

\* The index over live rows: a login once, and of each provider one per user.
Fits(p, l, rows) ==
  \A b \in rows : b.login # l /\ (b.user = p => Provider[b.login] # Provider[l])

IdentityInit ==
  /\ person = [p \in People |-> [status |-> "free", email |-> Unknown]]
  /\ binding = {} /\ mailed = {} /\ screen = "none"
  /\ visit = [v \in Visits |-> Nowhere]
  /\ told = [i \in Logins \union Emails |-> Unknown]
  /\ mishaps = {} /\ begun = 0

(* ------------------------------- arriving --------------------------------- *)

\* A visit: the login or email it shows, the person of its session, where a
\* fruitless lookup leads, whom it is about to bind to, what it has read, and
\* whether it came with the state of the screen.
Arrive(v, q) ==
  /\ visit[v] = Nowhere /\ begun < MaxVisits
  /\ begun' = begun + 1
  /\ visit' = [visit EXCEPT ![v] = q]

Visit(step, shows, as, miss, row, seen) ==
  [step |-> step, shows |-> shows, as |-> as, miss |-> miss, whom |-> as, row |-> row,
   seen |-> seen]

Leave(v) == visit' = [visit EXCEPT ![v] = Nowhere]

\* Who passes JwtAuthGuard, which looks the user up.
Authenticated == Living

\* Who may be named by the session of a callback, which is public and verifies
\* the token only: whoever once signed in, or nobody.
Sessions == {p \in People : person[p].status # "free"} \union {Unknown}

AfterGoogle(as) == IF as # Unknown THEN "bind" ELSE "link"

AfterGoogleMobile(as) == IF as # Unknown THEN "bind" ELSE "link"

AfterApple(l, as) ==
  CASE as # Unknown -> "bind" [] Mailbox[l] # Unknown -> "link" [] OTHER -> "register"

AfterAppleMobile(l, as) ==
  CASE as # Unknown -> "bind" [] Mailbox[l] # Unknown -> "link" [] OTHER -> "register"

AfterWechat(as) == IF as # Unknown THEN "bind" ELSE "register"

AfterNative == "register"

AfterBindNative == "bind"

AfterMiniProgram == "register"

\* A login is shown, with the state of the screen or without.
Shown(v, l, as, miss, seen) ==
  /\ seen => screen \notin {"none", "closed"}
  /\ Arrive(v, Visit("lookup", l, as, miss, Unknown, seen))
  /\ UNCHANGED <<person, binding, mailed, screen, told, mishaps>>

\* generateState for the code a browser shows or is sent away with.
OpenScreen ==
  /\ screen = "none"
  /\ screen' = "open"
  /\ UNCHANGED <<person, binding, mailed, visit, told, mishaps, begun>>

\* checkState deletes the state whose user it hands out.
PollScreen ==
  /\ screen \in People
  /\ screen' = "closed"
  /\ UNCHANGED <<person, binding, mailed, visit, told, mishaps, begun>>

GoogleCallback(v, l, as) ==
  Provider[l] = "google" /\ Shown(v, l, as, AfterGoogle(as), TRUE)

GoogleMobile(v, l, as) ==
  Provider[l] = "google" /\ Shown(v, l, as, AfterGoogleMobile(as), FALSE)

AppleCallback(v, l, as) ==
  Provider[l] = "apple" /\ Shown(v, l, as, AfterApple(l, as), TRUE)

AppleMobile(v, l, as) ==
  Provider[l] = "apple" /\ Shown(v, l, as, AfterAppleMobile(l, as), FALSE)

WechatCallback(v, l, as) ==
  Provider[l] = "wechat" /\ Shown(v, l, as, AfterWechat(as), TRUE)

NativeLogin(v, l) == Provider[l] = "wechat" /\ Shown(v, l, Unknown, AfterNative, FALSE)

BindNative(v, l, as) ==
  Provider[l] = "wechat" /\ as \in Authenticated /\ Shown(v, l, as, AfterBindNative, FALSE)

MiniProgramLogin(v, l) ==
  Provider[l] = "wechat" /\ Shown(v, l, Unknown, AfterMiniProgram, FALSE)

\* A scan of the polled code; one that was answered already is answered the same.
CompleteMiniProgram(v, l) ==
  Provider[l] = "wechat" /\ screen = "open" /\ Shown(v, l, Unknown, AfterMiniProgram, TRUE)

\* handlePhoneAuthenticationOrRegistration, the code being right.
PhoneSignIn(v, l) == Provider[l] = "phone" /\ Shown(v, l, Unknown, "register", FALSE)

(* --------------------------- looking up, binding -------------------------- *)

\* The answer to visit v: p, to the caller and to the state of the screen, which
\* is written as it was read and p with it, deleted meanwhile or not.
Answer(v, p) ==
  /\ told' = [told EXCEPT ![visit[v].shows] = p]
  /\ screen' = IF visit[v].seen THEN p ELSE screen
  /\ Leave(v)

\* findByLoginId, or findByPhone: a binding whose user is gone is an error to
\* the first and nobody to the second.  The mini program, which keeps its own
\* id with the binding, writes the row back that it has read.
Lookup(v) ==
  LET q == visit[v] IN
  /\ q.step = "lookup"
  /\ UNCHANGED <<person, binding, mailed, mishaps, begun>>
  /\ \/ \E p \in Keeper(q.shows) \intersect Living :
          IF q.as \in {p, Unknown}
            THEN \/ Answer(v, p)
                 \/ /\ Provider[q.shows] = "wechat"
                    /\ visit' = [visit EXCEPT ![v].step = "touch", ![v].whom = p]
                    /\ UNCHANGED <<told, screen>>
            ELSE Leave(v) /\ UNCHANGED <<told, screen>>
     \/ /\ Keeper(q.shows) \intersect Living = {}
        /\ IF Keeper(q.shows) # {} /\ Provider[q.shows] # "phone"
             THEN Leave(v)
             ELSE visit' = [visit EXCEPT ![v].step = q.miss]
        /\ UNCHANGED <<told, screen>>

\* updateBindingMetadata and updateUserBindingWhenMetadataEmpty save the row
\* they have read: removed since, it is inserted again, if there is place for it.
TouchBinding(v) ==
  LET q == visit[v]
      row == [user |-> q.whom, login |-> q.shows] IN
  /\ q.step = "touch"
  /\ IF row \in binding
       THEN Answer(v, q.whom) /\ UNCHANGED <<binding, mishaps>>
       ELSE /\ mishaps' = mishaps \union {"stale"}
            /\ \/ /\ Fits(q.whom, q.shows, binding)
                  /\ binding' = binding \union {row}
               \/ UNCHANGED binding
            /\ Answer(v, q.whom)
  /\ UNCHANGED <<person, mailed, begun>>

\* findByEmail: "the email has already been used".
FindLinked(v) ==
  LET q == visit[v]
      holder == Holder(Mailbox[q.shows]) IN
  /\ q.step = "link"
  /\ \/ \E p \in holder : visit' = [visit EXCEPT ![v].step = "bind", ![v].whom = p]
     \/ holder = {} /\ visit' = [visit EXCEPT ![v].step = "register"]
  /\ UNCHANGED <<person, binding, mailed, screen, told, mishaps, begun>>

Inserted(p, l) == binding \union {[user |-> p, login |-> l]}

\* bindingExistUser: the insert, and the user looked up after it.
BindExisting(v) ==
  LET q == visit[v] IN
  /\ q.step = "bind"
  /\ IF Fits(q.whom, q.shows, binding)
       THEN /\ binding' = Inserted(q.whom, q.shows)
            /\ IF q.whom \in Living
                 THEN Answer(v, q.whom) /\ UNCHANGED mishaps
                 ELSE /\ mishaps' = mishaps \union {"session"}
                      /\ Leave(v) /\ UNCHANGED <<told, screen>>
       ELSE Leave(v) /\ UNCHANGED <<binding, told, screen, mishaps>>
  /\ UNCHANGED <<person, mailed, begun>>

\* createUserBinding and createUserWithPhone in their transaction: all or
\* nothing, and a phone that came second is answered with the first.
Register(v) ==
  LET q == visit[v]
      e == Mailbox[q.shows]
      clash == \/ e # Unknown /\ Holder(e) # {}
               \/ \E b \in binding : b.login = q.shows
      first == Keeper(q.shows) \intersect Living IN
  /\ q.step = "register"
  /\ \/ /\ ~clash
        /\ \E p \in Fresh :
             /\ Fits(p, q.shows, binding)
             /\ person' = [person EXCEPT ![p] = [status |-> "live", email |-> e]]
             /\ binding' = Inserted(p, q.shows)
             /\ Answer(v, p)
     \/ /\ clash
        /\ IF Provider[q.shows] = "phone" /\ first # {}
             THEN \E p \in first : Answer(v, p)
             ELSE Leave(v) /\ UNCHANGED <<told, screen>>
        /\ UNCHANGED <<person, binding>>
  /\ UNCHANGED <<mailed, mishaps, begun>>

(* --------------------------------- email ---------------------------------- *)

\* A code or link sent to an email is shown: verifyOTP, verifyMagicLink,
\* acceptInvite, and signUpConfirm, which is refused when a user has the email.
EmailSignIn(v, e) ==
  /\ Arrive(v, Visit("mail", e, Unknown, "create", Unknown, FALSE))
  /\ UNCHANGED <<person, binding, mailed, screen, told, mishaps>>

SignUpConfirm(v, e) ==
  /\ Arrive(v, Visit("confirm", e, Unknown, "create", Unknown, FALSE))
  /\ UNCHANGED <<person, binding, mailed, screen, told, mishaps>>

LookupEmail(v) ==
  LET q == visit[v]
      holder == Holder(q.shows) IN
  /\ q.step \in {"mail", "confirm"}
  /\ told' = [told EXCEPT ![q.shows] =
       IF holder # {} /\ q.step = "mail" THEN CHOOSE p \in holder : TRUE ELSE @]
  /\ IF holder # {} THEN Leave(v) ELSE visit' = [visit EXCEPT ![v].step = q.miss]
  /\ UNCHANGED <<person, binding, mailed, screen, mishaps, begun>>

\* UserService.create, and the unique index over the emails of live users.
CreateUser(v) ==
  LET q == visit[v] IN
  /\ q.step = "create"
  /\ \/ /\ Holder(q.shows) = {}
        /\ \E p \in Fresh :
             /\ person' = [person EXCEPT ![p] = [status |-> "live", email |-> q.shows]]
             /\ told' = [told EXCEPT ![q.shows] = p]
     \/ Holder(q.shows) # {} /\ UNCHANGED <<person, told>>
  /\ Leave(v)
  /\ UNCHANGED <<binding, mailed, screen, mishaps, begun>>

\* validateEmail sends a code to an email nobody else has.
ValidateEmail(p, e) ==
  /\ p \in Living /\ e \notin mailed
  /\ Holder(e) = {}
  /\ mailed' = mailed \union {e}
  /\ UNCHANGED <<person, binding, screen, visit, told, mishaps, begun>>

\* update: find reads the row that is written back, with a new email or without.
BeginUpdate(v, p, e) ==
  /\ p \in Living
  /\ Arrive(v, Visit("update", e, p, "none", person[p].email, FALSE))
  /\ UNCHANGED <<person, binding, mailed, screen, told, mishaps>>

\* The code for a new email is used up, and the row is written back; what
\* another update wrote meanwhile is lost.
UpdateUser(v) ==
  LET q == visit[v]
      new == q.shows \in Emails /\ q.shows # q.row
      email == IF new THEN q.shows ELSE q.row
      free == email = Unknown \/ Holder(email) \subseteq {q.whom} IN
  /\ q.step = "update"
  /\ new => q.shows \in mailed
  /\ mailed' = mailed \ {q.shows}
  /\ IF free /\ q.whom \in Living
       THEN /\ person' = [person EXCEPT ![q.whom].email = email]
            /\ told' = [i \in DOMAIN told |->
                 IF i \in Emails /\ i # email /\ told[i] = q.whom THEN Unknown ELSE told[i]]
            /\ mishaps' = IF ~new /\ person[q.whom].email # q.row
                            THEN mishaps \union {"update"} ELSE mishaps
       ELSE UNCHANGED <<person, told, mishaps>>
  /\ Leave(v)
  /\ UNCHANGED <<binding, screen, begun>>

\* A code that is missing or wrong.
UpdateRefused(v) ==
  /\ visit[v].step = "update" /\ visit[v].shows \notin mailed \union {Unknown}
  /\ Leave(v)
  /\ UNCHANGED <<person, binding, mailed, screen, told, mishaps, begun>>

(* -------------------------- phones, unbinding, ends ------------------------ *)

PhonesOf(p) == {b \in LoginsOf(p) : Provider[b.login] = "phone"}

\* sendPhoneBindingCode refuses a number in use; bindPhone looks for the user's
\* own row.
BeginBindPhone(v, as, l) ==
  /\ Provider[l] = "phone" /\ as \in Authenticated /\ Keeper(l) = {}
  /\ Arrive(v, Visit(IF PhonesOf(as) = {} THEN "newphone" ELSE "phone", l, as, "none",
                     Unknown, FALSE))
  /\ UNCHANGED <<person, binding, mailed, screen, told, mishaps>>

\* The row that was found gets the new number, or a row is inserted.
BindPhone(v) ==
  LET q == visit[v]
      old == IF q.step = "phone" THEN PhonesOf(q.whom) ELSE {}
      rest == binding \ old IN
  /\ q.step \in {"phone", "newphone"}
  /\ \/ /\ Fits(q.whom, q.shows, rest)
        /\ binding' = rest \union {[user |-> q.whom, login |-> q.shows]}
        /\ told' = [i \in DOMAIN told |-> IF \E b \in old : b.login = i THEN Unknown ELSE told[i]]
        /\ mishaps' = IF q.whom \in Living THEN mishaps ELSE mishaps \union {"session"}
     \/ /\ Fits(q.whom, q.shows, rest) => q.step = "phone" /\ q.whom \notin Living
        /\ UNCHANGED <<binding, told, mishaps>>
  /\ Leave(v)
  /\ UNCHANGED <<person, mailed, screen, begun>>

\* A fault of MayUnbind: the last binding goes, too.
MayUnbindLast(p) == person[p].email # Unknown \/ LoginsOf(p) # {}

\* canUnBinding, asked for a login the user has: else nothing comes of it.
MayUnbind(p) == person[p].email # Unknown \/ Cardinality(LoginsOf(p)) > 1

BeginUnbind(v, p, l) ==
  /\ [user |-> p, login |-> l] \in binding /\ Provider[l] # "phone"
  /\ p \in Living /\ MayUnbind(p)
  /\ Arrive(v, Visit("unbind", l, p, "none", Unknown, FALSE))
  /\ UNCHANGED <<person, binding, mailed, screen, told, mishaps>>

\* unbindByLoginType of the service the request came to.
Unbind(v) ==
  LET q == visit[v]
      gone == {b \in LoginsOf(q.whom) : Provider[b.login] = Provider[q.shows]} IN
  /\ q.step = "unbind"
  /\ binding' = binding \ gone
  /\ told' = [i \in DOMAIN told |-> IF \E b \in gone : b.login = i THEN Unknown ELSE told[i]]
  /\ mishaps' = IF gone # {} /\ ~MayUnbind(q.whom) THEN mishaps \union {"unbind"} ELSE mishaps
  /\ Leave(v)
  /\ UNCHANGED <<person, mailed, screen, begun>>

\* updateBinding: who had the new id loses it to who had the old one.  Its two
\* lookups and writes are taken as one step.
Migrate(old, new) ==
  LET rest == {b \in binding : b.login # new}
      user == {b.user : b \in {c \in rest : c.login = old}} IN
  /\ begun < MaxVisits
  /\ old # new /\ Provider[old] = "wechat" /\ Provider[new] = "wechat"
  /\ begun' = begun + 1
  /\ binding' = {b \in rest : b.login # old} \union {[user |-> u, login |-> new] : u \in user}
  /\ told' = [told EXCEPT ![old] = Unknown, ![new] = Unknown]
  /\ mishaps' = IF Keeper(new) = {} THEN mishaps ELSE mishaps \union {"migration"}
  /\ UNCHANGED <<person, mailed, screen, visit>>

\* A fault of Orphaned: account deletion leaves the bindings.
OrphanedKept(p) == {}

\* The bindings confirmAccountDeletion soft-deletes.
Orphaned(p) == LoginsOf(p)

\* The users and bindings of confirmAccountDeletion, one transaction.
DeleteAccount(p) ==
  /\ p \in Living /\ begun < MaxVisits
  /\ begun' = begun + 1
  /\ person' = [person EXCEPT ![p] = [status |-> "gone", email |-> Unknown]]
  /\ binding' = binding \ Orphaned(p)
  /\ UNCHANGED <<mailed, screen, visit, told, mishaps>>
(* ----------------------------- specification ------------------------------ *)

IdentityNext ==
  \/ OpenScreen \/ PollScreen
  \/ \E v \in Visits :
       \/ \E l \in Logins :
            \/ \E as \in Sessions :
                 \/ GoogleCallback(v, l, as) \/ GoogleMobile(v, l, as)
                 \/ AppleCallback(v, l, as) \/ AppleMobile(v, l, as)
                 \/ WechatCallback(v, l, as) \/ BindNative(v, l, as)
                 \/ BeginBindPhone(v, as, l)
            \/ NativeLogin(v, l) \/ MiniProgramLogin(v, l) \/ CompleteMiniProgram(v, l)
            \/ PhoneSignIn(v, l)
            \/ \E p \in People : BeginUnbind(v, p, l)
       \/ \E e \in Emails : EmailSignIn(v, e) \/ SignUpConfirm(v, e)
       \/ \E p \in People, e \in Emails \union {Unknown} : BeginUpdate(v, p, e)
       \/ Lookup(v) \/ TouchBinding(v) \/ FindLinked(v) \/ BindExisting(v) \/ Register(v)
       \/ LookupEmail(v) \/ CreateUser(v) \/ UpdateUser(v) \/ UpdateRefused(v)
       \/ BindPhone(v) \/ Unbind(v)
  \/ \E p \in People : DeleteAccount(p) \/ \E e \in Emails : ValidateEmail(p, e)
  \/ \E l, m \in Logins : Migrate(l, m)

IdentitySpec == IdentityInit /\ [][IdentityNext]_identityVars

(* ------------------------------- properties ------------------------------- *)

\* Whoever has an account can get at it, with an email or a login, unless an
\* unbind was checked before another took effect, an update wrote an older
\* email back, or a migration took the login away; and a login that exists
\* leads to a user who does, so that findByLoginId does not fail for ever,
\* unless it was bound from the session of a deleted user or written back after
\* its removal (social.service.ts, user.service.ts).
LoginsSound ==
  /\ mishaps \intersect {"unbind", "update", "migration"} = {} =>
       \A p \in Living : person[p].email # Unknown \/ LoginsOf(p) # {}
  /\ mishaps \intersect {"session", "stale"} = {} => \A b \in binding : b.user \in Living

\* The same Google, Apple, WeChat account, phone or email is the same account
\* here every time, while that lives and the login is neither unbound nor moved,
\* however first sign-ins by several ways interleave.
SameAccountAgain ==
  [][\A i \in DOMAIN told :
       told[i] # Unknown /\ told'[i] \notin {Unknown, told[i]} /\ "stale" \notin mishaps' =>
         told[i] \notin Living]_identityVars
=============================================================================
