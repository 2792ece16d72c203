--------------------------- MODULE IdentityProofs ---------------------------
(* Proofs about accounts and the ways to sign in to them, for any people,     *)
(* emails, logins and visits.  The invariant says what each step of a visit   *)
(* has established and the locks and unique indexes preserve until its next.  *)
EXTENDS Identities, FiniteSetTheorems, TLAPS

PersonRows == [status : {"free", "live", "gone"}, email : Emails \union {Unknown}]
BindingRows == [user : People, login : Logins]

VisitRecords ==
  [step : {"lookup", "touch", "link", "bind", "register", "mail", "confirm", "create", "update",
           "phone", "newphone", "unbind"},
   shows : Logins \union Emails \union {Unknown}, as : People \union {Unknown},
   miss : {"bind", "link", "register", "create", "none"}, whom : People \union {Unknown},
   row : Emails \union {Unknown}, seen : BOOLEAN]

\* What a request shows, and whom it is about to bind to.
Shaped(q) ==
  /\ q.step \in {"lookup", "touch", "link", "bind", "register", "phone", "newphone", "unbind"} => q.shows \in Logins
  /\ q.step \in {"mail", "confirm", "create"} => q.shows \in Emails
  /\ q.step \in {"bind", "touch", "phone", "newphone", "unbind", "update"} => q.whom \in People
  /\ q.step = "lookup" => q.miss \in {"bind", "link", "register"} /\ (q.miss = "bind" => q.whom \in People)
  /\ q.step \in {"mail", "confirm"} => q.miss = "create"

IdentityTyped ==
  /\ person \in [People -> PersonRows] /\ binding \subseteq BindingRows
  /\ told \in [Logins \union Emails -> People \union {Unknown}]
  /\ visit \in [Visits -> VisitRecords \union {Nowhere}]
  /\ \A v \in Visits : visit[v] # Nowhere => Shaped(visit[v])

\* Users that were there once: whom an answer names, and whose row is rewritten.
Known ==
  /\ \A i \in Logins \union Emails : told[i] # Unknown => person[told[i]].status # "free"
  /\ \A v \in Visits : visit[v] # Nowhere /\ visit[v].step = "touch" => person[visit[v].whom].status # "free"

OneKeeper ==
  \A b, c \in binding :
    b.login = c.login \/ (b.user = c.user /\ Provider[b.login] = Provider[c.login]) => b = c
OneHolder ==
  \A p, r \in Living : person[p].email = person[r].email /\ person[p].email # Unknown => p = r

Reachable ==
  mishaps \intersect {"unbind", "update", "migration"} = {} =>
    \A p \in Living : person[p].email # Unknown \/ \E b \in binding : b.user = p
Leading == mishaps \intersect {"session", "stale"} = {} => \A b \in binding : b.user \in Living

\* Who was told a user who is still there has that login or email.
ToldHold ==
  "stale" \notin mishaps =>
    \A i \in Logins \union Emails : told[i] \in Living =>
      /\ i \in Logins => [user |-> told[i], login |-> i] \in binding
      /\ i \in Emails => person[told[i]].email = i

IdentityInv ==
  IdentityTyped /\ Known /\ OneKeeper /\ OneHolder /\ Reachable /\ Leading /\ ToldHold

\* The action of SameAccountAgain.
Again ==
  \A i \in DOMAIN told :
    told[i] # Unknown /\ told'[i] \notin {Unknown, told[i]} /\ "stale" \notin mishaps' => told[i] \notin Living

LEMMA IdentityInvSound == IdentityInv => LoginsSound
BY DEF IdentityInv, Reachable, Leading, LoginsSound, LoginsOf

LEMMA IdentityInitInv == IdentityInit => IdentityInv
<1> SUFFICES ASSUME IdentityInit PROVE IdentityInv
  OBVIOUS
<1>1. Living = {} /\ binding = {}
  BY DEF IdentityInit, Living
<1>2. IdentityTyped
  BY DEF IdentityInit, IdentityTyped, PersonRows
<1>3. Known
  BY DEF IdentityInit, Known
<1> QED BY <1>1, <1>2, <1>3 DEF IdentityInv, OneKeeper, OneHolder, Reachable, Leading, ToldHold

LEMMA VisitFields ==
  ASSUME IdentityInv, NEW v \in Visits, visit[v] # Nowhere \/ visit[v].step # "none"
  PROVE  visit[v] # Nowhere /\ visit[v] \in VisitRecords /\ Shaped(visit[v])
BY DEF IdentityInv, IdentityTyped, Nowhere

\* A visit that goes on with q.
LEMMA VisitSet ==
  ASSUME IdentityInv, NEW v \in Visits, NEW q, visit' = [visit EXCEPT ![v] = q],
         q = Nowhere \/ (q \in VisitRecords /\ Shaped(q))
  PROVE  /\ visit' \in [Visits -> VisitRecords \union {Nowhere}]
         /\ \A w \in Visits : visit'[w] # Nowhere => Shaped(visit'[w])
         /\ \A w \in Visits : visit'[w] = IF w = v THEN q ELSE visit[w]
BY DEF IdentityInv, IdentityTyped

LEMMA VisitOnly ==
  ASSUME IdentityInv, NEW v \in Visits, NEW q, visit' = [visit EXCEPT ![v] = q],
         q = Nowhere \/ (q \in VisitRecords /\ Shaped(q)),
         q # Nowhere /\ q.step = "touch" => person[q.whom].status # "free",
         UNCHANGED <<person, binding, told, mishaps>>
  PROVE  IdentityInv' /\ Again
<1>1. IdentityTyped'
  BY VisitSet DEF IdentityInv, IdentityTyped, Shaped
<1>2. Known'
  BY VisitSet DEF IdentityInv, Known
<1>3. Living' = Living
  BY DEF Living
<1>4. OneKeeper' /\ OneHolder' /\ Reachable' /\ Leading' /\ ToldHold'
  BY <1>3 DEF IdentityInv, OneKeeper, OneHolder, Reachable, Leading, ToldHold
<1> QED BY <1>1, <1>2, <1>4 DEF IdentityInv, Again

LEMMA Arrived ==
  ASSUME IdentityInv, NEW v \in Visits, NEW step, NEW shows, NEW as, NEW miss, NEW row, NEW seen,
         Arrive(v, Visit(step, shows, as, miss, row, seen)),
         Visit(step, shows, as, miss, row, seen) \in VisitRecords,
         Shaped(Visit(step, shows, as, miss, row, seen)), step # "touch",
         UNCHANGED <<person, binding, told, mishaps>>
  PROVE  IdentityInv' /\ Again
<1> DEFINE q == Visit(step, shows, as, miss, row, seen)
<1>1. visit' = [visit EXCEPT ![v] = q] /\ q.step = step
  BY DEF Arrive, Visit
<1> HIDE DEF q
<1>2. q \in VisitRecords /\ Shaped(q)
  BY DEF q
<1> QED BY <1>1, <1>2, VisitOnly

LEMMA ShownInv ==
  ASSUME IdentityInv, NEW v \in Visits, NEW l \in Logins, NEW as \in People \union {Unknown},
         NEW miss \in {"bind", "link", "register"}, miss = "bind" => as # Unknown, NEW seen \in BOOLEAN,
         Shown(v, l, as, miss, seen)
  PROVE  IdentityInv' /\ Again
<1>1. Visit("lookup", l, as, miss, Unknown, seen) \in VisitRecords /\ Shaped(Visit("lookup", l, as, miss, Unknown, seen))
  BY DEF Visit, VisitRecords, Shaped
<1> QED BY <1>1, Arrived DEF Shown

LEMMA ArrivalInv ==
  ASSUME IdentityInv, NEW v \in Visits,
         \/ \E l \in Logins, as \in Sessions :
              \/ GoogleCallback(v, l, as) \/ GoogleMobile(v, l, as) \/ AppleCallback(v, l, as) \/ AppleMobile(v, l, as)
              \/ WechatCallback(v, l, as) \/ BindNative(v, l, as) \/ BeginBindPhone(v, as, l)
         \/ \E l \in Logins : \/ NativeLogin(v, l) \/ MiniProgramLogin(v, l) \/ CompleteMiniProgram(v, l)
                              \/ PhoneSignIn(v, l) \/ \E p \in People : BeginUnbind(v, p, l)
         \/ \E e \in Emails : EmailSignIn(v, e) \/ SignUpConfirm(v, e)
         \/ \E p \in People, e \in Emails \union {Unknown} : BeginUpdate(v, p, e)
  PROVE  IdentityInv' /\ Again
<1>1. ASSUME NEW l \in Logins, NEW as \in People \union {Unknown},
             \/ GoogleCallback(v, l, as) \/ GoogleMobile(v, l, as) \/ AppleCallback(v, l, as) \/ AppleMobile(v, l, as)
             \/ WechatCallback(v, l, as)
      PROVE  IdentityInv' /\ Again
  <2>1. PICK miss \in {"bind", "link", "register"}, seen \in BOOLEAN :
           Shown(v, l, as, miss, seen) /\ (miss = "bind" => as # Unknown)
    BY <1>1 DEF GoogleCallback, GoogleMobile, AppleCallback, AppleMobile, WechatCallback,
                AfterGoogle, AfterGoogleMobile, AfterApple, AfterAppleMobile, AfterWechat
  <2> QED BY <2>1, ShownInv
<1>2. ASSUME NEW l \in Logins, NEW as \in People, BindNative(v, l, as) PROVE IdentityInv' /\ Again
  BY <1>2, ShownInv, IdentityAssumption DEF BindNative, AfterBindNative
<1>3. ASSUME NEW l \in Logins,
             NativeLogin(v, l) \/ MiniProgramLogin(v, l) \/ CompleteMiniProgram(v, l) \/ PhoneSignIn(v, l)
      PROVE  IdentityInv' /\ Again
  <2>1. PICK seen \in BOOLEAN : Shown(v, l, Unknown, "register", seen)
    BY <1>3 DEF NativeLogin, MiniProgramLogin, CompleteMiniProgram, PhoneSignIn, AfterNative, AfterMiniProgram
  <2> QED BY <2>1, ShownInv
<1>4. ASSUME NEW l \in Logins, NEW as \in People, BeginBindPhone(v, as, l) PROVE IdentityInv' /\ Again
  <2>1. PICK step \in {"phone", "newphone"} : Arrive(v, Visit(step, l, as, "none", Unknown, FALSE))
    BY <1>4 DEF BeginBindPhone
  <2>2. Visit(step, l, as, "none", Unknown, FALSE) \in VisitRecords /\ Shaped(Visit(step, l, as, "none", Unknown, FALSE))
    BY DEF Visit, VisitRecords, Shaped
  <2>3. UNCHANGED <<person, binding, told, mishaps>>
    BY <1>4 DEF BeginBindPhone
  <2> QED BY <2>1, <2>2, <2>3, Arrived
<1>5. ASSUME NEW l \in Logins, NEW p \in People, BeginUnbind(v, p, l) PROVE IdentityInv' /\ Again
  <2>1. Visit("unbind", l, p, "none", Unknown, FALSE) \in VisitRecords /\ Shaped(Visit("unbind", l, p, "none", Unknown, FALSE))
    BY DEF Visit, VisitRecords, Shaped
  <2> QED BY <1>5, <2>1, Arrived DEF BeginUnbind
<1>6. ASSUME NEW e \in Emails, EmailSignIn(v, e) \/ SignUpConfirm(v, e) PROVE IdentityInv' /\ Again
  <2>1. PICK step \in {"mail", "confirm"} : Arrive(v, Visit(step, e, Unknown, "create", Unknown, FALSE))
    BY <1>6 DEF EmailSignIn, SignUpConfirm
  <2>2. /\ Visit(step, e, Unknown, "create", Unknown, FALSE) \in VisitRecords
        /\ Shaped(Visit(step, e, Unknown, "create", Unknown, FALSE))
    BY DEF Visit, VisitRecords, Shaped
  <2>3. UNCHANGED <<person, binding, told, mishaps>>
    BY <1>6 DEF EmailSignIn, SignUpConfirm
  <2> QED BY <2>1, <2>2, <2>3, Arrived
<1>7. ASSUME NEW p \in People, NEW e \in Emails \union {Unknown}, BeginUpdate(v, p, e) PROVE IdentityInv' /\ Again
  <2>1. person[p].email \in Emails \union {Unknown}
    BY DEF IdentityInv, IdentityTyped, PersonRows
  <2>2. Visit("update", e, p, "none", person[p].email, FALSE) \in VisitRecords
        /\ Shaped(Visit("update", e, p, "none", person[p].email, FALSE))
    BY <2>1 DEF Visit, VisitRecords, Shaped
  <2> QED BY <1>7, <2>2, Arrived DEF BeginUpdate
<1>8. Sessions \subseteq People \union {Unknown}
  BY DEF Sessions
<1>9. ASSUME NEW l \in Logins, NEW as \in Sessions, BindNative(v, l, as) \/ BeginBindPhone(v, as, l) PROVE as \in People
  BY <1>9 DEF BindNative, BeginBindPhone, Authenticated, Living
<1> QED BY <1>1, <1>2, <1>3, <1>4, <1>5, <1>6, <1>7, <1>8, <1>9

(* ------------------------- looking up, binding ----------------------------- *)

LEMMA Settled ==
  ASSUME IdentityInv, visit' = visit \/ \E v \in Visits : visit' = [visit EXCEPT ![v] = Nowhere],
         person' \in [People -> PersonRows], binding' \subseteq BindingRows,
         told' \in [Logins \union Emails -> People \union {Unknown}],
         \A p \in People : person[p].status # "free" => person'[p].status # "free",
         \A i \in Logins \union Emails : told'[i] \in {Unknown, told[i]} \/ person'[told'[i]].status # "free"
  PROVE  IdentityTyped' /\ Known'
<1>1. /\ visit' \in [Visits -> VisitRecords \union {Nowhere}]
      /\ \A w \in Visits : visit'[w] # Nowhere => visit'[w] = visit[w]
  BY DEF IdentityInv, IdentityTyped
<1>2. IdentityTyped'
  BY <1>1 DEF IdentityInv, IdentityTyped, Shaped
<1>3. ASSUME NEW w \in Visits, visit'[w] # Nowhere, visit'[w].step = "touch" PROVE person'[visit'[w].whom].status # "free"
  BY <1>1, <1>3 DEF IdentityInv, IdentityTyped, Known, Shaped
<1>4. ASSUME NEW i \in Logins \union Emails, told'[i] # Unknown PROVE person'[told'[i]].status # "free"
  BY <1>4 DEF IdentityInv, IdentityTyped, Known
<1> QED BY <1>2, <1>3, <1>4 DEF Known

\* A login is answered with the user that has it.
LEMMA LoginTold ==
  ASSUME IdentityInv, NEW l \in Logins, NEW p \in People, told' = [told EXCEPT ![l] = p],
         binding \subseteq binding', [user |-> p, login |-> l] \in binding', OneKeeper', mishaps \subseteq mishaps',
         \A r \in Living : r \in Living' /\ person'[r].email = person[r].email,
         \A i \in Logins \union Emails : told[i] \in Living' => told[i] \in Living
  PROVE  ToldHold' /\ Again
<1>1. /\ DOMAIN told = Logins \union Emails
      /\ \A i \in Logins \union Emails : told'[i] = IF i = l THEN p ELSE told[i]
  BY DEF IdentityInv, IdentityTyped
<1>2. ASSUME "stale" \notin mishaps', told[l] \in Living PROVE told[l] = p
  <2>1. [user |-> told[l], login |-> l] \in binding'
    BY <1>2 DEF IdentityInv, ToldHold
  <2>2. [user |-> told[l], login |-> l] = [user |-> p, login |-> l]
    BY <2>1 DEF OneKeeper
  <2>3. [user |-> told[l], login |-> l].user = [user |-> p, login |-> l].user
    BY <2>2
  <2> QED BY <2>3
<1>3. ASSUME "stale" \notin mishaps', NEW i \in Logins \union Emails, told'[i] \in Living'
      PROVE  /\ i \in Logins => [user |-> told'[i], login |-> i] \in binding'
             /\ i \in Emails => person'[told'[i]].email = i
  <2>1. CASE i = l
    BY <1>1, <2>1, IdentityAssumption
  <2>2. CASE i # l
    <3>1. told'[i] = told[i] /\ told[i] \in Living /\ "stale" \notin mishaps
      BY <1>1, <1>3, <2>2
    <3> QED BY <3>1 DEF IdentityInv, ToldHold
  <2> QED BY <2>1, <2>2
<1> QED BY <1>1, <1>2, <1>3 DEF ToldHold, Again

\* Who fits, fits.
LEMMA FitsKeeps ==
  ASSUME NEW rows, NEW p \in People, NEW l \in Logins, Fits(p, l, rows), rows \subseteq BindingRows,
         \A b, c \in rows : b.login = c.login \/ (b.user = c.user /\ Provider[b.login] = Provider[c.login]) => b = c
  PROVE  LET all == rows \union {[user |-> p, login |-> l]} IN
         /\ all \subseteq BindingRows
         /\ \A b, c \in all : b.login = c.login \/ (b.user = c.user /\ Provider[b.login] = Provider[c.login]) => b = c
BY DEF Fits, BindingRows

\* A login is answered with the user that has it, and nothing else changes.
LEMMA AnswerInv ==
  ASSUME IdentityInv, NEW v \in Visits, NEW p \in People, NEW l \in Logins, visit[v].shows = l,
         [user |-> p, login |-> l] \in binding, person[p].status # "free",
         Answer(v, p), UNCHANGED <<person, binding, mishaps>>
  PROVE  IdentityInv' /\ Again
<1>1. told' = [told EXCEPT ![l] = p] /\ visit' = [visit EXCEPT ![v] = Nowhere]
  BY DEF Answer, Leave
<1>2. Living' = Living /\ OneKeeper' /\ OneHolder' /\ Reachable' /\ Leading'
  BY DEF Living, IdentityInv, OneKeeper, OneHolder, Reachable, Leading
<1>3. ToldHold' /\ Again
  BY <1>1, <1>2, LoginTold
<1>4. IdentityTyped' /\ Known'
  <2>1. told' \in [Logins \union Emails -> People \union {Unknown}]
    BY <1>1 DEF IdentityInv, IdentityTyped
  <2>2. \A i \in Logins \union Emails : told'[i] \in {Unknown, told[i]} \/ person'[told'[i]].status # "free"
    BY <1>1 DEF IdentityInv, IdentityTyped
  <2> QED BY <1>1, <2>1, <2>2, Settled DEF IdentityInv, IdentityTyped
<1> QED BY <1>2, <1>3, <1>4 DEF IdentityInv

LEMMA LookupInv ==
  ASSUME IdentityInv, NEW v \in Visits, Lookup(v)
  PROVE  IdentityInv' /\ Again
<1>1. PICK q \in VisitRecords : q = visit[v] /\ Shaped(q) /\ q.step = "lookup" /\ q.shows \in Logins
  BY VisitFields DEF Lookup, Shaped
<1>2. UNCHANGED <<person, binding, mishaps>>
  BY DEF Lookup
<1>3. ASSUME NEW p \in Keeper(q.shows) \intersect Living, Answer(v, p) PROVE IdentityInv' /\ Again
  <2>1. [user |-> p, login |-> q.shows] \in binding /\ p \in People /\ person[p].status = "live"
    BY <1>3 DEF Keeper, Living, IdentityInv, IdentityTyped, BindingRows
  <2> QED BY <1>1, <1>2, <1>3, <2>1, AnswerInv
<1>4. ASSUME NEW p \in Living, visit' = [visit EXCEPT ![v].step = "touch", ![v].whom = p], told' = told
      PROVE  IdentityInv' /\ Again
  <2>1. PICK r \in VisitRecords : r = [q EXCEPT !.step = "touch", !.whom = p]
    BY <1>4 DEF VisitRecords, Living
  <2>2. Shaped(r) /\ person[r.whom].status # "free"
    BY <1>1, <1>4, <2>1 DEF Shaped, Living, VisitRecords
  <2>3. visit' = [visit EXCEPT ![v] = r]
    BY <1>1, <1>4, <2>1 DEF IdentityInv, IdentityTyped
  <2> QED BY <1>2, <1>4, <2>2, <2>3, VisitOnly
<1>5. ASSUME Leave(v), told' = told PROVE IdentityInv' /\ Again
  BY <1>2, <1>5, VisitOnly DEF Leave
<1>6. ASSUME visit' = [visit EXCEPT ![v].step = q.miss], told' = told PROVE IdentityInv' /\ Again
  <2>0. PICK m \in {"bind", "link", "register"} : m = q.miss /\ (m = "bind" => q.whom \in People)
    BY <1>1 DEF Shaped
  <2>1. PICK r \in VisitRecords : r = [q EXCEPT !.step = m]
    BY <2>0 DEF VisitRecords
  <2>2. Shaped(r) /\ r.step # "touch"
    BY <1>1, <2>0, <2>1 DEF Shaped, VisitRecords
  <2>3. visit' = [visit EXCEPT ![v] = r]
    BY <1>1, <1>6, <2>0, <2>1 DEF IdentityInv, IdentityTyped
  <2> QED BY <1>2, <1>6, <2>1, <2>2, <2>3, VisitOnly
<1> QED BY <1>1, <1>3, <1>4, <1>5, <1>6 DEF Lookup

LEMMA FindLinkedInv ==
  ASSUME IdentityInv, NEW v \in Visits, FindLinked(v)
  PROVE  IdentityInv' /\ Again
<1>1. PICK q \in VisitRecords : q = visit[v] /\ Shaped(q) /\ q.step = "link" /\ q.shows \in Logins
  BY VisitFields DEF FindLinked, Shaped
<1>2. UNCHANGED <<person, binding, told, mishaps>>
  BY DEF FindLinked
<1>3. ASSUME NEW p \in People, visit' = [visit EXCEPT ![v].step = "bind", ![v].whom = p] PROVE IdentityInv' /\ Again
  <2>1. PICK r \in VisitRecords : r = [q EXCEPT !.step = "bind", !.whom = p]
    BY DEF VisitRecords
  <2>2. Shaped(r) /\ r.step # "touch"
    BY <1>1, <2>1 DEF Shaped, VisitRecords
  <2>3. visit' = [visit EXCEPT ![v] = r]
    BY <1>1, <1>3, <2>1 DEF IdentityInv, IdentityTyped
  <2> QED BY <1>2, <2>2, <2>3, VisitOnly
<1>4. ASSUME visit' = [visit EXCEPT ![v].step = "register"] PROVE IdentityInv' /\ Again
  <2>1. PICK r \in VisitRecords : r = [q EXCEPT !.step = "register"]
    BY DEF VisitRecords
  <2>2. Shaped(r) /\ r.step # "touch"
    BY <1>1, <2>1 DEF Shaped, VisitRecords
  <2>3. visit' = [visit EXCEPT ![v] = r]
    BY <1>1, <1>4, <2>1 DEF IdentityInv, IdentityTyped
  <2> QED BY <1>2, <2>2, <2>3, VisitOnly
<1>5. Holder(Mailbox[q.shows]) \subseteq People
  BY DEF Holder, Living
<1> QED BY <1>1, <1>3, <1>4, <1>5 DEF FindLinked

\* A login is bound to p and answered with it; nobody comes or goes.
LEMMA BoundInv ==
  ASSUME IdentityInv, NEW v \in Visits, NEW l \in Logins, NEW p \in People, Fits(p, l, binding),
         person[p].status # "free", binding' = Inserted(p, l), told' = [told EXCEPT ![l] = p],
         visit' = [visit EXCEPT ![v] = Nowhere], person' = person, mishaps \subseteq mishaps',
         p \in Living \/ mishaps' \intersect {"session", "stale"} # {}
  PROVE  IdentityInv' /\ Again
<1>1. binding' \subseteq BindingRows /\ OneKeeper' /\ binding \subseteq binding' /\ [user |-> p, login |-> l] \in binding'
  BY FitsKeeps DEF IdentityInv, IdentityTyped, OneKeeper, Inserted
<1>2. Living' = Living /\ OneHolder'
  BY DEF Living, IdentityInv, OneHolder
<1>3. Reachable'
  BY <1>1, <1>2 DEF IdentityInv, Reachable
<1>4. Leading'
  BY <1>2 DEF IdentityInv, Leading, Inserted
<1>5. ToldHold' /\ Again
  BY <1>1, <1>2, LoginTold
<1>6. IdentityTyped' /\ Known'
  <2>1. told' \in [Logins \union Emails -> People \union {Unknown}]
    BY DEF IdentityInv, IdentityTyped
  <2>2. \A i \in Logins \union Emails : told'[i] \in {Unknown, told[i]} \/ person'[told'[i]].status # "free"
    BY DEF IdentityInv, IdentityTyped
  <2> QED BY <1>1, <2>1, <2>2, Settled DEF IdentityInv, IdentityTyped
<1> QED BY <1>1, <1>2, <1>3, <1>4, <1>5, <1>6 DEF IdentityInv

LEMMA TouchInv ==
  ASSUME IdentityInv, NEW v \in Visits, TouchBinding(v)
  PROVE  IdentityInv' /\ Again
<1>1. PICK q \in VisitRecords : /\ q = visit[v] /\ Shaped(q) /\ q.step = "touch" /\ q.shows \in Logins
                               /\ q.whom \in People /\ person[q.whom].status # "free"
  BY VisitFields DEF TouchBinding, Shaped, IdentityInv, Known
<1>2. person' = person /\ Answer(v, q.whom)
  BY <1>1 DEF TouchBinding
<1>3. CASE [user |-> q.whom, login |-> q.shows] \in binding
  BY <1>1, <1>2, <1>3, AnswerInv DEF TouchBinding
<1>4. CASE [user |-> q.whom, login |-> q.shows] \notin binding
  <2>1. /\ mishaps' = mishaps \union {"stale"}
        /\ \/ Fits(q.whom, q.shows, binding) /\ binding' = binding \union {[user |-> q.whom, login |-> q.shows]}
           \/ binding' = binding
    BY <1>1, <1>4 DEF TouchBinding
  <2>2. binding' \subseteq BindingRows /\ OneKeeper' /\ binding \subseteq binding'
    BY <1>1, <2>1, FitsKeeps DEF IdentityInv, IdentityTyped, OneKeeper
  <2>3. Living' = Living /\ OneHolder'
    BY <1>2 DEF Living, IdentityInv, OneHolder
  <2>4. Reachable'
    BY <1>2, <2>1, <2>2, <2>3 DEF IdentityInv, Reachable
  <2>5. Leading' /\ ToldHold' /\ Again
    BY <2>1 DEF Leading, ToldHold, Again
  <2>6. told' = [told EXCEPT ![q.shows] = q.whom] /\ visit' = [visit EXCEPT ![v] = Nowhere]
    BY <1>1, <1>2 DEF Answer, Leave
  <2>7. told' \in [Logins \union Emails -> People \union {Unknown}]
    BY <1>1, <2>6 DEF IdentityInv, IdentityTyped
  <2>8. \A i \in Logins \union Emails : told'[i] \in {Unknown, told[i]} \/ person'[told'[i]].status # "free"
    BY <1>1, <1>2, <2>6 DEF IdentityInv, IdentityTyped
  <2>9. IdentityTyped' /\ Known'
    BY <1>2, <2>2, <2>6, <2>7, <2>8, Settled DEF IdentityInv, IdentityTyped
  <2> QED BY <2>2, <2>3, <2>4, <2>5, <2>9 DEF IdentityInv
<1> QED BY <1>3, <1>4

LEMMA BindExistingInv ==
  ASSUME IdentityInv, NEW v \in Visits, BindExisting(v)
  PROVE  IdentityInv' /\ Again
<1>1. PICK q \in VisitRecords : /\ q = visit[v] /\ Shaped(q) /\ q.step = "bind" /\ q.shows \in Logins
                               /\ q.whom \in People
  BY VisitFields DEF BindExisting, Shaped
<1>2. person' = person /\ Living' = Living
  BY DEF BindExisting, Living
<1>3. CASE ~Fits(q.whom, q.shows, binding)
  BY <1>1, <1>3, VisitOnly DEF BindExisting, Leave
<1>4. CASE Fits(q.whom, q.shows, binding) /\ q.whom \in Living
  <2>1. /\ binding' = Inserted(q.whom, q.shows) /\ told' = [told EXCEPT ![q.shows] = q.whom]
        /\ visit' = [visit EXCEPT ![v] = Nowhere] /\ mishaps' = mishaps
    BY <1>1, <1>4 DEF BindExisting, Answer, Leave
  <2>2. person[q.whom].status # "free"
    BY <1>4 DEF Living
  <2> QED BY <1>1, <1>2, <1>4, <2>1, <2>2, BoundInv
<1>5. CASE Fits(q.whom, q.shows, binding) /\ q.whom \notin Living
  <2>1. /\ binding' = Inserted(q.whom, q.shows) /\ told' = told
        /\ visit' = [visit EXCEPT ![v] = Nowhere] /\ mishaps' = mishaps \union {"session"}
    BY <1>1, <1>5 DEF BindExisting, Leave
  <2>2. binding' \subseteq BindingRows /\ OneKeeper' /\ binding \subseteq binding'
    BY <1>1, <1>5, <2>1, FitsKeeps DEF IdentityInv, IdentityTyped, OneKeeper, Inserted
  <2>3. OneHolder'
    BY <1>2 DEF IdentityInv, OneHolder
  <2>4. Reachable'
    BY <1>2, <2>1, <2>2 DEF IdentityInv, Reachable
  <2>5. Leading'
    BY <2>1 DEF Leading
  <2>6. ToldHold' /\ Again
    BY <1>2, <2>1, <2>2 DEF IdentityInv, ToldHold, Again
  <2>7. IdentityTyped' /\ Known'
    BY <1>2, <2>1, <2>2, Settled DEF IdentityInv, IdentityTyped
  <2> QED BY <2>2, <2>3, <2>4, <2>5, <2>6, <2>7 DEF IdentityInv
<1> QED BY <1>3, <1>4, <1>5

\* Somebody new: nobody was told of them, and the others stay as they are.
LEMMA Newcomer ==
  ASSUME IdentityInv, NEW p \in Fresh, NEW e \in Emails \union {Unknown}, e = Unknown \/ Holder(e) = {},
         person' = [person EXCEPT ![p] = [status |-> "live", email |-> e]]
  PROVE  /\ p \in People /\ person[p].status = "free" /\ p \in Living' /\ person'[p] = [status |-> "live", email |-> e]
         /\ person' \in [People -> PersonRows] /\ Living' = Living \union {p} /\ OneHolder'
         /\ \A r \in Living : r \in Living' /\ person'[r].email = person[r].email
         /\ \A i \in Logins \union Emails : told[i] \in Living' => told[i] \in Living
         /\ \A r \in People : person[r].status # "free" => person'[r].status # "free"
<1>1. p \in People /\ person[p].status = "free"
  BY DEF Fresh
<1>2. /\ person' \in [People -> PersonRows] /\ person'[p] = [status |-> "live", email |-> e]
      /\ \A r \in People : r # p => person'[r] = person[r]
  BY <1>1 DEF IdentityInv, IdentityTyped, PersonRows
<1>3. Living' = Living \union {p} /\ p \notin Living
  BY <1>1, <1>2 DEF Living
<1>4. \A r \in Living : r \in Living' /\ person'[r].email = person[r].email
  BY <1>2, <1>3 DEF Living
<1>5. OneHolder'
  BY <1>2, <1>3, <1>4 DEF IdentityInv, OneHolder, Holder
<1>6. \A i \in Logins \union Emails : told[i] \in Living' => told[i] \in Living
  <2>1. ASSUME NEW i \in Logins \union Emails PROVE told[i] # p
    BY <1>1, IdentityAssumption DEF IdentityInv, Known
  <2> QED BY <1>3, <2>1
<1> QED BY <1>1, <1>2, <1>3, <1>4, <1>5, <1>6

LEMMA RegisterInv ==
  ASSUME IdentityInv, NEW v \in Visits, Register(v)
  PROVE  IdentityInv' /\ Again
<1>1. PICK q \in VisitRecords : q = visit[v] /\ Shaped(q) /\ q.step = "register" /\ q.shows \in Logins
  BY VisitFields DEF Register, Shaped
<1>2. PICK e \in Emails \union {Unknown} : e = Mailbox[q.shows]
  BY <1>1, IdentityAssumption
<1>3. ASSUME NEW p \in Fresh, e = Unknown \/ Holder(e) = {}, Fits(p, q.shows, binding),
             person' = [person EXCEPT ![p] = [status |-> "live", email |-> e]],
             binding' = Inserted(p, q.shows), Answer(v, p), mishaps' = mishaps
      PROVE  IdentityInv' /\ Again
  <2>1. /\ p \in People /\ person[p].status = "free" /\ p \in Living' /\ person'[p].status # "free"
        /\ person' \in [People -> PersonRows] /\ Living' = Living \union {p} /\ OneHolder'
        /\ \A r \in Living : r \in Living' /\ person'[r].email = person[r].email
        /\ \A i \in Logins \union Emails : told[i] \in Living' => told[i] \in Living
        /\ \A r \in People : person[r].status # "free" => person'[r].status # "free"
    BY <1>3, Newcomer
  <2>2. told' = [told EXCEPT ![q.shows] = p] /\ visit' = [visit EXCEPT ![v] = Nowhere]
    BY <1>1, <1>3 DEF Answer, Leave
  <2>3. /\ binding' \subseteq BindingRows /\ OneKeeper' /\ binding \subseteq binding'
        /\ [user |-> p, login |-> q.shows] \in binding'
    BY <1>1, <1>3, <2>1, FitsKeeps DEF IdentityInv, IdentityTyped, OneKeeper, Inserted
  <2>4. Reachable'
    <3>1. ASSUME mishaps' \intersect {"unbind", "update", "migration"} = {}, NEW r \in Living'
          PROVE  person'[r].email # Unknown \/ \E b \in binding' : b.user = r
      <4>1. CASE r = p
        BY <2>3, <4>1
      <4>2. CASE r \in Living
        BY <1>3, <2>1, <2>3, <3>1, <4>2 DEF IdentityInv, Reachable
      <4> QED BY <2>1, <4>1, <4>2
    <3> QED BY <3>1 DEF Reachable
  <2>5. Leading'
    BY <1>3, <2>1 DEF IdentityInv, Leading, Inserted
  <2>6. ToldHold' /\ Again
    BY <1>1, <1>3, <2>1, <2>2, <2>3, LoginTold
  <2>7. IdentityTyped' /\ Known'
    <3>1. told' \in [Logins \union Emails -> People \union {Unknown}]
      BY <1>1, <2>1, <2>2 DEF IdentityInv, IdentityTyped
    <3>2. \A i \in Logins \union Emails : told'[i] \in {Unknown, told[i]} \/ person'[told'[i]].status # "free"
      BY <1>1, <2>1, <2>2 DEF IdentityInv, IdentityTyped
    <3> QED BY <2>1, <2>2, <2>3, <3>1, <3>2, Settled
  <2> QED BY <2>1, <2>3, <2>4, <2>5, <2>6, <2>7 DEF IdentityInv
<1>4. ASSUME NEW p \in Keeper(q.shows) \intersect Living, Answer(v, p), UNCHANGED <<person, binding, mishaps>>
      PROVE  IdentityInv' /\ Again
  <2>1. [user |-> p, login |-> q.shows] \in binding /\ p \in People /\ person[p].status = "live"
    BY <1>4 DEF Keeper, Living, IdentityInv, IdentityTyped, BindingRows
  <2> QED BY <1>1, <1>4, <2>1, AnswerInv
<1>5. ASSUME Leave(v), UNCHANGED <<person, binding, told, mishaps>> PROVE IdentityInv' /\ Again
  BY <1>5, VisitOnly DEF Leave
<1> QED BY <1>1, <1>2, <1>3, <1>4, <1>5 DEF Register

(* --------------------------------- email ---------------------------------- *)

\* An email is answered with the user that has it.
LEMMA EmailTold ==
  ASSUME IdentityInv, NEW e \in Emails, NEW p \in People, told' = [told EXCEPT ![e] = p],
         binding \subseteq binding', p \in Living', person'[p].email = e, OneHolder', mishaps \subseteq mishaps',
         \A r \in Living : r \in Living' /\ person'[r].email = person[r].email,
         \A i \in Logins \union Emails : told[i] \in Living' => told[i] \in Living
  PROVE  ToldHold' /\ Again
<1>1. /\ DOMAIN told = Logins \union Emails
      /\ \A i \in Logins \union Emails : told'[i] = IF i = e THEN p ELSE told[i]
  BY DEF IdentityInv, IdentityTyped
<1>2. e # Unknown
  BY IdentityAssumption
<1>3. ASSUME "stale" \notin mishaps', told[e] \in Living PROVE told[e] = p
  <2>1. person[told[e]].email = e
    BY <1>3 DEF IdentityInv, ToldHold
  <2>2. told[e] \in Living' /\ person'[told[e]].email = e
    BY <1>3, <2>1
  <2> QED BY <1>2, <2>2 DEF OneHolder
<1>4. ASSUME "stale" \notin mishaps', NEW i \in Logins \union Emails, told'[i] \in Living'
      PROVE  /\ i \in Logins => [user |-> told'[i], login |-> i] \in binding'
             /\ i \in Emails => person'[told'[i]].email = i
  <2>1. CASE i = e
    BY <1>1, <2>1, IdentityAssumption
  <2>2. CASE i # e
    <3>1. told'[i] = told[i] /\ told[i] \in Living /\ "stale" \notin mishaps
      BY <1>1, <1>4, <2>2
    <3> QED BY <3>1 DEF IdentityInv, ToldHold
  <2> QED BY <2>1, <2>2
<1> QED BY <1>1, <1>3, <1>4 DEF ToldHold, Again

LEMMA LookupEmailInv ==
  ASSUME IdentityInv, NEW v \in Visits, LookupEmail(v)
  PROVE  IdentityInv' /\ Again
<1>1. PICK q \in VisitRecords : /\ q = visit[v] /\ Shaped(q) /\ q.step \in {"mail", "confirm"}
                               /\ q.shows \in Emails /\ q.miss = "create"
  BY VisitFields DEF LookupEmail, Shaped
<1>2. UNCHANGED <<person, binding, mishaps>>
  BY DEF LookupEmail
<1>3. CASE Holder(q.shows) # {} /\ q.step = "mail"
  <2>1. PICK p : p = CHOOSE r \in Holder(q.shows) : TRUE
    OBVIOUS
  <2>2. p \in Living /\ person[p].email = q.shows /\ p \in People /\ person[p].status # "free"
    BY <1>3, <2>1 DEF Holder, Living
  <2>3. told' = [told EXCEPT ![q.shows] = p]
    BY <1>1, <1>3, <2>1 DEF LookupEmail
  <2>4. visit' = [visit EXCEPT ![v] = Nowhere]
    BY <1>1, <1>3 DEF LookupEmail, Leave
  <2>5. Living' = Living /\ OneKeeper' /\ OneHolder' /\ Reachable' /\ Leading'
    BY <1>2 DEF Living, IdentityInv, OneKeeper, OneHolder, Reachable, Leading
  <2>6. ToldHold' /\ Again
    BY <1>1, <1>2, <2>2, <2>3, <2>5, EmailTold
  <2>7. IdentityTyped' /\ Known'
    <3>1. told' \in [Logins \union Emails -> People \union {Unknown}]
      BY <1>1, <2>2, <2>3 DEF IdentityInv, IdentityTyped
    <3>2. \A i \in Logins \union Emails : told'[i] \in {Unknown, told[i]} \/ person'[told'[i]].status # "free"
      BY <1>1, <1>2, <2>2, <2>3 DEF IdentityInv, IdentityTyped
    <3> QED BY <1>2, <2>4, <3>1, <3>2, Settled DEF IdentityInv, IdentityTyped
  <2> QED BY <2>5, <2>6, <2>7 DEF IdentityInv
<1>4. CASE ~(Holder(q.shows) # {} /\ q.step = "mail")
  <2>1. told' = [told EXCEPT ![q.shows] = @]
    BY <1>1, <1>4 DEF LookupEmail
  <2>2. told' = told
    BY <1>1, <2>1 DEF IdentityInv, IdentityTyped
  <2>3. CASE Holder(q.shows) # {}
    BY <1>1, <1>2, <2>2, <2>3, VisitOnly DEF LookupEmail, Leave
  <2>4. CASE Holder(q.shows) = {}
    <3>1. visit' = [visit EXCEPT ![v].step = "create"]
      BY <1>1, <2>4 DEF LookupEmail
    <3>2. PICK r \in VisitRecords : r = [q EXCEPT !.step = "create"]
      BY DEF VisitRecords
    <3>3. Shaped(r) /\ r.step # "touch"
      BY <1>1, <3>2 DEF Shaped, VisitRecords
    <3>4. visit' = [visit EXCEPT ![v] = r]
      BY <1>1, <3>1, <3>2 DEF IdentityInv, IdentityTyped
    <3> QED BY <1>2, <2>2, <3>3, <3>4, VisitOnly
  <2> QED BY <2>3, <2>4
<1> QED BY <1>3, <1>4

LEMMA CreateUserInv ==
  ASSUME IdentityInv, NEW v \in Visits, CreateUser(v)
  PROVE  IdentityInv' /\ Again
<1>1. PICK q \in VisitRecords : q = visit[v] /\ q.step = "create" /\ q.shows \in Emails
  BY VisitFields DEF CreateUser, Shaped
<1>2. UNCHANGED <<binding, mishaps>> /\ visit' = [visit EXCEPT ![v] = Nowhere]
  BY DEF CreateUser, Leave
<1>3. CASE UNCHANGED <<person, told>>
  BY <1>2, <1>3, VisitOnly
<1>4. ASSUME NEW p \in Fresh, Holder(q.shows) = {}, told' = [told EXCEPT ![q.shows] = p],
             person' = [person EXCEPT ![p] = [status |-> "live", email |-> q.shows]]
      PROVE  IdentityInv' /\ Again
  <2>1. /\ p \in People /\ person[p].status = "free" /\ p \in Living' /\ person'[p] = [status |-> "live", email |-> q.shows]
        /\ person' \in [People -> PersonRows] /\ Living' = Living \union {p} /\ OneHolder'
        /\ \A r \in Living : r \in Living' /\ person'[r].email = person[r].email
        /\ \A i \in Logins \union Emails : told[i] \in Living' => told[i] \in Living
        /\ \A r \in People : person[r].status # "free" => person'[r].status # "free"
    BY <1>1, <1>4, Newcomer
  <2>2. OneKeeper'
    BY <1>2 DEF IdentityInv, OneKeeper
  <2>3. Reachable'
    <3>1. ASSUME mishaps' \intersect {"unbind", "update", "migration"} = {}, NEW r \in Living'
          PROVE  person'[r].email # Unknown \/ \E b \in binding' : b.user = r
      <4>1. CASE r = p
        BY <1>1, <2>1, <4>1, IdentityAssumption
      <4>2. CASE r \in Living
        BY <1>2, <2>1, <3>1, <4>2 DEF IdentityInv, Reachable
      <4> QED BY <2>1, <4>1, <4>2
    <3> QED BY <3>1 DEF Reachable
  <2>4. Leading'
    BY <1>2, <2>1 DEF IdentityInv, Leading
  <2>5. ToldHold' /\ Again
    BY <1>1, <1>2, <1>4, <2>1, EmailTold
  <2>6. IdentityTyped' /\ Known'
    <3>1. told' \in [Logins \union Emails -> People \union {Unknown}]
      BY <1>1, <1>4, <2>1 DEF IdentityInv, IdentityTyped
    <3>2. \A i \in Logins \union Emails : told'[i] \in {Unknown, told[i]} \/ person'[told'[i]].status # "free"
      BY <1>1, <1>4, <2>1 DEF IdentityInv, IdentityTyped
    <3> QED BY <1>2, <2>1, <3>1, <3>2, Settled DEF IdentityInv, IdentityTyped
  <2> QED BY <2>1, <2>2, <2>3, <2>4, <2>5, <2>6 DEF IdentityInv
<1> QED BY <1>1, <1>3, <1>4 DEF CreateUser

LEMMA UpdateUserInv ==
  ASSUME IdentityInv, NEW v \in Visits, UpdateUser(v)
  PROVE  IdentityInv' /\ Again
<1>1. PICK q \in VisitRecords : q = visit[v] /\ q.step = "update" /\ q.whom \in People /\ q.row \in Emails \union {Unknown}
  BY VisitFields DEF UpdateUser, Shaped, VisitRecords
<1>2. binding' = binding /\ visit' = [visit EXCEPT ![v] = Nowhere]
  BY DEF UpdateUser, Leave
<1>3. CASE UNCHANGED <<person, told, mishaps>>
  BY <1>2, <1>3, VisitOnly
<1>4. ASSUME NEW email \in Emails \union {Unknown}, NEW new \in BOOLEAN, new => email \in Emails, ~new => email = q.row,
             email = Unknown \/ Holder(email) \subseteq {q.whom}, q.whom \in Living,
             person' = [person EXCEPT ![q.whom].email = email],
             told' = [i \in DOMAIN told |->
                        IF i \in Emails /\ i # email /\ told[i] = q.whom THEN Unknown ELSE told[i]],
             mishaps' = IF ~new /\ person[q.whom].email # q.row THEN mishaps \union {"update"} ELSE mishaps
      PROVE  IdentityInv' /\ Again
  <2>1. /\ person' \in [People -> PersonRows] /\ person'[q.whom].email = email
        /\ \A p \in People : /\ person'[p].status = person[p].status
                             /\ (p # q.whom => person'[p] = person[p])
    BY <1>1, <1>4 DEF IdentityInv, IdentityTyped, PersonRows
  <2>11. /\ person'[q.whom].email = email
         /\ \A p \in People : p # q.whom => person'[p].email = person[p].email
    BY <2>1
  <2>12. Living' = Living
    <3>1. \A p \in People : person'[p].status = person[p].status
      BY <2>1
    <3> QED BY <3>1 DEF Living
  <2>13. Living \subseteq People /\ Unknown \notin Living
    BY IdentityAssumption DEF Living
  <2>2. Living' = Living /\ Living \subseteq People /\ Unknown \notin Living
    BY <2>12, <2>13
  <2>3. /\ DOMAIN told = Logins \union Emails
        /\ \A i \in Logins \union Emails :
              told'[i] = IF i \in Emails /\ i # email /\ told[i] = q.whom THEN Unknown ELSE told[i]
        /\ told' \in [Logins \union Emails -> People \union {Unknown}]
    BY <1>4 DEF IdentityInv, IdentityTyped
  <2>4. OneKeeper'
    BY <1>2 DEF IdentityInv, OneKeeper
  <2>5. OneHolder'
    <3>1. ASSUME NEW p \in Living, NEW r \in Living, person'[p].email = person'[r].email, person'[p].email # Unknown
          PROVE  p = r
      <4>1. CASE p = q.whom \/ r = q.whom
        BY <1>4, <2>1, <2>2, <3>1, <4>1 DEF Holder
      <4>2. CASE p # q.whom /\ r # q.whom
        BY <2>11, <2>2, <3>1, <4>2 DEF IdentityInv, OneHolder
      <4> QED BY <4>1, <4>2
    <3> QED BY <2>2, <3>1 DEF OneHolder
  <2>6. Reachable'
    <3>1. ASSUME mishaps' \intersect {"unbind", "update", "migration"} = {}, NEW p \in Living
          PROVE  person'[p].email # Unknown \/ \E b \in binding : b.user = p
      <4>1. mishaps' = mishaps /\ (new \/ person[q.whom].email = q.row)
        BY <1>4, <3>1
      <4>2. person[p].email # Unknown \/ \E b \in binding : b.user = p
        BY <3>1, <4>1 DEF IdentityInv, Reachable
      <4>3. p = q.whom /\ email = Unknown => person[p].email = Unknown
        BY <1>4, <4>1, IdentityAssumption
      <4> QED BY <2>11, <2>2, <4>2, <4>3
    <3> QED BY <1>2, <2>2, <3>1 DEF Reachable
  <2>7. Leading'
    BY <1>2, <1>4, <2>2 DEF IdentityInv, Leading
  <2>8. ToldHold'
    <3>1. ASSUME "stale" \notin mishaps', NEW i \in Logins \union Emails, told'[i] \in Living
          PROVE  /\ i \in Logins => [user |-> told'[i], login |-> i] \in binding
                 /\ i \in Emails => person'[told'[i]].email = i
      <4>1. "stale" \notin mishaps /\ told'[i] = told[i] /\ (i \in Emails /\ told[i] = q.whom => i = email)
        BY <1>4, <2>2, <2>3, <3>1
      <4>2. (i \in Emails => person[told[i]].email = i) /\ (i \in Logins => [user |-> told[i], login |-> i] \in binding)
        BY <2>2, <3>1, <4>1 DEF IdentityInv, ToldHold
      <4>3. i \in Emails => person'[told[i]].email = i
        BY <2>11, <2>2, <3>1, <4>1, <4>2
      <4> QED BY <4>1, <4>2, <4>3
    <3> QED BY <1>2, <2>2, <3>1 DEF ToldHold
  <2>9. Again
    BY <2>3 DEF Again
  <2>10. IdentityTyped' /\ Known'
    <3>1. \A i \in Logins \union Emails : told'[i] \in {Unknown, told[i]}
      BY <2>3
    <3>2. \A p \in People : person[p].status # "free" => person'[p].status # "free"
      BY <2>1
    <3>3. binding' \subseteq BindingRows
      BY <1>2 DEF IdentityInv, IdentityTyped
    <3> QED BY <1>2, <2>1, <2>3, <3>1, <3>2, <3>3, Settled
  <2> QED BY <2>4, <2>5, <2>6, <2>7, <2>8, <2>9, <2>10 DEF IdentityInv
<1>5. PICK new \in BOOLEAN : new = (q.shows \in Emails /\ q.shows # q.row)
  OBVIOUS
<1>6. PICK email \in Emails \union {Unknown} : email = IF new THEN q.shows ELSE q.row
  BY <1>1, <1>5
<1> QED BY <1>1, <1>3, <1>4, <1>5, <1>6 DEF UpdateUser

(* -------------------------- phones, unbinding, ends ------------------------ *)

\* Rows go and rows come, whose logins nobody has any more; who was told a row
\* that goes is not told it any more.
LEMMA Rebound ==
  ASSUME IdentityInv, visit' = visit \/ \E v \in Visits : visit' = [visit EXCEPT ![v] = Nowhere],
         person' = person, binding' \subseteq BindingRows, OneKeeper', Reachable', Leading', mishaps \subseteq mishaps',
         told' \in [Logins \union Emails -> People \union {Unknown}],
         \A i \in Logins \union Emails : told'[i] \in {Unknown, told[i]},
         \A b \in binding \ binding' : told'[b.login] = Unknown
  PROVE  IdentityInv' /\ Again
<1>1. IdentityTyped' /\ Known'
  BY Settled DEF IdentityInv, IdentityTyped
<1>2. Living' = Living /\ OneHolder' /\ Unknown \notin Living
  BY IdentityAssumption DEF Living, IdentityInv, OneHolder
<1>3. ToldHold'
  <2>1. ASSUME "stale" \notin mishaps', NEW i \in Logins \union Emails, told'[i] \in Living
        PROVE  /\ i \in Logins => [user |-> told'[i], login |-> i] \in binding'
               /\ i \in Emails => person[told'[i]].email = i
    <3>1. told'[i] = told[i] /\ "stale" \notin mishaps
      BY <1>2, <2>1
    <3>2. /\ i \in Logins => [user |-> told'[i], login |-> i] \in binding
          /\ i \in Emails => person[told'[i]].email = i
      BY <2>1, <3>1 DEF IdentityInv, ToldHold
    <3>3. [user |-> told'[i], login |-> i].login = i
      OBVIOUS
    <3> QED BY <1>2, <2>1, <3>2, <3>3
  <2> QED BY <1>2, <2>1 DEF ToldHold
<1>4. Again
  BY DEF IdentityInv, IdentityTyped, Again
<1> QED BY <1>1, <1>2, <1>3, <1>4 DEF IdentityInv

LEMMA BindPhoneInv ==
  ASSUME IdentityInv, NEW v \in Visits, BindPhone(v)
  PROVE  IdentityInv' /\ Again
<1>1. PICK q \in VisitRecords : q = visit[v] /\ q.step \in {"phone", "newphone"} /\ q.whom \in People /\ q.shows \in Logins
  BY VisitFields DEF BindPhone, Shaped
<1>2. person' = person /\ visit' = [visit EXCEPT ![v] = Nowhere]
  BY DEF BindPhone, Leave
<1>3. CASE UNCHANGED <<binding, told, mishaps>>
  BY <1>2, <1>3, VisitOnly
<1>4. ASSUME NEW old \in SUBSET binding, \A b \in old : b.user = q.whom, Fits(q.whom, q.shows, binding \ old),
             binding' = (binding \ old) \union {[user |-> q.whom, login |-> q.shows]},
             told' = [i \in DOMAIN told |-> IF \E b \in old : b.login = i THEN Unknown ELSE told[i]],
             mishaps' = IF q.whom \in Living THEN mishaps ELSE mishaps \union {"session"}
      PROVE  IdentityInv' /\ Again
  <2>1. binding' \subseteq BindingRows /\ OneKeeper'
    <3>1. PICK rest : rest = binding \ old
      OBVIOUS
    <3>2. /\ rest \subseteq BindingRows /\ Fits(q.whom, q.shows, rest)
          /\ binding' = rest \union {[user |-> q.whom, login |-> q.shows]}
          /\ \A b, c \in rest :
                b.login = c.login \/ (b.user = c.user /\ Provider[b.login] = Provider[c.login]) => b = c
      BY <1>4, <3>1 DEF IdentityInv, IdentityTyped, OneKeeper
    <3> QED BY <1>1, <3>2, FitsKeeps DEF OneKeeper
  <2>2. Living' = Living
    BY <1>2 DEF Living
  <2>3. Reachable'
    <3>1. \A p \in People : (\E b \in binding : b.user = p) => (\E b \in binding' : b.user = p)
      <4>1. ASSUME NEW b \in binding PROVE \E c \in binding' : c.user = b.user
        <5>1. CASE b \in old
          <6>1. [user |-> q.whom, login |-> q.shows].user = q.whom
            OBVIOUS
          <6> QED BY <1>4, <5>1, <6>1
        <5>2. CASE b \notin old
          BY <1>4, <5>2
        <5> QED BY <5>1, <5>2
      <4> QED BY <4>1
    <3>2. mishaps' \intersect {"unbind", "update", "migration"} = {} =>
            mishaps \intersect {"unbind", "update", "migration"} = {}
      BY <1>4
    <3> QED BY <1>2, <2>2, <3>1, <3>2 DEF IdentityInv, Reachable, Living
  <2>4. Leading'
    BY <1>4, <2>2 DEF IdentityInv, Leading
  <2>5. told' \in [Logins \union Emails -> People \union {Unknown}]
    BY <1>4 DEF IdentityInv, IdentityTyped
  <2>6. \A i \in Logins \union Emails : told'[i] \in {Unknown, told[i]}
    BY <1>4 DEF IdentityInv, IdentityTyped
  <2>7. \A b \in binding \ binding' : told'[b.login] = Unknown
    <3>1. ASSUME NEW b \in binding \ binding' PROVE b \in old /\ b.login \in DOMAIN told
      BY <1>4 DEF IdentityInv, IdentityTyped, BindingRows
    <3> QED BY <1>4, <3>1
  <2> QED BY <1>2, <1>4, <2>1, <2>3, <2>4, <2>5, <2>6, <2>7, Rebound
<1>5. PICK old \in SUBSET binding : /\ old = IF q.step = "phone" THEN PhonesOf(q.whom) ELSE {}
                                   /\ \A b \in old : b.user = q.whom
  <2>1. PhonesOf(q.whom) \in SUBSET binding /\ \A b \in PhonesOf(q.whom) : b.user = q.whom
    BY DEF PhonesOf, LoginsOf
  <2>2. CASE q.step = "phone"
    BY <2>1, <2>2
  <2>3. CASE q.step # "phone"
    <3>1. {} \in SUBSET binding /\ {} = IF q.step = "phone" THEN PhonesOf(q.whom) ELSE {}
      BY <2>3
    <3> QED BY <3>1
  <2> QED BY <2>2, <2>3
<1> QED BY <1>1, <1>3, <1>4, <1>5 DEF BindPhone

LEMMA UnbindInv ==
  ASSUME IdentityInv, NEW v \in Visits, Unbind(v)
  PROVE  IdentityInv' /\ Again
<1>1. PICK q \in VisitRecords : q = visit[v] /\ q.step = "unbind" /\ q.whom \in People /\ q.shows \in Logins
  BY VisitFields DEF Unbind, Shaped
<1>2. person' = person /\ visit' = [visit EXCEPT ![v] = Nowhere] /\ Living' = Living
  BY DEF Unbind, Leave, Living
<1>3. PICK gone \in SUBSET binding : gone = {b \in LoginsOf(q.whom) : Provider[b.login] = Provider[q.shows]}
  BY DEF LoginsOf
<1>4. /\ binding' = binding \ gone
      /\ told' = [i \in DOMAIN told |-> IF \E b \in gone : b.login = i THEN Unknown ELSE told[i]]
      /\ mishaps' = IF gone # {} /\ ~MayUnbind(q.whom) THEN mishaps \union {"unbind"} ELSE mishaps
  BY <1>1, <1>3 DEF Unbind
<1>5. binding' \subseteq BindingRows /\ OneKeeper' /\ Leading'
  BY <1>2, <1>4 DEF IdentityInv, IdentityTyped, OneKeeper, Leading
<1>6. Reachable'
  <2>1. ASSUME mishaps' \intersect {"unbind", "update", "migration"} = {}, NEW p \in Living, person[p].email = Unknown
        PROVE  \E b \in binding' : b.user = p
    <3>1. mishaps' = mishaps /\ (gone = {} \/ MayUnbind(q.whom))
      BY <1>4, <2>1
    <3>2. PICK b \in binding : b.user = p
      BY <2>1, <3>1 DEF IdentityInv, Reachable
    <3>3. CASE b \notin gone
      BY <1>4, <3>2, <3>3
    <3>4. CASE b \in gone
      <4>1. p = q.whom /\ Cardinality(LoginsOf(p)) > 1
        BY <1>3, <2>1, <3>1, <3>2, <3>4 DEF LoginsOf, MayUnbind
      <4>2. Cardinality({b}) = 1
        BY FS_Singleton
      <4>3. PICK c \in LoginsOf(p) : c # b
        <5>1. LoginsOf(p) # {b}
          BY <4>1, <4>2
        <5>2. b \in LoginsOf(p)
          BY <3>2 DEF LoginsOf
        <5> QED BY <5>1, <5>2
      <4>4. c \in binding /\ c.user = p
        BY <4>3 DEF LoginsOf
      <4>5. c \notin gone
        BY <1>3, <3>2, <3>4, <4>3, <4>4 DEF IdentityInv, OneKeeper
      <4> QED BY <1>4, <4>4, <4>5
    <3> QED BY <3>3, <3>4
  <2> QED BY <1>2, <2>1 DEF Reachable
<1>7. told' \in [Logins \union Emails -> People \union {Unknown}]
  BY <1>4 DEF IdentityInv, IdentityTyped
<1>8. \A i \in Logins \union Emails : told'[i] \in {Unknown, told[i]}
  BY <1>4 DEF IdentityInv, IdentityTyped
<1>9. \A b \in binding \ binding' : told'[b.login] = Unknown
  <2>1. ASSUME NEW b \in binding \ binding' PROVE b \in gone /\ b.login \in DOMAIN told
    BY <1>4 DEF IdentityInv, IdentityTyped, BindingRows
  <2> QED BY <1>4, <2>1
<1> QED BY <1>2, <1>4, <1>5, <1>6, <1>7, <1>8, <1>9, Rebound

LEMMA MigrateInv ==
  ASSUME IdentityInv, NEW old \in Logins, NEW new \in Logins, Migrate(old, new)
  PROVE  IdentityInv' /\ Again
<1>1. /\ old # new /\ Provider[old] = Provider[new] /\ person' = person /\ visit' = visit
      /\ told' = [told EXCEPT ![old] = Unknown, ![new] = Unknown]
      /\ mishaps' = IF Keeper(new) = {} THEN mishaps ELSE mishaps \union {"migration"}
  BY DEF Migrate
<1>2. /\ \A b \in binding' :
           \/ b \in binding /\ b.login \notin {old, new}
           \/ \E c \in binding : c.login = old /\ b = [user |-> c.user, login |-> new]
      /\ \A b \in binding : b.login \notin {old, new} => b \in binding'
      /\ \A c \in binding : c.login = old => [user |-> c.user, login |-> new] \in binding'
  <2>1. PICK user : user = {b.user : b \in {c \in {b \in binding : b.login # new} : c.login = old}}
    OBVIOUS
  <2>2. binding' = {b \in {b \in binding : b.login # new} : b.login # old}
                     \union {[user |-> u, login |-> new] : u \in user}
    BY <2>1 DEF Migrate
  <2>3. \A u : u \in user <=> \E c \in binding : c.login = old /\ u = c.user
    BY <1>1, <2>1
  <2> QED BY <2>2, <2>3
<1>3. binding' \subseteq BindingRows
  BY <1>2 DEF IdentityInv, IdentityTyped, BindingRows
<1>4. Living' = Living
  BY <1>1 DEF Living
<1>5. OneKeeper'
  <2>1. ASSUME NEW b \in binding', NEW c \in binding',
               b.login = c.login \/ (b.user = c.user /\ Provider[b.login] = Provider[c.login])
        PROVE  b = c
    <3>1. CASE b \in binding /\ c \in binding
      BY <2>1, <3>1 DEF IdentityInv, OneKeeper
    <3>2. ASSUME NEW d \in binding, d.login = old, NEW e, e.login = new, e.user = d.user,
                 NEW f \in binding, f.login \notin {old, new}
          PROVE  ~(e.login = f.login \/ (e.user = f.user /\ Provider[e.login] = Provider[f.login]))
      BY <1>1, <3>2 DEF IdentityInv, OneKeeper
    <3>3. ASSUME NEW d \in binding, d.login = old, NEW e \in binding, e.login = old PROVE d = e
      BY <3>3 DEF IdentityInv, OneKeeper
    <3>4. CASE b \in binding /\ b.login \notin {old, new}
      BY <1>2, <2>1, <3>1, <3>2, <3>4
    <3>5. CASE c \in binding /\ c.login \notin {old, new}
      BY <1>2, <2>1, <3>1, <3>2, <3>5
    <3>6. CASE /\ \E d \in binding : d.login = old /\ b = [user |-> d.user, login |-> new]
               /\ \E d \in binding : d.login = old /\ c = [user |-> d.user, login |-> new]
      BY <3>3, <3>6
    <3> QED BY <1>2, <3>4, <3>5, <3>6
  <2> QED BY <2>1 DEF OneKeeper
<1>6. Reachable'
  <2>1. ASSUME mishaps' \intersect {"unbind", "update", "migration"} = {}, NEW p \in Living, person[p].email = Unknown
        PROVE  \E b \in binding' : b.user = p
    <3>1. mishaps' = mishaps /\ Keeper(new) = {}
      BY <1>1, <2>1
    <3>2. PICK b \in binding : b.user = p
      BY <2>1, <3>1 DEF IdentityInv, Reachable
    <3>3. b.login # new
      BY <3>1, <3>2 DEF Keeper
    <3>4. [user |-> b.user, login |-> new].user = b.user
      OBVIOUS
    <3> QED BY <1>2, <3>2, <3>3, <3>4
  <2> QED BY <1>1, <1>4, <2>1 DEF Reachable
<1>7. Leading'
  <2>1. \A b \in binding' : \E c \in binding : b.user = c.user
    BY <1>2
  <2> QED BY <1>1, <1>4, <2>1 DEF IdentityInv, Leading
<1>8. told' \in [Logins \union Emails -> People \union {Unknown}]
  BY <1>1 DEF IdentityInv, IdentityTyped
<1>9. \A i \in Logins \union Emails : told'[i] \in {Unknown, told[i]}
  BY <1>1 DEF IdentityInv, IdentityTyped
<1>10. \A b \in binding \ binding' : told'[b.login] = Unknown
  <2>1. told'[old] = Unknown /\ told'[new] = Unknown
    BY <1>1 DEF IdentityInv, IdentityTyped
  <2> QED BY <1>2, <2>1
<1>11. mishaps \subseteq mishaps'
  BY <1>1
<1> QED BY <1>1, <1>3, <1>5, <1>6, <1>7, <1>8, <1>9, <1>10, <1>11, Rebound

LEMMA DeleteAccountInv ==
  ASSUME IdentityInv, NEW p \in People, DeleteAccount(p)
  PROVE  IdentityInv' /\ Again
<1>1. /\ p \in Living /\ visit' = visit /\ told' = told /\ mishaps' = mishaps
      /\ binding' = binding \ LoginsOf(p)
      /\ person' = [person EXCEPT ![p] = [status |-> "gone", email |-> Unknown]]
  BY DEF DeleteAccount, Orphaned
<1>2. /\ person' \in [People -> PersonRows] /\ person'[p].status = "gone"
      /\ \A r \in People : r # p => person'[r] = person[r]
  BY <1>1 DEF IdentityInv, IdentityTyped, PersonRows
<1>3. Living' = Living \ {p}
  BY <1>2 DEF Living
<1>4. \A b \in binding : b \in binding' <=> b.user # p
  BY <1>1 DEF LoginsOf
<1>5. binding' \subseteq binding
  BY <1>1
<1>6. OneKeeper' /\ OneHolder'
  BY <1>2, <1>3, <1>5 DEF IdentityInv, OneKeeper, OneHolder, Living
<1>7. Reachable'
  BY <1>1, <1>2, <1>3, <1>4 DEF IdentityInv, Reachable, Living
<1>8. Leading'
  BY <1>1, <1>3, <1>4, <1>5 DEF IdentityInv, Leading
<1>9. ToldHold'
  <2>1. ASSUME "stale" \notin mishaps, NEW i \in Logins \union Emails, told[i] \in Living'
        PROVE  /\ i \in Logins => [user |-> told[i], login |-> i] \in binding'
               /\ i \in Emails => person'[told[i]].email = i
    <3>1. told[i] # p /\ told[i] \in Living /\ told[i] \in People
      BY <1>3, <2>1 DEF Living
    <3>2. /\ i \in Logins => [user |-> told[i], login |-> i] \in binding
          /\ i \in Emails => person[told[i]].email = i
      BY <2>1, <3>1 DEF IdentityInv, ToldHold
    <3>3. [user |-> told[i], login |-> i].user = told[i]
      OBVIOUS
    <3> QED BY <1>2, <1>4, <3>1, <3>2, <3>3
  <2> QED BY <1>1, <2>1 DEF ToldHold
<1>10. IdentityTyped' /\ Known'
  BY <1>1, <1>2, <1>5, Settled DEF IdentityInv, IdentityTyped
<1>11. Again
  BY <1>1 DEF Again
<1> QED BY <1>6, <1>7, <1>8, <1>9, <1>10, <1>11 DEF IdentityInv

(* ------------------------------- the theorems ------------------------------ *)

LEMMA QuietInv ==
  ASSUME IdentityInv, UNCHANGED <<person, binding, visit, told, mishaps>>
  PROVE  IdentityInv' /\ Again
<1>1. Living' = Living
  BY DEF Living
<1>2. IdentityTyped' /\ Known' /\ OneKeeper' /\ OneHolder' /\ Reachable' /\ Leading' /\ ToldHold'
  BY <1>1 DEF IdentityInv, IdentityTyped, Shaped, Known, OneKeeper, OneHolder, Reachable, Leading, ToldHold
<1> QED BY <1>2 DEF IdentityInv, Again

LEMMA IdentityStep == IdentityInv /\ [IdentityNext]_identityVars => IdentityInv' /\ Again
<1> SUFFICES ASSUME IdentityInv, [IdentityNext]_identityVars PROVE IdentityInv' /\ Again
  OBVIOUS
<1>1. CASE OpenScreen \/ PollScreen \/ \E p \in People, e \in Emails : ValidateEmail(p, e)
  BY <1>1, QuietInv DEF OpenScreen, PollScreen, ValidateEmail
<1>2. ASSUME NEW v \in Visits,
             \/ Lookup(v) \/ TouchBinding(v) \/ FindLinked(v) \/ BindExisting(v) \/ Register(v)
             \/ LookupEmail(v) \/ CreateUser(v) \/ UpdateUser(v) \/ UpdateRefused(v)
             \/ BindPhone(v) \/ Unbind(v)
      PROVE  IdentityInv' /\ Again
  <2>1. CASE UpdateRefused(v)
    BY <2>1, VisitOnly DEF UpdateRefused, Leave
  <2> QED BY <1>2, <2>1, LookupInv, TouchInv, FindLinkedInv, BindExistingInv, RegisterInv, LookupEmailInv,
             CreateUserInv, UpdateUserInv, BindPhoneInv, UnbindInv
<1>3. ASSUME NEW p \in People, DeleteAccount(p) PROVE IdentityInv' /\ Again
  BY <1>3, DeleteAccountInv
<1>4. ASSUME NEW l \in Logins, NEW m \in Logins, Migrate(l, m) PROVE IdentityInv' /\ Again
  BY <1>4, MigrateInv
<1>5. CASE UNCHANGED identityVars
  BY <1>5, QuietInv DEF identityVars
<1> QED BY <1>1, <1>2, <1>3, <1>4, <1>5, ArrivalInv DEF IdentityNext

\* Whoever has an account can get at it and a login leads to a user who lives,
\* for any people, logins and visits: UserService and SocialService.
THEOREM LoginsAlwaysSound == IdentitySpec => []LoginsSound
<1>1. IdentityInit => IdentityInv
  BY IdentityInitInv
<1>2. IdentityInv /\ [IdentityNext]_identityVars => IdentityInv'
  BY IdentityStep
<1>3. IdentityInv => LoginsSound
  BY IdentityInvSound
<1> QED BY <1>1, <1>2, <1>3, PTL DEF IdentitySpec

\* Who signs in the same way twice, with the binding untouched between, is the
\* same user both times (SocialService.loginWith..., UserService.findByEmail).
THEOREM AccountsStayTheSame == IdentitySpec => SameAccountAgain
<1>1. IdentityInit => IdentityInv
  BY IdentityInitInv
<1>2. IdentityInv /\ [IdentityNext]_identityVars => IdentityInv'
  BY IdentityStep
<1>3. IdentityInv /\ [IdentityNext]_identityVars => [Again]_identityVars
  BY IdentityStep
<1>4. IdentitySpec => [][Again]_identityVars
  BY <1>1, <1>2, <1>3, PTL DEF IdentitySpec
<1> QED BY <1>4 DEF SameAccountAgain, Again
====
