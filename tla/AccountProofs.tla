----------------------------- MODULE AccountProofs -----------------------------
(* Proofs about what an account is given and its requests use: one-time      *)
(* codes, OAuth subjects and grants, keys with their applications, shares,   *)
(* and the connections of the pool; for any numbers of them.                 *)
EXTENDS MCAccounts, IdentityProofs, MemberProofs, SequenceTheorems, TLAPS

(* ---------------------------- one-time codes ----------------------------- *)

CodesDrawn == 0..MaxCodes
OtpRecords == [code : CodesDrawn, attempts : Nat, expired : BOOLEAN]

\* What a request holds at its next step.
CodeAsks ==
  {Resting} \union [step : {"count"}, seen : Nat] \union [step : {"store"}]
  \union [step : {"verify", "magic"}, code : CodesDrawn, seen : {r \in OtpRecords : r.code # NoCode}]

CodeTyped ==
  /\ record \in OtpRecords /\ (record.code = NoCode => record = Nothing)
  /\ rate \in Nat /\ sends \in Nat /\ drawn \in CodesDrawn
  /\ ask \in [Asks -> CodeAsks]
  /\ accepted \in [1..MaxCodes -> Nat] /\ failed \in [1..MaxCodes -> Nat]
  /\ blurred \in BOOLEAN

\* The code that is out was not accepted yet, and its record counts what missed
\* it; codes to come are untouched.
CodesCounted ==
  /\ record.code <= drawn
  /\ \A c \in 1..MaxCodes :
       /\ accepted[c] <= 1 /\ failed[c] <= AttemptLimit
       /\ c > drawn => accepted[c] = 0 /\ failed[c] = 0
       /\ c = record.code => accepted[c] = 0 /\ failed[c] = record.attempts

SendsCounted == sends = rate /\ sends <= SendLimit

\* A link carries the code of the record that it was checked against.
LinksMatch == \A a \in Asks : ask[a].step = "magic" => ask[a].code = ask[a].seen.code

CodeInv == CodeTyped /\ LinksMatch /\ (~blurred => CodesCounted /\ SendsCounted)

LEMMA CodeLimits == AttemptLimit \in Nat /\ SendLimit \in Nat /\ MaxCodes \in Nat
BY CodeAssumption

LEMMA CodeInvSpent == CodeInv => CodesAreSpent
BY DEF CodeInv, CodesCounted, SendsCounted, CodesAreSpent

LEMMA CodeInitInv == CodeInit => CodeInv
<1> SUFFICES ASSUME CodeInit PROVE CodeInv
  OBVIOUS
<1>1. CodeTyped
  <2>1. record \in OtpRecords /\ (record.code = NoCode => record = Nothing)
    BY CodeLimits DEF CodeInit, OtpRecords, CodesDrawn, Nothing, NoCode
  <2>2. ask \in [Asks -> CodeAsks]
    BY DEF CodeInit, CodeAsks
  <2>3. accepted \in [1..MaxCodes -> Nat] /\ failed \in [1..MaxCodes -> Nat]
    BY DEF CodeInit
  <2>4. rate \in Nat /\ sends \in Nat /\ drawn \in CodesDrawn /\ blurred \in BOOLEAN
    <3>1. rate = 0 /\ sends = 0 /\ drawn = 0 /\ blurred \in BOOLEAN
      BY DEF CodeInit
    <3> QED BY <3>1, CodeLimits DEF CodesDrawn
  <2> QED BY <2>1, <2>2, <2>3, <2>4 DEF CodeTyped
<1>2. LinksMatch
  BY DEF CodeInit, LinksMatch, Resting
<1>3. CodesCounted /\ SendsCounted
  BY CodeLimits DEF CodeInit, CodesCounted, SendsCounted, Nothing, NoCode
<1> QED BY <1>1, <1>2, <1>3 DEF CodeInv

LEMMA AskFields ==
  ASSUME CodeTyped, NEW a \in Asks
  PROVE  /\ ask[a].step = "count" => ask[a].seen \in Nat
         /\ ask[a].step \in {"verify", "magic"} =>
              ask[a].code \in CodesDrawn /\ ask[a].seen \in OtpRecords /\ ask[a].seen.code # NoCode
BY DEF CodeTyped, CodeAsks, Resting

\* A request that goes on with q.
LEMMA AskSet ==
  ASSUME CodeTyped, LinksMatch, NEW a \in Asks, NEW q \in CodeAsks, ask' = [ask EXCEPT ![a] = q],
         q.step = "magic" => q.code = q.seen.code
  PROVE  ask' \in [Asks -> CodeAsks] /\ LinksMatch'
BY DEF CodeTyped, LinksMatch

LEMMA AcceptInv ==
  ASSUME CodeInv, NEW a \in Asks, ask[a].step \in {"verify", "magic"}, ask[a].code = ask[a].seen.code, Accept(a)
  PROVE  CodeInv'
<1>1. PICK c \in CodesDrawn : c = ask[a].code /\ c # NoCode
  BY AskFields DEF CodeInv
<1>2. /\ record' = Nothing /\ accepted' = [accepted EXCEPT ![c] = @ + 1]
      /\ blurred' = (blurred \/ record # ask[a].seen) /\ ask' = [ask EXCEPT ![a] = Resting]
      /\ rate' = rate /\ drawn' = drawn /\ failed' = failed /\ sends' = sends
  BY <1>1 DEF Accept, Spent, Done
<1>3. Resting \in CodeAsks /\ Resting.step # "magic"
  BY DEF CodeAsks, Resting
<1>4. ask' \in [Asks -> CodeAsks] /\ LinksMatch'
  BY <1>2, <1>3, AskSet DEF CodeInv
<1>5. CodeTyped'
  <2>1. record' \in OtpRecords /\ (record'.code = NoCode => record' = Nothing)
    BY <1>2, CodeLimits DEF OtpRecords, CodesDrawn, Nothing, NoCode
  <2>2. accepted' \in [1..MaxCodes -> Nat]
    <3>1. c \in 1..MaxCodes
      BY <1>1, CodeLimits DEF CodesDrawn, NoCode
    <3> QED BY <1>2, <3>1 DEF CodeInv, CodeTyped
  <2>3. blurred' \in BOOLEAN
    BY <1>2 DEF CodeInv, CodeTyped
  <2> QED BY <1>2, <1>4, <2>1, <2>2, <2>3 DEF CodeInv, CodeTyped
<1>6. ASSUME ~blurred' PROVE CodesCounted'
  <2>1. ~blurred /\ record.code = c
    BY <1>1, <1>2, <1>6 DEF CodeInv, CodeTyped
  <2>2. accepted[c] = 0 /\ c \in 1..MaxCodes
    BY <1>1, <2>1, CodeLimits DEF CodeInv, CodesCounted, CodesDrawn, NoCode
  <2>3. record'.code = 0 /\ accepted' \in [1..MaxCodes -> Nat]
    BY <1>2, <1>5 DEF Nothing, NoCode, CodeTyped
  <2>4. \A d \in 1..MaxCodes : accepted'[d] = IF d = c THEN 1 ELSE accepted[d]
    BY <1>2, <2>2 DEF CodeInv, CodeTyped
  <2> QED BY <1>2, <2>1, <2>2, <2>3, <2>4, CodeLimits DEF CodeInv, CodeTyped, CodesCounted, CodesDrawn
<1>7. ~blurred' => SendsCounted'
  BY <1>2 DEF CodeInv, CodeTyped, SendsCounted
<1> QED BY <1>4, <1>5, <1>6, <1>7 DEF CodeInv

LEMMA CodeStep == CodeInv /\ [CodeNext]_codeVars => CodeInv'
<1> SUFFICES ASSUME CodeInv, [CodeNext]_codeVars PROVE CodeInv'
  OBVIOUS
<1>1. ASSUME NEW a \in Asks, BeginSend(a) PROVE CodeInv'
  <2>1. /\ ask' = [ask EXCEPT ![a] = [step |-> "count", seen |-> rate]]
        /\ UNCHANGED <<record, rate, drawn, accepted, failed, sends, blurred>>
    BY <1>1 DEF BeginSend, Ask
  <2>2. [step |-> "count", seen |-> rate] \in CodeAsks
    BY DEF CodeInv, CodeTyped, CodeAsks
  <2>3. ask' \in [Asks -> CodeAsks] /\ LinksMatch'
    BY <2>1, <2>2, AskSet DEF CodeInv
  <2> QED BY <2>1, <2>3 DEF CodeInv, CodeTyped, CodesCounted, SendsCounted
<1>2. ASSUME NEW a \in Asks, CountSend(a) PROVE CodeInv'
  <2>1. ask[a].seen \in Nat /\ UNCHANGED <<record, drawn, accepted, failed>>
    BY <1>2, AskFields DEF CountSend, CodeInv
  <2>2. PICK q \in {Resting, [step |-> "store"]} : ask' = [ask EXCEPT ![a] = q]
    BY <1>2 DEF CountSend, Done
  <2>3. q \in CodeAsks /\ q.step # "magic"
    BY <2>2 DEF CodeAsks, Resting
  <2>4. ask' \in [Asks -> CodeAsks] /\ LinksMatch'
    BY <2>2, <2>3, AskSet DEF CodeInv
  <2>5. CASE ask[a].seen >= SendLimit
    <3>1. UNCHANGED <<rate, blurred, sends>>
      BY <1>2, <2>5 DEF CountSend
    <3> QED BY <2>1, <2>4, <3>1 DEF CodeInv, CodeTyped, CodesCounted, SendsCounted
  <2>6. CASE ~(ask[a].seen >= SendLimit)
    <3>1. rate' = ask[a].seen + 1 /\ blurred' = (blurred \/ rate # ask[a].seen) /\ sends' = sends + 1
      BY <1>2, <2>6 DEF CountSend
    <3>2. CodeTyped'
      BY <2>1, <2>4, <3>1 DEF CodeInv, CodeTyped
    <3>3. ~blurred' => CodesCounted'
      BY <2>1, <3>1 DEF CodeInv, CodeTyped, CodesCounted
    <3>4. ~blurred' => SendsCounted'
      <4>1. SendLimit \in Nat /\ rate \in Nat
        BY CodeLimits DEF CodeInv, CodeTyped
      <4>2. SUFFICES ASSUME ~blurred' PROVE SendsCounted'
        OBVIOUS
      <4>3. ~blurred /\ rate = ask[a].seen
        BY <3>1, <4>2 DEF CodeInv, CodeTyped
      <4>4. sends = rate /\ rate < SendLimit
        BY <2>6, <4>1, <4>3 DEF CodeInv, SendsCounted
      <4> QED BY <3>1, <4>1, <4>3, <4>4 DEF SendsCounted
    <3> QED BY <2>4, <3>2, <3>3, <3>4 DEF CodeInv
  <2> QED BY <2>5, <2>6
<1>3. ASSUME NEW a \in Asks, Store(a) PROVE CodeInv'
  <2>1. ask' = [ask EXCEPT ![a] = Resting] /\ UNCHANGED <<rate, accepted, failed, sends, blurred>>
    BY <1>3 DEF Store, Done
  <2>2. Resting \in CodeAsks /\ Resting.step # "magic"
    BY DEF CodeAsks, Resting
  <2>3. ask' \in [Asks -> CodeAsks] /\ LinksMatch'
    BY <2>1, <2>2, AskSet DEF CodeInv
  <2>4. CASE drawn < MaxCodes
    <3>1. drawn' = drawn + 1 /\ record' = [code |-> drawn + 1, attempts |-> 0, expired |-> FALSE]
      BY <1>3, <2>4 DEF Store
    <3>2. drawn' \in CodesDrawn /\ record' \in OtpRecords /\ record'.code = drawn + 1 /\ record'.attempts = 0
      BY <2>4, <3>1, CodeLimits DEF CodeInv, CodeTyped, CodesDrawn, OtpRecords
    <3>3. CodeTyped'
      BY <2>1, <2>3, <3>1, <3>2 DEF CodeInv, CodeTyped, CodesDrawn, NoCode
    <3>4. ~blurred => CodesCounted'
      BY <2>1, <3>1, <3>2, CodeLimits DEF CodeInv, CodeTyped, CodesCounted, CodesDrawn
    <3> QED BY <2>1, <2>3, <3>3, <3>4 DEF CodeInv, SendsCounted
  <2>5. CASE ~(drawn < MaxCodes)
    <3>1. UNCHANGED <<drawn, record>>
      BY <1>3, <2>5 DEF Store
    <3> QED BY <2>1, <2>3, <3>1 DEF CodeInv, CodeTyped, CodesCounted, SendsCounted
  <2> QED BY <2>4, <2>5
<1>4. ASSUME NEW a \in Asks, NEW c \in CodesDrawn, BeginVerify(a, c) PROVE CodeInv'
  <2>1. /\ ask' = [ask EXCEPT ![a] = [step |-> "verify", code |-> c, seen |-> record]] /\ record # Nothing
        /\ UNCHANGED <<record, rate, drawn, accepted, failed, sends, blurred>>
    BY <1>4 DEF BeginVerify, Ask
  <2>2. [step |-> "verify", code |-> c, seen |-> record] \in CodeAsks
    BY <2>1 DEF CodeInv, CodeTyped, CodeAsks
  <2>3. ask' \in [Asks -> CodeAsks] /\ LinksMatch'
    BY <2>1, <2>2, AskSet DEF CodeInv
  <2> QED BY <2>1, <2>3 DEF CodeInv, CodeTyped, CodesCounted, SendsCounted
<1>5. ASSUME NEW a \in Asks, NEW c \in CodesDrawn, c # NoCode, BeginMagic(a, c) PROVE CodeInv'
  <2>1. /\ ask' = [ask EXCEPT ![a] = [step |-> "magic", code |-> c, seen |-> record]] /\ record.code = c
        /\ UNCHANGED <<record, rate, drawn, accepted, failed, sends, blurred>>
    BY <1>5 DEF BeginMagic, Ask
  <2>2. [step |-> "magic", code |-> c, seen |-> record] \in CodeAsks
    BY <1>5, <2>1 DEF CodeInv, CodeTyped, CodeAsks
  <2>3. ask' \in [Asks -> CodeAsks] /\ LinksMatch'
    BY <2>1, <2>2, AskSet DEF CodeInv
  <2> QED BY <2>1, <2>3 DEF CodeInv, CodeTyped, CodesCounted, SendsCounted
<1>6. ASSUME NEW a \in Asks, FollowLink(a) PROVE CodeInv'
  BY <1>6, AcceptInv DEF FollowLink, CodeInv, LinksMatch
<1>7. ASSUME NEW a \in Asks, Verify(a) PROVE CodeInv'
  <2>1. PICK r \in OtpRecords : r = ask[a].seen /\ r.code # NoCode
    BY <1>7, AskFields DEF Verify, CodeInv
  <2>2. Resting \in CodeAsks /\ Resting.step # "magic"
    BY DEF CodeAsks, Resting
  <2>3. CASE r.expired \/ r.attempts >= AttemptLimit
    <3>1. /\ record' = Nothing /\ ask' = [ask EXCEPT ![a] = Resting]
          /\ blurred' = (blurred \/ record \notin {Nothing, r})
          /\ UNCHANGED <<rate, drawn, accepted, failed, sends>>
      BY <1>7, <2>1, <2>3 DEF Verify, Done
    <3>2. ask' \in [Asks -> CodeAsks] /\ LinksMatch'
      BY <2>2, <3>1, AskSet DEF CodeInv
    <3>3. CodeTyped'
      BY <3>1, <3>2, CodeLimits DEF CodeInv, CodeTyped, OtpRecords, CodesDrawn, Nothing, NoCode
    <3>4. record'.code = 0
      BY <3>1 DEF Nothing, NoCode
    <3>5. ~blurred' => ~blurred
      BY <3>1 DEF CodeInv, CodeTyped
    <3>6. ~blurred => CodesCounted' /\ SendsCounted'
      BY <3>1, <3>4 DEF CodeInv, CodeTyped, CodesCounted, SendsCounted, CodesDrawn
    <3> QED BY <3>2, <3>3, <3>5, <3>6 DEF CodeInv
  <2>4. CASE ~(r.expired \/ r.attempts >= AttemptLimit) /\ ask[a].code = r.code
    <3>1. Accept(a) /\ ask[a].step = "verify"
      BY <1>7, <2>1, <2>4 DEF Verify
    <3> QED BY <2>1, <2>4, <3>1, AcceptInv
  <2>5. CASE ~(r.expired \/ r.attempts >= AttemptLimit) /\ ask[a].code # r.code
    <3>1. /\ record' = [r EXCEPT !.attempts = @ + 1] /\ ask' = [ask EXCEPT ![a] = Resting]
          /\ failed' = [failed EXCEPT ![r.code] = @ + 1]
          /\ blurred' = (blurred \/ record # r)
          /\ UNCHANGED <<rate, drawn, accepted, sends>>
      BY <1>7, <2>1, <2>5 DEF Verify, Done
    <3>2. ask' \in [Asks -> CodeAsks] /\ LinksMatch'
      BY <2>2, <3>1, AskSet DEF CodeInv
    <3>3. record' \in OtpRecords /\ record'.code = r.code /\ record'.attempts = r.attempts + 1
      BY <3>1 DEF OtpRecords
    <3>4. CodeTyped'
      <4>1. r.code \in 1..MaxCodes
        BY <2>1, CodeLimits DEF OtpRecords, CodesDrawn, NoCode
      <4>2. failed' \in [1..MaxCodes -> Nat]
        BY <3>1, <4>1 DEF CodeInv, CodeTyped
      <4>3. blurred' \in BOOLEAN
        BY <3>1 DEF CodeInv, CodeTyped
      <4> QED BY <2>1, <3>1, <3>2, <3>3, <4>2, <4>3 DEF CodeInv, CodeTyped
    <3>5. ASSUME ~blurred' PROVE CodesCounted'
      <4>1. ~blurred /\ record = r
        BY <3>1, <3>5 DEF CodeInv, CodeTyped
      <4>2. r.attempts \in Nat /\ r.attempts < AttemptLimit /\ r.code \in 1..MaxCodes
        BY <2>1, <2>5, CodeLimits DEF OtpRecords, CodesDrawn, NoCode
      <4>3. \A c \in 1..MaxCodes : failed'[c] = IF c = r.code THEN r.attempts + 1 ELSE failed[c]
        BY <3>1, <4>1, <4>2 DEF CodeInv, CodeTyped, CodesCounted
      <4>4. AttemptLimit \in Nat /\ drawn \in Nat /\ r.code <= drawn
        BY <4>1, CodeLimits DEF CodeInv, CodeTyped, CodesCounted, CodesDrawn
      <4> QED BY <3>1, <3>3, <4>1, <4>2, <4>3, <4>4 DEF CodeInv, CodesCounted
    <3>6. ~blurred' => SendsCounted'
      BY <3>1 DEF CodeInv, CodeTyped, SendsCounted
    <3> QED BY <3>2, <3>4, <3>5, <3>6 DEF CodeInv
  <2> QED BY <2>3, <2>4, <2>5
<1>8. CASE WindowEnds
  BY <1>8, CodeLimits DEF WindowEnds, CodeInv, CodeTyped, LinksMatch, CodesCounted, SendsCounted
<1>9. CASE Expire
  <2>1. /\ UNCHANGED <<rate, ask, drawn, accepted, failed, sends, blurred>>
        /\ record' = Nothing \/ (record' = [record EXCEPT !.expired = TRUE] /\ record # Nothing)
    BY <1>9 DEF Expire
  <2>2. CASE record' = Nothing
    <3>1. CodeTyped' /\ record'.code = 0
      BY <2>1, <2>2, CodeLimits DEF CodeInv, CodeTyped, OtpRecords, CodesDrawn, Nothing, NoCode
    <3> QED BY <2>1, <3>1 DEF CodeInv, CodeTyped, LinksMatch, CodesCounted, SendsCounted, CodesDrawn
  <2>3. CASE record' = [record EXCEPT !.expired = TRUE] /\ record # Nothing
    <3>1. CodeTyped' /\ record'.code = record.code /\ record'.attempts = record.attempts
      BY <2>1, <2>3 DEF CodeInv, CodeTyped, OtpRecords
    <3> QED BY <2>1, <3>1 DEF CodeInv, LinksMatch, CodesCounted, SendsCounted
  <2> QED BY <2>1, <2>2, <2>3
<1>10. CASE UNCHANGED codeVars
  BY <1>10 DEF codeVars, CodeInv, CodeTyped, LinksMatch, CodesCounted, SendsCounted
<1> QED BY <1>1, <1>2, <1>3, <1>4, <1>5, <1>6, <1>7, <1>8, <1>9, <1>10 DEF CodeNext, CodesDrawn

\* A code is accepted once at most and guessed at AttemptLimit times at most, and
\* an email gets SendLimit codes a window at most, for any codes and requests,
\* unless two requests read the same record (OtpService).
THEOREM CodesAlwaysSpent == CodeSpec => []CodesAreSpent
BY CodeInitInv, CodeStep, CodeInvSpent, PTL DEF CodeSpec

(* --------------------------------- OAuth --------------------------------- *)

SubjectPairs == [user : Subjects, client : Clients]
GrantRecords == [user : Subjects, client : Clients, state : {"there", "gone"}, read : BOOLEAN]
TokenRecords == [grant : Nat, there : BOOLEAN]
SubjectRows == [pair : SubjectPairs, id : Nat]

\* What a request holds at its next step.
OAuthCalls ==
  {Waiting} \union [step : {"exchange"}, grant : Nat] \union [step : {"subject", "insert"}, pair : SubjectPairs, id : Nat]

OAuthTyped ==
  /\ grant \in Seq(GrantRecords) /\ token \in Seq(TokenRecords)
  /\ call \in [Calls -> OAuthCalls]
  /\ subject \subseteq SubjectRows /\ ids \in Nat
  /\ \A h \in Calls : call[h].step = "exchange" => call[h].grant \in DOMAIN grant
  /\ \A t \in DOMAIN token : token[t].grant \in DOMAIN grant

\* Rows agree on neither pair nor subject, and what is still to be inserted is
\* new.
SubjectsApart ==
  /\ \A s, r \in subject : s.pair = r.pair <=> s.id = r.id
  /\ \A s \in subject : s.id <= ids
  /\ \A h \in Calls : call[h].step = "insert" =>
       /\ call[h].id <= ids /\ \A s \in subject : s.id # call[h].id
       /\ \A k \in Calls : call[k].step = "insert" /\ call[k].id = call[h].id => k = h

Exchanges(h, g) == call[h].step = "exchange" /\ call[h].grant = g

\* A code has one token, or one exchange that may still issue it.
OneUse(g) ==
  /\ \A t, s \in DOMAIN token : token[t].grant = g /\ token[s].grant = g => t = s
  /\ \A h, k \in Calls : Exchanges(h, g) /\ Exchanges(k, g) => h = k
  /\ \A h \in Calls, t \in DOMAIN token : ~(Exchanges(h, g) /\ token[t].grant = g)

CodesSpent ==
  \A g \in DOMAIN grant :
    /\ \A t \in DOMAIN token : token[t].grant = g => grant[g].state = "gone"
    /\ ~grant[g].read => OneUse(g)

OAuthInv == OAuthTyped /\ SubjectsApart /\ answers \subseteq subject /\ CodesSpent

LEMMA OAuthInvStable == OAuthInv => SubjectsStable
BY DEF OAuthInv, OAuthTyped, SubjectsApart, CodesSpent, OneUse, SubjectsStable

LEMMA OAuthInitInv == OAuthInit => OAuthInv
<1> SUFFICES ASSUME OAuthInit PROVE OAuthInv
  OBVIOUS
<1>1. grant \in Seq(GrantRecords) /\ token \in Seq(TokenRecords) /\ DOMAIN grant = {} /\ DOMAIN token = {}
  BY DEF OAuthInit
<1>2. call \in [Calls -> OAuthCalls] /\ \A h \in Calls : call[h].step = "wait"
  BY DEF OAuthInit, OAuthCalls, Waiting
<1> QED BY <1>1, <1>2 DEF OAuthInit, OAuthInv, OAuthTyped, SubjectsApart, CodesSpent

LEMMA CallFields ==
  ASSUME OAuthTyped, NEW h \in Calls
  PROVE  /\ call[h].step = "exchange" => call[h] \in [step : {"exchange"}, grant : Nat]
         /\ call[h].step \in {"subject", "insert"} => call[h] \in [step : {"subject", "insert"}, pair : SubjectPairs, id : Nat]
BY DEF OAuthTyped, OAuthCalls, Waiting

\* Codes and tokens of which only the rest changes.
LEMMA CallSet ==
  ASSUME OAuthTyped, CodesSpent, grant' = grant, token' = token, NEW h \in Calls, NEW q \in OAuthCalls,
         q.step # "exchange", call' = [call EXCEPT ![h] = q]
  PROVE  /\ call' \in [Calls -> OAuthCalls] /\ CodesSpent'
         /\ \A k \in Calls : call'[k].step = "exchange" => call'[k].grant \in DOMAIN grant
<1>1. call' \in [Calls -> OAuthCalls] /\ \A k \in Calls : call'[k] = IF k = h THEN q ELSE call[k]
  BY DEF OAuthTyped
<1>2. ASSUME NEW g \in DOMAIN grant, OneUse(g) PROVE OneUse(g)'
  <2>1. \A k \in Calls : Exchanges(k, g)' => Exchanges(k, g)
    BY <1>1 DEF Exchanges
  <2> QED BY <1>2, <2>1 DEF OneUse
<1>3. CodesSpent'
  BY <1>2 DEF CodesSpent
<1> QED BY <1>1, <1>3 DEF OAuthTyped

\* A code that is read again or used up.
LEMMA GrantSet ==
  ASSUME OAuthTyped, NEW g \in DOMAIN grant, NEW e \in GrantRecords, grant' = [grant EXCEPT ![g] = e]
  PROVE  /\ grant' \in Seq(GrantRecords) /\ DOMAIN grant' = DOMAIN grant
         /\ \A i \in DOMAIN grant : grant'[i] = IF i = g THEN e ELSE grant[i]
<1>1. g \in 1..Len(grant) /\ DOMAIN grant = 1..Len(grant)
  BY LenProperties DEF OAuthTyped
<1> QED BY <1>1, ExceptSeq, LenProperties DEF OAuthTyped

LEMMA GrantFields ==
  ASSUME OAuthTyped, NEW g \in DOMAIN grant
  PROVE  grant[g] \in GrantRecords
BY LenProperties, ElementOfSeq DEF OAuthTyped

LEMMA OAuthStep == OAuthInv /\ [OAuthNext]_oauthVars => OAuthInv'
<1> SUFFICES ASSUME OAuthInv, [OAuthNext]_oauthVars PROVE OAuthInv'
  OBVIOUS
<1>0. Waiting \in OAuthCalls /\ Waiting.step = "wait"
  BY DEF OAuthCalls, Waiting
<1>1. ASSUME NEW u \in Subjects, Depart(u) PROVE OAuthInv'
  BY <1>1 DEF Depart, OAuthInv, OAuthTyped, SubjectsApart, CodesSpent, OneUse, Exchanges
<1>2. ASSUME NEW u \in Subjects, NEW c \in Clients, Authorize(u, c) PROVE OAuthInv'
  <2> DEFINE e == [user |-> u, client |-> c, state |-> "there", read |-> FALSE]
  <2>1. /\ grant' = Append(grant, e)
        /\ UNCHANGED <<token, subject, call, answers, ids>>
    BY <1>2 DEF Authorize
  <2>2. e \in GrantRecords
    BY DEF GrantRecords
  <2> HIDE DEF e
  <2>3. /\ grant' \in Seq(GrantRecords) /\ DOMAIN grant \subseteq DOMAIN grant'
        /\ \A i \in DOMAIN grant : grant'[i] = grant[i]
    BY <2>1, <2>2, AppendProperties, LenProperties DEF OAuthInv, OAuthTyped
  <2>4. OAuthTyped'
    BY <2>1, <2>3 DEF OAuthInv, OAuthTyped
  <2>5. ASSUME NEW i \in DOMAIN grant', i \notin DOMAIN grant
        PROVE  /\ \A t \in DOMAIN token : token[t].grant # i
               /\ \A h \in Calls : ~Exchanges(h, i)
    BY <2>5 DEF OAuthInv, OAuthTyped, Exchanges
  <2>6. CodesSpent'
    <3>1. \A i \in DOMAIN grant' : OneUse(i) => OneUse(i)'
      BY <2>1 DEF OneUse, Exchanges
    <3>2. \A i \in DOMAIN grant' : i \notin DOMAIN grant => OneUse(i)
      BY <2>5 DEF OneUse
    <3> QED BY <2>1, <2>3, <2>5, <3>1, <3>2 DEF OAuthInv, CodesSpent
  <2> QED BY <2>1, <2>4, <2>6 DEF OAuthInv, SubjectsApart
<1>3. ASSUME NEW g \in DOMAIN grant, CodeExpires(g) PROVE OAuthInv'
  <2>1. /\ grant' = [grant EXCEPT ![g] = [grant[g] EXCEPT !.state = "gone"]]
        /\ UNCHANGED <<token, subject, call, answers, ids>>
    BY <1>3 DEF CodeExpires
  <2>2. [grant[g] EXCEPT !.state = "gone"] \in GrantRecords
    BY GrantFields DEF GrantRecords, OAuthInv
  <2>3. /\ grant' \in Seq(GrantRecords) /\ DOMAIN grant' = DOMAIN grant
        /\ \A i \in DOMAIN grant : grant'[i] = IF i = g THEN [grant[g] EXCEPT !.state = "gone"] ELSE grant[i]
    BY <2>1, <2>2, GrantSet DEF OAuthInv
  <2>4. \A i \in DOMAIN grant : /\ grant'[i].read = grant[i].read
                                /\ grant[i].state = "gone" => grant'[i].state = "gone"
    BY <2>3, GrantFields DEF GrantRecords, OAuthInv
  <2>5. OAuthTyped'
    BY <2>1, <2>3 DEF OAuthInv, OAuthTyped
  <2>6. CodesSpent'
    BY <2>1, <2>3, <2>4 DEF OAuthInv, CodesSpent, OneUse, Exchanges
  <2> QED BY <2>1, <2>5, <2>6 DEF OAuthInv, SubjectsApart
<1>4. ASSUME NEW t \in DOMAIN token, TokenEnds(t) PROVE OAuthInv'
  <2>1. /\ token' = [token EXCEPT ![t] = [token[t] EXCEPT !.there = FALSE]]
        /\ UNCHANGED <<grant, subject, call, answers, ids>>
    BY <1>4 DEF TokenEnds
  <2>2. t \in 1..Len(token) /\ DOMAIN token = 1..Len(token) /\ \A s \in DOMAIN token : token[s] \in TokenRecords
    BY LenProperties, ElementOfSeq DEF OAuthInv, OAuthTyped
  <2>3. [token[t] EXCEPT !.there = FALSE] \in TokenRecords
    BY <2>2 DEF TokenRecords
  <2>4. /\ token' \in Seq(TokenRecords) /\ DOMAIN token' = DOMAIN token
        /\ \A s \in DOMAIN token : token'[s] = IF s = t THEN [token[t] EXCEPT !.there = FALSE] ELSE token[s]
    BY <2>1, <2>2, <2>3, ExceptSeq, LenProperties DEF OAuthInv, OAuthTyped
  <2>5. \A s \in DOMAIN token : token'[s].grant = token[s].grant
    BY <2>2, <2>4 DEF TokenRecords
  <2>6. OAuthTyped' /\ CodesSpent'
    BY <2>1, <2>4, <2>5 DEF OAuthInv, OAuthTyped, CodesSpent, OneUse, Exchanges
  <2> QED BY <2>1, <2>6 DEF OAuthInv, SubjectsApart
<1>5. ASSUME NEW h \in Calls, NEW g \in DOMAIN grant, BeginExchange(h, g) PROVE OAuthInv'
  <2> DEFINE second == \E k \in Calls : call[k] = [step |-> "exchange", grant |-> g]
             e == [grant[g] EXCEPT !.read = @ \/ second]
             q == [step |-> "exchange", grant |-> g]
  <2>1. /\ grant[g].state = "there" /\ call' = [call EXCEPT ![h] = q]
        /\ grant' = [grant EXCEPT ![g] = e]
        /\ UNCHANGED <<token, subject, answers, ids>>
    BY <1>5 DEF BeginExchange, Enter
  <2>2. e \in GrantRecords /\ e.state = grant[g].state /\ (~e.read => ~grant[g].read /\ ~second)
    BY GrantFields DEF GrantRecords, OAuthInv
  <2>3. q \in OAuthCalls /\ q.step = "exchange" /\ q.grant = g
    BY LenProperties DEF OAuthCalls, OAuthInv, OAuthTyped
  <2>4. ~second => \A k \in Calls : ~Exchanges(k, g)
    <3>1. ASSUME NEW k \in Calls, Exchanges(k, g)
          PROVE  call[k] = [step |-> "exchange", grant |-> g]
      BY <3>1, CallFields DEF OAuthInv, Exchanges
    <3> QED BY <3>1
  <2> HIDE DEF e, q, second
  <2>5. /\ grant' \in Seq(GrantRecords) /\ DOMAIN grant' = DOMAIN grant
        /\ \A i \in DOMAIN grant : grant'[i] = IF i = g THEN e ELSE grant[i]
    BY <2>1, <2>2, GrantSet DEF OAuthInv
  <2>6. call' \in [Calls -> OAuthCalls] /\ \A k \in Calls : call'[k] = IF k = h THEN q ELSE call[k]
    BY <2>1, <2>3 DEF OAuthInv, OAuthTyped
  <2>7. OAuthTyped'
    BY <2>1, <2>3, <2>5, <2>6 DEF OAuthInv, OAuthTyped
  <2>8. \A t \in DOMAIN token : token[t].grant # g
    BY <2>1 DEF OAuthInv, CodesSpent
  <2>9. CodesSpent'
    <3>1. \A k \in Calls, i \in DOMAIN grant : Exchanges(k, i)' => Exchanges(k, i) \/ (k = h /\ i = g)
      BY <2>3, <2>6 DEF Exchanges
    <3>2. ~e.read => OneUse(g)'
      BY <2>1, <2>2, <2>4, <2>8, <3>1 DEF OneUse
    <3>3. \A i \in DOMAIN grant : i # g /\ OneUse(i) => OneUse(i)'
      BY <2>1, <3>1 DEF OneUse
    <3> QED BY <2>1, <2>2, <2>5, <2>8, <3>2, <3>3 DEF OAuthInv, CodesSpent
  <2>10. SubjectsApart'
    BY <2>1, <2>3, <2>6 DEF OAuthInv, SubjectsApart
  <2> QED BY <2>1, <2>7, <2>9, <2>10 DEF OAuthInv
<1>6. ASSUME NEW h \in Calls, IssueToken(h) PROVE OAuthInv'
  <2>1. PICK g \in DOMAIN grant : g = call[h].grant /\ call[h].step = "exchange"
    BY <1>6 DEF IssueToken, OAuthInv, OAuthTyped
  <2> DEFINE e == [grant[g] EXCEPT !.state = "gone"]
             n == [grant |-> g, there |-> TRUE]
  <2>2. /\ grant' = [grant EXCEPT ![g] = e] /\ token' = Append(token, n)
        /\ call' = [call EXCEPT ![h] = Waiting]
        /\ UNCHANGED <<subject, answers, ids>>
    BY <1>6, <2>1 DEF IssueToken, UsedUp, Return
  <2>3. e \in GrantRecords /\ e.state = "gone" /\ e.read = grant[g].read /\ n \in TokenRecords /\ n.grant = g
    BY GrantFields, LenProperties DEF GrantRecords, TokenRecords, OAuthInv, OAuthTyped
  <2> HIDE DEF e, n
  <2>4. /\ grant' \in Seq(GrantRecords) /\ DOMAIN grant' = DOMAIN grant
        /\ \A i \in DOMAIN grant : grant'[i] = IF i = g THEN e ELSE grant[i]
    BY <2>2, <2>3, GrantSet DEF OAuthInv
  <2>5. PICK m \in Nat : /\ m = Len(token) + 1 /\ m \notin DOMAIN token /\ token' \in Seq(TokenRecords)
                         /\ DOMAIN token' = DOMAIN token \union {m} /\ token'[m] = n
                         /\ \A t \in DOMAIN token : token'[t] = token[t]
    BY <2>2, <2>3, AppendProperties, LenProperties DEF OAuthInv, OAuthTyped
  <2>6. call' \in [Calls -> OAuthCalls] /\ \A k \in Calls : call'[k] = IF k = h THEN Waiting ELSE call[k]
    BY <1>0, <2>2 DEF OAuthInv, OAuthTyped
  <2>7. OAuthTyped'
    BY <1>0, <2>2, <2>3, <2>4, <2>5, <2>6 DEF OAuthInv, OAuthTyped
  <2>8. CodesSpent'
    <3>1. ASSUME NEW i \in DOMAIN grant, NEW t \in DOMAIN token', token'[t].grant = i PROVE grant'[i].state = "gone"
      BY <2>3, <2>4, <2>5, <3>1 DEF OAuthInv, CodesSpent
    <3>2. \A k \in Calls, i \in DOMAIN grant : Exchanges(k, i)' => k # h /\ Exchanges(k, i)
      BY <1>0, <2>6 DEF Exchanges
    <3>3. Exchanges(h, g)
      BY <2>1 DEF Exchanges
    <3>4. OneUse(g) => OneUse(g)'
      <4>1. SUFFICES ASSUME OneUse(g) PROVE OneUse(g)'
        OBVIOUS
      <4>2. (\A t \in DOMAIN token : token[t].grant # g) /\ \A k \in Calls : ~Exchanges(k, g)'
        BY <3>2, <3>3, <4>1 DEF OneUse
      <4>3. \A t \in DOMAIN token' : token'[t].grant = g => t = m
        BY <2>5, <4>2
      <4> QED BY <4>2, <4>3 DEF OneUse
    <3>5. ASSUME NEW i \in DOMAIN grant, i # g, OneUse(i) PROVE OneUse(i)'
      <4>1. \A t \in DOMAIN token' : token'[t].grant = i => t \in DOMAIN token /\ token[t].grant = i
        BY <2>3, <2>5, <3>5
      <4> QED BY <3>2, <3>5, <4>1 DEF OneUse
    <3> QED BY <2>3, <2>4, <3>1, <3>4, <3>5 DEF OAuthInv, CodesSpent
  <2>9. SubjectsApart'
    BY <1>0, <2>2, <2>6 DEF OAuthInv, SubjectsApart
  <2> QED BY <2>2, <2>7, <2>8, <2>9 DEF OAuthInv
<1>7. ASSUME NEW h \in Calls, NEW t \in DOMAIN token, BeginUserinfo(h, t) PROVE OAuthInv'
  <2> DEFINE q == [step |-> "subject", pair |-> PairOf(t), id |-> 0]
  <2>1. /\ call' = [call EXCEPT ![h] = q] /\ UNCHANGED <<grant, token, subject, answers, ids>>
    BY <1>7 DEF BeginUserinfo, Enter
  <2>2. grant[token[t].grant] \in GrantRecords
    BY GrantFields DEF OAuthInv, OAuthTyped
  <2>3. PairOf(t) \in SubjectPairs
    BY <2>2 DEF PairOf, SubjectPairs, GrantRecords
  <2>4. q \in OAuthCalls /\ q.step = "subject"
    BY <2>3 DEF OAuthCalls
  <2> HIDE DEF q
  <2>5. /\ call' \in [Calls -> OAuthCalls] /\ CodesSpent'
        /\ \A k \in Calls : call'[k].step = "exchange" => call'[k].grant \in DOMAIN grant
    BY <2>1, <2>4, CallSet DEF OAuthInv
  <2>6. OAuthTyped'
    BY <2>1, <2>5 DEF OAuthInv, OAuthTyped
  <2>7. \A k \in Calls : call'[k] = IF k = h THEN q ELSE call[k]
    BY <2>1 DEF OAuthInv, OAuthTyped
  <2>8. SubjectsApart'
    BY <2>1, <2>4, <2>7 DEF OAuthInv, SubjectsApart
  <2> QED BY <2>1, <2>5, <2>6, <2>8 DEF OAuthInv
<1>8. ASSUME NEW h \in Calls, LookupSubject(h) PROVE OAuthInv'
  <2>1. /\ call[h] \in [step : {"subject", "insert"}, pair : SubjectPairs, id : Nat]
        /\ UNCHANGED <<grant, token, subject>>
    BY <1>8, CallFields DEF LookupSubject, OAuthInv
  <2>2. CASE /\ ids' = ids + 1
             /\ call' = [call EXCEPT ![h].step = "insert", ![h].id = ids + 1]
             /\ answers' = answers
    <3> DEFINE q == [call[h] EXCEPT !.step = "insert", !.id = ids + 1]
    <3>1. call' = [call EXCEPT ![h] = q]
      BY <2>2 DEF OAuthInv, OAuthTyped
    <3>2. ids \in Nat /\ q \in [step : {"subject", "insert"}, pair : SubjectPairs, id : Nat]
      <4>1. ids \in Nat
        BY DEF OAuthInv, OAuthTyped
      <4>2. ASSUME NEW c \in [step : {"subject", "insert"}, pair : SubjectPairs, id : Nat], NEW i \in Nat
            PROVE  [c EXCEPT !.step = "insert", !.id = i] \in [step : {"subject", "insert"}, pair : SubjectPairs, id : Nat]
        OBVIOUS
      <4>3. ids + 1 \in Nat
        BY <4>1
      <4>4. [call[h] EXCEPT !.step = "insert", !.id = ids + 1] \in [step : {"subject", "insert"}, pair : SubjectPairs, id : Nat]
        BY <2>1, <4>2, <4>3
      <4> QED BY <4>1, <4>4
    <3>8. q \in OAuthCalls /\ q.step = "insert" /\ q.id = ids + 1
      BY <2>1, <3>2 DEF OAuthCalls
    <3> HIDE DEF q
    <3>3. /\ call' \in [Calls -> OAuthCalls] /\ CodesSpent'
          /\ \A k \in Calls : call'[k].step = "exchange" => call'[k].grant \in DOMAIN grant
      BY <2>1, <3>1, <3>8, CallSet DEF OAuthInv
    <3>4. OAuthTyped'
      BY <2>1, <2>2, <3>8, <3>3 DEF OAuthInv, OAuthTyped
    <3>5. \A k \in Calls : call'[k] = IF k = h THEN q ELSE call[k]
      BY <3>1 DEF OAuthInv, OAuthTyped
    <3>6. (\A s \in subject : s.id \in Nat) /\ \A k \in Calls : call[k].step = "insert" => call[k].id \in Nat
      BY CallFields DEF OAuthInv, OAuthTyped, SubjectRows
    <3>7. SubjectsApart'
      <4>1. \A s, r \in subject : s.pair = r.pair <=> s.id = r.id
        BY DEF OAuthInv, SubjectsApart
      <4>2. \A s \in subject : s.id <= ids' /\ s.id # q.id
        BY <2>2, <3>2, <3>8, <3>6 DEF OAuthInv, SubjectsApart
      <4>3. ASSUME NEW k \in Calls, k # h, call[k].step = "insert"
            PROVE  call[k].id <= ids' /\ call[k].id # q.id
        BY <2>2, <3>2, <3>8, <3>6, <4>3 DEF OAuthInv, SubjectsApart
      <4>4. ASSUME NEW k \in Calls, call'[k].step = "insert"
            PROVE  /\ call'[k].id <= ids' /\ \A s \in subject : s.id # call'[k].id
                   /\ \A l \in Calls : call'[l].step = "insert" /\ call'[l].id = call'[k].id => l = k
        <5>1. CASE k = h
          <6>1. call'[k] = q /\ \A l \in Calls \ {h} : call'[l] = call[l]
            BY <3>5, <5>1
          <6>2. q.id <= ids'
            BY <2>2, <3>2, <3>8
          <6>3. \A l \in Calls : call'[l].step = "insert" /\ call'[l].id = q.id => l = h
            BY <4>3, <6>1
          <6> QED BY <4>2, <5>1, <6>1, <6>2, <6>3
        <5>2. CASE k # h
          BY <3>8, <3>5, <4>3, <4>4, <5>2 DEF OAuthInv, SubjectsApart
        <5> QED BY <5>1, <5>2
      <4> QED BY <2>1, <4>1, <4>2, <4>4 DEF SubjectsApart
    <3> QED BY <2>1, <2>2, <3>3, <3>4, <3>7 DEF OAuthInv
  <2>3. CASE /\ ids' = ids
             /\ \E s \in Row(call[h].pair) : Tell(h, s.id)
    <3>1. PICK s \in subject : s.pair = call[h].pair /\ Tell(h, s.id)
      BY <2>3 DEF Row
    <3>2. [pair |-> call[h].pair, id |-> s.id] = s
      BY <3>1 DEF OAuthInv, OAuthTyped, SubjectRows
    <3>3. answers' = answers \union {s} /\ call' = [call EXCEPT ![h] = Waiting]
      BY <3>1, <3>2 DEF Tell, Return
    <3>4. /\ call' \in [Calls -> OAuthCalls] /\ CodesSpent'
          /\ \A k \in Calls : call'[k].step = "exchange" => call'[k].grant \in DOMAIN grant
      BY <1>0, <2>1, <3>3, CallSet DEF OAuthInv
    <3>5. OAuthTyped'
      BY <2>1, <2>3, <3>4 DEF OAuthInv, OAuthTyped
    <3>6. \A k \in Calls : call'[k] = IF k = h THEN Waiting ELSE call[k]
      BY <3>3 DEF OAuthInv, OAuthTyped
    <3>7. SubjectsApart'
      BY <1>0, <2>1, <2>3, <3>6 DEF OAuthInv, SubjectsApart
    <3> QED BY <2>1, <3>3, <3>4, <3>5, <3>7 DEF OAuthInv
  <2> QED BY <1>8, <2>2, <2>3 DEF LookupSubject
<1>9. ASSUME NEW h \in Calls, InsertSubject(h) PROVE OAuthInv'
  <2>1. /\ call[h] \in [step : {"subject", "insert"}, pair : SubjectPairs, id : Nat] /\ call[h].step = "insert"
        /\ UNCHANGED <<grant, token, ids>> /\ call' = [call EXCEPT ![h] = Waiting]
    BY <1>9, CallFields DEF InsertSubject, OAuthInv, Tell, Return
  <2>2. /\ call' \in [Calls -> OAuthCalls] /\ CodesSpent'
        /\ \A k \in Calls : call'[k].step = "exchange" => call'[k].grant \in DOMAIN grant
    BY <1>0, <2>1, CallSet DEF OAuthInv
  <2>3. \A k \in Calls : call'[k] = IF k = h THEN Waiting ELSE call[k]
    BY <2>1 DEF OAuthInv, OAuthTyped
  <2>4. CASE Row(call[h].pair) = {}
    <3> DEFINE n == [pair |-> call[h].pair, id |-> call[h].id]
    <3>1. subject' = subject \union {n} /\ answers' = answers \union {n}
      BY <1>9, <2>4 DEF InsertSubject, Tell, Told
    <3>2. n \in SubjectRows /\ n.pair = call[h].pair /\ n.id = call[h].id
      BY <2>1 DEF SubjectRows
    <3> HIDE DEF n
    <3>3. \A s \in subject : s.pair # n.pair
      BY <2>4, <3>2 DEF Row
    <3>4. OAuthTyped'
      BY <2>1, <2>2, <3>1, <3>2 DEF OAuthInv, OAuthTyped
    <3>5. SubjectsApart'
      <4>1. n.id <= ids /\ (\A s \in subject : s.id # n.id)
        BY <2>1, <3>2 DEF OAuthInv, SubjectsApart
      <4>2. ASSUME NEW k \in Calls, call'[k].step = "insert"
            PROVE  /\ call'[k] = call[k] /\ k # h /\ call[k].id # n.id
        BY <1>0, <2>1, <2>3, <3>2, <4>2 DEF OAuthInv, SubjectsApart
      <4> QED BY <2>1, <3>1, <3>3, <4>1, <4>2 DEF OAuthInv, SubjectsApart
    <3> QED BY <2>2, <3>1, <3>4, <3>5 DEF OAuthInv
  <2>5. CASE Row(call[h].pair) # {}
    <3>1. PICK s \in subject : s.pair = call[h].pair /\ s = CHOOSE r \in Row(call[h].pair) : TRUE
      BY <2>5 DEF Row
    <3>2. subject' = subject /\ answers' = answers \union {[pair |-> call[h].pair, id |-> s.id]}
      BY <1>9, <2>5, <3>1 DEF InsertSubject, Tell, Told
    <3>3. [pair |-> call[h].pair, id |-> s.id] = s
      BY <3>1 DEF OAuthInv, OAuthTyped, SubjectRows
    <3>4. OAuthTyped'
      BY <2>1, <2>2, <3>2 DEF OAuthInv, OAuthTyped
    <3>5. SubjectsApart'
      BY <1>0, <2>1, <2>3, <3>2 DEF OAuthInv, SubjectsApart
    <3> QED BY <2>2, <3>2, <3>3, <3>4, <3>5 DEF OAuthInv
  <2> QED BY <2>4, <2>5
<1>10. CASE UNCHANGED oauthVars
  BY <1>10 DEF oauthVars, OAuthInv, OAuthTyped, SubjectsApart, CodesSpent, OneUse, Exchanges
<1> QED BY <1>1, <1>2, <1>3, <1>4, <1>5, <1>6, <1>7, <1>8, <1>9, <1>10 DEF OAuthNext

\* A client knows a user by one subject and nobody else by it, and a code buys
\* one token, unless two requests read it at once, for any users, clients and
\* requests (oauth services).
THEOREM SubjectsAlwaysStable == OAuthSpec => []SubjectsStable
BY OAuthInitInv, OAuthStep, OAuthInvStable, PTL DEF OAuthSpec

(* ------------------------- keys and applications ------------------------- *)

KeyRows == [state : {"free", "live", "gone"}, for : {"user", "bot"}]
AppRows == [state : {"free", "live", "gone"}, waits : BOOLEAN, key : Keys \union {NoKey}]

\* What a request holds at its next step.
KeyJobs ==
  {Quiet} \union [step : {"insert"}, app : Apps \union {NoKey}] \union [step : {"check"}, app : Apps]
  \union [step : {"save"}, app : Apps, key : Keys] \union [step : {"drop"}, key : Keys]
  \union [step : {"end"}, app : Apps, row : AppRows]

KeyTyped ==
  /\ key \in [Keys -> KeyRows] /\ app \in [Apps -> AppRows] /\ job \in [Jobs -> KeyJobs]
  /\ joined \in BOOLEAN /\ crossed \in BOOLEAN

\* A request that saves key k or deletes it.
Makes(k) == \E j \in Jobs : job[j].step \in {"save", "drop"} /\ job[j].key = k

BotKeysHeld == \A k \in Keys : key[k].state = "live" /\ key[k].for = "bot" =>
                 Makes(k) \/ \E a \in Apps : app[a].state = "live" /\ app[a].key = k /\ ~app[a].waits
AppsServed == \A a \in Apps : app[a].state = "live" => app[a].waits \/ (app[a].key \in Keys /\ key[app[a].key].state = "live")
StrangersKeyless ==
  joined \/ /\ \A k \in Keys : key[k].state = "live" => Makes(k)
            /\ \A a \in Apps : app[a].state # "live"

KeyInv == KeyTyped /\ (~crossed => BotKeysHeld /\ AppsServed /\ StrangersKeyless)

LEMMA KeyInvFollow == KeyInv => KeysFollow
<1> SUFFICES ASSUME KeyInv, ~crossed PROVE KeysFollow
  BY DEF KeysFollow
<1>1. \A k \in Keys : Makes(k) => k \in Making
  BY DEF Makes, Making
<1>2. Live(key) = {k \in Keys : key[k].state = "live"} /\ Live(app) = {a \in Apps : app[a].state = "live"}
  BY DEF Live, KeyInv, KeyTyped
<1> QED BY <1>1, <1>2 DEF KeysFollow, KeyInv, BotKeysHeld, AppsServed, StrangersKeyless, WithKey

LEMMA KeyInitInv == KeyInit => KeyInv
<1> SUFFICES ASSUME KeyInit PROVE KeyInv
  OBVIOUS
<1>1. KeyTyped
  BY DEF KeyInit, KeyTyped, KeyRows, AppRows, KeyJobs
<1>2. BotKeysHeld /\ AppsServed /\ StrangersKeyless
  BY DEF KeyInit, BotKeysHeld, AppsServed, StrangersKeyless
<1> QED BY <1>1, <1>2 DEF KeyInv

\* The fields of the rows and of what a request holds.
LEMMA LiveRows ==
  ASSUME KeyTyped
  PROVE  /\ Live(key) = {k \in Keys : key[k].state = "live"} /\ Live(app) = {a \in Apps : app[a].state = "live"}
         /\ \A k \in Keys : WithKey(k) = {a \in Apps : app[a].state = "live" /\ app[a].key = k}
         /\ KeysLeft => NewKey \in Keys /\ key[NewKey].state = "free"
         /\ (\E a \in Apps : app[a].state = "free") => NewApp \in Apps /\ app[NewApp].state = "free"
BY DEF KeyTyped, Live, WithKey, KeysLeft, NewKey, NewApp

LEMMA JobFields ==
  ASSUME KeyTyped, NEW j \in Jobs
  PROVE  /\ job[j].step = "insert" => job[j] \in [step : {"insert"}, app : Apps \union {NoKey}]
         /\ job[j].step = "check" => job[j] \in [step : {"check"}, app : Apps]
         /\ job[j].step = "save" => job[j] \in [step : {"save"}, app : Apps, key : Keys]
         /\ job[j].step = "drop" => job[j] \in [step : {"drop"}, key : Keys]
         /\ job[j].step = "end" => job[j] \in [step : {"end"}, app : Apps, row : AppRows]
BY DEF KeyTyped, KeyJobs, Quiet

\* What is done of a request that neither saves a key nor deletes one.
LEMMA MakersStay ==
  ASSUME KeyTyped, NEW j \in Jobs, NEW q, job' = [job EXCEPT ![j] = q], 
         job[j] = Quiet \/ job[j].step \notin {"save", "drop"}
  PROVE  \A k \in Keys : Makes(k) => Makes(k)'
BY DEF KeyTyped, Makes, Quiet

LEMMA KeyStep == KeyInv /\ [KeyNext]_keyVars => KeyInv'
<1> SUFFICES ASSUME KeyInv, [KeyNext]_keyVars PROVE KeyInv'
  OBVIOUS
<1> USE DEF KeyInv
<1>1. ASSUME NEW j \in Jobs, BeginCreateKey(j) PROVE KeyInv'
  <2>1. /\ job' = [job EXCEPT ![j] = [step |-> "insert", app |-> NoKey]] /\ job[j] = Quiet
        /\ UNCHANGED <<joined, key, app, crossed>>
    BY <1>1 DEF BeginCreateKey, Receive
  <2>2. KeyTyped'
    BY <2>1 DEF KeyTyped, KeyJobs
  <2>3. \A k \in Keys : Makes(k) => Makes(k)'
    BY <2>1, MakersStay
  <2> QED BY <2>1, <2>2, <2>3 DEF BotKeysHeld, AppsServed, StrangersKeyless
<1>2. ASSUME NEW j \in Jobs, CheckCallback(j) PROVE KeyInv'
  <2>1. /\ job' = [job EXCEPT ![j].step = "insert"] \/ job' = [job EXCEPT ![j] = Quiet]
        /\ job[j] \in [step : {"check"}, app : Apps]
        /\ UNCHANGED <<joined, key, app, crossed>>
    BY <1>2, JobFields DEF CheckCallback, Rest
  <2>2. PICK q \in KeyJobs : job' = [job EXCEPT ![j] = q]
    <3>1. Quiet \in KeyJobs /\ [job[j] EXCEPT !.step = "insert"] \in KeyJobs
      BY <2>1 DEF KeyJobs
    <3> QED BY <2>1, <3>1
  <2>3. KeyTyped'
    BY <2>1, <2>2 DEF KeyTyped
  <2>4. \A k \in Keys : Makes(k) => Makes(k)'
    BY <2>1, <2>2, MakersStay
  <2> QED BY <2>1, <2>3, <2>4 DEF BotKeysHeld, AppsServed, StrangersKeyless
<1>3. ASSUME NEW j \in Jobs, InsertKey(j) PROVE KeyInv'
  <2>1. PICK n \in Keys : n = NewKey /\ key[n].state = "free"
    BY <1>3, LiveRows DEF InsertKey
  <2>2. /\ job[j] \in [step : {"insert"}, app : Apps \union {NoKey}]
        /\ key' = [key EXCEPT ![n] = [state |-> "live", for |-> IF job[j].app = NoKey THEN "user" ELSE "bot"]]
        /\ crossed' = (crossed \/ (~joined /\ job[j].app = NoKey))
        /\ app' = app /\ joined' = joined
    BY <1>3, <2>1, JobFields DEF InsertKey
  <2>3. PICK q \in KeyJobs : /\ job' = [job EXCEPT ![j] = q]
                             /\ job[j].app # NoKey => q = [step |-> "save", app |-> job[j].app, key |-> n]
    <3>1. CASE job[j].app = NoKey
      BY <1>3, <2>1, <3>1 DEF InsertKey, Rest, KeyJobs
    <3>2. CASE job[j].app # NoKey
      <4>1. [step |-> "save", app |-> job[j].app, key |-> n] \in KeyJobs
        BY <2>2, <3>2 DEF KeyJobs
      <4> QED BY <1>3, <2>1, <3>2, <4>1 DEF InsertKey
    <3> QED BY <3>1, <3>2
  <2>4. KeyTyped'
    BY <2>2, <2>3 DEF KeyTyped, KeyRows
  <2>5. \A k \in Keys : Makes(k) => Makes(k)'
    BY <2>2, <2>3, MakersStay
  <2>6. job[j].app # NoKey => Makes(n)'
    BY <2>3 DEF KeyTyped, Makes
  <2>7. \A k \in Keys \ {n} : key'[k] = key[k]
    BY <2>2 DEF KeyTyped
  <2>8. key'[n].state = "live" /\ (job[j].app = NoKey => key'[n].for = "user")
    BY <2>2 DEF KeyTyped
  <2>9. ~crossed' => ~crossed /\ (job[j].app = NoKey => joined)
    BY <2>2 DEF KeyTyped
  <2>10. ~crossed => BotKeysHeld'
    BY <2>2, <2>5, <2>6, <2>7, <2>8 DEF BotKeysHeld
  <2>11. ~crossed => AppsServed'
    BY <2>1, <2>2, <2>7, <2>8 DEF AppsServed
  <2>12. ~crossed' => StrangersKeyless'
    BY <2>2, <2>5, <2>6, <2>7, <2>9 DEF StrangersKeyless
  <2> QED BY <2>4, <2>9, <2>10, <2>11, <2>12
<1>4. ASSUME NEW j \in Jobs, NEW k \in Keys, BeginDeleteKey(j, k) PROVE KeyInv'
  <2>1. /\ job' = [job EXCEPT ![j] = [step |-> "drop", key |-> k]] /\ job[j] = Quiet
        /\ app' = [a \in Apps |-> IF app[a].state = "live" /\ app[a].key = k
                                    THEN [app[a] EXCEPT !.state = "gone"] ELSE app[a]]
        /\ UNCHANGED <<joined, key, crossed>>
    BY <1>4, LiveRows DEF BeginDeleteKey, Receive, Ended
  <2>2. KeyTyped'
    BY <2>1 DEF KeyTyped, KeyJobs, AppRows
  <2>3. (\A i \in Keys : Makes(i) => Makes(i)') /\ Makes(k)'
    <3>1. Makes(k)'
      BY <2>1 DEF KeyTyped, Makes
    <3> QED BY <2>1, <3>1, MakersStay
  <2>4. \A a \in Apps : /\ app'[a].state = "live" => app'[a] = app[a]
                        /\ app[a].state = "live" /\ app[a].key # k => app'[a] = app[a]
    BY <2>1 DEF KeyTyped, AppRows
  <2> QED BY <2>1, <2>2, <2>3, <2>4 DEF BotKeysHeld, AppsServed, StrangersKeyless
<1>5. ASSUME NEW j \in Jobs, DropKey(j) PROVE KeyInv'
  <2>1. PICK k \in Keys : k = job[j].key
    BY <1>5, JobFields DEF DropKey
  <2>2. /\ job' = [job EXCEPT ![j] = Quiet] /\ key' = [key EXCEPT ![k].state = "gone"]
        /\ crossed' = (crossed \/ WithKey(k) # {} \/ \E i \in Jobs : job[i].step = "save" /\ job[i].key = k)
        /\ app' = app /\ joined' = joined
    BY <1>5, <2>1 DEF DropKey, Rest
  <2>3. KeyTyped'
    BY <2>2 DEF KeyTyped, KeyRows, KeyJobs
  <2>4. \A i \in Keys \ {k} : (Makes(i) => Makes(i)') /\ key'[i] = key[i]
    BY <2>1, <2>2 DEF KeyTyped, Makes
  <2>5. key'[k].state = "gone"
    BY <2>2 DEF KeyTyped, KeyRows
  <2>6. ~crossed' => ~crossed /\ \A a \in Apps : app[a].state = "live" => app[a].key # k
    BY <2>2, LiveRows DEF KeyTyped
  <2> QED BY <2>2, <2>3, <2>4, <2>5, <2>6 DEF BotKeysHeld, AppsServed, StrangersKeyless
<1>6. CASE CreateApplication
  <2>1. PICK n \in Apps : n = NewApp /\ app[n].state = "free"
    BY <1>6, LiveRows DEF CreateApplication
  <2>2. /\ \E k \in Keys \union {NoKey} : app' = [app EXCEPT ![n] = [state |-> "live", waits |-> TRUE, key |-> k]]
        /\ joined /\ UNCHANGED <<joined, key, job, crossed>>
    BY <1>6, <2>1 DEF CreateApplication
  <2>3. KeyTyped'
    BY <2>2 DEF KeyTyped, AppRows
  <2>4. app'[n].waits /\ \A a \in Apps : app[a].state = "live" => app'[a] = app[a]
    BY <2>1, <2>2 DEF KeyTyped
  <2>5. \A a \in Apps \ {n} : app'[a] = app[a]
    BY <2>2 DEF KeyTyped
  <2> QED BY <2>2, <2>3, <2>4, <2>5 DEF BotKeysHeld, AppsServed, StrangersKeyless, Makes
<1>7. ASSUME NEW j \in Jobs, NEW a \in Apps, BeginCallback(j, a) PROVE KeyInv'
  <2>1. /\ job' = [job EXCEPT ![j] = [step |-> "check", app |-> a]] /\ job[j] = Quiet
        /\ UNCHANGED <<joined, key, app, crossed>>
    BY <1>7 DEF BeginCallback, Receive
  <2>2. KeyTyped'
    BY <2>1 DEF KeyTyped, KeyJobs
  <2>3. \A k \in Keys : Makes(k) => Makes(k)'
    BY <2>1, MakersStay
  <2> QED BY <2>1, <2>2, <2>3 DEF BotKeysHeld, AppsServed, StrangersKeyless
<1>8. ASSUME NEW j \in Jobs, NEW a \in Apps, BeginDeleteApplication(j, a) PROVE KeyInv'
  <2>1. /\ job' = [job EXCEPT ![j] = [step |-> "end", app |-> a, row |-> app[a]]] /\ job[j] = Quiet
        /\ UNCHANGED <<joined, key, app, crossed>>
    BY <1>8 DEF BeginDeleteApplication, Receive
  <2>2. KeyTyped'
    BY <2>1 DEF KeyTyped, KeyJobs
  <2>3. \A k \in Keys : Makes(k) => Makes(k)'
    BY <2>1, MakersStay
  <2> QED BY <2>1, <2>2, <2>3 DEF BotKeysHeld, AppsServed, StrangersKeyless
<1>9. ASSUME NEW j \in Jobs, SaveApplication(j) PROVE KeyInv'
  <2>1. PICK a \in Apps, k \in Keys : a = job[j].app /\ k = job[j].key
    BY <1>9, JobFields DEF SaveApplication
  <2>2. PICK state \in {"live", app[a].state} :
          app' = [app EXCEPT ![a] = [state |-> state, waits |-> FALSE, key |-> k]]
    BY <1>9, <2>1 DEF SaveApplication
  <2>3. /\ job' = [job EXCEPT ![j] = Quiet]
        /\ crossed' = (crossed \/ app[a].state # "live" \/ ~app[a].waits \/ key[k].state # "live")
        /\ key' = key /\ joined' = joined
    BY <1>9, <2>1 DEF SaveApplication, Rest
  <2>4. KeyTyped'
    BY <2>2, <2>3 DEF KeyTyped, KeyJobs, AppRows
  <2>5. \A i \in Keys \ {k} : Makes(i) => Makes(i)'
    BY <2>1, <2>3 DEF KeyTyped, Makes
  <2>6. SUFFICES ASSUME ~crossed' PROVE BotKeysHeld' /\ AppsServed' /\ StrangersKeyless'
    BY <2>4
  <2>7. ~crossed /\ app[a].state = "live" /\ app[a].waits /\ key[k].state = "live"
    BY <2>3, <2>6 DEF KeyTyped
  <2>8. app'[a].state = "live" /\ app'[a].key = k /\ ~app'[a].waits /\ app[a].waits /\ \A b \in Apps \ {a} : app'[b] = app[b]
    BY <2>2, <2>7 DEF KeyTyped
  <2>9. BotKeysHeld'
    BY <2>3, <2>5, <2>7, <2>8, KeyAssumption DEF BotKeysHeld
  <2>10. AppsServed'
    BY <2>3, <2>7, <2>8 DEF AppsServed
  <2>11. StrangersKeyless'
    BY <2>3, <2>5, <2>7, <2>8 DEF StrangersKeyless
  <2> QED BY <2>9, <2>10, <2>11
<1>10. ASSUME NEW j \in Jobs, DeleteApplication(j) PROVE KeyInv'
  <2>1. /\ job[j] \in [step : {"end"}, app : Apps, row : AppRows]
        /\ UNCHANGED <<joined, key>>
    BY <1>10, JobFields DEF DeleteApplication
  <2>2. PICK a \in Apps, k \in Keys \union {NoKey} : a = job[j].app /\ k = job[j].row.key
    BY <2>1 DEF AppRows
  <2>3. /\ app' = [b \in Apps |-> IF b = a THEN [app[b] EXCEPT !.state = "gone"] ELSE app[b]]
        /\ crossed' = (crossed \/ (app[a].state = "live" /\ app[a] # job[j].row))
        /\ IF app[a].state = "live" /\ k # NoKey
             THEN job' = [job EXCEPT ![j] = [step |-> "drop", key |-> k]]
             ELSE job' = [job EXCEPT ![j] = Quiet]
    BY <1>10, <2>2 DEF DeleteApplication, AfterDelete, Ended, Rest
  <2>4. PICK q \in KeyJobs : /\ job' = [job EXCEPT ![j] = q]
                             /\ app[a].state = "live" /\ k # NoKey => q = [step |-> "drop", key |-> k]
    BY <2>2, <2>3 DEF KeyJobs
  <2>5. KeyTyped'
    BY <2>1, <2>3, <2>4 DEF KeyTyped, AppRows
  <2>6. \A i \in Keys : Makes(i) => Makes(i)'
    BY <2>1, <2>4, MakersStay
  <2>7. app[a].state = "live" /\ k # NoKey => Makes(k)'
    BY <2>4 DEF KeyTyped, Makes
  <2>8. app'[a].state = "gone" /\ \A b \in Apps \ {a} : app'[b] = app[b]
    BY <2>3 DEF KeyTyped, AppRows
  <2>9. ~crossed' => ~crossed /\ (app[a].state = "live" => app[a].key = k)
    BY <2>2, <2>3 DEF KeyTyped
  <2>10. ~crossed' => BotKeysHeld'
    BY <2>1, <2>6, <2>7, <2>8, <2>9, KeyAssumption DEF BotKeysHeld
  <2>11. ~crossed' => AppsServed' /\ StrangersKeyless'
    BY <2>1, <2>6, <2>8, <2>9 DEF AppsServed, StrangersKeyless
  <2> QED BY <2>5, <2>10, <2>11
<1>11. CASE Quit
  <2>1. /\ key' = [k \in Keys |-> IF key[k].state = "live" THEN [key[k] EXCEPT !.state = "gone"] ELSE key[k]]
        /\ app' = [a \in Apps |-> IF app[a].state = "live" THEN [app[a] EXCEPT !.state = "gone"] ELSE app[a]]
        /\ joined' = FALSE /\ UNCHANGED <<job, crossed>>
    BY <1>11, LiveRows DEF Quit, Ended
  <2>2. KeyTyped'
    BY <2>1, ZenonT(40) DEF KeyTyped, KeyRows, AppRows
  <2>3. (\A k \in Keys : key'[k].state # "live") /\ (\A a \in Apps : app'[a].state # "live")
    BY <2>1 DEF KeyTyped, KeyRows, AppRows
  <2> QED BY <2>2, <2>3 DEF BotKeysHeld, AppsServed, StrangersKeyless
<1>12. CASE JoinAgain
  BY <1>12 DEF JoinAgain, KeyTyped, BotKeysHeld, AppsServed, StrangersKeyless, Makes
<1>13. CASE UNCHANGED keyVars
  BY <1>13 DEF keyVars, KeyTyped, BotKeysHeld, AppsServed, StrangersKeyless, Makes
<1> QED BY <1>1, <1>2, <1>3, <1>4, <1>5, <1>6, <1>7, <1>8, <1>9, <1>10, <1>11, <1>12, <1>13 DEF KeyNext

\* A key a bot made is a live application's or about to be, a live application
\* has a live key or waits for its bot, and who is no member has no key, unless
\* requests crossed, for any keys, applications and requests
\* (applications.service.ts, namespaces.service.ts).
THEOREM KeysAlwaysFollow == KeySpec => []KeysFollow
BY KeyInitInv, KeyStep, KeyInvFollow, PTL DEF KeySpec

(* -------------------------------- shares --------------------------------- *)

ShareRows(passwords) == [enabled : BOOLEAN, password : passwords, owner : Hosts \union {Ownerless}]
SettingRequests ==
  [at : {"save", "write"}, first : BOOLEAN, named : SUBSET Columns, late : BOOLEAN, differ : SUBSET AllColumns,
   copy : ShareRows({"none", "set"})]

ShareTyped ==
  /\ share \in ShareRows({"absent", "none", "set"}) /\ (share = NoShare <=> share.password = "absent")
  /\ hosts \subseteq Hosts
  /\ update \in [Updates -> SettingRequests \union {NoUpdate}]
  /\ orders \in [enabled : BOOLEAN, password : {"none", "set"}]
  /\ torn \subseteq AllColumns

\* The copy of a request that nobody has overtaken is the row but for what the
\* request names, and its owner is there.
UpToDate(q) ==
  /\ q.first <=> share = NoShare
  /\ \A c \in Columns \ q.named : q.copy[c] = IF share = NoShare THEN NewShare[c] ELSE share[c]
  /\ "enabled" \in q.named => q.copy.owner \in hosts
  /\ q.copy.owner \in hosts \union {share.owner}
  /\ q.at = "write" => ~q.first /\ q.differ = {c \in AllColumns : q.copy[c] # share[c]}

ShareInv ==
  /\ ShareTyped
  /\ share = NoShare => orders.enabled = FALSE /\ orders.password = "none" /\ torn = {}
  /\ \A h \in Updates : update[h] # NoUpdate /\ ~update[h].late => UpToDate(update[h])
  /\ \A h \in Updates : update[h] # NoUpdate /\ (update[h].at = "write" \/ ~update[h].first) => share # NoShare
  /\ SharesAsAsked

LEMMA ShareInitInv == ShareInit => ShareInv
<1> SUFFICES ASSUME ShareInit PROVE ShareInv
  OBVIOUS
<1>1. CASE share = NoShare
  BY <1>1, ShareAssumption DEF ShareInit, ShareInv, ShareTyped, ShareRows, NoShare, SharesAsAsked
<1>2. CASE share = [enabled |-> TRUE, password |-> "none", owner |-> Ownerless]
  BY <1>2 DEF ShareInit, ShareInv, ShareTyped, ShareRows, NoShare, SharesAsAsked, Columns
<1> QED BY <1>1, <1>2 DEF ShareInit

LEMMA SettingRequested ==
  ASSUME ShareTyped, NEW h \in Updates, update[h] # NoUpdate \/ update[h].at \in {"save", "write"}
  PROVE  update[h] \in SettingRequests /\ update[h] # NoUpdate
BY DEF ShareTyped, NoUpdate, SettingRequests

LEMMA SavedInv ==
  ASSUME ShareInv, NEW h \in Updates, NEW row \in ShareRows({"none", "set"}), update[h] \in SettingRequests,
         ~update[h].late => row = update[h].copy /\ UpToDate(update[h]),
         Saved(h, row)
  PROVE  ShareInv'
<1> DEFINE q == update[h]
<1>1. /\ share' = row /\ hosts' = hosts
      /\ orders' = [c \in Columns |-> IF c \in q.named THEN q.copy[c] ELSE orders[c]]
      /\ torn' = IF q.late THEN {c \in Columns : row[c] # orders'[c]} \union {"owner"}
                ELSE torn \ (q.named \union IF "enabled" \in q.named THEN {"owner"} ELSE {})
      /\ update' = [g \in Updates |-> IF g = h THEN NoUpdate
                               ELSE IF update[g] = NoUpdate THEN NoUpdate ELSE [update[g] EXCEPT !.late = TRUE]]
  BY DEF Saved, Overtaking
<1>2. orders' \in [enabled : BOOLEAN, password : {"none", "set"}]
  BY <1>1 DEF ShareInv, ShareTyped, SettingRequests, ShareRows, Columns
<1>3. share' # NoShare /\ share'.password # "absent"
  BY <1>1 DEF ShareRows, NoShare
<1>4. update' \in [Updates -> SettingRequests \union {NoUpdate}]
  BY <1>1 DEF ShareInv, ShareTyped, SettingRequests
<1>5. ShareTyped'
  BY <1>1, <1>2, <1>3, <1>4 DEF ShareInv, ShareTyped, ShareRows, AllColumns
<1>6. ASSUME NEW g \in Updates, update'[g] # NoUpdate PROVE update'[g].late
  BY <1>1, <1>6 DEF ShareInv, ShareTyped, SettingRequests
<1>7. \A c \in Columns \ torn' : share'[c] = orders'[c]
  <2>1. CASE q.late
    BY <1>1, <2>1
  <2>2. CASE ~q.late
    <3>1. ASSUME NEW c \in Columns, c \notin torn, c \notin q.named PROVE row[c] = orders[c]
      BY <2>2, <3>1 DEF ShareInv, SharesAsAsked, UpToDate, Columns, NewShare, NoShare
    <3> QED BY <1>1, <2>2, <3>1 DEF Columns
  <2> QED BY <2>1, <2>2
<1>8. share'.enabled /\ "owner" \notin torn' => share'.owner \in hosts' \union {Ownerless}
  <2>1. CASE q.late
    BY <1>1, <2>1
  <2>2. CASE ~q.late /\ "enabled" \in q.named
    BY <1>1, <2>2 DEF UpToDate
  <2>3. CASE ~q.late /\ "enabled" \notin q.named
    <3>1. row.enabled = IF share = NoShare THEN FALSE ELSE share.enabled
      BY <2>3 DEF UpToDate, Columns, NewShare, NoShare
    <3>2. "owner" \notin torn' => "owner" \notin torn
      BY <1>1, <2>3 DEF ShareInv, ShareTyped, SettingRequests, Columns
    <3>3. share.enabled /\ "owner" \notin torn => row.owner \in hosts \union {Ownerless}
      BY <2>3 DEF UpToDate, ShareInv, SharesAsAsked
    <3> QED BY <1>1, <3>1, <3>2, <3>3
  <2> QED BY <2>1, <2>2, <2>3
<1> QED BY <1>3, <1>5, <1>6, <1>7, <1>8 DEF ShareInv, SharesAsAsked

LEMMA ShareStep == ShareInv /\ [ShareNext]_shareVars => ShareInv'
<1> SUFFICES ASSUME ShareInv, [ShareNext]_shareVars PROVE ShareInv'
  OBVIOUS
<1>1. ASSUME NEW h \in Updates, NEW u \in Hosts, NEW named \in SUBSET Columns, NEW value \in Settings,
             BeginSetting(h, u, named, value)
      PROVE  ShareInv'
  <2> DEFINE row == IF share = NoShare THEN NewShare ELSE share
             q == [at |-> "save", first |-> share = NoShare, named |-> named, late |-> FALSE, differ |-> {},
                   copy |-> [enabled |-> IF "enabled" \in named THEN value.enabled ELSE row.enabled,
                             password |-> IF "password" \in named THEN value.password ELSE row.password,
                             owner |-> Opener(row, u, "enabled" \in named)]]
  <2>1. /\ update' = [update EXCEPT ![h] = q] /\ u \in hosts
        /\ share' = share /\ hosts' = hosts /\ orders' = orders /\ torn' = torn
    BY <1>1 DEF BeginSetting
  <2>2. row \in ShareRows({"none", "set"}) /\ row.owner = share.owner
    <3>1. CASE share = NoShare
      BY <3>1 DEF NewShare, NoShare, ShareRows
    <3>2. CASE share # NoShare
      BY <3>2 DEF ShareInv, ShareTyped, ShareRows
    <3> QED BY <3>1, <3>2
  <2>3. Opener(row, u, "enabled" \in named) \in {u, share.owner}
    BY <2>2 DEF Opener
  <2>4. "enabled" \in named => Opener(row, u, "enabled" \in named) = u
    BY DEF Opener
  <2> HIDE DEF row
  <2>5. q.copy \in ShareRows({"none", "set"})
    BY <2>2, <2>3 DEF ShareRows, Settings, ShareInv, ShareTyped
  <2>6. q \in SettingRequests
    BY <2>5 DEF SettingRequests
  <2>7. UpToDate(q)
    <3>1. \A c \in Columns \ named : q.copy[c] = row[c]
      BY DEF Columns
    <3> QED BY <2>1, <2>3, <2>4, <3>1 DEF UpToDate, row
  <2>8. q.at # "write"
    OBVIOUS
  <2>9. ~q.first => share # NoShare
    OBVIOUS
  <2> HIDE DEF q
  <2>10. ShareTyped'
    BY <2>1, <2>6 DEF ShareInv, ShareTyped
  <2>11. ASSUME NEW g \in Updates, update'[g] # NoUpdate, ~update'[g].late PROVE UpToDate(update'[g])
    BY <2>1, <2>7, <2>11 DEF ShareInv, ShareTyped
  <2>12. ASSUME NEW g \in Updates, update'[g] # NoUpdate, update'[g].at = "write" \/ ~update'[g].first
         PROVE  share # NoShare
    BY <2>1, <2>6, <2>8, <2>12, <2>9 DEF ShareInv, ShareTyped
  <2> QED BY <2>1, <2>10, <2>11, <2>12 DEF ShareInv, UpToDate, SharesAsAsked
<1>2. ASSUME NEW h \in Updates, Compare(h) PROVE ShareInv'
  <2>1. /\ update' = [update EXCEPT ![h].at = "write",
                                    ![h].differ = {c \in AllColumns : update[h].copy[c] # share[c]}]
        /\ update[h] \in SettingRequests /\ ~update[h].first
        /\ share' = share /\ hosts' = hosts /\ orders' = orders /\ torn' = torn
    BY <1>2, SettingRequested DEF Compare, ShareInv
  <2>2. ShareTyped'
    BY <2>1 DEF ShareInv, ShareTyped, SettingRequests
  <2>3. /\ update'[h].copy = update[h].copy /\ update'[h].named = update[h].named /\ update'[h].late = update[h].late
        /\ update'[h].first = update[h].first /\ update'[h].differ = {c \in AllColumns : update[h].copy[c] # share[c]}
        /\ \A g \in Updates \ {h} : update'[g] = update[g]
    BY <2>1 DEF ShareInv, ShareTyped, SettingRequests
  <2>4. update[h] # NoUpdate /\ share # NoShare
    BY <2>1 DEF ShareInv, SettingRequests, NoUpdate
  <2>5. ~update[h].late => UpToDate(update'[h])
    <3>1. /\ update[h].first = FALSE /\ update'[h].first = FALSE /\ update'[h].late = update[h].late
      BY <2>1, <2>3 DEF SettingRequests
    <3>2. SUFFICES ASSUME ~update[h].late, UpToDate(update[h]) PROVE UpToDate(update'[h])
      BY <2>4 DEF ShareInv
    <3> QED BY <2>3, <2>4, <3>1, <3>2 DEF UpToDate
  <2>6. ASSUME NEW g \in Updates, update'[g] # NoUpdate, ~update'[g].late PROVE UpToDate(update'[g])
    BY <2>3, <2>4, <2>5, <2>6 DEF ShareInv
  <2>7. ASSUME NEW g \in Updates, update'[g] # NoUpdate, ~update'[g].late PROVE UpToDate(update[g])'
    <3>1. UpToDate(update'[g])
      BY <2>6, <2>7
    <3> QED BY <2>1, <3>1 DEF UpToDate
  <2>8. SharesAsAsked' /\ share' # NoShare
    BY <2>1, <2>4 DEF ShareInv, SharesAsAsked
  <2> QED BY <2>1, <2>2, <2>7, <2>8 DEF ShareInv
<1>3. ASSUME NEW h \in Updates, Insert(h) PROVE ShareInv'
  <2>1. update[h] \in SettingRequests /\ update[h] # NoUpdate
    BY <1>3, SettingRequested DEF Insert, ShareInv
  <2>2. CASE share = NoShare /\ Saved(h, update[h].copy)
    <3>1. update[h].copy \in ShareRows({"none", "set"})
      BY <2>1 DEF SettingRequests
    <3> QED BY <2>1, <2>2, <3>1, SavedInv DEF ShareInv
  <2>3. CASE update' = [update EXCEPT ![h] = NoUpdate] /\ UNCHANGED <<share, hosts, updates, orders, torn>>
    BY <2>3 DEF ShareInv, ShareTyped, UpToDate, SharesAsAsked
  <2> QED BY <1>3, <2>2, <2>3 DEF Insert
<1>4. ASSUME NEW h \in Updates, WriteShare(h) PROVE ShareInv'
  <2> DEFINE row == [c \in AllColumns |-> IF c \in update[h].differ THEN update[h].copy[c] ELSE share[c]]
  <2>1. /\ update[h] \in SettingRequests /\ update[h] # NoUpdate /\ update[h].at = "write"
        /\ Saved(h, row)
    BY <1>4, SettingRequested DEF WriteShare, ShareInv
  <2>2. ~update[h].late => row = update[h].copy /\ UpToDate(update[h])
    BY <2>1 DEF ShareInv, UpToDate, SettingRequests, ShareRows, AllColumns, Columns
  <2>3. row \in ShareRows({"none", "set"})
    <3>1. share \in ShareRows({"none", "set"})
      BY <2>1 DEF ShareInv, ShareTyped, ShareRows
    <3> QED BY <2>1, <3>1 DEF SettingRequests, AllColumns, Columns, ShareRows
  <2> HIDE DEF row
  <2> QED BY <2>1, <2>2, <2>3, SavedInv
<1>5. ASSUME NEW u \in Hosts, DeleteHost(u) PROVE ShareInv'
  <2>1. ASSUME NEW g \in Updates, update'[g] # NoUpdate
        PROVE  /\ update[g] # NoUpdate /\ update'[g].late
               /\ update'[g].at = update[g].at /\ update'[g].first = update[g].first
    BY <1>5, <2>1 DEF DeleteHost, ShareInv, ShareTyped, SettingRequests
  <2>2. update' \in [Updates -> SettingRequests \union {NoUpdate}] /\ hosts' = hosts \ {u} /\ torn' = torn
    BY <1>5, ZenonT(40) DEF DeleteHost, ShareInv, ShareTyped, SettingRequests
  <2>3. CASE share.owner = u
    <3>1. share # NoShare /\ share' = [share EXCEPT !.enabled = FALSE] /\ orders' = [orders EXCEPT !.enabled = FALSE]
      BY <1>5, <2>3, ShareAssumption DEF DeleteHost, NoShare
    <3>2. share' # NoShare /\ share'.password # "absent" /\ ~share'.enabled /\ share'.password = share.password
          /\ share' \in ShareRows({"absent", "none", "set"})
      BY <3>1 DEF ShareInv, ShareTyped, ShareRows, NoShare
    <3>3. orders' \in [enabled : BOOLEAN, password : {"none", "set"}]
      BY <3>1 DEF ShareInv, ShareTyped
    <3>4. SharesAsAsked'
      BY <2>2, <3>1, <3>2 DEF ShareInv, ShareTyped, SharesAsAsked, Columns, ShareRows
    <3>5. ShareTyped'
      BY <2>2, <3>2, <3>3 DEF ShareInv, ShareTyped
    <3> QED BY <2>1, <3>2, <3>4, <3>5 DEF ShareInv
  <2>4. CASE share.owner # u
    <3>1. share' = share /\ orders' = orders
      BY <1>5, <2>4 DEF DeleteHost
    <3>2. ShareTyped'
      BY <2>2, <3>1 DEF ShareInv, ShareTyped
    <3>3. SharesAsAsked'
      BY <2>2, <2>4, <3>1 DEF ShareInv, SharesAsAsked
    <3> QED BY <2>1, <2>2, <3>1, <3>2, <3>3 DEF ShareInv
  <2> QED BY <2>3, <2>4
<1>6. CASE UNCHANGED shareVars
  BY <1>6 DEF shareVars, ShareInv, ShareTyped, UpToDate, SharesAsAsked
<1> QED BY <1>1, <1>2, <1>3, <1>4, <1>5, <1>6 DEF ShareNext

\* A share is as it was last asked to be and, while it is open, of an account
\* that is there, but for what overtaken saves tore, for any hosts and requests
\* (shares.service.ts).
THEOREM SharesStayAsAsked == ShareSpec => []SharesAsAsked
<1>1. ShareInv => SharesAsAsked
  BY DEF ShareInv
<1> QED BY <1>1, ShareInitInv, ShareStep, PTL DEF ShareSpec

(* ------------------------------ connections ------------------------------ *)

\* The parts of a program between its "begin" and its "commit".
InTransaction(k, i) ==
  /\ \E b \in DOMAIN Program[k] : b < i /\ Program[k][b] = "begin"
  /\ \A j \in DOMAIN Program[k] : j < i => Program[k][j] # "commit"

LEMMA KindsKnown ==
  Kinds = {"look", "claim", "insert", "editFeed", "file", "edit", "tag", "feed", "smartFolder", "move", "batch"}
BY DEF Kinds, Program

LEMMA OneBegin ==
  ASSUME NEW k \in Kinds, NEW i \in DOMAIN Program[k], NEW b \in DOMAIN Program[k], b < i
  PROVE  /\ ~(Program[k][b] = "begin" /\ Program[k][i] = "begin")
         /\ ~(Program[k][b] = "commit" /\ Program[k][i] = "begin")
BY KindsKnown
   DEF Program, Look, ClaimPoll, InsertItem, EditFeedFolder, CreateFile, EditTagged, ChangeTag,
       CreateFeedFolder, CreateSmartFolder, MoveTagged, BatchMove

LEMMA AsksAreNested ==
  ASSUME NEW k \in Kinds, NEW i \in DOMAIN Program[k], InTransaction(k, i), Program[k][i] = "ask"
  PROVE  k \in Nesting
BY KindsKnown
   DEF Nesting, InTransaction, Program, Look, ClaimPoll, InsertItem, EditFeedFolder, CreateFile, EditTagged, ChangeTag,
       CreateFeedFolder, CreateSmartFolder, MoveTagged, BatchMove

LEMMA Positions == ASSUME NEW k \in Kinds PROVE DOMAIN Program[k] \subseteq Nat \ {0}
BY KindsKnown
   DEF Program, Look, ClaimPoll, InsertItem, EditFeedFolder, CreateFile, EditTagged, ChangeTag,
       CreateFeedFolder, CreateSmartFolder, MoveTagged, BatchMove

LEMMA Ends == ASSUME NEW k \in Kinds PROVE Len(Program[k]) + 1 \in Nat \ {0}
BY KindsKnown
   DEF Program, Look, ClaimPoll, InsertItem, EditFeedFolder, CreateFile, EditTagged, ChangeTag,
       CreateFeedFolder, CreateSmartFolder, MoveTagged, BatchMove

PoolTyped ==
  /\ kind \in [Clerks -> Kinds]
  /\ step \in [Clerks -> Nat \ {0}]
  /\ inside \subseteq Clerks /\ asking \subseteq Clerks
  /\ queue \in Seq(Clerks)
  /\ awaits \in [Clerks -> SUBSET Clerks]

PoolInv ==
  /\ PoolTyped
  /\ \A c \in inside : InTransaction(kind[c], step[c])
  /\ \A c \in asking : Ahead(c, {"ask"}) /\ ~Queued(c)
  /\ \A c \in Clerks : Queued(c) => Ahead(c, {"begin", "ask"})
  /\ \A i, j \in DOMAIN queue : queue[i] = queue[j] => i = j
  /\ \A c \in Clerks : awaits[c] \subseteq inside
  /\ \A c \in Clerks : awaits[c] # {} => c \in inside /\ Ahead(c, {"write"})

\* Whoever waits in a transaction waits for a connection, as Nesting do alone, or
\* for another transaction; if none waited for a connection, all of them would be
\* a circle.
LEMMA PoolInvServes == PoolInv => PoolServes
<1> SUFFICES ASSUME PoolInv, Jam, \A c \in inside : ~(Queued(c) /\ kind[c] \in Nesting)
             PROVE  FALSE
  BY DEF PoolServes
<1>1. \A c \in inside : ~Queued(c)
  BY AsksAreNested, OneBegin, SMTT(20) DEF PoolInv, PoolTyped, Ahead, InTransaction
<1>2. \A c \in inside : awaits[c] \intersect inside # {}
  BY <1>1 DEF Jam, PoolInv, PoolTyped
<1>3. Circle(inside)
  BY <1>2 DEF Circle, Jam
<1> QED BY <1>3 DEF Jam

LEMMA Dequeued ==
  ASSUME NEW S, NEW q \in Seq(S), q # <<>>
  PROVE  /\ Head(q) \in S /\ 1 \in DOMAIN q /\ Head(q) = q[1] /\ Tail(q) \in Seq(S)
         /\ \A i \in DOMAIN Tail(q) : i \in Nat \ {0} /\ i + 1 \in DOMAIN q /\ Tail(q)[i] = q[i + 1]
<1>1. Len(q) \in Nat \ {0} /\ DOMAIN q = 1..Len(q)
  BY EmptySeq, LenProperties
<1>2. Head(q) \in S /\ Tail(q) \in Seq(S) /\ Len(Tail(q)) = Len(q) - 1
  BY HeadTailProperties
<1>3. \A i \in 1..Len(Tail(q)) : Tail(q)[i] = q[i + 1]
  BY HeadTailProperties
<1>4. DOMAIN Tail(q) = 1..Len(Tail(q))
  BY <1>2, LenProperties
<1>5. Head(q) = q[1]
  BY <1>1
<1> QED BY <1>1, <1>2, <1>3, <1>4, <1>5

LEMMA PoolInitInv == PoolInit => PoolInv
BY DEF PoolInit, PoolInv, PoolTyped, Queued, Ahead

LEMMA Begun ==
  ASSUME NEW k \in Kinds, NEW i \in DOMAIN Program[k], Program[k][i] = "begin"
  PROVE  InTransaction(k, i + 1)
BY Positions, OneBegin DEF InTransaction

LEMMA GoesOn ==
  ASSUME NEW k \in Kinds, NEW i \in DOMAIN Program[k], InTransaction(k, i), Program[k][i] # "commit"
  PROVE  InTransaction(k, i + 1)
BY Positions DEF InTransaction

\* What must be sound before a connection is handed on: those in a transaction,
\* those in a statement outside, the steps they are at, and whom they wait for.
Ready(ins, outs, at) ==
  /\ ins \subseteq Clerks /\ at \in [Clerks -> Nat \ {0}]
  /\ \A c \in ins : InTransaction(kind[c], at[c])
  /\ \A c \in outs : c \in asking /\ at[c] = step[c]
  /\ \A c \in Clerks : Queued(c) => at[c] = step[c]
  /\ awaits' \in [Clerks -> SUBSET Clerks]
  /\ \A c \in Clerks : awaits'[c] \subseteq ins
  /\ \A c \in Clerks : awaits'[c] # {} =>
       /\ c \in ins /\ at[c] = step[c]
       /\ Ahead(c, {"write"})

LEMMA Handed ==
  ASSUME PoolInv, NEW ins, NEW outs, NEW at,
         HandBack(ins, outs, at), kind' = kind, Ready(ins, outs, at)
  PROVE  PoolInv'
<1> USE DEF PoolTyped
<1>1. CASE queue = <<>>
  <2>1. inside' = ins /\ asking' = outs /\ step' = at /\ queue' = queue
    BY <1>1 DEF HandBack, Serve, Ready
  <2> QED BY <1>1, <2>1 DEF PoolInv, Queued, Ahead, Ready
<1>2. CASE queue # <<>>
  <2>0. /\ kind \in [Clerks -> Kinds] /\ step \in [Clerks -> Nat \ {0}] /\ queue \in Seq(Clerks)
        /\ inside \subseteq Clerks /\ asking \subseteq Clerks
        /\ \A i, j \in DOMAIN queue : queue[i] = queue[j] => i = j
    BY DEF PoolInv
  <2>h. PICK h \in Clerks : h = Head(queue)
    BY <1>2, <2>0, Dequeued
  <2>a. Serve({h}, ins, outs, at) /\ queue' = Tail(queue)
    BY <1>2, <2>h DEF HandBack
  <2>b. PICK started \in SUBSET {h} : started = {c \in {h} : Ahead(c, {"begin"})}
    OBVIOUS
  <2>1. /\ h \in Clerks /\ 1 \in DOMAIN queue /\ h = queue[1]
        /\ queue' \in Seq(Clerks)
        /\ \A i \in DOMAIN queue' : i \in Nat \ {0} /\ i + 1 \in DOMAIN queue /\ queue'[i] = queue[i + 1]
    <3>1. queue \in Seq(Clerks) /\ queue # <<>>
      BY <1>2, <2>0
    <3> QED BY <3>1, <2>h, <2>a, Dequeued
  <2>2. /\ inside' = ins \union started /\ asking' = outs \union ({h} \ started)
        /\ step' = [c \in Clerks |-> IF c \in started THEN step[c] + 1 ELSE at[c]]
        /\ ins \subseteq Clerks /\ at \in [Clerks -> Nat \ {0}] /\ outs \subseteq Clerks
    BY <2>a, <2>b, <2>0 DEF Serve, Ready
  <2>3. Queued(h) /\ ~Queued(h)' /\ \A c : Queued(c)' => Queued(c)
    <3>1. Queued(h)
      BY <2>1 DEF Queued
    <3>2. \A c : Queued(c)' => Queued(c)
      BY <2>1 DEF Queued
    <3>3. ~Queued(h)'
      BY <2>0, <2>1 DEF Queued
    <3> QED BY <3>1, <3>2, <3>3
  <2>4. /\ at[h] = step[h] /\ Ahead(h, {"begin", "ask"})
        /\ step[h] \in DOMAIN Program[kind[h]] /\ Program[kind[h]][step[h]] \in {"begin", "ask"}
    BY <2>1, <2>3 DEF PoolInv, Ahead, Ready
  <2>5. PoolTyped'
    BY <2>0, <2>1, <2>2 DEF Ready
  <2>6. ASSUME NEW c \in inside' PROVE InTransaction(kind[c], step'[c])
    <3>1. CASE c \in started
      BY <3>1, <2>0, <2>1, <2>2, <2>b, <2>4, Begun DEF Ahead
    <3>2. CASE c \notin started
      BY <3>2, <2>0, <2>2 DEF Ready
    <3> QED BY <3>1, <3>2
  <2>7. ASSUME NEW c \in asking' PROVE Ahead(c, {"ask"})' /\ ~Queued(c)'
    <3>1. CASE c = h
      BY <3>1, <2>0, <2>1, <2>2, <2>b, <2>3, <2>4 DEF Ahead, PoolInv, Ready
    <3>2. CASE c # h
      BY <3>2, <2>0, <2>2, <2>b, <2>3 DEF Ahead, PoolInv, Ready
    <3> QED BY <3>1, <3>2
  <2>8. ASSUME NEW c \in Clerks, Queued(c)' PROVE Ahead(c, {"begin", "ask"})'
    BY <2>8, <2>0, <2>2, <2>b, <2>3 DEF Ahead, PoolInv, Ready
  <2>9. \A i, j \in DOMAIN queue' : queue'[i] = queue'[j] => i = j
    BY <2>0, <2>1
  <2>10. ASSUME NEW c \in Clerks
         PROVE  /\ awaits'[c] \subseteq inside'
                /\ awaits'[c] # {} => c \in inside' /\ Ahead(c, {"write"})'
    <3>1. awaits'[c] \subseteq inside'
      BY <2>2 DEF Ready
    <3>2. ASSUME awaits'[c] # {} PROVE c \in inside' /\ Ahead(c, {"write"})'
      <4>1. c \in ins /\ at[c] = step[c] /\ Ahead(c, {"write"})
        BY <3>2 DEF Ready
      <4>2. c # h
        BY <4>1, <2>4 DEF Ahead
      <4> QED BY <4>1, <4>2, <2>0, <2>2 DEF Ahead
    <3> QED BY <3>1, <3>2
  <2> QED BY <2>5, <2>6, <2>7, <2>8, <2>9, <2>10 DEF PoolInv
<1> QED BY <1>1, <1>2

LEMMA PoolStep == PoolInv /\ [PoolNext]_poolVars => PoolInv'
<1> SUFFICES ASSUME PoolInv, [PoolNext]_poolVars PROVE PoolInv'
  OBVIOUS
<1> USE DEF PoolTyped
<1>1. ASSUME NEW c \in Clerks, Connect(c) PROVE PoolInv'
  <2>0. /\ Ahead(c, {"begin", "ask"}) /\ c \notin asking /\ ~Queued(c)
        /\ kind' = kind /\ awaits' = awaits
        /\ step[c] \in DOMAIN Program[kind[c]] /\ Program[kind[c]][step[c]] \in {"begin", "ask"}
    BY <1>1 DEF Connect, Busy, Ahead
  <2>1. CASE InUse < PoolSize /\ Serve({c}, inside, asking, step) /\ UNCHANGED queue
    <3> DEFINE started == {d \in {c} : Ahead(d, {"begin"})}
    <3>1. /\ inside' = inside \union started /\ asking' = asking \union ({c} \ started) /\ queue' = queue
          /\ step' = [d \in Clerks |-> IF d \in started THEN step[d] + 1 ELSE step[d]]
      BY <2>1 DEF Serve
    <3>2. PoolTyped'
      BY <2>0, <3>1 DEF PoolInv
    <3>3. \A d \in inside' : InTransaction(kind[d], step'[d])
      BY <2>0, <3>1, Begun DEF Ahead, PoolInv
    <3>4. \A d \in asking' : Ahead(d, {"ask"})' /\ ~Queued(d)'
      BY <2>0, <3>1 DEF Ahead, PoolInv, Queued
    <3>5. \A d \in Clerks : Queued(d)' => Ahead(d, {"begin", "ask"})'
      BY <2>0, <3>1 DEF Ahead, PoolInv, Queued
    <3>6. ASSUME NEW d \in Clerks
          PROVE  /\ awaits'[d] \subseteq inside'
                 /\ awaits'[d] # {} => d \in inside' /\ Ahead(d, {"write"})'
      BY <2>0, <3>1 DEF PoolInv, Ahead
    <3> QED BY <2>0, <3>1, <3>2, <3>3, <3>4, <3>5, <3>6 DEF PoolInv
  <2>2. CASE InUse = PoolSize /\ queue' = Append(queue, c) /\ UNCHANGED <<inside, asking, step>>
    <3>1. /\ queue \in Seq(Clerks) /\ queue' \in Seq(Clerks)
          /\ Len(queue) \in Nat /\ DOMAIN queue = 1..Len(queue)
          /\ DOMAIN queue' = 1..(Len(queue) + 1)
          /\ \A i \in DOMAIN queue : queue'[i] = queue[i]
          /\ queue'[Len(queue) + 1] = c
      BY <2>2, LenProperties, AppendProperties DEF PoolInv
    <3>2. \A d : Queued(d)' <=> d = c \/ Queued(d)
      BY <3>1 DEF Queued
    <3>3. \A i, j \in DOMAIN queue' : queue'[i] = queue'[j] => i = j
      BY <2>0, <3>1, SMTT(20) DEF Queued, PoolInv
    <3>4. \A d, what : Ahead(d, what)' = Ahead(d, what)
      BY <2>0, <2>2 DEF Ahead
    <3>5. awaits' = awaits /\ inside' = inside
      BY <2>0, <2>2
    <3> QED BY <2>0, <2>2, <3>1, <3>2, <3>3, <3>4, <3>5 DEF PoolInv
  <2> QED BY <1>1, <2>1, <2>2 DEF Connect
<1>2. ASSUME NEW c \in Clerks, Answered(c) PROVE PoolInv'
  <2> DEFINE left == [step EXCEPT ![c] = @ + 1]
  <2>1. /\ c \in asking /\ HandBack(inside, asking \ {c}, left) /\ kind' = kind /\ awaits' = awaits
    BY <1>2 DEF Answered
  <2>2. /\ Ahead(c, {"ask"}) /\ ~Queued(c) /\ left \in [Clerks -> Nat \ {0}]
        /\ inside \in SUBSET Clerks /\ asking \ {c} \in SUBSET Clerks
        /\ \A d \in Clerks : d # c => left[d] = step[d]
        /\ left[c] = step[c] + 1
    BY <2>1 DEF PoolInv
  <2>3. \A d \in inside : InTransaction(kind[d], left[d])
    BY <2>2, GoesOn DEF PoolInv, Ahead
  <2>4. Ready(inside, asking \ {c}, left)
    <3>1. \A d \in Clerks : Queued(d) => left[d] = step[d]
      BY <2>1, <2>2, <2>3
    <3>2. \A d \in asking \ {c} : d \in asking /\ left[d] = step[d]
      BY <2>1, <2>2, <2>3 DEF PoolInv
    <3>3. awaits' \in [Clerks -> SUBSET Clerks]
      BY <2>1 DEF PoolInv
    <3>4. ASSUME NEW d \in Clerks
          PROVE  /\ awaits'[d] \subseteq inside
                 /\ awaits'[d] # {} => d \in inside /\ left[d] = step[d] /\ Ahead(d, {"write"})
      BY <2>1, <2>2 DEF PoolInv, Ahead
    <3> HIDE DEF left
    <3> QED BY <2>2, <2>3, <3>1, <3>2, <3>3, <3>4 DEF Ready
  <2> QED BY <2>1, <2>4, Handed
<1>3. ASSUME NEW c \in Clerks, Write(c) PROVE PoolInv'
  <2>1. /\ c \in inside /\ Ahead(c, {"write"}) /\ awaits[c] = {}
        /\ step' = [step EXCEPT ![c] = @ + 1]
        /\ kind' = kind /\ inside' = inside /\ asking' = asking /\ queue' = queue /\ awaits' = awaits
    BY <1>3 DEF Write
  <2>2. /\ step[c] \in DOMAIN Program[kind[c]] /\ Program[kind[c]][step[c]] = "write"
        /\ c \notin asking /\ ~Queued(c)
    BY <2>1 DEF Ahead, PoolInv
  <2>3. PoolTyped'
    BY <2>1 DEF PoolInv
  <2>4. \A d \in inside' : InTransaction(kind[d], step'[d])
    BY <2>1, <2>2, GoesOn DEF PoolInv
  <2>5. \A d \in asking' : Ahead(d, {"ask"})' /\ ~Queued(d)'
    BY <2>1, <2>2 DEF Ahead, PoolInv, Queued
  <2>6. \A d \in Clerks : Queued(d)' => Ahead(d, {"begin", "ask"})'
    BY <2>1, <2>2 DEF Ahead, PoolInv, Queued
  <2>7. ASSUME NEW d \in Clerks
        PROVE  /\ awaits'[d] \subseteq inside'
               /\ awaits'[d] # {} => d \in inside' /\ Ahead(d, {"write"})'
    BY <2>1 DEF PoolInv, Ahead
  <2> QED BY <2>1, <2>3, <2>4, <2>5, <2>6, <2>7 DEF PoolInv
<1>8. ASSUME NEW c \in Clerks, Wait(c) PROVE PoolInv'
  <2>1. PICK D \in SUBSET (inside \ {c}) : awaits' = [awaits EXCEPT ![c] = D]
    BY <1>8 DEF Wait
  <2>2. /\ c \in inside /\ Ahead(c, {"write"})
        /\ kind' = kind /\ step' = step /\ inside' = inside /\ asking' = asking /\ queue' = queue
    BY <1>8 DEF Wait
  <2>3. PoolTyped'
    BY <2>1, <2>2 DEF PoolInv
  <2>4. ASSUME NEW d \in Clerks
        PROVE  /\ awaits'[d] \subseteq inside'
               /\ awaits'[d] # {} => d \in inside' /\ Ahead(d, {"write"})'
    BY <2>1, <2>2 DEF PoolInv, Ahead
  <2> QED BY <2>2, <2>3, <2>4 DEF PoolInv, Ahead, Queued
<1>4. ASSUME NEW c \in Clerks, NEW next \in Nat \ {0},
             c \in inside, ~Queued(c), c \notin asking, EndOf(c, next)
      PROVE  PoolInv'
  <2> DEFINE left == [step EXCEPT ![c] = next]
  <2>1. /\ HandBack(inside \ {c}, asking, left) /\ kind' = kind
        /\ awaits' = [d \in Clerks |-> IF d = c THEN {} ELSE awaits[d] \ {c}]
    BY <1>4 DEF EndOf
  <2>2. /\ left \in [Clerks -> Nat \ {0}]
        /\ inside \ {c} \in SUBSET Clerks /\ asking \in SUBSET Clerks
        /\ \A d \in Clerks : d # c => left[d] = step[d]
    BY <1>4 DEF PoolInv
  <2>3. \A d \in inside \ {c} : InTransaction(kind[d], left[d])
    BY <2>2 DEF PoolInv
  <2>4. Ready(inside \ {c}, asking, left)
    <3>1. \A d \in Clerks : Queued(d) => left[d] = step[d]
      BY <1>4, <2>1, <2>2, <2>3
    <3>2. \A d \in asking : d \in asking /\ left[d] = step[d]
      BY <1>4, <2>1, <2>2, <2>3 DEF PoolInv
    <3>3. awaits' \in [Clerks -> SUBSET Clerks]
      BY <2>1 DEF PoolInv
    <3>4. ASSUME NEW d \in Clerks
          PROVE  /\ awaits'[d] \subseteq inside \ {c}
                 /\ awaits'[d] # {} => d \in inside \ {c} /\ left[d] = step[d] /\ Ahead(d, {"write"})
      BY <2>1, <2>2 DEF PoolInv, Ahead
    <3> HIDE DEF left
    <3> QED BY <2>2, <2>3, <3>1, <3>2, <3>3, <3>4 DEF Ready
  <2> QED BY <2>1, <2>4, Handed
<1>5. ASSUME NEW c \in Clerks, CommitAll(c) PROVE PoolInv'
  <2>1. ~Queued(c) /\ c \notin asking
    BY <1>5 DEF CommitAll, PoolInv, Ahead
  <2> QED BY <1>4, <1>5, <2>1 DEF CommitAll, PoolInv
<1>6. ASSUME NEW c \in Clerks, Rollback(c) PROVE PoolInv'
  BY <1>4, <1>6, Ends DEF Rollback, Busy, PoolInv
<1>9. ASSUME NEW c \in Clerks, BreakCircle(c) PROVE PoolInv'
  <2>1. c \in inside /\ awaits[c] # {} /\ EndOf(c, Len(Program[kind[c]]) + 1)
    BY <1>9 DEF BreakCircle, Circle
  <2>2. ~Queued(c) /\ c \notin asking
    BY <2>1 DEF PoolInv, Ahead
  <2> QED BY <1>4, <2>1, <2>2, Ends DEF PoolInv
<1>7. CASE UNCHANGED poolVars
  BY <1>7 DEF poolVars, PoolInv, Queued, Ahead
<1> QED BY <1>1, <1>2, <1>3, <1>5, <1>6, <1>7, <1>8, <1>9 DEF PoolNext

\* A process whose transactions can all go no further has one among them that
\* waits for a second connection, with any number of requests and connections.
THEOREM PoolAlwaysServes == PoolSpec => []PoolServes
<1>1. PoolSpec => []PoolInv
  BY PoolInitInv, PoolStep, PTL DEF PoolSpec
<1> QED BY <1>1, PoolInvServes, PTL

(* ------------------------------- side by side ------------------------------- *)

\* A behaviour of the specification that the run checks is about one part, which
\* does there what it does by itself.
LEMMA AccountParts ==
  AccountSpec =>
    Spec /\ IdentitySpec /\ CodeSpec /\ OAuthSpec /\ KeySpec /\ ShareSpec /\ PoolSpec
<1>1. AccountInit => Init /\ IdentityInit /\ CodeInit /\ OAuthInit /\ KeyInit /\ ShareInit /\ PoolInit
  BY DEF AccountInit
<1>2. AccountNext =>
        /\ (Next \/ UNCHANGED vars) /\ (IdentityNext \/ UNCHANGED identityVars)
        /\ (CodeNext \/ UNCHANGED codeVars) /\ (OAuthNext \/ UNCHANGED oauthVars)
        /\ (KeyNext \/ UNCHANGED keyVars) /\ (ShareNext \/ UNCHANGED shareVars)
        /\ (PoolNext \/ UNCHANGED poolVars)
  BY DEF AccountNext
<1>3. UNCHANGED accountVars =>
        /\ UNCHANGED vars /\ UNCHANGED identityVars /\ UNCHANGED codeVars /\ UNCHANGED oauthVars
        /\ UNCHANGED keyVars /\ UNCHANGED shareVars /\ UNCHANGED poolVars
  BY DEF accountVars
<1>4. [AccountNext]_accountVars =>
        /\ [Next]_vars /\ [IdentityNext]_identityVars /\ [CodeNext]_codeVars /\ [OAuthNext]_oauthVars
        /\ [KeyNext]_keyVars /\ [ShareNext]_shareVars /\ [PoolNext]_poolVars
  BY <1>2, <1>3
<1> QED
  BY <1>1, <1>4, PTL DEF AccountSpec, Spec, IdentitySpec, CodeSpec, OAuthSpec, KeySpec, ShareSpec, PoolSpec

\* What an account was given goes with what it was given by, keys and shares
\* alike, in the specification that the run checks.
THEOREM GrantsAlwaysFollow == AccountSpec => []GrantsFollow
BY AccountParts, KeysAlwaysFollow, SharesStayAsAsked, PTL DEF GrantsFollow

\* Who a person is and where they belong: the specification of the run has all
\* that the run checks.
THEOREM AccountsAlwaysSound ==
  AccountSpec =>
    /\ [](OneOwner /\ MembershipsWhole /\ LoginsSound /\ CodesAreSpent /\ SubjectsStable /\ GrantsFollow /\ PoolServes)
    /\ OwnerKeepsAccess /\ SameAccountAgain
BY AccountParts, GrantsAlwaysFollow, OneOwnerAlways, MembershipsAlwaysWhole, OwnerKeepsAccessAlways, LoginsAlwaysSound,
   AccountsStayTheSame, CodesAlwaysSpent, SubjectsAlwaysStable, PoolAlwaysServes, PTL
=============================================================================
