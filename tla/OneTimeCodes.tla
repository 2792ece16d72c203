---------------------------- MODULE OneTimeCodes ----------------------------
(* The one-time code of a contact, an email or a phone: sending, typing and  *)
(* following the link (src/src/auth/otp.service.ts), and the same scheme for *)
(* binding a phone (bindPhone in src/src/user/user.service.ts).              *)
(*                                                                           *)
(* The record of the code and that of the rate limit are values of a cache   *)
(* that is read, then written as a whole or deleted.  Codes are numbered in  *)
(* the order they are drawn; NoCode is one that was never sent.              *)
EXTENDS Naturals

CONSTANTS Asks,           \* requests that may be under way
          AttemptLimit,   \* MAX_ATTEMPTS, MAX_PHONE_ATTEMPTS
          SendLimit,      \* RATE_LIMIT_MAX
          MaxCodes,       \* bound on the codes drawn
          MaxAsks         \* bound on the requests

ASSUME CodeAssumption ==
  {AttemptLimit, SendLimit, MaxCodes, MaxAsks} \subseteq Nat

VARIABLES record,     \* OtpRecord in the cache: code, attempts, past its time or not
          rate,       \* RateLimitRecord in the cache: sends of the window
          ask,        \* requests under way, with what they have read
          drawn,      \* codes drawn so far
          accepted,   \* how often each code was accepted
          failed,     \* how often each code was missed by one that was typed
          sends,      \* sends of this window
          blurred,    \* did a request act on a record another had changed?
          asked       \* requests so far

codeVars == <<record, rate, ask, drawn, accepted, failed, sends, blurred, asked>>

NoCode == 0
Nothing == [code |-> NoCode, attempts |-> 0, expired |-> FALSE]
Resting == [step |-> "rest"]

CodeInit ==
  /\ record = Nothing /\ rate = 0
  /\ ask = [a \in Asks |-> Resting]
  /\ drawn = 0
  /\ accepted = [c \in 1..MaxCodes |-> 0] /\ failed = [c \in 1..MaxCodes |-> 0]
  /\ sends = 0 /\ blurred = FALSE /\ asked = 0

Ask(a, q) ==
  /\ ask[a] = Resting /\ asked < MaxAsks
  /\ asked' = asked + 1
  /\ ask' = [ask EXCEPT ![a] = q]

Done(a) == ask' = [ask EXCEPT ![a] = Resting]

(* -------------------------------- sending --------------------------------- *)

\* generateOtp, to a contact that may have one (sendOTP, sendSignupOTP and the
\* same for phones): the window is read.
BeginSend(a) ==
  /\ drawn < MaxCodes
  /\ Ask(a, [step |-> "count", seen |-> rate])
  /\ UNCHANGED <<record, rate, drawn, accepted, failed, sends, blurred>>

\* checkRateLimit, to the end.
CountSend(a) ==
  /\ ask[a].step = "count"
  /\ IF ask[a].seen >= SendLimit
       THEN Done(a) /\ UNCHANGED <<rate, blurred, sends>>
       ELSE /\ rate' = ask[a].seen + 1
            /\ blurred' = (blurred \/ rate # ask[a].seen)
            /\ sends' = sends + 1
            /\ ask' = [ask EXCEPT ![a] = [step |-> "store"]]
  /\ UNCHANGED <<record, drawn, accepted, failed, asked>>

\* The new code replaces the one that is out.
Store(a) ==
  /\ ask[a].step = "store"
  /\ IF drawn < MaxCodes
       THEN /\ drawn' = drawn + 1
            /\ record' = [code |-> drawn + 1, attempts |-> 0, expired |-> FALSE]
       ELSE UNCHANGED <<drawn, record>>
  /\ Done(a)
  /\ UNCHANGED <<rate, accepted, failed, sends, blurred, asked>>

\* The window is over.
WindowEnds ==
  /\ sends > 0
  /\ rate' = 0 /\ sends' = 0
  /\ blurred' = (blurred \/ \E a \in Asks : ask[a].step = "count")
  /\ UNCHANGED <<record, ask, drawn, accepted, failed, asked>>

\* Five minutes are over: the cache drops the record, or is about to.
Expire ==
  /\ record # Nothing
  /\ \/ record' = Nothing
     \/ ~record.expired /\ record' = [record EXCEPT !.expired = TRUE]
  /\ UNCHANGED <<rate, ask, drawn, accepted, failed, sends, blurred, asked>>

(* ------------------------------- verifying -------------------------------- *)

\* verifyOtp reads the record.
BeginVerify(a, c) ==
  /\ record # Nothing
  /\ Ask(a, [step |-> "verify", code |-> c, seen |-> record])
  /\ UNCHANGED <<record, rate, drawn, accepted, failed, sends, blurred>>

\* verifyMagicToken does, too: the link carries the code, and expires with it.
BeginMagic(a, c) ==
  /\ record.code = c /\ ~record.expired
  /\ Ask(a, [step |-> "magic", code |-> c, seen |-> record])
  /\ UNCHANGED <<record, rate, drawn, accepted, failed, sends, blurred>>

\* A fault of Spent: the record stays after success.
SpentNever(r) == r

\* The record after success.
Spent(r) == Nothing

Accept(a) ==
  /\ record' = Spent(record)
  /\ accepted' = [accepted EXCEPT ![ask[a].code] = @ + 1]
  /\ blurred' = (blurred \/ record # ask[a].seen)
  /\ Done(a)
  /\ UNCHANGED <<rate, drawn, failed, sends, asked>>

FollowLink(a) == ask[a].step = "magic" /\ Accept(a)

\* verifyOtp after its read: too late, too often, wrong, or right.
Verify(a) ==
  LET q == ask[a]
      over == q.seen.expired \/ q.seen.attempts >= AttemptLimit IN
  /\ q.step = "verify"
  /\ IF over
       THEN /\ record' = Nothing
            /\ blurred' = (blurred \/ record \notin {Nothing, q.seen})
            /\ Done(a)
            /\ UNCHANGED <<rate, drawn, accepted, failed, sends, asked>>
       ELSE IF q.code = q.seen.code
         THEN Accept(a)
         ELSE /\ record' = [q.seen EXCEPT !.attempts = @ + 1]
              /\ failed' = [failed EXCEPT ![q.seen.code] = @ + 1]
              /\ blurred' = (blurred \/ record # q.seen)
              /\ Done(a)
              /\ UNCHANGED <<rate, drawn, accepted, sends, asked>>

(* ----------------------------- specification ------------------------------ *)

CodeNext ==
  \/ \E a \in Asks :
       \/ BeginSend(a) \/ CountSend(a) \/ Store(a)
       \/ \E c \in 0..MaxCodes : BeginVerify(a, c) \/ (c # NoCode /\ BeginMagic(a, c))
       \/ FollowLink(a) \/ Verify(a)
  \/ WindowEnds \/ Expire

CodeSpec == CodeInit /\ [][CodeNext]_codeVars

(* ------------------------------- properties ------------------------------- *)

\* "one-time use" (verifyOtp): a code is accepted once, by typing it or by its
\* link; it outlives AttemptLimit wrong tries by none; and a window has SendLimit
\* sends - unless a request wrote back, or took for granted, a record that
\* another had changed since it was read.
CodesAreSpent ==
  ~blurred =>
    /\ \A c \in 1..MaxCodes : accepted[c] <= 1 /\ failed[c] <= AttemptLimit
    /\ sends <= SendLimit
=============================================================================
