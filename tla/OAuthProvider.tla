---------------------------- MODULE OAuthProvider ----------------------------
(* OmniBox as an OAuth provider (src/src/auth/oauth-provider): a code for a  *)
(* client, exchanged for a token, and the subject a client knows a user by,  *)
(* which is drawn when it is first asked for.                                *)
(*                                                                           *)
(* Codes and tokens are cache entries, subjects rows of a table with a       *)
(* unique index on user and client.  Secrets, PKCE, redirect URIs and scopes *)
(* are checks of what a request brings along and only refuse it; the list of *)
(* a user's tokens is left out: deleteAllUserTokens, which alone reads it,   *)
(* is called by nothing.                                                     *)
EXTENDS Naturals, Sequences

CONSTANTS Subjects,    \* users who authorize
          Clients,     \* OAuth clients
          Calls,       \* requests that may be under way
          MaxGrants,   \* bound on the codes drawn
          MaxCalls     \* bound on the requests

ASSUME OAuthAssumption == {MaxGrants, MaxCalls} \subseteq Nat

VARIABLES departed,    \* deleted users
          grant,       \* the codes drawn: for whom, and "there", "taken" or "gone"
          token,       \* the tokens issued: by which code, and whether they are there
          subject,     \* rows of oauth_pairwise_subjects
          call,        \* requests under way, with what they have read
          answers,     \* the subjects clients were told
          ids,         \* subjects drawn so far
          calls        \* requests so far

oauthVars == <<departed, grant, token, subject, call, answers, ids, calls>>

Waiting == [step |-> "wait"]

OAuthInit ==
  /\ departed = {} /\ grant = <<>> /\ token = <<>>
  /\ subject = {} /\ answers = {} /\ ids = 0
  /\ call = [h \in Calls |-> Waiting] /\ calls = 0

Enter(h, q) ==
  /\ call[h] = Waiting /\ calls < MaxCalls
  /\ calls' = calls + 1
  /\ call' = [call EXCEPT ![h] = q]

Return(h) == call' = [call EXCEPT ![h] = Waiting]

\* authorize: a new code, for a client that exists.
Authorize(u, c) ==
  /\ u \notin departed /\ Len(grant) < MaxGrants
  /\ grant' = Append(grant, [user |-> u, client |-> c, state |-> "there", read |-> FALSE])
  /\ UNCHANGED <<departed, token, subject, call, answers, ids, calls>>

\* exchangeToken reads the code and checks the request against it; read notes
\* that another read it, too, before it was deleted.
BeginExchange(h, g) ==
  /\ grant[g].state = "there"
  /\ Enter(h, [step |-> "exchange", grant |-> g])
  /\ grant' = [grant EXCEPT ![g].read =
       @ \/ \E k \in Calls : call[k] = [step |-> "exchange", grant |-> g]]
  /\ UNCHANGED <<departed, token, subject, answers, ids>>

\* The code is deleted, and expires by itself otherwise.
UsedUp(g) == [grant[g] EXCEPT !.state = "gone"]

\* The code is deleted and a token saved.
IssueToken(h) ==
  LET g == call[h].grant IN
  /\ call[h].step = "exchange"
  /\ grant' = [grant EXCEPT ![g] = UsedUp(g)]
  /\ token' = Append(token, [grant |-> g, there |-> TRUE])
  /\ Return(h)
  /\ UNCHANGED <<departed, subject, answers, ids, calls>>

CodeExpires(g) ==
  /\ grant[g].state = "there"
  /\ grant' = [grant EXCEPT ![g].state = "gone"]
  /\ UNCHANGED <<departed, token, subject, call, answers, ids, calls>>

\* revokeToken, or the end of its time.
TokenEnds(t) ==
  /\ token[t].there
  /\ token' = [token EXCEPT ![t].there = FALSE]
  /\ UNCHANGED <<departed, grant, subject, call, answers, ids, calls>>

(* -------------------------------- userinfo -------------------------------- *)

PairOf(t) == [user |-> grant[token[t].grant].user, client |-> grant[token[t].grant].client]

Row(pair) == {s \in subject : s.pair = pair}

\* The answer of getUserinfo.
Tell(h, id) ==
  /\ answers' = answers \union {[pair |-> call[h].pair, id |-> id]}
  /\ Return(h)

\* getUserinfo: the token, its user, who must be live, and getOrCreate's lookup.
BeginUserinfo(h, t) ==
  /\ token[t].there /\ PairOf(t).user \notin departed
  /\ Enter(h, [step |-> "subject", pair |-> PairOf(t), id |-> 0])
  /\ UNCHANGED <<departed, grant, token, subject, answers, ids>>

LookupSubject(h) ==
  LET pair == call[h].pair IN
  /\ call[h].step = "subject"
  /\ \/ /\ Row(pair) = {}
        /\ ids' = ids + 1
        /\ call' = [call EXCEPT ![h].step = "insert", ![h].id = ids + 1]
        /\ UNCHANGED answers
     \/ \E s \in Row(pair) : Tell(h, s.id) /\ UNCHANGED ids
  /\ UNCHANGED <<departed, grant, token, subject, calls>>

\* A fault of Told: the one who came second answers what it has drawn itself.
ToldOwn(q) == q.id

\* What is answered after the insert: what was inserted, by whomever.
Told(q) == IF Row(q.pair) = {} THEN q.id ELSE (CHOOSE s \in Row(q.pair) : TRUE).id

\* The insert, or the "duplicate key value" of the index and a second lookup.
InsertSubject(h) ==
  LET q == call[h] IN
  /\ q.step = "insert"
  /\ subject' = IF Row(q.pair) = {} THEN subject \union {[pair |-> q.pair, id |-> q.id]}
                                    ELSE subject
  /\ Tell(h, Told(q))
  /\ UNCHANGED <<departed, grant, token, ids, calls>>

Depart(u) ==
  /\ u \notin departed
  /\ departed' = departed \union {u}
  /\ UNCHANGED <<grant, token, subject, call, answers, ids, calls>>

(* ----------------------------- specification ------------------------------ *)

OAuthNext ==
  \/ \E u \in Subjects : Depart(u) \/ \E c \in Clients : Authorize(u, c)
  \/ \E g \in DOMAIN grant : CodeExpires(g)
  \/ \E t \in DOMAIN token : TokenEnds(t)
  \/ \E h \in Calls :
       \/ \E g \in DOMAIN grant : BeginExchange(h, g)
       \/ IssueToken(h)
       \/ \E t \in DOMAIN token : BeginUserinfo(h, t)
       \/ LookupSubject(h) \/ InsertSubject(h)

OAuthSpec == OAuthInit /\ [][OAuthNext]_oauthVars

(* ------------------------------- properties ------------------------------- *)

\* A client knows a user by one subject, however many first userinfo requests
\* race, and no two pairs by the same; and a code issues one token unless two
\* exchanges read it before either deleted it.
SubjectsStable ==
  /\ \A a, b \in answers : a.pair = b.pair <=> a.id = b.id
  /\ \A t, s \in DOMAIN token :
       token[t].grant = token[s].grant /\ ~grant[token[t].grant].read => t = s
=============================================================================
