------------------------------ MODULE MCAccounts ------------------------------
(* Who a person is and where they belong: members, identities, one-time      *)
(* codes, OAuth clients, access keys and shares; and the connections that    *)
(* all their requests use.  The modules share no variable, so one run        *)
(* explores them side by side: part says which one a behaviour is about, and *)
(* the others keep their initial values.                                     *)
EXTENDS NamespaceMembers, Identities, OneTimeCodes, OAuthProvider, AccessKeys, Shares, ConnectionPool, TLC

CONSTANTS gmail, apple, wechat, weixin, mobile   \* one login of Google, one of Apple, two of WeChat, a phone

VARIABLE part

Providers ==
  [l \in Logins |-> CASE l = gmail -> "google" [] l = apple -> "apple" [] l = mobile -> "phone" [] OTHER -> "wechat"]

Mailboxes == [l \in Logins |-> IF l = gmail THEN CHOOSE e \in Emails : TRUE ELSE Unknown]

\* What an account was given is gone when the account is, or what it was given
\* by: keys with their applications and memberships, shares with who opened
\* them, each unless requests crossed.
GrantsFollow == KeysFollow /\ SharesAsAsked

accountVars == <<part, vars, identityVars, codeVars, oauthVars, keyVars, shareVars, poolVars>>

AccountInit ==
  /\ part \in {"members", "identities", "codes", "oauth", "keys", "shares", "pool"}
  /\ Init /\ IdentityInit /\ CodeInit /\ OAuthInit /\ KeyInit /\ ShareInit /\ PoolInit
  /\ part # "members" => role = [u \in Users |-> IF u = CHOOSE o \in Users : TRUE
                                                   THEN "owner" ELSE "outside"]
  /\ part # "pool" => kind = [c \in Clerks |-> "look"]
  /\ part # "shares" => share = NoShare

AccountNext ==
  /\ UNCHANGED part
  /\ \/ part = "members" /\ Next /\ UNCHANGED <<identityVars, codeVars, oauthVars, keyVars, shareVars, poolVars>>
     \/ part = "identities" /\ IdentityNext /\ UNCHANGED <<vars, codeVars, oauthVars, keyVars, shareVars, poolVars>>
     \/ part = "codes" /\ CodeNext /\ UNCHANGED <<vars, identityVars, oauthVars, keyVars, shareVars, poolVars>>
     \/ part = "oauth" /\ OAuthNext /\ UNCHANGED <<vars, identityVars, codeVars, keyVars, shareVars, poolVars>>
     \/ part = "keys" /\ KeyNext /\ UNCHANGED <<vars, identityVars, codeVars, oauthVars, shareVars, poolVars>>
     \/ part = "shares" /\ ShareNext /\ UNCHANGED <<vars, identityVars, codeVars, oauthVars, keyVars, poolVars>>
     \/ part = "pool" /\ PoolNext /\ UNCHANGED <<vars, identityVars, codeVars, oauthVars, keyVars, shareVars>>

AccountSpec == AccountInit /\ [][AccountNext]_accountVars

Interchangeable == Permutations(Users) \union Permutations(Handlers)
===============================================================================
