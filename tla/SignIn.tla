-------------------------------- MODULE SignIn --------------------------------
(*****************************************************************************)
(* Signing in to the dashboard through OAuth providers: the account a login  *)
(* ends in, the sessions it makes, and the PKCE verifiers that wait in       *)
(* memory for the callback of a connection.                                  *)
(*****************************************************************************)
EXTENDS Naturals, FiniteSets

CONSTANTS
  Identities,    \* (oauth_provider, oauth_provider_id)
  Emails,
  Accounts,      \* bound: the accounts that may be created
  Cookies,       \* bound: the sessions that may be created
  Logins,        \* bound: the callbacks and requests in flight at one time
  Nonces,        \* bound: the connections that are ever begun
  Nobody         \* no identity, no account, no cookie

ASSUME SignInAssumption == Nobody \notin Identities \cup Accounts \cup Cookies

VARIABLES
  emailAt,       \* external: the e-mail address of each identity at its provider
  account,       \* the rows of user_account with an e-mail address
  cookie,        \* the rows of dashboard_session
  login,         \* what is in flight
  home,          \* history: the account in which an identity's last login ended
  verifier       \* pendingPkceVerifiers, and what became of the others

signInVars == <<emailAt, account, cookie, login, home, verifier>>

NoAccount == [identity |-> Nobody]
Account   == [identity: Identities, email: Emails]

\* valid: expires_at is to come.  A session past a tenth of its time slides when used.
NoCookie == [life |-> "absent"]
Cookie   == [life: {"fresh", "worn", "over"}, account: Accounts]

NoLogin == [pc |-> "none"]
Login   == [pc: {"byIdentity", "byEmail", "inserting"}, identity: Identities, email: Emails]
           \cup [pc: {"updating", "linking"}, identity: Identities, email: Emails,
                 account: Accounts]
           \cup [pc: {"creating"}, identity: Identities, account: Accounts]
           \cup [pc: {"sliding", "deleting"}, cookie: Cookies]
           \cup [pc: {"exchanging"}, nonce: Nonces]

SignInInit ==
  /\ emailAt \in [Identities -> Emails]
  /\ account = [a \in Accounts |-> NoAccount]
  /\ cookie = [k \in Cookies |-> NoCookie]
  /\ login = [l \in Logins |-> NoLogin]
  /\ home = [i \in Identities |-> Nobody]
  /\ verifier = [n \in Nonces |-> "none"]

-----------------------------------------------------------------------------
AccountExists(a)        == account[a] # NoAccount
HasIdentity(i)   == {a \in Accounts : AccountExists(a) /\ account[a].identity = i}
HasEmail(e)      == {a \in Accounts : AccountExists(a) /\ account[a].email = e}
Continue(l, rec) == login' = [login EXCEPT ![l] = rec]
Leave(l)         == login' = [login EXCEPT ![l] = NoLogin]
Waits(l, pc)     == login[l].pc = pc

\* Mutant: the address is unique, the identity is not.
WritesUnindexed(l, a, rec) ==
  IF HasEmail(rec.email) \subseteq {a}
  THEN /\ account' = [account EXCEPT ![a] = rec]
       /\ Continue(l, [pc |-> "creating", identity |-> login[l].identity, account |-> a])
  ELSE account' = account /\ Leave(l)

\* The two unique indexes: an UPDATE or INSERT that breaks one throws, which ends the login.
Writes(l, a, rec) ==
  IF /\ HasIdentity(rec.identity) \subseteq {a}
     /\ HasEmail(rec.email) \subseteq {a}
  THEN /\ account' = [account EXCEPT ![a] = rec]
       /\ Continue(l, [pc |-> "creating", identity |-> login[l].identity, account |-> a])
  ELSE account' = account /\ Leave(l)

\* fetchUserProfile
Profile(i) == [pc |-> "byIdentity", identity |-> i, email |-> emailAt[i]]

\* GET /auth/callback/:provider, up to the profile.
LoginCallback(l, i) ==
  /\ login[l] = NoLogin
  /\ Continue(l, Profile(i))
  /\ UNCHANGED <<emailAt, account, cookie, home, verifier>>

\* findOrCreateOAuthUser.
FindByIdentity(l) ==
  LET found == HasIdentity(login[l].identity) IN
    /\ Waits(l, "byIdentity")
    /\ IF found = {} THEN login' = [login EXCEPT ![l].pc = "byEmail"]
       ELSE \E a \in found : Continue(l, [pc |-> "updating", identity |-> login[l].identity,
                                          email |-> login[l].email, account |-> a])
    /\ UNCHANGED <<emailAt, account, cookie, home, verifier>>

\* The profile is refreshed, the identity not: it may be another one's by now.
UpdateProfile(l) ==
  /\ Waits(l, "updating")
  /\ Writes(l, login[l].account, [account[login[l].account] EXCEPT !.email = login[l].email])
  /\ UNCHANGED <<emailAt, cookie, home, verifier>>

FindByEmail(l) ==
  LET found == HasEmail(login[l].email) IN
    /\ Waits(l, "byEmail")
    /\ IF found = {} THEN login' = [login EXCEPT ![l].pc = "inserting"]
       ELSE \E a \in found : Continue(l, [pc |-> "linking", identity |-> login[l].identity,
                                          email |-> login[l].email, account |-> a])
    /\ UNCHANGED <<emailAt, account, cookie, home, verifier>>

\* The account's identity is replaced.
LinkIdentity(l) ==
  /\ Waits(l, "linking")
  /\ Writes(l, login[l].account,
            [account[login[l].account] EXCEPT !.identity = login[l].identity])
  /\ UNCHANGED <<emailAt, cookie, home, verifier>>

\* Mutant: without the identity.
CreateUserUnnamed(l) ==
  /\ Waits(l, "inserting")
  /\ \E a \in Accounts :
       /\ ~AccountExists(a)
       /\ Writes(l, a, [identity |-> Nobody, email |-> login[l].email])
  /\ UNCHANGED <<emailAt, cookie, home, verifier>>

CreateUser(l) ==
  /\ Waits(l, "inserting")
  /\ \E a \in Accounts :
       /\ ~AccountExists(a)
       /\ Writes(l, a, [identity |-> login[l].identity, email |-> login[l].email])
  /\ UNCHANGED <<emailAt, cookie, home, verifier>>

createSession(l) ==
  /\ Waits(l, "creating")
  /\ \E k \in Cookies :
       /\ cookie[k] = NoCookie
       /\ cookie' = [cookie EXCEPT ![k] = [life |-> "fresh", account |-> login[l].account]]
  /\ home' = [home EXCEPT ![login[l].identity] = login[l].account]
  /\ Leave(l)
  /\ UNCHANGED <<emailAt, account, verifier>>

-----------------------------------------------------------------------------
\* requireAuth: a session that is over is deleted, a worn one slides; both by id and after
\* it was read.  Mutant: whether it is over is not asked.
validateSessionAny(l, k) ==
  /\ login[l] = NoLogin /\ cookie[k] # NoCookie
  /\ cookie[k].life # "fresh" /\ Continue(l, [pc |-> "sliding", cookie |-> k])
  /\ UNCHANGED <<emailAt, account, cookie, home, verifier>>

validateSession(l, k) ==
  /\ login[l] = NoLogin /\ cookie[k] # NoCookie
  /\ \/ cookie[k].life = "over" /\ Continue(l, [pc |-> "deleting", cookie |-> k])
     \/ cookie[k].life = "worn" /\ Continue(l, [pc |-> "sliding", cookie |-> k])
  /\ UNCHANGED <<emailAt, account, cookie, home, verifier>>

Slide(l) ==
  LET k == login[l].cookie IN
    /\ Waits(l, "sliding")
    /\ cookie' = IF cookie[k] = NoCookie THEN cookie ELSE [cookie EXCEPT ![k].life = "fresh"]
    /\ Leave(l)
    /\ UNCHANGED <<emailAt, account, home, verifier>>

DeleteOver(l) ==
  /\ Waits(l, "deleting")
  /\ cookie' = [cookie EXCEPT ![login[l].cookie] = NoCookie]
  /\ Leave(l)
  /\ UNCHANGED <<emailAt, account, home, verifier>>

\* POST /auth/logout, /auth/logout-all, and cleanupExpired at the start.
logout(k) ==
  /\ cookie[k] # NoCookie /\ cookie[k].life # "over"
  /\ cookie' = [cookie EXCEPT ![k] = NoCookie]
  /\ UNCHANGED <<emailAt, account, login, home, verifier>>

logoutAll(k) ==
  /\ cookie[k] # NoCookie /\ cookie[k].life # "over"
  /\ cookie' = [j \in Cookies |-> IF cookie[j] # NoCookie /\ cookie[j].account = cookie[k].account
                                  THEN NoCookie ELSE cookie[j]]
  /\ UNCHANGED <<emailAt, account, login, home, verifier>>

cleanupExpired ==
  /\ \E k \in Cookies : cookie[k].life = "over"
  /\ cookie' = [k \in Cookies |-> IF cookie[k].life = "over" THEN NoCookie ELSE cookie[k]]
  /\ UNCHANGED <<emailAt, account, login, home, verifier>>

-----------------------------------------------------------------------------
\* GET /auth/connect/:provider: a verifier is kept for the callback, ten minutes long.
startConnect(n) ==
  /\ verifier[n] = "none"
  /\ verifier' = [verifier EXCEPT ![n] = "pending"]
  /\ UNCHANGED <<emailAt, account, cookie, login, home>>

\* Mutant: it is taken out when the exchange is done.
ConnectCallbackKeeps(l, n) ==
  /\ login[l] = NoLogin /\ verifier[n] = "pending"
  /\ Continue(l, [pc |-> "exchanging", nonce |-> n])
  /\ UNCHANGED <<emailAt, account, cookie, home, verifier>>

\* The callback takes the verifier out and then awaits the exchange.
ConnectCallback(l, n) ==
  /\ login[l] = NoLogin /\ verifier[n] = "pending"
  /\ verifier' = [verifier EXCEPT ![n] = "taken"]
  /\ Continue(l, [pc |-> "exchanging", nonce |-> n])
  /\ UNCHANGED <<emailAt, account, cookie, home>>

Exchanged(l) ==
  /\ Waits(l, "exchanging")
  /\ verifier' = [verifier EXCEPT ![login[l].nonce] = "taken"]
  /\ Leave(l)
  /\ UNCHANGED <<emailAt, account, cookie, home>>

VerifierExpires(n) ==
  /\ verifier[n] = "pending"
  /\ verifier' = [verifier EXCEPT ![n] = "lost"]
  /\ UNCHANGED <<emailAt, account, cookie, login, home>>

\* The process restarts: what is in flight and the verifiers are lost.
Restart ==
  /\ login' = [l \in Logins |-> NoLogin]
  /\ verifier' = [n \in Nonces |-> IF verifier[n] = "pending" THEN "lost" ELSE verifier[n]]
  /\ cookie' = [k \in Cookies |-> IF cookie[k].life = "over" THEN NoCookie ELSE cookie[k]]
  /\ UNCHANGED <<emailAt, account, home>>

\* External: an address changes at the provider; a session ages.
ChangesEmail(i, e) ==
  /\ emailAt[i] # e /\ emailAt' = [emailAt EXCEPT ![i] = e]
  /\ UNCHANGED <<account, cookie, login, home, verifier>>

Wears(k) ==
  /\ cookie[k].life \in {"fresh", "worn"}
  /\ cookie' = [cookie EXCEPT ![k].life = IF @ = "fresh" THEN "worn" ELSE "over"]
  /\ UNCHANGED <<emailAt, account, login, home, verifier>>

SignInNext ==
  \/ \E l \in Logins :
       \/ \E i \in Identities : LoginCallback(l, i)
       \/ FindByIdentity(l) \/ UpdateProfile(l) \/ FindByEmail(l) \/ LinkIdentity(l)
       \/ CreateUser(l) \/ createSession(l)
       \/ \E k \in Cookies : validateSession(l, k)
       \/ Slide(l) \/ DeleteOver(l)
       \/ \E n \in Nonces : ConnectCallback(l, n)
       \/ Exchanged(l)
  \/ \E k \in Cookies : logout(k) \/ logoutAll(k) \/ Wears(k)
  \/ cleanupExpired \/ Restart
  \/ \E n \in Nonces : startConnect(n) \/ VerifierExpires(n)
  \/ \E i \in Identities, e \in Emails : ChangesEmail(i, e)

SignInSpec == SignInInit /\ [][SignInNext]_signInVars

-----------------------------------------------------------------------------
\* Accounts, sessions, verifiers and what is in flight are well formed.
SignInTypeOK ==
  /\ emailAt \in [Identities -> Emails]
  /\ account \in [Accounts -> Account \cup {NoAccount}]
  /\ cookie \in [Cookies -> Cookie \cup {NoCookie}]
  /\ login \in [Logins -> Login \cup {NoLogin}]
  /\ home \in [Identities -> Accounts \cup {Nobody}]
  /\ verifier \in [Nonces -> {"none", "pending", "taken", "lost"}]

\* A login ends in the account of the one before it, whatever became of the addresses
\* and however many logins overlap, unless another identity has taken one of the two over.
SameAccountAgain ==
  [][\A i \in Identities :
       home[i] # Nobody /\ home'[i] # home[i]
         => account[home[i]].identity # i \/ account[home'[i]].identity # i]_signInVars

\* A session that is over is used again only by a request that had read it before.
OverStaysOver ==
  [][\A k \in Cookies : cookie[k].life = "over" =>
       /\ cookie'[k].life \in {"fresh", "worn"}
            => \E l \in Logins : Waits(l, "sliding") /\ login[l].cookie = k
       /\ \A l \in Logins : login[l] = NoLogin => login'[l].pc # "sliding"
                                                  \/ login'[l].cookie # k]_signInVars

\* A verifier is exchanged by one callback at most, however often a browser repeats it.
VerifierIsSpentOnce ==
  \A l, m \in Logins :
    Waits(l, "exchanging") /\ Waits(m, "exchanging") /\ l # m => login[l].nonce # login[m].nonce
=============================================================================
