------------------------------ MODULE Accounts ------------------------------
(***************************************************************************)
(* Accounts and sessions: signing up, in and out, from the page's store    *)
(* (client/src/state/auth.ts) through the routes                           *)
(* (server/src/http/routes/auth.ts) and the service (auth/service.ts) to   *)
(* the rows (db/repos/accounts.ts, sessions.ts).                           *)
(*                                                                         *)
(* A call to the server is cut where the code waits: for the hash of a     *)
(* password always, and between a read and the write that follows from it  *)
(* when the database answers later (engine = "async").  With the           *)
(* synchronous engine of this repository nothing comes in between.         *)
(***************************************************************************)
EXTENDS Integers, FiniteSets

CONSTANTS
  Browser,      \* each with one page and one cookie
  Name,         \* usernames, by their keys
  Nobody,
  REMEMBER_TTL_MS, SESSION_TTL_MS, SLIDING_REFRESH_INTERVAL_MS, TOUCH_INTERVAL_MS,
  MaxSessions,  \* bound: sessions ever issued
  Stays         \* bounds, one of which holds in a behaviour: the names, the calls, the time

VARIABLES
  stay,       \* the bounds of this behaviour
  engine,     \* how the database answers
  now,        \* the server's clock
  accounts,   \* the account rows: whose id, and the name
  sessions,   \* token -> its row, for the sessions there are
  issued,     \* how many tokens have been issued
  pages,      \* browser -> what its page shows
  cookies,    \* browser -> the token in its cookie
  calls,      \* browser -> the call its page is waiting for
  asked       \* how many calls there have been

accountVars == <<stay, engine, now, accounts, sessions, issued, pages, cookies, calls, asked>>

Stay == [names : SUBSET Name, calls : Nat, until : Nat]

ASSUME AccountsAssumption ==
  /\ {REMEMBER_TTL_MS, SESSION_TTL_MS, SLIDING_REFRESH_INTERVAL_MS, TOUCH_INTERVAL_MS}
       \subseteq Nat \ {0}
  /\ SESSION_TTL_MS < REMEMBER_TTL_MS
  /\ Stays \subseteq Stay
  /\ MaxSessions \in Nat

Token == 1 .. MaxSessions
NoCookie == 0
Kept == {}                           \* an answer sets one cookie or none
AccountId == Token                    \* an account is minted with its first session
Account == [id : AccountId, name : Name]
SessionRow == [account : AccountId, expires_at : Int, last_used_at : Int, remember : BOOLEAN]
Live == DOMAIN sessions
NotAsking == [op |-> "none", stage |-> "none"]
AuthStatus == {"restoring", "signedOut", "signedIn"}
SignedOut == [status |-> "signedOut", account |-> Nobody]
Restoring == [status |-> "restoring", account |-> Nobody]
SignedIn(a) == [status |-> "signedIn", account |-> a]

InitAccounts ==
  /\ stay \in Stays /\ engine \in {"sync", "async"}
  /\ now = 0 /\ accounts = {} /\ sessions = <<>> /\ issued = 0
  /\ pages = [b \in Browser |-> SignedOut]
  /\ cookies = [b \in Browser |-> NoCookie]
  /\ calls = [b \in Browser |-> NotAsking]
  /\ asked = 0

---------------------------------------------------------------------------
(* The page.                                                               *)

ask(b, call) ==
  /\ calls[b] = NotAsking /\ asked < stay.calls
  /\ calls' = [calls EXCEPT ![b] = call] /\ asked' = asked + 1
  /\ UNCHANGED <<stay, engine, now, accounts, sessions, issued, pages, cookies>>

\* The forms are shown to a page that is signed out, with a password that is right or wrong.
credentials(b) ==
  /\ pages[b].status = "signedOut" /\ issued < MaxSessions
  /\ \E op \in {"signup", "login"}, name \in stay.names, remember \in BOOLEAN, right \in BOOLEAN :
       /\ op = "signup" => right
       /\ ask(b, [op |-> op, stage |-> "sent", name |-> name, remember |-> remember, right |-> right])

restore(b) == pages[b].status = "restoring" /\ ask(b, [op |-> "me", stage |-> "sent"])

pressLogout(b) ==
  /\ pages[b].status = "signedIn"
  /\ \E op \in {"logout", "logoutAll"} : ask(b, [op |-> op, stage |-> "sent"])

\* The page is loaded again; a browser that was closed has lost the cookies that do not last.
reopen(b) ==
  /\ pages[b].status # "restoring"
  /\ calls[b] = NotAsking
  /\ pages' = [pages EXCEPT ![b] = Restoring]
  /\ \/ UNCHANGED cookies
     \/ /\ cookies[b] \in Live /\ ~sessions[cookies[b]].remember
        /\ cookies' = [cookies EXCEPT ![b] = NoCookie]
  /\ UNCHANGED <<stay, engine, now, accounts, sessions, issued, calls, asked>>

---------------------------------------------------------------------------
(* The service.                                                            *)

At(b, stage) == calls[b].stage = stage
Becomes(b, more) == calls' = [calls EXCEPT ![b] = [k \in DOMAIN @ \cup DOMAIN more |->
                                IF k \in DOMAIN more THEN more[k] ELSE @[k]]]
answer(b, account, cookie) == Becomes(b, [stage |-> "answered", account |-> account, cookie |-> cookie])
deny(b) == Becomes(b, [stage |-> "refused", cookie |-> Kept])

\* A session that is none: asking who one is clears the cookie, signing out everywhere does not.
unauthenticated(b) ==
  Becomes(b, [stage |-> "refused", cookie |-> IF calls[b].op = "me" THEN {NoCookie} ELSE Kept])

usernameExists(name) == \E a \in accounts : a.name = name

issueSession(b, id, at) ==
  /\ issued' = issued + 1
  /\ sessions' = [t \in Live \cup {issued + 1} |->
       IF t \in Live THEN sessions[t]
       ELSE [account |-> id, last_used_at |-> at, remember |-> calls[b].remember,
             expires_at |-> at + IF calls[b].remember THEN REMEMBER_TTL_MS ELSE SESSION_TTL_MS]]
  /\ answer(b, id, {issued + 1})

\* The existence check, after which the password is hashed.
signup(b) ==
  /\ calls[b].op = "signup" /\ At(b, "sent")
  /\ IF usernameExists(calls[b].name) THEN deny(b)
     ELSE Becomes(b, [stage |-> "hashing", at |-> now])
  /\ UNCHANGED <<accounts, sessions, issued>>

\* Mutant: the check before the hash is relied on.
insertUnchecked(b) ==
  /\ accounts' = accounts \cup {[id |-> issued + 1, name |-> calls[b].name]}
  /\ issueSession(b, issued + 1, calls[b].at)

\* Mutant: a name that is taken is ignored, and the session is issued.
insertOrIgnore(b) ==
  /\ accounts' = IF usernameExists(calls[b].name) THEN accounts
                 ELSE accounts \cup {[id |-> issued + 1, name |-> calls[b].name]}
  /\ issueSession(b, issued + 1, calls[b].at)

\* The UNIQUE index decides.
insert(b) ==
  IF usernameExists(calls[b].name) THEN deny(b) /\ UNCHANGED <<accounts, sessions, issued>>
  ELSE /\ accounts' = accounts \cup {[id |-> issued + 1, name |-> calls[b].name]}
       /\ issueSession(b, issued + 1, calls[b].at)

hashed(b) == At(b, "hashing") /\ issued < MaxSessions /\ insert(b)

\* The lookup, after which the password is verified, account or not.
login(b) ==
  /\ calls[b].op = "login" /\ At(b, "sent")
  /\ Becomes(b, [stage |-> "verifying", at |-> now,
                 found |-> {a.id : a \in {a \in accounts : a.name = calls[b].name}}])
  /\ UNCHANGED <<accounts, sessions, issued>>

verified(b) ==
  /\ At(b, "verifying") /\ issued < MaxSessions
  /\ UNCHANGED accounts
  /\ IF calls[b].right /\ calls[b].found # {}
     THEN \E id \in calls[b].found : issueSession(b, id, calls[b].at)
     ELSE deny(b) /\ UNCHANGED <<sessions, issued>>

\* The row of the cookie is read, and what comes of it is done in the next turn.
findByTokenHash(b) ==
  /\ calls[b].op \in {"me", "logoutAll"} /\ At(b, "sent")
  /\ IF cookies[b] \in Live
     THEN Becomes(b, [stage |-> "found", at |-> now, token |-> cookies[b], row |-> sessions[cookies[b]]])
     ELSE unauthenticated(b)
  /\ UNCHANGED <<accounts, sessions, issued>>

deleteByTokenHash(t) == sessions' = [u \in Live \ {t} |-> sessions[u]]

\* Mutant: a row that has gone meanwhile is put back.
touchOrRestore(t, row) == sessions' = [u \in Live \cup {t} |-> IF u = t THEN row ELSE sessions[u]]

\* An UPDATE: a row that has gone meanwhile stays gone.
touch(t, row) == sessions' = [u \in Live |-> IF u = t THEN row ELSE sessions[u]]

\* Mutant: every session that is used lasts.
TouchedAlways(row, at) ==
  IF at - row.last_used_at > SLIDING_REFRESH_INTERVAL_MS
  THEN [row EXCEPT !.last_used_at = at, !.expires_at = at + REMEMBER_TTL_MS]
  ELSE IF at - row.last_used_at > TOUCH_INTERVAL_MS THEN [row EXCEPT !.last_used_at = at]
  ELSE row

\* A remembered session that was not used for a day is extended, and one that was not used for
\* a while is stamped.
Touched(row, at) ==
  IF row.remember /\ at - row.last_used_at > SLIDING_REFRESH_INTERVAL_MS
  THEN [row EXCEPT !.last_used_at = at, !.expires_at = at + REMEMBER_TTL_MS]
  ELSE IF at - row.last_used_at > TOUCH_INTERVAL_MS THEN [row EXCEPT !.last_used_at = at]
  ELSE row

resolveSession(b) ==
  LET t == calls[b].token
      row == calls[b].row
      touched == Touched(row, calls[b].at)
  IN /\ At(b, "found")
     /\ IF row.expires_at <= calls[b].at
        THEN deleteByTokenHash(t) /\ unauthenticated(b)
        ELSE /\ IF touched = row THEN UNCHANGED sessions ELSE touch(t, touched)
             /\ IF calls[b].op = "me" THEN answer(b, row.account, Kept)
                ELSE Becomes(b, [stage |-> "resolved"])
     /\ UNCHANGED <<accounts, issued>>

deleteAllForAccount(b) ==
  /\ At(b, "resolved")
  /\ sessions' = [t \in {t \in Live : sessions[t].account # calls[b].row.account} |-> sessions[t]]
  /\ answer(b, Nobody, {NoCookie})
  /\ UNCHANGED <<accounts, issued>>

logout(b) ==
  /\ calls[b].op = "logout" /\ At(b, "sent")
  /\ deleteByTokenHash(cookies[b]) /\ answer(b, Nobody, {NoCookie})
  /\ UNCHANGED <<accounts, issued>>

serves(b) ==
  \/ signup(b) \/ hashed(b) \/ login(b) \/ verified(b)
  \/ findByTokenHash(b) \/ resolveSession(b) \/ deleteAllForAccount(b) \/ logout(b)

\* With the synchronous engine, what follows from a read is done before anything else.
Between(b) == At(b, "found") \/ At(b, "resolved")
Turn(b) == engine = "sync" => \A other \in Browser \ {b} : ~Between(other)
AllTurns == engine = "sync" => \A other \in Browser : ~Between(other)

attend(b) == Turn(b) /\ serves(b) /\ UNCHANGED <<stay, engine, now, pages, cookies, asked>>

sweep ==
  /\ AllTurns
  /\ sessions' = [t \in {t \in Live : sessions[t].expires_at > now} |-> sessions[t]]
  /\ UNCHANGED <<stay, engine, now, accounts, issued, pages, cookies, calls, asked>>

passTime ==
  /\ AllTurns /\ now < stay.until /\ now' = now + 1
  /\ UNCHANGED <<stay, engine, accounts, sessions, issued, pages, cookies, calls, asked>>

---------------------------------------------------------------------------
(* Answers.                                                                *)

\* Mutant: a cookie that is there is not replaced.
CookieFirst(b) ==
  IF calls[b].cookie = Kept \/ (cookies[b] # NoCookie /\ NoCookie \notin calls[b].cookie) THEN cookies[b]
  ELSE CHOOSE t \in calls[b].cookie : TRUE

CookieAfter(b) == IF calls[b].cookie = Kept THEN cookies[b] ELSE CHOOSE t \in calls[b].cookie : TRUE

Shown(b, arrived) ==
  IF calls[b].op \in {"logout", "logoutAll"} THEN SignedOut
  ELSE IF arrived /\ At(b, "answered") THEN SignedIn(calls[b].account)
  ELSE IF calls[b].op = "me" THEN SignedOut ELSE pages[b]

hearAnswer(b) ==
  /\ At(b, "answered") \/ At(b, "refused")
  /\ cookies' = [cookies EXCEPT ![b] = CookieAfter(b)]
  /\ pages' = [pages EXCEPT ![b] = Shown(b, TRUE)]
  /\ calls' = [calls EXCEPT ![b] = NotAsking]
  /\ UNCHANGED <<stay, engine, now, accounts, sessions, issued, asked>>

\* The call fails: it never arrived, or its answer did not.
lose(b) ==
  /\ At(b, "sent") \/ At(b, "answered") \/ At(b, "refused")
  /\ pages' = [pages EXCEPT ![b] = Shown(b, FALSE)]
  /\ calls' = [calls EXCEPT ![b] = NotAsking]
  /\ UNCHANGED <<stay, engine, now, accounts, sessions, issued, cookies, asked>>

NextAccounts ==
  \/ \E b \in Browser : \/ credentials(b) \/ restore(b) \/ pressLogout(b) \/ reopen(b)
                        \/ attend(b) \/ hearAnswer(b) \/ lose(b)
  \/ sweep \/ passTime

SpecAccounts == InitAccounts /\ [][NextAccounts]_accountVars

---------------------------------------------------------------------------
(* Properties.                                                             *)

AccountsTypeOK ==
  /\ engine \in {"sync", "async"} /\ now \in 0 .. stay.until
  /\ accounts \subseteq Account
  /\ issued \in 0 .. MaxSessions /\ Live \subseteq 1 .. issued
  /\ \A t \in Live : /\ sessions[t] \in SessionRow
                     /\ \E a \in accounts : a.id = sessions[t].account
  /\ \A b \in Browser : /\ pages[b].status \in AuthStatus
                        /\ pages[b].account \in AccountId \cup {Nobody}
                        /\ cookies[b] \in Token \cup {NoCookie}

\* A name belongs to one account, though two sign-ups may both find it free and hash at once.
OneAccountPerName == \A a, c \in accounts : a.name = c.name => a = c

\* A session runs out when it was said to: one that has ended does not come back, for no use of it
\* that was under way revives it; one that is not remembered never gets another expiry
\* ("Absolute, no sliding"); and a remembered one gets a later one only, as long as no other use
\* of it comes between.
SessionsRunOut ==
  [][/\ \A t \in 1 .. issued : t \notin Live => t \notin DOMAIN sessions'
     /\ \A t \in Live \cap DOMAIN sessions' :
          /\ ~sessions[t].remember => sessions'[t].expires_at = sessions[t].expires_at
          /\ engine = "sync" => sessions'[t].expires_at >= sessions[t].expires_at]_accountVars

\* Whoever the page shows is who its calls act for, as long as the session of its cookie
\* lives: through lost answers, sign-outs that failed and accounts that take turns.
WhoIsShownActs ==
  \A b \in Browser :
    (pages[b].status = "signedIn" /\ cookies[b] \in Live) =>
       sessions[cookies[b]].account = pages[b].account

\* An account answers for one person: no two have a name between them, and no page acts for
\* another account than the one it shows.
AccountsAreHonest == OneAccountPerName /\ WhoIsShownActs
=============================================================================
