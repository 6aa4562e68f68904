------------------------------ MODULE Accounts ------------------------------
(***************************************************************************)
(* Accounts and sessions: the sign-in routes (web/routes/auth.py), user    *)
(* management (web/routes/users.py) and the check of each request          *)
(* (web/auth.py) over the table users (harness/db/_users.py).              *)
(*                                                                         *)
(* A handler runs to its end on the event loop unless it awaits. Routes    *)
(* with form fields have read their body before they authenticate;         *)
(* deleting a user authenticates first and then awaits the body that       *)
(* carries the CSRF token, so other requests come in between. Each         *)
(* database call is a transaction of its own: a handler that makes two can *)
(* die between them.                                                       *)
(*                                                                         *)
(* Left out: the clock (a cookie may expire at any time), the cryptography *)
(* of passwords and cookies, the limits on failed sign-ins (module         *)
(* LoginGuard), API keys (module ApiKeys: an admin may use one here in     *)
(* place of a session), display data, and requests that are refused and    *)
(* change nothing.                                                         *)
(***************************************************************************)
EXTENDS FiniteSets, Naturals

CONSTANTS
    LocalUser, LdapUser, GithubUser,  \* ids of rows, by auth_provider
    Legacy,          \* rows of a database that an older version has left
    UserName,        \* the username of each row
    Folded,          \* the same, without case
    GithubId,        \* ids of accounts at GitHub
    NoLink,          \* oauth_provider_id is NULL
    Role,            \* the roles that are given out
    NoAccount,
    MaxUsers,        \* bound: rows ever inserted
    MaxVersion,      \* bound: revocations of the sessions of an account
    MaxCookies,      \* bound: cookies of an account that are kept
    MaxPending       \* bound: requests of a user that wait for their body

Account == LocalUser \cup LdapUser \cup GithubUser

ASSUME ProviderAssumption ==
    /\ LocalUser \cap LdapUser = {}
    /\ LocalUser \cap GithubUser = {}
    /\ LdapUser \cap GithubUser = {}
    /\ Legacy \subseteq Account
    /\ NoAccount \notin Account
    /\ NoLink \notin GithubId
    /\ "admin" \in Role

(* LDAP and GitHub rows are stored in lower case.                          *)
ASSUME NameAssumption ==
    /\ UserName \in [Account -> STRING] /\ Folded \in [Account -> STRING]
    /\ \A a, b \in Account : UserName[a] = UserName[b] => Folded[a] = Folded[b]
    /\ \A a, b \in LdapUser : Folded[a] = Folded[b] => UserName[a] = UserName[b]

ASSUME BoundAssumption == MaxVersion \in Nat

VARIABLES
    status,     \* of a users row; ids are never used again
    row,        \* its columns
    cookies,    \* signed session cookies that have not expired
    edit,       \* an edit of a user that has written the row and not yet
                \* revoked the sessions
    pending,    \* authenticated deletions that wait for their body
    unsynced,   \* history: accounts whose role an LDAP login changed, until
                \* their sessions are revoked
    cut         \* history: accounts with an edit that a crash cut off before
                \* it revoked the sessions, until they are revoked

userVars == <<status, row>>
historyVars == <<unsynced, cut>>
vars == <<userVars, cookies, edit, pending, historyVars>>

Users == {a \in Account : status[a] = "there"}
Blank(r) ==
    [role |-> r, active |-> TRUE, override |-> FALSE, password |-> 0,
     version |-> 0, link |-> NoLink]

(* Who showed the identity that a cookie was issued for.                   *)
Identity == GithubId \cup {"password", "directory"}
Row == [role : Role, active : BOOLEAN, override : BOOLEAN,
        password : 0 .. MaxVersion, version : 0 .. MaxVersion,
        link : GithubId \cup {NoLink}]

(* A cookie carries the account and its session version; the role, the     *)
(* number of the password and the identity it was issued for are history.  *)
Cookie == [acct : Account, version : 0 .. MaxVersion, role : Role,
           password : 0 .. MaxVersion, who : Identity]
NoEdit == [acct |-> NoAccount, by |-> {}]
Request == [by : Account, on : Account]

(* Rows, cookies, requests and counters hold values of their domains.      *)
TypeOK ==
    /\ status \in [Account -> {"none", "there", "deleted"}]
    /\ row \in [Account -> Row]
    /\ cookies \subseteq Cookie
    /\ edit = NoEdit \/ edit \in [acct : Account, by : SUBSET Cookie]
    /\ pending \subseteq Request
    /\ unsynced \subseteq Account
    /\ cut \subseteq Account

(* A new database, or one from a version that did not yet link GitHub rows.*)
Init ==
    /\ \E old \in {{}, Legacy} :
          status = [a \in Account |-> IF a \in old THEN "there" ELSE "none"]
    /\ row = [a \in Account |-> Blank("admin")]
    /\ cookies = {}
    /\ edit = NoEdit
    /\ pending = {}
    /\ unsynced = {} /\ cut = {}

-----------------------------------------------------------------------------
(* Requests and who makes them.                                            *)

LoopIdle == edit = NoEdit

(* get_current_user with a session cookie.                                 *)
Usable(c) ==
    /\ c.acct \in Users
    /\ row[c.acct].active
    /\ row[c.acct].version = c.version

(* require_role("admin")                                                   *)
Admin(a) ==
    /\ \E c \in cookies : c.acct = a /\ Usable(c)
    /\ row[a].role = "admin"

(* Mutant: the token names the user by username.                           *)
CookieForName(a, r, who) ==
    [acct |-> UserName[a], version |-> r.version, role |-> r.role,
     password |-> r.password, who |-> who]

(* issue_session_cookie                                                    *)
CookieFor(a, r, who) ==
    [acct |-> a, version |-> r.version, role |-> r.role,
     password |-> r.password, who |-> who]
Issue(a, r, who) ==
    /\ cookies' = cookies \cup {CookieFor(a, r, who)}
    /\ Cardinality({c \in cookies' : c.acct = a}) <= MaxCookies

NameTaken(a) == \E b \in Users : UserName[b] = UserName[a]
SameName(n) == {b \in Users : Folded[b] = n}

Insert(a, r) ==
    /\ status[a] = "none" /\ ~NameTaken(a)
    /\ Cardinality({b \in Account : status[b] # "none"}) < MaxUsers
    /\ status' = [status EXCEPT ![a] = "there"]
    /\ row' = [row EXCEPT ![a] = r]

-----------------------------------------------------------------------------
(* Signing in.                                                             *)

(* POST /setup: open while the users table is empty.                       *)
Setup(a) ==
    /\ LoopIdle
    /\ Users = {}
    /\ Insert(a, Blank("admin"))
    /\ Issue(a, Blank("admin"), "password")
    /\ UNCHANGED <<edit, pending, historyVars>>

(* POST /auth/login with the right password, the lock permitting.          *)
SignIn(a) ==
    /\ LoopIdle
    /\ a \in Users /\ row[a].active
    /\ Issue(a, row[a], "password")
    /\ UNCHANGED <<userVars, edit, pending, historyVars>>

(* The cookie is issued only to an active row.                             *)
IssueIfActive(a, r, who) ==
    IF r.active THEN Issue(a, r, who) ELSE UNCHANGED cookies

(* A directory login of name n, with the role of its groups: a row of that *)
(* name from another provider is never touched (upsert_ldap_user).         *)
LdapSignIn(n, r) ==
    /\ LoopIdle
    /\ SameName(n) \subseteq LdapUser
    /\ \/ \E a \in LdapUser :
             /\ SameName(n) = {} /\ Folded[a] = n
             /\ Insert(a, Blank(r))
             /\ Issue(a, Blank(r), "directory")
             /\ UNCHANGED unsynced
       \/ \E a \in SameName(n) :
             LET synced == [row[a] EXCEPT !.role = IF @ = r \/ row[a].override THEN @ ELSE r]
             IN  /\ row' = [row EXCEPT ![a] = synced]
                 /\ unsynced' = IF synced.role # row[a].role
                                THEN unsynced \cup {a} ELSE unsynced
                 /\ IssueIfActive(a, synced, "directory")
                 /\ UNCHANGED status
    /\ UNCHANGED <<edit, pending, cut>>

Linked(g) == {a \in Users \cap GithubUser : row[a].link = g}

(* Mutant: a row of the login's name is entered whoever it is linked to.   *)
UnlinkedRelinks(n) ==
    {a \in SameName(n) \cap GithubUser : row[a].active}

(* The one row of the login's name, if it waits to be linked.              *)
Unlinked(n) ==
    {a \in SameName(n) \cap GithubUser :
        SameName(n) = {a} /\ row[a].link = NoLink /\ row[a].active}

(* The callback of GitHub, after its last await, for account g there that  *)
(* now has login n: the row linked to g; or the row of that name, which is *)
(* linked; or a new row, where these are allowed.                          *)
GithubSignIn(g, n) ==
    /\ LoopIdle
    /\ \/ \E a \in Linked(g) :
             /\ row[a].active
             /\ Issue(a, row[a], g)
             /\ UNCHANGED userVars
       \/ \E a \in Unlinked(n) :
             /\ Linked(g) = {}
             /\ row' = [row EXCEPT ![a].link = g]
             /\ Issue(a, row[a], g)
             /\ UNCHANGED status
       \/ \E a \in GithubUser, r \in Role :
             /\ Linked(g) = {} /\ SameName(n) = {} /\ Folded[a] = n
             /\ Insert(a, [Blank(r) EXCEPT !.link = g])
             /\ Issue(a, Blank(r), g)
    /\ UNCHANGED <<edit, pending, historyVars>>

CookieExpires(c) ==
    /\ LoopIdle
    /\ cookies' = cookies \ {c}
    /\ UNCHANGED <<userVars, edit, pending, historyVars>>

(* bump_session_version                                                    *)
Revoke(a) ==
    /\ row[a].version < MaxVersion
    /\ row' = [row EXCEPT ![a].version = @ + 1]
    /\ unsynced' = unsynced \ {a}
    /\ cut' = cut \ {a}

(* POST /auth/logout: only a current cookie ends the user's sessions.      *)
SignOut(c) ==
    /\ LoopIdle
    /\ c.acct \in Users /\ row[c.acct].version = c.version
    /\ Revoke(c.acct)
    /\ UNCHANGED <<status, cookies, edit, pending>>

-----------------------------------------------------------------------------
(* User management.                                                        *)

(* POST /users/new                                                         *)
CreateUser(a, r) ==
    /\ LoopIdle
    /\ \E u \in Users : Admin(u)
    /\ Insert(a, Blank(r))
    /\ UNCHANGED <<cookies, edit, pending, historyVars>>

(* Mutant: a role change leaves the sessions alone.                        *)
RevokesNotOnRole(a, r, active, newPassword) ==
    newPassword \/ (row[a].active /\ ~active)

(* Mutant: a deactivation leaves the sessions alone, as they cannot be used*)
(* while it lasts.                                                         *)
RevokesNotOnDeactivation(a, r, active, newPassword) ==
    newPassword \/ row[a].role # r

Revokes(a, r, active, newPassword) ==
    newPassword \/ row[a].role # r \/ (row[a].active /\ ~active)

(* POST /users/{user_id}/edit, the first transaction. An admin who edits   *)
(* the own row from a session, not with a key, gets a fresh cookie with    *)
(* the second.                                                             *)
(* role_override and the password are kept for the rows that read them.    *)
UpdateUser(u, a, r, active, override, newPassword) ==
    /\ LoopIdle
    /\ Admin(u) /\ a \in Users
    /\ LET revoke == Revokes(a, r, active, newPassword)
       IN  /\ revoke => row[a].version < MaxVersion
           /\ row' = [row EXCEPT ![a].role = r, ![a].active = active,
                                 ![a].override = override /\ a \in LdapUser,
                                 ![a].password = IF newPassword /\ a \in LocalUser
                                                 THEN @ + 1 ELSE @]
           /\ row'[a].password <= MaxVersion
           /\ \E own \in {{}} \cup {{c} : c \in {d \in cookies : u = a /\ d.acct = a /\ Usable(d)}} :
                 edit' = IF revoke THEN [acct |-> a, by |-> own] ELSE NoEdit
    /\ UNCHANGED <<status, cookies, pending, historyVars>>

(* The second transaction, in the same breath.                             *)
RevokeSessions ==
    /\ edit # NoEdit
    /\ Revoke(edit.acct)
    /\ IF row[edit.acct].active
       THEN cookies' = cookies \cup {CookieFor(edit.acct, row'[edit.acct], c.who) : c \in edit.by}
       ELSE UNCHANGED cookies
    /\ edit' = NoEdit
    /\ UNCHANGED <<status, pending>>

(* POST /users/{user_id}/delete: authenticated, then waiting for the body. *)
DeleteAsked(u, a) ==
    /\ LoopIdle
    /\ Admin(u)
    /\ pending' = pending \cup {[by |-> u, on |-> a]}
    /\ Cardinality({p \in pending' : p.by = u}) <= MaxPending
    /\ UNCHANGED <<userVars, cookies, edit, historyVars>>

(* Mutant: an admin may delete the own account.                            *)
DeletableBySelf(p) == p.on \in Users

Deletable(p) == p.on # p.by /\ p.on \in Users

DeleteUser(p) ==
    /\ LoopIdle
    /\ pending' = pending \ {p}
    /\ IF Deletable(p)
       THEN /\ status' = [status EXCEPT ![p.on] = "deleted"]
            /\ row' = [row EXCEPT ![p.on] = Blank("admin")]
       ELSE UNCHANGED userVars
    /\ UNCHANGED <<cookies, edit, historyVars>>

(* A kill loses the requests; the signing key is on disk, so cookies stay. *)
Crash ==
    /\ cut' = IF edit = NoEdit THEN cut ELSE cut \cup {edit.acct}
    /\ edit' = NoEdit
    /\ pending' = {}
    /\ UNCHANGED <<userVars, cookies, unsynced>>

-----------------------------------------------------------------------------
Names == {Folded[a] : a \in Account}

SigningIn ==
    \/ \E a \in LocalUser : Setup(a) \/ SignIn(a)
    \/ \E n \in Names, r \in Role : LdapSignIn(n, r)
    \/ \E g \in GithubId, n \in Names : GithubSignIn(g, n)
    \/ \E c \in cookies : CookieExpires(c) \/ SignOut(c)

Managing ==
    \/ \E a \in LocalUser, r \in Role : CreateUser(a, r)
    \/ \E u, a \in Users, r \in Role, active, override, newPassword \in BOOLEAN :
          UpdateUser(u, a, r, active, override, newPassword)
    \/ RevokeSessions
    \/ \E u, a \in Users : DeleteAsked(u, a)
    \/ \E p \in pending : DeleteUser(p)

Next == SigningIn \/ Managing \/ Crash

Spec == Init /\ [][Next]_vars

-----------------------------------------------------------------------------
(* What must hold.                                                         *)

(* A session never outlives the role and the password it was opened with:  *)
(* users_update revokes the sessions when it changes either. Two ways      *)
(* around it are in the code and exempt here: the role that an LDAP login  *)
(* brings from the directory, and a death between the two transactions.    *)
CookieCarriesRights ==
    LoopIdle =>
        \A c \in cookies :
            Usable(c) /\ c.acct \notin cut =>
                /\ c.password = row[c.acct].password
                /\ c.acct \notin unsynced => c.role = row[c.acct].role

(* What get_current_user has refused once it refuses for good: no          *)
(* reactivation of the account, no later edit and no new row revives a     *)
(* session, unless a crash cut off the edit that was to revoke it.         *)
RevokedStaysRevoked ==
    [][\A c \in cookies :
          ~Usable(c) /\ c.acct \notin cut /\ LoopIdle => ~Usable(c)']_vars

(* The users table never empties, which would open /setup again, except    *)
(* when a deletion was authenticated before its caller was deleted too.    *)
SetupStaysClosed ==
    [][Users # {} /\ Users' = {} =>
          \E p \in pending : p.by \notin Users]_vars

(* A GitHub row is entered by one identity for as long as it is there,     *)
(* however logins are renamed or passed on at GitHub: once linked it is    *)
(* never linked to another account, no two rows are linked to one, and a   *)
(* session is opened only by the account that the row is linked to.        *)
OneIdentity ==
    [][/\ \A a \in Users \cap Users' :
             row[a].link # NoLink => row'[a].link = row[a].link
       /\ \A g \in GithubId : Cardinality(Linked(g)') <= 1
       /\ \A c \in cookies' \ cookies :
             c.acct \in GithubUser => c.who = row'[c.acct].link]_vars

=============================================================================
