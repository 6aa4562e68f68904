--------------------------- MODULE AccountsProofs ---------------------------
(***************************************************************************)
(* Proofs about Accounts, for any accounts, names, identities and roles.   *)
(***************************************************************************)
EXTENDS Accounts, FiniteSetTheorems, TLAPS

(* What a session says of its account. The version only grows; while it is *)
(* the row's, the row is active and has the role and the password of the   *)
(* session, but for an edit that has yet to revoke it, or never will.      *)
CookieOK(c) ==
    /\ status[c.acct] # "none"
    /\ status[c.acct] = "there" =>
          /\ c.version <= row[c.acct].version
          /\ c.acct \in GithubUser => c.who = row[c.acct].link /\ c.who \in GithubId
          /\ c.acct \notin cut /\ c.acct # edit.acct /\ c.version = row[c.acct].version =>
                /\ row[c.acct].active
                /\ c.password = row[c.acct].password
                /\ c.acct \notin unsynced => c.role = row[c.acct].role

(* The edit that is under way is of a row that is there, and the cookies   *)
(* it will renew are sessions of that row.                                 *)
EditOK ==
    edit # NoEdit =>
        /\ edit.acct \in Account /\ status[edit.acct] = "there"
        /\ edit.by \subseteq cookies
        /\ \A c \in edit.by : c.acct = edit.acct

LinksOK ==
    \A a, b \in GithubUser :
        /\ status[a] = "there" /\ status[b] = "there"
        /\ row[a].link = row[b].link /\ row[a].link # NoLink
        => a = b

(* A step opens sessions of a row r of account a at most, if it is active. *)
Opened(a, r) ==
    \A c \in cookies' \ cookies :
        /\ c \in Cookie /\ c.acct = a /\ r.active
        /\ c.version = r.version /\ c.password = r.password /\ c.role = r.role
        /\ a \in GithubUser => c.who = r.link /\ c.who \in GithubId

AccountInv == TypeOK /\ EditOK /\ LinksOK /\ \A c \in cookies : CookieOK(c)

LEMMA AccountsInit == Init => AccountInv
<1> SUFFICES ASSUME Init PROVE AccountInv
  OBVIOUS
<1>1. status \in [Account -> {"none", "there", "deleted"}]
  BY DEF Init
<1>2. Blank("admin") \in Row
  BY ProviderAssumption, BoundAssumption DEF Blank, Row
<1>3. row \in [Account -> Row]
  BY <1>2 DEF Init
<1>4. TypeOK
  BY <1>1, <1>3 DEF Init, TypeOK
<1>5. EditOK
  BY DEF Init, EditOK
<1>6. LinksOK
  BY DEF Init, LinksOK, Blank, Account
<1>7. \A c \in cookies : CookieOK(c)
  BY DEF Init
<1>8. QED
  BY <1>4, <1>5, <1>6, <1>7 DEF AccountInv

-----------------------------------------------------------------------------
(* Rows and cookies.                                                       *)

LEMMA BlankRow ==
    ASSUME NEW r \in Role
    PROVE  /\ Blank(r) \in Row
           /\ Blank(r).role = r /\ Blank(r).active /\ Blank(r).password = 0
           /\ Blank(r).version = 0 /\ Blank(r).link = NoLink
BY BoundAssumption DEF Blank, Row

LEMMA NewCookie ==
    ASSUME NEW a \in Account, NEW r \in Row, NEW who \in Identity
    PROVE  /\ CookieFor(a, r, who) \in Cookie
           /\ CookieFor(a, r, who).acct = a
           /\ CookieFor(a, r, who).version = r.version
           /\ CookieFor(a, r, who).role = r.role
           /\ CookieFor(a, r, who).password = r.password
           /\ CookieFor(a, r, who).who = who
BY DEF CookieFor, Cookie, Row

(* A new row is nobody's before: no session, no edit and no link is of it. *)
LEMMA InsertStep ==
    ASSUME AccountInv, NEW a \in Account, NEW r \in Row,
           Insert(a, r), LoopIdle, Opened(a, r),
           r.link = NoLink \/ \A b \in GithubUser :
               status[b] = "there" => row[b].link # r.link,
           UNCHANGED <<edit, pending, historyVars>>
    PROVE  AccountInv'
<1>1. /\ status[a] = "none"
      /\ status' = [status EXCEPT ![a] = "there"] /\ row' = [row EXCEPT ![a] = r]
      /\ UNCHANGED <<edit, pending, unsynced, cut>>
  BY DEF Insert, historyVars
<1>2. TypeOK'
  BY <1>1 DEF AccountInv, TypeOK, Opened
<1>3. EditOK'
  BY <1>1 DEF EditOK, LoopIdle
<1>4. LinksOK'
  BY <1>1 DEF LinksOK, AccountInv, TypeOK, Account
<1>5. ASSUME NEW c \in cookies PROVE CookieOK(c)'
  <2>1. c.acct \in Account /\ c.acct # a /\ CookieOK(c)
    BY <1>1 DEF AccountInv, TypeOK, Cookie, CookieOK
  <2>2. status'[c.acct] = status[c.acct] /\ row'[c.acct] = row[c.acct]
    BY <1>1, <2>1 DEF AccountInv, TypeOK
  <2>3. QED
    BY <1>1, <2>1, <2>2 DEF CookieOK
<1>6. ASSUME NEW c \in cookies' \ cookies PROVE CookieOK(c)'
  <2>1. status'[a] = "there" /\ row'[a] = r /\ r.version \in Nat
    BY <1>1, BoundAssumption DEF AccountInv, TypeOK, Row
  <2>2. QED
    BY <2>1 DEF CookieOK, Opened
<1>7. QED
  BY <1>2, <1>3, <1>4, <1>5, <1>6 DEF AccountInv

(* A step that leaves rows alone, or changes a row's role under the eyes   *)
(* of the history or its link from none, and issues sessions of that row.  *)
LEMMA SignedInStep ==
    ASSUME AccountInv, NEW a \in Account, NEW r \in Row,
           LoopIdle, Opened(a, r), status[a] = "there", status' = status,
           row' = [row EXCEPT ![a] = r],
           r.version = row[a].version, r.password = row[a].password,
           r.active = row[a].active,
           r.role = row[a].role \/ a \in unsynced',
           \/ r.link = row[a].link
           \/ row[a].link = NoLink /\ \A b \in GithubUser : status[b] = "there" => row[b].link # r.link,
           a \in GithubUser => \A c \in cookies : c.acct = a => c.who = r.link,
           unsynced \subseteq unsynced', unsynced' \subseteq Account,
           UNCHANGED <<edit, pending, cut>>
    PROVE  AccountInv'
<1>1. TypeOK'
  BY DEF AccountInv, TypeOK, Opened
<1>2. EditOK'
  BY DEF EditOK, LoopIdle
<1>3. LinksOK'
  BY DEF LinksOK, AccountInv, TypeOK, Account
<1>4. ASSUME NEW c \in cookies PROVE CookieOK(c)'
  <2>1. c.acct \in Account /\ CookieOK(c)
    BY DEF AccountInv, TypeOK, Cookie
  <2>2. CASE c.acct = a
    <3>1. row'[a] = r
      BY DEF AccountInv, TypeOK
    <3>2. QED
      BY <2>1, <2>2, <3>1 DEF CookieOK
  <2>3. CASE c.acct # a
    <3>1. row'[c.acct] = row[c.acct]
      BY <2>1, <2>3 DEF AccountInv, TypeOK
    <3>2. QED
      BY <2>1, <2>3, <3>1 DEF CookieOK
  <2>4. QED
    BY <2>2, <2>3
<1>5. ASSUME NEW c \in cookies' \ cookies PROVE CookieOK(c)'
  <2>1. row'[a] = r /\ r.version \in Nat
    BY BoundAssumption DEF AccountInv, TypeOK, Row
  <2>2. QED
    BY <2>1 DEF CookieOK, Opened
<1>6. QED
  BY <1>1, <1>2, <1>3, <1>4, <1>5 DEF AccountInv

(* The session that a sign-in opens.                                       *)
LEMMA IssuedCookies ==
    ASSUME NEW a \in Account, NEW q \in Row, NEW r \in Row, NEW who \in Identity,
           Issue(a, q, who), r.active,
           q.version = r.version, q.password = r.password, q.role = r.role,
           a \in GithubUser => who = r.link /\ who \in GithubId
    PROVE  Opened(a, r)
BY NewCookie DEF Issue, Opened

-----------------------------------------------------------------------------
(* The actions, one by one.                                                *)

LEMMA SetupSteps ==
    ASSUME AccountInv, NEW a \in LocalUser, Setup(a)
    PROVE  AccountInv'
<1>1. "admin" \in Role /\ a \in Account /\ a \notin GithubUser /\ "password" \in Identity
  BY ProviderAssumption DEF Account, Identity
<1>2. Opened(a, Blank("admin"))
  BY <1>1, BlankRow, IssuedCookies DEF Setup
<1>3. QED
  BY <1>1, <1>2, BlankRow, InsertStep DEF Setup

LEMMA SignInSteps ==
    ASSUME AccountInv, NEW a \in LocalUser, SignIn(a)
    PROVE  AccountInv'
<1>1. a \in Account /\ a \notin GithubUser /\ "password" \in Identity
  BY ProviderAssumption DEF Account, Identity
<1>2. TypeOK /\ row[a] \in Row /\ status[a] = "there"
  BY <1>1 DEF AccountInv, TypeOK, SignIn, Users
<1>3. row' = [row EXCEPT ![a] = row[a]]
  BY <1>1, <1>2 DEF SignIn, userVars, TypeOK
<1>4. Opened(a, row[a])
  BY <1>1, <1>2, IssuedCookies DEF SignIn
<1>5. row[a].link = row[a].link /\ unsynced' = unsynced /\ unsynced \subseteq Account
  BY <1>2 DEF SignIn, historyVars, TypeOK
<1>6. QED
  BY <1>1, <1>2, <1>3, <1>4, <1>5, SignedInStep DEF SignIn, userVars, historyVars

LEMMA LdapSteps ==
    ASSUME AccountInv, NEW n, NEW r \in Role, LdapSignIn(n, r)
    PROVE  AccountInv'
<1> "directory" \in Identity /\ TypeOK /\ LoopIdle
  BY DEF Identity, AccountInv, LdapSignIn
<1>1. ASSUME NEW a \in LdapUser, Insert(a, Blank(r)), Issue(a, Blank(r), "directory"),
             UNCHANGED unsynced
      PROVE  AccountInv'
  <2>1. a \in Account /\ a \notin GithubUser
    BY ProviderAssumption DEF Account
  <2>2. Opened(a, Blank(r))
    BY <1>1, <2>1, BlankRow, IssuedCookies
  <2>3. QED
    BY <1>1, <2>1, <2>2, BlankRow, InsertStep DEF LdapSignIn, historyVars
<1>2. ASSUME NEW a \in SameName(n), NEW synced,
             synced = [row[a] EXCEPT !.role = IF @ = r \/ row[a].override THEN @ ELSE r],
             row' = [row EXCEPT ![a] = synced],
             unsynced' = IF synced.role # row[a].role THEN unsynced \cup {a} ELSE unsynced,
             IssueIfActive(a, synced, "directory"), UNCHANGED status
      PROVE  AccountInv'
  <2>1. a \in LdapUser /\ a \in Account /\ a \notin GithubUser /\ status[a] = "there"
    BY <1>2, ProviderAssumption DEF LdapSignIn, SameName, Users, Account
  <2>2. row[a] \in Row
    BY <2>1 DEF TypeOK
  <2>3. /\ synced \in Row
        /\ synced.version = row[a].version /\ synced.password = row[a].password
        /\ synced.active = row[a].active /\ synced.link = row[a].link
    BY <1>2, <2>2 DEF Row
  <2>4. synced.role = row[a].role \/ a \in unsynced'
    BY <1>2
  <2>5. unsynced \subseteq unsynced' /\ unsynced' \subseteq Account
    BY <1>2, <2>1 DEF TypeOK
  <2>6. UNCHANGED <<edit, pending, cut>>
    BY DEF LdapSignIn
  <2>7. Opened(a, synced)
    <3>1. CASE synced.active
      BY <1>2, <2>1, <2>3, <3>1, IssuedCookies DEF IssueIfActive
    <3>2. CASE ~synced.active
      BY <1>2, <3>2 DEF IssueIfActive, Opened
    <3>3. QED
      BY <3>1, <3>2
  <2>8. row' = [row EXCEPT ![a] = synced] /\ status' = status
    BY <1>2
  <2>9. QED
    BY <2>1, <2>3, <2>4, <2>5, <2>6, <2>7, <2>8, SignedInStep
<1>3. QED
  BY <1>1, <1>2 DEF LdapSignIn

LEMMA GithubSteps ==
    ASSUME AccountInv, NEW g \in GithubId, NEW n, GithubSignIn(g, n)
    PROVE  AccountInv'
<1> /\ g \in Identity /\ TypeOK /\ LoopIdle
    /\ UNCHANGED <<edit, pending, unsynced, cut>>
    /\ unsynced \subseteq Account
  BY DEF Identity, AccountInv, GithubSignIn, historyVars, TypeOK
<1>1. ASSUME NEW a \in Linked(g), row[a].active, Issue(a, row[a], g), UNCHANGED userVars
      PROVE  AccountInv'
  <2>1. /\ a \in Account /\ a \in GithubUser /\ status[a] = "there" /\ row[a].link = g
        /\ row[a] \in Row
    BY DEF Linked, Users, TypeOK
  <2>2. row' = [row EXCEPT ![a] = row[a]] /\ status' = status
    BY <1>1, <2>1 DEF userVars, TypeOK
  <2>3. \A c \in cookies : c.acct = a => c.who = row[a].link
    BY <2>1 DEF AccountInv, CookieOK
  <2>4. Opened(a, row[a])
    BY <1>1, <2>1, IssuedCookies
  <2>5. QED
    BY <2>1, <2>2, <2>3, <2>4, SignedInStep
<1>2. ASSUME NEW a \in Unlinked(n), Linked(g) = {}, row' = [row EXCEPT ![a].link = g],
             Issue(a, row[a], g), UNCHANGED status
      PROVE  AccountInv'
  <2>1. /\ a \in Account /\ a \in GithubUser /\ status[a] = "there"
        /\ row[a].link = NoLink /\ row[a].active /\ row[a] \in Row
    BY DEF Unlinked, SameName, Users, TypeOK
  <2> DEFINE r == [row[a] EXCEPT !.link = g]
  <2>2. /\ r \in Row /\ r.link = g
        /\ r.version = row[a].version /\ r.password = row[a].password
        /\ r.active = row[a].active /\ r.role = row[a].role
    BY <2>1 DEF Row
  <2>3. row' = [row EXCEPT ![a] = r]
    BY <1>2, <2>1 DEF TypeOK
  <2>4. \A b \in GithubUser : status[b] = "there" => row[b].link # g
    BY <1>2 DEF Linked, Users, Account
  <2>5. \A c \in cookies : c.acct = a => c.who = g
    BY <2>1, ProviderAssumption DEF AccountInv, CookieOK
  <2>6. Opened(a, r)
    BY <1>2, <2>1, <2>2, IssuedCookies
  <2> HIDE DEF r
  <2>7. QED
    BY <1>2, <2>1, <2>2, <2>3, <2>4, <2>5, <2>6, SignedInStep
<1>3. ASSUME NEW a \in GithubUser, NEW q \in Role, Linked(g) = {},
             Insert(a, [Blank(q) EXCEPT !.link = g]), Issue(a, Blank(q), g)
      PROVE  AccountInv'
  <2> DEFINE r == [Blank(q) EXCEPT !.link = g]
  <2>1. a \in Account
    BY DEF Account
  <2>2. /\ r \in Row /\ r.link = g /\ r.active
        /\ r.version = Blank(q).version /\ r.password = Blank(q).password
        /\ r.role = Blank(q).role
    BY BlankRow, BoundAssumption DEF Row
  <2>3. \A b \in GithubUser : status[b] = "there" => row[b].link # g
    BY <1>3 DEF Linked, Users, Account
  <2>4. Opened(a, r)
    BY <1>3, <2>1, <2>2, BlankRow, IssuedCookies
  <2>5. Insert(a, r)
    BY <1>3
  <2> HIDE DEF r
  <2>6. QED
    BY <2>1, <2>2, <2>3, <2>4, <2>5, InsertStep DEF historyVars
<1>4. QED
  BY <1>1, <1>2, <1>3 DEF GithubSignIn

LEMMA CookieSteps ==
    ASSUME AccountInv, NEW c \in cookies, CookieExpires(c)
    PROVE  AccountInv'
<1>1. TypeOK' /\ EditOK' /\ LinksOK'
  BY DEF AccountInv, CookieExpires, userVars, historyVars, TypeOK, EditOK, LinksOK, LoopIdle
<1>2. \A d \in cookies' : CookieOK(d)'
  BY DEF AccountInv, CookieExpires, userVars, historyVars, CookieOK
<1>3. QED
  BY <1>1, <1>2 DEF AccountInv

(* With the version, every session of the row becomes an old one.          *)
LEMMA RevokeStep ==
    ASSUME AccountInv, NEW a \in Account, status[a] = "there", Revoke(a),
           Opened(a, row'[a]),
           edit = NoEdit \/ edit.acct = a,
           edit' = NoEdit, UNCHANGED <<status, pending>>
    PROVE  AccountInv'
<1>1. /\ row[a] \in Row /\ row[a].version \in Nat /\ row[a].version + 1 \in 0 .. MaxVersion
      /\ row[a].version < MaxVersion
  BY BoundAssumption DEF AccountInv, TypeOK, Row, Revoke
<1> DEFINE r == [row[a] EXCEPT !.version = row[a].version + 1]
<1>2. /\ r \in Row /\ r.version = row[a].version + 1
      /\ r.role = row[a].role /\ r.password = row[a].password
      /\ r.active = row[a].active /\ r.link = row[a].link
  BY <1>1 DEF Row
<1>3. row' = [row EXCEPT ![a] = r] /\ row'[a] = r
  BY DEF Revoke, AccountInv, TypeOK
<1>4. unsynced' = unsynced \ {a} /\ cut' = cut \ {a}
  BY DEF Revoke
<1> HIDE DEF r
<1>5. TypeOK'
  BY <1>2, <1>3, <1>4 DEF AccountInv, TypeOK, Opened
<1>6. EditOK'
  BY DEF EditOK
<1>7. LinksOK'
  BY <1>2, <1>3 DEF LinksOK, AccountInv, TypeOK, Account
<1>8. ASSUME NEW c \in cookies PROVE CookieOK(c)'
  <2>1. c \in Cookie /\ c.acct \in Account /\ c.version \in Nat /\ CookieOK(c)
    BY BoundAssumption DEF AccountInv, TypeOK, Cookie
  <2>2. CASE c.acct = a
    BY <1>1, <1>2, <1>3, <2>1, <2>2 DEF CookieOK
  <2>3. CASE c.acct # a
    <3>1. row'[c.acct] = row[c.acct]
      BY <1>3, <2>1, <2>3 DEF AccountInv, TypeOK
    <3>2. c.acct # edit.acct
      BY <2>1, <2>3, ProviderAssumption DEF NoEdit
    <3>3. QED
      BY <1>4, <2>1, <2>3, <3>1, <3>2 DEF CookieOK
  <2>4. QED
    BY <2>2, <2>3
<1>9. ASSUME NEW c \in cookies' \ cookies PROVE CookieOK(c)'
  <2>1. r.version \in Nat
    BY <1>1, <1>2
  <2>2. QED
    BY <1>2, <1>3, <2>1 DEF CookieOK, Opened
<1>10. QED
  BY <1>5, <1>6, <1>7, <1>8, <1>9 DEF AccountInv

LEMMA SignOutSteps ==
    ASSUME AccountInv, NEW c \in cookies, SignOut(c)
    PROVE  AccountInv'
<1>1. c.acct \in Account /\ status[c.acct] = "there" /\ Revoke(c.acct)
  BY DEF SignOut, Users
<1>2. /\ Opened(c.acct, row'[c.acct]) /\ edit = NoEdit /\ edit' = NoEdit
      /\ UNCHANGED <<status, pending>>
  BY DEF SignOut, LoopIdle, Opened
<1>3. QED
  BY <1>1, <1>2, RevokeStep

LEMMA RevokeSteps ==
    ASSUME AccountInv, RevokeSessions
    PROVE  AccountInv'
<1> DEFINE a == edit.acct
<1>1. /\ a \in Account /\ status[a] = "there" /\ edit.by \subseteq cookies
      /\ \A c \in edit.by : c.acct = a
      /\ Revoke(a) /\ edit' = NoEdit /\ UNCHANGED <<status, pending>>
  BY DEF AccountInv, EditOK, RevokeSessions
<1>2. /\ row[a] \in Row /\ row'[a] \in Row /\ row'[a].active = row[a].active
      /\ row'[a].link = row[a].link
  BY <1>1, BoundAssumption DEF Revoke, AccountInv, TypeOK, Row
<1>3. ASSUME NEW c \in edit.by
      PROVE  /\ c.who \in Identity
             /\ a \in GithubUser => c.who = row[a].link /\ c.who \in GithubId
  BY <1>1, <1>3 DEF AccountInv, TypeOK, Cookie, CookieOK
<1>4. \A c \in edit.by :
         LET d == CookieFor(a, row'[a], c.who)
         IN  /\ d \in Cookie /\ d.acct = a /\ d.version = row'[a].version
             /\ d.password = row'[a].password /\ d.role = row'[a].role
             /\ a \in GithubUser => d.who = row[a].link /\ d.who \in GithubId
  BY <1>1, <1>2, <1>3, NewCookie
<1>5. Opened(a, row'[a])
  BY <1>1, <1>2, <1>4 DEF RevokeSessions, Opened
<1>6. edit.acct = a
  OBVIOUS
<1> HIDE DEF a
<1>7. QED
  BY <1>1, <1>5, <1>6, RevokeStep

-----------------------------------------------------------------------------
(* User management.                                                        *)

LEMMA CreateSteps ==
    ASSUME AccountInv, NEW a \in LocalUser, NEW q \in Role, CreateUser(a, q)
    PROVE  AccountInv'
<1>1. a \in Account
  BY DEF Account
<1>2. Opened(a, Blank(q))
  BY DEF CreateUser, Opened
<1>3. QED
  BY <1>1, <1>2, BlankRow, InsertStep DEF CreateUser

(* An edit that revokes exempts the sessions of its row until it has; any  *)
(* other keeps the role, the password and an active row.                   *)
LEMMA UpdateSteps ==
    ASSUME AccountInv, NEW u \in Users, NEW a \in Users, NEW q \in Role,
           NEW active \in BOOLEAN, NEW override \in BOOLEAN, NEW newPassword \in BOOLEAN,
           UpdateUser(u, a, q, active, override, newPassword)
    PROVE  AccountInv'
<1> DEFINE revoke == Revokes(a, q, active, newPassword)
           flag == override /\ a \in LdapUser
           password == IF newPassword /\ a \in LocalUser
                       THEN row[a].password + 1 ELSE row[a].password
           r == [row[a] EXCEPT !.role = q, !.active = active, !.override = flag,
                               !.password = password]
<1>1. /\ a \in Account /\ status[a] = "there" /\ row[a] \in Row /\ flag \in BOOLEAN
      /\ LoopIdle /\ UNCHANGED <<status, cookies, pending, unsynced, cut>>
  BY DEF AccountInv, TypeOK, Users, UpdateUser, historyVars
<1>2. row' = [row EXCEPT ![a] = r] /\ r.password <= MaxVersion
  BY <1>1 DEF AccountInv, TypeOK, UpdateUser
<1>3. PICK own \in {{}} \cup {{c} : c \in {d \in cookies : u = a /\ d.acct = a /\ Usable(d)}} :
          edit' = IF revoke THEN [acct |-> a, by |-> own] ELSE NoEdit
  BY DEF UpdateUser
<1>4. own \subseteq cookies /\ \A c \in own : c.acct = a
  BY <1>3
<1> HIDE DEF flag
<1>5. /\ r.role = q /\ r.active = active /\ r.version = row[a].version
      /\ r.link = row[a].link /\ r.password = password
      /\ password \in Nat
      /\ newPassword = FALSE => password = row[a].password
  BY <1>1, BoundAssumption DEF Row
<1>6. password \in 0 .. MaxVersion
  BY <1>2, <1>5, BoundAssumption
<1> HIDE DEF password
<1>7. r \in Row
  BY <1>1, <1>6 DEF Row
<1> HIDE DEF r
<1>8. ~revoke => r.role = row[a].role /\ r.password = row[a].password
                 /\ (row[a].active => r.active)
  BY <1>5 DEF Revokes
<1> HIDE DEF revoke
<1>9. edit' = [acct |-> a, by |-> own] \/ (edit' = NoEdit /\ ~revoke)
  BY <1>3
<1>10. TypeOK'
  <2>1. row' \in [Account -> Row] /\ own \in SUBSET Cookie
    BY <1>2, <1>4, <1>7 DEF AccountInv, TypeOK
  <2>2. edit' = NoEdit \/ edit' \in [acct : Account, by : SUBSET Cookie]
    BY <1>1, <1>9, <2>1
  <2>3. QED
    BY <1>1, <2>1, <2>2 DEF AccountInv, TypeOK, NoEdit
<1>11. EditOK'
  BY <1>1, <1>4, <1>9 DEF EditOK, NoEdit
<1>12. LinksOK'
  BY <1>1, <1>2, <1>5 DEF LinksOK, AccountInv, TypeOK, Account
<1>13. ASSUME NEW c \in cookies PROVE CookieOK(c)'
  <2>1. c.acct \in Account /\ CookieOK(c) /\ c.acct # edit.acct
    BY <1>1, ProviderAssumption DEF AccountInv, TypeOK, Cookie, LoopIdle, NoEdit
  <2>2. CASE c.acct = a
    <3>1. row'[a] = r
      BY <1>1, <1>2 DEF AccountInv, TypeOK
    <3>2. CASE edit' = [acct |-> a, by |-> own]
      BY <1>1, <1>5, <2>1, <2>2, <3>1, <3>2 DEF CookieOK
    <3>3. CASE edit' = NoEdit /\ ~revoke
      BY <1>1, <1>5, <1>8, <2>1, <2>2, <3>1, <3>3 DEF CookieOK
    <3>4. QED
      BY <1>9, <3>2, <3>3
  <2>3. CASE c.acct # a
    <3>1. row'[c.acct] = row[c.acct]
      BY <1>2, <2>1, <2>3 DEF AccountInv, TypeOK
    <3>2. QED
      BY <1>1, <2>1, <2>3, <3>1 DEF CookieOK
  <2>4. QED
    BY <2>2, <2>3
<1>14. QED
  BY <1>1, <1>10, <1>11, <1>12, <1>13 DEF AccountInv

LEMMA AskSteps ==
    ASSUME AccountInv, NEW u \in Users, NEW a \in Users, DeleteAsked(u, a)
    PROVE  AccountInv'
<1>1. TypeOK'
  BY DEF AccountInv, TypeOK, DeleteAsked, userVars, historyVars, Request, Users
<1>2. EditOK' /\ LinksOK' /\ \A c \in cookies' : CookieOK(c)'
  BY DEF AccountInv, DeleteAsked, userVars, historyVars, EditOK, LinksOK, CookieOK
<1>3. QED
  BY <1>1, <1>2 DEF AccountInv

LEMMA DeleteSteps ==
    ASSUME AccountInv, NEW p \in pending, DeleteUser(p)
    PROVE  AccountInv'
<1>1. edit = NoEdit /\ UNCHANGED <<edit, cookies, unsynced, cut>>
  BY DEF DeleteUser, LoopIdle, historyVars
<1>2. p.on \in Account
  BY DEF AccountInv, TypeOK, Request
<1>3. TypeOK'
  <2>1. CASE Deletable(p)
    BY <1>1, <1>2, <2>1, BlankRow, ProviderAssumption DEF AccountInv, TypeOK, DeleteUser
  <2>2. CASE ~Deletable(p)
    BY <1>1, <2>2 DEF AccountInv, TypeOK, DeleteUser, userVars
  <2>3. QED
    BY <2>1, <2>2
<1>4. EditOK'
  BY <1>1 DEF EditOK
<1>5. \A a \in Account : /\ status'[a] = "there" => status[a] = "there" /\ row'[a] = row[a]
                         /\ status[a] # "none" => status'[a] # "none"
  BY DEF DeleteUser, Deletable, userVars, AccountInv, TypeOK
<1>6. LinksOK'
  BY <1>5 DEF LinksOK, AccountInv, Account
<1>7. ASSUME NEW c \in cookies PROVE CookieOK(c)'
  BY <1>1, <1>5 DEF CookieOK, AccountInv, TypeOK, Cookie
<1>8. QED
  BY <1>1, <1>3, <1>4, <1>6, <1>7 DEF AccountInv

LEMMA CrashSteps ==
    ASSUME AccountInv, Crash
    PROVE  AccountInv'
<1>1. TypeOK'
  BY DEF AccountInv, TypeOK, EditOK, Crash, userVars
<1>2. EditOK' /\ LinksOK'
  BY DEF AccountInv, Crash, userVars, EditOK, LinksOK
<1>3. ASSUME NEW c \in cookies PROVE CookieOK(c)'
  BY ProviderAssumption DEF AccountInv, TypeOK, Cookie, Crash, userVars, CookieOK, NoEdit
<1>4. QED
  BY <1>1, <1>2, <1>3 DEF AccountInv, Crash

LEMMA AccountStep == AccountInv /\ [Next]_vars => AccountInv'
<1> SUFFICES ASSUME AccountInv, [Next]_vars PROVE AccountInv'
  OBVIOUS
<1>1. CASE SigningIn
  BY <1>1, SetupSteps, SignInSteps, LdapSteps, GithubSteps, CookieSteps, SignOutSteps
     DEF SigningIn
<1>2. CASE Managing
  BY <1>2, CreateSteps, UpdateSteps, RevokeSteps, AskSteps, DeleteSteps DEF Managing
<1>3. CASE Crash
  BY <1>3, CrashSteps
<1>4. CASE UNCHANGED vars
  BY <1>4 DEF vars, userVars, historyVars, AccountInv, TypeOK, EditOK, LinksOK, CookieOK
<1>5. QED
  BY <1>1, <1>2, <1>3, <1>4 DEF Next

-----------------------------------------------------------------------------
(* Rows, sessions, edits and requests are of their types in every          *)
(* reachable state of harness/db/_users.py and the routes over it.         *)
THEOREM AccountsTypeCorrect == Spec => []TypeOK
<1>1. AccountInv => TypeOK
  BY DEF AccountInv
<1>2. QED
  BY <1>1, AccountsInit, AccountStep, PTL DEF Spec

(* A session that get_current_user takes has the role and the password of  *)
(* its row: whatever changed them has also changed the session version.    *)
THEOREM CookieCarriesRightsHolds == Spec => []CookieCarriesRights
<1>1. AccountInv => CookieCarriesRights
  BY ProviderAssumption
     DEF AccountInv, TypeOK, Cookie, CookieOK, CookieCarriesRights, Usable, Users, LoopIdle, NoEdit
<1>2. QED
  BY <1>1, AccountsInit, AccountStep, PTL DEF Spec

-----------------------------------------------------------------------------
(* What a step does to the rows: an id is used once, a version only grows, *)
(* a link is kept, and sessions are opened of rows that are there.         *)
OpenedOf(a) == \A c \in cookies' \ cookies : c.acct = a
Aged ==
    /\ \A a \in Account :
          /\ status[a] = "deleted" => status'[a] = "deleted"
          /\ status[a] = "there" /\ status'[a] = "there" =>
                /\ row[a].version <= row'[a].version
                /\ row[a].link # NoLink => row'[a].link = row[a].link
    /\ \A c \in cookies' \ cookies : status'[c.acct] = "there"

LEMMA InsertAges ==
    ASSUME TypeOK, NEW a \in Account, NEW r, Insert(a, r), OpenedOf(a)
    PROVE  Aged
<1>1. status[a] = "none" /\ status'[a] = "there"
  BY DEF Insert, TypeOK
<1>2. ASSUME NEW b \in Account, b # a PROVE status'[b] = status[b] /\ row'[b] = row[b]
  BY <1>2 DEF Insert, TypeOK
<1>3. ASSUME NEW b \in Account PROVE row[b].version \in Nat
  BY BoundAssumption DEF TypeOK, Row
<1>4. QED
  BY <1>1, <1>2, <1>3 DEF Aged, OpenedOf

LEMMA RowAges ==
    ASSUME TypeOK, NEW a \in Account, NEW r, status[a] = "there", status' = status,
           row' = [row EXCEPT ![a] = r], OpenedOf(a),
           row[a].version <= r.version, row[a].link # NoLink => r.link = row[a].link
    PROVE  Aged
<1>1. row'[a] = r /\ \A b \in Account : b # a => row'[b] = row[b]
  BY DEF TypeOK
<1>2. ASSUME NEW b \in Account PROVE row[b].version \in Nat
  BY BoundAssumption DEF TypeOK, Row
<1>3. QED
  BY <1>1, <1>2 DEF Aged, OpenedOf

LEMMA SameRows ==
    ASSUME TypeOK, UNCHANGED userVars, cookies' \subseteq cookies
    PROVE  Aged
<1>1. ASSUME NEW b \in Account PROVE row[b].version \in Nat
  BY BoundAssumption DEF TypeOK, Row
<1>2. QED
  BY <1>1 DEF Aged, userVars

LEMMA SigningInAges == ASSUME AccountInv, SigningIn PROVE Aged
<1> USE DEF OpenedOf
<1> TypeOK
  BY DEF AccountInv
<1>0. ASSUME NEW a, NEW r, NEW who, Issue(a, r, who) PROVE OpenedOf(a)
  BY <1>0 DEF Issue, CookieFor
<1> HIDE DEF OpenedOf
<1>1. ASSUME NEW a \in Account
      PROVE  row[a].version \in Nat /\ row[a].version <= row[a].version
  BY BoundAssumption DEF TypeOK, Row
<1>2. ASSUME NEW a \in LocalUser, Setup(a) \/ SignIn(a) PROVE Aged
  <2>1. a \in Account
    BY DEF Account
  <2>2. CASE Setup(a)
    BY <1>0, <2>1, <2>2, InsertAges DEF Setup
  <2>3. CASE SignIn(a)
    <3>1. row' = [row EXCEPT ![a] = row[a]] /\ status' = status /\ status[a] = "there"
      BY <2>1, <2>3 DEF SignIn, userVars, TypeOK, Users
    <3>2. OpenedOf(a)
      BY <1>0, <2>3 DEF SignIn
    <3>3. QED
      BY <1>1, <2>1, <3>1, <3>2, RowAges
  <2>4. QED
    BY <1>2, <2>2, <2>3
<1>3. ASSUME NEW n, NEW q \in Role, LdapSignIn(n, q) PROVE Aged
  <2>1. ASSUME NEW a \in LdapUser, Insert(a, Blank(q)), Issue(a, Blank(q), "directory")
        PROVE  Aged
    BY <1>0, <2>1, InsertAges DEF Account
  <2>2. ASSUME NEW a \in SameName(n), NEW synced,
               synced = [row[a] EXCEPT !.role = IF @ = q \/ row[a].override THEN @ ELSE q],
               row' = [row EXCEPT ![a] = synced],
               IssueIfActive(a, synced, "directory"), UNCHANGED status
        PROVE  Aged
    <3>1. a \in Account /\ status[a] = "there" /\ row[a] \in Row
      BY DEF SameName, Users, TypeOK
    <3>2. synced.version = row[a].version /\ synced.link = row[a].link
      BY <2>2, <3>1 DEF Row
    <3>3. OpenedOf(a)
      BY <1>0, <2>2 DEF IssueIfActive, OpenedOf
    <3>4. row' = [row EXCEPT ![a] = synced] /\ status' = status
      BY <2>2
    <3>5. QED
      BY <1>1, <3>1, <3>2, <3>3, <3>4, RowAges
  <2>3. QED
    BY <1>3, <2>1, <2>2 DEF LdapSignIn
<1>4. ASSUME NEW g \in GithubId, NEW n, GithubSignIn(g, n) PROVE Aged
  <2>1. ASSUME NEW a \in Linked(g), Issue(a, row[a], g), UNCHANGED userVars
        PROVE  Aged
    <3>1. a \in Account /\ status[a] = "there"
      BY DEF Linked, Users
    <3>2. row' = [row EXCEPT ![a] = row[a]] /\ status' = status
      BY <2>1, <3>1 DEF userVars, TypeOK
    <3>3. QED
      BY <1>0, <1>1, <2>1, <3>1, <3>2, RowAges
  <2>2. ASSUME NEW a \in Unlinked(n), row' = [row EXCEPT ![a].link = g],
               Issue(a, row[a], g), UNCHANGED status
        PROVE  Aged
    <3> DEFINE r == [row[a] EXCEPT !.link = g]
    <3>1. a \in Account /\ status[a] = "there" /\ row[a].link = NoLink /\ row[a] \in Row
      BY DEF Unlinked, SameName, Users, TypeOK
    <3>2. row' = [row EXCEPT ![a] = r] /\ r.version = row[a].version
      BY <2>2, <3>1 DEF TypeOK, Row
    <3> HIDE DEF r
    <3>3. QED
      BY <1>0, <1>1, <2>2, <3>1, <3>2, RowAges
  <2>3. ASSUME NEW a \in GithubUser, NEW q \in Role,
               Insert(a, [Blank(q) EXCEPT !.link = g]), Issue(a, Blank(q), g)
        PROVE  Aged
    BY <1>0, <2>3, InsertAges DEF Account
  <2>4. QED
    BY <1>4, <2>1, <2>2, <2>3 DEF GithubSignIn
<1>5. ASSUME NEW c \in cookies, CookieExpires(c) PROVE Aged
  BY <1>5, SameRows DEF CookieExpires
<1>6. ASSUME NEW c \in cookies, SignOut(c) PROVE Aged
  <2> DEFINE a == c.acct
             r == [row[a] EXCEPT !.version = @ + 1]
  <2>1. a \in Account /\ status[a] = "there" /\ row[a] \in Row /\ OpenedOf(a)
    BY <1>6 DEF SignOut, Users, TypeOK, OpenedOf
  <2>2. row' = [row EXCEPT ![a] = r] /\ r.version = row[a].version + 1 /\ r.link = row[a].link
    BY <1>6, <2>1 DEF SignOut, Revoke, TypeOK, Row
  <2>3. status' = status
    BY <1>6 DEF SignOut
  <2> HIDE DEF r, a
  <2>4. row[a].version <= r.version
    BY <1>1, <2>1, <2>2
  <2>5. QED
    BY <2>1, <2>2, <2>3, <2>4, RowAges
<1>7. QED
  BY <1>2, <1>3, <1>4, <1>5, <1>6 DEF SigningIn

LEMMA ManagingAges == ASSUME AccountInv, Managing PROVE Aged
<1> TypeOK
  BY DEF AccountInv
<1>1. ASSUME NEW a \in Account
      PROVE  row[a].version \in Nat /\ row[a].version <= row[a].version
  BY BoundAssumption DEF TypeOK, Row
<1>2. ASSUME NEW a \in LocalUser, NEW q \in Role, CreateUser(a, q) PROVE Aged
  <2>1. a \in Account /\ OpenedOf(a)
    BY <1>2 DEF Account, CreateUser, OpenedOf
  <2>2. QED
    BY <1>2, <2>1, InsertAges DEF CreateUser
<1>3. ASSUME NEW u, NEW a \in Users, NEW q \in Role, NEW active, NEW override, NEW newPassword,
             UpdateUser(u, a, q, active, override, newPassword)
      PROVE  Aged
  <2> DEFINE r == row'[a]
  <2>1. a \in Account /\ status[a] = "there" /\ row[a] \in Row /\ OpenedOf(a)
    BY <1>3 DEF UpdateUser, Users, TypeOK, OpenedOf
  <2>2. row' = [row EXCEPT ![a] = r] /\ r.version = row[a].version /\ r.link = row[a].link
    BY <1>3, <2>1 DEF UpdateUser, TypeOK, Row
  <2>3. status' = status
    BY <1>3 DEF UpdateUser
  <2> HIDE DEF r
  <2>4. QED
    BY <1>1, <2>1, <2>2, <2>3, RowAges
<1>4. ASSUME RevokeSessions PROVE Aged
  <2> DEFINE a == edit.acct
             r == [row[a] EXCEPT !.version = @ + 1]
  <2>1. a \in Account /\ status[a] = "there" /\ row[a] \in Row /\ OpenedOf(a)
    BY <1>4, NewCookie DEF RevokeSessions, TypeOK, OpenedOf, AccountInv, EditOK, CookieFor
  <2>2. row' = [row EXCEPT ![a] = r] /\ r.version = row[a].version + 1 /\ r.link = row[a].link
    BY <1>4, <2>1 DEF RevokeSessions, Revoke, TypeOK, Row
  <2>3. status' = status
    BY <1>4 DEF RevokeSessions
  <2> HIDE DEF r, a
  <2>4. row[a].version <= r.version
    BY <1>1, <2>1, <2>2
  <2>5. QED
    BY <2>1, <2>2, <2>3, <2>4, RowAges
<1>5. ASSUME NEW u, NEW a, DeleteAsked(u, a) PROVE Aged
  BY <1>5, SameRows DEF DeleteAsked
<1>6. ASSUME NEW p \in pending, DeleteUser(p) PROVE Aged
  <2>1. \A a \in Account : /\ status'[a] = "there" => status[a] = "there" /\ row'[a] = row[a]
                           /\ status[a] = "deleted" => status'[a] = "deleted"
    BY <1>6 DEF DeleteUser, Deletable, userVars, TypeOK
  <2>2. cookies' = cookies
    BY <1>6 DEF DeleteUser
  <2>3. QED
    BY <1>1, <2>1, <2>2 DEF Aged
<1>7. QED
  BY <1>2, <1>3, <1>4, <1>5, <1>6 DEF Managing

LEMMA StepAges == AccountInv /\ [Next]_vars => Aged
<1> SUFFICES ASSUME AccountInv, [Next]_vars PROVE Aged
  OBVIOUS
<1>1. TypeOK
  BY DEF AccountInv
<1>2. CASE Crash \/ UNCHANGED vars
  BY <1>1, <1>2, SameRows DEF Crash, vars
<1>3. QED
  BY <1>2, SigningInAges, ManagingAges DEF Next

(* What get_current_user refuses for good: a session that is not usable is *)
(* of a deleted row or of an older version, and neither comes back.        *)
THEOREM RevokedStaysRevokedHolds == Spec => RevokedStaysRevoked
<1> DEFINE Step == \A c \in cookies :
        ~Usable(c) /\ c.acct \notin cut /\ LoopIdle => ~Usable(c)'
<1>1. AccountInv /\ [Next]_vars => [Step]_vars
  <2> SUFFICES ASSUME AccountInv, [Next]_vars, NEW c \in cookies,
                      ~Usable(c), c.acct \notin cut, LoopIdle
               PROVE  ~Usable(c)'
    OBVIOUS
  <2>1. c.acct \in Account /\ c.version \in Nat /\ CookieOK(c) /\ c.acct # edit.acct
    BY ProviderAssumption, BoundAssumption DEF AccountInv, TypeOK, Cookie, LoopIdle, NoEdit
  <2>2. row[c.acct].version \in Nat /\ row'[c.acct].version \in Nat
    <3>1. TypeOK /\ TypeOK'
      BY AccountStep DEF AccountInv
    <3>2. QED
      BY <2>1, <3>1, BoundAssumption DEF TypeOK, Row
  <2>3. Aged
    BY StepAges
  <2>4. status[c.acct] \in {"there", "deleted"}
    BY <2>1 DEF CookieOK, AccountInv, TypeOK
  <2>5. CASE status[c.acct] = "deleted"
    BY <2>1, <2>3, <2>5 DEF Aged, Usable, Users
  <2>6. CASE status[c.acct] = "there"
    <3>1. c.version < row[c.acct].version
      BY <2>1, <2>2, <2>6 DEF CookieOK, Usable, Users
    <3>2. status'[c.acct] = "there" => c.version < row'[c.acct].version
      BY <2>1, <2>2, <2>3, <2>6, <3>1 DEF Aged
    <3>3. QED
      BY <2>1, <2>2, <3>2 DEF Usable, Users
  <2>7. QED
    BY <2>4, <2>5, <2>6
<1>2. QED
  BY <1>1, AccountsInit, AccountStep, PTL DEF Spec, RevokedStaysRevoked

(* Only users_delete takes a row away, one of another caller than its own: *)
(* the last one goes only for a caller that is gone already.               *)
THEOREM SetupStaysClosedHolds == Spec => SetupStaysClosed
<1> DEFINE Step == Users # {} /\ Users' = {} => \E p \in pending : p.by \notin Users
<1>1. AccountInv /\ [Next]_vars => [Step]_vars
  <2> SUFFICES ASSUME AccountInv, [Next]_vars, NEW a \in Users, Users' = {}
               PROVE  \E p \in pending : p.by \notin Users
    OBVIOUS
  <2>1. TypeOK
    BY DEF AccountInv
  <2>2. status' # status /\ status'[a] # "there" /\ a \in Account /\ status[a] = "there"
    BY DEF Users
  <2>3. ASSUME NEW b \in Account, NEW r, Insert(b, r) PROVE FALSE
    BY <2>1, <2>2, <2>3 DEF Insert, TypeOK
  <2>4. PICK p \in pending : DeleteUser(p)
    <3>1. ~SigningIn
      <4>1. ASSUME NEW b \in LocalUser PROVE ~Setup(b) /\ ~SignIn(b)
        BY <2>2, <2>3 DEF Setup, SignIn, userVars, Account
      <4>2. ASSUME NEW n, NEW q \in Role PROVE ~LdapSignIn(n, q)
        BY <2>2, <2>3 DEF LdapSignIn, Account
      <4>3. ASSUME NEW g, NEW n PROVE ~GithubSignIn(g, n)
        BY <2>2, <2>3 DEF GithubSignIn, userVars, Account
      <4>4. ASSUME NEW c \in cookies PROVE ~CookieExpires(c) /\ ~SignOut(c)
        BY <2>2 DEF CookieExpires, SignOut, userVars
      <4>5. QED
        BY <4>1, <4>2, <4>3, <4>4 DEF SigningIn
    <3>2. ~Crash /\ ~UNCHANGED vars
      BY <2>2 DEF Crash, vars, userVars
    <3>3. ASSUME NEW b \in LocalUser, NEW q \in Role PROVE ~CreateUser(b, q)
      BY <2>3 DEF CreateUser, Account
    <3>4. ~RevokeSessions
      BY <2>2 DEF RevokeSessions
    <3>5. ASSUME NEW u, NEW b, NEW q, NEW active, NEW override, NEW newPassword
          PROVE  ~UpdateUser(u, b, q, active, override, newPassword) /\ ~DeleteAsked(u, b)
      BY <2>2 DEF UpdateUser, DeleteAsked, userVars
    <3>6. QED
      BY <3>1, <3>2, <3>3, <3>4, <3>5 DEF Next, Managing
  <2>5. Deletable(p) /\ status' = [status EXCEPT ![p.on] = "deleted"]
    BY <2>2, <2>4 DEF DeleteUser, userVars
  <2>6. \A b \in Account : status[b] = "there" => b = p.on
    BY <2>1, <2>5 DEF Users, TypeOK
  <2>7. QED
    BY <2>5, <2>6 DEF Deletable, Users
<1>2. QED
  BY <1>1, AccountsInit, AccountStep, PTL DEF Spec, SetupStaysClosed

(* A row of the provider GitHub is entered by one identity: its link is    *)
(* kept, no other row has it, and its sessions are opened by it.           *)
THEOREM OneIdentityHolds == Spec => OneIdentity
<1> DEFINE Step ==
        /\ \A a \in Users \cap Users' : row[a].link # NoLink => row'[a].link = row[a].link
        /\ \A g \in GithubId : Cardinality(Linked(g)') <= 1
        /\ \A c \in cookies' \ cookies : c.acct \in GithubUser => c.who = row'[c.acct].link
<1>1. AccountInv /\ [Next]_vars => [Step]_vars
  <2> SUFFICES ASSUME AccountInv, [Next]_vars PROVE Step
    OBVIOUS
  <2>1. AccountInv' /\ Aged
    BY AccountStep, StepAges
  <2>2. \A a \in Users \cap Users' : row[a].link # NoLink => row'[a].link = row[a].link
    BY <2>1 DEF Aged, Users
  <2>3. ASSUME NEW g \in GithubId PROVE Cardinality(Linked(g)') <= 1
    <3> DEFINE L == Linked(g)'
    <3>1. \A a, b \in L : a = b
      BY <2>1, ProviderAssumption DEF AccountInv, LinksOK, Linked, Users
    <3> HIDE DEF L
    <3>2. CASE L = {}
      BY <3>2, FS_EmptySet DEF L
    <3>3. CASE L # {}
      <4>1. PICK x \in L : L = {x}
        BY <3>1, <3>3
      <4>2. Cardinality({x}) = 1
        BY FS_Singleton
      <4>3. QED
        BY <4>1, <4>2 DEF L
    <3>4. QED
      BY <3>2, <3>3
  <2>4. ASSUME NEW c \in cookies' \ cookies, c.acct \in GithubUser
        PROVE  c.who = row'[c.acct].link
    BY <2>1, <2>4 DEF AccountInv, CookieOK, Aged
  <2>5. QED
    BY <2>2, <2>3, <2>4
<1>2. QED
  BY <1>1, AccountsInit, AccountStep, PTL DEF Spec, OneIdentity

=============================================================================
