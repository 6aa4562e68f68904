------------------------------ MODULE ApiKeys -------------------------------
(***************************************************************************)
(* API keys: their creation and revocation (web/routes/api_keys.py, the    *)
(* table api_keys of harness/db/_api_keys.py) and what a request that      *)
(* shows one may do (get_current_user, require_scope of web/auth.py and    *)
(* require_worker of web/routes/runner.py).                                *)
(*                                                                         *)
(* The accounts are the environment: what module Accounts lets user        *)
(* management do to a row changes the owner's standing here at any time.   *)
(* Hashes and prefixes are left out: a request shows the key it means.     *)
(***************************************************************************)
EXTENDS Naturals

CONSTANTS
    Owner,      \* users
    ApiKey,     \* rows of api_keys
    NoOwner,
    Scope,      \* KNOWN_SCOPES
    KeyRole     \* VALID_ROLES

ASSUME ScopeAssumption ==
    /\ {"*", "read"} \subseteq Scope
    /\ NoOwner \notin Owner
    /\ "inactive" \notin KeyRole /\ "gone" \notin KeyRole

VARIABLES
    standing,   \* the role of a user, "inactive", or "gone" with its row
    owner,      \* api_keys.user_id
    live,       \* api_keys.is_active, and not past expires_at
    scopes,     \* api_keys.scope
    earned,     \* history: keys that a worker role asked for
    revoking    \* authenticated revocations that wait for their body

keyVars == <<standing, owner, live, scopes, earned, revoking>>

WorkerRole == {"admin", "runner"}
WorkerScope == "worker:pull"
Unscoped == {k \in ApiKey : owner[k] # NoOwner /\ scopes[k] = {}}

(* Keys from before scopes have none; user ids are never used again.       *)
KeysInit ==
    /\ standing \in [Owner -> KeyRole]
    /\ \E old \in [ApiKey -> Owner \cup {NoOwner}] :
          /\ owner = old
          /\ live = [k \in ApiKey |-> old[k] # NoOwner]
    /\ scopes = [k \in ApiKey |-> {}]
    /\ earned = {} /\ revoking = {}

-----------------------------------------------------------------------------
Active(u) == standing[u] \notin {"inactive", "gone"}

(* Mutant: the owner of a key is looked up and not looked at.              *)
AuthenticatesOwnerless(k) == live[k]

(* get_current_user with a key: its row, then the row of its owner.        *)
Authenticates(k) == live[k] /\ Active(owner[k])

(* get_api_key_scopes: no scope column, or one that cannot be read, grants *)
(* everything; so does the wildcard.                                       *)
Grants(k, s) == scopes[k] = {} \/ "*" \in scopes[k] \/ s \in scopes[k]

(* require_worker                                                          *)
MayWork(k) ==
    Authenticates(k) /\ Grants(k, WorkerScope) /\ standing[owner[k]] \in WorkerRole

(* Mutant: the table of restricted scopes forgets the wildcard.            *)
MayGrantWildcard(r, s) ==
    /\ s \in {WorkerScope, "worker:results"} => r \in WorkerRole
    /\ s = "admin" => r = "admin"

(* _SCOPE_ROLES                                                            *)
MayGrant(r, s) ==
    /\ s \in {"*", WorkerScope, "worker:results"} => r \in WorkerRole
    /\ s = "admin" => r = "admin"

(* POST /api-keys: _parse_scope_input turns a blank field into "read".     *)
CreateKey(u, k, S) ==
    /\ Active(u) /\ owner[k] = NoOwner
    /\ \A s \in S : MayGrant(standing[u], s)
    /\ owner' = [owner EXCEPT ![k] = u]
    /\ live' = [live EXCEPT ![k] = TRUE]
    /\ scopes' = [scopes EXCEPT ![k] = IF S = {} THEN {"read"} ELSE S]
    /\ earned' = IF standing[u] \in WorkerRole THEN earned \cup {k} ELSE earned
    /\ UNCHANGED <<standing, revoking>>

KeyExpires(k) ==
    /\ live[k]
    /\ live' = [live EXCEPT ![k] = FALSE]
    /\ UNCHANGED <<standing, owner, scopes, earned, revoking>>

(* POST /api-keys/{key_id}/revoke authenticates, then awaits its body.     *)
RevokeAsked(u, k) ==
    /\ Active(u)
    /\ revoking' = revoking \cup {[by |-> u, on |-> k, admin |-> standing[u] = "admin"]}
    /\ UNCHANGED <<standing, owner, live, scopes, earned>>

(* The UPDATE of someone who was not an admin finds own keys only.         *)
Hits(q) == q.admin \/ owner[q.on] = q.by

RevokeKey(q) ==
    /\ revoking' = revoking \ {q}
    /\ live' = IF Hits(q) THEN [live EXCEPT ![q.on] = FALSE] ELSE live
    /\ UNCHANGED <<standing, owner, scopes, earned>>

(* User management.                                                        *)
StandingChanges(u, s) ==
    /\ standing[u] # "gone"
    /\ standing' = [standing EXCEPT ![u] = s]
    /\ UNCHANGED <<owner, live, scopes, earned, revoking>>

KeysNext ==
    \/ \E u \in Owner, k \in ApiKey :
          RevokeAsked(u, k) \/ \E S \in SUBSET Scope : CreateKey(u, k, S)
    \/ \E k \in ApiKey : KeyExpires(k)
    \/ \E q \in revoking : RevokeKey(q)
    \/ \E u \in Owner, s \in KeyRole \cup {"inactive", "gone"} : StandingChanges(u, s)

KeysSpec == KeysInit /\ [][KeysNext]_keyVars

-----------------------------------------------------------------------------
(* What must hold.                                                         *)

(* Jobs, with their resolved secrets, go to a key only if its owner has a  *)
(* worker role now and had one when the key was made: a key that a reader  *)
(* made for itself does not turn into a worker's on a later promotion.     *)
(* Keys from before scopes are exempt: they grant everything.              *)
WorkIsEarned ==
    \A k \in ApiKey :
        MayWork(k) => k \in earned \cup Unscoped

(* A key that is revoked or expired, or whose owner is deleted, is refused *)
(* for good: the rows of keys outlive their owner, and a new account never *)
(* gets them. Deactivation is no such end, and a revocation ends only keys *)
(* of its caller, unless an admin asked for it.                            *)
DeadKeysStayDead ==
    [][\A k \in ApiKey :
          /\ owner[k] # NoOwner /\ (~live[k] \/ standing[owner[k]] = "gone")
                => ~Authenticates(k)'
          /\ live[k] /\ ~live'[k] /\ revoking' # revoking
                => \E q \in revoking : q.on = k /\ (q.by = owner[k] \/ q.admin)]_keyVars

=============================================================================
