--------------------------- MODULE RunnerRegistry ---------------------------
(***************************************************************************)
(* The registry of remote workers ("runners") kept by the central harness: *)
(* the runners table (harness/db/_runners.py), the API keys that           *)
(* authenticate workers, and the handlers of web/routes/runner.py and      *)
(* web/routes/admin_runners.py that change a runner row.                   *)
(*                                                                         *)
(* Every handler here runs on the single asyncio event loop and reaches no *)
(* await between its checks and its writes, so each is one action.         *)
(* A second central process on the same database, against which Register   *)
(* writes its binding conditionally, is not modelled.                      *)
(*                                                                         *)
(* Left out: last_seen_at, version_stale and capabilities, which only the  *)
(* admin page reads, and the audit log.                                    *)
(***************************************************************************)
EXTENDS Naturals, FiniteSets

CONSTANTS
    Runner,     \* names a worker may register under
    Key,        \* API keys
    User,       \* owners of API keys
    KeyUser,    \* the user each key belongs to (api_keys.user_id)
    Tag,        \* dispatch tags a worker may announce
    Version,    \* how a worker's version compares with central's
    Health,     \* health reports a heartbeat may carry
    NoKey,      \* runners.api_key_id IS NULL
    MaxDeletes  \* bound: how often an admin deletes a runner

ASSUME KeyAssumption == NoKey \notin Key /\ KeyUser \in [Key -> User]
ASSUME VersionAssumption ==
    Version \subseteq {"ok", "stale", "incompatible"} /\ "ok" \in Version
ASSUME HealthAssumption == Health \subseteq {"none", "healthy", "unhealthy"}
ASSUME DeleteAssumption == MaxDeletes \in Nat

VARIABLES
    registered,   \* names with a row in the runners table
    bound,        \* runners.api_key_id
    tags,         \* runners.tags
    version,      \* runners.version, classified against central's
    status,       \* runners.status; nothing ever writes 'offline'
    health,       \* runners.health, the last health the worker reported
    liveKeys,     \* keys that pass require_worker: active, unexpired, scoped
    adminDrain,   \* history: drained by an admin and not resumed since
    deletes       \* number of deletions so far

regVars == <<registered, bound, tags, version, status, health, liveKeys,
             adminDrain, deletes>>

RegTypeOK ==
    /\ registered \subseteq Runner
    /\ bound \in [Runner -> Key \cup {NoKey}]
    /\ tags \in [Runner -> SUBSET Tag]
    /\ version \in [Runner -> Version]
    /\ status \in [Runner -> {"online", "draining"}]
    /\ health \in [Runner -> {"none", "healthy", "unhealthy"}]
    /\ liveKeys \subseteq Key
    /\ adminDrain \in [Runner -> BOOLEAN]
    /\ deletes \in 0 .. MaxDeletes

(* A database upgraded from a release without name-to-key binding may hold *)
(* rows whose key is NULL. A name without a row carries the values of a    *)
(* freshly inserted one, so that Register need not tell the cases apart.   *)
RegInit ==
    /\ registered \in SUBSET Runner
    /\ bound = [r \in Runner |-> NoKey]
    /\ tags = [r \in Runner |-> {}]
    /\ version = [r \in Runner |-> "ok"]
    /\ status = [r \in Runner |-> "online"]
    /\ health = [r \in Runner |-> "none"]
    /\ liveKeys = Key
    /\ adminDrain = [r \in Runner |-> FALSE]
    /\ deletes = 0

-----------------------------------------------------------------------------

(* _require_bound after the 404 check: the caller's key is live, the name  *)
(* has a row and the row is bound to that key. An unbound row is refused.  *)
Authorized(r, k) == k \in liveKeys /\ r \in registered /\ bound[r] = k

(* What /poll and /jobs read before they hand out work.                    *)
Dispatchable(r) == status[r] # "draining" /\ version[r] # "incompatible"

(* The binding check of /register: an unbound name, one bound to a dead    *)
(* key, or one bound to a key of the same user may be taken over.          *)
Releasable(r, k) == bound[r] \in liveKeys => KeyUser[bound[r]] = KeyUser[k]

(* POST /register. An update keeps 'draining' and the reported health.     *)
Register(r, k, v, ts) ==
    /\ k \in liveKeys
    /\ Releasable(r, k)
    /\ registered' = registered \cup {r}
    /\ bound' = [bound EXCEPT ![r] = k]
    /\ version' = [version EXCEPT ![r] = v]
    /\ tags' = [tags EXCEPT ![r] = ts]
    /\ UNCHANGED <<status, health, liveKeys, adminDrain, deletes>>

(* POST /heartbeat. 'unhealthy' drains; 'healthy' after 'unhealthy' puts   *)
(* the runner back online, whoever drained it.                             *)
Heartbeat(r, k, h) ==
    /\ Authorized(r, k)
    /\ h # "none"
    /\ health' = [health EXCEPT ![r] = h]
    /\ status' = [status EXCEPT ![r] =
                    IF h = "unhealthy" THEN "draining"
                    ELSE IF health[r] = "unhealthy" THEN "online"
                    ELSE @]
    /\ UNCHANGED <<registered, bound, tags, version, liveKeys, adminDrain,
                   deletes>>

(* POST /admin/runners/{name}/drain.                                       *)
Drain(r) ==
    /\ r \in registered
    /\ status' = [status EXCEPT ![r] = "draining"]
    /\ adminDrain' = [adminDrain EXCEPT ![r] = TRUE]
    /\ UNCHANGED <<registered, bound, tags, version, health, liveKeys, deletes>>

(* POST /admin/runners/{name}/resume.                                      *)
Resume(r) ==
    /\ r \in registered
    /\ status' = [status EXCEPT ![r] = "online"]
    /\ adminDrain' = [adminDrain EXCEPT ![r] = FALSE]
    /\ UNCHANGED <<registered, bound, tags, version, health, liveKeys, deletes>>

(* The registry's half of POST /admin/runners/{name}/delete; the same      *)
(* transaction requeues the runner's jobs (WorkerDispatch!DeleteRunner).   *)
RemoveRow(r) ==
    /\ r \in registered
    /\ deletes < MaxDeletes
    /\ deletes' = deletes + 1
    /\ registered' = registered \ {r}
    /\ bound' = [bound EXCEPT ![r] = NoKey]
    /\ tags' = [tags EXCEPT ![r] = {}]
    /\ version' = [version EXCEPT ![r] = "ok"]
    /\ status' = [status EXCEPT ![r] = "online"]
    /\ health' = [health EXCEPT ![r] = "none"]
    /\ adminDrain' = [adminDrain EXCEPT ![r] = FALSE]
    /\ UNCHANGED liveKeys

(* A key is revoked, deleted or expires. No operation revives one.         *)
KeyDies(k) ==
    /\ k \in liveKeys
    /\ liveKeys' = liveKeys \ {k}
    /\ UNCHANGED <<registered, bound, tags, version, status, health,
                   adminDrain, deletes>>

(* The requests that touch nothing but the registry.                       *)
RegistryRequest ==
    \E r \in Runner :
        \/ \E k \in Key :
              \/ \E v \in Version, ts \in SUBSET Tag : Register(r, k, v, ts)
              \/ \E h \in Health : Heartbeat(r, k, h)
        \/ Drain(r)
        \/ Resume(r)

=============================================================================
