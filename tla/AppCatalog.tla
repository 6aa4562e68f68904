----------------------------- MODULE AppCatalog -----------------------------
(***************************************************************************)
(* The app catalog: the YAML files of apps/ and apps/archived              *)
(* (harness/app_manager.py), the list that the server has loaded from them *)
(* (harness/loader.py, reload_apps of web/main.py), the scheduler's jobs,  *)
(* built from that list when the server starts (harness/auto_scheduler.py),*)
(* and the secrets that both have resolved (routes of web/routes/api.py    *)
(* and web/routes/secrets.py).                                             *)
(*                                                                         *)
(* No handler here awaits, so each is one step; but the write of a file    *)
(* truncates it first, and the process may be killed or the disk be full   *)
(* before the text is there. One secret stands for all, and every          *)
(* definition refers to it.                                                *)
(***************************************************************************)
EXTENDS Naturals

CONSTANTS
    AppName,
    Slug,       \* names of files
    SlugOf,     \* slugify_app_name; two names may share a file
    Nameless,   \* a definition without the key app
    Cron,       \* day-of-week fields: NoCron, or <<first, last, step>>, where
    NoCron,     \* step 0 is a field without "/"
    Value,      \* of the secret
    Unset,      \* no row of secrets: "$VAR" stays in the definition
    Absent,     \* no file
    Torn,       \* an empty file, which is not a mapping
    NoStart,
    MaxEdits    \* bound: definitions ever written

ASSUME CatalogAssumption ==
    /\ SlugOf \in [AppName -> Slug]
    /\ Nameless \notin AppName
    /\ NoCron \in Cron /\ Cron \ {NoCron} \subseteq (0 .. 7) \X (0 .. 7) \X Nat
    /\ Unset \notin Value
    /\ MaxEdits \in Nat
    /\ Absent # Torn

VARIABLES
    active,     \* apps/
    archived,   \* apps/archived
    secret,
    server,     \* "up" or "down"
    loaded,     \* _apps: the files and the secret of the last load
    jobs,       \* what the scheduler's jobs hold, as files and secret
    edits,      \* definitions written so far
    calm,       \* history: nothing has changed since the server started
    started     \* history: the run that the last step has started

diskVars == <<active, archived, edits>>
catalogVars == <<diskVars, secret, server, loaded, jobs, calm, started>>

Definition ==
    [name : AppName \cup {Nameless}, cron : Cron, edit : 1 .. MaxEdits]
ASSUME FileAssumption == Absent \notin Definition /\ Torn \notin Definition

Snapshot(files, value) == [files |-> files, value |-> value]
NoFiles == [s \in Slug |-> Absent]
Empty == Snapshot(NoFiles, Unset)

CatalogInit ==
    /\ active = NoFiles /\ archived = NoFiles
    /\ secret = Unset
    /\ server = "up" /\ loaded = Empty /\ jobs = Empty
    /\ edits = 0
    /\ calm = TRUE
    /\ started = NoStart

-----------------------------------------------------------------------------
(* cron_trigger: cron(5) counts the days from Sunday, 0 or 7; APScheduler  *)
(* from Monday, 0.                                                         *)

(* Mutant: only Sunday is moved.                                           *)
TranslateSunday(n) == IF n \in {0, 7} THEN 6 ELSE n

Translate(n) == IF n \in {0, 7} THEN 6 ELSE n - 1

(* The range that CronTrigger is given; a field with "/" passes through.   *)
First(f) == IF f[3] = 0 THEN Translate(f[1]) ELSE f[1]
Last(f) == IF f[3] = 0 THEN Translate(f[2]) ELSE f[2]
Step(f) == IF f[3] = 0 THEN 1 ELSE f[3]

(* CronTrigger rejects a range that ends before it starts or after 6.      *)
Accepted(f) == f # NoCron /\ First(f) <= Last(f) /\ Last(f) <= 6
TriggerDays(f) ==
    {d \in First(f) .. Last(f) : (d - First(f)) % Step(f) = 0}

-----------------------------------------------------------------------------
(* Loading.                                                                *)

Files(dir) == {s \in Slug : dir[s] # Absent}

(* load_apps raises on a file that is no mapping, and nothing is loaded.   *)
Loadable(dir) == \A s \in Slug : dir[s] # Torn

(* Mutant: a reload reads the files and keeps the secret it has.           *)
ReloadFiles(dir, value) ==
    loaded' = IF ~Loadable(dir) THEN loaded
              ELSE Snapshot(dir, IF loaded.value = Unset THEN value ELSE loaded.value)

(* reload_apps; the routes of the catalog drop its exceptions, those of    *)
(* the secrets answer 500, and neither undoes what it has done before.     *)
Reload(dir, value) ==
    loaded' = IF Loadable(dir) THEN Snapshot(dir, value) ELSE loaded

(* build_scheduler names a job after its app: one with a schedule and no   *)
(* name keeps the server from starting.                                    *)
Schedulable(dir) ==
    \A s \in Files(dir) : dir[s].cron # NoCron => dir[s].name # Nameless
Startable == Loadable(active) /\ Schedulable(active)

Changed == calm' = FALSE /\ started' = NoStart

-----------------------------------------------------------------------------
(* The routes of the catalog.                                              *)

Write(s, d) ==
    /\ edits < MaxEdits /\ edits' = edits + 1
    /\ active' = [active EXCEPT ![s] = d]
    /\ Reload(active', secret)
    /\ Changed
    /\ UNCHANGED <<archived, secret, server, jobs>>

(* The write has truncated the file when the disk is full, or the process  *)
(* dies. Nothing is reloaded.                                              *)
Tear(s) ==
    /\ active' = [active EXCEPT ![s] = Torn]
    /\ \/ UNCHANGED <<server, loaded, jobs>>
       \/ server' = "down" /\ loaded' = Empty /\ jobs' = Empty
    /\ Changed
    /\ UNCHANGED <<archived, edits, secret>>

(* POST /api/apps                                                          *)
CreateApp(n, cron) ==
    LET s == SlugOf[n]
    IN  /\ server = "up" /\ active[s] = Absent
        /\ \/ Write(s, [name |-> n, cron |-> cron, edit |-> edits + 1])
           \/ Tear(s)

(* PUT /api/apps/{n}: the definition may name n or nothing.                *)
UpdateApp(n, name, cron) ==
    LET s == SlugOf[n]
    IN  /\ server = "up" /\ active[s] # Absent
        /\ name \in {n, Nameless}
        /\ \/ Write(s, [name |-> name, cron |-> cron, edit |-> edits + 1])
           \/ Tear(s)

(* DELETE /api/apps/{n}                                                    *)
ArchiveApp(n) ==
    LET s == SlugOf[n]
    IN  /\ server = "up" /\ active[s] # Absent /\ archived[s] = Absent
        /\ archived' = [archived EXCEPT ![s] = active[s]]
        /\ active' = [active EXCEPT ![s] = Absent]
        /\ Reload(active', secret)
        /\ Changed
        /\ UNCHANGED <<edits, secret, server, jobs>>

(* Mutant: what is there already is written over, as shutil.move does.     *)
RestoreAppOver(n) ==
    LET s == SlugOf[n]
    IN  /\ server = "up" /\ archived[s] # Absent
        /\ active' = [active EXCEPT ![s] = archived[s]]
        /\ archived' = [archived EXCEPT ![s] = Absent]
        /\ Reload(active', secret)
        /\ Changed
        /\ UNCHANGED <<edits, secret, server, jobs>>

(* Mutant: the list is not loaded again.                                   *)
RestoreAppSilently(n) ==
    LET s == SlugOf[n]
    IN  /\ server = "up" /\ archived[s] # Absent /\ active[s] = Absent
        /\ active' = [active EXCEPT ![s] = archived[s]]
        /\ archived' = [archived EXCEPT ![s] = Absent]
        /\ Changed
        /\ UNCHANGED <<edits, secret, server, loaded, jobs>>

(* POST /api/apps/{n}/restore                                              *)
RestoreApp(n) ==
    LET s == SlugOf[n]
    IN  /\ server = "up" /\ archived[s] # Absent /\ active[s] = Absent
        /\ active' = [active EXCEPT ![s] = archived[s]]
        /\ archived' = [archived EXCEPT ![s] = Absent]
        /\ Reload(active', secret)
        /\ Changed
        /\ UNCHANGED <<edits, secret, server, jobs>>

(* DELETE /api/apps/{n}/permanent                                          *)
DeleteApp(n) ==
    /\ server = "up" /\ archived[SlugOf[n]] # Absent
    /\ archived' = [archived EXCEPT ![SlugOf[n]] = Absent]
    /\ started' = NoStart
    /\ UNCHANGED <<active, edits, secret, server, loaded, jobs, calm>>

(* POST /secrets and POST /secrets/{name}/delete, for v = Unset.           *)
SetSecret(v) ==
    /\ server = "up"
    /\ secret' = v
    /\ Reload(active, v)
    /\ Changed
    /\ UNCHANGED <<diskVars, server, jobs>>

-----------------------------------------------------------------------------
(* Runs. A run resolves again what its definition has left unresolved.     *)

Resolved(value) == IF value = Unset THEN secret ELSE value
Started(d, snap, by) ==
    /\ started' = [def |-> d, value |-> Resolved(snap.value), by |-> by]
    /\ UNCHANGED <<diskVars, secret, server, loaded, jobs, calm>>

(* POST /api/runs: the name of every loaded definition is looked at.       *)
StartRun(n) ==
    /\ server = "up"
    /\ \A s \in Files(loaded.files) : loaded.files[s].name # Nameless
    /\ \E s \in Files(loaded.files) :
          loaded.files[s].name = n /\ Started(loaded.files[s], loaded, "user")

(* A job of the scheduler fires.                                           *)
Scheduled == {s \in Files(jobs.files) : Accepted(jobs.files[s].cron)}
JobFires ==
    /\ server = "up"
    /\ \E s \in Scheduled : Started(jobs.files[s], jobs, "schedule")

-----------------------------------------------------------------------------
(* Processes and operators.                                                *)

Killed ==
    /\ server = "up"
    /\ server' = "down" /\ loaded' = Empty /\ jobs' = Empty
    /\ started' = NoStart
    /\ UNCHANGED <<diskVars, secret, calm>>

(* create_app and the start of the scheduler.                              *)
Start ==
    /\ server = "down" /\ Startable
    /\ server' = "up"
    /\ Reload(active, secret)
    /\ jobs' = Snapshot(active, secret)
    /\ calm' = TRUE /\ started' = NoStart
    /\ UNCHANGED <<diskVars, secret>>

(* Someone removes the files that keep the server from starting.           *)
Repair(s) ==
    /\ server = "down" /\ active[s] # Absent
    /\ active[s] # Torn => active[s].name = Nameless
    /\ active' = [active EXCEPT ![s] = Absent]
    /\ started' = NoStart
    /\ UNCHANGED <<archived, edits, secret, server, loaded, jobs, calm>>

CatalogNext ==
    \/ \E n \in AppName :
          \/ \E c \in Cron : CreateApp(n, c)
          \/ \E c \in Cron, m \in AppName \cup {Nameless} : UpdateApp(n, m, c)
          \/ ArchiveApp(n) \/ RestoreApp(n) \/ DeleteApp(n) \/ StartRun(n)
    \/ \E v \in Value \cup {Unset} : SetSecret(v)
    \/ JobFires \/ Killed \/ Start
    \/ \E s \in Slug : Repair(s)

CatalogSpec == CatalogInit /\ [][CatalogNext]_catalogVars

-----------------------------------------------------------------------------
(* What must hold.                                                         *)

(* The list in memory is what the disk and the secrets say, whatever       *)
(* failed in between, as long as no file is torn: a reload that such a     *)
(* file defeats is made good by the request that mends or archives it.     *)
CatalogFresh ==
    server = "up" /\ Loadable(active) => loaded = Snapshot(active, secret)

(* What a file holds disappears only by a write to this file or, if it is  *)
(* archived, by its deletion, which leaves the active ones alone: none is  *)
(* moved onto another, and none is in both places. It is about files: apps *)
(* whose names share a slug share a file, and a PUT overwrites it.         *)
DefinitionsKept ==
    [][\A s \in Slug :
          /\ active[s] \in Definition /\ active'[s] # active[s] =>
                \/ archived'[s] = active[s]
                \/ UNCHANGED archived /\ (edits' > edits \/ active'[s] = Torn)
                \/ server = "down"
          /\ archived[s] \in Definition /\ archived'[s] # archived[s] =>
                \/ active'[s] = archived[s]
                \/ UNCHANGED active
          /\ archived'[s] = active'[s] => archived'[s] \in {Absent, Torn}]_catalogVars

(* A user's run takes the definition and the secret of the moment, unless  *)
(* a torn file holds up the reload. A scheduled run takes the definition   *)
(* of the server's start, which is known to be of the moment only as long  *)
(* as nothing has changed since.                                           *)
RunsAreCurrent ==
    started # NoStart /\ Loadable(active) /\ (started.by = "schedule" => calm) =>
        /\ \E s \in Slug : active[s] = started.def
        /\ started.value = secret

(* The days of week on which cron(5) fires, with Monday 0 as above.        *)
CronDays(f) ==
    {d \in 0 .. 6 : \E k \in f[1] .. f[2] :
        (k + 6) % 7 = d /\ (f[3] = 0 \/ (k - f[1]) % f[3] = 0)}

(* A job fires on the days its field asks for, if this is a range of       *)
(* cron(5) without "/" and not the one from Sunday to Sunday, which becomes*)
(* Sunday alone.                                                           *)
JobsOnTheirDays ==
    \A s \in Scheduled :
        LET f == jobs.files[s].cron
        IN  f[1] <= f[2] /\ f[3] = 0 /\ f # <<0, 7, 0>> => TriggerDays(f) = CronDays(f)

=============================================================================
