-------------------------- MODULE ServerFileProofs --------------------------
(***************************************************************************)
(* Proofs about what the server keeps in files: the catalog of apps        *)
(* (AppCatalog), for any apps, files, schedules and secrets, and the       *)
(* secret key (SecretKeyFile), for any number of boots.                    *)
(***************************************************************************)
EXTENDS AppCatalog, SecretKeyFile, TLAPS

-----------------------------------------------------------------------------
(* The day-of-week field.                                                  *)

LEMMA DayOfCron == \A k \in 0 .. 7 : (k + 6) % 7 = Translate(k)
<1>1. ASSUME NEW k \in 0 .. 7 PROVE (k + 6) % 7 = Translate(k)
  <2>1. k = 0 \/ k = 1 \/ k = 2 \/ k = 3 \/ k = 4 \/ k = 5 \/ k = 6 \/ k = 7
    OBVIOUS
  <2>2. QED
    BY <2>1 DEF Translate
<1>2. QED
  BY <1>1

(* Whatever range cron(5) knows, the translated one means the same days    *)
(* if CronTrigger accepts it, but for the range from Sunday to Sunday.     *)
LEMMA SameDays ==
    ASSUME NEW a \in 0 .. 7, NEW b \in 0 .. 7, a <= b, Accepted(<<a, b, 0>>), ~(a = 0 /\ b = 7)
    PROVE  TriggerDays(<<a, b, 0>>) = CronDays(<<a, b, 0>>)
<1> DEFINE f == <<a, b, 0>>
<1>1. /\ f[1] = a /\ f[2] = b /\ f[3] = 0
      /\ First(f) = Translate(a) /\ Last(f) = Translate(b) /\ Step(f) = 1
  BY DEF First, Last, Step
<1>2. Translate(a) <= Translate(b) /\ Translate(b) <= 6
  BY <1>1 DEF Accepted
<1>3. Translate(a) \in 0 .. 6 /\ Translate(b) \in 0 .. 6
  BY DEF Translate
<1>4. TriggerDays(f) = {d \in Translate(a) .. Translate(b) : (d - Translate(a)) % 1 = 0}
  BY <1>1 DEF TriggerDays
<1>5. \A d \in Translate(a) .. Translate(b) : (d - Translate(a)) % 1 = 0
  BY <1>3
<1>6. TriggerDays(f) = Translate(a) .. Translate(b)
  BY <1>4, <1>5
<1>7. CronDays(f) = {d \in 0 .. 6 : \E k \in a .. b : Translate(k) = d}
  <2>1. \A k \in a .. b : (k + 6) % 7 = Translate(k)
    BY DayOfCron
  <2>2. QED
    BY <1>1, <2>1 DEF CronDays
<1>8. ASSUME NEW d \in 0 .. 6
      PROVE  (\E k \in a .. b : Translate(k) = d) <=> d \in Translate(a) .. Translate(b)
  <2>1. CASE a = 0
    BY <1>2, <2>1 DEF Translate
  <2>2. CASE a # 0
    <3>1. a <= 7 /\ a >= 1 /\ Translate(a) = a - 1 /\ Translate(b) = b - 1
      BY <2>2 DEF Translate
    <3>2. \A k \in a .. b : Translate(k) = k - 1
      BY <2>2 DEF Translate
    <3>3. d \in Translate(a) .. Translate(b) <=> d + 1 \in a .. b
      BY <3>1
    <3>4. QED
      BY <3>2, <3>3
  <2>3. QED
    BY <2>1, <2>2
<1>9. \A d : d \in Translate(a) .. Translate(b) => d \in 0 .. 6
  BY <1>3
<1>10. QED
  BY <1>6, <1>7, <1>8, <1>9

-----------------------------------------------------------------------------
(* The files, the list and the jobs.                                       *)

Content == Definition \cup {Absent, Torn}

CatalogTypeOK ==
    /\ active \in [Slug -> Content]
    /\ archived \in [Slug -> Content]
    /\ edits \in 0 .. MaxEdits
    /\ jobs.files \in [Slug -> Content]

(* While nothing changes the jobs hold what the files say. No file is torn *)
(* when the jobs are made. A definition is in one place, because it moves  *)
(* from there when it moves, and a later write is another definition.      *)
CatalogInv ==
    /\ CatalogTypeOK
    /\ CatalogFresh
    /\ RunsAreCurrent
    /\ server = "up" /\ calm => jobs = Snapshot(active, secret)
    /\ \A s \in Slug : jobs.files[s] # Torn
    /\ \A s \in Slug : active[s] \in Definition => active[s].edit <= edits
    /\ \A s \in Slug : archived[s] \in Definition => archived[s].edit <= edits
    /\ \A s \in Slug : active[s] = archived[s] => active[s] \in {Absent, Torn}

(* What a step that moves files has to leave true.                         *)
Kept(s) ==
    /\ active[s] \in Definition /\ active'[s] # active[s] =>
          \/ archived'[s] = active[s]
          \/ UNCHANGED archived /\ (edits' > edits \/ active'[s] = Torn)
          \/ server = "down"
    /\ archived[s] \in Definition /\ archived'[s] # archived[s] =>
          \/ active'[s] = archived[s]
          \/ UNCHANGED active
    /\ archived'[s] = active'[s] => archived'[s] \in {Absent, Torn}

LEMMA CatalogInitInv == CatalogInit => CatalogInv
<1> SUFFICES ASSUME CatalogInit PROVE CatalogInv
  OBVIOUS
<1>1. /\ active = [s \in Slug |-> Absent] /\ archived = [s \in Slug |-> Absent]
      /\ jobs.files = [s \in Slug |-> Absent] /\ edits = 0
  BY DEF CatalogInit, NoFiles, Empty, Snapshot
<1>2. CatalogTypeOK
  BY <1>1, CatalogAssumption DEF CatalogTypeOK, Content
<1>3. CatalogFresh /\ (server = "up" /\ calm => jobs = Snapshot(active, secret))
  BY DEF CatalogInit, CatalogFresh, Empty
<1>4. RunsAreCurrent
  BY DEF CatalogInit, RunsAreCurrent
<1>5. QED
  BY <1>1, <1>2, <1>3, <1>4, CatalogAssumption, FileAssumption DEF CatalogInv

(* A write makes a definition that there was none like.                    *)
LEMMA WriteStep ==
    ASSUME CatalogInv, NEW s \in Slug, NEW n \in AppName \cup {Nameless}, NEW c \in Cron,
           Write(s, [name |-> n, cron |-> c, edit |-> edits + 1])
    PROVE  CatalogInv' /\ \A t \in Slug : Kept(t)
<1> DEFINE d == [name |-> n, cron |-> c, edit |-> edits + 1]
<1>1. edits \in Nat /\ edits' = edits + 1 /\ edits' \in 0 .. MaxEdits
  BY CatalogAssumption DEF Write, CatalogInv, CatalogTypeOK
<1>2. d \in Definition /\ d.edit = edits + 1
  BY <1>1, CatalogAssumption DEF Definition
<1>3. /\ active' = [active EXCEPT ![s] = d]
      /\ loaded' = IF Loadable(active') THEN Snapshot(active', secret) ELSE loaded
      /\ calm' = FALSE /\ started' = NoStart
      /\ UNCHANGED <<archived, secret, server, jobs>>
  BY DEF Write, Reload, Changed
<1> HIDE DEF d
<1>4. CatalogTypeOK'
  BY <1>1, <1>2, <1>3 DEF CatalogInv, CatalogTypeOK, Content
<1>5. CatalogFresh' /\ RunsAreCurrent'
  BY <1>3 DEF CatalogFresh, RunsAreCurrent, Loadable
<1>6. \A t \in Slug : active'[t] \in Definition => active'[t].edit <= edits'
  BY <1>1, <1>2, <1>3 DEF CatalogInv, CatalogTypeOK, Definition
<1>7. \A t \in Slug : archived'[t] \in Definition => archived'[t].edit <= edits /\ edits < edits'
  BY <1>1, <1>3 DEF CatalogInv
<1>8. \A t \in Slug : active'[t] = archived'[t] => active'[t] \in {Absent, Torn}
  BY <1>1, <1>2, <1>3, <1>7 DEF CatalogInv, CatalogTypeOK
<1>9. \A t \in Slug : archived'[t] \in Definition => archived'[t].edit <= edits'
  BY <1>1, <1>7 DEF Definition
<1>10. CatalogInv'
  BY <1>3, <1>4, <1>5, <1>6, <1>8, <1>9 DEF CatalogInv
<1>11. \A t \in Slug : Kept(t)
  BY <1>1, <1>3, <1>8 DEF Kept
<1>12. QED
  BY <1>10, <1>11

LEMMA TearStep ==
    ASSUME CatalogInv, NEW s \in Slug, Tear(s)
    PROVE  CatalogInv' /\ \A t \in Slug : Kept(t)
<1>1. /\ active' = [active EXCEPT ![s] = Torn]
      /\ \/ server' = server /\ jobs' = jobs
         \/ server' = "down" /\ jobs' = Empty
      /\ calm' = FALSE /\ started' = NoStart
      /\ UNCHANGED <<archived, edits, secret>>
  BY DEF Tear, Changed
<1>2. Empty.files = [t \in Slug |-> Absent]
  BY DEF Empty, Snapshot, NoFiles
<1>3. active'[s] = Torn
  BY <1>1 DEF CatalogInv, CatalogTypeOK
<1>4. CatalogTypeOK' /\ \A t \in Slug : jobs'.files[t] # Torn
  BY <1>1, <1>2, CatalogAssumption DEF CatalogInv, CatalogTypeOK, Content
<1>5. CatalogFresh' /\ RunsAreCurrent'
  BY <1>1, <1>3 DEF CatalogFresh, RunsAreCurrent, Loadable
<1>6. /\ \A t \in Slug : active'[t] \in Definition => active'[t].edit <= edits'
      /\ \A t \in Slug : active'[t] = archived'[t] => active'[t] \in {Absent, Torn}
  BY <1>1, FileAssumption DEF CatalogInv, CatalogTypeOK
<1>7. CatalogInv'
  BY <1>1, <1>4, <1>5, <1>6 DEF CatalogInv
<1>8. \A t \in Slug : Kept(t)
  BY <1>1, <1>6 DEF Kept, CatalogInv, CatalogTypeOK
<1>9. QED
  BY <1>7, <1>8

(* Archiving and restoring: one file goes to a place where none was.       *)
LEMMA MoveStep ==
    ASSUME CatalogInv, NEW n \in AppName, ArchiveApp(n) \/ RestoreApp(n)
    PROVE  CatalogInv' /\ \A t \in Slug : Kept(t)
<1> DEFINE s == SlugOf[n]
<1>1. s \in Slug
  BY CatalogAssumption
<1>2. /\ \/ /\ active[s] # Absent /\ archived[s] = Absent
            /\ archived' = [archived EXCEPT ![s] = active[s]]
            /\ active' = [active EXCEPT ![s] = Absent]
         \/ /\ archived[s] # Absent /\ active[s] = Absent
            /\ active' = [active EXCEPT ![s] = archived[s]]
            /\ archived' = [archived EXCEPT ![s] = Absent]
      /\ loaded' = IF Loadable(active') THEN Snapshot(active', secret) ELSE loaded
      /\ calm' = FALSE /\ started' = NoStart
      /\ UNCHANGED <<edits, secret, server, jobs>>
  BY DEF ArchiveApp, RestoreApp, Reload, Changed
<1> HIDE DEF s
<1>3. CatalogTypeOK'
  BY <1>1, <1>2 DEF CatalogInv, CatalogTypeOK, Content
<1>4. CatalogFresh' /\ RunsAreCurrent'
  BY <1>2 DEF CatalogFresh, RunsAreCurrent, Loadable
<1>5. /\ \A t \in Slug : active'[t] \in Definition => active'[t].edit <= edits'
      /\ \A t \in Slug : archived'[t] \in Definition => archived'[t].edit <= edits'
      /\ \A t \in Slug : active'[t] = archived'[t] => active'[t] \in {Absent, Torn}
  BY <1>1, <1>2, FileAssumption DEF CatalogInv, CatalogTypeOK
<1>6. CatalogInv'
  BY <1>2, <1>3, <1>4, <1>5 DEF CatalogInv
<1>7. \A t \in Slug : Kept(t)
  BY <1>1, <1>2, <1>5, FileAssumption DEF Kept, CatalogInv, CatalogTypeOK
<1>8. QED
  BY <1>6, <1>7

LEMMA DeleteStep ==
    ASSUME CatalogInv, NEW n \in AppName, DeleteApp(n)
    PROVE  CatalogInv' /\ \A t \in Slug : Kept(t)
<1>1. /\ archived' = [archived EXCEPT ![SlugOf[n]] = Absent]
      /\ started' = NoStart
      /\ UNCHANGED <<active, edits, secret, server, loaded, jobs, calm>>
  BY DEF DeleteApp
<1>2. CatalogTypeOK'
  BY <1>1 DEF CatalogInv, CatalogTypeOK, Content
<1>3. CatalogFresh' /\ RunsAreCurrent'
  BY <1>1 DEF CatalogInv, CatalogFresh, RunsAreCurrent, Loadable, Snapshot
<1>4. /\ \A t \in Slug : archived'[t] \in Definition => archived'[t].edit <= edits'
      /\ \A t \in Slug : active'[t] = archived'[t] => active'[t] \in {Absent, Torn}
  BY <1>1, FileAssumption DEF CatalogInv, CatalogTypeOK
<1>5. CatalogInv'
  BY <1>1, <1>2, <1>3, <1>4 DEF CatalogInv, Snapshot
<1>6. \A t \in Slug : Kept(t)
  BY <1>1, <1>4 DEF Kept
<1>7. QED
  BY <1>5, <1>6

(* Steps that leave the disk alone.                                        *)
LEMMA QuietStep ==
    ASSUME CatalogInv,
           \/ \E v \in Value \cup {Unset} : SetSecret(v)
           \/ \E n \in AppName : StartRun(n)
           \/ JobFires \/ Killed \/ Start
           \/ UNCHANGED catalogVars
    PROVE  CatalogInv' /\ \A t \in Slug : Kept(t)
<1>1. UNCHANGED <<active, archived, edits>>
  BY DEF SetSecret, StartRun, JobFires, Started, Killed, Start, diskVars, catalogVars
<1>2. Empty.files = [t \in Slug |-> Absent]
  BY DEF Empty, Snapshot, NoFiles
<1>3. \/ jobs' = jobs
      \/ jobs' = Empty
      \/ jobs' = Snapshot(active, secret) /\ Loadable(active)
  BY DEF SetSecret, StartRun, JobFires, Started, Killed, Start, Startable, catalogVars
<1>4. jobs'.files \in [Slug -> Content] /\ \A t \in Slug : jobs'.files[t] # Torn
  <2>1. CASE jobs' = jobs
    BY <2>1 DEF CatalogInv, CatalogTypeOK
  <2>2. CASE jobs' = Empty
    BY <1>2, <2>2, CatalogAssumption DEF Content
  <2>3. CASE jobs' = Snapshot(active, secret) /\ Loadable(active)
    BY <2>3 DEF Snapshot, Loadable, CatalogInv, CatalogTypeOK
  <2>4. QED
    BY <1>3, <2>1, <2>2, <2>3
<1>5. CatalogTypeOK'
  BY <1>1, <1>4 DEF CatalogInv, CatalogTypeOK
<1>6. CatalogFresh'
  BY <1>1 DEF CatalogInv, CatalogFresh, SetSecret, StartRun, JobFires, Started, Killed, Start,
              Reload, Loadable, Snapshot, catalogVars, diskVars
<1>7. server' = "up" /\ calm' => jobs' = Snapshot(active', secret')
  BY <1>1 DEF CatalogInv, SetSecret, StartRun, JobFires, Started, Killed, Start,
              Changed, Snapshot, catalogVars, diskVars
<1>8. RunsAreCurrent'
  <2>1. CASE started' = NoStart
    BY <2>1 DEF RunsAreCurrent
  <2>2. CASE UNCHANGED catalogVars
    BY <2>2 DEF CatalogInv, RunsAreCurrent, Loadable, catalogVars, diskVars
  <2>3. CASE \E n \in AppName : StartRun(n)
    <3>1. PICK s \in Slug : server = "up" /\ Started(loaded.files[s], loaded, "user")
      BY <2>3 DEF StartRun, Files
    <3>2. /\ started'.def = loaded.files[s] /\ started'.value = Resolved(loaded.value)
          /\ UNCHANGED <<active, secret>>
      BY <3>1 DEF Started, diskVars
    <3>3. Loadable(active) => loaded.files[s] = active[s] /\ loaded.value = secret
      BY <3>1 DEF CatalogInv, CatalogFresh, Snapshot
    <3>4. QED
      BY <3>2, <3>3 DEF RunsAreCurrent, Resolved, Loadable
  <2>4. CASE JobFires
    <3>1. PICK s \in Slug : server = "up" /\ Started(jobs.files[s], jobs, "schedule")
      BY <2>4 DEF JobFires, Scheduled, Files
    <3>2. /\ started'.def = jobs.files[s] /\ started'.value = Resolved(jobs.value)
          /\ started'.by = "schedule" /\ UNCHANGED <<active, secret, calm>>
      BY <3>1 DEF Started, diskVars
    <3>3. calm => jobs.files[s] = active[s] /\ jobs.value = secret
      BY <3>1 DEF CatalogInv, Snapshot
    <3>4. QED
      BY <3>2, <3>3 DEF RunsAreCurrent, Resolved
  <2>5. QED
    BY <2>1, <2>2, <2>3, <2>4 DEF SetSecret, Changed, Killed, Start
<1>9. CatalogInv'
  BY <1>1, <1>4, <1>5, <1>6, <1>7, <1>8 DEF CatalogInv
<1>10. \A t \in Slug : Kept(t)
  BY <1>1 DEF Kept, CatalogInv
<1>11. QED
  BY <1>9, <1>10

LEMMA RepairStep ==
    ASSUME CatalogInv, NEW s \in Slug, Repair(s)
    PROVE  CatalogInv' /\ \A t \in Slug : Kept(t)
<1>1. /\ server = "down" /\ active' = [active EXCEPT ![s] = Absent]
      /\ started' = NoStart
      /\ UNCHANGED <<archived, edits, secret, server, loaded, jobs, calm>>
  BY DEF Repair
<1>2. CatalogTypeOK' /\ CatalogFresh' /\ RunsAreCurrent'
  BY <1>1 DEF CatalogInv, CatalogTypeOK, Content, CatalogFresh, RunsAreCurrent
<1>3. /\ \A t \in Slug : active'[t] \in Definition => active'[t].edit <= edits'
      /\ \A t \in Slug : active'[t] = archived'[t] => active'[t] \in {Absent, Torn}
  BY <1>1, FileAssumption DEF CatalogInv, CatalogTypeOK
<1>4. CatalogInv'
  BY <1>1, <1>2, <1>3 DEF CatalogInv
<1>5. \A t \in Slug : Kept(t)
  BY <1>1, <1>3 DEF Kept
<1>6. QED
  BY <1>4, <1>5

LEMMA CatalogStep ==
    ASSUME CatalogInv, [CatalogNext]_catalogVars
    PROVE  CatalogInv' /\ \A t \in Slug : Kept(t)
<1>1. ASSUME NEW n \in AppName, NEW c \in Cron, CreateApp(n, c)
      PROVE  CatalogInv' /\ \A t \in Slug : Kept(t)
  BY <1>1, WriteStep, TearStep, CatalogAssumption DEF CreateApp
<1>2. ASSUME NEW n \in AppName, NEW c \in Cron, NEW m \in AppName \cup {Nameless}, UpdateApp(n, m, c)
      PROVE  CatalogInv' /\ \A t \in Slug : Kept(t)
  BY <1>2, WriteStep, TearStep, CatalogAssumption DEF UpdateApp
<1>3. QED
  BY <1>1, <1>2, MoveStep, DeleteStep, QuietStep, RepairStep DEF CatalogNext

LEMMA CatalogInvHolds == CatalogSpec => []CatalogInv
BY CatalogInitInv, CatalogStep, PTL DEF CatalogSpec

(* Whatever request, failed write, kill or repair comes next, the list in  *)
(* memory agrees with the files and the secrets if no file is torn.        *)
THEOREM CatalogFreshHolds == CatalogSpec => []CatalogFresh
<1>1. CatalogInv => CatalogFresh
  BY DEF CatalogInv
<1>2. QED
  BY <1>1, CatalogInvHolds, PTL

(* While no file is torn, a user's run takes the definition and the secret *)
(* of the moment. Of a scheduled one this is known only as long as nothing *)
(* has changed since the server started.                                   *)
THEOREM RunsAreCurrentHolds == CatalogSpec => []RunsAreCurrent
<1>1. CatalogInv => RunsAreCurrent
  BY DEF CatalogInv
<1>2. QED
  BY <1>1, CatalogInvHolds, PTL

(* For every range of days, not the instance's alone, a job fires on the   *)
(* days that were meant.                                                   *)
THEOREM JobsOnTheirDaysHolds == CatalogSpec => []JobsOnTheirDays
<1>1. ASSUME CatalogInv, NEW s \in Scheduled,
             NEW f, f = jobs.files[s].cron, f[1] <= f[2], f[3] = 0, f # <<0, 7, 0>>
      PROVE  TriggerDays(f) = CronDays(f)
  <2>1. jobs.files[s] \in Definition /\ Accepted(f)
    BY <1>1 DEF Scheduled, Files, CatalogInv, CatalogTypeOK, Content
  <2>2. f \in (0 .. 7) \X (0 .. 7) \X Nat
    BY <1>1, <2>1, CatalogAssumption DEF Definition, Accepted
  <2>3. PICK a \in 0 .. 7, b \in 0 .. 7 : f = <<a, b, 0>>
    <3>1. f = <<f[1], f[2], f[3]>> /\ f[1] \in 0 .. 7 /\ f[2] \in 0 .. 7
      BY <2>2
    <3>2. f = <<f[1], f[2], 0>>
      BY <1>1, <3>1
    <3>3. QED
      BY <3>1, <3>2
  <2>4. a <= b /\ ~(a = 0 /\ b = 7)
    BY <1>1, <2>3
  <2>5. QED
    BY <2>1, <2>3, <2>4, SameDays
<1>2. CatalogInv => JobsOnTheirDays
  BY <1>1 DEF JobsOnTheirDays
<1>3. QED
  BY <1>2, CatalogInvHolds, PTL

(* No request moves one file onto another, leaves a definition in two      *)
(* places, or makes what a file holds disappear but by a write to the same *)
(* file, for whichever of the apps that share it, or the deletion asked.   *)
THEOREM DefinitionsKeptHolds == CatalogSpec => DefinitionsKept
<1>1. CatalogInv /\ [CatalogNext]_catalogVars =>
        \A s \in Slug :
          /\ active[s] \in Definition /\ active'[s] # active[s] =>
                \/ archived'[s] = active[s]
                \/ UNCHANGED archived /\ (edits' > edits \/ active'[s] = Torn)
                \/ server = "down"
          /\ archived[s] \in Definition /\ archived'[s] # archived[s] =>
                \/ active'[s] = archived[s]
                \/ UNCHANGED active
          /\ archived'[s] = active'[s] => archived'[s] \in {Absent, Torn}
  BY CatalogStep DEF Kept
<1>2. QED
  BY <1>1, CatalogInvHolds, PTL DEF CatalogSpec, DefinitionsKept

-----------------------------------------------------------------------------
(* The secret key.                                                         *)

BootStep == {"check", "publish", "fill", "read", "booted", "failed"}

KeyFileTypeOK ==
    /\ keyFile \in Process \cup {NoKey, HalfKey}
    /\ hardLinks \in BOOLEAN
    /\ step \in [Process -> BootStep]
    /\ key \in [Process -> Process \cup {NoKey, HalfKey}]

(* The key of a boot that got through is in the file. While a boot fills   *)
(* the file it is the only one to do so, and nobody has read it yet: the   *)
(* file is not replaced while it holds a key, and one that is cut off      *)
(* stays as it is.                                                         *)
KeyFileInv ==
    /\ KeyFileTypeOK
    /\ \A p \in Process : step[p] = "booted" => key[p] = keyFile /\ keyFile \in Process
    /\ \A p \in Process : step[p] = "fill" => keyFile = HalfKey /\ ~hardLinks
    /\ \A p, q \in Process : step[p] = "fill" /\ step[q] = "fill" => p = q
    /\ \A p \in Process : step[p] = "read" => keyFile # NoKey
    /\ hardLinks => keyFile # HalfKey

LEMMA KeyFileInitInv == KeyFileInit => KeyFileInv
BY KeyAssumption DEF KeyFileInit, KeyFileInv, KeyFileTypeOK, BootStep

(* Each step of a boot keeps the invariant.                                *)
LEMMA KeyFileStep == KeyFileInv /\ [KeyFileNext]_keyFileVars => KeyFileInv'
<1> SUFFICES ASSUME KeyFileInv, [KeyFileNext]_keyFileVars PROVE KeyFileInv'
  OBVIOUS
<1> USE KeyAssumption DEF KeyFileInv, KeyFileTypeOK, BootStep, Goes
<1>1. ASSUME NEW p \in Process, Checks(p) PROVE KeyFileInv'
  BY <1>1 DEF Checks
<1>2. ASSUME NEW p \in Process, Links(p) PROVE KeyFileInv'
  BY <1>2 DEF Links, Publishes
<1>3. ASSUME NEW p \in Process, Creates(p) PROVE KeyFileInv'
  BY <1>3 DEF Creates
<1>4. ASSUME NEW p \in Process, Fills(p) PROVE KeyFileInv'
  BY <1>4 DEF Fills, Publishes
<1>5. ASSUME NEW p \in Process, Reads(p) PROVE KeyFileInv'
  BY <1>5 DEF Reads
<1>6. ASSUME NEW p \in Process, GivesUp(p) \/ Dies(p) \/ Reboots(p) PROVE KeyFileInv'
  BY <1>6 DEF GivesUp, Dies, Reboots
<1>7. CASE UNCHANGED keyFileVars
  BY <1>7 DEF keyFileVars
<1> HIDE DEF KeyFileInv
<1>8. QED
  BY <1>1, <1>2, <1>3, <1>4, <1>5, <1>6, <1>7 DEF KeyFileNext

(* However many first boots race for the key file, on a file system with   *)
(* or without hard links, dying and starting again at any point, those     *)
(* that get through hold one and the same complete key, the file's.        *)
THEOREM OneKeyHolds == KeyFileSpec => []OneKey
<1>1. KeyFileInv => OneKey
  BY DEF KeyFileInv, OneKey
<1>2. QED
  BY <1>1, KeyFileInitInv, KeyFileStep, PTL DEF KeyFileSpec

=============================================================================
