--------------------------- MODULE WorkerDispatch ---------------------------
(***************************************************************************)
(* Dispatch of test runs to remote workers: the runner_jobs and runs       *)
(* tables, the handlers that queue, hand out, ingest, requeue and delete,  *)
(* and the stuck-job reaper.                                               *)
(*                                                                         *)
(* Two threads write these tables. The asyncio event loop runs one handler *)
(* at a time; a handler that commits several transactions is a sequence of *)
(* actions told apart by pc. The reaper is a plain function, so the        *)
(* AsyncIOScheduler runs it on its thread pool, where its transactions     *)
(* fall between any two of a handler's. A crash of the process loses pc,   *)
(* the reaper's list and the open long polls, and keeps the tables.        *)
(*                                                                         *)
(* A run belongs to one job, so both are indexed by Job. Left out: the app *)
(* definition a job carries, the results' contents and the alerts they     *)
(* raise, screenshots.                                                     *)
(***************************************************************************)
EXTENDS RunnerRegistry

CONSTANTS
    Job,           \* jobs that may be queued
    Target,        \* run_on targets the apps name: runners and tags
    NoJob,         \* no handler is at work
    NoRunner,      \* runner_jobs.assigned_to IS NULL
    MaxRetries,    \* worker.max_retries
    MaxCapacity,   \* a worker's largest claim; the handlers clamp it to 16
    MaxPolls,      \* bound: long polls waiting at a time
    MaxRevivals,   \* bound: how often an admin requeues one failed job
    MaxCrashes     \* bound: how often the process dies or a handler raises

ASSUME NullAssumption == NoJob \notin Job /\ NoRunner \notin Runner
ASSUME TargetAssumption == Target \subseteq Runner \cup Tag /\ Runner \cap Tag = {}
ASSUME RetryAssumption == MaxRetries \in Nat
ASSUME CapacityAssumption == MaxCapacity \in Nat \ {0}
ASSUME BoundAssumption == MaxRevivals \in Nat /\ MaxCrashes \in Nat /\ MaxPolls \in Nat

VARIABLES
    state,      \* runner_jobs.state
    target,     \* runner_jobs.runner_name or target_tag, whichever is set
    owner,      \* runner_jobs.assigned_to
    retries,    \* runner_jobs.retry_count
    queuedAt,   \* runner_jobs.queued_at
    aged,       \* jobs whose assigned_at is older than job_timeout_seconds
    clock,      \* the next queued_at timestamp
    run,        \* runs.status of the job's run
    finished,   \* runs.finished_at IS NOT NULL
    recorded,   \* how many result payloads test_results holds for the run
    pruned,     \* history: jobs of whose results retention deleted the last
    polls,      \* long polls waiting for a job
    pc, cur, failing,  \* the handler at work, its job, whether it reports an error
    reaping,    \* the reaper's list: the jobs it has read and not yet acted on
    asRead,     \* their retry_count as the reaper read it
    revived,    \* manual requeues of each job so far
    crashes     \* crashes and handlers that raised so far

jobVars == <<state, target, owner, retries, queuedAt, aged, clock>>
resultVars == <<recorded, pruned>>
runVars == <<run, finished, resultVars>>
handlerVars == <<pc, cur, failing>>
reaperVars == <<reaping, asRead>>
countVars == <<revived, crashes>>
vars == <<regVars, jobVars, runVars, handlerVars, countVars, polls, reaperVars>>

Settled == {"complete", "error", "failed"}
JobState == {"none", "queued", "assigned"} \cup Settled
RunStatus == {"none", "queued", "running", "complete", "error"}
Step == {"idle", "mark", "enqueue", "start", "record", "finish", "complete"}
LongPoll == [runner : Runner, key : Key, tags : SUBSET Tag]

(* The tables and the threads hold values of their columns' domains.       *)
TypeOK ==
    /\ RegTypeOK
    /\ state \in [Job -> JobState]
    /\ target \in [Job -> Target]
    /\ owner \in [Job -> Runner \cup {NoRunner}]
    /\ retries \in [Job -> Nat]
    /\ queuedAt \in [Job -> Nat]
    /\ aged \subseteq Job
    /\ clock \in Nat
    /\ run \in [Job -> RunStatus]
    /\ finished \in [Job -> BOOLEAN]
    /\ recorded \in [Job -> Nat]
    /\ pruned \subseteq Job
    /\ polls \subseteq LongPoll
    /\ pc \in Step
    /\ cur \in Job \cup {NoJob}
    /\ pc # "idle" => cur \in Job
    /\ failing \in BOOLEAN
    /\ reaping \subseteq Job
    /\ asRead \in [Job -> Nat]
    /\ revived \in [Job -> 0 .. MaxRevivals]
    /\ crashes \in 0 .. MaxCrashes

Init ==
    /\ RegInit
    /\ state = [j \in Job |-> "none"]
    /\ target \in [Job -> Target]
    /\ owner = [j \in Job |-> NoRunner]
    /\ retries = [j \in Job |-> 0]
    /\ queuedAt = [j \in Job |-> 0]
    /\ aged = {}
    /\ clock = 1
    /\ run = [j \in Job |-> "none"]
    /\ finished = [j \in Job |-> FALSE]
    /\ recorded = [j \in Job |-> 0]
    /\ pruned = {}
    /\ polls = {}
    /\ pc = "idle" /\ cur = NoJob /\ failing = FALSE
    /\ reaping = {}
    /\ asRead = [j \in Job |-> 0]
    /\ revived = [j \in Job |-> 0]
    /\ crashes = 0

LoopIdle == pc = "idle"

(* The event loop's handler moves to step p of its work on job j.          *)
Goto(p, j, e) == pc' = p /\ cur' = j /\ failing' = e
Return == Goto("idle", NoJob, FALSE)

(* UPDATE runs ... WHERE id: no effect on a run that retention has deleted. *)
SetRun(j, s, fin) ==
    IF run[j] = "none" THEN UNCHANGED <<run, finished>>
    ELSE /\ run' = [run EXCEPT ![j] = s]
         /\ finished' = [finished EXCEPT ![j] = fin]

-----------------------------------------------------------------------------
(* queue_remote_run: three transactions, the second of which writes the    *)
(* status the first has inserted. The run_on target of the job's app is    *)
(* fixed from the start.                                                   *)

DispatchInsert(j) ==
    /\ LoopIdle
    /\ run[j] = "none" /\ state[j] = "none"
    /\ run' = [run EXCEPT ![j] = "queued"]
    /\ Goto("mark", j, FALSE)
    /\ UNCHANGED <<regVars, jobVars, finished, resultVars, countVars, polls, reaperVars>>

DispatchMark ==
    /\ pc = "mark"
    /\ SetRun(cur, "queued", finished[cur])
    /\ Goto("enqueue", cur, FALSE)
    /\ UNCHANGED <<regVars, jobVars, resultVars, countVars, polls, reaperVars>>

DispatchEnqueue ==
    /\ pc = "enqueue"
    /\ state' = [state EXCEPT ![cur] = "queued"]
    /\ queuedAt' = [queuedAt EXCEPT ![cur] = clock]
    /\ clock' = clock + 1
    /\ Return
    /\ UNCHANGED <<regVars, target, owner, retries, aged, runVars, countVars,
                   polls, reaperVars>>

-----------------------------------------------------------------------------
(* claim_runner_jobs: the oldest queued jobs pinned to the runner or to    *)
(* one of its tags, at most as many as it has capacity for. No job has     *)
(* both columns NULL: queue_remote_run is called with run_on set.          *)

Claimable(r, ts) ==
    {j \in Job : state[j] = "queued" /\ (target[j] = r \/ target[j] \in ts)}

OldestOf(S, C) == \A i \in S, j \in C \ S : queuedAt[i] < queuedAt[j]

Claim(r, ts) ==
    LET C == Claimable(r, ts) IN
    \E S \in SUBSET C :
        /\ S # {} /\ Cardinality(S) <= MaxCapacity
        /\ OldestOf(S, C)
        /\ state' = [j \in Job |-> IF j \in S THEN "assigned" ELSE state[j]]
        /\ owner' = [j \in Job |-> IF j \in S THEN r ELSE owner[j]]
        /\ aged' = aged \ S

(* POST /poll.                                                             *)
Poll(r, k) ==
    /\ LoopIdle
    /\ Authorized(r, k) /\ Dispatchable(r)
    /\ Claim(r, tags[r])
    /\ UNCHANGED <<regVars, target, retries, queuedAt, clock, runVars,
                   handlerVars, countVars, polls, reaperVars>>

(* GET /jobs with nothing to hand out: the handler awaits the queued-job   *)
(* event, keeping the tags it read. With a job at hand it acts like Poll.  *)
LongPollWait(r, k) ==
    /\ LoopIdle
    /\ Authorized(r, k) /\ Dispatchable(r)
    /\ Claimable(r, tags[r]) = {}
    /\ Cardinality(polls) < MaxPolls
    /\ polls' = polls \cup {[runner |-> r, key |-> k, tags |-> tags[r]]}
    /\ UNCHANGED <<regVars, jobVars, runVars, handlerVars, countVars, reaperVars>>

(* Mutant: the wake-up trusts the checks made before the wait.             *)
LongPollWakeUnchecked(p) ==
    /\ LoopIdle
    /\ p \in polls
    /\ Claim(p.runner, p.tags)
    /\ polls' = polls \ {p}
    /\ UNCHANGED <<regVars, target, retries, queuedAt, clock, runVars,
                   handlerVars, countVars, reaperVars>>

(* A waiting handler wakes, checks key and binding again, and claims. It   *)
(* does not read the runner's status or version again.                     *)
LongPollWake(p) ==
    /\ LoopIdle
    /\ p \in polls
    /\ Authorized(p.runner, p.key)
    /\ Claim(p.runner, p.tags)
    /\ polls' = polls \ {p}
    /\ UNCHANGED <<regVars, target, retries, queuedAt, clock, runVars,
                   handlerVars, countVars, reaperVars>>

(* The wait times out (204) or the check after a wake fails (403).         *)
LongPollEnd(p) ==
    /\ LoopIdle
    /\ p \in polls
    /\ polls' = polls \ {p}
    /\ UNCHANGED <<regVars, jobVars, runVars, handlerVars, countVars, reaperVars>>

-----------------------------------------------------------------------------
(* POST /results and ingest_runner_results: checks, then four              *)
(* transactions (the results are several, told apart only when a crash or  *)
(* an exception falls among them).                                         *)

(* Mutant: results are accepted whatever the job's state.                  *)
ResultsAcceptAnyState(j, k, e) ==
    /\ LoopIdle
    /\ k \in liveKeys
    /\ owner[j] \in registered /\ bound[owner[j]] = k
    /\ run[j] # "none"
    /\ Goto("start", j, e)
    /\ UNCHANGED <<regVars, jobVars, runVars, countVars, polls, reaperVars>>

ResultsAccept(j, k, e) ==
    /\ LoopIdle
    /\ k \in liveKeys
    /\ state[j] = "assigned"
    /\ owner[j] \in registered /\ bound[owner[j]] = k
    /\ run[j] # "none"
    /\ Goto("start", j, e)
    /\ UNCHANGED <<regVars, jobVars, runVars, countVars, polls, reaperVars>>

(* Mutant: the job is completed before its results are recorded.           *)
IngestStartCompletes ==
    /\ pc = "start"
    /\ SetRun(cur, "running", finished[cur])
    /\ state' = [state EXCEPT ![cur] = IF failing THEN "error" ELSE "complete"]
    /\ Goto("record", cur, failing)
    /\ UNCHANGED <<regVars, target, owner, retries, queuedAt, aged, clock,
                   resultVars, countVars, polls, reaperVars>>

IngestStart ==
    /\ pc = "start"
    /\ SetRun(cur, "running", finished[cur])
    /\ Goto("record", cur, failing)
    /\ UNCHANGED <<regVars, jobVars, resultVars, countVars, polls, reaperVars>>

IngestRecord ==
    /\ pc = "record"
    /\ recorded' = [recorded EXCEPT ![cur] = @ + 1]
    /\ pruned' = pruned \ {cur}
    /\ Goto("finish", cur, failing)
    /\ UNCHANGED <<regVars, jobVars, run, finished, countVars, polls, reaperVars>>

IngestFinish ==
    /\ pc = "finish"
    /\ SetRun(cur, IF failing THEN "error" ELSE "complete", TRUE)
    /\ Goto("complete", cur, failing)
    /\ UNCHANGED <<regVars, jobVars, resultVars, countVars, polls, reaperVars>>

(* complete_runner_job updates WHERE id only, whatever the state is now.   *)
IngestComplete ==
    /\ pc = "complete"
    /\ state' = [state EXCEPT ![cur] = IF failing THEN "error" ELSE "complete"]
    /\ Return
    /\ UNCHANGED <<regVars, target, owner, retries, queuedAt, aged, clock,
                   runVars, countVars, polls, reaperVars>>

-----------------------------------------------------------------------------
(* reap_stuck_jobs: one read of the stuck jobs, then one transaction for   *)
(* each of them, decided by the row as it was read.                        *)

(* Mutant: the query leaves out jobs without a retry left.                 *)
StuckWithRetriesLeft == {j \in aged : state[j] = "assigned" /\ retries[j] < MaxRetries}

Stuck == {j \in aged : state[j] = "assigned"}

(* The job's timeout passes.                                               *)
JobAges(j) ==
    /\ state[j] = "assigned" /\ j \notin aged
    /\ aged' = aged \cup {j}
    /\ UNCHANGED <<regVars, state, target, owner, retries, queuedAt, clock,
                   runVars, handlerVars, countVars, polls, reaperVars>>

ReaperScan ==
    /\ reaping = {} /\ Stuck # {}
    /\ reaping' = Stuck
    /\ asRead' = [j \in Job |-> IF j \in Stuck THEN retries[j] ELSE 0]
    /\ UNCHANGED <<regVars, jobVars, runVars, handlerVars, countVars, polls>>

DropFromList(j) ==
    /\ reaping' = reaping \ {j}
    /\ asRead' = [asRead EXCEPT ![j] = 0]

(* Mutant: the run is given the job's status word.                         *)
ReaperFailWrongWord(j) ==
    /\ j \in reaping /\ asRead[j] >= MaxRetries
    /\ state' = [state EXCEPT ![j] = "failed"]
    /\ SetRun(j, "failed", TRUE)
    /\ DropFromList(j)
    /\ UNCHANGED <<regVars, target, owner, retries, queuedAt, aged, clock,
                   resultVars, handlerVars, countVars, polls>>

(* Mutant: the run is forgotten.                                           *)
ReaperFailJobOnly(j) ==
    /\ j \in reaping /\ asRead[j] >= MaxRetries
    /\ state' = [state EXCEPT ![j] = "failed"]
    /\ DropFromList(j)
    /\ UNCHANGED <<regVars, target, owner, retries, queuedAt, aged, clock,
                   runVars, handlerVars, countVars, polls>>

(* fail_runner_job updates WHERE id only, whatever the state is now.       *)
ReaperFail(j) ==
    /\ j \in reaping /\ asRead[j] >= MaxRetries
    /\ state' = [state EXCEPT ![j] = "failed"]
    /\ SetRun(j, "error", TRUE)
    /\ DropFromList(j)
    /\ UNCHANGED <<regVars, target, owner, retries, queuedAt, aged, clock,
                   resultVars, handlerVars, countVars, polls>>

(* The requeue's UPDATE, charging c to the job's retry count.              *)
BackToQueue(j, c) ==
    /\ state' = [state EXCEPT ![j] = "queued"]
    /\ owner' = [owner EXCEPT ![j] = NoRunner]
    /\ retries' = [retries EXCEPT ![j] = @ + c]
    /\ aged' = aged \ {j}

(* Mutants: one retry too many; no state guard; the retry is not counted.  *)
ReaperRequeueOnceMore(j) ==
    /\ j \in reaping /\ asRead[j] <= MaxRetries
    /\ IF state[j] = "assigned" THEN BackToQueue(j, 1)
       ELSE UNCHANGED <<state, owner, retries, aged>>
    /\ DropFromList(j)
    /\ UNCHANGED <<regVars, target, queuedAt, clock, runVars, handlerVars,
                   countVars, polls>>

ReaperRequeueAnyState(j) ==
    /\ j \in reaping /\ asRead[j] < MaxRetries
    /\ BackToQueue(j, 1)
    /\ DropFromList(j)
    /\ UNCHANGED <<regVars, target, queuedAt, clock, runVars, handlerVars,
                   countVars, polls>>

ReaperRequeueUncounted(j) ==
    /\ j \in reaping /\ asRead[j] < MaxRetries
    /\ IF state[j] = "assigned" THEN BackToQueue(j, 0)
       ELSE UNCHANGED <<state, owner, retries, aged>>
    /\ DropFromList(j)
    /\ UNCHANGED <<regVars, target, queuedAt, clock, runVars, handlerVars,
                   countVars, polls>>

(* requeue_runner_job updates only a row that is still 'assigned'.         *)
ReaperRequeue(j) ==
    /\ j \in reaping /\ asRead[j] < MaxRetries
    /\ IF state[j] = "assigned" THEN BackToQueue(j, 1)
       ELSE UNCHANGED <<state, owner, retries, aged>>
    /\ DropFromList(j)
    /\ UNCHANGED <<regVars, target, queuedAt, clock, runVars, handlerVars,
                   countVars, polls>>

-----------------------------------------------------------------------------
(* POST /admin/runners/jobs/{id}/requeue: a failed job is queued again, at *)
(* the tail, with the retries it has used.                                 *)
ManualRequeue(j) ==
    /\ LoopIdle
    /\ state[j] = "failed" /\ revived[j] < MaxRevivals
    /\ state' = [state EXCEPT ![j] = "queued"]
    /\ owner' = [owner EXCEPT ![j] = NoRunner]
    /\ queuedAt' = [queuedAt EXCEPT ![j] = clock]
    /\ clock' = clock + 1
    /\ aged' = aged \ {j}
    /\ SetRun(j, "queued", FALSE)
    /\ revived' = [revived EXCEPT ![j] = @ + 1]
    /\ UNCHANGED <<regVars, target, retries, resultVars, handlerVars, crashes,
                   polls, reaperVars>>

(* Mutant: the runner's jobs are left assigned.                            *)
DeleteRunnerOnly(r) ==
    /\ LoopIdle
    /\ RemoveRow(r)
    /\ UNCHANGED <<jobVars, runVars, handlerVars, countVars, polls, reaperVars>>

(* POST /admin/runners/{name}/delete: the runner's row goes and its        *)
(* assigned jobs return to the queue, in one transaction.                  *)
DeleteRunner(r) ==
    LET held == {j \in Job : state[j] = "assigned" /\ owner[j] = r} IN
    /\ LoopIdle
    /\ RemoveRow(r)
    /\ state' = [j \in Job |-> IF j \in held THEN "queued" ELSE state[j]]
    /\ owner' = [j \in Job |-> IF j \in held THEN NoRunner ELSE owner[j]]
    /\ aged' = aged \ held
    /\ UNCHANGED <<target, retries, queuedAt, clock, runVars, handlerVars,
                   countVars, polls, reaperVars>>

(* prune_runs_older_than deletes results by the results' own finished_at   *)
(* and runs by the run's, each on its own, and leaves the job's row. The   *)
(* worker sets the one and the central the other: of a payload that was    *)
(* buffered for long the results go and the run stays, queued again or     *)
(* not; results without a time stay when their run goes.                   *)
Prune(j) ==
    /\ \/ /\ run[j] # "none" /\ finished[j]
          /\ run' = [run EXCEPT ![j] = "none"]
          /\ finished' = [finished EXCEPT ![j] = FALSE]
       \/ UNCHANGED <<run, finished>>
    /\ \E n \in 0 .. recorded[j] :
          /\ recorded' = [recorded EXCEPT ![j] = n]
          /\ pruned' = IF n = 0 /\ recorded[j] > 0 THEN pruned \cup {j} ELSE pruned
    /\ UNCHANGED <<regVars, jobVars, handlerVars, countVars, polls, reaperVars>>

(* The central process dies and is started again.                          *)
Crash ==
    /\ crashes < MaxCrashes
    /\ crashes' = crashes + 1
    /\ Return
    /\ reaping' = {}
    /\ asRead' = [j \in Job |-> 0]
    /\ polls' = {}
    /\ UNCHANGED <<regVars, jobVars, runVars, revived>>

(* A handler's transaction fails ("database is locked"): the exception     *)
(* becomes a 500, what is committed stays.                                 *)
HandlerRaises ==
    /\ ~LoopIdle
    /\ crashes < MaxCrashes
    /\ crashes' = crashes + 1
    /\ Return
    /\ UNCHANGED <<regVars, jobVars, runVars, revived, polls, reaperVars>>

RegistryStep ==
    /\ \/ LoopIdle /\ RegistryRequest
       \/ \E k \in Key : KeyDies(k)
    /\ UNCHANGED <<jobVars, runVars, handlerVars, countVars, polls, reaperVars>>

Ingest == IngestStart \/ IngestRecord \/ IngestFinish \/ IngestComplete
Dispatch == DispatchMark \/ DispatchEnqueue

Next ==
    \/ Dispatch
    \/ Ingest
    \/ ReaperScan
    \/ Crash \/ HandlerRaises
    \/ RegistryStep
    \/ \E j \in Job : \/ DispatchInsert(j)
                      \/ JobAges(j)
                      \/ ReaperFail(j)
                      \/ ReaperRequeue(j)
                      \/ ManualRequeue(j)
                      \/ Prune(j)
                      \/ \E k \in Key, e \in BOOLEAN : ResultsAccept(j, k, e)
    \/ \E r \in Runner : \/ DeleteRunner(r)
                         \/ \E k \in Key : Poll(r, k) \/ LongPollWait(r, k)
    \/ \E p \in polls : LongPollWake(p) \/ LongPollEnd(p)

Spec == Init /\ [][Next]_vars

-----------------------------------------------------------------------------
(* Safety.                                                                 *)

(* The reaper requeues a job at most worker.max_retries times however its  *)
(* scans, completions, deletions and manual requeues interleave, and a job *)
(* it gave up on used them all: docs/guides/admin-runners.md says the      *)
(* Retries column equals worker.max_retries for such rows.                 *)
RetryBudget ==
    \A j \in Job :
        /\ retries[j] <= MaxRetries
        /\ state[j] = "failed" => retries[j] = MaxRetries

(* An assigned job's runner has a registry row, so that its results can be *)
(* accepted, and a queued job names no runner that could still submit.     *)
OwnerConsistent ==
    \A j \in Job :
        /\ state[j] = "assigned" => owner[j] \in registered
        /\ state[j] = "queued" => owner[j] = NoRunner

(* However often a worker replays a payload from its outbox and the reaper *)
(* hands the job to another worker, a run holds one payload of results for *)
(* each time it was queued by an operator, plus one for each crash or      *)
(* exception that cut an ingest short.                                     *)
ResultsOnce ==
    \A j \in Job : recorded[j] <= 1 + revived[j] + crashes

(* A job that ended 'complete' or 'error' has its results in the database, *)
(* whatever crash or reaper step fell into the ingest, until retention     *)
(* deletes the results themselves: that their run is still there, or is    *)
(* gone, says nothing about them.                                          *)
CompletedHasResults ==
    \A j \in Job :
        state[j] \in {"complete", "error"} => recorded[j] > 0 \/ j \in pruned

(* While no process died and no handler raised, a job that no handler is   *)
(* working on and its run tell the same story, so the dashboard shows no   *)
(* run still queued or running whose job has ended. The reaper may have    *)
(* overruled a success.                                                    *)
RunFollowsJob ==
    crashes = 0 => \A j \in Job \ {cur} :
        \/ run[j] = "none"
        \/ state[j] \in {"queued", "assigned"} /\ run[j] = "queued"
        \/ state[j] \in {"failed", "error"} /\ run[j] = "error"
        \/ state[j] = "complete" /\ run[j] \in {"complete", "error"}

HandedOut(j) == state[j] = "queued" /\ state'[j] = "assigned"

(* A job, which carries resolved secrets, is handed out only to a runner   *)
(* that is registered and bound to a live key; a long poll that began      *)
(* before its key was revoked or its runner rebound receives nothing. A    *)
(* job pinned to a runner by name goes to that runner.                     *)
HandoutAuthorized ==
    [][\A j \in Job : HandedOut(j) =>
          /\ owner'[j] \in registered /\ bound[owner'[j]] \in liveKeys
          /\ target[j] \in Runner => owner'[j] = target[j]
          /\ \A p \in polls \ polls' : Authorized(p.runner, p.key)]_vars

(* The tables implement the ledger of JobLedger: a job has at most one     *)
(* holder, and a settled job is queued again only by an operator.          *)
Phase(s) ==
    CASE s = "none" -> "absent"
      [] s = "queued" -> "waiting"
      [] s = "assigned" -> "held"
      [] OTHER -> "settled"

Ledger == INSTANCE JobLedger WITH
    phase <- [j \in Job |-> Phase(state[j])],
    holder <- [j \in Job |-> IF state[j] = "assigned" THEN owner[j] ELSE NoRunner],
    revivals <- revived

ImplementsLedger == Ledger!Spec

-----------------------------------------------------------------------------
(* What the documentation says and the code does not do.                   *)

(* docs/guides/admin-runners.md: a drain an admin initiated sticks until   *)
(* Resume. A heartbeat that reports recovery lifts it.                     *)
AdminDrainSticks ==
    \A r \in registered : adminDrain[r] => status[r] = "draining"

(* docs/guides/admin-runners.md: a drained runner is sent no new jobs. A   *)
(* long poll that was waiting when the drain came still claims.            *)
DrainedGetsNoJobs ==
    [][\A j \in Job : HandedOut(j) => status[owner'[j]] # "draining"]_vars

(* harness/worker_dispatch.py: the reaper fails stuck 'assigned' jobs. It  *)
(* also fails a job whose results were accepted after it read the list.    *)
OnlyStuckJobsFail ==
    [][\A j \in Job :
          state[j] # "failed" /\ state'[j] = "failed" => j \in Stuck]_vars

-----------------------------------------------------------------------------
(* Liveness.                                                               *)

(* Time passes for an assigned job; the scheduler keeps starting the       *)
(* reaper and the reaper works off its list; the event loop finishes the   *)
(* handler it is in. A worker that is up polls again and again, and the    *)
(* loop serves it though other handlers keep coming: strong fairness. No   *)
(* fairness for submissions, long polls, admins, retention or crashes.     *)
Fairness ==
    /\ \A j \in Job : /\ WF_vars(JobAges(j))
                      /\ WF_vars(ReaperFail(j) \/ ReaperRequeue(j))
    /\ WF_vars(ReaperScan)
    /\ WF_vars(Ingest)
    /\ WF_vars(Dispatch)
    /\ \A r \in Runner : SF_vars(\E k \in Key : Poll(r, k))

LiveSpec == Spec /\ Fairness

(* No worker can strand a job: whatever happens to the worker, an assigned *)
(* job is taken back or ended.                                             *)
AssignmentEnds ==
    \A j \in Job : state[j] = "assigned" ~> state[j] # "assigned"

HasWorker(j) ==
    \E r \in Runner, k \in Key :
        /\ Authorized(r, k) /\ Dispatchable(r)
        /\ target[j] = r \/ target[j] \in tags[r]

(* A queued job settles, even if every worker that claims it dies, when    *)
(* again and again some polling runner could take it: the oldest-first     *)
(* claim starves no job and the retry budget ends the cycle.               *)
ServedJobSettles ==
    \A j \in Job :
        []<>HasWorker(j) => (state[j] = "queued" ~> state[j] \in Settled)

=============================================================================
