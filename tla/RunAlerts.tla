------------------------------ MODULE RunAlerts ------------------------------
(***************************************************************************)
(* The runs of one app in one environment and the alerts they raise:       *)
(* run_app (harness/runner.py) and its triggers, the alert half of         *)
(* ingest_runner_results (harness/worker_dispatch.py), maintenance windows *)
(* and the stale-run check (harness/staleness.py).                         *)
(*                                                                         *)
(* All of it runs on one event loop and waits only for the tests and for   *)
(* the alert channels. The code between the two waits records one test     *)
(* after the other, each in transactions of its own: it is a sequence of   *)
(* actions that only a crash, the reaper or retention can interrupt.       *)
(*                                                                         *)
(* Left out: what a test does, the contents of an alert and the channels   *)
(* it goes to (a channel's error is logged and the alert is not sent       *)
(* again), the webhook that reports a finished run. The order of an app's  *)
(* tests is left open; alerts about different tests do not affect each     *)
(* other.                                                                  *)
(***************************************************************************)
EXTENDS Naturals

CONSTANTS
    Test,        \* the app's tests
    Run,         \* rows of the runs table
    NoRun,       \* no run is being recorded
    MaxFaults    \* bound: deaths of the central process, and exceptions that
                 \* escape from run_app or from an ingest

ASSUME NoRunAssumption == NoRun \notin Run
ASSUME FaultAssumption == MaxFaults \in Nat

VARIABLES
    status,     \* runs.status, "none" for an absent row
    by,         \* whose coroutine drives the run, "worker" for a remote run
    stage,      \* how far the coroutine that executes or ingests it has come
    todo,       \* results of the run being recorded that are not yet stored
    busy,       \* the run being recorded
    alerts,     \* alerts_to_send: raised and not yet handed to the channels
    state,      \* app_state.state of each test
    paged,      \* history: tests whose last alert handed out was a FAIL
    spoiled,    \* history: tests with a transition nobody was told of in order,
                \* until an alert that agrees with the state has gone out
    window,     \* a maintenance window is active
    last,       \* the age of the newest run that is 'complete'
    dedup,      \* the app's row in stale_alerts is younger than the realert time
    staleDue,   \* the stale check has found the app and not yet alerted
    faults

runVars == <<status, by, stage, todo, busy>>
alertVars == <<alerts, state, paged, spoiled>>
staleVars == <<last, dedup, staleDue>>
vars == <<runVars, alertVars, window, staleVars, faults>>

Alert == {"none", "FAIL", "RESOLVE"}
NoAlerts == [t \in Test |-> "none"]

(* Tables, coroutines and counters hold values of their domains.           *)
TypeOK ==
    /\ status \in [Run -> {"none", "pending", "queued", "running", "complete", "error"}]
    /\ by \in [Run -> {"none", "api", "schedule", "tls", "worker"}]
    /\ stage \in [Run -> {"none", "waiting", "executing", "recording", "alerting"}]
    /\ todo \subseteq Test
    /\ busy \in Run \cup {NoRun}
    /\ alerts \in [Run -> [Test -> Alert]]
    /\ state \in [Test -> {"unknown", "passing", "failing"}]
    /\ paged \subseteq Test
    /\ spoiled \subseteq Test
    /\ window \in BOOLEAN
    /\ last \in {"never", "fresh", "stale"}
    /\ dedup \in BOOLEAN
    /\ staleDue \in BOOLEAN
    /\ faults \in 0 .. MaxFaults

Init ==
    /\ status = [r \in Run |-> "none"]
    /\ by = [r \in Run |-> "none"]
    /\ stage = [r \in Run |-> "none"]
    /\ todo = {}
    /\ busy = NoRun
    /\ alerts = [r \in Run |-> NoAlerts]
    /\ state = [t \in Test |-> "unknown"]
    /\ paged = {}
    /\ spoiled = {}
    /\ window = FALSE
    /\ last = "never" /\ dedup = FALSE /\ staleDue = FALSE
    /\ faults = 0

LoopIdle == busy = NoRun

(* is_run_active: neither 'pending' nor 'queued' counts.                   *)
Active == \E r \in Run : status[r] = "running"

(* The scheduler runs one instance of a job at a time.                     *)
Instance(b) == \E r \in Run : by[r] = b /\ stage[r] # "none"

Set(r, b, st, sg) ==
    /\ by' = [by EXCEPT ![r] = b]
    /\ status' = [status EXCEPT ![r] = st]
    /\ stage' = [stage EXCEPT ![r] = sg]

Raised(r) == {t \in Test : alerts[r][t] # "none"}

(* The coroutines of the runs R return, raise or are lost.                 *)
Leave(R) ==
    /\ stage' = [r \in Run |-> IF r \in R THEN "none" ELSE stage[r]]
    /\ by' = [r \in Run |-> IF r \in R /\ by[r] # "worker" THEN "none" ELSE by[r]]

-----------------------------------------------------------------------------
(* Starting a run.                                                         *)

(* Mutant: a run that cannot be set up is left 'running'.                  *)
BeginLeavesRunning(r, b) ==
    \/ Set(r, b, "running", "executing") /\ UNCHANGED faults
    \/ Set(r, "none", "running", "none") /\ UNCHANGED faults

(* run_app up to its first await: the tests begin; or the setup error is   *)
(* recorded (_record_setup_error); or the CA bundle cannot be written and  *)
(* the exception leaves the run 'running'.                                 *)
Begin(r, b) ==
    \/ Set(r, b, "running", "executing") /\ UNCHANGED faults
    \/ Set(r, "none", "error", "none") /\ UNCHANGED faults
    \/ /\ faults < MaxFaults /\ faults' = faults + 1
       /\ Set(r, "none", "running", "none")

(* POST /api/runs inserts the run and leaves run_app to a background task. *)
TriggerApi(r) ==
    /\ LoopIdle
    /\ status[r] = "none" /\ ~Active
    /\ Set(r, "api", "pending", "waiting")
    /\ UNCHANGED <<todo, busy, alertVars, window, staleVars, faults>>

(* An exception before run_app marks the run leaves it 'pending'.          *)
StartApi(r) ==
    /\ LoopIdle
    /\ stage[r] = "waiting"
    /\ \/ Begin(r, "api")
       \/ /\ faults < MaxFaults /\ faults' = faults + 1
          /\ Set(r, "none", "pending", "none")
    /\ UNCHANGED <<todo, busy, alertVars, window, staleVars>>

(* The cron job of the app; the app's run_on, if any, leads to Queue.      *)
TriggerSchedule(r) ==
    /\ LoopIdle
    /\ status[r] = "none" /\ ~Active /\ ~Instance("schedule")
    /\ Begin(r, "schedule")
    /\ UNCHANGED <<todo, busy, alertVars, window, staleVars>>

(* check_and_verify_expiring_certificates does not look for active runs.   *)
TriggerTls(r) ==
    /\ LoopIdle
    /\ status[r] = "none" /\ ~Instance("tls")
    /\ Begin(r, "tls")
    /\ UNCHANGED <<todo, busy, alertVars, window, staleVars>>

(* Either trigger for an app with run_on: queue_remote_run.                *)
Queue(r) ==
    /\ LoopIdle
    /\ status[r] = "none" /\ ~Active
    /\ Set(r, "worker", "queued", "none")
    /\ UNCHANGED <<todo, busy, alertVars, window, staleVars, faults>>

(* fail_runner_job on the reaper's thread. That it may overrule a run that *)
(* has just ended is left to WorkerDispatch (OnlyStuckJobsFail).           *)
JobGivenUp(r) ==
    /\ by[r] = "worker" /\ status[r] \in {"queued", "running"}
    /\ status' = [status EXCEPT ![r] = "error"]
    /\ UNCHANGED <<by, stage, todo, busy, alertVars, window, staleVars, faults>>

(* manually_requeue_failed_job; which of the runs that ended in error have  *)
(* a failed job is told by WorkerDispatch.                                 *)
JobRequeued(r) ==
    /\ LoopIdle
    /\ by[r] = "worker" /\ status[r] = "error" /\ stage[r] = "none"
    /\ status' = [status EXCEPT ![r] = "queued"]
    /\ UNCHANGED <<by, stage, todo, busy, alertVars, window, staleVars, faults>>

-----------------------------------------------------------------------------
(* Recording results.                                                      *)

(* gather has returned: every test has a result or an exception.           *)
TestsDone(r) ==
    /\ LoopIdle
    /\ stage[r] = "executing"
    /\ stage' = [stage EXCEPT ![r] = "recording"]
    /\ busy' = r
    /\ todo' = Test
    /\ UNCHANGED <<status, by, alertVars, window, staleVars, faults>>

(* A worker submits the results T of a run that has not ended.             *)
ResultsArrive(r, T) ==
    /\ LoopIdle
    /\ by[r] = "worker" /\ status[r] \in {"queued", "running"} /\ stage[r] = "none"
    /\ Set(r, "worker", "running", "recording")
    /\ busy' = r
    /\ todo' = T
    /\ UNCHANGED <<alertVars, window, staleVars, faults>>

(* Mutant: the result's own status becomes the state of the test.          *)
NewStateIsOutcome(o) == IF o = "renewed" THEN "pass" ELSE o

NewState(o) == IF o \in {"pass", "renewed"} THEN "passing" ELSE "failing"

(* Mutant: an unknown test that fails raises no alert.                     *)
DetermineAlertKnown(prev, o) ==
    IF o = "fail" /\ prev = "passing" THEN "FAIL"
    ELSE IF o = "renewed" \/ (o = "pass" /\ prev = "failing") THEN "RESOLVE"
    ELSE "none"

(* determine_alert, with the renewed certificate of run_app; a test that   *)
(* raised an exception is recorded without asking it.                      *)
DetermineAlert(prev, o) ==
    IF o = "fail" /\ prev # "failing" THEN "FAIL"
    ELSE IF o = "renewed" \/ (o = "pass" /\ prev = "failing") THEN "RESOLVE"
    ELSE "none"

InFlight(t) == \E r \in Run : alerts[r][t] # "none"

(* One result: insert_test_result, get_app_state, upsert_app_state. Only   *)
(* run_app's own tests raise or renew a certificate.                       *)
RecordTest(r, t, o) ==
    LET a == DetermineAlert(state[t], o) IN
    /\ busy = r /\ t \in todo
    /\ by[r] = "worker" => o \in {"pass", "fail"}
    /\ todo' = todo \ {t}
    /\ state' = [state EXCEPT ![t] = NewState(o)]
    /\ alerts' = [alerts EXCEPT ![r][t] = a]
    /\ spoiled' = IF \/ o = "raise" /\ state[t] # "failing"
                     \/ a # "none" /\ InFlight(t)
                  THEN spoiled \cup {t} ELSE spoiled
    /\ UNCHANGED <<status, by, stage, busy, paged, window, staleVars, faults>>

(* The run is closed, the stale dedup is cleared (also by a run that the   *)
(* worker reports as an error), and a maintenance window that is active    *)
(* now silences the alerts.                                                *)
EndRun(r, e) ==
    /\ busy = r /\ todo = {}
    /\ e => by[r] = "worker"
    /\ status' = [status EXCEPT ![r] = IF e THEN "error" ELSE "complete"]
    /\ last' = IF e THEN last ELSE "fresh"
    /\ dedup' = FALSE
    /\ alerts' = IF window THEN [alerts EXCEPT ![r] = NoAlerts] ELSE alerts
    /\ IF window \/ Raised(r) = {}
         THEN Leave({r})
         ELSE stage' = [stage EXCEPT ![r] = "alerting"] /\ UNCHANGED by
    /\ spoiled' = IF window THEN spoiled \cup Raised(r) ELSE spoiled
    /\ busy' = NoRun
    /\ UNCHANGED <<todo, state, paged, window, staleDue, faults>>

(* A transaction fails ("database is locked") while results are stored or  *)
(* recipients are looked up: the exception ends the coroutine, what is     *)
(* committed stays.                                                        *)
RunRaises(r) ==
    /\ busy = r \/ (LoopIdle /\ stage[r] = "alerting")
    /\ faults < MaxFaults /\ faults' = faults + 1
    /\ busy' = NoRun /\ todo' = {}
    /\ Leave({r})
    /\ spoiled' = spoiled \cup Raised(r)
    /\ alerts' = [alerts EXCEPT ![r] = NoAlerts]
    /\ UNCHANGED <<status, state, paged, window, staleVars>>

(* dispatch_alerts hands one alert to the channels.                        *)
SendAlert(r, t) ==
    /\ LoopIdle
    /\ stage[r] = "alerting" /\ alerts[r][t] # "none"
    /\ paged' = IF alerts[r][t] = "FAIL" THEN paged \cup {t} ELSE paged \ {t}
    /\ alerts' = [alerts EXCEPT ![r][t] = "none"]
    /\ Leave(IF Raised(r) = {t} THEN {r} ELSE {})
    /\ spoiled' = IF /\ \A q \in Run \ {r} : alerts[q][t] = "none"
                     /\ alerts[r][t] = "FAIL" <=> state[t] = "failing"
                  THEN spoiled \ {t} ELSE spoiled
    /\ UNCHANGED <<status, todo, busy, state, window, staleVars, faults>>

(* POST /api/visual/approve of a result with a screenshot: the state of    *)
(* its test is set to passing, and nobody is told.                         *)
ApproveBaseline(t) ==
    /\ LoopIdle
    /\ state[t] # "unknown"
    /\ state' = [state EXCEPT ![t] = "passing"]
    /\ spoiled' = IF state[t] = "failing" THEN spoiled \cup {t} ELSE spoiled
    /\ UNCHANGED <<runVars, alerts, paged, window, staleVars, faults>>

-----------------------------------------------------------------------------
(* The stale-run check.                                                    *)

(* Mutant: the app is marked and its alert is not sent.                    *)
StaleFindMarksOnly ==
    /\ LoopIdle
    /\ ~staleDue /\ ~window
    /\ last = "stale" /\ ~dedup
    /\ dedup' = TRUE
    /\ UNCHANGED <<runVars, alertVars, window, last, staleDue, faults>>

(* find_stale_apps marks the app before the alert goes out.                *)
StaleFind ==
    /\ LoopIdle
    /\ ~staleDue /\ ~window
    /\ last = "stale" /\ ~dedup
    /\ dedup' = TRUE
    /\ staleDue' = TRUE
    /\ UNCHANGED <<runVars, alertVars, window, last, faults>>

StaleSend ==
    /\ LoopIdle
    /\ staleDue
    /\ staleDue' = FALSE
    /\ UNCHANGED <<runVars, alertVars, window, last, dedup, faults>>

(* stale_threshold_minutes and stale_realert_hours pass.                   *)
RunGrowsStale ==
    /\ last = "fresh" /\ last' = "stale"
    /\ UNCHANGED <<runVars, alertVars, window, dedup, staleDue, faults>>

RealertDue ==
    /\ dedup /\ dedup' = FALSE
    /\ UNCHANGED <<runVars, alertVars, window, last, staleDue, faults>>

-----------------------------------------------------------------------------
(* The environment.                                                        *)

WindowToggles ==
    /\ window' = ~window
    /\ UNCHANGED <<runVars, alertVars, staleVars, faults>>

(* Retention deletes the ended runs, all of them old by now. A run whose   *)
(* alerts are still going out has ended just now.                          *)
Prune ==
    LET Ended == {r \in Run : status[r] \in {"complete", "error"}} IN
    /\ Ended # {} /\ \A r \in Ended : stage[r] = "none"
    /\ status' = [r \in Run |-> IF r \in Ended THEN "none" ELSE status[r]]
    /\ by' = [r \in Run |-> IF r \in Ended THEN "none" ELSE by[r]]
    /\ last' = "never"
    /\ UNCHANGED <<stage, todo, busy, alertVars, window, dedup, staleDue, faults>>

(* The central dies: coroutines are gone, rows stay.                       *)
Crash ==
    /\ faults < MaxFaults /\ faults' = faults + 1
    /\ Leave(Run)
    /\ todo' = {} /\ busy' = NoRun
    /\ alerts' = [r \in Run |-> NoAlerts]
    /\ spoiled' = spoiled \cup UNION {Raised(r) : r \in Run}
    /\ staleDue' = FALSE
    /\ UNCHANGED <<status, state, paged, window, last, dedup>>

Outcome == {"pass", "fail", "raise", "renewed"}

Record ==
    \E r \in Run : \/ \E t \in Test, o \in Outcome : RecordTest(r, t, o)
                   \/ \E e \in BOOLEAN : EndRun(r, e)

Next ==
    \/ \E r \in Run :
          \/ TriggerApi(r) \/ StartApi(r) \/ TriggerSchedule(r) \/ TriggerTls(r)
          \/ Queue(r) \/ JobGivenUp(r) \/ JobRequeued(r)
          \/ TestsDone(r)
          \/ \E T \in SUBSET Test : ResultsArrive(r, T)
          \/ RunRaises(r)
          \/ \E t \in Test : SendAlert(r, t)
    \/ Record
    \/ \E t \in Test : ApproveBaseline(t)
    \/ StaleFind \/ StaleSend \/ RunGrowsStale \/ RealertDue
    \/ WindowToggles \/ Prune \/ Crash

Spec == Init /\ [][Next]_vars

-----------------------------------------------------------------------------
(* Properties.                                                             *)

(* What the channels last said of a test is what app_state says, once      *)
(* nothing about it is on its way, however runs, triggers and workers      *)
(* overlap. The exceptions are a transition that a test's exception or the *)
(* approval of a screenshot made, a maintenance window silenced, a crash   *)
(* or a failed transaction cut off, or a second run made before the first  *)
(* one's alert was out.                                                    *)
PagerTellsState ==
    \A t \in Test \ spoiled :
        ~InFlight(t) => (state[t] = "failing" <=> t \in paged)

(* docs/guides/writing-tests.md: a test going from passing or unknown to   *)
(* failing sends one alert. A test that raises an exception sends none.    *)
FailuresRaiseAlerts ==
    [][\A t \in Test :
          state[t] # "failing" /\ state'[t] = "failing" =>
              \E r \in Run : alerts[r][t] # "FAIL" /\ alerts'[r][t] = "FAIL"]_vars

(* Tests end or time out; the loop runs every ready coroutine; the stale   *)
(* check is started every hour and time passes. A coroutine needs the loop *)
(* idle, which other runs may keep making and breaking: strong fairness.   *)
(* None for triggers, workers, windows, retention, faults and crashes.     *)
Coroutine(r) == StartApi(r) \/ TestsDone(r) \/ \E t \in Test : SendAlert(r, t)
StaleCheck == StaleFind \/ StaleSend

Fairness ==
    /\ \A r \in Run : SF_vars(Coroutine(r))
    /\ WF_vars(Record)
    /\ SF_vars(StaleCheck)
    /\ WF_vars(RealertDue)

LiveSpec == Spec /\ Fairness

(* Every run that run_app is given ends, so that is_run_active does not    *)
(* block the app for ever, unless the process died or an exception escaped. *)
RunsEnd ==
    [](faults = 0) =>
        \A r \in Run :
            status[r] \in {"pending", "running"} ~> status[r] \notin {"pending", "running"}

(* An app that has gone silent is alerted about again and again, as long   *)
(* as retention has not deleted its last run and no window is active.      *)
SilenceIsAlerted ==
    <>[](last = "stale" /\ ~window) => []<><<StaleSend>>_vars

=============================================================================
