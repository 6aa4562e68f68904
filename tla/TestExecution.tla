--------------------------- MODULE TestExecution ----------------------------
(***************************************************************************)
(* One run of an app's tests, by each of its two executors: the central    *)
(* process (run_app and _execute_test of harness/runner.py) and a remote   *)
(* worker (execute_job of worker/worker.py). Both are followed side by     *)
(* side, over the same definition and against the same world, so that what *)
(* they report can be compared. Recording and alerts are in RunAlerts,     *)
(* delivery is in WorkerOutbox.                                            *)
(*                                                                         *)
(* An engine (harness/api.py, harness/browser.py, harness/tls_engine.py)   *)
(* is what it makes of an answer of the outside world. Screenshots, logs,  *)
(* proxies and certificates are left out; the comparison of screenshots    *)
(* (harness/runner.py) is never reached, because only a test that has      *)
(* failed has one.                                                         *)
(***************************************************************************)
EXTENDS Naturals, Sequences

CONSTANTS
    Apps,       \* definitions: url, sequential and the sequence of tests
    Var,        \* names that tests refer to as $name
    Secret,     \* those that are secrets or allowed environment variables
    OddSecret,  \* those whose value itself holds a $name
    MaxTests,   \* bound: tests of an app
    MaxTries,   \* bound: retry + 1
    NotAsked

Kind == {"api", "browser", "tls", "availability"}
StepKind == {"act", "assert", "plain", "unknown"}
TestDef == [kind : Kind, retry : 0 .. MaxTries - 1, slo : BOOLEAN,
            needs : SUBSET Var, extracts : SUBSET Var, steps : Seq(StepKind)]

ASSUME ExecutionAssumption ==
    /\ MaxTests \in Nat /\ MaxTries \in Nat
    /\ OddSecret \subseteq Secret /\ Secret \subseteq Var
    /\ \A a \in Apps :
          /\ a.url \in {"http", "unsafe", "none"} /\ a.sequential \in BOOLEAN
          /\ a.tests \in Seq(TestDef) /\ Len(a.tests) <= MaxTests

VARIABLES
    app,
    world,      \* the answers to each test's attempts, per engine
    fate,       \* of the run: "new", "refused", "running", "recorded", "lost"
    tries,      \* attempts made of each test
    result,     \* its final result
    captures    \* names captured so far, with a value that is not empty

execVars == <<app, world, fate, tries, result, captures>>

Executor == {"central", "worker"}
Tests == DOMAIN app.tests

ExecInit ==
    /\ app \in Apps
    /\ world = [q \in (1 .. MaxTests) \X (1 .. MaxTries) \X Kind |-> NotAsked]
    /\ fate = [e \in Executor |-> "new"]
    /\ tries = [e \in Executor |-> [i \in Tests |-> 0]]
    /\ result = [e \in Executor |-> [i \in Tests |-> "none"]]
    /\ captures = [e \in Executor |-> {}]

-----------------------------------------------------------------------------
(* The engines. "raise" stands for an exception that leaves the engine.    *)

Outcome(s, got, blank) == [status |-> s, got |-> got, blank |-> blank]
Plain(s) == Outcome(s, {}, {})

(* run_api_test: what it has extracted it keeps, also when a path is       *)
(* missing and the test fails.                                             *)
ApiTest(t, r) ==
    CASE r.came = "nothing" -> Plain("error")
      [] r.came = "mismatch" -> Plain("fail")
      [] r.came = "body" ->
            Outcome(IF t.extracts \subseteq r.body THEN "pass" ELSE "fail",
                    (t.extracts \cap r.body) \ r.blank,
                    t.extracts \cap r.body \cap r.blank)

AvailabilityTest(r) ==
    CASE r.came = "nothing" -> Plain("error")
      [] r.came = "mismatch" -> Plain("fail")
      [] r.came = "body" -> Plain("pass")

(* execute_step: actions and text are looked for in the PowerApps frame    *)
(* too; no exception leaves a step.                                        *)
ExecuteStep(kind, r) ==
    IF kind = "unknown" THEN "error"
    ELSE IF r = "works" \/ (r = "framed" /\ kind # "plain") THEN "pass"
    ELSE IF kind = "assert" /\ r = "absent" THEN "fail"
    ELSE "error"

(* evaluate_performance_thresholds: metrics that cannot be had pass.       *)
Vitals(r) == IF r.vitals = "over" THEN "fail" ELSE "pass"

(* run_browser_test: the first step that does not pass ends it; its        *)
(* screenshot, unlike that of a bad vital, must succeed.                   *)
BrowserTest(t, r) ==
    LET bad == {i \in DOMAIN t.steps : r.launches /\ ExecuteStep(t.steps[i], r.steps[i]) # "pass"}
    IN  CASE ~r.launches -> Plain("raise")
          [] r.launches /\ bad # {} -> Plain(IF r.shot THEN "fail" ELSE "raise")
          [] OTHER -> Plain(Vitals(r))

(* run_tls_test: a handshake that fails is a failure, an expiry date that  *)
(* cannot be read an exception.                                            *)
TlsTest(r) ==
    CASE r.came = "undated" -> Plain("raise")
      [] r.came = "fine" -> Plain("pass")
      [] OTHER -> Plain("fail")

(* What the outside world may answer: to a request of the api or of the    *)
(* availability engine, to a handshake, and to the steps in a browser.     *)
HttpReplies(t) ==
    {[came |-> c, body |-> {}, blank |-> {}, slow |-> FALSE] : c \in {"nothing", "mismatch"}}
    \cup {[came |-> "body", body |-> b, blank |-> k, slow |-> w] :
             b \in SUBSET t.extracts, k \in SUBSET t.extracts, w \in {FALSE, t.slo}}

Handshakes(t) ==
    {[came |-> c, slow |-> w] :
        c \in {"refused", "undated", "expiring", "headers missing", "fine"}, w \in {FALSE, t.slo}}

Visits(t) ==
    {[launches |-> FALSE, slow |-> FALSE]}
    \cup {[launches |-> TRUE, steps |-> s, shot |-> h, vitals |-> v, slow |-> w] :
             s \in [DOMAIN t.steps -> {"works", "framed", "absent", "raises"}],
             h \in BOOLEAN, w \in {FALSE, t.slo},
             v \in {"within", "over", "unavailable"}}

Replies(t, kind) ==
    CASE kind \in {"api", "availability"} -> HttpReplies(t)
      [] kind = "tls" -> Handshakes(t)
      [] kind = "browser" -> Visits(t)

ASSUME NotAskedAssumption ==
    \A a \in Apps : \A i \in DOMAIN a.tests : \A k \in Kind : NotAsked \notin Replies(a.tests[i], k)

-----------------------------------------------------------------------------
(* One test.                                                               *)

(* The worker knows no tls tests: they are made availability tests.        *)
Engine(e, t) == IF e = "worker" /\ t.kind = "tls" THEN "availability" ELSE t.kind

(* _apply_slo_threshold                                                    *)
Slo(t, r, o) ==
    IF o.status = "pass" /\ t.slo /\ r.slow THEN [o EXCEPT !.status = "fail"] ELSE o

Tested(e, t, r) ==
    CASE Engine(e, t) = "api" -> ApiTest(t, r)
      [] Engine(e, t) = "availability" -> AvailabilityTest(r)
      [] Engine(e, t) = "browser" -> BrowserTest(t, r)
      [] Engine(e, t) = "tls" -> TlsTest(r)

(* Mutant: the worker leaves the threshold to the central.                 *)
JudgedCentrally(e, t, r) ==
    IF e = "worker" THEN Tested(e, t, r) ELSE Slo(t, r, Tested(e, t, r))

Judged(e, t, r) == Slo(t, r, Tested(e, t, r))

(* Names that the tests capture keep their $name in the first resolution,  *)
(* even where a secret has the same name.                                  *)
Seeds == UNION {app.tests[i].extracts : i \in Tests}

(* Mutant: only the option of the app makes a run sequential.              *)
SequentialIfAsked(e) == e = "worker" \/ app.sequential

Sequential(e) == e = "worker" \/ app.sequential \/ Seeds # {}

(* The second resolution, of one test and from the captures alone, which   *)
(* also meets what looks like a reference in the value of a secret.        *)
Unresolved(e, t) ==
    IF Sequential(e)
      THEN ((t.needs \cap Seeds) \ captures[e]) \cup ((t.needs \ Seeds) \cap OddSecret)
      ELSE {}

-----------------------------------------------------------------------------
(* The run.                                                                *)

(* The first resolution and resolve_safe_base_url: the central records a   *)
(* setup error, or does not queue the job.                                 *)
SetupFails ==
    \/ app.url # "http"
    \/ \E i \in Tests : ~(app.tests[i].needs \subseteq Secret \cup Seeds)

SetUp(e) ==
    /\ fate[e] = "new"
    /\ fate' = [fate EXCEPT ![e] = IF SetupFails THEN "refused" ELSE "running"]
    /\ UNCHANGED <<app, world, tries, result, captures>>

Turn(e, i) ==
    /\ fate[e] = "running" /\ result[e][i] = "none"
    /\ Sequential(e) => \A j \in 1 .. i - 1 : result[e][j] # "none"

(* A reference without a value: on the central the test ends with the      *)
(* exception, on the worker the job does, and nothing is submitted.        *)
Stumble(e, i) ==
    /\ Turn(e, i) /\ Unresolved(e, app.tests[i]) # {}
    /\ IF e = "central"
         THEN result' = [result EXCEPT ![e][i] = "raise"] /\ UNCHANGED fate
         ELSE fate' = [fate EXCEPT ![e] = "lost"] /\ UNCHANGED result
    /\ UNCHANGED <<app, world, tries, captures>>

(* Mutant: a failure is final, but an exception is tried again.            *)
FinalUnlessRaised(e, t, s, k) ==
    IF s = "raise" /\ k <= t.retry THEN "none" ELSE s

(* What the k-th attempt makes of the test: the central lets an exception  *)
(* end it, the worker tries again and reports an error in the end.         *)
Final(e, t, s, k) ==
    CASE s = "pass" -> "pass"
      [] s = "raise" /\ e = "central" -> "raise"
      [] OTHER -> IF k <= t.retry THEN "none" ELSE IF s = "raise" THEN "error" ELSE s

Attempt(e, i) ==
    LET t == app.tests[i]
        k == tries[e][i] + 1
        q == <<i, k, Engine(e, t)>>
    IN  /\ Turn(e, i) /\ Unresolved(e, t) = {}
        /\ \E r \in IF world[q] = NotAsked THEN Replies(t, Engine(e, t)) ELSE {world[q]} :
              LET o == Judged(e, t, r)
                  f == Final(e, t, o.status, k)
              IN  /\ world' = [world EXCEPT ![q] = r]
                  /\ tries' = [tries EXCEPT ![e][i] = k]
                  /\ result' = [result EXCEPT ![e][i] = f]
                  /\ captures' = IF Sequential(e) /\ f # "none"
                                   THEN [captures EXCEPT ![e] = (@ \ o.blank) \cup o.got]
                                   ELSE captures
        /\ UNCHANGED <<app, fate>>

(* The results go to the database, or to submit_results.                   *)
Report(e) ==
    /\ fate[e] = "running" /\ \A i \in Tests : result[e][i] # "none"
    /\ fate' = [fate EXCEPT ![e] = "recorded"]
    /\ UNCHANGED <<app, world, tries, result, captures>>

ExecNext ==
    \E e \in Executor :
        \/ SetUp(e) \/ Report(e)
        \/ \E i \in Tests : Stumble(e, i) \/ Attempt(e, i)

ExecSpec == ExecInit /\ [][ExecNext]_execVars
-----------------------------------------------------------------------------
(* What must hold.                                                         *)

Answer(e, i, k) ==
    Judged(e, app.tests[i], world[<<i, k, Engine(e, app.tests[i])>>])

(* A test passes if and only if its last attempt did; it is failed only    *)
(* after every attempt that retry allows, and none follows a pass.         *)
VerdictIsEarned ==
    \A e \in Executor : \A i \in Tests :
        LET made == 1 .. tries[e][i]
            passed == {k \in made : Answer(e, i, k).status = "pass"}
        IN  /\ passed \subseteq {tries[e][i]}
            /\ result[e][i] = "pass" <=> passed # {}
            /\ tries[e][i] <= app.tests[i].retry + 1
            /\ result[e][i] \in {"fail", "error"} => tries[e][i] = app.tests[i].retry + 1

(* No engine meets a captured name that is still open: an earlier test of  *)
(* the same run, by its last attempt, has captured it, whether that test   *)
(* passed or not, and however the tests of a run may overlap.              *)
ReferencesResolve ==
    \A e \in Executor : \A i \in Tests :
        tries[e][i] > 0 =>
            \A x \in app.tests[i].needs \cap Seeds :
                \E j \in 1 .. i - 1 :
                    result[e][j] # "none" /\ tries[e][j] > 0 /\ x \in Answer(e, j, tries[e][j]).got

(* Before the same world a worker reports what the central would record,   *)
(* or loses the job where the central has a test without a value for a     *)
(* name, provided that there are no tls tests, that no engine raises an    *)
(* exception, and that no secret of an app whose tests overlap holds what  *)
(* looks like a reference: the three things in which the executors differ. *)
WorkerAgrees ==
    /\ \A e \in Executor : fate[e] \in {"recorded", "lost"}
    /\ \A i \in Tests :
          /\ app.tests[i].kind # "tls"
          /\ tries["central"][i] > 0 => result["central"][i] # "raise"
          /\ ~Sequential("central") => app.tests[i].needs \cap OddSecret = {}
    => IF \E i \in Tests : result["central"][i] = "raise"
         THEN fate["worker"] = "lost"
         ELSE fate["worker"] = "recorded" /\ result["worker"] = result["central"]

=============================================================================
