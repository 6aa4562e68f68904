------------------------ MODULE TestExecutionProofs -------------------------
(***************************************************************************)
(* Proofs about TestExecution, for any apps, tests, retries and answers.   *)
(***************************************************************************)
EXTENDS TestExecution, TLAPS

Status == {"pass", "fail", "error", "raise"}
Fate == {"new", "refused", "running", "recorded", "lost"}

(* World holds, for each attempt, no answer or one that could be given.    *)
ExecTypeOK ==
    /\ app \in Apps
    /\ DOMAIN world = (1 .. MaxTests) \X (1 .. MaxTries) \X Kind
    /\ \A i \in Tests, k \in 1 .. MaxTries, d \in Kind :
          world[<<i, k, d>>] \in Replies(app.tests[i], d) \cup {NotAsked}
    /\ fate \in [Executor -> Fate]
    /\ tries \in [Executor -> [Tests -> Nat]]
    /\ result \in [Executor -> [Tests -> Status \cup {"none"}]]
    /\ DOMAIN captures = Executor

-----------------------------------------------------------------------------
(* The engines.                                                            *)

LEMMA TestType ==
    ASSUME NEW a \in Apps, NEW i \in DOMAIN a.tests
    PROVE  /\ i \in 1 .. Len(a.tests) /\ i \in 1 .. MaxTests
           /\ DOMAIN a.tests = 1 .. Len(a.tests) /\ Len(a.tests) \in Nat
           /\ a.tests[i] \in TestDef
           /\ a.tests[i].kind \in Kind
           /\ a.tests[i].retry \in 0 .. MaxTries - 1
<1>1. a.tests \in Seq(TestDef) /\ Len(a.tests) <= MaxTests /\ MaxTests \in Nat
  BY ExecutionAssumption
<1>2. DOMAIN a.tests = 1 .. Len(a.tests) /\ Len(a.tests) \in Nat /\ a.tests[i] \in TestDef
  BY <1>1
<1>3. QED
  BY <1>1, <1>2 DEF TestDef

LEMMA EngineType ==
    ASSUME NEW e \in Executor, NEW t, t.kind \in Kind
    PROVE  Engine(e, t) \in Kind
BY DEF Engine, Kind

(* The statuses that an engine gives, for any answer it can get.           *)
LEMMA ReplyFields ==
    ASSUME NEW t, NEW d \in {"api", "availability"}, NEW r \in Replies(t, d)
    PROVE  r.came \in {"nothing", "mismatch", "body"}
<1> DEFINE Without == {[came |-> c, body |-> {}, blank |-> {}, slow |-> FALSE] : c \in {"nothing", "mismatch"}}
           With == {[came |-> "body", body |-> b, blank |-> k, slow |-> w] :
                      b \in SUBSET t.extracts, k \in SUBSET t.extracts, w \in {FALSE, t.slo}}
<1>1. Replies(t, d) = Without \cup With
  BY DEF Replies, HttpReplies
<1>2. CASE r \in Without
  <2>1. PICK c \in {"nothing", "mismatch"} : r = [came |-> c, body |-> {}, blank |-> {}, slow |-> FALSE]
    BY <1>2
  <2>2. r.came = c
    BY <2>1, Zenon
  <2>3. QED
    BY <2>2
<1>3. CASE r \in With
  <2>1. PICK b \in SUBSET t.extracts, k \in SUBSET t.extracts, w \in {FALSE, t.slo} :
          r = [came |-> "body", body |-> b, blank |-> k, slow |-> w]
    BY <1>3
  <2>2. r.came = "body"
    BY <2>1, Zenon
  <2>3. QED
    BY <2>2
<1> HIDE DEF Without, With
<1>4. QED
  BY <1>1, <1>2, <1>3

LEMMA TestedOutcome ==
    ASSUME NEW e \in Executor, NEW t, t.kind \in Kind, NEW r \in Replies(t, Engine(e, t))
    PROVE  \E s \in Status, g \in SUBSET t.extracts, b \in SUBSET t.extracts :
              Tested(e, t, r) = Outcome(s, g, b)
<1>1. \A s \in Status : \E g \in SUBSET t.extracts, b \in SUBSET t.extracts : Plain(s) = Outcome(s, g, b)
  BY DEF Plain
<1>2. CASE Engine(e, t) = "api"
  <2>1. r.came \in {"nothing", "mismatch", "body"}
    BY <1>2, ReplyFields DEF Kind
  <2>2. CASE r.came = "body"
    <3>1. Tested(e, t, r) = Outcome(IF t.extracts \subseteq r.body THEN "pass" ELSE "fail",
                    (t.extracts \cap r.body) \ r.blank,
                    t.extracts \cap r.body \cap r.blank)
      BY <1>2, <2>2 DEF Tested, ApiTest
    <3>2. (IF t.extracts \subseteq r.body THEN "pass" ELSE "fail") \in Status
      BY DEF Status
    <3>3. QED
      BY <3>1, <3>2
  <2>3. CASE r.came # "body"
    <3>1. Tested(e, t, r) \in {Plain("error"), Plain("fail")}
      BY <1>2, <2>1, <2>3 DEF Tested, ApiTest
    <3>2. QED
      BY <1>1, <3>1 DEF Status
  <2>4. QED
    BY <2>2, <2>3
<1>3. CASE Engine(e, t) = "availability"
  <2>1. r.came \in {"nothing", "mismatch", "body"}
    BY <1>3, ReplyFields DEF Kind
  <2>2. Tested(e, t, r) \in {Plain("error"), Plain("fail"), Plain("pass")}
    BY <1>3, <2>1 DEF Tested, AvailabilityTest
  <2>3. QED
    BY <1>1, <2>2 DEF Status
<1>4. CASE Engine(e, t) = "browser"
  <2>1. Tested(e, t, r) = BrowserTest(t, r)
    BY <1>4 DEF Tested
  <2>2. Vitals(r) \in Status
    BY DEF Vitals, Status
  <2>3. BrowserTest(t, r) \in {Plain("raise"), Plain("fail"), Plain(Vitals(r))}
    BY DEF BrowserTest
  <2>4. QED
    BY <1>1, <2>1, <2>2, <2>3 DEF Status
<1>5. CASE Engine(e, t) = "tls"
  <2>1. Tested(e, t, r) \in {Plain("raise"), Plain("pass"), Plain("fail")}
    BY <1>5 DEF Tested, TlsTest
  <2>2. QED
    BY <1>1, <2>1 DEF Status
<1>6. QED
  BY EngineType, <1>2, <1>3, <1>4, <1>5 DEF Kind

LEMMA JudgedType ==
    ASSUME NEW e \in Executor, NEW t, t.kind \in Kind, NEW r \in Replies(t, Engine(e, t))
    PROVE  /\ Judged(e, t, r).status \in Status
           /\ Judged(e, t, r).got \subseteq t.extracts
           /\ Judged(e, t, r).blank \subseteq t.extracts
<1>1. PICK s \in Status, g \in SUBSET t.extracts, b \in SUBSET t.extracts :
         Tested(e, t, r) = Outcome(s, g, b)
  BY TestedOutcome
<1>2. Judged(e, t, r) \in {Outcome(s, g, b), Outcome("fail", g, b)}
  BY <1>1 DEF Judged, Slo, Outcome
<1>3. QED
  BY <1>2 DEF Outcome, Status

-----------------------------------------------------------------------------
(* Attempts.                                                               *)

(* The attempts made so far have their answers in the world, all but the   *)
(* last asked for another, and the last gave the result; a test that is    *)
(* ended without an attempt is the central's.                              *)
AttemptsOf(e, i) ==
    LET t == app.tests[i]
        n == tries[e][i]
    IN  /\ \A k \in 1 .. n : world[<<i, k, Engine(e, t)>>] # NotAsked
        /\ \A k \in 1 .. n - 1 : Final(e, t, Answer(e, i, k).status, k) = "none"
        /\ n > 0 => result[e][i] = Final(e, t, Answer(e, i, n).status, n)
        /\ n <= t.retry + 1
        /\ n = 0 => result[e][i] = "none" \/ (result[e][i] = "raise" /\ e = "central")

AttemptsInv == \A e \in Executor, i \in Tests : AttemptsOf(e, i)

LEMMA FinalMeans ==
    ASSUME NEW e \in Executor, NEW t, t.retry \in Nat, NEW s \in Status, NEW k \in Nat
    PROVE  /\ Final(e, t, s, k) \in Status \cup {"none"}
           /\ Final(e, t, s, k) = "none"
                 <=> s # "pass" /\ ~(s = "raise" /\ e = "central") /\ k <= t.retry
           /\ Final(e, t, s, k) = "pass" <=> s = "pass"
           /\ Final(e, t, s, k) # "none" =>
                 Final(e, t, s, k) = IF s = "raise" /\ e = "worker" THEN "error" ELSE s
BY DEF Final, Status, Executor

(* An attempt that has been made has an answer.                            *)
LEMMA AnswerType ==
    ASSUME ExecTypeOK, AttemptsInv, NEW e \in Executor, NEW i \in Tests, NEW k \in 1 .. tries[e][i]
    PROVE  /\ Answer(e, i, k).status \in Status
           /\ Answer(e, i, k).got \subseteq app.tests[i].extracts
           /\ Answer(e, i, k).blank \subseteq app.tests[i].extracts
<1> DEFINE t == app.tests[i]
           r == world[<<i, k, Engine(e, t)>>]
<1>1. app \in Apps /\ t.kind \in Kind /\ t.retry \in 0 .. MaxTries - 1 /\ MaxTries \in Nat
  BY TestType, ExecutionAssumption DEF ExecTypeOK, Tests
<1>2. tries[e][i] \in Nat /\ tries[e][i] <= t.retry + 1 /\ r # NotAsked
  BY DEF ExecTypeOK, AttemptsInv, AttemptsOf
<1>3. k \in 1 .. MaxTries
  BY <1>1, <1>2
<1>4. r \in Replies(t, Engine(e, t))
  BY <1>1, <1>2, <1>3, EngineType DEF ExecTypeOK
<1>5. QED
  BY <1>1, <1>4, JudgedType DEF Answer

LEMMA VerdictFollows == ExecTypeOK /\ AttemptsInv => VerdictIsEarned
<1> SUFFICES ASSUME ExecTypeOK, AttemptsInv, NEW e \in Executor, NEW i \in Tests
             PROVE  LET made == 1 .. tries[e][i]
                        passed == {k \in made : Answer(e, i, k).status = "pass"}
                    IN  /\ passed \subseteq {tries[e][i]}
                        /\ result[e][i] = "pass" <=> passed # {}
                        /\ tries[e][i] <= app.tests[i].retry + 1
                        /\ result[e][i] \in {"fail", "error"} => tries[e][i] = app.tests[i].retry + 1
  BY DEF VerdictIsEarned
<1> DEFINE t == app.tests[i]
           n == tries[e][i]
<1>1. t.retry \in Nat /\ n \in Nat /\ n <= t.retry + 1
  BY TestType DEF ExecTypeOK, AttemptsInv, AttemptsOf, Tests
<1>2. \A k \in 1 .. n : Answer(e, i, k).status \in Status
  BY AnswerType
<1>3. \A k \in 1 .. n - 1 : Answer(e, i, k).status # "pass"
  BY <1>1, <1>2, FinalMeans DEF AttemptsInv, AttemptsOf
<1>4. n = 0 => result[e][i] \notin {"pass", "fail", "error"}
  BY DEF AttemptsInv, AttemptsOf
<1>5. ASSUME n > 0
      PROVE  /\ result[e][i] = "pass" <=> Answer(e, i, n).status = "pass"
             /\ result[e][i] \in {"fail", "error"} => n = t.retry + 1
  <2> DEFINE s == Answer(e, i, n).status
  <2>1. result[e][i] = Final(e, t, s, n) /\ s \in Status
    BY <1>1, <1>2, <1>5 DEF AttemptsInv, AttemptsOf
  <2>2. result[e][i] \in {"fail", "error"} => ~(n <= t.retry)
    BY <1>1, <2>1 DEF Final
  <2>3. QED
    BY <1>1, <2>1, <2>2, FinalMeans
<1>6. QED
  BY <1>1, <1>3, <1>4, <1>5

LEMMA ExecInitAttempts == ExecInit => ExecTypeOK /\ AttemptsInv
<1> SUFFICES ASSUME ExecInit PROVE ExecTypeOK /\ AttemptsInv
  OBVIOUS
<1>1. ExecTypeOK
  <2>1. \A i \in Tests, k \in 1 .. MaxTries, d \in Kind :
          <<i, k, d>> \in (1 .. MaxTests) \X (1 .. MaxTries) \X Kind
    BY TestType DEF ExecInit, Tests
  <2>2. QED
    BY <2>1 DEF ExecInit, ExecTypeOK, Fate
<1>2. AttemptsInv
  <2>1. \A e \in Executor, i \in Tests : tries[e][i] = 0 /\ result[e][i] = "none" /\ app.tests[i].retry \in Nat
    BY TestType DEF ExecInit, Tests
  <2>2. QED
    BY <2>1 DEF AttemptsInv, AttemptsOf
<1>3. QED
  BY <1>1, <1>2

(* What an attempt leaves behind: one answer more, which is the one that   *)
(* the other executor has had if it was first, and the test's result.      *)
LEMMA AttemptMakes ==
    ASSUME ExecTypeOK, AttemptsInv, NEW e \in Executor, NEW i \in Tests, Attempt(e, i),
           NEW k, k = tries[e][i] + 1
    PROVE  LET t == app.tests[i]
               q == <<i, k, Engine(e, t)>>
           IN  /\ k \in 1 .. MaxTries /\ k <= t.retry + 1 /\ q \in DOMAIN world
               /\ UNCHANGED <<app, fate>>
               /\ world' = [world EXCEPT ![q] = world'[q]]
               /\ world'[q] \in Replies(t, Engine(e, t)) /\ world'[q] # NotAsked
               /\ world[q] # NotAsked => world'[q] = world[q]
               /\ tries' = [tries EXCEPT ![e][i] = k]
               /\ result' = [result EXCEPT ![e][i] = Final(e, t, Judged(e, t, world'[q]).status, k)]
               /\ captures' =
                     IF Sequential(e) /\ Final(e, t, Judged(e, t, world'[q]).status, k) # "none"
                     THEN [captures EXCEPT ![e] = (@ \ Judged(e, t, world'[q]).blank)
                                                     \cup Judged(e, t, world'[q]).got]
                     ELSE captures
<1> DEFINE t == app.tests[i]
           n == tries[e][i]
           q == <<i, k, Engine(e, t)>>
<1>1. /\ app \in Apps /\ i \in 1 .. MaxTests /\ i \in DOMAIN app.tests
      /\ t.kind \in Kind /\ t.retry \in 0 .. MaxTries - 1 /\ MaxTries \in Nat
  BY TestType, ExecutionAssumption DEF ExecTypeOK, Tests
<1>2. n \in Nat /\ n <= t.retry + 1 /\ result[e][i] = "none"
  BY DEF ExecTypeOK, AttemptsInv, AttemptsOf, Attempt, Turn
<1>3. n <= t.retry
  <2>1. CASE n > 0
    <3>1. Answer(e, i, n).status \in Status
      BY <1>2, <2>1, AnswerType
    <3>2. Final(e, t, Answer(e, i, n).status, n) = "none"
      BY <1>2, <2>1 DEF AttemptsInv, AttemptsOf
    <3>3. QED
      BY <1>1, <1>2, <3>1, <3>2, FinalMeans
  <2>2. QED
    BY <1>1, <1>2, <2>1
<1>4. k \in 1 .. MaxTries /\ k <= t.retry + 1
  BY <1>1, <1>2, <1>3
<1>5. q \in DOMAIN world /\ Engine(e, t) \in Kind
  BY <1>1, <1>4, EngineType DEF ExecTypeOK
<1>6. PICK r \in IF world[q] = NotAsked THEN Replies(t, Engine(e, t)) ELSE {world[q]} :
        /\ world' = [world EXCEPT ![q] = r]
        /\ tries' = [tries EXCEPT ![e][i] = k]
        /\ result' = [result EXCEPT ![e][i] = Final(e, t, Judged(e, t, r).status, k)]
        /\ captures' = IF Sequential(e) /\ Final(e, t, Judged(e, t, r).status, k) # "none"
                         THEN [captures EXCEPT ![e] = (@ \ Judged(e, t, r).blank) \cup Judged(e, t, r).got]
                         ELSE captures
  BY DEF Attempt
<1>7. r \in Replies(t, Engine(e, t)) /\ (world[q] # NotAsked => r = world[q])
  BY <1>1, <1>4, <1>5, <1>6 DEF ExecTypeOK
<1>8. r # NotAsked
  BY <1>1, <1>5, <1>7, NotAskedAssumption
<1>9. world'[q] = r
  BY <1>5, <1>6
<1>10. UNCHANGED <<app, fate>>
  BY DEF Attempt
<1> HIDE DEF t, n, q
<1>11. QED
  BY <1>4, <1>5, <1>6, <1>7, <1>8, <1>9, <1>10 DEF t, n, q

(* No step takes back an answer.                                           *)
LEMMA WorldStays ==
    ASSUME ExecTypeOK, AttemptsInv, [ExecNext]_execVars
    PROVE  /\ app' = app /\ Tests' = Tests /\ DOMAIN world' = DOMAIN world
           /\ \A p \in DOMAIN world : world[p] # NotAsked => world'[p] = world[p]
<1>1. ASSUME NEW e \in Executor, NEW i \in Tests, Attempt(e, i)
      PROVE  /\ app' = app /\ DOMAIN world' = DOMAIN world
             /\ \A p \in DOMAIN world : world[p] # NotAsked => world'[p] = world[p]
  <2> DEFINE k == tries[e][i] + 1
             q == <<i, k, Engine(e, app.tests[i])>>
  <2>1. world' = [world EXCEPT ![q] = world'[q]] /\ (world[q] # NotAsked => world'[q] = world[q])
    BY <1>1, AttemptMakes
  <2>2. app' = app
    BY <1>1 DEF Attempt
  <2> HIDE DEF q
  <2>3. QED
    BY <2>1, <2>2
<1>2. ASSUME NEW e \in Executor, SetUp(e) \/ Report(e) \/ \E i \in Tests : Stumble(e, i)
      PROVE  app' = app /\ world' = world
  BY <1>2 DEF SetUp, Report, Stumble
<1>3. CASE UNCHANGED execVars
  BY <1>3 DEF execVars, Tests
<1>4. QED
  BY <1>1, <1>2, <1>3 DEF ExecNext, Tests

LEMMA AnswersStay ==
    ASSUME ExecTypeOK, AttemptsInv, [ExecNext]_execVars,
           NEW e \in Executor, NEW i \in Tests, NEW k \in 1 .. tries[e][i]
    PROVE  /\ Answer(e, i, k)' = Answer(e, i, k)
           /\ world'[<<i, k, Engine(e, app.tests[i])>>] # NotAsked
<1> DEFINE t == app.tests[i]
           q == <<i, k, Engine(e, t)>>
<1>1. /\ app \in Apps /\ i \in 1 .. MaxTests /\ t.kind \in Kind
      /\ t.retry \in 0 .. MaxTries - 1 /\ MaxTries \in Nat
  BY TestType, ExecutionAssumption DEF ExecTypeOK, Tests
<1>2. tries[e][i] \in Nat /\ tries[e][i] <= t.retry + 1 /\ world[q] # NotAsked
  BY DEF ExecTypeOK, AttemptsInv, AttemptsOf
<1>3. q \in DOMAIN world
  BY <1>1, <1>2, EngineType DEF ExecTypeOK
<1>4. world'[q] = world[q] /\ app' = app
  BY <1>2, <1>3, WorldStays
<1>5. QED
  BY <1>2, <1>4 DEF Answer

(* A step that leaves a test alone leaves what its attempts have shown.    *)
LEMMA OthersStay ==
    ASSUME ExecTypeOK, AttemptsInv, [ExecNext]_execVars, NEW e \in Executor, NEW i \in Tests,
           tries'[e][i] = tries[e][i], result'[e][i] = result[e][i]
    PROVE  AttemptsOf(e, i)'
<1> DEFINE t == app.tests[i]
           n == tries[e][i]
<1>1. n \in Nat /\ AttemptsOf(e, i)
  BY DEF ExecTypeOK, AttemptsInv
<1>2. app' = app
  BY WorldStays
<1>3. ASSUME NEW k \in 1 .. n
      PROVE  /\ Answer(e, i, k)' = Answer(e, i, k)
             /\ world'[<<i, k, Engine(e, t)>>] # NotAsked
  BY AnswersStay
<1>4. \A k \in 1 .. n : world'[<<i, k, Engine(e, t)>>] # NotAsked
  BY <1>3
<1>5. \A k \in 1 .. n - 1 : Final(e, t, (Answer(e, i, k)').status, k) = "none"
  <2> SUFFICES ASSUME NEW k \in 1 .. n - 1 PROVE Final(e, t, (Answer(e, i, k)').status, k) = "none"
    OBVIOUS
  <2>1. k \in 1 .. n
    BY <1>1
  <2>2. Final(e, t, Answer(e, i, k).status, k) = "none"
    BY <1>1 DEF AttemptsOf
  <2>3. QED
    BY <1>3, <2>1, <2>2
<1>6. n > 0 => result[e][i] = Final(e, t, Answer(e, i, n)'.status, n)
  <2> SUFFICES ASSUME n > 0 PROVE result[e][i] = Final(e, t, Answer(e, i, n)'.status, n)
    OBVIOUS
  <2>1. PICK k \in 1 .. n : k = n
    BY <1>1
  <2>2. tries'[e][i] = k /\ tries[e][i] = k
    BY <2>1
  <2>3. Answer(e, i, n)' = Answer(e, i, n)
    BY <1>2, <1>3, <2>1, <2>2 DEF Answer
  <2>4. QED
    BY <1>1, <2>3 DEF AttemptsOf
<1>7. n <= t.retry + 1 /\ (n = 0 => result[e][i] = "none" \/ (result[e][i] = "raise" /\ e = "central"))
  BY <1>1 DEF AttemptsOf
<1>8. QED
  BY <1>2, <1>4, <1>5, <1>6, <1>7 DEF AttemptsOf

LEMMA AttemptKeeps ==
    ASSUME ExecTypeOK, AttemptsInv, NEW e \in Executor, NEW i \in Tests, Attempt(e, i)
    PROVE  ExecTypeOK' /\ AttemptsInv'
<1>1. PICK k : k = tries[e][i] + 1
  OBVIOUS
<1> DEFINE t == app.tests[i]
           q == <<i, k, Engine(e, t)>>
           o == Judged(e, t, world'[q])
           f == Final(e, t, o.status, k)
<1>2. /\ k \in 1 .. MaxTries /\ k <= t.retry + 1 /\ q \in DOMAIN world
      /\ UNCHANGED <<app, fate>>
      /\ world' = [world EXCEPT ![q] = world'[q]]
      /\ world'[q] \in Replies(t, Engine(e, t)) /\ world'[q] # NotAsked
      /\ tries' = [tries EXCEPT ![e][i] = k]
      /\ result' = [result EXCEPT ![e][i] = f]
      /\ captures' = IF Sequential(e) /\ f # "none"
                       THEN [captures EXCEPT ![e] = (@ \ o.blank) \cup o.got] ELSE captures
  BY <1>1, AttemptMakes
<1>3. /\ app \in Apps /\ i \in 1 .. MaxTests /\ t.kind \in Kind /\ k \in Nat
      /\ t.retry \in Nat /\ Tests' = Tests /\ tries[e][i] \in Nat
  <2>1. app \in Apps /\ tries[e][i] \in Nat
    BY DEF ExecTypeOK
  <2>2. i \in 1 .. MaxTests /\ t.kind \in Kind /\ t.retry \in 0 .. MaxTries - 1 /\ MaxTries \in Nat
    BY <2>1, TestType, ExecutionAssumption DEF Tests
  <2>3. Tests' = Tests
    BY <1>2 DEF Tests
  <2> HIDE DEF t
  <2>4. QED
    BY <1>1, <2>1, <2>2, <2>3
<1>4. o.status \in Status
  BY <1>2, <1>3, JudgedType
<1>5. f \in Status \cup {"none"}
  BY <1>3, <1>4, FinalMeans
<1>6. Answer(e, i, k)' = o
  BY <1>2 DEF Answer
<1>7. [ExecNext]_execVars
  BY DEF ExecNext
<1>8. ExecTypeOK'
  <2>1. \A j \in Tests, m \in 1 .. MaxTries, d \in Kind :
          world'[<<j, m, d>>] \in Replies(app.tests[j], d) \cup {NotAsked}
    <3> SUFFICES ASSUME NEW j \in Tests, NEW m \in 1 .. MaxTries, NEW d \in Kind
                 PROVE  world'[<<j, m, d>>] \in Replies(app.tests[j], d) \cup {NotAsked}
      OBVIOUS
    <3>1. CASE <<j, m, d>> = q
      <4>1. j = i /\ d = Engine(e, t)
        BY <3>1
      <4>2. QED
        BY <1>2, <3>1, <4>1
    <3>2. CASE <<j, m, d>> # q
      <4>1. j \in 1 .. MaxTests
        BY <1>3, TestType DEF Tests
      <4>2. <<j, m, d>> \in DOMAIN world
        BY <4>1 DEF ExecTypeOK
      <4>3. world'[<<j, m, d>>] = world[<<j, m, d>>]
        BY <1>2, <3>2, <4>2
      <4>4. QED
        BY <4>3 DEF ExecTypeOK
    <3>3. QED
      BY <3>1, <3>2
  <2>2. DOMAIN world' = DOMAIN world /\ DOMAIN captures' = DOMAIN captures
    BY <1>2
  <2>3. /\ tries' \in [Executor -> [Tests -> Nat]]
        /\ result' \in [Executor -> [Tests -> Status \cup {"none"}]]
    BY <1>2, <1>3, <1>5 DEF ExecTypeOK
  <2> HIDE DEF f, o, q, t
  <2>4. QED
    BY <1>2, <1>3, <2>1, <2>2, <2>3 DEF ExecTypeOK
<1>9. AttemptsOf(e, i)'
  <2>1. result[e][i] = "none" /\ AttemptsOf(e, i) /\ tries'[e][i] = k /\ result'[e][i] = f
    <3>1. result[e][i] = "none" /\ AttemptsOf(e, i)
      BY DEF Attempt, Turn, AttemptsInv
    <3> HIDE DEF f
    <3>2. tries'[e][i] = k /\ result'[e][i] = f
      BY <1>2 DEF ExecTypeOK
    <3>3. QED
      BY <3>1, <3>2
  <2>2. ASSUME NEW m \in 1 .. k
        PROVE  /\ world'[<<i, m, Engine(e, t)>>] # NotAsked
               /\ m < k => Final(e, t, Answer(e, i, m)'.status, m) = "none"
    <3>1. CASE m = k
      BY <1>2, <3>1
    <3>2. CASE m # k
      <4>1. m \in 1 .. tries[e][i]
        BY <1>1, <1>3, <3>2
      <4>2. Answer(e, i, m)' = Answer(e, i, m) /\ world'[<<i, m, Engine(e, t)>>] # NotAsked
        BY <1>7, <4>1, AnswersStay
      <4>3. Final(e, t, Answer(e, i, m).status, m) = "none"
        BY <1>1, <1>3, <2>1, <4>1 DEF AttemptsOf
      <4>4. QED
        BY <4>2, <4>3
    <3>3. QED
      BY <3>1, <3>2
  <2>3. result'[e][i] = Final(e, t, Answer(e, i, k)'.status, k)
    BY <1>6, <2>1
  <2>4. ASSUME NEW m \in 1 .. k - 1 PROVE Final(e, t, Answer(e, i, m)'.status, m) = "none"
    <3>1. m \in 1 .. k /\ m < k
      BY <1>3
    <3>2. QED
      BY <2>2, <3>1
  <2>5. Answer(e, i, tries[e][i])' = Answer(e, i, k)'
    BY <1>2, <2>1 DEF Answer
  <2> HIDE DEF f, o, q
  <2>6. QED
    BY <1>2, <1>3, <2>1, <2>2, <2>3, <2>4, <2>5 DEF AttemptsOf
<1>10. ASSUME NEW c \in Executor, NEW j \in Tests, c # e \/ j # i PROVE AttemptsOf(c, j)'
  <2>1. tries'[c][j] = tries[c][j] /\ result'[c][j] = result[c][j]
    BY <1>2, <1>10 DEF ExecTypeOK
  <2>2. QED
    BY <1>7, <2>1, OthersStay
<1>11. AttemptsInv'
  BY <1>3, <1>9, <1>10 DEF AttemptsInv
<1>12. QED
  BY <1>8, <1>11

LEMMA StumbleKeeps ==
    ASSUME ExecTypeOK, AttemptsInv, NEW e \in Executor, NEW i \in Tests, Stumble(e, i),
           tries[e][i] = 0
    PROVE  ExecTypeOK' /\ AttemptsInv'
<1>1. UNCHANGED <<app, world, tries, captures>> /\ Tests' = Tests
  BY DEF Stumble, Tests
<1>2. ExecTypeOK'
  <2>1. fate' = fate \/ fate' = [fate EXCEPT ![e] = "lost"]
    BY DEF Stumble
  <2>2. result' = result \/ result' = [result EXCEPT ![e][i] = "raise"]
    BY DEF Stumble
  <2>3. fate' \in [Executor -> Fate]
    BY <2>1 DEF ExecTypeOK, Fate
  <2>4. result' \in [Executor -> [Tests -> Status \cup {"none"}]]
    <3>1. "raise" \in Status \cup {"none"}
      BY DEF Status
    <3>2. result \in [Executor -> [Tests -> Status \cup {"none"}]]
      BY DEF ExecTypeOK
    <3>3. CASE result' = [result EXCEPT ![e][i] = "raise"]
      BY <3>1, <3>2, <3>3
    <3>4. QED
      BY <2>2, <3>2, <3>3
  <2>5. QED
    BY <1>1, <2>3, <2>4 DEF ExecTypeOK
<1>3. AttemptsOf(e, i)'
  BY <1>1 DEF Stumble, ExecTypeOK, AttemptsInv, AttemptsOf, Executor
<1>4. ASSUME NEW c \in Executor, NEW j \in Tests, c # e \/ j # i PROVE AttemptsOf(c, j)'
  <2>1. tries'[c][j] = tries[c][j] /\ result'[c][j] = result[c][j]
    BY <1>1, <1>4 DEF Stumble, ExecTypeOK
  <2>2. [ExecNext]_execVars
    BY DEF ExecNext
  <2>3. QED
    BY <2>1, <2>2, OthersStay
<1>5. QED
  BY <1>1, <1>2, <1>3, <1>4 DEF AttemptsInv

LEMMA RunKeeps ==
    ASSUME ExecTypeOK, AttemptsInv, NEW e \in Executor, SetUp(e) \/ Report(e)
    PROVE  ExecTypeOK' /\ AttemptsInv'
<1>1. UNCHANGED <<app, world, tries, result, captures>> /\ Tests' = Tests
  BY DEF SetUp, Report, Tests
<1>2. ExecTypeOK'
  BY <1>1 DEF SetUp, Report, ExecTypeOK, Fate
<1>3. AttemptsInv'
  BY <1>1 DEF AttemptsInv, AttemptsOf, Answer
<1>4. QED
  BY <1>2, <1>3

-----------------------------------------------------------------------------
(* The order of the tests, and what they capture.                          *)

(* A test that got its result from an attempt, and what that attempt       *)
(* answered.                                                               *)
Done(e, i) == result[e][i] # "none" /\ tries[e][i] > 0

Last(e, i) == Answer(e, i, tries[e][i])

InOrder(e) ==
    \A i \in Tests :
        tries[e][i] > 0 \/ result[e][i] # "none" => \A j \in 1 .. i - 1 : result[e][j] # "none"

(* A name has a value when the last of the tests to capture it, or to      *)
(* capture nothing for it, has captured something.                         *)
Captured(e, x) ==
    \E j \in Tests :
        /\ Done(e, j) /\ x \in Last(e, j).got
        /\ \A l \in Tests : l > j /\ Done(e, l) => x \notin Last(e, l).blank

(* The same, of the tests before a given one.                              *)
CapturedBefore(e, i, x) ==
    \E j \in 1 .. i - 1 :
        /\ Done(e, j) /\ x \in Last(e, j).got
        /\ \A l \in j + 1 .. i - 1 : Done(e, l) => x \notin Last(e, l).blank

(* No reference of a test is left without a value when its turn comes.     *)
Ready(e, i) ==
    Sequential(e) =>
        /\ \A x \in app.tests[i].needs \cap Seeds : CapturedBefore(e, i, x)
        /\ (app.tests[i].needs \ Seeds) \cap OddSecret = {}

(* Tests that wait for each other run in their order, the captures are     *)
(* those of the tests behind, and whether a test was attempted or ended by *)
(* an open reference the tests before it have decided.                     *)
OrderOf(e) ==
    /\ Sequential(e) => InOrder(e) /\ \A x \in Seeds : x \in captures[e] <=> Captured(e, x)
    /\ \A i \in Tests :
          /\ tries[e][i] > 0 => Ready(e, i)
          /\ tries[e][i] = 0 /\ result[e][i] # "none" => ~Ready(e, i)

OrderInv == \A e \in Executor : OrderOf(e)

(* The first test in the order that ended with an exception.               *)
FirstRaised(i) ==
    /\ result["central"][i] = "raise"
    /\ \A j \in 1 .. i - 1 : result["central"][j] # "raise"

(* How a run ended: with a result for every test, or, on the worker alone, *)
(* at the first open reference.                                            *)
EndInv ==
    /\ fate["central"] # "lost"
    /\ \A e \in Executor : fate[e] = "recorded" => \A i \in Tests : result[e][i] # "none"
    /\ fate["worker"] = "lost" =>
          \E i \in Tests : ~Ready("worker", i) /\ \A j \in 1 .. i - 1 : result["worker"][j] # "none"
    /\ Sequential("central") /\ (\E i \in Tests : result["central"][i] = "raise") =>
          \E i \in Tests : FirstRaised(i)

LEMMA TestsAre == ExecTypeOK => \E n \in Nat : Tests = 1 .. n
<1> SUFFICES ASSUME ExecTypeOK PROVE \E n \in Nat : Tests = 1 .. n
  OBVIOUS
<1>1. app.tests \in Seq(TestDef)
  BY ExecutionAssumption DEF ExecTypeOK
<1>2. Len(app.tests) \in Nat /\ Tests = 1 .. Len(app.tests)
  BY <1>1 DEF Tests
<1>3. QED
  BY <1>2

(* What becomes of a test is decided when it is its turn.                  *)
LEMMA ChangesInTurn ==
    ASSUME ExecTypeOK, [ExecNext]_execVars, NEW e \in Executor, NEW i \in Tests,
           result'[e][i] # result[e][i] \/ tries'[e][i] # tries[e][i]
    PROVE  Turn(e, i)
<1>1. ASSUME NEW c \in Executor, NEW j \in Tests, Attempt(c, j) PROVE Turn(e, i)
  <2>1. PICK f, k : result' = [result EXCEPT ![c][j] = f] /\ tries' = [tries EXCEPT ![c][j] = k]
    BY <1>1 DEF Attempt
  <2>2. c = e /\ j = i
    BY <2>1 DEF ExecTypeOK
  <2>3. QED
    BY <1>1, <2>2 DEF Attempt
<1>2. ASSUME NEW c \in Executor, NEW j \in Tests, Stumble(c, j) PROVE Turn(e, i)
  <2>1. /\ result' = result \/ result' = [result EXCEPT ![c][j] = "raise"]
        /\ tries' = tries
    BY <1>2 DEF Stumble
  <2>2. c = e /\ j = i
    BY <2>1 DEF ExecTypeOK
  <2>3. QED
    BY <1>2, <2>2 DEF Stumble
<1>3. ~(\E c \in Executor : SetUp(c) \/ Report(c)) /\ ~UNCHANGED execVars
  BY DEF SetUp, Report, execVars
<1>4. QED
  BY <1>1, <1>2, <1>3 DEF ExecNext

LEMMA ResultsStay ==
    ASSUME ExecTypeOK, [ExecNext]_execVars, NEW e \in Executor, NEW i \in Tests,
           result[e][i] # "none"
    PROVE  result'[e][i] = result[e][i] /\ tries'[e][i] = tries[e][i]
BY ChangesInTurn DEF Turn

LEMMA LastStays ==
    ASSUME ExecTypeOK, AttemptsInv, [ExecNext]_execVars, NEW e \in Executor, NEW i \in Tests,
           tries[e][i] > 0, tries'[e][i] = tries[e][i]
    PROVE  Last(e, i)' = Last(e, i)
<1>1. tries[e][i] \in Nat
  BY DEF ExecTypeOK
<1>2. PICK k \in 1 .. tries[e][i] : k = tries[e][i]
  BY <1>1
<1>3. Answer(e, i, k)' = Answer(e, i, k)
  BY AnswersStay
<1>4. QED
  BY <1>2, <1>3 DEF Last, Answer

LEMMA AppStays ==
    ASSUME ExecTypeOK, AttemptsInv, [ExecNext]_execVars
    PROVE  app' = app /\ Tests' = Tests /\ Seeds' = Seeds /\ \A e \in Executor : Sequential(e)' <=> Sequential(e)
BY WorldStays DEF Seeds, Sequential, Tests

(* What the tests before a given one have captured stays captured once     *)
(* they are through.                                                       *)
LEMMA BeforeStays ==
    ASSUME ExecTypeOK, AttemptsInv, [ExecNext]_execVars, NEW e \in Executor, NEW i \in Tests,
           \A j \in 1 .. i - 1 : result[e][j] # "none", NEW x
    PROVE  CapturedBefore(e, i, x)' <=> CapturedBefore(e, i, x)
<1>1. \A j \in 1 .. i - 1 : j \in Tests
  BY TestsAre
<1>2. \A j \in 1 .. i - 1 : result'[e][j] = result[e][j] /\ tries'[e][j] = tries[e][j]
  BY <1>1, ResultsStay
<1>3. \A j \in 1 .. i - 1 : Done(e, j) => Last(e, j)' = Last(e, j)
  BY <1>1, <1>2, LastStays DEF Done
<1>4. \A j \in 1 .. i - 1 : Done(e, j)' <=> Done(e, j)
  BY <1>2 DEF Done
<1>5. \A j \in 1 .. i - 1 : \A l \in j + 1 .. i - 1 : l \in 1 .. i - 1
  BY <1>1, TestsAre
<1>6. QED
  BY <1>3, <1>4, <1>5 DEF CapturedBefore

LEMMA ReadyStays ==
    ASSUME ExecTypeOK, AttemptsInv, [ExecNext]_execVars, NEW e \in Executor, NEW i \in Tests,
           Sequential(e) => \A j \in 1 .. i - 1 : result[e][j] # "none"
    PROVE  Ready(e, i)' <=> Ready(e, i)
<1>1. app' = app /\ Seeds' = Seeds /\ (Sequential(e)' <=> Sequential(e))
  BY AppStays
<1>2. Sequential(e) => \A x : CapturedBefore(e, i, x)' <=> CapturedBefore(e, i, x)
  BY BeforeStays
<1>3. QED
  BY <1>1, <1>2 DEF Ready

(* When its turn comes, a test has an open reference exactly when the      *)
(* tests before it have left one.                                          *)
LEMMA TurnReady ==
    ASSUME ExecTypeOK, OrderInv, NEW e \in Executor, NEW i \in Tests, Turn(e, i)
    PROVE  Unresolved(e, app.tests[i]) = {} <=> Ready(e, i)
<1>1. CASE ~Sequential(e)
  BY <1>1 DEF Unresolved, Ready
<1>2. CASE Sequential(e)
  <2>1. PICK n \in Nat : Tests = 1 .. n
    BY TestsAre
  <2>2. i \in 1 .. n /\ \A l \in Tests : Done(e, l) => l < i
    BY <1>2, <2>1 DEF OrderInv, OrderOf, InOrder, Turn, Done
  <2>3. ASSUME NEW x \in Seeds PROVE x \in captures[e] <=> CapturedBefore(e, i, x)
    <3>1. x \in captures[e] <=> Captured(e, x)
      BY <1>2 DEF OrderInv, OrderOf
    <3>2. ASSUME Captured(e, x) PROVE CapturedBefore(e, i, x)
      <4>1. PICK j \in Tests :
              /\ Done(e, j) /\ x \in Last(e, j).got
              /\ \A l \in Tests : l > j /\ Done(e, l) => x \notin Last(e, l).blank
        BY <3>2 DEF Captured
      <4>2. j \in 1 .. i - 1 /\ \A l \in j + 1 .. i - 1 : l \in Tests /\ l > j
        BY <2>1, <2>2, <4>1
      <4>3. QED
        BY <4>1, <4>2 DEF CapturedBefore
    <3>3. ASSUME CapturedBefore(e, i, x) PROVE Captured(e, x)
      <4>1. PICK j \in 1 .. i - 1 :
              /\ Done(e, j) /\ x \in Last(e, j).got
              /\ \A l \in j + 1 .. i - 1 : Done(e, l) => x \notin Last(e, l).blank
        BY <3>3 DEF CapturedBefore
      <4>2. j \in Tests /\ \A l \in Tests : l > j /\ Done(e, l) => l \in j + 1 .. i - 1
        BY <2>1, <2>2
      <4>3. QED
        BY <4>1, <4>2 DEF Captured
    <3>4. QED
      BY <3>1, <3>2, <3>3
  <2>4. QED
    BY <1>2, <2>3 DEF Unresolved, Ready
<1>3. QED
  BY <1>1, <1>2

(* An executor that a step leaves alone.                                   *)
LEMMA OrderStays ==
    ASSUME ExecTypeOK, AttemptsInv, OrderInv, [ExecNext]_execVars, NEW e \in Executor,
           tries'[e] = tries[e], result'[e] = result[e], captures'[e] = captures[e]
    PROVE  OrderOf(e)'
<1>1. app' = app /\ Tests' = Tests /\ Seeds' = Seeds /\ (Sequential(e)' <=> Sequential(e))
  BY AppStays
<1>2. \A i \in Tests : Done(e, i) => Last(e, i)' = Last(e, i)
  BY LastStays DEF Done
<1>3. \A i \in Tests : Done(e, i)' <=> Done(e, i)
  BY DEF Done
<1>4. \A x \in Seeds : Captured(e, x)' <=> Captured(e, x)
  BY <1>1, <1>2, <1>3 DEF Captured
<1>5. InOrder(e)' <=> InOrder(e)
  BY <1>1 DEF InOrder
<1>6. ASSUME NEW i \in Tests, tries[e][i] > 0 \/ result[e][i] # "none"
      PROVE  Ready(e, i)' <=> Ready(e, i)
  <2>1. Sequential(e) => \A j \in 1 .. i - 1 : result[e][j] # "none"
    BY <1>6 DEF OrderInv, OrderOf, InOrder
  <2>2. QED
    BY <2>1, ReadyStays
<1>7. OrderOf(e)
  BY DEF OrderInv
<1>8. QED
  BY <1>1, <1>4, <1>5, <1>6, <1>7 DEF OrderOf

(* A step in a test whose turn it is.                                      *)
LEMMA TurnKeepsOrder ==
    ASSUME ExecTypeOK, AttemptsInv, OrderInv, [ExecNext]_execVars,
           NEW e \in Executor, NEW i \in Tests, Turn(e, i),
           \A j \in Tests \ {i} : tries'[e][j] = tries[e][j] /\ result'[e][j] = result[e][j]
    PROVE  /\ Sequential(e) => InOrder(e)'
           /\ \A j \in Tests : tries'[e][j] > 0 \/ result'[e][j] # "none"
                 => (Ready(e, j)' <=> Ready(e, j))
<1>1. app' = app /\ Tests' = Tests
  BY AppStays
<1>2. OrderOf(e)
  BY DEF OrderInv
<1>3. ASSUME Sequential(e), NEW j \in Tests, tries'[e][j] > 0 \/ result'[e][j] # "none"
      PROVE  \A l \in 1 .. j - 1 : result[e][l] # "none" /\ result'[e][l] # "none"
  <2>1. \A l \in 1 .. j - 1 : l \in Tests
    BY TestsAre
  <2>2. \A l \in 1 .. j - 1 : result[e][l] # "none"
    BY <1>2, <1>3 DEF Turn, OrderOf, InOrder
  <2>3. QED
    BY <2>1, <2>2, ResultsStay
<1>4. ASSUME NEW j \in Tests, tries'[e][j] > 0 \/ result'[e][j] # "none"
      PROVE  Ready(e, j)' <=> Ready(e, j)
  BY <1>3, <1>4, ReadyStays
<1>5. Sequential(e) => InOrder(e)'
  BY <1>1, <1>3 DEF InOrder
<1>6. QED
  BY <1>4, <1>5

(* A test that is still open, or ends without an attempt, captures nothing.*)
LEMMA NothingCaptured ==
    ASSUME ExecTypeOK, AttemptsInv, OrderInv, [ExecNext]_execVars,
           NEW e \in Executor, NEW i \in Tests, Turn(e, i), captures'[e] = captures[e],
           \A j \in Tests \ {i} : tries'[e][j] = tries[e][j] /\ result'[e][j] = result[e][j],
           ~Done(e, i)', tries'[e][i] > 0 => Ready(e, i),
           tries'[e][i] = 0 /\ result'[e][i] # "none" => ~Ready(e, i)
    PROVE  OrderOf(e)'
<1>1. app' = app /\ Tests' = Tests /\ Seeds' = Seeds /\ (Sequential(e)' <=> Sequential(e))
  BY AppStays
<1>2. \A j \in Tests : Done(e, j) => Last(e, j)' = Last(e, j)
  BY LastStays DEF Done, Turn
<1>3. \A j \in Tests : Done(e, j)' <=> Done(e, j)
  BY DEF Done, Turn
<1>4. \A x \in Seeds : Captured(e, x)' <=> Captured(e, x)
  BY <1>1, <1>2, <1>3 DEF Captured
<1>5. OrderOf(e)
  BY DEF OrderInv
<1>6. \A j \in Tests :
        /\ tries'[e][j] > 0 => Ready(e, j)'
        /\ tries'[e][j] = 0 /\ result'[e][j] # "none" => ~Ready(e, j)'
  BY <1>5, TurnKeepsOrder DEF OrderOf
<1>7. QED
  BY <1>1, <1>4, <1>5, <1>6, TurnKeepsOrder DEF OrderOf

(* A test that ends with the answer o of its last attempt.                 *)
LEMMA AnswerCaptured ==
    ASSUME ExecTypeOK, AttemptsInv, OrderInv, [ExecNext]_execVars,
           NEW e \in Executor, NEW i \in Tests, Turn(e, i), Sequential(e), Ready(e, i), NEW o,
           captures'[e] = (captures[e] \ o.blank) \cup o.got,
           \A j \in Tests \ {i} : tries'[e][j] = tries[e][j] /\ result'[e][j] = result[e][j],
           Done(e, i)', Last(e, i)' = o
    PROVE  OrderOf(e)'
<1>1. app' = app /\ Tests' = Tests /\ Seeds' = Seeds /\ (Sequential(e)' <=> Sequential(e))
  BY AppStays
<1>2. \A j \in Tests \ {i} : Done(e, j)' <=> Done(e, j)
  BY DEF Done
<1>3. \A j \in Tests \ {i} : Done(e, j) => Last(e, j)' = Last(e, j)
  BY LastStays DEF Done
<1>4. PICK n \in Nat : Tests = 1 .. n
  BY TestsAre
<1>5. \A j \in Tests : Done(e, j) => j < i
  BY <1>4 DEF OrderInv, OrderOf, InOrder, Turn, Done
<1>6. ASSUME NEW x \in Seeds PROVE x \in captures'[e] <=> Captured(e, x)'
  <2>1. x \in captures[e] <=> Captured(e, x)
    BY DEF OrderInv, OrderOf
  <2>2. ASSUME x \in o.got PROVE Captured(e, x)'
    BY <1>1, <1>2, <1>4, <1>5, <2>2 DEF Captured
  <2>3. ASSUME Captured(e, x), x \notin o.blank PROVE Captured(e, x)'
    <3>1. PICK j \in Tests :
            /\ Done(e, j) /\ x \in Last(e, j).got
            /\ \A l \in Tests : l > j /\ Done(e, l) => x \notin Last(e, l).blank
      BY <2>3 DEF Captured
    <3>2. j # i /\ Done(e, j)' /\ x \in (Last(e, j)').got
      BY <1>2, <1>3, <1>4, <1>5, <3>1
    <3>3. \A l \in Tests : l > j /\ Done(e, l)' => x \notin (Last(e, l)').blank
      BY <1>2, <1>3, <2>3, <3>1
    <3>4. QED
      BY <1>1, <3>2, <3>3 DEF Captured
  <2>4. ASSUME Captured(e, x)', x \notin o.got PROVE Captured(e, x) /\ x \notin o.blank
    <3>1. PICK j \in Tests :
            /\ Done(e, j)' /\ x \in (Last(e, j)').got
            /\ \A l \in Tests : l > j /\ Done(e, l)' => x \notin (Last(e, l)').blank
      BY <1>1, <2>4 DEF Captured
    <3>2. j # i /\ Done(e, j) /\ j < i
      BY <1>2, <1>5, <2>4, <3>1
    <3>3. x \notin o.blank
      BY <3>1, <3>2
    <3>4. \A l \in Tests : l > j /\ Done(e, l) => x \notin Last(e, l).blank
      BY <1>2, <1>3, <1>4, <1>5, <3>1
    <3>5. Captured(e, x)
      BY <1>3, <3>1, <3>2, <3>4 DEF Captured
    <3>6. QED
      BY <3>3, <3>5
  <2>5. QED
    BY <2>1, <2>2, <2>3, <2>4
<1>7. \A j \in Tests :
        /\ tries'[e][j] > 0 => Ready(e, j)'
        /\ tries'[e][j] = 0 /\ result'[e][j] # "none" => ~Ready(e, j)'
  BY TurnKeepsOrder DEF OrderInv, OrderOf, Done
<1>8. QED
  BY <1>1, <1>6, <1>7, TurnKeepsOrder DEF OrderOf

LEMMA StumbleOrder ==
    ASSUME ExecTypeOK, AttemptsInv, OrderInv, NEW e \in Executor, NEW i \in Tests, Stumble(e, i)
    PROVE  tries[e][i] = 0 /\ ~Ready(e, i) /\ OrderInv'
<1>1. ~Ready(e, i) /\ Turn(e, i)
  BY TurnReady DEF Stumble
<1>2. tries[e][i] = 0
  BY <1>1 DEF OrderInv, OrderOf, ExecTypeOK
<1>3. result' = result \/ result' = [result EXCEPT ![e][i] = "raise"]
  BY DEF Stumble
<1>4. UNCHANGED <<tries, captures>> /\ [ExecNext]_execVars
  BY DEF Stumble, ExecNext
<1>5. OrderOf(e)'
  <2>1. ~Done(e, i)'
    BY <1>2, <1>4 DEF Done
  <2>2. \A j \in Tests \ {i} : tries'[e][j] = tries[e][j] /\ result'[e][j] = result[e][j]
    BY <1>3, <1>4 DEF ExecTypeOK
  <2>3. QED
    BY <1>1, <1>2, <1>4, <2>1, <2>2, NothingCaptured
<1>6. ASSUME NEW c \in Executor \ {e} PROVE OrderOf(c)'
  BY <1>3, <1>4, <1>6, OrderStays DEF ExecTypeOK
<1>7. QED
  BY <1>1, <1>2, <1>5, <1>6 DEF OrderInv

LEMMA AttemptOrder ==
    ASSUME ExecTypeOK, AttemptsInv, OrderInv, NEW e \in Executor, NEW i \in Tests, Attempt(e, i)
    PROVE  OrderInv'
<1>1. PICK k : k = tries[e][i] + 1
  OBVIOUS
<1> DEFINE t == app.tests[i]
           q == <<i, k, Engine(e, t)>>
           o == Judged(e, t, world'[q])
           f == Final(e, t, o.status, k)
<1>2. /\ k \in 1 .. MaxTries
      /\ UNCHANGED <<app, fate>>
      /\ tries' = [tries EXCEPT ![e][i] = k]
      /\ result' = [result EXCEPT ![e][i] = f]
      /\ captures' = IF Sequential(e) /\ f # "none"
                       THEN [captures EXCEPT ![e] = (@ \ o.blank) \cup o.got] ELSE captures
  BY <1>1, AttemptMakes
<1>3. tries'[e][i] = k /\ result'[e][i] = f /\ k > 0
  BY <1>2 DEF ExecTypeOK
<1>4. Last(e, i)' = o
  BY <1>2, <1>3 DEF Last, Answer
<1> HIDE DEF f, o
<1>5. Turn(e, i) /\ Ready(e, i)
  BY TurnReady DEF Attempt
<1>6. [ExecNext]_execVars
  BY DEF ExecNext
<1>7. \A j \in Tests \ {i} : tries'[e][j] = tries[e][j] /\ result'[e][j] = result[e][j]
  BY <1>2 DEF ExecTypeOK
<1>8. OrderOf(e)'
  <2>1. CASE f = "none"
    <3>1. ~Done(e, i)'
      BY <1>3, <2>1 DEF Done
    <3>2. captures' = captures
      BY <1>2, <2>1
    <3>3. QED
      BY <1>3, <1>5, <1>6, <1>7, <3>1, <3>2, NothingCaptured
  <2>2. CASE f # "none" /\ Sequential(e)
    <3>1. Done(e, i)'
      BY <1>3, <2>2 DEF Done
    <3>2. captures'[e] = (captures[e] \ o.blank) \cup o.got
      BY <1>2, <2>2 DEF ExecTypeOK
    <3>3. QED
      BY <1>4, <1>5, <1>6, <1>7, <2>2, <3>1, <3>2, AnswerCaptured
  <2>3. CASE ~Sequential(e)
    <3>1. ~Sequential(e)' /\ Tests' = Tests
      BY <1>6, <2>3, AppStays
    <3>2. \A j \in Tests : Ready(e, j) /\ Ready(e, j)'
      BY <2>3, <3>1 DEF Ready
    <3>3. \A j \in Tests : ~(tries'[e][j] = 0 /\ result'[e][j] # "none")
      BY <1>3, <1>7, <3>2 DEF OrderInv, OrderOf
    <3>4. QED
      BY <3>1, <3>2, <3>3 DEF OrderOf
  <2>4. QED
    BY <2>1, <2>2, <2>3
<1>9. ASSUME NEW c \in Executor \ {e} PROVE OrderOf(c)'
  <2>1. tries'[c] = tries[c] /\ result'[c] = result[c] /\ captures'[c] = captures[c]
    BY <1>2, <1>9 DEF ExecTypeOK
  <2>2. QED
    BY <1>6, <2>1, OrderStays
<1>10. QED
  BY <1>8, <1>9 DEF OrderInv

-----------------------------------------------------------------------------
(* The two executors.                                                      *)

LEMMA EndStep ==
    ASSUME ExecTypeOK, AttemptsInv, OrderInv, EndInv, [ExecNext]_execVars
    PROVE  EndInv'
<1> USE DEF Executor
<1>1. Tests' = Tests /\ (Sequential("central")' <=> Sequential("central"))
  BY AppStays
<1>2. PICK n \in Nat : Tests = 1 .. n
  BY TestsAre
<1>3. \A e \in Executor, i \in Tests : result[e][i] # "none" => result'[e][i] = result[e][i]
  BY ResultsStay
<1>4. \A e \in Executor :
        \/ fate'[e] = fate[e]
        \/ fate'[e] \in {"refused", "running"}
        \/ Report(e) /\ fate'[e] = "recorded"
        \/ e = "worker" /\ fate'[e] = "lost" /\ \E i \in Tests : Stumble(e, i)
  <2>1. ASSUME NEW c \in Executor, SetUp(c) PROVE fate' = [fate EXCEPT ![c] = "refused"] \/ fate' = [fate EXCEPT ![c] = "running"]
    BY <2>1 DEF SetUp
  <2>2. ASSUME NEW c \in Executor, Report(c) PROVE fate' = [fate EXCEPT ![c] = "recorded"]
    BY <2>2 DEF Report
  <2>3. ASSUME NEW c \in Executor, NEW i \in Tests, Stumble(c, i)
        PROVE  fate' = fate \/ (c = "worker" /\ fate' = [fate EXCEPT ![c] = "lost"])
    BY <2>3 DEF Stumble
  <2>4. ASSUME NEW c \in Executor, NEW i \in Tests, Attempt(c, i) PROVE fate' = fate
    BY <2>4 DEF Attempt
  <2>5. CASE UNCHANGED execVars
    BY <2>5 DEF execVars
  <2>6. QED
    BY <2>1, <2>2, <2>3, <2>4, <2>5 DEF ExecNext, ExecTypeOK
<1>5. fate'["central"] # "lost"
  BY <1>4 DEF EndInv
<1>6. ASSUME NEW e \in Executor, fate'[e] = "recorded", NEW i \in Tests PROVE result'[e][i] # "none"
  <2>1. result[e][i] # "none"
    BY <1>4, <1>6 DEF EndInv, Report
  <2>2. QED
    BY <1>3, <2>1
<1>7. ASSUME fate'["worker"] = "lost"
      PROVE  \E i \in Tests : ~Ready("worker", i)' /\ \A j \in 1 .. i - 1 : result'["worker"][j] # "none"
  <2>1. PICK i \in Tests : ~Ready("worker", i) /\ \A j \in 1 .. i - 1 : result["worker"][j] # "none"
    <3>1. CASE fate["worker"] = "lost"
      BY <3>1 DEF EndInv
    <3>2. CASE \E i \in Tests : Stumble("worker", i)
      BY <3>2, StumbleOrder DEF Stumble, Turn, Sequential
    <3>3. QED
      BY <1>4, <1>7, <3>1, <3>2
  <2>2. ~Ready("worker", i)'
    BY <2>1, ReadyStays
  <2>3. \A j \in 1 .. i - 1 : result'["worker"][j] # "none"
    BY <1>2, <1>3, <2>1
  <2>4. QED
    BY <2>2, <2>3
<1>8. ASSUME Sequential("central"), NEW r \in Tests, result'["central"][r] = "raise"
      PROVE  \E i \in Tests : FirstRaised(i)'
  <2>1. PICK i \in Tests :
          /\ result'["central"][i] = "raise"
          /\ \A j \in 1 .. i - 1 : result["central"][j] \notin {"none", "raise"}
    <3>1. CASE \E j \in Tests : result["central"][j] = "raise"
      <4>1. PICK i \in Tests : FirstRaised(i)
        BY <1>8, <3>1 DEF EndInv
      <4>2. result["central"][i] # "none" /\ result'["central"][i] = "raise"
        BY <1>3, <4>1 DEF FirstRaised
      <4>3. \A j \in 1 .. i - 1 : result["central"][j] # "none"
        BY <1>8, <4>2 DEF OrderInv, OrderOf, InOrder
      <4>4. QED
        BY <4>1, <4>2, <4>3 DEF FirstRaised
    <3>2. CASE \A j \in Tests : result["central"][j] # "raise"
      <4>1. Turn("central", r)
        BY <1>8, <3>2, ChangesInTurn
      <4>2. \A j \in 1 .. r - 1 : j \in Tests /\ result["central"][j] # "none"
        BY <1>2, <1>8, <4>1 DEF Turn
      <4>3. QED
        BY <1>8, <3>2, <4>2
    <3>3. QED
      BY <3>1, <3>2
  <2>2. \A j \in 1 .. i - 1 : result'["central"][j] # "raise"
    BY <1>2, <1>3, <2>1
  <2>3. QED
    BY <2>1, <2>2 DEF FirstRaised
<1>9. QED
  BY <1>1, <1>5, <1>6, <1>7, <1>8 DEF EndInv

(* Both executors ask the world the same, but about tls tests.             *)
LEMMA SameAnswer ==
    ASSUME NEW i \in Tests, app.tests[i].kind # "tls", NEW k
    PROVE  Answer("central", i, k) = Answer("worker", i, k)
<1> DEFINE t == app.tests[i]
<1>1. Engine("central", t) = Engine("worker", t)
  BY DEF Engine
<1>2. \A r : Tested("central", t, r) = Tested("worker", t, r)
  BY <1>1 DEF Tested
<1>3. QED
  BY <1>1, <1>2 DEF Answer, Judged

LEMMA SameVerdict ==
    ASSUME ExecTypeOK, AttemptsInv, NEW i \in Tests, app.tests[i].kind # "tls",
           Done("central", i), Done("worker", i), result["central"][i] # "raise"
    PROVE  /\ result["worker"][i] = result["central"][i]
           /\ Last("worker", i) = Last("central", i)
<1> DEFINE t == app.tests[i]
           c == tries["central"][i]
           w == tries["worker"][i]
           s(k) == Answer("worker", i, k).status
<1>1. /\ c \in Nat \ {0} /\ w \in Nat \ {0} /\ t.retry \in Nat
      /\ "central" \in Executor /\ "worker" \in Executor
  BY TestType DEF ExecTypeOK, Done, Executor, Tests
<1>2. \A k : Answer("central", i, k) = Answer("worker", i, k)
  BY SameAnswer
<1>3. \A k \in 1 .. w : s(k) \in Status
  BY <1>1, AnswerType
<1>4. \A k \in 1 .. c : s(k) \in Status
  BY <1>1, <1>2, AnswerType
<1>5. /\ \A k \in 1 .. w - 1 : Final("worker", t, s(k), k) = "none"
      /\ \A k \in 1 .. c - 1 : Final("central", t, s(k), k) = "none"
      /\ result["worker"][i] = Final("worker", t, s(w), w)
      /\ result["central"][i] = Final("central", t, s(c), c)
      /\ c <= t.retry + 1 /\ w <= t.retry + 1
  BY <1>1, <1>2 DEF AttemptsInv, AttemptsOf
<1>6. result["worker"][i] # "none" /\ result["central"][i] \notin {"none", "raise"}
  BY DEF Done
<1> HIDE DEF c, w, s
<1>7. ~(c < w)
  <2> SUFFICES ASSUME c < w PROVE FALSE
    OBVIOUS
  <2>1. c \in 1 .. w - 1 /\ c \in 1 .. c /\ c \in Nat
    BY <1>1
  <2>2. s(c) # "pass" /\ c <= t.retry /\ s(c) \in Status
    BY <1>1, <1>4, <1>5, <2>1, FinalMeans
  <2>3. QED
    BY <1>5, <1>6, <2>2 DEF Final
<1>8. ~(w < c)
  <2> SUFFICES ASSUME w < c PROVE FALSE
    OBVIOUS
  <2>1. w \in 1 .. c - 1 /\ w \in 1 .. w /\ w \in Nat
    BY <1>1
  <2>2. s(w) # "pass" /\ s(w) # "raise" /\ w <= t.retry
    BY <1>1, <1>3, <1>5, <2>1, FinalMeans
  <2>3. QED
    BY <1>5, <1>6, <2>2 DEF Final
<1>9. c = w
  BY <1>1, <1>7, <1>8
<1>10. Final("worker", t, s(c), c) = Final("central", t, s(c), c)
  BY <1>5, <1>6 DEF Final
<1>11. QED
  BY <1>2, <1>5, <1>9, <1>10 DEF Last, c, w

(* Whether a reference is open depends on the tests before alone.          *)
LEMMA SameReady ==
    ASSUME NEW i \in Tests, Sequential("central"),
           \A j \in 1 .. i - 1 : /\ Done("central", j) /\ Done("worker", j)
                                  /\ Last("worker", j) = Last("central", j)
    PROVE  Ready("worker", i) <=> Ready("central", i)
<1>1. \A x : CapturedBefore("worker", i, x) <=> CapturedBefore("central", i, x)
  <2> SUFFICES ASSUME NEW x PROVE CapturedBefore("worker", i, x) <=> CapturedBefore("central", i, x)
    OBVIOUS
  <2>1. \A j \in 1 .. i - 1 : \A l \in j + 1 .. i - 1 :
          Done("central", l) /\ Done("worker", l) => Last("worker", l).blank = Last("central", l).blank
    OBVIOUS
  <2>2. QED
    BY DEF CapturedBefore
<1>2. Sequential("worker")
  BY DEF Sequential
<1>3. QED
  BY <1>1, <1>2 DEF Ready

ExecInv == ExecTypeOK /\ AttemptsInv /\ OrderInv /\ EndInv

LEMMA AgreementFollows == ExecInv => WorkerAgrees
<1> SUFFICES ASSUME ExecInv,
                    \A e \in Executor : fate[e] \in {"recorded", "lost"},
                    \A i \in Tests :
                       /\ app.tests[i].kind # "tls"
                       /\ tries["central"][i] > 0 => result["central"][i] # "raise"
                       /\ ~Sequential("central") => app.tests[i].needs \cap OddSecret = {}
             PROVE  IF \E i \in Tests : result["central"][i] = "raise"
                    THEN fate["worker"] = "lost"
                    ELSE fate["worker"] = "recorded" /\ result["worker"] = result["central"]
  BY Zenon DEF WorkerAgrees
<1> USE DEF ExecInv, Executor
<1>1. PICK n \in Nat : Tests = 1 .. n
  BY TestsAre
<1>2. \A i \in Tests : result["central"][i] # "none"
  BY DEF EndInv
<1>3. \A i \in Tests : result["central"][i] # "raise" => Done("central", i)
  BY <1>2 DEF AttemptsInv, AttemptsOf, Done, ExecTypeOK
<1>4. \A i \in Tests : result["worker"][i] # "none" => Done("worker", i)
  BY DEF AttemptsInv, AttemptsOf, Done, ExecTypeOK
<1>5. ASSUME Sequential("central"), NEW i \in Tests,
             \A j \in 1 .. i - 1 : result["central"][j] # "raise" /\ result["worker"][j] # "none"
      PROVE  Ready("worker", i) <=> Ready("central", i)
  <2>1. \A j \in 1 .. i - 1 : j \in Tests
    BY <1>1
  <2>2. \A j \in 1 .. i - 1 : Done("central", j) /\ Done("worker", j)
    BY <1>3, <1>4, <1>5, <2>1
  <2>3. \A j \in 1 .. i - 1 : Last("worker", j) = Last("central", j)
    BY <1>5, <2>1, <2>2, SameVerdict
  <2>4. QED
    BY <1>5, <2>2, <2>3, SameReady
<1>6. ASSUME NEW r \in Tests, result["central"][r] = "raise", fate["worker"] = "recorded" PROVE FALSE
  <2>1. ~Ready("central", r)
    BY <1>2, <1>6 DEF OrderInv, OrderOf, ExecTypeOK
  <2>2. Sequential("central")
    BY <2>1 DEF Ready
  <2>3. PICK i \in Tests : FirstRaised(i)
    BY <1>6, <2>2 DEF EndInv
  <2>4. ~Ready("central", i)
    BY <1>2, <2>3 DEF FirstRaised, OrderInv, OrderOf, ExecTypeOK
  <2>5. \A j \in Tests : result["worker"][j] # "none"
    BY <1>6 DEF EndInv
  <2>6. Ready("worker", i)
    BY <1>4, <2>5 DEF OrderInv, OrderOf, Done
  <2>7. \A j \in 1 .. i - 1 : result["central"][j] # "raise" /\ result["worker"][j] # "none"
    BY <1>1, <2>3, <2>5 DEF FirstRaised
  <2>8. QED
    BY <1>5, <2>2, <2>4, <2>6, <2>7
<1>7. ASSUME \A i \in Tests : result["central"][i] # "raise", fate["worker"] = "lost" PROVE FALSE
  <2>1. PICK i \in Tests : ~Ready("worker", i) /\ \A j \in 1 .. i - 1 : result["worker"][j] # "none"
    BY <1>7 DEF EndInv
  <2>2. CASE Sequential("central")
    <3>1. Ready("central", i)
      BY <1>3, <1>7 DEF OrderInv, OrderOf, Done
    <3>2. \A j \in 1 .. i - 1 : result["central"][j] # "raise"
      BY <1>1, <1>7
    <3>3. QED
      BY <1>5, <2>1, <2>2, <3>1, <3>2
  <2>3. CASE ~Sequential("central")
    <3>1. Seeds = {} /\ app.tests[i].needs \cap OddSecret = {}
      BY <2>3 DEF Sequential
    <3>2. QED
      BY <2>1, <3>1 DEF Ready
  <2>4. QED
    BY <2>2, <2>3
<1>8. ASSUME \A i \in Tests : result["central"][i] # "raise", fate["worker"] = "recorded"
      PROVE  result["worker"] = result["central"]
  <2>1. \A i \in Tests : Done("central", i) /\ Done("worker", i)
    BY <1>3, <1>4, <1>8 DEF EndInv
  <2>2. \A i \in Tests : result["worker"][i] = result["central"][i]
    BY <1>8, <2>1, SameVerdict
  <2>3. QED
    BY <2>2 DEF ExecTypeOK
<1>9. QED
  BY <1>6, <1>7, <1>8

-----------------------------------------------------------------------------
(* The run.                                                                *)

LEMMA ExecInitInv == ExecInit => ExecInv
<1> SUFFICES ASSUME ExecInit PROVE ExecInv
  OBVIOUS
<1>1. ExecTypeOK /\ AttemptsInv
  BY ExecInitAttempts
<1>2. \A e \in Executor : \A i \in Tests : tries[e][i] = 0 /\ result[e][i] = "none"
  BY DEF ExecInit
<1>3. \A e \in Executor : captures[e] = {} /\ fate[e] = "new"
  BY DEF ExecInit
<1>4. OrderInv
  BY <1>2, <1>3 DEF OrderInv, OrderOf, InOrder, Captured, Done
<1>5. EndInv
  BY <1>2, <1>3 DEF EndInv, Executor
<1>6. QED
  BY <1>1, <1>4, <1>5 DEF ExecInv

LEMMA ExecStep == ExecInv /\ [ExecNext]_execVars => ExecInv'
<1> SUFFICES ASSUME ExecInv, [ExecNext]_execVars PROVE ExecInv'
  OBVIOUS
<1> USE DEF ExecInv
<1>1. EndInv'
  BY EndStep
<1>2. ASSUME NEW e \in Executor, NEW i \in Tests, Attempt(e, i)
      PROVE  ExecTypeOK' /\ AttemptsInv' /\ OrderInv'
  BY <1>2, AttemptKeeps, AttemptOrder
<1>3. ASSUME NEW e \in Executor, NEW i \in Tests, Stumble(e, i)
      PROVE  ExecTypeOK' /\ AttemptsInv' /\ OrderInv'
  BY <1>3, StumbleKeeps, StumbleOrder
<1>4. ASSUME NEW e \in Executor, SetUp(e) \/ Report(e)
      PROVE  ExecTypeOK' /\ AttemptsInv' /\ OrderInv'
  <2>1. UNCHANGED <<tries, result, captures>>
    BY <1>4 DEF SetUp, Report
  <2>2. \A c \in Executor : OrderOf(c)'
    BY <2>1, OrderStays
  <2>3. QED
    BY <1>4, <2>2, RunKeeps DEF OrderInv
<1>5. ASSUME UNCHANGED execVars PROVE ExecTypeOK' /\ AttemptsInv' /\ OrderInv'
  <2>1. UNCHANGED <<app, world, fate, tries, result, captures>>
    BY <1>5 DEF execVars
  <2>2. ExecTypeOK'
    BY <2>1 DEF ExecTypeOK, Tests
  <2>3. AttemptsInv'
    BY <2>1 DEF AttemptsInv, AttemptsOf, Answer, Tests
  <2>4. \A c \in Executor : OrderOf(c)'
    BY <2>1, OrderStays
  <2>5. QED
    BY <2>2, <2>3, <2>4 DEF OrderInv
<1>6. ASSUME ExecNext PROVE ExecTypeOK' /\ AttemptsInv' /\ OrderInv'
  BY <1>2, <1>3, <1>4, <1>6 DEF ExecNext
<1>7. QED
  BY <1>1, <1>5, <1>6

LEMMA ExecInvHolds == ExecSpec => []ExecInv
BY ExecInitInv, ExecStep, PTL DEF ExecSpec

(* In every run of every app, on the central and on a worker, what is      *)
(* reported of a test is what its attempts have shown: none follows a pass *)
(* and no failure is reported while retry allows another.                  *)
THEOREM VerdictIsEarnedHolds == ExecSpec => []VerdictIsEarned
<1>1. ExecInv => VerdictIsEarned
  BY VerdictFollows DEF ExecInv
<1>2. QED
  BY <1>1, ExecInvHolds, PTL

(* No engine gets a test with an open reference to a capture, however many *)
(* tests capture the name and however they end.                            *)
THEOREM ReferencesResolveHolds == ExecSpec => []ReferencesResolve
<1>1. ExecInv => ReferencesResolve
  <2> SUFFICES ASSUME ExecInv, NEW e \in Executor, NEW i \in Tests, tries[e][i] > 0,
                      NEW x \in app.tests[i].needs \cap Seeds
               PROVE  \E j \in 1 .. i - 1 :
                         /\ result[e][j] # "none" /\ tries[e][j] > 0
                         /\ x \in Answer(e, j, tries[e][j]).got
    BY DEF ReferencesResolve
  <2>1. Ready(e, i)
    BY DEF ExecInv, OrderInv, OrderOf
  <2>2. Sequential(e)
    BY DEF Sequential
  <2>3. CapturedBefore(e, i, x)
    BY <2>1, <2>2 DEF Ready
  <2>4. QED
    BY <2>3 DEF CapturedBefore, Done, Last
<1>2. QED
  BY <1>1, ExecInvHolds, PTL

(* Whatever the app and the world's answers, in whatever order the two     *)
(* executors come to them, a worker reports what the central records, but  *)
(* for the three differences that WorkerAgrees names.                      *)
THEOREM WorkerAgreesHolds == ExecSpec => []WorkerAgrees
BY AgreementFollows, ExecInvHolds, PTL

=============================================================================
