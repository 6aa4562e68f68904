------------------------- MODULE AlertRoutingProofs -------------------------
(***************************************************************************)
(* Proofs about what decides about an alert: the runs that raise it        *)
(* (RunAlerts), the windows that silence it (MaintenanceWindows) and the   *)
(* groups that receive it (NotificationGroups), for any tests, runs,       *)
(* faults, windows, lengths of days and weeks, groups and members.         *)
(***************************************************************************)
EXTENDS RunAlerts, MaintenanceWindows, NotificationGroups, TLAPS

-----------------------------------------------------------------------------
(* Runs.                                                                   *)

(* A row that is absent has no coroutine, the run being recorded is at     *)
(* that stage, and an alert waits only for its run's results to be stored  *)
(* or for the channels.                                                    *)
StageInv ==
    /\ \A r \in Run : status[r] = "none" => stage[r] = "none"
    /\ busy # NoRun => stage[busy] = "recording"
    /\ \A r \in Run, t \in Test :
          alerts[r][t] # "none" =>
              stage[r] = "alerting" \/ (busy = r /\ t \notin todo)

(* At most one alert about a test is on its way and it says what app_state *)
(* says; with none on its way the last one handed out does.                *)
Told(t) ==
    /\ \A q, r \in Run : alerts[q][t] # "none" /\ alerts[r][t] # "none" => q = r
    /\ \A r \in Run : alerts[r][t] # "none" =>
          (alerts[r][t] = "FAIL" <=> state[t] = "failing")
    /\ ~InFlight(t) => (state[t] = "failing" <=> t \in paged)

AlertInv == \A t \in Test \ spoiled : Told(t)

-----------------------------------------------------------------------------
(* Types.                                                                  *)

LEMMA BeginType ==
    ASSUME TypeOK, NEW r \in Run, NEW b \in {"api", "schedule", "tls"}, Begin(r, b)
    PROVE  /\ status' \in [Run -> {"none", "pending", "queued", "running", "complete", "error"}]
           /\ by' \in [Run -> {"none", "api", "schedule", "tls", "worker"}]
           /\ stage' \in [Run -> {"none", "waiting", "executing", "recording", "alerting"}]
           /\ faults' \in 0 .. MaxFaults
<1>1. faults' \in 0 .. MaxFaults
  BY FaultAssumption DEF TypeOK, Begin
<1>2. \E c \in {b, "none"}, st \in {"running", "error"}, sg \in {"executing", "none"} :
        Set(r, c, st, sg)
  BY DEF Begin
<1>3. QED
  BY <1>1, <1>2 DEF TypeOK, Set

LEMMA LeaveType ==
    ASSUME TypeOK, NEW R, Leave(R)
    PROVE  /\ by' \in [Run -> {"none", "api", "schedule", "tls", "worker"}]
           /\ stage' \in [Run -> {"none", "waiting", "executing", "recording", "alerting"}]
BY DEF TypeOK, Leave

LEMMA TypeStep == TypeOK /\ [Next]_vars => TypeOK'
<1> SUFFICES ASSUME TypeOK, [Next]_vars PROVE TypeOK'
  OBVIOUS
<1> USE DEF runVars, alertVars, staleVars, Alert, NoAlerts
<1>1. ASSUME NEW r \in Run, TriggerApi(r) PROVE TypeOK'
  BY <1>1 DEF TypeOK, TriggerApi, Set
<1>2. ASSUME NEW r \in Run, StartApi(r) PROVE TypeOK'
  <2>1. CASE Begin(r, "api")
    BY <1>2, <2>1, BeginType DEF TypeOK, StartApi
  <2>2. CASE faults < MaxFaults /\ faults' = faults + 1 /\ Set(r, "none", "pending", "none")
    BY <1>2, <2>2, FaultAssumption DEF TypeOK, StartApi, Set
  <2>3. QED
    BY <1>2, <2>1, <2>2 DEF StartApi
<1>3. ASSUME NEW r \in Run, TriggerSchedule(r) PROVE TypeOK'
  BY <1>3, BeginType DEF TypeOK, TriggerSchedule
<1>4. ASSUME NEW r \in Run, TriggerTls(r) PROVE TypeOK'
  BY <1>4, BeginType DEF TypeOK, TriggerTls
<1>5. ASSUME NEW r \in Run, Queue(r) \/ JobGivenUp(r) \/ JobRequeued(r) PROVE TypeOK'
  BY <1>5 DEF TypeOK, Queue, Set, JobGivenUp, JobRequeued
<1>6. ASSUME NEW r \in Run, TestsDone(r) PROVE TypeOK'
  BY <1>6 DEF TypeOK, TestsDone
<1>7. ASSUME NEW r \in Run, NEW T \in SUBSET Test, ResultsArrive(r, T) PROVE TypeOK'
  BY <1>7 DEF TypeOK, ResultsArrive, Set
<1>8. ASSUME NEW r \in Run, RunRaises(r) PROVE TypeOK'
  BY <1>8, LeaveType, FaultAssumption DEF TypeOK, RunRaises, Raised
<1>9. ASSUME NEW r \in Run, NEW t \in Test, SendAlert(r, t) PROVE TypeOK'
  BY <1>9, LeaveType DEF TypeOK, SendAlert
<1>10. ASSUME NEW r \in Run, NEW t \in Test, NEW o \in Outcome, RecordTest(r, t, o)
       PROVE  TypeOK'
  <2>1. NewState(o) \in {"passing", "failing"} /\ DetermineAlert(state[t], o) \in Alert
    BY DEF NewState, DetermineAlert
  <2>2. QED
    BY <1>10, <2>1 DEF TypeOK, RecordTest
<1>11. ASSUME NEW r \in Run, NEW e \in BOOLEAN, EndRun(r, e) PROVE TypeOK'
  <2>1. /\ by' \in [Run -> {"none", "api", "schedule", "tls", "worker"}]
        /\ stage' \in [Run -> {"none", "waiting", "executing", "recording", "alerting"}]
    BY <1>11, LeaveType DEF TypeOK, EndRun
  <2>2. QED
    BY <1>11, <2>1 DEF TypeOK, EndRun, Raised
<1>12. CASE StaleFind \/ StaleSend \/ RunGrowsStale \/ RealertDue \/ WindowToggles
  BY <1>12 DEF TypeOK, StaleFind, StaleSend, RunGrowsStale, RealertDue, WindowToggles
<1>13. CASE Prune
  BY <1>13 DEF TypeOK, Prune
<1>14. CASE Crash
  <2>1. spoiled' \subseteq Test
    BY <1>14 DEF TypeOK, Crash, Raised
  <2>2. faults' \in 0 .. MaxFaults
    BY <1>14, FaultAssumption DEF TypeOK, Crash
  <2>3. QED
    BY <1>14, <2>1, <2>2, LeaveType DEF TypeOK, Crash
<1>15. ASSUME NEW t \in Test, ApproveBaseline(t) PROVE TypeOK'
  BY <1>15 DEF TypeOK, ApproveBaseline
<1>16. CASE UNCHANGED vars
  BY <1>16 DEF TypeOK, vars
<1>17. QED
  BY <1>1, <1>2, <1>3, <1>4, <1>5, <1>6, <1>7, <1>8, <1>9, <1>10, <1>11, <1>12,
     <1>13, <1>14, <1>15, <1>16 DEF Next, Record

(* Rows, coroutines, alerts and the stale check's marks are well typed in  *)
(* every reachable state: each state, status and counter the handlers of   *)
(* harness/runner.py write stays in its domain.                            *)
THEOREM AlertsTypeCorrect == Spec => []TypeOK
<1>1. Init => TypeOK
  <2> SUFFICES ASSUME Init PROVE TypeOK
    OBVIOUS
  <2>1. alerts \in [Run -> [Test -> Alert]]
    BY DEF Init, NoAlerts, Alert
  <2>2. 0 \in 0 .. MaxFaults
    BY FaultAssumption
  <2>3. QED
    BY <2>1, <2>2 DEF Init, TypeOK
<1>2. QED
  BY <1>1, TypeStep, PTL DEF Spec

-----------------------------------------------------------------------------
(* Stages.                                                                 *)

LEMMA BeginStage ==
    ASSUME TypeOK, NEW r \in Run, NEW b, Begin(r, b)
    PROVE  /\ \A q \in Run \ {r} : status'[q] = status[q] /\ stage'[q] = stage[q]
           /\ status'[r] # "none" /\ stage'[r] \in {"executing", "none"}
BY DEF TypeOK, Begin, Set

LEMMA StageStep == TypeOK /\ StageInv /\ [Next]_vars => StageInv'
<1> SUFFICES ASSUME TypeOK, StageInv, [Next]_vars PROVE StageInv'
  OBVIOUS
<1> USE NoRunAssumption DEF runVars, alertVars, staleVars, NoAlerts, LoopIdle
<1>1. ASSUME NEW r \in Run, TriggerApi(r) \/ Queue(r) PROVE StageInv'
  BY <1>1 DEF TypeOK, StageInv, TriggerApi, Queue, Set
<1>2. ASSUME NEW r \in Run, StartApi(r) PROVE StageInv'
  <2>1. CASE Begin(r, "api")
    BY <1>2, <2>1, BeginStage DEF TypeOK, StageInv, StartApi
  <2>2. CASE Set(r, "none", "pending", "none")
    BY <1>2, <2>2 DEF TypeOK, StageInv, StartApi, Set
  <2>3. QED
    BY <1>2, <2>1, <2>2 DEF StartApi
<1>3. ASSUME NEW r \in Run, TriggerSchedule(r) PROVE StageInv'
  BY <1>3, BeginStage DEF TypeOK, StageInv, TriggerSchedule
<1>4. ASSUME NEW r \in Run, TriggerTls(r) PROVE StageInv'
  BY <1>4, BeginStage DEF TypeOK, StageInv, TriggerTls
<1>5. ASSUME NEW r \in Run, JobGivenUp(r) \/ JobRequeued(r) PROVE StageInv'
  BY <1>5 DEF TypeOK, StageInv, JobGivenUp, JobRequeued
<1>6. ASSUME NEW r \in Run, TestsDone(r) PROVE StageInv'
  BY <1>6 DEF TypeOK, StageInv, TestsDone
<1>7. ASSUME NEW r \in Run, NEW T \in SUBSET Test, ResultsArrive(r, T) PROVE StageInv'
  BY <1>7 DEF TypeOK, StageInv, ResultsArrive, Set
<1>8. ASSUME NEW r \in Run, RunRaises(r) PROVE StageInv'
  BY <1>8 DEF TypeOK, StageInv, RunRaises, Leave
<1>9. ASSUME NEW r \in Run, NEW t \in Test, SendAlert(r, t) PROVE StageInv'
  BY <1>9 DEF TypeOK, StageInv, SendAlert, Leave, Raised
<1>10. ASSUME NEW r \in Run, NEW t \in Test, NEW o \in Outcome, RecordTest(r, t, o)
       PROVE  StageInv'
  BY <1>10 DEF TypeOK, StageInv, RecordTest
<1>11. ASSUME NEW r \in Run, NEW e \in BOOLEAN, EndRun(r, e) PROVE StageInv'
  BY <1>11 DEF TypeOK, StageInv, EndRun, Leave, Raised
<1>12. CASE StaleFind \/ StaleSend \/ RunGrowsStale \/ RealertDue \/ WindowToggles
  BY <1>12 DEF StageInv, StaleFind, StaleSend, RunGrowsStale, RealertDue, WindowToggles
<1>13. CASE Prune
  BY <1>13 DEF TypeOK, StageInv, Prune
<1>14. CASE Crash
  BY <1>14 DEF TypeOK, StageInv, Crash, Leave
<1>15. ASSUME NEW t \in Test, ApproveBaseline(t) PROVE StageInv'
  BY <1>15 DEF StageInv, ApproveBaseline
<1>16. CASE UNCHANGED vars
  BY <1>16 DEF StageInv, vars
<1>17. QED
  BY <1>1, <1>2, <1>3, <1>4, <1>5, <1>6, <1>7, <1>8, <1>9, <1>10, <1>11, <1>12,
     <1>13, <1>14, <1>15, <1>16 DEF Next, Record

-----------------------------------------------------------------------------
(* Alerts.                                                                 *)

LEMMA Untold ==
    ASSUME AlertInv, UNCHANGED alertVars
    PROVE  AlertInv'
BY DEF AlertInv, Told, InFlight, alertVars

(* A run's alerts are dropped: what they told of is spoiled.               *)
LEMMA Dropped ==
    ASSUME TypeOK, AlertInv, NEW R \in SUBSET Run,
           alerts' = [r \in Run |-> IF r \in R THEN NoAlerts ELSE alerts[r]],
           spoiled' = spoiled \cup UNION {Raised(r) : r \in R},
           state' = state, paged' = paged
    PROVE  AlertInv'
<1> SUFFICES ASSUME NEW t \in Test \ spoiled' PROVE Told(t)'
  BY DEF AlertInv
<1>1. t \notin spoiled /\ Told(t)
  BY DEF AlertInv
<1>2. \A r \in Run : alerts'[r][t] = alerts[r][t]
  BY DEF TypeOK, Raised, NoAlerts
<1>3. QED
  BY <1>1, <1>2 DEF Told, InFlight

(* A recorded result: the alert it raises, if any, is the only one on its  *)
(* way, and without one the test fails as before.                          *)
LEMMA RecordStep ==
    ASSUME TypeOK, StageInv, AlertInv,
           NEW r \in Run, NEW t \in Test, NEW o \in Outcome, RecordTest(r, t, o)
    PROVE  AlertInv'
<1> DEFINE a == DetermineAlert(state[t], o)
<1>1. ASSUME NEW u \in Test \ spoiled', u # t PROVE Told(u)'
  <2>1. u \notin spoiled /\ state'[u] = state[u] /\ paged' = paged
    BY <1>1 DEF RecordTest, TypeOK
  <2>2. \A q \in Run : alerts'[q][u] = alerts[q][u]
    BY <1>1 DEF RecordTest, TypeOK
  <2>3. QED
    BY <1>1, <2>1, <2>2 DEF AlertInv, Told, InFlight
<1>2. ASSUME t \notin spoiled' PROVE Told(t)'
  <2>1. /\ t \notin spoiled /\ ~(o = "raise" /\ state[t] # "failing")
        /\ ~(a # "none" /\ InFlight(t))
    BY <1>2 DEF RecordTest
  <2>2. /\ paged' = paged /\ state'[t] = NewState(o) /\ alerts'[r][t] = a
        /\ \A q \in Run \ {r} : alerts'[q][t] = alerts[q][t]
    BY DEF RecordTest, TypeOK
  <2>3. alerts[r][t] = "none"
    BY NoRunAssumption DEF RecordTest, StageInv
  <2>4. Told(t)
    BY <2>1 DEF AlertInv
  <2>5. CASE a # "none"
    <3>1. \A q \in Run : alerts[q][t] = "none"
      BY <2>1, <2>5 DEF InFlight
    <3>2. a = "FAIL" <=> NewState(o) = "failing"
      BY <2>5 DEF DetermineAlert, NewState, Outcome
    <3>3. QED
      BY <2>2, <2>5, <3>1, <3>2 DEF Told, InFlight
  <2>6. CASE a = "none"
    <3>1. NewState(o) = "failing" <=> state[t] = "failing"
      BY <2>1, <2>6 DEF DetermineAlert, NewState, Outcome
    <3>2. \A q \in Run : alerts'[q][t] = alerts[q][t]
      BY <2>2, <2>3, <2>6
    <3>3. QED
      BY <2>2, <2>4, <3>1, <3>2 DEF Told, InFlight
  <2>7. QED
    BY <2>5, <2>6
<1>3. QED
  BY <1>1, <1>2 DEF AlertInv

(* An alert goes out: it was the only one or the test stays spoiled.       *)
LEMMA SendStep ==
    ASSUME TypeOK, AlertInv, NEW r \in Run, NEW t \in Test, SendAlert(r, t)
    PROVE  AlertInv'
<1>1. ASSUME NEW u \in Test \ spoiled', u # t PROVE Told(u)'
  <2>1. u \notin spoiled /\ state' = state /\ (u \in paged' <=> u \in paged)
    BY <1>1 DEF SendAlert
  <2>2. \A q \in Run : alerts'[q][u] = alerts[q][u]
    BY <1>1 DEF SendAlert, TypeOK
  <2>3. QED
    BY <1>1, <2>1, <2>2 DEF AlertInv, Told, InFlight
<1>2. ASSUME t \notin spoiled' PROVE Told(t)'
  <2>1. /\ \A q \in Run \ {r} : alerts[q][t] = "none"
        /\ alerts[r][t] = "FAIL" <=> state[t] = "failing"
    <3>1. CASE t \in spoiled
      BY <1>2, <3>1 DEF SendAlert
    <3>2. CASE t \notin spoiled
      BY <3>2 DEF AlertInv, Told, SendAlert
    <3>3. QED
      BY <3>1, <3>2
  <2>2. \A q \in Run : alerts'[q][t] = "none"
    BY <2>1 DEF SendAlert, TypeOK
  <2>3. state'[t] = "failing" <=> t \in paged'
    BY <2>1 DEF SendAlert
  <2>4. QED
    BY <2>2, <2>3 DEF Told, InFlight
<1>3. QED
  BY <1>1, <1>2 DEF AlertInv

LEMMA AlertStep == TypeOK /\ StageInv /\ AlertInv /\ [Next]_vars => AlertInv'
<1> SUFFICES ASSUME TypeOK, StageInv, AlertInv, [Next]_vars PROVE AlertInv'
  OBVIOUS
<1>1. ASSUME NEW r \in Run,
             \/ TriggerApi(r) \/ StartApi(r) \/ TriggerSchedule(r) \/ TriggerTls(r)
             \/ Queue(r) \/ JobGivenUp(r) \/ JobRequeued(r) \/ TestsDone(r)
             \/ \E T \in SUBSET Test : ResultsArrive(r, T)
      PROVE  AlertInv'
  <2>1. UNCHANGED alertVars
    BY <1>1 DEF TriggerApi, StartApi, TriggerSchedule, TriggerTls, Queue, JobGivenUp,
                JobRequeued, TestsDone, ResultsArrive
  <2>2. QED
    BY <2>1, Untold
<1>2. ASSUME NEW r \in Run, RunRaises(r) PROVE AlertInv'
  <2>1. alerts' = [q \in Run |-> IF q \in {r} THEN NoAlerts ELSE alerts[q]]
    BY <1>2 DEF RunRaises, TypeOK
  <2>2. spoiled' = spoiled \cup UNION {Raised(q) : q \in {r}}
    BY <1>2 DEF RunRaises
  <2>3. QED
    BY <1>2, <2>1, <2>2, Dropped DEF RunRaises
<1>3. ASSUME NEW r \in Run, NEW t \in Test, SendAlert(r, t) PROVE AlertInv'
  BY <1>3, SendStep
<1>4. ASSUME NEW r \in Run, NEW t \in Test, NEW o \in Outcome, RecordTest(r, t, o)
      PROVE  AlertInv'
  BY <1>4, RecordStep
<1>5. ASSUME NEW r \in Run, NEW e \in BOOLEAN, EndRun(r, e) PROVE AlertInv'
  <2>1. CASE window
    <3>1. alerts' = [q \in Run |-> IF q \in {r} THEN NoAlerts ELSE alerts[q]]
      BY <1>5, <2>1 DEF EndRun, TypeOK
    <3>2. spoiled' = spoiled \cup UNION {Raised(q) : q \in {r}}
      BY <1>5, <2>1 DEF EndRun
    <3>3. QED
      BY <1>5, <3>1, <3>2, Dropped DEF EndRun
  <2>2. CASE ~window
    BY <1>5, <2>2, Untold DEF EndRun, alertVars
  <2>3. QED
    BY <2>1, <2>2
<1>6. CASE StaleFind \/ StaleSend \/ RunGrowsStale \/ RealertDue \/ WindowToggles \/ Prune
  BY <1>6, Untold DEF StaleFind, StaleSend, RunGrowsStale, RealertDue, WindowToggles, Prune
<1>7. CASE Crash
  <2>1. alerts' = [q \in Run |-> IF q \in Run THEN NoAlerts ELSE alerts[q]]
    BY <1>7 DEF Crash
  <2>2. QED
    BY <1>7, <2>1, Dropped DEF Crash
<1>8. ASSUME NEW t \in Test, ApproveBaseline(t) PROVE AlertInv'
  <2>1. ASSUME NEW u \in Test \ spoiled' PROVE Told(u)'
    <3>1. /\ u \notin spoiled /\ Told(u)
          /\ alerts' = alerts /\ paged' = paged
      BY <1>8 DEF ApproveBaseline, AlertInv
    <3>2. state'[u] = "failing" <=> state[u] = "failing"
      BY <1>8, <2>1 DEF ApproveBaseline, TypeOK
    <3>3. QED
      BY <3>1, <3>2 DEF Told, InFlight
  <2>2. QED
    BY <2>1 DEF AlertInv
<1>9. CASE UNCHANGED vars
  BY <1>9, Untold DEF vars
<1>10. QED
  BY <1>1, <1>2, <1>3, <1>4, <1>5, <1>6, <1>7, <1>8, <1>9 DEF Next, Record

(* However triggers, workers and windows interleave, what the channels     *)
(* last said of a test whose transitions were all told of is what          *)
(* app_state says: run_app and ingest_runner_results decide and store      *)
(* together, and send in the end.                                          *)
THEOREM PagerTellsStateHolds == Spec => []PagerTellsState
<1>1. Init => StageInv /\ AlertInv
  BY NoRunAssumption DEF Init, StageInv, AlertInv, Told, InFlight, NoAlerts
<1>2. AlertInv => PagerTellsState
  BY DEF AlertInv, Told, PagerTellsState
<1>3. QED
  BY <1>1, <1>2, AlertsTypeCorrect, StageStep, AlertStep, PTL DEF Spec

-----------------------------------------------------------------------------
(* Maintenance windows.                                                    *)

WindowsTypeOK == windows \in [Window -> Row \cup {NoWindow}]

LEMMA WindowsInitInv == WindowsInit => WindowsTypeOK
BY DEF WindowsInit, WindowsTypeOK

(* Each request leaves rows with fields that a row may have.               *)
LEMMA WindowsStep == WindowsTypeOK /\ [WindowsNext]_windows => WindowsTypeOK'
<1> SUFFICES ASSUME WindowsTypeOK, [WindowsNext]_windows PROVE WindowsTypeOK'
  OBVIOUS
<1>1. ASSUME NEW x \in Window, NEW w \in Row \cup {NoWindow}, Change(x, w) PROVE WindowsTypeOK'
  BY <1>1 DEF WindowsTypeOK, Change
<1>2. ASSUME NEW x \in Window, UpdateWindow(x) PROVE WindowsTypeOK'
  <2>1. windows[x] \in Row
    BY <1>2 DEF WindowsTypeOK, UpdateWindow
  <2>2. PICK w \in Row : Change(x, w)
    BY <1>2, <2>1 DEF UpdateWindow, Row
  <2>3. QED
    BY <1>1, <2>2
<1>3. ASSUME NEW x \in Window, ToggleWindow(x) PROVE WindowsTypeOK'
  <2>1. windows[x] \in Row
    BY <1>3 DEF WindowsTypeOK, ToggleWindow
  <2>2. PICK w \in Row : Change(x, w)
    BY <1>3, <2>1 DEF ToggleWindow, Row
  <2>3. QED
    BY <1>1, <2>2
<1>4. ASSUME NEW x \in Window, NEW w \in Row, CreateWindow(x, w) PROVE WindowsTypeOK'
  BY <1>4 DEF WindowsTypeOK, CreateWindow
<1>5. ASSUME NEW x \in Window, DeleteWindow(x) PROVE WindowsTypeOK'
  BY <1>5 DEF WindowsTypeOK, DeleteWindow
<1>6. CASE UNCHANGED windows
  BY <1>6 DEF WindowsTypeOK
<1>7. QED
  BY <1>2, <1>3, <1>4, <1>5, <1>6 DEF WindowsNext

(* The day of an instant has begun by then, and one that is two days later *)
(* begins two day lengths later at least.                                  *)
LEMMA DayHasBegun ==
    ASSUME NEW D \in Nat \ {0}, NEW n \in Nat
    PROVE  n \div D \in Nat /\ (n \div D) * D <= n
OBVIOUS

LEMMA TwoDaysLater ==
    ASSUME NEW D \in Nat \ {0}, NEW d \in Int, NEW q \in Int, d + 2 <= q
    PROVE  d * D \in Int /\ q * D \in Int /\ d * D + 2 * D <= q * D
OBVIOUS

(* An occurrence is over by the end of the day after the one it began on,  *)
(* so that today's and yesterday's are all that can be open.               *)
LEMMA OccurrenceIsOver ==
    ASSUME NEW w \in Row, NEW now \in Nat, NEW back \in Nat,
           w.type = "weekly", ~TooLong(w), WeeklyOn(w, now \div DayLength - back, now)
    PROVE  back \in Occurrence
<1> DEFINE day == now \div DayLength - back
           begun == day * DayLength
<1>1. DayLength \in Nat \ {0} /\ ClockTime \subseteq 0 .. DayLength - 1 /\ Duration \subseteq Nat
  BY WindowAssumption
<1>2. now \div DayLength \in Nat /\ (now \div DayLength) * DayLength <= now
  BY <1>1, DayHasBegun
<1>3. day \in Int /\ begun \in Int
  BY <1>1, <1>2
<1>4. w.start \in [clock : ClockTime] /\ begun + w.start.clock <= now /\ now < WeeklyEnd(w, day)
  BY DEF WeeklyOn, IsClock
<1>5. w.start.clock \in 0 .. DayLength - 1 /\ w.duration \in Nat
  BY <1>1, <1>4 DEF Row
<1>6. now < begun + 2 * DayLength
  <2>1. CASE w.duration > 0
    <3>1. WeeklyEnd(w, day) = begun + w.start.clock + w.duration
      BY <2>1 DEF WeeklyEnd
    <3>2. w.start.clock + w.duration <= 2 * DayLength
      BY <1>1, <1>4, <1>5 DEF TooLong, IsClock
    <3>3. QED
      BY <1>1, <1>3, <1>4, <1>5, <3>1, <3>2
  <2>2. CASE w.duration = 0 /\ IsClock(w.end)
    <3>1. w.end.clock \in 0 .. DayLength - 1
      BY <1>1, <2>2 DEF IsClock
    <3>2. WeeklyEnd(w, day) =
            begun + w.end.clock + (IF w.end.clock <= w.start.clock THEN DayLength ELSE 0)
      BY <2>2 DEF WeeklyEnd
    <3>3. QED
      BY <1>1, <1>3, <1>4, <3>1, <3>2
  <2>3. CASE w.duration = 0 /\ ~IsClock(w.end)
    <3>1. WeeklyEnd(w, day) = begun + w.start.clock
      BY <2>3 DEF WeeklyEnd
    <3>2. QED
      BY <1>3, <1>4, <1>5, <3>1
  <2>4. QED
    BY <1>5, <2>1, <2>2, <2>3
<1>7. ASSUME back >= 2 PROVE FALSE
  <2>1. begun + 2 * DayLength <= (now \div DayLength) * DayLength
    BY <1>1, <1>2, <1>3, <1>7, TwoDaysLater
  <2>2. QED
    BY <1>1, <1>2, <1>3, <1>6, <2>1
<1>8. QED
  BY <1>7 DEF Occurrence

LEMMA WindowKeepsTime ==
    ASSUME NEW w \in Row, NEW now \in Nat
    PROVE  /\ Said(w, now) /\ ~TooLong(w) => Open(w, now)
           /\ Open(w, now) /\ ~Leftover(w) => Said(w, now)
<1>1. w.type \in {"range", "cron", "weekly"} /\ w.duration \in Nat
  BY WindowAssumption DEF Row
<1>2. ASSUME Said(w, now), ~TooLong(w) PROVE Open(w, now)
  <2>1. CASE w.type = "weekly"
    <3>1. now \div DayLength \in Nat /\ WeekLength \in Nat
      BY WindowAssumption, DayHasBegun
    <3>2. PICK back \in 0 .. now \div DayLength + WeekLength :
            WeeklyOn(w, now \div DayLength - back, now)
      BY <1>2, <2>1 DEF Said
    <3>3. back \in Nat
      BY <3>1
    <3>4. QED
      BY <1>2, <2>1, <3>2, <3>3, OccurrenceIsOver DEF Open, Weekly
  <2>2. CASE w.type # "weekly"
    BY <1>1, <1>2, <2>2 DEF Said, Open
  <2>3. QED
    BY <2>1, <2>2
<1>3. ASSUME Open(w, now), ~Leftover(w) PROVE Said(w, now)
  <2>1. CASE Weekly(w, now)
    <3>1. PICK back \in Occurrence : WeeklyOn(w, now \div DayLength - back, now)
      BY <2>1 DEF Weekly
    <3>2. w.type = "weekly"
      BY <1>3, <3>1 DEF Leftover, WeeklyOn
    <3>3. back \in 0 .. now \div DayLength + WeekLength
      BY WindowAssumption, DayHasBegun DEF Occurrence
    <3>4. QED
      BY <3>1, <3>2, <3>3 DEF Said
  <2>2. CASE Ranged(w, now)
    BY <1>3, <2>2 DEF Leftover, Ranged, Said
  <2>3. CASE Cron(w, now)
    <3>1. w.cron # NoText /\ w.duration > 0
      BY <1>1, <2>3 DEF Cron
    <3>2. QED
      BY <1>3, <2>3, <3>1 DEF Leftover, Said
  <2>4. QED
    BY <1>3, <2>1, <2>2, <2>3 DEF Open
<1>4. QED
  BY <1>2, <1>3

(* After any creations, updates and switches, a window is open when its    *)
(* type and the fields of its type say, whatever the lengths of days,      *)
(* weeks and occurrences: looking at two occurrences is enough.            *)
THEOREM WindowsKeepTimeHolds == WindowsSpec => []WindowsKeepTime
<1>1. WindowsTypeOK => WindowsKeepTime
  <2> SUFFICES ASSUME WindowsTypeOK, NEW w \in Rows, NEW now \in Time
               PROVE  /\ Said(w, now) /\ ~TooLong(w) => Open(w, now)
                      /\ Open(w, now) /\ ~Leftover(w) => Said(w, now)
    BY DEF WindowsKeepTime
  <2>1. w \in Row /\ now \in Nat
    BY WindowAssumption DEF WindowsTypeOK, Rows
  <2>2. QED
    BY <2>1, WindowKeepsTime
<1>2. QED
  BY <1>1, WindowsInitInv, WindowsStep, PTL DEF WindowsSpec

(* No edit of windows lets one silence another app or environment.         *)
THEOREM WindowsKeepToTheirTargetHolds == WindowsSpec => []WindowsKeepToTheirTarget
<1>1. WindowsKeepToTheirTarget
  BY DEF WindowsKeepToTheirTarget, InMaintenance, Covers
<1>2. QED
  BY <1>1, PTL

-----------------------------------------------------------------------------
(* Notification groups.                                                    *)

(* Whatever is a row has a name and somebody in it.                        *)
GroupsInv ==
    /\ DOMAIN groups = Group
    /\ \A g \in Groups : groups[g].name \in GroupName /\ groups[g].members # {}

LEMMA GroupsInitInv == GroupsInit => GroupsInv
BY DEF GroupsInit, GroupsInv, Groups

LEMMA GroupsStep == GroupsInv /\ [GroupsNext]_groups => GroupsInv'
<1> SUFFICES ASSUME GroupsInv, [GroupsNext]_groups PROVE GroupsInv'
  OBVIOUS
<1> USE DEF GroupsInv, Groups
<1>1. ASSUME NEW g \in Group, NEW n \in GroupName, NEW m \in SUBSET Member,
             CreateGroup(g, n, m) \/ UpdateGroup(g, n, m)
      PROVE  GroupsInv'
  BY <1>1 DEF CreateGroup, UpdateGroup
<1>2. ASSUME NEW g \in Group, DeleteGroup(g) PROVE GroupsInv'
  BY <1>2 DEF DeleteGroup
<1>3. CASE UNCHANGED groups
  BY <1>3
<1> HIDE DEF GroupsInv
<1>4. QED
  BY <1>1, <1>2, <1>3 DEF GroupsNext

(* The rows that one entry of an app's list or another finds are those     *)
(* that the list names, in any spelling.                                   *)
LEMMA FoundAreListed ==
    ASSUME NEW listed
    PROVE  Listed(listed) = UNION {Matches(i) : i \in listed}
BY DEF Listed, Matches

(* The entry that names a group whose spelling no other group shares finds *)
(* that group and no other.                                                *)
LEMMA AloneIsFound ==
    ASSUME GroupsInv, NEW listed \in SUBSET (Group \cup GroupName), NEW g \in Listed(listed),
           ToldApart(g)
    PROVE  \E i \in listed : Matches(i) = {g}
<1>1. g \in Groups /\ g \notin GroupName /\ \A h \in Groups : h \in Group
  BY GroupAssumption DEF Listed, Groups
<1>2. CASE g \in listed
  <2>1. Matches(g) = {g}
    BY <1>1 DEF Matches
  <2>2. QED
    BY <1>2, <2>1
<1>3. CASE g \notin listed
  <2>1. PICK n \in listed \cap GroupName : SameGroup[n] = SameGroup[groups[g].name]
    BY <1>3 DEF Listed
  <2>2. n \notin Groups
    BY <1>1, <2>1, GroupAssumption DEF Groups
  <2>3. Matches(n) = {g}
    BY <1>1, <2>1, <2>2 DEF Matches, ToldApart
  <2>4. QED
    BY <2>1, <2>3
<1>4. QED
  BY <1>2, <1>3

LEMMA MailReachesGroups ==
    ASSUME GroupsInv, NEW listed \in SUBSET (Group \cup GroupName),
           NEW to \in Configured, NEW r \in Recipients(listed, to)
    PROVE  /\ Listed(listed) # {} => r # {}
           /\ \A g \in Listed(listed) : ToldApart(g) => groups[g].members \subseteq r
           /\ IF Listed(listed) = {} THEN r = to
              ELSE \A a \in r : \E g \in Listed(listed) : a \in groups[g].members
<1>1. PICK s \in Resolved(listed) : r = IF s = {} THEN to ELSE s
  BY DEF Recipients
<1>2. PICK pick \in [{i \in listed : Matches(i) # {}} -> Groups] :
        /\ \A i \in DOMAIN pick : pick[i] \in Matches(i)
        /\ s = UNION {groups[pick[i]].members : i \in DOMAIN pick}
  BY DEF Resolved
<1>3. \A i \in DOMAIN pick : pick[i] \in Listed(listed) /\ groups[pick[i]].members \subseteq s
  BY <1>2, FoundAreListed
<1>4. Listed(listed) \subseteq Groups
  BY DEF Listed
<1>5. CASE Listed(listed) = {}
  <2>1. DOMAIN pick = {}
    BY <1>3, <1>5
  <2>2. s = {}
    BY <1>2, <2>1
  <2>3. QED
    BY <1>1, <1>5, <2>2
<1>6. CASE Listed(listed) # {}
  <2>1. PICK i \in listed : Matches(i) # {}
    BY <1>6, FoundAreListed
  <2>2. s # {}
    BY <1>2, <1>3, <1>4, <2>1 DEF GroupsInv
  <2>3. r = s
    BY <1>1, <2>2
  <2>4. \A a \in r : \E g \in Listed(listed) : a \in groups[g].members
    BY <1>2, <1>3, <2>3
  <2>5. ASSUME NEW g \in Listed(listed), ToldApart(g)
        PROVE  groups[g].members \subseteq r
    <3>1. PICK j \in listed : Matches(j) = {g}
      BY <2>5, AloneIsFound
    <3>2. j \in DOMAIN pick /\ pick[j] = g
      BY <1>2, <3>1
    <3>3. QED
      BY <1>3, <2>3, <3>2
  <2>6. QED
    BY <1>6, <2>2, <2>3, <2>4, <2>5
<1>7. QED
  BY <1>5, <1>6

(* Whatever groups were renamed, emptied or deleted, and whichever row the *)
(* database returns first, the alerts of an app reach the whole of each of *)
(* its groups that is told apart and nobody else, somebody if one is left, *)
(* and whom the configuration names, which may be nobody, if none is.      *)
THEOREM AlertsReachTheirGroupsHolds == GroupsSpec => []AlertsReachTheirGroups
<1>1. GroupsInv => AlertsReachTheirGroups
  BY MailReachesGroups DEF AlertsReachTheirGroups
<1>2. QED
  BY <1>1, GroupsInitInv, GroupsStep, PTL DEF GroupsSpec

=============================================================================
