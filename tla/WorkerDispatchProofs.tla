------------------------ MODULE WorkerDispatchProofs ------------------------
(***************************************************************************)
(* Proofs about WorkerDispatch, for any sets of runners, keys, tags and    *)
(* jobs and any bounds.                                                    *)
(***************************************************************************)
EXTENDS WorkerDispatch, TLAPS

-----------------------------------------------------------------------------
(* Type correctness.                                                       *)

(* Every request that changes a registry row keeps the registry's types.   *)
LEMMA RegistryTypes ==
    ASSUME RegTypeOK,
           \/ RegistryRequest
           \/ \E k \in Key : KeyDies(k)
           \/ \E r \in Runner : RemoveRow(r)
           \/ UNCHANGED regVars
    PROVE  RegTypeOK'
<1> USE KeyAssumption, VersionAssumption, HealthAssumption, DeleteAssumption
    DEF RegTypeOK
<1>1. ASSUME NEW r \in Runner, NEW k \in Key, NEW v \in Version,
             NEW ts \in SUBSET Tag, Register(r, k, v, ts)
      PROVE  RegTypeOK'
  BY <1>1 DEF Register
<1>2. ASSUME NEW r \in Runner, NEW k \in Key, NEW h \in Health, Heartbeat(r, k, h)
      PROVE  RegTypeOK'
  BY <1>2 DEF Heartbeat
<1>3. ASSUME NEW r \in Runner, Drain(r) \/ Resume(r)
      PROVE  RegTypeOK'
  BY <1>3 DEF Drain, Resume
<1>4. ASSUME NEW k \in Key, KeyDies(k)
      PROVE  RegTypeOK'
  BY <1>4 DEF KeyDies
<1>5. ASSUME NEW r \in Runner, RemoveRow(r)
      PROVE  RegTypeOK'
  <2>1. deletes' \in 0 .. MaxDeletes
    BY <1>5 DEF RemoveRow
  <2>2. QED
    BY <1>5, <2>1 DEF RemoveRow
<1>6. CASE UNCHANGED regVars
  BY <1>6 DEF regVars
<1>7. QED
  BY <1>1, <1>2, <1>3, <1>4, <1>5, <1>6 DEF RegistryRequest

(* What setting a run's status may do to the two columns.                  *)
LEMMA SetRunTypes ==
    ASSUME TypeOK, NEW j \in Job, NEW s \in RunStatus, NEW f \in BOOLEAN,
           SetRun(j, s, f)
    PROVE  run' \in [Job -> RunStatus] /\ finished' \in [Job -> BOOLEAN]
BY DEF SetRun, TypeOK

LEMMA InitTypes == Init => TypeOK
<1> SUFFICES ASSUME Init PROVE TypeOK
  OBVIOUS
<1>1. RegTypeOK
  BY KeyAssumption, VersionAssumption, DeleteAssumption
  DEF Init, RegInit, RegTypeOK
<1>2. revived \in [Job -> 0 .. MaxRevivals] /\ crashes \in 0 .. MaxCrashes
  BY BoundAssumption DEF Init
<1>3. state \in [Job -> JobState] /\ run \in [Job -> RunStatus] /\ pc \in Step
  BY DEF Init, JobState, RunStatus, Step
<1>4. QED
  BY <1>1, <1>2, <1>3 DEF Init, TypeOK

LEMMA NextTypes == TypeOK /\ [Next]_vars => TypeOK'
<1> SUFFICES ASSUME TypeOK, [Next]_vars PROVE TypeOK'
  OBVIOUS
<1>0. UNCHANGED regVars => RegTypeOK'
  BY RegistryTypes DEF TypeOK
<1> USE DEF jobVars, runVars, resultVars, handlerVars, countVars, reaperVars, Goto, Return,
            JobState, Settled, RunStatus, Step
<1>1. ASSUME NEW j \in Job, DispatchInsert(j) PROVE TypeOK'
  BY <1>0, <1>1 DEF DispatchInsert, TypeOK
<1>2. CASE DispatchMark
  <2>1. cur \in Job /\ finished[cur] \in BOOLEAN
    BY <1>2 DEF DispatchMark, TypeOK
  <2>2. run' \in [Job -> RunStatus] /\ finished' \in [Job -> BOOLEAN]
    BY <1>2, <2>1, SetRunTypes DEF DispatchMark
  <2>3. QED
    BY <1>0, <1>2, <2>1, <2>2 DEF DispatchMark, TypeOK
<1>3. CASE DispatchEnqueue
  <2>1. cur \in Job
    BY <1>3 DEF DispatchEnqueue, TypeOK
  <2>2. clock' \in Nat /\ queuedAt' \in [Job -> Nat]
    BY <1>3, <2>1 DEF DispatchEnqueue, TypeOK
  <2>3. state' \in [Job -> JobState]
    BY <1>3, <2>1 DEF DispatchEnqueue, TypeOK
  <2>4. QED
    BY <1>0, <1>3, <2>2, <2>3 DEF DispatchEnqueue, TypeOK
<1>4. ASSUME NEW r \in Runner, NEW ts, Claim(r, ts), UNCHANGED regVars,
             UNCHANGED <<target, retries, queuedAt, clock, runVars,
                         handlerVars, countVars, reaperVars>>,
             polls' \subseteq polls
      PROVE  TypeOK'
  BY <1>0, <1>4 DEF Claim, TypeOK
<1>5. ASSUME NEW r \in Runner, NEW k \in Key, Poll(r, k) PROVE TypeOK'
  BY <1>4, <1>5 DEF Poll
<1>6. ASSUME NEW r \in Runner, NEW k \in Key, LongPollWait(r, k) PROVE TypeOK'
  <2>1. [runner |-> r, key |-> k, tags |-> tags[r]] \in LongPoll
    BY DEF LongPoll, TypeOK, RegTypeOK
  <2>2. QED
    BY <1>0, <1>6, <2>1 DEF LongPollWait, TypeOK
<1>7. ASSUME NEW p \in polls, LongPollWake(p) PROVE TypeOK'
  <2>1. p.runner \in Runner
    BY DEF TypeOK, LongPoll
  <2>2. QED
    BY <1>4, <1>7, <2>1 DEF LongPollWake
<1>8. ASSUME NEW p \in polls, LongPollEnd(p) PROVE TypeOK'
  BY <1>0, <1>8 DEF LongPollEnd, TypeOK
<1>9. ASSUME NEW j \in Job, NEW k \in Key, NEW e \in BOOLEAN, ResultsAccept(j, k, e)
      PROVE  TypeOK'
  BY <1>0, <1>9 DEF ResultsAccept, TypeOK
<1>10. CASE IngestStart
  <2>1. cur \in Job /\ finished[cur] \in BOOLEAN
    BY <1>10 DEF IngestStart, TypeOK
  <2>2. run' \in [Job -> RunStatus] /\ finished' \in [Job -> BOOLEAN]
    BY <1>10, <2>1, SetRunTypes DEF IngestStart
  <2>3. QED
    BY <1>0, <1>10, <2>1, <2>2 DEF IngestStart, TypeOK
<1>11. CASE IngestRecord
  BY <1>0, <1>11 DEF IngestRecord, TypeOK
<1>12. CASE IngestFinish
  <2>1. cur \in Job
    BY <1>12 DEF IngestFinish, TypeOK
  <2>2. run' \in [Job -> RunStatus] /\ finished' \in [Job -> BOOLEAN]
    BY <1>12, <2>1, SetRunTypes DEF IngestFinish
  <2>3. QED
    BY <1>0, <1>12, <2>1, <2>2 DEF IngestFinish, TypeOK
<1>13. CASE IngestComplete
  BY <1>0, <1>13 DEF IngestComplete, TypeOK
<1>14. ASSUME NEW j \in Job, JobAges(j) PROVE TypeOK'
  BY <1>0, <1>14 DEF JobAges, TypeOK
<1>15. CASE ReaperScan
  BY <1>0, <1>15 DEF ReaperScan, Stuck, TypeOK
<1>16. ASSUME NEW j \in Job, ReaperFail(j) PROVE TypeOK'
  <2>1. run' \in [Job -> RunStatus] /\ finished' \in [Job -> BOOLEAN]
    BY <1>16, SetRunTypes DEF ReaperFail
  <2>2. QED
    BY <1>0, <1>16, <2>1 DEF ReaperFail, DropFromList, TypeOK
<1>17. ASSUME NEW j \in Job, ReaperRequeue(j) PROVE TypeOK'
  BY <1>0, <1>17 DEF ReaperRequeue, BackToQueue, DropFromList, TypeOK
<1>18. ASSUME NEW j \in Job, ManualRequeue(j) PROVE TypeOK'
  <2>1. run' \in [Job -> RunStatus] /\ finished' \in [Job -> BOOLEAN]
    BY <1>18, SetRunTypes DEF ManualRequeue
  <2>2. revived' \in [Job -> 0 .. MaxRevivals]
    BY <1>18, BoundAssumption DEF ManualRequeue, TypeOK
  <2>3. QED
    BY <1>0, <1>18, <2>1, <2>2 DEF ManualRequeue, TypeOK
<1>19. ASSUME NEW r \in Runner, DeleteRunner(r) PROVE TypeOK'
  <2>1. RegTypeOK'
    BY <1>19, RegistryTypes DEF DeleteRunner, TypeOK
  <2>2. QED
    BY <1>19, <2>1 DEF DeleteRunner, TypeOK
<1>20. ASSUME NEW j \in Job, Prune(j) PROVE TypeOK'
  <2>1. run' \in [Job -> RunStatus] /\ finished' \in [Job -> BOOLEAN]
    BY <1>20 DEF Prune, TypeOK
  <2>2. PICK n \in 0 .. recorded[j] :
            /\ recorded' = [recorded EXCEPT ![j] = n]
            /\ pruned' = IF n = 0 /\ recorded[j] > 0 THEN pruned \cup {j} ELSE pruned
    BY <1>20 DEF Prune
  <2>3. recorded' \in [Job -> Nat] /\ pruned' \subseteq Job
    BY <2>2 DEF TypeOK
  <2>4. QED
    BY <1>0, <1>20, <2>1, <2>3 DEF Prune, TypeOK
<1>21. CASE Crash \/ HandlerRaises
  <2>1. crashes' \in 0 .. MaxCrashes
    BY <1>21, BoundAssumption DEF Crash, HandlerRaises, TypeOK
  <2>2. CASE Crash
    BY <1>0, <2>1, <2>2 DEF Crash, TypeOK
  <2>3. CASE HandlerRaises
    BY <1>0, <2>1, <2>3 DEF HandlerRaises, TypeOK
  <2>4. QED
    BY <1>21, <2>2, <2>3
<1>22. CASE RegistryStep
  <2>1. RegTypeOK'
    BY <1>22, RegistryTypes DEF RegistryStep, TypeOK
  <2>2. QED
    BY <1>22, <2>1 DEF RegistryStep, TypeOK
<1>23. CASE UNCHANGED vars
  BY <1>0, <1>23 DEF vars, TypeOK
<1>24. QED
  BY <1>1, <1>2, <1>3, <1>5, <1>6, <1>7, <1>8, <1>9, <1>10, <1>11, <1>12,
     <1>13, <1>14, <1>15, <1>16, <1>17, <1>18, <1>19, <1>20, <1>21, <1>22, <1>23
  DEF Next, Dispatch, Ingest

(* In every reachable state the tables and both threads are well typed.    *)
THEOREM TypeCorrect == Spec => []TypeOK
BY InitTypes, NextTypes, PTL DEF Spec

-----------------------------------------------------------------------------
(* Both ways of handing out work are a claim for a registered runner, made *)
(* while no handler is at work.                                            *)

LEMMA Handouts ==
    ASSUME TypeOK,
           \/ \E r \in Runner, k \in Key : Poll(r, k)
           \/ \E p \in polls : LongPollWake(p)
    PROVE  /\ \E r \in registered, ts \in SUBSET Tag : Claim(r, ts)
           /\ LoopIdle
           /\ UNCHANGED <<regVars, target, retries, queuedAt, clock, runVars,
                          handlerVars, countVars, reaperVars>>
<1>1. ASSUME NEW r \in Runner, NEW k \in Key, Poll(r, k)
      PROVE  /\ \E q \in registered, ts \in SUBSET Tag : Claim(q, ts)
             /\ LoopIdle
             /\ UNCHANGED <<regVars, target, retries, queuedAt, clock, runVars,
                            handlerVars, countVars, reaperVars>>
  BY <1>1 DEF Poll, Authorized, TypeOK, RegTypeOK
<1>2. ASSUME NEW p \in polls, LongPollWake(p)
      PROVE  /\ \E q \in registered, ts \in SUBSET Tag : Claim(q, ts)
             /\ LoopIdle
             /\ UNCHANGED <<regVars, target, retries, queuedAt, clock, runVars,
                            handlerVars, countVars, reaperVars>>
  BY <1>2 DEF LongPollWake, Authorized, TypeOK, LongPoll
<1>3. QED
  BY <1>1, <1>2

-----------------------------------------------------------------------------
(* The retry budget. The reaper decides by the count it read, so the       *)
(* invariant has to say that no other step moves the count in between.     *)

RetryInv ==
    /\ RetryBudget
    /\ \A j \in reaping : asRead[j] = retries[j]

LEMMA RetryStep == TypeOK /\ RetryInv /\ [Next]_vars => RetryInv'
<1> SUFFICES ASSUME TypeOK, RetryInv, [Next]_vars PROVE RetryInv'
  OBVIOUS
<1> USE RetryAssumption DEF RetryInv, RetryBudget, TypeOK, jobVars, reaperVars
<1>1. ASSUME UNCHANGED <<state, retries, reaperVars>>
      PROVE  RetryInv'
  BY <1>1
<1>2. CASE \/ \E r \in Runner, k \in Key : Poll(r, k)
           \/ \E p \in polls : LongPollWake(p)
  <2>1. PICK r \in registered, ts \in SUBSET Tag : Claim(r, ts)
    BY <1>2, Handouts
  <2>2. UNCHANGED <<retries, reaperVars>>
    BY <1>2, Handouts
  <2>3. QED
    BY <2>1, <2>2 DEF Claim
<1>3. CASE DispatchEnqueue \/ IngestComplete
  BY <1>3 DEF DispatchEnqueue, IngestComplete
<1>4. CASE ReaperScan
  BY <1>4 DEF ReaperScan, Stuck
<1>5. ASSUME NEW j \in Job, ReaperFail(j) PROVE RetryInv'
  <2>1. retries[j] = MaxRetries
    BY <1>5 DEF ReaperFail
  <2>2. QED
    BY <1>5, <2>1 DEF ReaperFail, DropFromList
<1>6. ASSUME NEW j \in Job, ReaperRequeue(j) PROVE RetryInv'
  <2>1. retries[j] + 1 <= MaxRetries
    BY <1>6 DEF ReaperRequeue
  <2>2. QED
    BY <1>6, <2>1 DEF ReaperRequeue, BackToQueue, DropFromList
<1>7. ASSUME NEW j \in Job, ManualRequeue(j) PROVE RetryInv'
  BY <1>7 DEF ManualRequeue
<1>8. ASSUME NEW r \in Runner, DeleteRunner(r) PROVE RetryInv'
  BY <1>8 DEF DeleteRunner
<1>9. CASE Crash \/ HandlerRaises
  BY <1>9 DEF Crash, HandlerRaises
<1>10. CASE \/ DispatchMark \/ IngestStart \/ IngestRecord \/ IngestFinish
            \/ RegistryStep \/ UNCHANGED vars
  BY <1>1, <1>10
  DEF DispatchMark, IngestStart, IngestRecord, IngestFinish, RegistryStep, vars
<1>11. ASSUME NEW j \in Job,
              \/ DispatchInsert(j) \/ JobAges(j) \/ Prune(j)
              \/ \E k \in Key, e \in BOOLEAN : ResultsAccept(j, k, e)
       PROVE  RetryInv'
  BY <1>1, <1>11 DEF DispatchInsert, JobAges, Prune, ResultsAccept
<1>12. ASSUME NEW r \in Runner, NEW k \in Key, LongPollWait(r, k) PROVE RetryInv'
  BY <1>1, <1>12 DEF LongPollWait
<1>13. ASSUME NEW p \in polls, LongPollEnd(p) PROVE RetryInv'
  BY <1>1, <1>13 DEF LongPollEnd
<1> HIDE DEF RetryInv, RetryBudget, TypeOK, jobVars, reaperVars
<1>14. QED
  BY <1>2, <1>3, <1>4, <1>5, <1>6, <1>7, <1>8, <1>9, <1>10, <1>11, <1>12, <1>13
  DEF Next, Dispatch, Ingest

(* However the reaper's scans interleave with the handlers, it requeues a  *)
(* job at most worker.max_retries times and gives up only on spent ones.   *)
THEOREM RetryBudgetHolds == Spec => []RetryBudget
<1>1. Init => RetryInv
  BY RetryAssumption DEF Init, RetryInv, RetryBudget
<1>2. RetryInv => RetryBudget
  BY DEF RetryInv
<1>3. QED
  BY <1>1, <1>2, RetryStep, TypeCorrect, PTL DEF Spec

-----------------------------------------------------------------------------
(* Owners. A job that is being queued has no state yet, and a job whose    *)
(* results are being ingested or that the reaper has listed has one.       *)

OwnerInv ==
    /\ OwnerConsistent
    /\ \A j \in Job : state[j] = "none" => owner[j] = NoRunner /\ j \notin reaping
    /\ pc \in {"mark", "enqueue"} => state[cur] = "none"
    /\ pc \in {"start", "record", "finish", "complete"} => state[cur] # "none"

LEMMA OwnerStep == TypeOK /\ OwnerInv /\ [Next]_vars => OwnerInv'
<1> SUFFICES ASSUME TypeOK, OwnerInv, [Next]_vars PROVE OwnerInv'
  OBVIOUS
<1> USE DEF OwnerInv, OwnerConsistent, TypeOK, RegTypeOK, jobVars, handlerVars,
            reaperVars, LoopIdle, Goto, Return
<1>1. ASSUME UNCHANGED <<state, owner, pc, cur, reaping>>, registered \subseteq registered'
      PROVE  OwnerInv'
  BY <1>1
<1>2. CASE \/ \E r \in Runner, k \in Key : Poll(r, k)
           \/ \E p \in polls : LongPollWake(p)
  <2>1. PICK r \in registered, ts \in SUBSET Tag : Claim(r, ts)
    BY <1>2, Handouts
  <2>2. LoopIdle /\ UNCHANGED <<regVars, handlerVars, reaperVars>>
    BY <1>2, Handouts
  <2>3. PICK S \in SUBSET Claimable(r, ts) :
            /\ state' = [j \in Job |-> IF j \in S THEN "assigned" ELSE state[j]]
            /\ owner' = [j \in Job |-> IF j \in S THEN r ELSE owner[j]]
    BY <2>1 DEF Claim
  <2>4. QED
    BY <2>2, <2>3 DEF Claimable, regVars
<1>3. ASSUME NEW j \in Job, DispatchInsert(j) PROVE OwnerInv'
  BY <1>3 DEF DispatchInsert, regVars
<1>4. CASE DispatchMark
  BY <1>4 DEF DispatchMark, regVars
<1>5. CASE DispatchEnqueue
  BY <1>5 DEF DispatchEnqueue, regVars
<1>6. ASSUME NEW j \in Job, NEW k \in Key, NEW e \in BOOLEAN, ResultsAccept(j, k, e)
      PROVE  OwnerInv'
  BY <1>6 DEF ResultsAccept, regVars
<1>7. CASE IngestStart \/ IngestRecord \/ IngestFinish
  BY <1>7 DEF IngestStart, IngestRecord, IngestFinish, regVars
<1>8. CASE IngestComplete
  BY <1>8 DEF IngestComplete, regVars
<1>9. CASE ReaperScan
  BY <1>9 DEF ReaperScan, Stuck, regVars
<1>10. ASSUME NEW j \in Job, ReaperFail(j) PROVE OwnerInv'
  BY <1>10 DEF ReaperFail, DropFromList, regVars
<1>11. ASSUME NEW j \in Job, ReaperRequeue(j) PROVE OwnerInv'
  BY <1>11 DEF ReaperRequeue, BackToQueue, DropFromList, regVars
<1>12. ASSUME NEW j \in Job, ManualRequeue(j) PROVE OwnerInv'
  BY <1>12 DEF ManualRequeue, regVars
<1>13. ASSUME NEW r \in Runner, DeleteRunner(r) PROVE OwnerInv'
  BY <1>13 DEF DeleteRunner, RemoveRow
<1>14. CASE Crash \/ HandlerRaises
  BY <1>14 DEF Crash, HandlerRaises, regVars
<1>15. CASE RegistryStep
  <2>1. registered \subseteq registered'
    BY <1>15 DEF RegistryStep, RegistryRequest, Register, Heartbeat, Drain,
                 Resume, KeyDies
  <2>2. QED
    BY <1>1, <1>15, <2>1 DEF RegistryStep
<1>16. ASSUME NEW j \in Job, JobAges(j) \/ Prune(j) PROVE OwnerInv'
  BY <1>16 DEF JobAges, Prune, regVars
<1>17. ASSUME NEW r \in Runner, NEW k \in Key, LongPollWait(r, k) PROVE OwnerInv'
  BY <1>17 DEF LongPollWait, regVars
<1>18. ASSUME NEW p \in polls, LongPollEnd(p) PROVE OwnerInv'
  BY <1>18 DEF LongPollEnd, regVars
<1>19. CASE UNCHANGED vars
  BY <1>19 DEF vars, regVars
<1> HIDE DEF OwnerInv, OwnerConsistent, TypeOK, RegTypeOK, jobVars, handlerVars,
             reaperVars, LoopIdle, Goto, Return
<1>20. QED
  BY <1>2, <1>3, <1>4, <1>5, <1>6, <1>7, <1>8, <1>9, <1>10, <1>11, <1>12,
     <1>13, <1>14, <1>15, <1>16, <1>17, <1>18, <1>19
  DEF Next, Dispatch, Ingest

LEMMA OwnerInvariant == Spec => []OwnerInv
<1>1. Init => OwnerInv
  BY DEF Init, OwnerInv, OwnerConsistent
<1>2. QED
  BY <1>1, OwnerStep, TypeCorrect, PTL DEF Spec

(* Whatever happens to runners, jobs and the process, no job is held by a  *)
(* runner that has no row or kept by one it was taken from.                *)
THEOREM OwnerHolds == Spec => []OwnerConsistent
<1>1. OwnerInv => OwnerConsistent
  BY DEF OwnerInv
<1>2. QED
  BY <1>1, OwnerInvariant, PTL

-----------------------------------------------------------------------------
(* Duplicate results. A job that may still be handed out has fewer results *)
(* than one that has settled, and an ingest that has not recorded yet may  *)
(* still add one. An ingest cut short after recording is paid for by the   *)
(* crash or exception that cut it.                                         *)

Allowed(j) == revived[j] + crashes

Recorded(j) == pc \in {"finish", "complete"} /\ cur = j

ResultsInv ==
    \A j \in Job :
        /\ recorded[j] <= Allowed(j) + 1
        /\ state[j] \notin Settled /\ ~ Recorded(j) => recorded[j] <= Allowed(j)
        /\ pc \in {"start", "record"} /\ cur = j => recorded[j] <= Allowed(j)

LEMMA ResultsStep == TypeOK /\ OwnerInv /\ ResultsInv /\ [Next]_vars => ResultsInv'
<1> SUFFICES ASSUME TypeOK, OwnerInv, ResultsInv, [Next]_vars PROVE ResultsInv'
  OBVIOUS
<1> USE DEF ResultsInv, Allowed, Recorded, Settled, TypeOK, jobVars, runVars,
            resultVars, handlerVars, countVars, LoopIdle, Goto, Return
<1>2. CASE \/ \E r \in Runner, k \in Key : Poll(r, k)
           \/ \E p \in polls : LongPollWake(p)
  <2>1. PICK r \in registered, ts \in SUBSET Tag : Claim(r, ts)
    BY <1>2, Handouts
  <2>2. LoopIdle /\ UNCHANGED <<runVars, handlerVars, countVars>>
    BY <1>2, Handouts
  <2>3. PICK S \in SUBSET Claimable(r, ts) :
            state' = [j \in Job |-> IF j \in S THEN "assigned" ELSE state[j]]
    BY <2>1 DEF Claim
  <2>4. QED
    BY <2>2, <2>3 DEF Claimable
<1>1. CASE DispatchMark \/ DispatchEnqueue
  BY <1>1 DEF DispatchMark, DispatchEnqueue, SetRun, OwnerInv
<1>3. CASE IngestStart \/ IngestFinish
  BY <1>3 DEF IngestStart, IngestFinish, SetRun
<1>4. CASE IngestRecord
  BY <1>4 DEF IngestRecord
<1>5. CASE IngestComplete
  BY <1>5 DEF IngestComplete
<1>6. ASSUME NEW j \in Job, DispatchInsert(j) PROVE ResultsInv'
  BY <1>6 DEF DispatchInsert
<1>7. ASSUME NEW j \in Job, NEW k \in Key, NEW e \in BOOLEAN, ResultsAccept(j, k, e)
      PROVE  ResultsInv'
  BY <1>7 DEF ResultsAccept
<1>8. ASSUME NEW j \in Job, ReaperFail(j) PROVE ResultsInv'
  BY <1>8 DEF ReaperFail, DropFromList, SetRun
<1>9. ASSUME NEW j \in Job, ReaperRequeue(j) PROVE ResultsInv'
  BY <1>9 DEF ReaperRequeue, BackToQueue, DropFromList
<1>10. ASSUME NEW j \in Job, ManualRequeue(j) PROVE ResultsInv'
  <2>1. /\ revived' = [revived EXCEPT ![j] = @ + 1]
        /\ state' = [state EXCEPT ![j] = "queued"]
        /\ pc = "idle" /\ UNCHANGED <<recorded, handlerVars, crashes>>
    BY <1>10 DEF ManualRequeue
  <2>2. revived[j] \in Nat /\ crashes \in Nat /\ recorded[j] \in Nat
    OBVIOUS
  <2>3. \A i \in Job : revived'[i] = IF i = j THEN revived[i] + 1 ELSE revived[i]
    BY <2>1
  <2>4. QED
    BY <2>1, <2>2, <2>3
<1>11. ASSUME NEW r \in Runner, DeleteRunner(r) PROVE ResultsInv'
  BY <1>11 DEF DeleteRunner
<1>12. ASSUME NEW j \in Job, Prune(j) PROVE ResultsInv'
  BY <1>12 DEF Prune
<1>13. CASE Crash \/ HandlerRaises
  BY <1>13 DEF Crash, HandlerRaises
<1>14. CASE ReaperScan \/ RegistryStep \/ UNCHANGED vars
  BY <1>14 DEF ReaperScan, RegistryStep, vars
<1>15. ASSUME NEW j \in Job, JobAges(j) PROVE ResultsInv'
  BY <1>15 DEF JobAges
<1>16. ASSUME NEW r \in Runner, NEW k \in Key, LongPollWait(r, k) PROVE ResultsInv'
  BY <1>16 DEF LongPollWait
<1>17. ASSUME NEW p \in polls, LongPollEnd(p) PROVE ResultsInv'
  BY <1>17 DEF LongPollEnd
<1> HIDE DEF ResultsInv, Allowed, Recorded, Settled, TypeOK, jobVars, runVars,
            resultVars, handlerVars, countVars, LoopIdle, Goto, Return
<1>18. QED
  BY <1>1, <1>2, <1>3, <1>4, <1>5, <1>6, <1>7, <1>8, <1>9, <1>10, <1>11, <1>12,
     <1>13, <1>14, <1>15, <1>16, <1>17
  DEF Next, Dispatch, Ingest

(* A replayed payload, or the payloads of two workers that were handed the *)
(* same job, count once unless an operator or a crash comes between.       *)
THEOREM ResultsOnceHolds == Spec => []ResultsOnce
<1>1. Init => ResultsInv
  BY DEF Init, ResultsInv, Allowed, Recorded
<1>2. TypeOK /\ ResultsInv => ResultsOnce
  BY DEF TypeOK, ResultsInv, Allowed, ResultsOnce
<1>3. QED
  BY <1>1, <1>2, ResultsStep, OwnerInvariant, TypeCorrect, PTL DEF Spec

-----------------------------------------------------------------------------
(* Results of a completed job. The ingest records before it completes, and *)
(* only retention removes results, then or at any later time.              *)

CompletedInv ==
    /\ CompletedHasResults
    /\ pc \in {"finish", "complete"} => recorded[cur] > 0 \/ cur \in pruned

LEMMA CompletedStep == TypeOK /\ CompletedInv /\ [Next]_vars => CompletedInv'
<1> SUFFICES ASSUME TypeOK, CompletedInv, [Next]_vars PROVE CompletedInv'
  OBVIOUS
<1> USE DEF CompletedInv, CompletedHasResults, Settled, TypeOK, jobVars, runVars,
            resultVars, handlerVars, countVars, LoopIdle, Goto, Return
<1>2. CASE \/ \E r \in Runner, k \in Key : Poll(r, k)
           \/ \E p \in polls : LongPollWake(p)
  <2>1. PICK r \in registered, ts \in SUBSET Tag : Claim(r, ts)
    BY <1>2, Handouts
  <2>2. LoopIdle /\ UNCHANGED <<runVars, handlerVars, countVars>>
    BY <1>2, Handouts
  <2>3. PICK S \in SUBSET Claimable(r, ts) :
            state' = [j \in Job |-> IF j \in S THEN "assigned" ELSE state[j]]
    BY <2>1 DEF Claim
  <2>4. QED
    BY <2>2, <2>3 DEF Claimable
<1>3. CASE DispatchMark \/ DispatchEnqueue \/ IngestStart \/ IngestFinish
  BY <1>3 DEF DispatchMark, DispatchEnqueue, IngestStart, IngestFinish, SetRun
<1>4. CASE IngestRecord
  BY <1>4 DEF IngestRecord
<1>5. CASE IngestComplete
  BY <1>5 DEF IngestComplete
<1>6. ASSUME NEW j \in Job, DispatchInsert(j) PROVE CompletedInv'
  BY <1>6 DEF DispatchInsert
<1>7. ASSUME NEW j \in Job, NEW k \in Key, NEW e \in BOOLEAN, ResultsAccept(j, k, e)
      PROVE  CompletedInv'
  BY <1>7 DEF ResultsAccept
<1>8. ASSUME NEW j \in Job, ReaperFail(j) PROVE CompletedInv'
  BY <1>8 DEF ReaperFail, DropFromList, SetRun
<1>9. ASSUME NEW j \in Job, ReaperRequeue(j) PROVE CompletedInv'
  BY <1>9 DEF ReaperRequeue, BackToQueue, DropFromList
<1>10. ASSUME NEW j \in Job, ManualRequeue(j) PROVE CompletedInv'
  BY <1>10 DEF ManualRequeue, SetRun
<1>11. ASSUME NEW r \in Runner, DeleteRunner(r) PROVE CompletedInv'
  BY <1>11 DEF DeleteRunner
<1>12. ASSUME NEW j \in Job, Prune(j) PROVE CompletedInv'
  BY <1>12 DEF Prune
<1>13. CASE Crash \/ HandlerRaises
  BY <1>13 DEF Crash, HandlerRaises
<1>14. CASE ReaperScan \/ RegistryStep \/ UNCHANGED vars
  BY <1>14 DEF ReaperScan, RegistryStep, vars
<1>15. ASSUME NEW j \in Job, JobAges(j) PROVE CompletedInv'
  BY <1>15 DEF JobAges
<1>16. ASSUME NEW r \in Runner, NEW k \in Key, LongPollWait(r, k) PROVE CompletedInv'
  BY <1>16 DEF LongPollWait
<1>17. ASSUME NEW p \in polls, LongPollEnd(p) PROVE CompletedInv'
  BY <1>17 DEF LongPollEnd
<1> HIDE DEF CompletedInv, CompletedHasResults, Settled, TypeOK, jobVars, runVars,
            resultVars, handlerVars, countVars, LoopIdle, Goto, Return
<1>18. QED
  BY <1>2, <1>3, <1>4, <1>5, <1>6, <1>7, <1>8, <1>9, <1>10, <1>11, <1>12,
     <1>13, <1>14, <1>15, <1>16, <1>17
  DEF Next, Dispatch, Ingest

(* A job that reports an outcome has the results behind it, or had them    *)
(* until retention found them too old, before or after it was completed.   *)
THEOREM CompletedHasResultsHolds == Spec => []CompletedHasResults
<1>1. Init => CompletedInv
  BY DEF Init, CompletedInv, CompletedHasResults
<1>2. CompletedInv => CompletedHasResults
  BY DEF CompletedInv
<1>3. QED
  BY <1>1, <1>2, CompletedStep, TypeCorrect, PTL DEF Spec

-----------------------------------------------------------------------------
(* Jobs and runs. While a job is being queued its run is queued; when the  *)
(* ingest is about to complete the job, its run has the outcome already,   *)
(* unless the reaper has ended it or retention has deleted it since.       *)

StoryInv ==
    /\ pc = "idle" => cur = NoJob
    /\ RunFollowsJob
    /\ crashes = 0 /\ pc \in {"mark", "enqueue"} => run[cur] \in {"none", "queued"}
    /\ crashes = 0 /\ pc = "complete" =>
          \/ run[cur] \in {"none", "error"}
          \/ run[cur] = "complete" /\ ~failing

LEMMA StoryStep == TypeOK /\ OwnerInv /\ StoryInv /\ [Next]_vars => StoryInv'
<1> SUFFICES ASSUME TypeOK, OwnerInv, StoryInv, [Next]_vars PROVE StoryInv'
  OBVIOUS
<1> USE NullAssumption
    DEF StoryInv, RunFollowsJob, OwnerInv, TypeOK, jobVars, runVars, resultVars, handlerVars,
        countVars, reaperVars, LoopIdle, Goto, Return
<1>1. ASSUME UNCHANGED <<state, run, pc, cur, failing, crashes>> PROVE StoryInv'
  BY <1>1
<1>2. CASE \/ \E r \in Runner, k \in Key : Poll(r, k)
           \/ \E p \in polls : LongPollWake(p)
  <2>1. PICK r \in registered, ts \in SUBSET Tag : Claim(r, ts)
    BY <1>2, Handouts
  <2>2. LoopIdle /\ UNCHANGED <<runVars, handlerVars, countVars>>
    BY <1>2, Handouts
  <2>3. PICK S \in SUBSET Claimable(r, ts) :
            state' = [j \in Job |-> IF j \in S THEN "assigned" ELSE state[j]]
    BY <2>1 DEF Claim
  <2>4. QED
    BY <2>2, <2>3 DEF Claimable
<1>3. ASSUME NEW j \in Job, DispatchInsert(j) PROVE StoryInv'
  BY <1>3 DEF DispatchInsert
<1>4. CASE DispatchMark
  BY <1>4 DEF DispatchMark, SetRun
<1>5. CASE DispatchEnqueue
  BY <1>5 DEF DispatchEnqueue
<1>6. ASSUME NEW j \in Job, NEW k \in Key, NEW e \in BOOLEAN, ResultsAccept(j, k, e)
      PROVE  StoryInv'
  BY <1>6 DEF ResultsAccept
<1>7. CASE IngestStart \/ IngestRecord
  BY <1>7 DEF IngestStart, IngestRecord, SetRun
<1>8. CASE IngestFinish
  BY <1>8 DEF IngestFinish, SetRun
<1>9. CASE IngestComplete
  BY <1>9 DEF IngestComplete
<1>10. ASSUME NEW j \in Job, ReaperFail(j) PROVE StoryInv'
  BY <1>10 DEF ReaperFail, SetRun
<1>11. ASSUME NEW j \in Job, ReaperRequeue(j) PROVE StoryInv'
  BY <1>11 DEF ReaperRequeue, BackToQueue
<1>12. ASSUME NEW j \in Job, ManualRequeue(j) PROVE StoryInv'
  BY <1>12 DEF ManualRequeue, SetRun
<1>13. ASSUME NEW r \in Runner, DeleteRunner(r) PROVE StoryInv'
  BY <1>13 DEF DeleteRunner
<1>14. ASSUME NEW j \in Job, Prune(j) PROVE StoryInv'
  BY <1>14 DEF Prune
<1>15. CASE Crash \/ HandlerRaises
  <2>1. crashes' # 0 /\ pc' = "idle" /\ cur' = NoJob
    BY <1>15, BoundAssumption DEF Crash, HandlerRaises
  <2>2. QED
    BY <2>1
<1>16. CASE ReaperScan \/ RegistryStep \/ UNCHANGED vars
  BY <1>1, <1>16 DEF ReaperScan, RegistryStep, vars
<1>17. ASSUME NEW j \in Job, JobAges(j) PROVE StoryInv'
  BY <1>1, <1>17 DEF JobAges
<1>18. ASSUME NEW r \in Runner, NEW k \in Key, LongPollWait(r, k) PROVE StoryInv'
  BY <1>1, <1>18 DEF LongPollWait
<1>19. ASSUME NEW p \in polls, LongPollEnd(p) PROVE StoryInv'
  BY <1>1, <1>19 DEF LongPollEnd
<1> HIDE DEF StoryInv, RunFollowsJob, OwnerInv, TypeOK, jobVars, runVars, resultVars, handlerVars,
             countVars, reaperVars, LoopIdle, Goto, Return
<1>20. QED
  BY <1>2, <1>3, <1>4, <1>5, <1>6, <1>7, <1>8, <1>9, <1>10, <1>11, <1>12,
     <1>13, <1>14, <1>15, <1>16, <1>17, <1>18, <1>19
  DEF Next, Dispatch, Ingest

(* Whatever the reaper does while an ingest is under way, no run is left   *)
(* queued or running behind a job that has ended, unless a handler died.   *)
THEOREM RunFollowsJobHolds == Spec => []RunFollowsJob
<1>1. Init => StoryInv
  BY DEF Init, StoryInv, RunFollowsJob
<1>2. StoryInv => RunFollowsJob
  BY DEF StoryInv
<1>3. QED
  BY <1>1, <1>2, StoryStep, OwnerInvariant, TypeCorrect, PTL DEF Spec

=============================================================================
