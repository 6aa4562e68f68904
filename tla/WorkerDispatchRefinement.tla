---------------------- MODULE WorkerDispatchRefinement ----------------------
(***************************************************************************)
(* WorkerDispatch implements JobLedger, and every hand-out is authorized.  *)
(***************************************************************************)
EXTENDS WorkerDispatchProofs

(* The refinement mapping of WorkerDispatch, by name.                      *)
LedgerPhase == [j \in Job |-> Phase(state[j])]
LedgerHolder == [j \in Job |-> IF state[j] = "assigned" THEN owner[j] ELSE NoRunner]

LedgerStutter == UNCHANGED <<LedgerPhase, LedgerHolder, revived>>

(* A step that leaves states, owners and revivals alone is invisible.      *)
LEMMA InvisibleStep ==
    ASSUME UNCHANGED <<state, owner, revived>>
    PROVE  LedgerStutter
BY DEF LedgerStutter, LedgerPhase, LedgerHolder

(* The moves of the ledger, spelt out under the mapping.                   *)
LEMMA LedgerMove ==
    ASSUME NEW S \in SUBSET Job, NEW p, NEW h,
           \A j \in Job : Phase(state'[j]) = IF j \in S THEN p ELSE Phase(state[j]),
           \A j \in Job :
              (IF state'[j] = "assigned" THEN owner'[j] ELSE NoRunner)
              = IF j \in S THEN h
                ELSE IF state[j] = "assigned" THEN owner[j] ELSE NoRunner
    PROVE  Ledger!Move(S, p, h)
BY DEF Ledger!Move

LEMMA LedgerStep ==
    TypeOK /\ OwnerInv /\ [Next]_vars => [Ledger!Next]_(Ledger!ledgerVars)
<1> SUFFICES ASSUME TypeOK, OwnerInv, [Next]_vars
             PROVE  Ledger!Next \/ LedgerStutter
  BY DEF Ledger!ledgerVars, LedgerStutter, LedgerPhase, LedgerHolder
<1> USE DEF TypeOK, jobVars, countVars
<1>1. CASE \/ \E r \in Runner, k \in Key : Poll(r, k)
           \/ \E p \in polls : LongPollWake(p)
  <2>1. PICK r \in registered, ts \in SUBSET Tag : Claim(r, ts)
    BY <1>1, Handouts
  <2>2. UNCHANGED revived /\ r \in Runner
    BY <1>1, Handouts DEF RegTypeOK
  <2>3. PICK S \in SUBSET Claimable(r, ts) :
            /\ state' = [j \in Job |-> IF j \in S THEN "assigned" ELSE state[j]]
            /\ owner' = [j \in Job |-> IF j \in S THEN r ELSE owner[j]]
    BY <2>1 DEF Claim
  <2>4. S \in SUBSET Job /\ Ledger!InPhase(S, {"waiting"})
    BY DEF Claimable, Ledger!InPhase, Phase
  <2>5. Ledger!Move(S, "held", r)
    BY <2>3, <2>4, LedgerMove DEF Phase
  <2>6. QED
    BY <2>2, <2>4, <2>5 DEF Ledger!Next, Ledger!Take
<1>2. CASE DispatchEnqueue
  <2>1. cur \in Job /\ state[cur] = "none" /\ UNCHANGED <<owner, revived>>
    BY <1>2 DEF DispatchEnqueue, OwnerInv
  <2>2. state' = [state EXCEPT ![cur] = "queued"]
    BY <1>2 DEF DispatchEnqueue
  <2>3. Ledger!Move({cur}, "waiting", NoRunner)
    BY <2>1, <2>2, LedgerMove DEF Phase
  <2>4. QED
    BY <2>1, <2>3 DEF Ledger!Next, Ledger!Offer, Ledger!InPhase, Phase
<1>3. ASSUME NEW j \in Job, NEW s \in {"complete", "error", "failed"}, state[j] # "none",
             state' = [state EXCEPT ![j] = s], UNCHANGED <<owner, revived>>
      PROVE  Ledger!Next \/ LedgerStutter
  <2>1. CASE state[j] \in {"queued", "assigned"}
    <3>1. Ledger!Move({j}, "settled", NoRunner)
      BY <1>3, <2>1, LedgerMove DEF Phase
    <3>2. QED
      BY <1>3, <2>1, <3>1 DEF Ledger!Next, Ledger!Settle, Ledger!InPhase, Phase
  <2>2. CASE state[j] \in Settled
    BY <1>3, <2>2 DEF Settled, LedgerStutter, LedgerPhase, LedgerHolder, Phase
  <2>3. QED
    BY <1>3, <2>1, <2>2 DEF JobState
<1>4. CASE IngestComplete
  <2>1. cur \in Job /\ state[cur] # "none" /\ UNCHANGED <<owner, revived>>
    BY <1>4 DEF IngestComplete, OwnerInv
  <2>2. QED
    BY <1>3, <1>4, <2>1 DEF IngestComplete
<1>5. ASSUME NEW j \in Job, ReaperFail(j) PROVE Ledger!Next \/ LedgerStutter
  <2>1. state[j] # "none" /\ UNCHANGED <<owner, revived>>
    BY <1>5 DEF ReaperFail, OwnerInv
  <2>2. QED
    BY <1>3, <1>5, <2>1 DEF ReaperFail
<1>6. ASSUME NEW j \in Job, ReaperRequeue(j) PROVE Ledger!Next \/ LedgerStutter
  <2>1. CASE state[j] # "assigned"
    BY <1>6, <2>1, InvisibleStep DEF ReaperRequeue
  <2>2. CASE state[j] = "assigned"
    <3>1. owner[j] \in Runner
      BY <2>2 DEF OwnerInv, OwnerConsistent, RegTypeOK
    <3>2. /\ state' = [state EXCEPT ![j] = "queued"]
          /\ owner' = [owner EXCEPT ![j] = NoRunner]
          /\ UNCHANGED revived
      BY <1>6, <2>2 DEF ReaperRequeue, BackToQueue
    <3>3. Ledger!Move({j}, "waiting", NoRunner)
      BY <3>2, LedgerMove DEF Phase
    <3>4. Ledger!GiveBack({j}, owner[j])
      BY <2>2, <3>2, <3>3 DEF Ledger!GiveBack, Ledger!InPhase, Phase
    <3>5. QED
      BY <3>1, <3>4 DEF Ledger!Next
  <2>3. QED
    BY <2>1, <2>2
<1>7. ASSUME NEW j \in Job, ManualRequeue(j) PROVE Ledger!Next \/ LedgerStutter
  <2>1. /\ state[j] = "failed"
        /\ state' = [state EXCEPT ![j] = "queued"]
        /\ owner' = [owner EXCEPT ![j] = NoRunner]
        /\ revived' = [revived EXCEPT ![j] = @ + 1]
    BY <1>7 DEF ManualRequeue
  <2>2. Ledger!Move({j}, "waiting", NoRunner)
    BY <2>1, LedgerMove DEF Phase
  <2>3. QED
    BY <2>1, <2>2 DEF Ledger!Next, Ledger!Revive, Ledger!InPhase, Phase
<1>8. ASSUME NEW r \in Runner, DeleteRunner(r) PROVE Ledger!Next \/ LedgerStutter
  <2>1. PICK held \in SUBSET Job :
            /\ \A j \in held : state[j] = "assigned" /\ owner[j] = r
            /\ state' = [j \in Job |-> IF j \in held THEN "queued" ELSE state[j]]
            /\ owner' = [j \in Job |-> IF j \in held THEN NoRunner ELSE owner[j]]
            /\ UNCHANGED revived
    <3> WITNESS {j \in Job : state[j] = "assigned" /\ owner[j] = r} \in SUBSET Job
    <3> QED
      BY <1>8 DEF DeleteRunner
  <2>2. Ledger!Move(held, "waiting", NoRunner)
    BY <2>1, LedgerMove DEF Phase
  <2>3. Ledger!GiveBack(held, r)
    BY <2>1, <2>2 DEF Ledger!GiveBack, Ledger!InPhase, Phase
  <2>4. QED
    BY <2>3 DEF Ledger!Next
<1>9. CASE \/ DispatchMark \/ IngestStart \/ IngestRecord \/ IngestFinish
           \/ ReaperScan \/ Crash \/ HandlerRaises \/ RegistryStep \/ UNCHANGED vars
  BY <1>9, InvisibleStep
  DEF DispatchMark, IngestStart, IngestRecord, IngestFinish, ReaperScan, Crash,
      HandlerRaises, RegistryStep, vars
<1>10. ASSUME NEW j \in Job,
              \/ DispatchInsert(j) \/ JobAges(j) \/ Prune(j)
              \/ \E k \in Key, e \in BOOLEAN : ResultsAccept(j, k, e)
       PROVE  LedgerStutter
  BY <1>10, InvisibleStep DEF DispatchInsert, JobAges, Prune, ResultsAccept
<1>11. ASSUME NEW r \in Runner, NEW k \in Key, LongPollWait(r, k) PROVE LedgerStutter
  BY <1>11, InvisibleStep DEF LongPollWait
<1>12. ASSUME NEW p \in polls, LongPollEnd(p) PROVE LedgerStutter
  BY <1>12, InvisibleStep DEF LongPollEnd
<1> HIDE DEF TypeOK, jobVars, countVars
<1>13. QED
  BY <1>1, <1>2, <1>4, <1>5, <1>6, <1>7, <1>8, <1>9, <1>10, <1>11, <1>12
  DEF Next, Dispatch, Ingest

(* With all its threads, retries, long polls and crashes, the queue offers *)
(* each job once, gives it to one runner at a time and never reopens a     *)
(* settled job except for an operator.                                     *)
THEOREM LedgerRefinement == Spec => ImplementsLedger
<1>1. Init => Ledger!Init
  BY DEF Init, Ledger!Init, Phase
<1>2. QED
  BY <1>1, LedgerStep, TypeCorrect, OwnerInvariant, PTL
  DEF Spec, ImplementsLedger, Ledger!Spec

-----------------------------------------------------------------------------
(* Hand-outs.                                                              *)

(* A job goes only to a registered runner with a live key that its target  *)
(* names, on /poll, on /jobs and after a wait that outlived a revocation.  *)
THEOREM HandoutsAuthorized == Spec => HandoutAuthorized
<1> DEFINE Proper ==
      \A j \in Job : HandedOut(j) =>
          /\ owner'[j] \in registered /\ bound[owner'[j]] \in liveKeys
          /\ target[j] \in Runner => owner'[j] = target[j]
          /\ \A p \in polls \ polls' : Authorized(p.runner, p.key)
<1>1. TypeOK /\ [Next]_vars => Proper
  <2> SUFFICES ASSUME TypeOK, [Next]_vars, NEW j \in Job, HandedOut(j)
               PROVE  /\ owner'[j] \in registered /\ bound[owner'[j]] \in liveKeys
                      /\ target[j] \in Runner => owner'[j] = target[j]
                      /\ \A p \in polls \ polls' : Authorized(p.runner, p.key)
    OBVIOUS
  <2> USE DEF HandedOut, TypeOK, jobVars
  <2>1. ASSUME NEW r \in Runner, NEW ts \in SUBSET Tag, Claim(r, ts)
        PROVE  owner'[j] = r /\ (target[j] \in Runner => owner'[j] = target[j])
    <3>1. PICK S \in SUBSET Claimable(r, ts) :
              /\ state' = [i \in Job |-> IF i \in S THEN "assigned" ELSE state[i]]
              /\ owner' = [i \in Job |-> IF i \in S THEN r ELSE owner[i]]
      BY <2>1 DEF Claim
    <3>2. j \in S /\ owner'[j] = r
      BY <3>1
    <3>3. target[j] = r \/ target[j] \in Tag
      BY <3>2 DEF Claimable
    <3>4. QED
      BY <3>2, <3>3, TargetAssumption
  <2>2. CASE \E r \in Runner, k \in Key : Poll(r, k)
    BY <2>1, <2>2 DEF Poll, Authorized, RegTypeOK
  <2>3. ASSUME NEW p \in polls, LongPollWake(p)
        PROVE  /\ owner'[j] \in registered /\ bound[owner'[j]] \in liveKeys
               /\ target[j] \in Runner => owner'[j] = target[j]
               /\ \A q \in polls \ polls' : Authorized(q.runner, q.key)
    <3>1. p.runner \in Runner /\ p.tags \in SUBSET Tag
      BY DEF LongPoll
    <3>2. QED
      BY <2>1, <2>3, <3>1 DEF LongPollWake, Authorized
  <2>4. CASE \/ DispatchMark \/ DispatchEnqueue \/ IngestStart \/ IngestRecord
             \/ IngestFinish \/ IngestComplete \/ ReaperScan \/ Crash \/ HandlerRaises
             \/ RegistryStep \/ UNCHANGED vars
    BY <2>4 DEF DispatchMark, DispatchEnqueue, IngestStart, IngestRecord,
                IngestFinish, IngestComplete, ReaperScan, Crash, HandlerRaises,
                RegistryStep, vars
  <2>5. ASSUME NEW i \in Job,
               \/ DispatchInsert(i) \/ JobAges(i) \/ Prune(i)
               \/ \E k \in Key, e \in BOOLEAN : ResultsAccept(i, k, e)
        PROVE  FALSE
    BY <2>5 DEF DispatchInsert, JobAges, Prune, ResultsAccept
  <2>6. ASSUME NEW i \in Job, ReaperFail(i) \/ ReaperRequeue(i) \/ ManualRequeue(i)
        PROVE  FALSE
    BY <2>6 DEF ReaperFail, ReaperRequeue, BackToQueue, ManualRequeue
  <2>7. ASSUME NEW r \in Runner, DeleteRunner(r) PROVE FALSE
    BY <2>7 DEF DeleteRunner
  <2>8. ASSUME NEW r \in Runner, NEW k \in Key, LongPollWait(r, k) PROVE FALSE
    BY <2>8 DEF LongPollWait
  <2>9. ASSUME NEW p \in polls, LongPollEnd(p) PROVE FALSE
    BY <2>9 DEF LongPollEnd
  <2> HIDE DEF HandedOut, TypeOK, jobVars
  <2>10. QED
    BY <2>2, <2>3, <2>4, <2>5, <2>6, <2>7, <2>8, <2>9 DEF Next, Dispatch, Ingest
<1>2. QED
  BY <1>1, TypeCorrect, PTL DEF Spec, HandoutAuthorized

=============================================================================
