------------------------- MODULE WorkerOutboxProofs -------------------------
(***************************************************************************)
(* Proofs about WorkerOutbox, for any jobs, slots, file limit and attempts. *)
(***************************************************************************)
EXTENDS WorkerOutbox, TLAPS

-----------------------------------------------------------------------------
(* What reading and rewriting the file does to its lines.                  *)

LEMMA TailLines ==
    ASSUME NEW q \in Seq(Line), q # <<>>
    PROVE  /\ Tail(q) \in Seq(Line) /\ Len(Tail(q)) = Len(q) - 1
           /\ q[1] \in Line
           /\ Range(q) \subseteq Range(Tail(q)) \cup {q[1]}
<1>1. Tail(q) \in Seq(Line) /\ Len(Tail(q)) = Len(q) - 1 /\ q[1] \in Line
  OBVIOUS
<1>2. ASSUME NEW i \in 1 .. Len(q), i # 1
      PROVE  i - 1 \in 1 .. Len(Tail(q)) /\ Tail(q)[i - 1] = q[i]
  BY <1>1, <1>2
<1>3. ASSUME NEW x \in Range(q), x # q[1]
      PROVE  x \in Range(Tail(q))
  <2>1. PICK i \in 1 .. Len(q) : q[i] = x
    BY DEF Range
  <2>2. i - 1 \in DOMAIN Tail(q) /\ Tail(q)[i - 1] = x
    BY <1>1, <1>2, <1>3, <2>1
  <2>3. QED
    BY <2>2 DEF Range
<1>4. QED
  BY <1>1, <1>3

LEMMA AppendLines ==
    ASSUME NEW q \in Seq(Line), NEW p \in Line
    PROVE  /\ Append(q, p) \in Seq(Line) /\ Len(Append(q, p)) = Len(q) + 1
           /\ Range(q) \cup {p} \subseteq Range(Append(q, p))
<1>1. /\ Append(q, p) \in Seq(Line) /\ Len(Append(q, p)) = Len(q) + 1
      /\ Append(q, p)[Len(q) + 1] = p
      /\ \A i \in 1 .. Len(q) : Append(q, p)[i] = q[i]
  OBVIOUS
<1>2. DOMAIN q = 1 .. Len(q) /\ DOMAIN Append(q, p) = 1 .. Len(q) + 1 /\ Len(q) \in Nat
  BY <1>1
<1>3. QED
  BY <1>1, <1>2 DEF Range

(* Buffering keeps the limit and every line but the one it evicts.         *)
LEMMA BufferedLines ==
    ASSUME NEW q \in Seq(Line), Len(q) <= OutboxMax, NEW p \in Line
    PROVE  /\ Buffered(q, p) \in Seq(Line) /\ Len(Buffered(q, p)) <= OutboxMax
           /\ (Range(q) \ Evicted(q)) \cup {p} \subseteq Range(Buffered(q, p))
<1>1. CASE Len(q) >= OutboxMax
  <2>1. q # <<>>
    BY <1>1, OutboxAssumption
  <2>2. /\ Tail(q) \in Seq(Line) /\ Len(Tail(q)) = Len(q) - 1
        /\ Range(q) \subseteq Range(Tail(q)) \cup {q[1]}
    BY <2>1, TailLines
  <2>3. Buffered(q, p) = Append(Tail(q), p) /\ Evicted(q) = {q[1]}
    BY <1>1 DEF Buffered, Evicted
  <2>4. /\ Buffered(q, p) \in Seq(Line) /\ Len(Buffered(q, p)) = Len(q)
        /\ Range(Tail(q)) \cup {p} \subseteq Range(Buffered(q, p))
    <3> DEFINE r == Append(Tail(q), p)
    <3>1. /\ r \in Seq(Line) /\ Len(r) = Len(Tail(q)) + 1
          /\ Range(Tail(q)) \cup {p} \subseteq Range(r)
      BY <2>2, AppendLines
    <3>2. Len(r) = Len(q)
      BY <2>2, <3>1
    <3> HIDE DEF r
    <3>3. QED
      BY <2>3, <3>1, <3>2 DEF r
  <2>5. QED
    BY <2>2, <2>3, <2>4
<1>2. CASE Len(q) < OutboxMax
  <2>1. Buffered(q, p) = Append(q, p)
    BY <1>2, OutboxAssumption DEF Buffered
  <2>2. QED
    BY <1>2, <2>1, AppendLines, OutboxAssumption
<1>3. QED
  BY <1>1, <1>2, OutboxAssumption

(* A write that is cut short writes lines, and fewer or the last one torn. *)
LEMMA CutLines ==
    ASSUME NEW q \in Seq(Line), NEW r \in CutShort(q)
    PROVE  r \in Seq(Line) /\ Len(r) <= Len(q)
<1>1. PICK n \in 0 .. Len(q) - 1 :
         r \in {SubSeq(q, 1, n), Append(SubSeq(q, 1, n), TornLine)}
  BY DEF CutShort
<1>2. SubSeq(q, 1, n) \in Seq(Line) /\ Len(SubSeq(q, 1, n)) = n /\ n < Len(q)
  <2>1. n \in Nat /\ n < Len(q) /\ Len(q) \in Nat
    OBVIOUS
  <2>2. \A i \in 1 .. n : q[i] \in Line
    BY <2>1
  <2>3. QED
    BY <2>1, <2>2
<1>3. TornLine \in Line
  BY DEF Line
<1>4. CASE r = SubSeq(q, 1, n)
  BY <1>2, <1>4
<1>5. CASE r = Append(SubSeq(q, 1, n), TornLine)
  <2> DEFINE u == SubSeq(q, 1, n)
  <2>1. u \in Seq(Line) /\ Len(u) = n
    BY <1>2
  <2> HIDE DEF u
  <2>2. Append(u, TornLine) \in Seq(Line) /\ Len(Append(u, TornLine)) = n + 1
    BY <1>3, <2>1
  <2>3. QED
    BY <1>2, <1>5, <2>2 DEF u
<1>6. QED
  BY <1>1, <1>4, <1>5

-----------------------------------------------------------------------------
(* Type correctness.                                                       *)

LEMMA InitTypes == Init => TypeOK
BY AttemptsAssumption, OutboxAssumption DEF Init, TypeOK

(* What giving a slot new contents does to the slots' types.               *)
LEMMA PutTypes ==
    ASSUME TypeOK, NEW s \in Slot, NEW p \in Payload \cup {NoPayload},
           NEW q \in Seq(Line), Len(q) <= OutboxMax,
           NEW st \in {"idle", "executing", "replaying"},
           st = "executing" => p \in Payload, st = "replaying" => q # <<>> /\ q[1] \in Payload,
           Put(s, st, p, q)
    PROVE  /\ step' \in [Slot -> {"idle", "executing", "replaying"}]
           /\ work' \in [Slot -> Payload \cup {NoPayload}]
           /\ snap' \in [Slot -> Seq(Line)]
           /\ \A t \in Slot : /\ step'[t] = "executing" => work'[t] \in Payload
                              /\ step'[t] = "replaying" => snap'[t] # <<>> /\ snap'[t][1] \in Payload
                              /\ Len(snap'[t]) <= OutboxMax
BY DEF Put, TypeOK

LEMMA FreeTypes ==
    ASSUME TypeOK, NEW s \in Slot, Free(s)
    PROVE  /\ step' \in [Slot -> {"idle", "executing", "replaying"}]
           /\ work' \in [Slot -> Payload \cup {NoPayload}]
           /\ snap' \in [Slot -> Seq(Line)]
           /\ \A t \in Slot : /\ step'[t] = "executing" => work'[t] \in Payload
                              /\ step'[t] = "replaying" => snap'[t] # <<>> /\ snap'[t][1] \in Payload
                              /\ Len(snap'[t]) <= OutboxMax
<1>1. <<>> \in Seq(Line) /\ Len(<<>>) <= OutboxMax
  BY OutboxAssumption
<1>2. QED
  BY <1>1, PutTypes DEF Free

LEMMA TasksEndTypes ==
    ASSUME TypeOK, TasksEnd
    PROVE  /\ step' \in [Slot -> {"idle", "executing", "replaying"}]
           /\ work' \in [Slot -> Payload \cup {NoPayload}]
           /\ snap' \in [Slot -> Seq(Line)]
           /\ \A t \in Slot : /\ step'[t] = "executing" => work'[t] \in Payload
                              /\ step'[t] = "replaying" => snap'[t] # <<>> /\ snap'[t][1] \in Payload
                              /\ Len(snap'[t]) <= OutboxMax
<1>1. <<>> \in Seq(Line) /\ Len(<<>>) <= OutboxMax
  BY OutboxAssumption
<1>2. QED
  BY <1>1 DEF TasksEnd, TypeOK

LEMMA CentralTypes ==
    ASSUME TypeOK, NEW p \in Payload, MaybeTakes(p)
    PROVE  central' \in [Job -> {"waiting", "held", "settled"}]
BY DEF MaybeTakes, Takes, TypeOK, Payload

LEMMA HandOutTypes ==
    ASSUME TypeOK, NEW j \in Job, HandOut(j)
    PROVE  /\ central' \in [Job -> {"waiting", "held", "settled"}]
           /\ attempt' \in [Job -> 0 .. MaxAttempts]
           /\ attempt'[j] \in 1 .. MaxAttempts
BY AttemptsAssumption DEF HandOut, TypeOK

(* A write that may be cut short is one of three.                          *)
LEMMA CutSteps ==
    ASSUME TypeOK, NEW s \in Slot, WriteCutShort(s)
    PROVE  /\ central' \in [Job -> {"waiting", "held", "settled"}]
           /\ \E q \in Seq(Line) : Len(q) <= OutboxMax /\ outbox' \in CutShort(q)
<1>1. CASE /\ step[s] = "executing" /\ MaybeTakes(work[s])
           /\ outbox' \in CutShort(Buffered(outbox, work[s]))
  <2>1. work[s] \in Payload /\ work[s] \in Line
    BY <1>1 DEF TypeOK, Line
  <2>2. Buffered(outbox, work[s]) \in Seq(Line) /\ Len(Buffered(outbox, work[s])) <= OutboxMax
    BY <2>1, BufferedLines DEF TypeOK
  <2>3. QED
    BY <1>1, <2>1, <2>2, CentralTypes
<1>2. CASE /\ step[s] = "executing" /\ Takes(work[s])
           /\ HeadIsTorn /\ outbox' \in CutShort(Tail(outbox))
  <2>1. work[s] \in Payload
    BY <1>2 DEF TypeOK
  <2>2. Tail(outbox) \in Seq(Line) /\ Len(Tail(outbox)) <= OutboxMax
    BY <1>2, TailLines, OutboxAssumption DEF HeadIsTorn, TypeOK
  <2>3. QED
    BY <1>2, <2>1, <2>2, CentralTypes DEF MaybeTakes
<1>3. CASE /\ step[s] = "replaying" /\ (Takes(snap[s][1]) \/ Refuses)
           /\ outbox' \in CutShort(Tail(snap[s]))
  <2>1. snap[s] \in Seq(Line) /\ snap[s] # <<>> /\ snap[s][1] \in Payload /\ Len(snap[s]) <= OutboxMax
    BY <1>3 DEF TypeOK
  <2>2. Tail(snap[s]) \in Seq(Line) /\ Len(Tail(snap[s])) <= OutboxMax
    BY <2>1, TailLines, OutboxAssumption
  <2>3. QED
    BY <1>3, <2>1, <2>2, CentralTypes DEF MaybeTakes, Refuses
<1>4. QED
  BY <1>1, <1>2, <1>3 DEF WriteCutShort

(* Every step keeps every column, slot and line well typed.                *)
LEMMA NextTypes == TypeOK /\ [Next]_vars => TypeOK'
<1> SUFFICES ASSUME TypeOK, [Next]_vars PROVE TypeOK'
  OBVIOUS
<1> USE DEF slotVars
<1>1. ASSUME NEW s \in Slot, NEW j \in Job, Receive(s, j) PROVE TypeOK'
  <2>1. /\ central' \in [Job -> {"waiting", "held", "settled"}]
        /\ attempt' \in [Job -> 0 .. MaxAttempts]
        /\ [job |-> j, attempt |-> attempt'[j]] \in Payload
    BY <1>1, HandOutTypes DEF Receive, Payload
  <2>2. <<>> \in Seq(Line) /\ Len(<<>>) <= OutboxMax
    BY OutboxAssumption
  <2>3. /\ step' \in [Slot -> {"idle", "executing", "replaying"}]
        /\ work' \in [Slot -> Payload \cup {NoPayload}]
        /\ snap' \in [Slot -> Seq(Line)]
        /\ \A t \in Slot : /\ step'[t] = "executing" => work'[t] \in Payload
                           /\ step'[t] = "replaying" => snap'[t] # <<>> /\ snap'[t][1] \in Payload
                           /\ Len(snap'[t]) <= OutboxMax
    BY <1>1, <2>1, <2>2, PutTypes DEF Receive
  <2>4. QED
    BY <1>1, <2>1, <2>3 DEF Receive, TypeOK
<1>2. ASSUME NEW s \in Slot, ExecuteRaises(s) PROVE TypeOK'
  BY <1>2, FreeTypes DEF ExecuteRaises, TypeOK
<1>3. ASSUME NEW s \in Slot, SubmitTaken(s) PROVE TypeOK'
  <2>1. central' \in [Job -> {"waiting", "held", "settled"}]
    BY <1>3, CentralTypes DEF SubmitTaken, MaybeTakes, TypeOK
  <2>2. /\ step' \in [Slot -> {"idle", "executing", "replaying"}]
        /\ work' \in [Slot -> Payload \cup {NoPayload}]
        /\ snap' \in [Slot -> Seq(Line)]
        /\ \A t \in Slot : /\ step'[t] = "executing" => work'[t] \in Payload
                           /\ step'[t] = "replaying" => snap'[t] # <<>> /\ snap'[t][1] \in Payload
                           /\ Len(snap'[t]) <= OutboxMax
    <3>1. CASE outbox = <<>>
      BY <1>3, <3>1, FreeTypes DEF SubmitTaken
    <3>2. CASE outbox # <<>>
      <4>1. outbox \in Seq(Line) /\ Len(outbox) <= OutboxMax
        BY DEF TypeOK
      <4>2. outbox[1] \in Payload
        BY <1>3, <3>2, <4>1, TailLines DEF SubmitTaken, HeadIsTorn, Line
      <4>3. Put(s, "replaying", NoPayload, outbox)
        BY <1>3, <3>2 DEF SubmitTaken
      <4>4. QED
        BY <3>2, <4>1, <4>2, <4>3, PutTypes
    <3>3. QED
      BY <3>1, <3>2
  <2>3. QED
    BY <1>3, <2>1, <2>2 DEF SubmitTaken, TypeOK
<1>4. ASSUME NEW s \in Slot, SubmitRefused(s) PROVE TypeOK'
  BY <1>4, FreeTypes DEF SubmitRefused, Refuses, TypeOK
<1>5. ASSUME NEW s \in Slot, SubmitBuffered(s) PROVE TypeOK'
  <2>1. work[s] \in Payload /\ work[s] \in Line
    BY <1>5 DEF SubmitBuffered, TypeOK, Line
  <2>2. outbox' \in Seq(Line) /\ Len(outbox') <= OutboxMax
    BY <1>5, <2>1, BufferedLines DEF SubmitBuffered, TypeOK
  <2>3. owed' \subseteq Payload
    BY <1>5, <2>1 DEF SubmitBuffered, TypeOK
  <2>4. central' \in [Job -> {"waiting", "held", "settled"}]
    BY <1>5, <2>1, CentralTypes DEF SubmitBuffered
  <2>5. QED
    BY <1>5, <2>2, <2>3, <2>4, FreeTypes DEF SubmitBuffered, TypeOK
<1>6. ASSUME NEW s \in Slot, ReplayAnswered(s) PROVE TypeOK'
  <2>1. snap[s] \in Seq(Line) /\ snap[s] # <<>> /\ Len(snap[s]) <= OutboxMax
    BY <1>6 DEF ReplayAnswered, TypeOK
  <2>2. /\ Tail(snap[s]) \in Seq(Line) /\ Len(Tail(snap[s])) <= OutboxMax
        /\ snap[s][1] \in Payload
    BY <1>6, <2>1, TailLines, OutboxAssumption DEF ReplayAnswered, TypeOK
  <2>3. central' \in [Job -> {"waiting", "held", "settled"}]
    BY <1>6, <2>2, CentralTypes DEF ReplayAnswered, MaybeTakes, Refuses
  <2>4. QED
    BY <1>6, <2>2, <2>3, FreeTypes DEF ReplayAnswered, TypeOK
<1>7. ASSUME NEW s \in Slot, ReplayUnanswered(s) PROVE TypeOK'
  <2>1. snap[s][1] \in Payload
    BY <1>7 DEF ReplayUnanswered, TypeOK
  <2>2. central' \in [Job -> {"waiting", "held", "settled"}]
    BY <1>7, <2>1, CentralTypes DEF ReplayUnanswered
  <2>3. QED
    BY <1>7, <2>2, FreeTypes DEF ReplayUnanswered, TypeOK
<1>8. ASSUME NEW j \in Job, HandOutLost(j) PROVE TypeOK'
  BY <1>8, HandOutTypes DEF HandOutLost, TypeOK
<1>9. ASSUME NEW j \in Job, TakeBack(j) \/ Elsewhere(j) PROVE TypeOK'
  BY <1>9 DEF TakeBack, Elsewhere, TypeOK
<1>10. ASSUME NEW j \in Job, NewJob(j) PROVE TypeOK'
  BY <1>10, AttemptsAssumption DEF NewJob, TypeOK
<1>11. CASE Restart
  <2>1. <<>> \in Seq(Line) /\ Len(<<>>) <= OutboxMax
    BY OutboxAssumption
  <2>2. QED
    BY <1>11, <2>1, TasksEndTypes DEF Restart, TypeOK
<1>12. CASE UNCHANGED vars
  BY <1>12 DEF vars, TypeOK
<1>13. ASSUME NEW s \in Slot, TornDropped(s) PROVE TypeOK'
  <2>1. central' \in [Job -> {"waiting", "held", "settled"}]
    BY <1>13, CentralTypes DEF TornDropped, MaybeTakes, TypeOK
  <2>2. outbox' \in Seq(Line) /\ Len(outbox') <= OutboxMax
    BY <1>13, TailLines, OutboxAssumption DEF TornDropped, HeadIsTorn, TypeOK
  <2>3. QED
    BY <1>13, <2>1, <2>2, FreeTypes DEF TornDropped, TypeOK
<1>14. ASSUME NEW s \in Slot, WriteCutShort(s) PROVE TypeOK'
  <2>1. PICK q \in Seq(Line) : Len(q) <= OutboxMax /\ outbox' \in CutShort(q)
    BY <1>14, CutSteps
  <2>2. outbox' \in Seq(Line) /\ Len(outbox') <= OutboxMax
    BY <2>1, CutLines, OutboxAssumption
  <2>3. central' \in [Job -> {"waiting", "held", "settled"}]
    BY <1>14, CutSteps
  <2>4. /\ step' \in [Slot -> {"idle", "executing", "replaying"}]
        /\ work' \in [Slot -> Payload \cup {NoPayload}]
        /\ snap' \in [Slot -> Seq(Line)]
        /\ \A t \in Slot : /\ step'[t] = "executing" => work'[t] \in Payload
                           /\ step'[t] = "replaying" => snap'[t] # <<>> /\ snap'[t][1] \in Payload
                           /\ Len(snap'[t]) <= OutboxMax
    BY <1>14, FreeTypes, TasksEndTypes DEF WriteCutShort
  <2>5. QED
    BY <1>14, <2>2, <2>3, <2>4 DEF WriteCutShort, TypeOK
<1>15. ASSUME NEW s \in Slot, SubmitUnread(s) PROVE TypeOK'
  <2>1. work[s] \in Payload /\ work[s] \in Line
    BY <1>15 DEF SubmitUnread, TypeOK, Line
  <2>2. outbox' \in Seq(Line) /\ Len(outbox') <= OutboxMax
    <3>1. <<>> \in Seq(Line) /\ Len(<<>>) <= OutboxMax
      BY OutboxAssumption
    <3>2. QED
      BY <1>15, <2>1, <3>1, BufferedLines DEF SubmitUnread
  <2>3. owed' \subseteq Payload
    BY <1>15, <2>1 DEF SubmitUnread, TypeOK
  <2>4. central' \in [Job -> {"waiting", "held", "settled"}]
    BY <1>15, <2>1, CentralTypes DEF SubmitUnread
  <2>5. QED
    BY <1>15, <2>2, <2>3, <2>4, FreeTypes DEF SubmitUnread, TypeOK
<1>16. ASSUME NEW s \in Slot, FlushUnread(s) PROVE TypeOK'
  <2>1. central' \in [Job -> {"waiting", "held", "settled"}]
    BY <1>16, CentralTypes DEF FlushUnread, MaybeTakes, TypeOK
  <2>2. QED
    BY <1>16, <2>1, FreeTypes DEF FlushUnread, TypeOK
<1>17. ASSUME NEW s \in Slot, WriteRefused(s) PROVE TypeOK'
  <2>1. central' \in [Job -> {"waiting", "held", "settled"}]
    <3>1. CASE step[s] = "executing" /\ MaybeTakes(work[s])
      BY <3>1, CentralTypes DEF TypeOK
    <3>2. CASE step[s] = "replaying" /\ (Takes(snap[s][1]) \/ Refuses)
      BY <3>2, CentralTypes DEF MaybeTakes, Refuses, TypeOK
    <3>3. QED
      BY <1>17, <3>1, <3>2 DEF WriteRefused
  <2>2. owed' \subseteq Payload
    BY <1>17 DEF WriteRefused, TypeOK
  <2>3. QED
    BY <1>17, <2>1, <2>2, FreeTypes DEF WriteRefused, TypeOK
<1>18. QED
  BY <1>1, <1>2, <1>3, <1>4, <1>5, <1>6, <1>7, <1>8, <1>9, <1>10, <1>11, <1>12, <1>13, <1>14,
     <1>15, <1>16, <1>17
  DEF Next, Deliver

(* In every reachable state the worker and its file are well typed, and no *)
(* interleaving of buffering and replays grows the file beyond its limit.  *)
THEOREM OutboxTypeCorrect == Spec => []TypeOK
BY InitTypes, NextTypes, PTL DEF Spec

-----------------------------------------------------------------------------
(* Buffered results.                                                       *)

(* Five steps touch the file; the others forget results or change nothing. *)
LEMMA FileSteps ==
    ASSUME [Next]_vars
    PROVE  \/ UNCHANGED outbox /\ owed' \subseteq owed
           \/ \E s \in Slot : SubmitBuffered(s) \/ SubmitUnread(s)
           \/ \E s \in Slot : ReplayAnswered(s)
           \/ \E s \in Slot : TornDropped(s) \/ WriteCutShort(s)
<1>1. ASSUME NEW s \in Slot, Deliver(s)
      PROVE  \/ UNCHANGED <<outbox, owed>>
             \/ SubmitBuffered(s) \/ SubmitUnread(s) \/ ReplayAnswered(s) \/ TornDropped(s)
  BY <1>1 DEF Deliver, ExecuteRaises, SubmitTaken, SubmitRefused, ReplayUnanswered, FlushUnread
<1>2. ASSUME NEW j \in Job, \/ \E s \in Slot : Receive(s, j)
                            \/ HandOutLost(j) \/ TakeBack(j) \/ Elsewhere(j) \/ NewJob(j)
      PROVE  UNCHANGED outbox /\ owed' \subseteq owed
  BY <1>2 DEF Receive, HandOutLost, TakeBack, Elsewhere, NewJob
<1>3. ASSUME NEW s \in Slot, WriteRefused(s)
      PROVE  UNCHANGED outbox /\ owed' \subseteq owed
  BY <1>3 DEF WriteRefused
<1>4. CASE Restart \/ UNCHANGED vars
  BY <1>4 DEF Restart, vars
<1>5. QED
  BY <1>1, <1>2, <1>3, <1>4 DEF Next

(* Buffering loses only what it evicts, a replay only what it answered and *)
(* what it had not read.                                                   *)
LEMMA FileKeeps ==
    ASSUME TypeOK, [Next]_vars,
           NEW p \in (owed \cap owed') \cap Range(outbox), p \notin Range(outbox')
    PROVE  \E s \in Slot : \/ ReplayAnswered(s) /\ p \notin Range(snap[s])
                          \/ SubmitUnread(s)
<1>1. ASSUME NEW s \in Slot, SubmitBuffered(s) PROVE FALSE
  <2>1. work[s] \in Line /\ outbox \in Seq(Line) /\ Len(outbox) <= OutboxMax
    BY <1>1 DEF SubmitBuffered, TypeOK, Line
  <2>2. (Range(outbox) \ Evicted(outbox)) \cup {work[s]} \subseteq Range(outbox')
    BY <1>1, <2>1, BufferedLines DEF SubmitBuffered
  <2>3. p \in (owed \ Evicted(outbox)) \cup {work[s]}
    BY <1>1 DEF SubmitBuffered
  <2>4. QED
    BY <2>2, <2>3
<1>2. ASSUME NEW s \in Slot, ReplayAnswered(s) PROVE p \notin Range(snap[s])
  <2>1. snap[s] \in Seq(Line) /\ snap[s] # <<>>
    BY <1>2 DEF ReplayAnswered, TypeOK
  <2>2. Range(snap[s]) \subseteq Range(outbox') \cup {snap[s][1]}
    BY <1>2, <2>1, TailLines DEF ReplayAnswered
  <2>3. p # snap[s][1]
    BY <1>2 DEF ReplayAnswered
  <2>4. QED
    BY <2>2, <2>3
<1>3. ASSUME NEW s \in Slot, TornDropped(s) PROVE FALSE
  <2>1. Range(outbox) \subseteq Range(outbox') \cup {TornLine}
    BY <1>3, TailLines DEF TornDropped, HeadIsTorn, TypeOK
  <2>2. p \in Payload
    BY DEF TypeOK
  <2>3. QED
    BY <2>1, <2>2, TornAssumption
<1>4. ASSUME NEW s \in Slot, WriteCutShort(s) PROVE FALSE
  BY <1>4 DEF WriteCutShort
<1>5. QED
  BY <1>1, <1>2, <1>3, <1>4, FileSteps

(* Whatever the slots do, an unanswered result leaves the outbox only by   *)
(* eviction, in a write that is cut short, under a replay that had read    *)
(* the file before it, or under a task that could not read it at all.      *)
THEOREM LostOnlyUnreadHolds == Spec => LostOnlyUnread
<1>1. TypeOK /\ [Next]_vars =>
        \A p \in (owed \cap owed') \cap Range(outbox) :
          p \notin Range(outbox') =>
              \E s \in Slot : \/ ReplayAnswered(s) /\ p \notin Range(snap[s])
                             \/ SubmitUnread(s)
  BY FileKeeps
<1>2. QED
  BY <1>1, OutboxTypeCorrect, PTL DEF Spec, LostOnlyUnread

(* What becomes owed is in the file then.                                  *)
LEMMA OwedIsBuffered ==
    ASSUME TypeOK, [Next]_vars
    PROVE  owed' \ owed \subseteq Range(outbox')
<1>1. ASSUME NEW s \in Slot, SubmitBuffered(s) \/ SubmitUnread(s)
      PROVE  work[s] \in Range(outbox') /\ owed' \subseteq owed \cup {work[s]}
  <2>1. work[s] \in Line
    BY <1>1 DEF SubmitBuffered, SubmitUnread, TypeOK, Line
  <2>2. /\ outbox \in Seq(Line) /\ Len(outbox) <= OutboxMax
        /\ <<>> \in Seq(Line) /\ Len(<<>>) <= OutboxMax
    BY OutboxAssumption DEF TypeOK
  <2>3. work[s] \in Range(Buffered(outbox, work[s])) /\ work[s] \in Range(Buffered(<<>>, work[s]))
    BY <2>1, <2>2, BufferedLines
  <2>4. QED
    BY <1>1, <2>3 DEF SubmitBuffered, SubmitUnread
<1>2. ASSUME NEW s \in Slot, ReplayAnswered(s) \/ TornDropped(s) \/ WriteCutShort(s)
      PROVE  owed' \subseteq owed
  BY <1>2 DEF ReplayAnswered, TornDropped, WriteCutShort
<1>3. QED
  BY <1>1, <1>2, FileSteps

(* With one slot nothing happens to the file while a replay is under way.  *)
FreshInv == \A s \in Slot : step[s] = "replaying" => snap[s] = outbox

LEMMA FreshStep ==
    ASSUME \A s, t \in Slot : s = t
    PROVE  TypeOK /\ FreshInv /\ [Next]_vars => FreshInv'
<1> SUFFICES ASSUME TypeOK, FreshInv, [Next]_vars PROVE FreshInv'
  OBVIOUS
<1> USE DEF FreshInv
<1>1. ASSUME NEW s \in Slot, Free(s) PROVE FreshInv'
  BY <1>1 DEF Free, Put, TypeOK
<1>2. ASSUME NEW s \in Slot, SubmitTaken(s) PROVE FreshInv'
  BY <1>2 DEF SubmitTaken, Free, Put, TypeOK
<1>3. ASSUME NEW s \in Slot, NEW j \in Job, Receive(s, j) PROVE FreshInv'
  BY <1>3 DEF Receive, Put, TypeOK
<1>4. ASSUME NEW j \in Job, HandOutLost(j) \/ TakeBack(j) \/ Elsewhere(j) \/ NewJob(j)
      PROVE  FreshInv'
  BY <1>4 DEF HandOutLost, TakeBack, Elsewhere, NewJob, slotVars
<1>5. ASSUME TasksEnd PROVE FreshInv'
  BY <1>5 DEF TasksEnd
<1>6. CASE UNCHANGED vars
  BY <1>6 DEF vars
<1> HIDE DEF FreshInv
<1>7. ASSUME NEW s \in Slot, Deliver(s) \/ WriteRefused(s) \/ WriteCutShort(s)
      PROVE  FreshInv'
  BY <1>1, <1>2, <1>5, <1>7
  DEF Deliver, ExecuteRaises, TornDropped, SubmitRefused, SubmitBuffered, SubmitUnread,
      FlushUnread, ReplayAnswered, ReplayUnanswered, WriteRefused, WriteCutShort
<1>8. QED
  BY <1>3, <1>4, <1>5, <1>6, <1>7 DEF Next, Restart

LEMMA FreshHolds ==
    ASSUME \A s, t \in Slot : s = t
    PROVE  Spec => [](TypeOK /\ FreshInv)
<1>1. Init => FreshInv
  BY DEF Init, FreshInv
<1>2. TypeOK /\ FreshInv /\ [Next]_vars => FreshInv'
  BY FreshStep
<1>3. QED
  BY <1>1, <1>2, OutboxTypeCorrect, PTL DEF Spec

(* What one slot's replay read is what it writes back, less the answered.  *)
LEMMA FreshKeeps ==
    ASSUME TypeOK, FreshInv, [Next]_vars,
           NEW p \in (owed \cap owed') \cap Range(outbox), p \notin Range(outbox')
    PROVE  \E s \in Slot : SubmitUnread(s)
<1>1. PICK s \in Slot : \/ ReplayAnswered(s) /\ p \notin Range(snap[s])
                       \/ SubmitUnread(s)
  BY FileKeeps
<1>2. ~ (ReplayAnswered(s) /\ p \notin Range(snap[s]))
  BY DEF FreshInv, ReplayAnswered
<1>3. QED
  BY <1>1, <1>2

(* A worker with capacity one loses a buffered result that was neither     *)
(* answered nor evicted in one way only, writes that are cut short aside:  *)
(* it could not read the file when it buffered the next one.               *)
THEOREM OneSlotLosesOnlyUnread ==
    ASSUME \A s, t \in Slot : s = t
    PROVE  Spec => [][\A p \in (owed \cap owed') \cap Range(outbox) :
                         p \notin Range(outbox') => \E s \in Slot : SubmitUnread(s)]_vars
<1>1. TypeOK /\ FreshInv /\ [Next]_vars =>
        \A p \in (owed \cap owed') \cap Range(outbox) :
          p \notin Range(outbox') => \E s \in Slot : SubmitUnread(s)
  BY FreshKeeps
<1>2. QED
  BY <1>1, FreshHolds, PTL DEF Spec

(* A worker with capacity one whose reads never fail loses no buffered     *)
(* result: what it could not deliver stays in the file until it is         *)
(* answered, evicted or lost in a write that is cut short, over any        *)
(* restarts, lost answers, refusals and files it cannot open for writing.  *)
THEOREM OneSlotKeepsBuffered ==
    ASSUME \A s, t \in Slot : s = t, ~ ReadsFail
    PROVE  Spec => []BufferedKept
<1>1. Init => BufferedKept
  BY DEF Init, BufferedKept
<1>2. TypeOK /\ FreshInv /\ BufferedKept /\ [Next]_vars => BufferedKept'
  <2> SUFFICES ASSUME TypeOK, FreshInv, BufferedKept, [Next]_vars, NEW p \in owed'
               PROVE  p \in Range(outbox')
    BY DEF BufferedKept
  <2>1. CASE p \notin owed
    BY <2>1, OwedIsBuffered
  <2>2. CASE p \in owed
    <3>1. p \in Range(outbox)
      BY <2>2 DEF BufferedKept
    <3>2. ~ \E s \in Slot : SubmitUnread(s)
      BY DEF SubmitUnread
    <3>3. QED
      BY <2>2, <3>1, <3>2, FreshKeeps
  <2>3. QED
    BY <2>1, <2>2
<1>3. QED
  BY <1>1, <1>2, FreshHolds, PTL DEF Spec

=============================================================================
