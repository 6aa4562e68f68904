---------------------------- MODULE WorkerOutbox ----------------------------
(***************************************************************************)
(* A remote worker (worker/worker.py): its task slots, and the outbox file *)
(* that keeps the results it could not deliver.                            *)
(*                                                                         *)
(* The slots are asyncio tasks of one event loop, so only an await lets    *)
(* another slot in. The one that matters is the POST of a replay: the      *)
(* task has read the file before it and writes the file after it. All else *)
(* a task does with the file is one action.                                *)
(*                                                                         *)
(* The central side is reduced to what a worker can tell: whether a job is *)
(* waiting, held by this worker or settled; WorkerDispatch has the rest.   *)
(* A job that has left no trace may be reused, which stands for an endless *)
(* supply of jobs. Left out: heartbeats and volume probes, screenshots;    *)
(* the execution of the tests is in TestExecution.                         *)
(***************************************************************************)
EXTENDS Naturals, Sequences, FiniteSets, Functions

CONSTANTS
    Job,          \* jobs the central hands out
    Slot,         \* task slots, HARNESS_CAPACITY of them
    OutboxMax,    \* HARNESS_OUTBOX_MAX
    MaxAttempts,  \* hand-outs of one job: the central's max_retries + 1
    TornLine,     \* a line of the file that is cut off, and so no JSON
    ReadsFail     \* whether reading the file may fail with an OSError

ASSUME OutboxAssumption == OutboxMax \in Nat \ {0}
ASSUME AttemptsAssumption == MaxAttempts \in Nat \ {0}
ASSUME ReadsAssumption == ReadsFail \in BOOLEAN

VARIABLES
    central,   \* the job's state as the central sees it
    attempt,   \* how often the job has been handed out
    step,      \* what each slot is doing
    work,      \* the payload it is producing or delivering
    snap,      \* the outbox lines it read before it began to replay
    outbox,    \* the lines of the outbox file
    owed       \* history: buffered, and neither answered nor evicted since,
               \* nor lost in a write that was cut short

vars == <<central, attempt, step, work, snap, outbox, owed>>
slotVars == <<step, work, snap>>

(* The attempt is not part of the JSON; it tells the payloads apart.       *)
Payload == [job : Job, attempt : 1 .. MaxAttempts]
NoPayload == [job |-> "none", attempt |-> 0]
Line == Payload \cup {TornLine}

ASSUME TornAssumption == TornLine \notin Payload

(* Columns, slots and file hold values of their kind, and the file never   *)
(* exceeds HARNESS_OUTBOX_MAX lines.                                       *)
TypeOK ==
    /\ central \in [Job -> {"waiting", "held", "settled"}]
    /\ attempt \in [Job -> 0 .. MaxAttempts]
    /\ step \in [Slot -> {"idle", "executing", "replaying"}]
    /\ work \in [Slot -> Payload \cup {NoPayload}]
    /\ snap \in [Slot -> Seq(Line)]
    /\ outbox \in Seq(Line) /\ Len(outbox) <= OutboxMax
    /\ owed \subseteq Payload
    /\ \A s \in Slot :
          /\ step[s] = "executing" => work[s] \in Payload
          /\ step[s] = "replaying" => snap[s] # <<>> /\ snap[s][1] \in Payload
          /\ Len(snap[s]) <= OutboxMax

(* The worker starts with the file its predecessor left empty.             *)
Init ==
    /\ central = [j \in Job |-> "waiting"]
    /\ attempt = [j \in Job |-> 0]
    /\ step = [s \in Slot |-> "idle"]
    /\ work = [s \in Slot |-> NoPayload]
    /\ snap = [s \in Slot |-> <<>>]
    /\ outbox = <<>>
    /\ owed = {}

Put(s, st, p, lines) ==
    /\ step' = [step EXCEPT ![s] = st]
    /\ work' = [work EXCEPT ![s] = p]
    /\ snap' = [snap EXCEPT ![s] = lines]
Free(s) == Put(s, "idle", NoPayload, <<>>)

-----------------------------------------------------------------------------
(* The central.                                                            *)

HandOut(j) ==
    /\ central[j] = "waiting" /\ attempt[j] < MaxAttempts
    /\ central' = [central EXCEPT ![j] = "held"]
    /\ attempt' = [attempt EXCEPT ![j] = @ + 1]

(* The poll's answer reaches no one: the worker was restarted or gave up.  *)
HandOutLost(j) == HandOut(j) /\ UNCHANGED <<slotVars, outbox, owed>>

(* The reaper requeues a job it finds stuck, or fails it.                  *)
TakeBack(j) ==
    /\ central[j] = "held"
    /\ central' = [central EXCEPT ![j] =
                     IF attempt[j] < MaxAttempts THEN "waiting" ELSE "settled"]
    /\ UNCHANGED <<attempt, slotVars, outbox, owed>>

(* Another worker takes a requeued job and settles it.                     *)
Elsewhere(j) ==
    /\ central[j] = "waiting"
    /\ central' = [central EXCEPT ![j] = "settled"]
    /\ UNCHANGED <<attempt, slotVars, outbox, owed>>

(* A settled job that has left no trace in the worker stands for a new one. *)
NewJob(j) ==
    /\ central[j] = "settled"
    /\ \A s \in Slot : work[s].job # j
    /\ \A p \in Range(outbox) \cup UNION {Range(snap[s]) : s \in Slot} :
          p # TornLine => p.job # j
    /\ central' = [central EXCEPT ![j] = "waiting"]
    /\ attempt' = [attempt EXCEPT ![j] = 0]
    /\ owed' = {p \in owed : p.job # j}
    /\ UNCHANGED <<slotVars, outbox>>

(* POST /results: the central takes a payload for a job this worker holds, *)
(* whichever of its hand-outs the payload came from. It may refuse any     *)
(* payload with a 4xx: 409, 403, 413, 400.                                 *)
Takes(p) ==
    central[p.job] = "held" /\ central' = [central EXCEPT ![p.job] = "settled"]
Refuses == UNCHANGED central

(* What the worker cannot tell apart: the central was not reached or       *)
(* answered 5xx, or it took the payload and the answer was lost.           *)
MaybeTakes(p) == Takes(p) \/ UNCHANGED central

-----------------------------------------------------------------------------
(* The outbox file.                                                        *)

(* Mutants: a full file loses its newest line; it grows by one line too    *)
(* many.                                                                   *)
BufferedNewest(lines, p) ==
    Append(IF Len(lines) >= OutboxMax THEN SubSeq(lines, 1, OutboxMax - 1) ELSE lines, p)
BufferedOneMore(lines, p) ==
    Append(IF Len(lines) > OutboxMax THEN Tail(lines) ELSE lines, p)

(* outbox_append: a full file loses its oldest line to the new one.        *)
Buffered(lines, p) ==
    Append(IF Len(lines) >= OutboxMax THEN Tail(lines) ELSE lines, p)

Evicted(lines) == IF Len(lines) >= OutboxMax THEN {lines[1]} ELSE {}

HeadIsTorn == outbox # <<>> /\ outbox[1] = TornLine

(* Every write truncates the file first: a kill, or a full disk, may leave *)
(* less of what it writes: whole lines, and perhaps a part of the next.     *)
CutShort(lines) ==
    UNION {{SubSeq(lines, 1, n), Append(SubSeq(lines, 1, n), TornLine)} : n \in 0 .. Len(lines) - 1}

-----------------------------------------------------------------------------
(* The slots.                                                              *)

(* poll_loop starts a task for a job it was handed.                        *)
Receive(s, j) ==
    /\ step[s] = "idle"
    /\ HandOut(j)
    /\ Put(s, "executing", [job |-> j, attempt |-> attempt'[j]], <<>>)
    /\ UNCHANGED <<outbox, owed>>

(* execute_job raises, or returns early with too few values to unpack: the *)
(* exception is logged and nothing is submitted.                           *)
ExecuteRaises(s) ==
    /\ step[s] = "executing"
    /\ Free(s)
    /\ UNCHANGED <<central, attempt, outbox, owed>>

(* submit_results is answered 2xx; the task goes on to replay one entry.   *)
SubmitTaken(s) ==
    /\ step[s] = "executing"
    /\ Takes(work[s])
    /\ ~HeadIsTorn
    /\ IF outbox = <<>> THEN Free(s) ELSE Put(s, "replaying", NoPayload, outbox)
    /\ UNCHANGED <<attempt, outbox, owed>>

(* The entry is no JSON: it is dropped and no other one is replayed.       *)
TornDropped(s) ==
    /\ step[s] = "executing"
    /\ Takes(work[s])
    /\ HeadIsTorn
    /\ outbox' = Tail(outbox)
    /\ Free(s)
    /\ UNCHANGED <<attempt, owed>>

SubmitRefused(s) ==
    /\ step[s] = "executing"
    /\ Refuses
    /\ Free(s)
    /\ UNCHANGED <<attempt, outbox, owed>>

SubmitBuffered(s) ==
    /\ step[s] = "executing"
    /\ MaybeTakes(work[s])
    /\ outbox' = Buffered(outbox, work[s])
    /\ owed' = (owed \ Evicted(outbox)) \cup {work[s]}
    /\ Free(s)
    /\ UNCHANGED attempt

(* The read in outbox_append fails: the code goes on as with an empty      *)
(* file and overwrites it.                                                 *)
SubmitUnread(s) ==
    /\ ReadsFail
    /\ step[s] = "executing"
    /\ MaybeTakes(work[s])
    /\ outbox' = Buffered(<<>>, work[s])
    /\ owed' = owed \cup {work[s]}
    /\ Free(s)
    /\ UNCHANGED attempt

(* The read in outbox_flush_one fails: no entry is replayed.               *)
FlushUnread(s) ==
    /\ ReadsFail
    /\ step[s] = "executing"
    /\ Takes(work[s])
    /\ Free(s)
    /\ UNCHANGED <<attempt, outbox, owed>>

(* Mutant: a refused entry stays at the head of the file.                  *)
ReplayAnsweredKeepsRefused(s) ==
    /\ step[s] = "replaying"
    /\ \/ Takes(snap[s][1]) /\ outbox' = Tail(snap[s])
       \/ Refuses /\ UNCHANGED outbox
    /\ owed' = owed \ {snap[s][1]}
    /\ Free(s)
    /\ UNCHANGED attempt

(* outbox_flush_one: the POST of the first line read is answered 2xx or    *)
(* 4xx, and the file becomes the other lines read.                         *)
ReplayAnswered(s) ==
    /\ step[s] = "replaying"
    /\ Takes(snap[s][1]) \/ Refuses
    /\ outbox' = Tail(snap[s])
    /\ owed' = owed \ {snap[s][1]}
    /\ Free(s)
    /\ UNCHANGED attempt

(* The POST of the first line read fails: the file is left alone.          *)
ReplayUnanswered(s) ==
    /\ step[s] = "replaying"
    /\ MaybeTakes(snap[s][1])
    /\ Free(s)
    /\ UNCHANGED <<attempt, outbox, owed>>

TasksEnd ==
    /\ step' = [s \in Slot |-> "idle"]
    /\ work' = [s \in Slot |-> NoPayload]
    /\ snap' = [s \in Slot |-> <<>>]

(* The worker is stopped and started: tasks are gone, the file stays.      *)
Restart ==
    /\ \E s \in Slot : step[s] # "idle"
    /\ TasksEnd
    /\ UNCHANGED <<central, attempt, outbox, owed>>

(* The file cannot be opened for writing, or its directory not created: it *)
(* stays as it is, without the new payload or still with the answered one. *)
WriteRefused(s) ==
    /\ \/ step[s] = "executing" /\ MaybeTakes(work[s]) /\ UNCHANGED owed
       \/ /\ step[s] = "replaying" /\ (Takes(snap[s][1]) \/ Refuses)
          /\ owed' = owed \ {snap[s][1]}
    /\ Free(s)
    /\ UNCHANGED <<attempt, outbox>>

(* One of the three writes is cut short. A full disk ends the task alone.  *)
WriteCutShort(s) ==
    /\ \/ /\ step[s] = "executing" /\ MaybeTakes(work[s])
          /\ outbox' \in CutShort(Buffered(outbox, work[s]))
       \/ /\ step[s] = "executing" /\ Takes(work[s])
          /\ HeadIsTorn
          /\ outbox' \in CutShort(Tail(outbox))
       \/ /\ step[s] = "replaying" /\ (Takes(snap[s][1]) \/ Refuses)
          /\ outbox' \in CutShort(Tail(snap[s]))
    /\ owed' = owed \cap Range(outbox')
    /\ Free(s) \/ TasksEnd
    /\ UNCHANGED attempt

Deliver(s) ==
    \/ ExecuteRaises(s)
    \/ SubmitTaken(s)
    \/ TornDropped(s)
    \/ SubmitRefused(s)
    \/ SubmitBuffered(s)
    \/ SubmitUnread(s)
    \/ FlushUnread(s)
    \/ ReplayAnswered(s)
    \/ ReplayUnanswered(s)

Next ==
    \/ \E s \in Slot : Deliver(s) \/ WriteRefused(s) \/ WriteCutShort(s)
    \/ \E s \in Slot, j \in Job : Receive(s, j)
    \/ \E j \in Job : HandOutLost(j) \/ TakeBack(j) \/ Elsewhere(j) \/ NewJob(j)
    \/ Restart

Spec == Init /\ [][Next]_vars

(* Every POST is answered or times out after 30 seconds, and every test    *)
(* the worker runs has a timeout. No fairness for the central or restarts. *)
Fairness == \A s \in Slot : WF_vars(Deliver(s))

LiveSpec == Spec /\ Fairness

-----------------------------------------------------------------------------
(* Properties.                                                             *)

(* A result that could not be delivered stays in the outbox until the      *)
(* central answers its replay or a newer one evicts it. True of a worker   *)
(* with one slot whose reads never fail; with more slots, a replay writes  *)
(* back what it read and loses what another slot buffered meanwhile.       *)
BufferedKept == owed \subseteq Range(outbox)

(* A buffered result disappears unanswered in two ways only, writes that   *)
(* are cut short aside: a replay ends whose task had read the file before  *)
(* the result was in it, or another result is buffered by a task that      *)
(* could not read the file.                                                *)
LostOnlyUnread ==
    [][\A p \in (owed \cap owed') \cap Range(outbox) :
          p \notin Range(outbox') =>
              \E s \in Slot : \/ ReplayAnswered(s) /\ p \notin Range(snap[s])
                             \/ SubmitUnread(s)]_vars

(* docs/guides/remote-workers.md: a replay for a job that was handed out   *)
(* again is answered 409. It is taken when this worker holds the job again. *)
ReplayIsCurrent ==
    [][\A s \in Slot : step[s] = "replaying" =>
          LET p == snap[s][1] IN
          Takes(p) /\ Free(s) => p.attempt = attempt[p.job]]_vars

(* As long as replays keep being answered no entry stays in the outbox for *)
(* ever: neither refused entries nor torn lines block it, and a replay     *)
(* that writes back an old copy of the file does not undo the progress of  *)
(* the others. A torn line leaves it too, once no more are added.          *)
EntriesLeave ==
    []<><<\E s \in Slot : ReplayAnswered(s) \/ TornDropped(s)>>_vars =>
        /\ \A p \in Payload : p \in Range(outbox) ~> p \notin Range(outbox)
        /\ <>[][\A s \in Slot : ~WriteCutShort(s)]_vars =>
              (TornLine \in Range(outbox) ~> TornLine \notin Range(outbox))

=============================================================================
