------------------------------ MODULE JobLedger ------------------------------
(***************************************************************************)
(* What the dispatch queue promises, without threads, retries, long polls  *)
(* or crashes: a job is offered once, is held by at most one runner at a   *)
(* time, comes back from a runner that lost it, and once settled leaves    *)
(* that state only when an operator revives it.                            *)
(*                                                                         *)
(* A job may settle while it waits: its results may be accepted just as    *)
(* the reaper takes it back from the runner that sent them.                *)
(***************************************************************************)
EXTENDS Naturals

CONSTANTS Job, Runner, NoRunner

VARIABLES
    phase,      \* "absent", "waiting", "held" or "settled"
    holder,     \* the runner that holds a held job
    revivals    \* how often an operator revived each job

ledgerVars == <<phase, holder, revivals>>

Init ==
    /\ phase = [j \in Job |-> "absent"]
    /\ holder = [j \in Job |-> NoRunner]
    /\ revivals = [j \in Job |-> 0]

Move(S, p, h) ==
    /\ phase' = [j \in Job |-> IF j \in S THEN p ELSE phase[j]]
    /\ holder' = [j \in Job |-> IF j \in S THEN h ELSE holder[j]]

InPhase(S, P) == \A j \in S : phase[j] \in P

Offer(j) ==
    InPhase({j}, {"absent"}) /\ Move({j}, "waiting", NoRunner) /\ UNCHANGED revivals

(* A set, because one claim hands out as many jobs as the runner can take. *)
Take(S, r) ==
    InPhase(S, {"waiting"}) /\ Move(S, "held", r) /\ UNCHANGED revivals

(* A set, because deleting a runner gives back all it holds at once.       *)
GiveBack(S, r) ==
    /\ InPhase(S, {"held"}) /\ \A j \in S : holder[j] = r
    /\ Move(S, "waiting", NoRunner)
    /\ UNCHANGED revivals

Settle(j) ==
    /\ InPhase({j}, {"waiting", "held"})
    /\ Move({j}, "settled", NoRunner)
    /\ UNCHANGED revivals

Revive(j) ==
    /\ InPhase({j}, {"settled"})
    /\ Move({j}, "waiting", NoRunner)
    /\ revivals' = [revivals EXCEPT ![j] = @ + 1]

Next ==
    \/ \E j \in Job : Offer(j) \/ Settle(j) \/ Revive(j)
    \/ \E S \in SUBSET Job, r \in Runner : Take(S, r) \/ GiveBack(S, r)

Spec == Init /\ [][Next]_ledgerVars

=============================================================================
