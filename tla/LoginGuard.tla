----------------------------- MODULE LoginGuard -----------------------------
(***************************************************************************)
(* The two limits on failed sign-ins that POST /auth/login consults        *)
(* (web/routes/auth.py): the lock of a local account, kept in its row      *)
(* (harness/db/_users.py, harness/auth_manager.py), and the limiter of     *)
(* failures per client address, kept in memory (web/ratelimit.py). The     *)
(* limiter of /setup is another instance of the same class.                *)
(*                                                                         *)
(* Time is counted in ticks; the code's constants are 10 failures and 15   *)
(* minutes for the lock, 20 failures in 5 minutes and 10,000 addresses for *)
(* the limiter.                                                            *)
(***************************************************************************)
EXTENDS FiniteSets, Naturals, Sequences

CONSTANTS
    Login,       \* names of local accounts
    Address,     \* client addresses
    LockAt,      \* failures that lock an account
    LockFor,     \* how long a lock lasts
    MaxEvents,   \* failures of an address in a window
    Window,      \* the length of the window
    MaxKeys,     \* addresses the limiter remembers
    MaxTime      \* bound: the clock

ASSUME GuardAssumption ==
    /\ LockAt \in Nat \ {0} /\ LockFor \in Nat \ {0}
    /\ MaxEvents \in Nat \ {0} /\ Window \in Nat \ {0} /\ MaxKeys \in Nat \ {0}

VARIABLES
    now,
    fails,       \* users.failed_login_count, up to LockAt
    lockedUntil, \* users.locked_until, 0 for NULL
    events,      \* the limiter's deque of each address, oldest first
    lastFail,    \* history: when an account's last failure was counted
    recent       \* history: the failures of an address inside the window,
                 \* since a restart or the limit of keys lost others

lockVars == <<fails, lockedUntil, lastFail>>
limitVars == <<events, recent>>
guardVars == <<now, lockVars, limitVars>>

GuardInit ==
    /\ now = 1
    /\ fails = [u \in Login |-> 0]
    /\ lockedUntil = [u \in Login |-> 0]
    /\ events = [a \in Address |-> <<>>]
    /\ lastFail = [u \in Login |-> 0]
    /\ recent = [a \in Address |-> <<>>]

-----------------------------------------------------------------------------
(* SlidingWindowLimiter. An address without events has no key.             *)

(* The events that the loop of _prune pops, and those that it leaves.      *)
Expired(q, t) == {i \in DOMAIN q : \A j \in 1 .. i : q[j] + Window <= t}
Young(q, t) == SubSeq(q, Cardinality(Expired(q, t)) + 1, Len(q))

(* For the history: all but as many events as are out of the window.       *)
Within(q, t) == SubSeq(q, Cardinality({i \in DOMAIN q : q[i] + Window <= t}) + 1, Len(q))

(* _prune: the deque of one address, at the time of the call.              *)
Prune(ev, a) == [ev EXCEPT ![a] = Young(@, now)]
Sweep(ev) == [a \in Address |-> Young(ev[a], now)]

Tracked(ev) == {a \in Address : ev[a] # <<>>}
Newest(ev, a) == ev[a][Len(ev[a])]
Stalest(ev) ==
    {a \in Tracked(ev) : \A b \in Tracked(ev) : Newest(ev, a) <= Newest(ev, b)}

(* Mutant: a full limiter is swept and nothing more.                       *)
MakeRoomBySweep(ev, a) ==
    {IF a \notin Tracked(ev) /\ Cardinality(Tracked(ev)) >= MaxKeys
     THEN Sweep(ev) ELSE ev}

(* A new key may cost the one that was hit longest ago its events.         *)
MakeRoom(ev, a) ==
    IF a \in Tracked(ev) \/ Cardinality(Tracked(ev)) < MaxKeys THEN {ev}
    ELSE IF Cardinality(Tracked(Sweep(ev))) < MaxKeys THEN {Sweep(ev)}
    ELSE {[Sweep(ev) EXCEPT ![b] = <<>>] : b \in Stalest(Sweep(ev))}

(* hit, after the is_limited that precedes it in the handler.              *)
Hit(a) ==
    \E ev \in MakeRoom(Prune(events, a), a) :
        /\ events' = [ev EXCEPT ![a] = Append(@, now)]
        /\ recent' = [b \in Address |->
                         IF b = a THEN Append(recent[a], now)
                         ELSE IF ev[b] = <<>> THEN <<>> ELSE recent[b]]

(* Mutant: the limiter lets one failure too many pass.                     *)
LimitedOneMore(q, t) == Len(Young(q, t)) > MaxEvents

Limited(q, t) == Len(Young(q, t)) >= MaxEvents

(* retry_after                                                             *)
RetryAfter(q, t) ==
    LET live == Young(q, t)
    IN  IF ~Limited(q, t) THEN 0
        ELSE live[Len(live) - MaxEvents + 1] + Window + 1 - t

-----------------------------------------------------------------------------
(* POST /auth/login.                                                       *)

Locked(u) == lockedUntil[u] > now

(* Too many failures from the address: 429, and the deque is pruned.       *)
Refused(a) ==
    /\ Limited(events[a], now)
    /\ events' = Prune(events, a)
    /\ UNCHANGED <<now, lockVars, recent>>

(* Mutant: a success leaves the failures counted.                          *)
PassesKeepsCount(a, u) ==
    /\ ~Limited(events[a], now) /\ ~Locked(u)
    /\ lockedUntil' = [lockedUntil EXCEPT ![u] = 0]
    /\ events' = Prune(events, a)
    /\ UNCHANGED <<now, fails, lastFail, recent>>

(* The right password, and no lock that still lasts.                       *)
Passes(a, u) ==
    /\ ~Limited(events[a], now) /\ ~Locked(u)
    /\ fails' = [fails EXCEPT ![u] = 0]
    /\ lockedUntil' = [lockedUntil EXCEPT ![u] = 0]
    /\ events' = Prune(events, a)
    /\ UNCHANGED <<now, lastFail, recent>>

(* The wrong password, an inactive account, or the right one of a locked   *)
(* account, whose lock starts anew.                                        *)
Fails(a, u) ==
    /\ ~Limited(events[a], now)
    /\ LET n == IF fails[u] < LockAt THEN fails[u] + 1 ELSE LockAt
       IN  /\ fails' = [fails EXCEPT ![u] = n]
           /\ lockedUntil' = [lockedUntil EXCEPT ![u] = IF n >= LockAt THEN now + LockFor ELSE 0]
    /\ lastFail' = [lastFail EXCEPT ![u] = now]
    /\ Hit(a)
    /\ UNCHANGED now

(* A name that no local account has.                                       *)
FailsUnknown(a) ==
    /\ ~Limited(events[a], now)
    /\ Hit(a)
    /\ UNCHANGED <<now, lockVars>>

Tick ==
    /\ now < MaxTime /\ now' = now + 1
    /\ recent' = [a \in Address |-> Within(recent[a], now')]
    /\ UNCHANGED <<lockVars, events>>

(* The limiter lives in memory, the lock in the database.                  *)
Restart ==
    /\ events' = [a \in Address |-> <<>>]
    /\ recent' = events'
    /\ UNCHANGED <<now, lockVars>>

GuardNext ==
    \/ \E a \in Address :
          \/ Refused(a) \/ FailsUnknown(a)
          \/ \E u \in Login : Passes(a, u) \/ Fails(a, u)
    \/ Tick \/ Restart

GuardSpec == GuardInit /\ [][GuardNext]_guardVars

-----------------------------------------------------------------------------
(* What must hold.                                                         *)

(* The lock of an account follows its failures since the last success: it  *)
(* is set exactly when these have reached the limit, and it ends LockFor   *)
(* after the last of them, so that one failure after its end locks again.  *)
LockFollowsFailures ==
    \A u \in Login :
        /\ lockedUntil[u] # 0 <=> fails[u] >= LockAt
        /\ lockedUntil[u] # 0 => lockedUntil[u] = lastFail[u] + LockFor

(* No address fails more than MaxEvents times within any window, and none  *)
(* is refused that has failed less often, although the limiter prunes an   *)
(* address only when it comes back or when the keys run out. Failures that *)
(* a restart or the limit of keys made the limiter forget do not count.    *)
LimiterCounts ==
    \A a \in Address :
        /\ Len(recent[a]) <= MaxEvents
        /\ Limited(events[a], now) <=> Len(recent[a]) >= MaxEvents

(* Whatever addresses fail, the limiter remembers at most MaxKeys of them, *)
(* and the Retry-After it gives is long enough and at most one tick longer *)
(* than it has to be.                                                      *)
LimiterBounded ==
    /\ Cardinality(Tracked(events)) <= MaxKeys
    /\ \A a \in Address :
          LET wait == RetryAfter(events[a], now)
          IN  Limited(events[a], now) =>
                 /\ ~Limited(events[a], now + wait)
                 /\ wait > 1 => Limited(events[a], now + wait - 2)

=============================================================================
