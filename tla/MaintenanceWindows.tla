------------------------- MODULE MaintenanceWindows -------------------------
(***************************************************************************)
(* The maintenance windows in the database                                 *)
(* (harness/db/_maintenance_windows.py), the routes that edit them         *)
(* (web/routes/api.py, web/routes/admin_maintenance.py), and the question  *)
(* whether one is open (is_in_maintenance of harness/maintenance.py).      *)
(*                                                                         *)
(* Time is counted in slots: DayLength of them make a day, and WeekLength  *)
(* days a week. A text field holds a time of day, a timestamp or nothing.  *)
(* Left out: names and descriptions, time zones, text that is neither, the *)
(* windows of config.yaml, which are no rows but are looked at the same    *)
(* way, and letter case in the names of apps.                              *)
(***************************************************************************)
EXTENDS Integers

CONSTANTS
    Window,         \* rows
    NoWindow,
    WindowApp,      \* names of apps
    WindowEnv,      \* and of environments
    AnyTarget,      \* no app, or no environment
    DayLength,
    WeekLength,
    Time,           \* the instants at which the question is asked
    ClockTime,      \* values of start_time and end_time
    Timestamp,
    NoText,
    Duration,       \* 0 stands for none
    Weekdays,       \* values of days_of_week; the empty set stands for none
    CronField       \* values of cron: day and slot of a weekly firing, or NoText

Text == [clock : ClockTime] \cup [at : Timestamp] \cup {NoText}

ASSUME WindowAssumption ==
    /\ DayLength \in Nat \ {0} /\ WeekLength \in Nat \ {0}
    /\ Time \subseteq Nat /\ Timestamp \subseteq Nat
    /\ ClockTime \subseteq 0 .. DayLength - 1
    /\ Duration \subseteq Nat /\ 0 \in Duration
    /\ Weekdays \subseteq SUBSET (0 .. WeekLength - 1) /\ {} \in Weekdays
    /\ CronField \ {NoText} \subseteq (0 .. WeekLength - 1) \X (0 .. DayLength - 1)
    /\ NoText \in CronField
    /\ AnyTarget \notin WindowApp \cup WindowEnv

VARIABLE windows

Row == [type : {"range", "cron", "weekly"}, enabled : BOOLEAN,
        app : WindowApp \cup {AnyTarget}, env : WindowEnv \cup {AnyTarget},
        cron : CronField, duration : Duration,
        start : Text, end : Text, days : Weekdays]

WindowsInit == windows = [x \in Window |-> NoWindow]

IsClock(v) == v \in [clock : ClockTime]
IsTimestamp(v) == v \in [at : Timestamp]

-----------------------------------------------------------------------------
(* Is a window open?                                                       *)

(* Mutant: only today's occurrence is looked at.                           *)
OccurrenceToday == {0}

(* _weekly_window_active looks at today's and yesterday's occurrence.      *)
Occurrence == {0, 1}

(* When the occurrence that begins on the given day ends: by duration, or  *)
(* at a time of day, which is the next day's if it is not later.           *)
WeeklyEnd(w, day) ==
    LET from == day * DayLength + w.start.clock
    IN  CASE w.duration > 0 -> from + w.duration
          [] w.duration = 0 /\ IsClock(w.end) ->
                day * DayLength + w.end.clock +
                    (IF w.end.clock <= w.start.clock THEN DayLength ELSE 0)
          [] OTHER -> from

WeeklyOn(w, day, now) ==
    /\ (day + WeekLength) % WeekLength \in w.days
    /\ IsClock(w.start)
    /\ day * DayLength + w.start.clock <= now /\ now < WeeklyEnd(w, day)

Weekly(w, now) ==
    \E back \in Occurrence : WeeklyOn(w, now \div DayLength - back, now)

Ranged(w, now) ==
    IsTimestamp(w.start) /\ IsTimestamp(w.end) /\ w.start.at <= now /\ now <= w.end.at

(* _cron_window_active goes through all firings of the last duration.      *)
Cron(w, now) ==
    /\ w.cron # NoText
    /\ \E ago \in 0 .. w.duration - 1 :
          ((now - ago) \div DayLength) % WeekLength = w.cron[1] /\ (now - ago) % DayLength = w.cron[2]

(* is_in_maintenance tries all three, whatever the type says.              *)
Open(w, now) == Weekly(w, now) \/ Ranged(w, now) \/ Cron(w, now)

(* Mutant: a window of one app is open to those who ask for no app.        *)
CoversAnyone(w, app, env) ==
    /\ w.app = AnyTarget \/ app = AnyTarget \/ w.app = app
    /\ w.env = AnyTarget \/ env = AnyTarget \/ w.env = env

(* _matches_target: the stale check and the admin page ask for no app.     *)
Covers(w, app, env) ==
    /\ w.app \in {AnyTarget, app}
    /\ w.env \in {AnyTarget, env}

Rows == {windows[x] : x \in Window} \ {NoWindow}

InMaintenance(app, env, now) ==
    \E w \in Rows : w.enabled /\ Covers(w, app, env) /\ Open(w, now)

-----------------------------------------------------------------------------
(* The routes.                                                             *)

(* create_maintenance_window asks for the fields of the type and keeps     *)
(* those of the others; the admin page sends them all.                     *)
Valid(w) ==
    CASE w.type = "range" -> w.start # NoText /\ w.end # NoText
      [] w.type = "cron" -> w.cron # NoText /\ w.duration > 0
      [] w.type = "weekly" ->
            w.days # {} /\ w.start # NoText /\ (w.duration > 0 \/ w.end # NoText)

CreateWindow(x, w) ==
    /\ windows[x] = NoWindow
    /\ Valid(w)
    /\ windows' = [windows EXCEPT ![x] = w]

Change(x, w) == windows' = [windows EXCEPT ![x] = w]

(* PUT /api/maintenance-windows/{x} sets what it is given and does not     *)
(* look at the rest; several fields are as good as several requests.       *)
UpdateWindow(x) ==
    /\ windows[x] # NoWindow
    /\ \/ \E v \in {"range", "cron", "weekly"} : Change(x, [windows[x] EXCEPT !.type = v])
       \/ \E v \in WindowApp \cup {AnyTarget} : Change(x, [windows[x] EXCEPT !.app = v])
       \/ \E v \in WindowEnv \cup {AnyTarget} : Change(x, [windows[x] EXCEPT !.env = v])
       \/ \E v \in CronField : Change(x, [windows[x] EXCEPT !.cron = v])
       \/ \E v \in Duration : Change(x, [windows[x] EXCEPT !.duration = v])
       \/ \E v \in Text : Change(x, [windows[x] EXCEPT !.start = v])
       \/ \E v \in Text : Change(x, [windows[x] EXCEPT !.end = v])
       \/ \E v \in Weekdays : Change(x, [windows[x] EXCEPT !.days = v])

(* The switch of the admin page, and enabled of PUT.                       *)
ToggleWindow(x) ==
    /\ windows[x] # NoWindow
    /\ Change(x, [windows[x] EXCEPT !.enabled = ~@])

DeleteWindow(x) ==
    /\ windows[x] # NoWindow
    /\ windows' = [windows EXCEPT ![x] = NoWindow]

WindowsNext ==
    \E x \in Window :
        \/ \E w \in Row : CreateWindow(x, w)
        \/ UpdateWindow(x) \/ ToggleWindow(x) \/ DeleteWindow(x)

WindowsSpec == WindowsInit /\ [][WindowsNext]_windows

-----------------------------------------------------------------------------
(* What must hold.                                                         *)

(* What a window says: it is open as its type and the fields of its type   *)
(* have it, each week anew, however long an occurrence lasts.              *)
Said(w, now) ==
    CASE w.type = "weekly" ->
            \E back \in 0 .. now \div DayLength + WeekLength :
                WeeklyOn(w, now \div DayLength - back, now)
      [] w.type = "range" -> Ranged(w, now)
      [] w.type = "cron" -> Cron(w, now)

(* Fields of another type that the row still has: days, or a cron field    *)
(* together with a duration, or two timestamps.                            *)
Leftover(w) ==
    \/ w.type # "weekly" /\ w.days # {} /\ IsClock(w.start)
    \/ w.type # "cron" /\ w.cron # NoText /\ w.duration > 0
    \/ w.type # "range" /\ IsTimestamp(w.start) /\ IsTimestamp(w.end)

(* A weekly window may end on the day after it began, and not later.       *)
TooLong(w) ==
    w.type = "weekly" /\ IsClock(w.start) /\ w.start.clock + w.duration > 2 * DayLength

(* However a window has come about by creations and updates, it is open at *)
(* least when it says, unless an occurrence lasts into a third day, and    *)
(* only then, unless it still has the fields of another type.              *)
WindowsKeepTime ==
    \A w \in Rows, now \in Time :
        /\ Said(w, now) /\ ~TooLong(w) => Open(w, now)
        /\ Open(w, now) /\ ~Leftover(w) => Said(w, now)

(* A window silences its own app and environment alone; the stale check as *)
(* a whole is silenced by a window for everything only.                    *)
WindowsKeepToTheirTarget ==
    \A app \in WindowApp \cup {AnyTarget}, env \in WindowEnv \cup {AnyTarget}, now \in Time :
        InMaintenance(app, env, now) =>
            \E w \in Rows :
                /\ w.enabled /\ Open(w, now)
                /\ w.app # AnyTarget => app = w.app
                /\ w.env # AnyTarget => env = w.env

=============================================================================
