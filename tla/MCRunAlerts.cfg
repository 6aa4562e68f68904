\* Two runs of an app with one test overlap, with one crash or escaped
\* exception; one window with every value of its fields; two groups.
SPECIFICATION MCSpec
CONSTANTS
    r1 = r1  r2 = r2  t1 = t1
    NoRun = NoRun
    Run = {r1, r2}
    Test = {t1}
    MaxFaults = 1
    Window = {w1}
    NoWindow = NoWindow
    WindowApp = {shop}
    WindowEnv = {prod}
    AnyTarget = AnyTarget
    DayLength = 2
    WeekLength = 4
    Time <- Instants
    ClockTime = {0, 1}
    Timestamp = {2, 5}
    NoText = NoText
    Duration = {0, 1, 4}
    Weekdays <- DaySets
    CronField <- Crons
    ops = ops  Ops = Ops  dev = dev
    Group = {g1, g2}
    NoGroup = NoGroup
    GroupName = {ops, Ops, dev}
    SameGroup <- NoCase
    Member = {m1, m2}
    Configured = {{}, {m0}}
INVARIANTS
    TypeOK
    PagerTellsState
    WindowsKeepTime
    WindowsKeepToTheirTarget
    AlertsReachTheirGroups
PROPERTIES
    RunsEnd
    SilenceIsAlerted
