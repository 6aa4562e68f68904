\* Two slots replay and buffer, and two jobs come back again and again; eight
\* apps of up to three tests with one retry.
SPECIFICATION MCSpec
CONSTANTS
    j1 = j1  j2 = j2  s1 = s1  s2 = s2
    Job = {j1, j2}
    Slot = {s1, s2}
    OutboxMax = 2
    MaxAttempts = 2
    TornLine = TornLine
    ReadsFail = TRUE
    token = token  key = key
    Apps <- SomeApps
    Var = {token, key}
    Secret = {key}
    OddSecret = {key}
    MaxTests = 3
    MaxTries = 2
    NotAsked = NotAsked
\* With every job settled and its entry left in the outbox nothing happens
\* until the central has a new job; a run of tests ends.
CHECK_DEADLOCK FALSE
INVARIANTS
    TypeOK
    VerdictIsEarned
    ReferencesResolve
    WorkerAgrees
PROPERTIES
    LostOnlyUnread
    EntriesLeave
