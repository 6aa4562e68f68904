\* Two slots: one replays while the other buffers.
SPECIFICATION Spec
CONSTANTS
    j1 = j1  j2 = j2  j3 = j3  s1 = s1  s2 = s2
    Job = {j1, j2, j3}
    Slot = {s1, s2}
    OutboxMax = 2
    MaxAttempts = 2
    TornLine = TornLine
    ReadsFail = FALSE
\* With every job settled and its entry left in the outbox nothing happens
\* until the central has a new job.
CHECK_DEADLOCK FALSE
INVARIANTS
    BufferedKept
