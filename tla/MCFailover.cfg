\* Two runners with one key compete for a tagged job, next to the reaper,
\* an admin who deletes and requeues, retention and one crash.
SPECIFICATION Spec
CONSTANTS
    r1 = r1  r2 = r2  k1 = k1  k2 = k2  alice = alice  bob = bob
    j1 = j1  j2 = j2  t1 = t1
    NoKey = NoKey  NoJob = NoJob  NoRunner = NoRunner
    Runner = {r1, r2}
    Key = {k1}
    User = {alice, bob}
    KeyUser <- OneUser
    Tag = {t1}
    Version = {"ok"}
    Health = {"none"}
    Job = {j1}
    Target = {t1}
    MaxDeletes = 1
    MaxRetries = 1
    MaxCapacity = 1
    MaxRevivals = 1
    MaxCrashes = 1
    MaxPolls = 1
\* Once the bounds are used up and every job is settled nothing is left to do.
CHECK_DEADLOCK FALSE
SYMMETRY TwoRunners
INVARIANTS
    TypeOK
    RetryBudget
    OwnerConsistent
    ResultsOnce
    CompletedHasResults
    RunFollowsJob
PROPERTIES
    ImplementsLedger
