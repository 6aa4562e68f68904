\* One runner drained while its long poll waits.
SPECIFICATION Spec
CONSTANTS
    r1 = r1  r2 = r2  k1 = k1  k2 = k2  alice = alice  bob = bob
    j1 = j1  j2 = j2  t1 = t1
    NoKey = NoKey  NoJob = NoJob  NoRunner = NoRunner
    Runner = {r1}
    Key = {k1}
    User = {alice, bob}
    KeyUser <- OneUser
    Tag = {}
    Version = {"ok"}
    Health = {"none"}
    Job = {j1}
    Target = {r1}
    MaxDeletes = 0
    MaxRetries = 0
    MaxCapacity = 1
    MaxRevivals = 0
    MaxCrashes = 0
    MaxPolls = 1
\* Once the bounds are used up and every job is settled nothing is left to do.
CHECK_DEADLOCK FALSE
PROPERTIES
    DrainedGetsNoJobs
