\* One runner that reports its health and is drained by an admin.
SPECIFICATION Spec
CONSTANTS
    r1 = r1  r2 = r2  k1 = k1  k2 = k2  alice = alice  bob = bob
    j1 = j1  j2 = j2  t1 = t1
    NoKey = NoKey  NoJob = NoJob  NoRunner = NoRunner
    Runner = {r1}
    Key = {k1}
    User = {alice, bob}
    KeyUser <- OneUser
    Tag = {}
    Version = {"ok"}
    Health = {"healthy", "unhealthy"}
    Job = {j1}
    Target = {r1}
    MaxDeletes = 0
    MaxRetries = 0
    MaxCapacity = 1
    MaxRevivals = 0
    MaxCrashes = 0
    MaxPolls = 0
\* Once the bounds are used up and every job is settled nothing is left to do.
CHECK_DEADLOCK FALSE
INVARIANTS
    AdminDrainSticks
