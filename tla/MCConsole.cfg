\* Two of three accounts with every sign-in, edit, deletion and crash; two
\* failures and three addresses of which the limiter remembers two; one API
\* key; two definitions and two edits; three first boots.
SPECIFICATION MCSpec
CONSTANTS
    ann = ann  dir = dir  git = git
    g1 = g1  g2 = g2
    NoLink = NoLink  NoAccount = NoAccount
    LocalUser = {ann}
    LdapUser = {dir}
    GithubUser = {git}
    Legacy = {git}
    UserName <- NameOf
    Folded <- FoldedName
    GithubId = {g1, g2}
    Role = {"admin", "read_only"}
    MaxUsers = 2
    MaxVersion = 1
    MaxCookies = 1
    MaxPending = 1
    Login = {l1}
    Address = {a1, a2, a3}
    LockAt = 2
    LockFor = 2
    MaxEvents = 2
    Window = 2
    MaxKeys = 2
    MaxTime = 6
    Owner = {u1, u2}
    ApiKey = {k1}
    NoOwner = NoOwner
    Scope = {"*", "read", "worker:pull", "admin"}
    KeyRole = {"admin", "runner", "read_only"}
    shop = shop  docs = docs
    shopFile = shopFile  docsFile = docsFile
    AppName = {shop, docs}
    Slug = {shopFile, docsFile}
    SlugOf <- FileOf
    Nameless = Nameless
    Cron <- Schedules
    NoCron = NoCron
    Value = {"v1"}
    Unset = "unset"
    Absent = Absent  Torn = Torn  NoStart = NoStart
    MaxEdits = 2
    Process = {b1, b2, b3}
    NoKey = NoKey  HalfKey = HalfKey
SYMMETRY TwoIds
\* Once every account is deleted or barred nothing is left to do.
CHECK_DEADLOCK FALSE
INVARIANTS
    TypeOK
    CookieCarriesRights
    LockFollowsFailures
    LimiterCounts
    LimiterBounded
    WorkIsEarned
    CatalogFresh
    RunsAreCurrent
    JobsOnTheirDays
    OneKey
PROPERTIES
    OneIdentity
    RevokedStaysRevoked
    SetupStaysClosed
    DeadKeysStayDead
    DefinitionsKept
