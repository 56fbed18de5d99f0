SPECIFICATION Spec
CONSTANTS
    Roles     <- SeedRoles
    Required  <- SeedRequired
    Users     <- Trio
    Nicks     <- Trio
    Track     <- TrioMilitary
    PermNames <- Courses
    Databases <- TrioDatabases
    Calls     <- TrioCalls
    Grants    <- ForAna
    Procs     <- Two
    DayLen    = 1
    MaxNow    = 1
    MaxCalls  = 2
    Settings  <- EveryCalm
PROPERTY ImplementsLadder
INVARIANTS ThreeWarningsPerPunishment WarningLedger LastRoleIsCurrent
CHECK_DEADLOCK FALSE
