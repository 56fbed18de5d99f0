SPECIFICATION Spec
CONSTANTS
    Roles     <- SeedRoles
    Required  <- SeedRequired
    Users     <- Pair
    Nicks     <- PairNicks
    Track     <- PairExecutive
    PermNames <- Courses
    Databases <- LowestExecutive
    Calls     <- WarnsOnAna
    Grants    <- NoGrants
    Procs     <- Two
    DayLen    = 1
    MaxNow    = 1
    MaxCalls  = 1
    Settings  <- Alone
INVARIANT ThirdWarningPunishes
CHECK_DEADLOCK FALSE
