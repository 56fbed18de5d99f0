SPECIFICATION MassSpec
CONSTANTS
    Roles     <- SeedRoles
    Required  <- SeedRequired
    Users     <- Squad
    Nicks     <- SquadNicks
    Track     <- SquadTrack
    PermNames <- Courses
    Databases <- MajorDatabase
    Calls     <- OnAna
    Grants    <- NoGrants
    Procs     <- One
    DayLen    = 1
    MaxNow    = 1
    MaxCalls  = 0
    Settings  <- Alone
    Lists     <- WarningTwice
    Desks     <- One
    MaxLists  = 1
INVARIANT ThreeWarningsInLists
CHECK_DEADLOCK FALSE
