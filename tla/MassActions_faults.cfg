SPECIFICATION MassFairSpec
CONSTANTS
    Roles     <- SeedRoles
    Required  <- SeedRequired
    Users     <- Squad
    Nicks     <- SquadNicks
    Track     <- SquadTrack
    PermNames <- Courses
    Databases <- LadderEnds
    Calls     <- PunishingBeto
    Grants    <- NoGrants
    Procs     <- One
    DayLen    = 1
    MaxNow    = 0
    MaxCalls  = 1
    Settings  <- Failing
    Lists     <- FailingLists
    Desks     <- One
    MaxLists  = 1
INVARIANT StaysOnTrack
PROPERTIES RequestsFinish ListsFinish
CHECK_DEADLOCK FALSE
