SPECIFICATION MassSpec
CONSTANTS
    Roles     <- SeedRoles
    Required  <- SeedRequired
    Users     <- Squad
    Nicks     <- SquadNicks
    Track     <- SquadTrack
    PermNames <- Courses
    Databases <- SquadDatabases
    Calls     <- OnAna
    Grants    <- NoGrants
    Procs     <- One
    DayLen    = 1
    MaxNow    = 0
    MaxCalls  = 1
    Settings  <- FreeOrAlone
    Lists     <- RacingLists
    Desks     <- One
    MaxLists  = 1
INVARIANTS MassTypeOK WarningsLoggedAtRest HistoryNamesRolesOfLists ThreeWarningsInLists
PROPERTIES GeneralsAreSpared SnapshotsRememberRoles
CHECK_DEADLOCK FALSE
