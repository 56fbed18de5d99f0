SPECIFICATION Spec
CONSTANTS
    Roles     <- SeedRoles
    Required  <- SeedRequired
    Users     <- Pair
    Nicks     <- PairNicks
    Track     <- PairMilitary
    PermNames <- Courses
    Databases <- RaceDatabases
    Calls     <- AllOnAna
    Grants    <- NoGrants
    Procs     <- Two
    DayLen    = 1
    MaxNow    = 1
    MaxCalls  = 2
    Settings  <- EveryRace
INVARIANTS TypeOK EveryWarningIsLogged HistoryNamesEveryRole RecrutaHoldsNoPermission
           OnlyWarningsLeaveRoles
CHECK_DEADLOCK FALSE
