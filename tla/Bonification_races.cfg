SPECIFICATION Spec
CONSTANTS
    Roles     <- SeedRoles
    Required  <- SeedRequired
    Users     <- Pair
    RoleOf    <- Roles_
    Calls     <- AnaCalls
    Procs     <- Two
    DayLen    = 4
    Dawn      = 1
    Cooldown  = 2
    MaxNow    = 5
    MaxCalls  = 5
    Settings  <- RacesOrFaults
INVARIANTS TypeOK QuotaUnderRaces LedgerBalances AtMostThreePerDay HalfHourApart
CHECK_DEADLOCK FALSE
