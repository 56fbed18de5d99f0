SPECIFICATION Spec
CONSTANTS
    Roles     <- SeedRoles
    Required  <- SeedRequired
    Users     <- Pair
    RoleOf    <- Roles_
    Calls     <- AnaCalls
    Procs     <- Two
    DayLen    = 3
    Dawn      = 1
    Cooldown  = 1
    MaxNow    = 2
    MaxCalls  = 4
    Settings  <- Alone
INVARIANT ThreeADayAtMost
CHECK_DEADLOCK FALSE
