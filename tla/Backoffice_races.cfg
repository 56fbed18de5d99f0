SPECIFICATION FairSpec
CONSTANTS
    Roles     <- SeedRoles
    Required  <- SeedRequired
    DepartamentRoles <- SeedDepartamentRoles
    Courses   <- SeedCourses
    Nicks     <- Nicks_
    Typed     <- Typed_
    Canon     <- Canon_
    CapeNames = {"gala", "luto"}
    Files     = {"g.png", "l.png"}
    Procs     <- Two
    SessionLife = 1
    Scenarios <- AllScenarios
INVARIANTS TypeOK PostsUnderRaces OneRolePerDepartament RecrutaHoldsNothing
           CoursesAreEarned CapeShowsItsUpload
PROPERTIES OnlyRecrutasEnlist ImplementsMembership HistoryOutlivesRename
           BegunIsFinished WritesReachTheRowRead EveryCallIsAnswered
CHECK_DEADLOCK FALSE
