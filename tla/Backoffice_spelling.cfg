SPECIFICATION Spec
CONSTANTS
    Roles     <- SeedRoles
    Required  <- SeedRequired
    DepartamentRoles <- SeedDepartamentRoles
    Courses   <- SeedCourses
    Nicks     <- Nicks_
    Typed     <- Typed_
    Canon     <- Canon_
    CapeNames = {"gala", "luto"}
    Files     = {"g.png", "l.png"}
    Procs     <- Two
    SessionLife = 1
    Scenarios <- SpeltOtherwise
PROPERTIES ActiveMembersAreRefused
CHECK_DEADLOCK FALSE
