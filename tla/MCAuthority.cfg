SPECIFICATION Spec
CONSTANTS
    Roles    <- SeedRoles
    Required <- SeedRequired
    DepartamentRoles <- SeedDepartamentRoles
    Courses  <- SeedCourses
INVARIANTS EveryRankCanRise OfferedCoursesAreTaught RequiredCoursesAreOpen
PROPERTIES PromotedStaysBelowPromoter PunishedIsOutranked
CHECK_DEADLOCK FALSE
