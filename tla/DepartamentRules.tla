-------------------------- MODULE DepartamentRules --------------------------
(***************************************************************************)
(* The rules of DepartamentsService: who may give which role of a          *)
(* departament, who may teach which course, who may be approved in it, and *)
(* what the listings that feed the client's menus answer.                  *)
(*                                                                         *)
(* The operators are pure.  `who' is the member AuthGuard attached to the  *)
(* request: [roleName, posts, held], with the names of the departament     *)
(* roles and of the permissions held.                                      *)
(***************************************************************************)
EXTENDS Authority

CONSTANTS DepartamentRoles,  \* the DepartamentRole table: name -> row
          Courses            \* the Course table: acronym -> row

PostNames   == DOMAIN DepartamentRoles
CourseNames == DOMAIN Courses

\* The enumeration of the schema.
Departaments == {"INS", "ESP", "EFEX", "CDO", "RH", "MKT", "PTR", "CDT"}

ASSUME DepartamentsAssumption ==
    /\ DepartamentRoles \in
         [PostNames -> [departament : Departaments, powerLevel : Nat]]
    /\ Courses \in
         [CourseNames -> [departament : Departaments, powerNeeded : Nat]]

DeptOf(post)  == DepartamentRoles[post].departament
PowerOf(post) == DepartamentRoles[post].powerLevel

Heads(who) == who.roleName \in {"Supremo", "Conselheiro"}

\* The power the two heads of the corps have in every departament.
HeadPower == 1000

(***************************************************************************)
(* applierRole: the row of the departament the loop over the member's      *)
(* departament roles meets last.  Rows come in no order, so with two rows  *)
(* in a departament it may be either.  0 stands for no row: it outranks    *)
(* nobody, and both handlers that compare powers then fail.                *)
(***************************************************************************)
PostsIn(who, dept) == {r \in who.posts : DeptOf(r) = dept}

Powers(who, dept) ==
    IF Heads(who) THEN {HeadPower}
    ELSE IF PostsIn(who, dept) = {} THEN {0}
    ELSE {PowerOf(r) : r \in PostsIn(who, dept)}

\* The comparison of setUserRole and deleteUserRole.
Outranks(power, post) == power > PowerOf(post)

(***************************************************************************)
(* getEspRealRole.  A role of power 3 or more comes back as the row around *)
(* it, which has neither a departament nor a power: comparisons with its   *)
(* power are false, and a query by either has no condition.  Any other     *)
(* role is raised by the rank and the courses of who holds it.             *)
(***************************************************************************)
EspIsBare(post) == DeptOf(post) = "ESP" /\ PowerOf(post) >= 3

EspPower(who, post) ==
    LET military == KindOf(who.roleName) = "MILITARY"
        position == PositionOf(who.roleName)
        third    == \/ position >= 4 /\ "ESbt" \in who.held
                    \/ position >= 5 /\ military
                    \/ ~ military /\ {"CFO", "CApEx"} \cap who.held # {}
        second   == \/ position >= 4 /\ military
                    \/ position >= 3 /\ "ESgt" \in who.held
    IN  IF third THEN 3 ELSE IF second THEN 2 ELSE PowerOf(post)

TeachingPower(who, post) ==
    IF DeptOf(post) = "ESP" THEN EspPower(who, post) ELSE PowerOf(post)

(***************************************************************************)
(* The check of getCourse and postClass, for the role the loop ends on.    *)
(***************************************************************************)
Suffices(who, post, course) ==
    /\ DeptOf(post) = Courses[course].departament
    /\ \/ EspIsBare(post)
       \/ TeachingPower(who, post) >= Courses[course].powerNeeded

MayTeach(who, course) ==
    \/ Heads(who) /\ HeadPower >= Courses[course].powerNeeded
    \/ ~ Heads(who) /\ \E post \in who.posts : Suffices(who, post, course)

(***************************************************************************)
(* getCoursesAllowedToPost: the courses a client is offered for postClass. *)
(* A bare ESP row asks for the courses of no departament in particular.    *)
(***************************************************************************)
\* Mistake: the departament ESP left out, whose roles need a loop of their own.
OfferedWithoutEsp(who, post) ==
    {c \in CourseNames : /\ DeptOf(post) \in {"INS", "EFEX", "CDO"}
                         /\ Courses[c].departament = DeptOf(post)
                         /\ Courses[c].powerNeeded <= PowerOf(post)}

OfferedBy(who, post) ==
    {c \in CourseNames :
        \/ EspIsBare(post)
        \/ /\ DeptOf(post) \in {"INS", "EFEX", "CDO", "ESP"}
           /\ Courses[c].departament = DeptOf(post)
           /\ Courses[c].powerNeeded <= TeachingPower(who, post)}

CoursesAllowedToPost(who) ==
    IF Heads(who) THEN CourseNames ELSE UNION {OfferedBy(who, r) : r \in who.posts}

\* getDepartamentCourses: those of the departament of a role, the one the loop
\* ends on.  A power the row lacks is no condition here either; the heads have
\* theirs in any departament.
DepartamentCourses(who, post) ==
    {c \in CourseNames :
        /\ Courses[c].departament = DeptOf(post)
        /\ \/ Heads(who) /\ Courses[c].powerNeeded <= HeadPower
           \/ ~ Heads(who) /\ (EspIsBare(post)
                                 \/ Courses[c].powerNeeded <= TeachingPower(who, post))}

(***************************************************************************)
(* The conditions of postClass on one approved member: the rank each       *)
(* course is for, and that the course is not held already.                 *)
(***************************************************************************)
\* Mistake: the CFO from the rank after the one that needs it.
RankForLate(course, role) == course = "CFO" => PositionOf(role) > 5

RankFor(course, role) ==
    CASE course = "CFPM"            -> role = "Recruta"
      [] course = "ECb"             -> role = "Cabo"
      [] course = "ESgt"            -> role = "Sargento"
      [] course = "ESbt"            -> role = "Subtenente"
      [] course \in {"CPP", "COrt"} -> role \in {"Cabo", "Sargento"}
      [] course = "CFO"             -> PositionOf(role) > 4
      [] course \in {"CFPE", "CApEx", "CFC"} -> KindOf(role) = "EXECUTIVE"
      [] OTHER                      -> TRUE

\* The permissions a course gives: some are needed a second time, as OTHER.
Given(course) ==
    {[name |-> course, type |-> "COURSE"]} \cup
    {[name |-> course, type |-> "OTHER"] :
        c \in {course} \cap {"CDO", "ESbt", "CApEx"}}
=============================================================================
