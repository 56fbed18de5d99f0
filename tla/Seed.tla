-------------------------------- MODULE Seed --------------------------------
(***************************************************************************)
(* The rows prisma/seed.ts writes into the Roles, PermissionsRequired,     *)
(* Course and DepartamentRole tables.  Role names are spelt without        *)
(* accents; a departament role is known by its acronym.                    *)
(***************************************************************************)
EXTENDS Integers, Sequences, TLC

militaryNames ==
    <<"Recruta", "Soldado", "Cabo", "Sargento", "Subtenente",
      "Aspirante a Oficial", "Tenente", "Capitao", "Major", "Coronel",
      "General", "Comandante", "Comandante-Geral", "Conselheiro", "Supremo">>

executiveNames ==
    <<"Estagiario", "Analista", "Agente", "Inspetor", "Perito", "Escrivao",
      "Investigador", "Delegado", "Comissario", "Diretor", "Chanceler">>

\* By position: the highest position a holder promotes, and the days served
\* before a promotion.  Positions count from 0, sequences from 1.
promotionRange   == <<0, 0, 0, 0, 1, 2, 3, 4, 5, 6, 7, 8, 9, 11, 12>>
daysToBePromoted == <<0, 0, 0, 0, 1, 1, 1, 1, 1, 1, 1, 1, 1, 1, 0>>

\* The position of an executive is its index plus 2.
executiveOffset == 2

SeedRow(kind, pos) ==
    [hierarchyKind             |-> kind,
     hierarchyPosition         |-> pos,
     promotesUntilRolePosition |-> promotionRange[pos + 1],
     demoteUntilRolePosition   |-> IF pos <= 4 THEN 0 ELSE pos - 1,
     gratifyUntilRolePosition  |-> IF pos <= 4 THEN 0 ELSE pos - 1,
     daysToBePromoted          |-> daysToBePromoted[pos + 1]]

Index(names, name) == CHOOSE i \in DOMAIN names : names[i] = name

MilitaryRoles ==
    [name \in {militaryNames[i] : i \in DOMAIN militaryNames} |->
        SeedRow("MILITARY", Index(militaryNames, name) - 1)]

ExecutiveRoles ==
    [name \in {executiveNames[i] : i \in DOMAIN executiveNames} |->
        SeedRow("EXECUTIVE", Index(executiveNames, name) - 1 + executiveOffset)]

SeedRoles == MilitaryRoles @@ ExecutiveRoles

\* A requirement on one role, on one hierarchy, or on both.
Requirement(action, name, roleName, kind) ==
    [action |-> action, name |-> name,
     roleName |-> roleName, hierarchyKind |-> kind]

SeedRequired ==
    {Requirement("BE_PROMOTED", "ECb",  "Cabo",       "null"),
     Requirement("BE_PROMOTED", "ESgt", "Sargento",   "null"),
     Requirement("PROMOTE",     "ESbt", "Subtenente", "null"),
     Requirement("BE_PROMOTED", "ESbt", "Subtenente", "null"),
     Requirement("BE_PROMOTED", "CFO",  "Aspirante a Oficial", "null"),
     Requirement("PROMOTE", "CApEx", "null", "EXECUTIVE"),
     Requirement("PROMOTE", "CFO", "Aspirante a Oficial", "EXECUTIVE"),
     Requirement("DEMOTE",  "CFO", "Aspirante a Oficial", "EXECUTIVE"),
     Requirement("WARN",    "CFO", "Aspirante a Oficial", "EXECUTIVE"),
     Requirement("FIRE",    "CFO", "null", "EXECUTIVE")}
-----------------------------------------------------------------------------
SeedCourse(departament) == [departament |-> departament, powerNeeded |-> 1]

\* Every course asks for a power of 1.
SeedCourses ==
    [c \in {"CFPM", "COrt", "CPP"}   |-> SeedCourse("INS")]  @@
    [c \in {"ECb", "ESgt", "ESbt"}   |-> SeedCourse("ESP")]  @@
    [c \in {"CFO"}                   |-> SeedCourse("CDO")]  @@
    [c \in {"CFPE", "CApEx", "CFC"}  |-> SeedCourse("EFEX")]

SeedDepartaments == {"INS", "ESP", "EFEX", "CDO", "RH", "MKT", "PTR", "CDT"}

\* The five roles of each departament, in the order of their power.
SeedTitles == <<"", "C.", "AL.", "VL.", "L.">>
SeedPowers == <<1, 10, 11, 12, 13>>

SeedPosts == {SeedTitles[i] \o d : i \in DOMAIN SeedTitles, d \in SeedDepartaments}

SeedDepartamentRoles ==
    [post \in SeedPosts |->
        LET place == CHOOSE x \in (DOMAIN SeedTitles) \X SeedDepartaments :
                        SeedTitles[x[1]] \o x[2] = post
        IN  [departament |-> place[2], powerLevel |-> SeedPowers[place[1]]]]
=============================================================================
