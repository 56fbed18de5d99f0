---------------------------- MODULE MCDiscipline ----------------------------
(***************************************************************************)
(* Small instances of Discipline over the roles and requirements of the    *)
(* seed.  Ana is the member acted on, Xisto an officer who outranks her,   *)
(* Zeca an officer who outranks Xisto; nobody answers to Ninguem.          *)
(***************************************************************************)
EXTENDS Discipline, Seed

Courses == {"CFO", "ECb", "ESgt", "ESbt", "CApEx"}

Row(role, adv, active) ==
    [roleName |-> role, advNum |-> adv, isAccountActive |-> active,
     bonificationsInRole |-> 5, lastPromoted |-> 0]

\* A history in which the member was contracted into the role held now and
\* has received the warnings counted.
Contracted(u, role) ==
    [WarningRow(u) EXCEPT !.type = "CONTRACTING", !.newRole = role]

History(u, role, adv) ==
    <<Contracted(u, role)>> \o [i \in 1..adv |-> WarningRow(u)]

Holding(u, names) ==
    {[user |-> u, perm |-> [name |-> n, type |-> "COURSE"]] : n \in names}

On(target, ops, actor) ==
    {[op |-> o, actor |-> actor, target |-> target] : o \in ops}
-----------------------------------------------------------------------------
(* Xisto acts on Ana. *)
Pair      == {"Ana", "Xisto"}
PairNicks == Pair \cup {"Ninguem"}

PairDatabase(role, adv, active, names) ==
    [user  |-> [u \in Pair |-> IF u = "Ana" THEN Row(role, adv, active)
                                            ELSE Row("General", 0, TRUE)],
     perms |-> Holding("Ana", names),
     depts |-> {"Ana"},
     log   |-> History("Ana", role, adv) \o History("Xisto", "General", 0)]

PairMilitary  == [u \in Pair |-> "MILITARY"]
PairExecutive == [PairMilitary EXCEPT !["Ana"] = "EXECUTIVE"]

\* A Soldado and an officer at the third warning, a Sargento before it.
RaceDatabases ==
    {PairDatabase("Soldado",  2, TRUE, {"ECb"}),
     PairDatabase("Sargento", 1, TRUE, {"ESgt"}),
     PairDatabase("Tenente",  2, TRUE, {"CFO"})}

\* The lowest rank of the executive ladder.
LowestExecutive == {PairDatabase("Estagiario", 2, TRUE, {})}

AllOnAna   == On("Ana", Ops, "Xisto") \cup On("Ninguem", {"fire"}, "Xisto")
WarnsOnAna == On("Ana", {"warn"}, "Xisto")
-----------------------------------------------------------------------------
(* Xisto acts on Ana while Zeca acts on Xisto. *)
Trio == {"Ana", "Xisto", "Zeca"}

TrioMilitary == [u \in Trio |-> "MILITARY"]

TrioDatabase(role, adv, names) ==
    [user  |-> [u \in Trio |-> CASE u = "Ana"   -> Row(role, adv, TRUE)
                                 [] u = "Xisto" -> Row("General", 0, TRUE)
                                 [] u = "Zeca"  -> Row("Supremo", 0, TRUE)],
     perms |-> Holding("Ana", names),
     depts |-> {"Ana"},
     log   |-> History("Ana", role, adv) \o History("Xisto", "General", 0)
                                         \o History("Zeca", "Supremo", 0)]

TrioDatabases ==
    {TrioDatabase("Soldado",  2, {"ECb"}),
     TrioDatabase("Sargento", 1, {"ESgt"}),
     TrioDatabase("Tenente",  2, {"CFO"})}

TrioCalls == On("Ana", Ops, "Xisto") \cup On("Xisto", {"fire", "warn"}, "Zeca")
-----------------------------------------------------------------------------
Setting_(exclusive, faults) == [exclusive |-> exclusive, faults |-> faults]

Free       == {Setting_(FALSE, FALSE)}
Alone      == {Setting_(TRUE, FALSE)}
EveryRace  == {Setting_(FALSE, FALSE), Setting_(FALSE, TRUE)}
EveryCalm  == {Setting_(TRUE, FALSE), Setting_(TRUE, TRUE)}

NoGrants == {}
ForAna   == {[user |-> "Ana", perm |-> [name |-> "ESgt", type |-> "COURSE"]]}
Two      == {1, 2}
=============================================================================
