--------------------------- MODULE MCMassActions ----------------------------
(***************************************************************************)
(* Lists over Ana and Beto, submitted by Xisto, who ranks above everybody, *)
(* while Xisto also acts on Ana alone.                                     *)
(***************************************************************************)
EXTENDS MassActions, MCDiscipline

Squad      == {"Ana", "Beto", "Xisto"}
SquadNicks == Squad \cup {"Ninguem"}

SquadDatabase(ana, anaAdv, beto, betoAdv) ==
    [user  |-> [u \in Squad |-> CASE u = "Ana"   -> Row(ana, anaAdv, TRUE)
                                  [] u = "Beto"  -> Row(beto, betoAdv, TRUE)
                                  [] u = "Xisto" -> Row("Supremo", 0, TRUE)],
     perms |-> Holding("Ana", {"CFO"}) \cup
               {[user |-> "Beto", perm |-> [name |-> "ESbt", type |-> "OTHER"]]},
     depts |-> {"Ana", "Beto"},
     log   |-> History("Ana", ana, anaAdv) \o History("Beto", beto, betoAdv)
                                           \o History("Xisto", "Supremo", 0)]

\* Beto is an executive.
SquadTrack     == [u \in Squad |-> IF u = "Beto" THEN "EXECUTIVE" ELSE "MILITARY"]

List(op, nicks) == [op |-> op, actor |-> "Xisto", nicks |-> nicks]

Both == <<"Ana", "Beto">>

RacingLists    == {List("demote", Both), List("warn", Both),
                   List("fire", <<"Ana">>), List("fire", <<"Ana", "Ninguem">>)}
FailingLists   == {List("demote", <<"Beto">>), List("warn", <<"Beto">>)}
WarningTwice   == {List("warn", <<"Ana", "Ana">>)}
DismissingAna  == {List("fire", <<"Ana">>)}

\* Ana before and at the third warning, and the first of the generals.
SquadDatabases == {SquadDatabase("Sargento", 1, "Agente", 2),
                   SquadDatabase("Major",    2, "Perito", 0),
                   SquadDatabase("Coronel",  0, "Agente", 2)}
MajorDatabase  == {SquadDatabase("Major", 2, "Agente", 0)}

\* Executives on the two lowest ranks: below Beto there may be none.
LadderEnds     == {SquadDatabase("Soldado",  2, "Estagiario", 2),
                   SquadDatabase("Sargento", 2, "Analista",   2)}

OnAna          == On("Ana", Ops, "Xisto")
PunishingBeto  == On("Beto", {"demote", "warn"}, "Xisto")
Failing        == {Setting_(FALSE, TRUE)}
FreeOrAlone    == {Setting_(FALSE, FALSE), Setting_(TRUE, FALSE)}
One            == {1}
=============================================================================
