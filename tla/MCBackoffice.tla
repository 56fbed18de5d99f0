---------------------------- MODULE MCBackoffice ----------------------------
(***************************************************************************)
(* Scenarios for Backoffice.  Xisto heads the corps and administers the    *)
(* site, Ana is in service, Bia has been dismissed, Caio has no row yet;   *)
(* "ana" is another spelling of Ana, and Habbo knows nobody by "Ninguem".  *)
(***************************************************************************)
EXTENDS Backoffice, Seed

Nicks_ == {"Ana", "Bia", "Caio", "Xisto"}
Typed_ == Nicks_ \cup {"ana", "Ninguem"}
Canon_ == [n \in Typed_ |-> CASE n = "ana"     -> "Ana"
                              [] n = "Ninguem" -> NoNick
                              [] OTHER         -> n]

Two   == {1, 2}
Three == {1, 2, 3}

Row(nick, role, active, admin) ==
    [nick |-> nick, roleName |-> role, isAccountActive |-> active,
     isAdmin |-> admin, capeSelected |-> NoCape]

\* Xisto is member 1, Ana 2, Bia 3.
Staff(ana, active) ==
    <<Row("Xisto", "Supremo", TRUE, TRUE), Row("Ana", ana, active, FALSE),
      Row("Bia", "Recruta", FALSE, FALSE)>>

\* Bia was fired, and so was Ana when Ana is a Recruta; if not, a contract gave
\* Ana the rank.
Past(ana) ==
    <<LogRow("CONTRACTING", 1, "Supremo"), LogRow("APPROVATION", 2, "CFPM"),
      LogRow("APPROVATION", 3, "CFPM"), LogRow("FIRE", 3, "Recruta")>>
    \o (IF ana = "Recruta" THEN <<LogRow("FIRE", 2, "Recruta")>>
                         ELSE <<LogRow("CONTRACTING", 2, ana)>>)

Held_(ana) ==
    IF ana = "Recruta" THEN {} ELSE {[user |-> 2, name |-> "CFPM", type |-> "COURSE"]}

Post_(post) == {[user |-> 2, role |-> post]}

By(actor, op, nicks, about) ==
    [op |-> op, actor |-> actor, nicks |-> nicks, about |-> about, file |-> ""]
Do(op, nicks, about) == By("Xisto", op, nicks, about)
Open(op, nicks)      == By(NoNick, op, nicks, "")
Upload(cape, file)   ==
    [op |-> "createCape", actor |-> "Xisto", nicks |-> <<>>, about |-> cape, file |-> file]

Start(ana, active, post, calls, maxCalls) ==
    [members |-> Staff(ana, active), posts |-> post, held |-> Held_(ana),
     history |-> Past(ana), bonified |-> {}, calls |-> calls,
     maxCalls |-> maxCalls, maxNow |-> 0, exclusive |-> FALSE, faults |-> FALSE]

\* A scenario as the server is, and with queries that fail; with clients that
\* take turns, when there is room for a call more, and failing queries again.
InTurns(s) == [s EXCEPT !.exclusive = TRUE]
Failing(s) == [s EXCEPT !.faults = TRUE]
Longer(s)  == [s EXCEPT !.maxCalls = @ + 1]
Either(s)  == {s, Failing(s), Longer(InTurns(s)), Failing(InTurns(s))}
-----------------------------------------------------------------------------
\* Roles of one departament given and taken, by a head and by a leader, while
\* the member is dismissed.
RoleCalls ==
    {Do("setUserRole", <<"Ana">>, "INS"), Do("setUserRole", <<"Ana">>, "C.INS"),
     Do("setUserRole", <<"Bia">>, "INS"),
     By("Ana", "setUserRole", <<"Xisto">>, "INS"),
     Do("deleteUserRole", <<"Ana">>, "INS"),
     By("Ana", "deleteUserRole", <<"Ana">>, "INS"),
     Do("fireUser", <<"Ana">>, ""), Do("fireUser", <<"Ninguem">>, "")}

RoleScenarios == Either(Start("Sargento", TRUE, Post_("AL.INS"), RoleCalls, 2))

\* Classes, contracts and a dismissal.
ClassCalls ==
    {Do("postClass", <<"Bia", "Caio">>, "CFPM"), Do("postClass", <<"Ana">>, "ECb"),
     Do("fireUser", <<"Ana">>, ""), Do("contractUser", <<"Caio">>, "Cabo"),
     Do("contractUser", <<"Bia">>, "Tenente")}

ClassScenarios == Either(Start("Cabo", TRUE, {}, ClassCalls, 2))

\* Changes of nick, onto a Recruta, onto nobody and onto oneself.
NickCalls ==
    {Do("changeUserNick", <<"Ana", "Bia">>, ""), Do("changeUserNick", <<"Ana", "Caio">>, ""),
     Do("contractUser", <<"Bia">>, "Cabo"), Do("postClass", <<"Bia">>, "CFPM"),
     Do("fireUser", <<"Ana">>, "")}

NickScenarios == Either(Start("Cabo", TRUE, Post_("ESP"), NickCalls, 2))

\* Accounts opened with a code, and a dismissal meanwhile.
CodeCalls ==
    {Open("createAuthSession", <<>>), Open("activateUser", <<"Ana">>),
     Open("activateUser", <<"Bia">>), Open("changeUserPassword", <<"Ana">>),
     Do("fireUser", <<"Ana">>, ""), Do("changeUserNick", <<"Ana", "Caio">>, "")}

CodeScenarios ==
    {[s EXCEPT !.maxNow = 2, !.maxCalls = 3] :
        s \in Either(Start("Cabo", FALSE, {}, CodeCalls, 2))}

\* Capes of the same name and of the same file.
CapeCalls ==
    {Upload("gala", "g.png"), Upload("luto", "g.png"), Upload("gala", "l.png"),
     Do("atributeCape", <<"Ana">>, "gala"), By("Ana", "changeUserCape", <<>>, "gala"),
     Do("changeUserNick", <<"Ana", "Caio">>, "")}

CapeScenarios == Either(Start("Cabo", TRUE, {}, CapeCalls, 2))

\* Two Recrutas whose nicks are exchanged: each change deletes the member the
\* other is about to write.
Exchange ==
    {Start("Recruta", FALSE, {}, {Do("changeUserNick", <<"Ana", "Bia">>, ""),
                                  Do("changeUserNick", <<"Bia", "Ana">>, "")}, 2)}

\* Ana has passed a course, rises and falls.  Kept starts after the fall, when
\* the course is gone and what it gave besides is not.
Passed(s, course) ==
    [s EXCEPT !.held    = @ \cup GivenRows(<<2>>, course),
              !.history = Append(@, LogRow("APPROVATION", 2, course))]

CareerCalls(course) ==
    {Do("promoteUser", <<"Ana">>, ""), Do("demoteUser", <<"Ana">>, ""),
     Do("postClass", <<"Ana">>, course), Do("fireUser", <<"Ana">>, ""),
     Do("changeUserNick", <<"Ana", "Caio">>, "")}

Kept ==
    LET s == Start("Subtenente", TRUE, {}, CareerCalls("ESbt"), 2)
    IN  [s EXCEPT !.held    = {[user |-> 2, name |-> "ESbt", type |-> "OTHER"]},
                  !.history = @ \o <<LogRow("APPROVATION", 2, "ESbt"),
                                     LogRow("PROMOTION", 2, "Aspirante a Oficial"),
                                     LogRow("DEMOTION", 2, "Subtenente")>>]

\* Up and down from Subtenente, from Cabo to Sargento, and from Tenente down to
\* where the CFO is taken.
CareerScenarios ==
    Either(Passed(Start("Subtenente", TRUE, {}, CareerCalls("ESbt"), 2), "ESbt"))
        \cup {InTurns(Kept)}
        \cup Either(Passed(Start("Cabo", TRUE, {}, CareerCalls("ECb"), 2), "ECb"))
        \cup Either(Passed(Start("Tenente", TRUE, {}, CareerCalls("CFO"), 2), "CFO"))

\* What Orderly leaves out: a member twice in a class, or in another spelling,
\* a nick renamed to itself, and a Recruta in the way who has bonuses.
DirtyCalls ==
    {Do("postClass", <<"Ana", "Ana">>, "ECb"), Do("postClass", <<"ana">>, "CFPM"),
     Do("changeUserNick", <<"Bia", "Bia">>, ""), Do("changeUserNick", <<"Ana", "Bia">>, "")}

DirtyStart == InTurns(Start("Cabo", TRUE, {}, DirtyCalls, 2))
DirtyScenarios == {DirtyStart, [DirtyStart EXCEPT !.bonified = {3}]}

\* Ana, in service with a role and a course, contracted as a Recruta.
ContractedOut ==
    {InTurns(Start("Cabo", TRUE, Post_("ESP"),
                   {Do("contractUser", <<"Ana">>, "Recruta"),
                    Open("changeUserPassword", <<"Ana">>), Do("fireUser", <<"Ana">>, "")}, 2))}

AllScenarios == Exchange \cup ContractedOut \cup DirtyScenarios \cup RoleScenarios
                  \cup ClassScenarios \cup NickScenarios \cup CodeScenarios \cup CapeScenarios
                  \cup CareerScenarios

\* What the theorems about Backoffice assume besides its own assumptions.
ASSUME StartsOrderly == DismissedAreClosed /\ DismissedAreBare /\ CoursesForMembers
-----------------------------------------------------------------------------
\* Ana, in service, in a class of the CFPM under another spelling.
SpeltOtherwise ==
    {InTurns(Start("Cabo", TRUE, {}, {Do("postClass", <<"ana">>, "CFPM")}, 1))}
=============================================================================
