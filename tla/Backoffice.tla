----------------------------- MODULE Backoffice -----------------------------
(***************************************************************************)
(* The handlers of DepartamentsService, UsersService, AuthService and      *)
(* CosmeticService that write, with fireUser, promoteUser and demoteUser,  *)
(* on the same tables: any of them may run between two awaits of any       *)
(* other.  Warnings, the handlers for lists and givePermission, which      *)
(* write these tables as well, are those of Discipline and MassActions.    *)
(***************************************************************************)
EXTENDS Departaments, Careers, Capes

Submit(p) == DepartamentSubmit(p) \/ AccountSubmit(p) \/ CapeSubmit(p) \/ SubmitRankCall(p)
Step(p)   == DepartamentStep(p)   \/ AccountStep(p)   \/ CapeStep(p)   \/ CareerStep(p)

Next == \/ Tick
        \/ \E p \in Procs : Submit(p) \/ Step(p) \/ FailQuery(p) \/ LoseWrite(p)

Spec == Init /\ [][Next]_vars

\* The database answers, and the event loop goes on with who waited.
FairSpec == Spec /\ \A p \in Procs : WF_vars(Step(p))
-----------------------------------------------------------------------------
TablesTyped ==
    /\ created \in Nat
    /\ DOMAIN member \subseteq 1..created
    /\ member \in [DOMAIN member -> MemberRow]
    /\ posts \subseteq PostRow
    /\ held \subseteq HeldRow
    /\ classes \in Seq(ClassRow)
    /\ sessions \in Seq(Nat)
    /\ capes \subseteq CapeRow
    /\ worn \subseteq WornRow
    /\ DOMAIN bucket \subseteq Files /\ bucket \in [DOMAIN bucket -> CapeNames]
    /\ now \in Nat /\ issued \in Nat
    /\ req \in [Procs -> Request]
    /\ scenario \in Scenarios

TypeOK == TablesTyped /\ history \in Seq(HistoryRow)

\* No request is in flight.
Quiet == \A p \in Procs : At(p, "idle")

(***************************************************************************)
(* Calls that the handlers are written for: in turn, without failing       *)
(* queries, and with none of the inputs that make a handler trip over its  *)
(* own writes - a nick renamed to itself, a class that names a member      *)
(* twice or in another spelling, a Recruta in the way who has bonuses.     *)
(***************************************************************************)
RenamesApart ==
    \A c \in CallsOf("changeUserNick") : Canon[c.nicks[1]] # Canon[c.nicks[2]]

ClassesAreClean ==
    \A c \in CallsOf("postClass") :
        /\ Range(c.nicks) \subseteq Nicks
        /\ Cardinality(Range(c.nicks)) = Len(c.nicks)

\* contractUser takes any role there is, Recruta too, and leaves the account as
\* it was.
ContractsEnlist == \A c \in CallsOf("contractUser") : c.about # "Recruta"

Orderly ==
    /\ scenario.exclusive /\ ~ scenario.faults
    /\ RenamesApart /\ ClassesAreClean /\ scenario.bonified = {}

\* Nobody who starts as a Recruta has an account that is open, or holds anything.
DismissedAreClosed ==
    \A s \in Scenarios : \A i \in DOMAIN s.members :
        s.members[i].roleName = "Recruta" => ~ s.members[i].isAccountActive

DismissedAreBare ==
    \A s \in Scenarios : \A i \in DOMAIN s.members :
        s.members[i].roleName = "Recruta" => \A r \in s.posts \cup s.held : r.user # i

\* The checks of postClass know the courses of the seed: a Recruta passes the
\* one of the CFPM only.
CoursesForMembers == \A c \in CourseNames \ {"CFPM"} : ~ RankFor(c, "Recruta")
-----------------------------------------------------------------------------
(***************************************************************************)
(* Departament roles                                                       *)
(***************************************************************************)
PostsOf(id, dept) == {r \in posts : r.user = id /\ DeptOf(r.role) = dept}

(***************************************************************************)
(* setUserRole deletes the rows of a departament and creates one, in two   *)
(* queries.  Whatever races, a member never has more roles of one          *)
(* departament than there are requests in flight together.                 *)
(***************************************************************************)
PostsUnderRaces ==
    \A id \in DOMAIN member, dept \in Departaments :
        Cardinality(PostsOf(id, dept)) <= Cardinality(Procs)

(***************************************************************************)
(* One role per departament, which the loops over userDepartamentRole take *)
(* for granted: calls that take turns on a member keep it so, even when    *)
(* their queries fail.                                                     *)
(***************************************************************************)
OneRolePerDepartament ==
    scenario.exclusive =>
        \A id \in DOMAIN member, dept \in Departaments :
            Cardinality(PostsOf(id, dept)) <= 1

(***************************************************************************)
(* Who is dismissed leaves the departaments and the courses, and nothing   *)
(* gives a Recruta either before a class or a contract makes a Soldado or  *)
(* more of them: fireUser and the check of setUserRole together.           *)
(***************************************************************************)
RecrutaHoldsNothing ==
    scenario.exclusive /\ ~ scenario.faults /\ ContractsEnlist /\ Quiet =>
        \A id \in DOMAIN member :
            member[id].roleName = "Recruta" =>
                RowsOf(posts, id) = {} /\ RowsOf(held, id) = {}
-----------------------------------------------------------------------------
(***************************************************************************)
(* Classes                                                                 *)
(***************************************************************************)
\* What takes a member's courses: a dismissal, and a change of rank unless it
\* is the promotion to Sargento.
Takes(row) == \/ row.type \in {"FIRE", "DEMOTION"}
              \/ row.type = "PROMOTION" /\ row.about # "Sargento"

\* A row of the member, whose courses have not been taken since.
SinceTaken(rows, id, i) ==
    /\ rows[i].target = id
    /\ \A j \in i..Len(rows) : rows[j].target = id => ~ Takes(rows[j])

ApprovedIn(rows, id) ==
    {rows[i].about :
        i \in {j \in DOMAIN rows : SinceTaken(rows, id, j) /\ rows[j].type = "APPROVATION"}}

CoursesOf(table, id) == {r.name : r \in {h \in RowsOf(table, id) : h.type = "COURSE"}}

Renamed(rows, id) == \E i \in DOMAIN rows : rows[i].target = id /\ rows[i].type = "CHANGE"

Earned(id, table, rows) ==
    Renamed(rows, id) \/ CoursesOf(table, id) \subseteq ApprovedIn(rows, id)

\* Nobody had given the member a course without a class.
StartedEarned(id) ==
    id \in DOMAIN scenario.members => Earned(id, scenario.held, scenario.history)

(***************************************************************************)
(* Every course a member holds the history shows passed since the last     *)
(* dismissal or change of rank that takes courses, if it was so at the     *)
(* start: the permissions and the rows of a class, and the deletion and    *)
(* the row of a dismissal or of a change of rank, are written in any order *)
(* and no transaction ties them together.  A member renamed has inherited  *)
(* a history and is left out.  The third warning of warnUser, which is not *)
(* here, logs a demotion and takes no courses.                             *)
(***************************************************************************)
CoursesAreEarned ==
    Orderly /\ Quiet =>
        \A id \in DOMAIN member : StartedEarned(id) => Earned(id, held, history)

(***************************************************************************)
(* postClass refuses the CFPM for an active member: whoever it makes a     *)
(* Soldado was a Recruta.                                                  *)
(***************************************************************************)
EnlistsRecrutas ==
    \A p \in Procs :
        At(p, "class.enlist") /\ req'[p] # req[p] =>
            \A id \in DOMAIN member :
                member'[id].roleName # member[id].roleName => member[id].roleName = "Recruta"

OnlyRecrutasEnlist == [][Orderly => EnlistsRecrutas]_vars

\* What the handler's message says, of every call made in turn.
ActiveMembersAreRefused == [][scenario.exclusive => EnlistsRecrutas]_vars
-----------------------------------------------------------------------------
(***************************************************************************)
(* Accounts                                                                *)
(***************************************************************************)

(***************************************************************************)
(* Members pass through the corps as Membership says: activation, which    *)
(* checks the role long before it writes, opens no account of a Recruta; a *)
(* dismissal closes the account; and changeUserNick deletes none but       *)
(* Recrutas, whatever it read of them before.  A Recruta whose account is  *)
(* open is in no phase at all.                                             *)
(***************************************************************************)
PhaseOf(row) ==
    IF row.roleName # "Recruta"
    THEN IF row.isAccountActive THEN "active" ELSE "enlisted"
    ELSE IF row.isAccountActive THEN "none" ELSE "recruta"

PhasesOf == [id \in DOMAIN member |-> PhaseOf(member[id])]

Life == INSTANCE Membership WITH phase <- PhasesOf

ImplementsMembership ==
    Life!Init /\ [][scenario.exclusive /\ ContractsEnlist => Life!Next]_PhasesOf

(***************************************************************************)
(* No change of nick loses a row of the history, although the deletion     *)
(* takes the rows of the deleted along: they have been moved before.       *)
(***************************************************************************)
HistoryOutlivesRename ==
    [][scenario.exclusive /\ RenamesApart => Len(history') >= Len(history)]_vars

(***************************************************************************)
(* A handler that has begun to write reaches its last write: in orderly    *)
(* calls no query between the first write and the last finds a row gone, a *)
(* nick taken or a row there already.  With one exception: postClass asks  *)
(* for the course only, so a class stops half way, logged and recorded     *)
(* without its permissions, if one of the approved has from an earlier     *)
(* class the permission the course gives besides, which changes of rank    *)
(* do not take with the course.                                            *)
(***************************************************************************)
KeptFromEarlier(p) ==
    \E id \in Range(req[p].ids) :
        [user |-> id, name |-> About(p), type |-> "OTHER"] \in held

BegunIsFinished ==
    [][Orderly =>
        \A p \in Procs :
            /\ req[p].stage \in {"class.enlist", "class.collect", "nick.delete", "nick.update"} =>
                  req'[p].stage # "idle"
            /\ At(p, "role.create") /\ req'[p] # req[p] => posts' # posts
            /\ At(p, "class.settle") /\ "permissions" \in req[p].todo \ req'[p].todo =>
                  held' # held \/ KeptFromEarlier(p)]_vars

(***************************************************************************)
(* Several handlers read a row by nick, wait, and update by nick again.    *)
(* Unless a change of nick races with them they write the row they read.   *)
(***************************************************************************)
UpdatesByNick == {"class.enlist", "fire.settle", "rank.settle", "nick.update", "code.update",
                  "wear.update"}

RowRead(p) == IF At(p, "wear.update") THEN req[p].who.id ELSE req[p].target

WritesReachTheRowRead ==
    [][scenario.exclusive \/ CallsOf("changeUserNick") = {} =>
        \A p \in Procs :
            req[p].stage \in UpdatesByNick /\ req'[p] # req[p] =>
                \A id \in DOMAIN member \ {RowRead(p)} : member'[id] = member[id]]_vars
-----------------------------------------------------------------------------
(***************************************************************************)
(* Capes                                                                   *)
(***************************************************************************)
(***************************************************************************)
(* The picture of every cape in the table is in the bucket, whatever fails *)
(* and whatever races: createCape uploads first.  In calls made in turn it *)
(* is the one uploaded with that cape, since a file that belongs to a cape *)
(* is not uploaded again; two uploads of one file in flight break that.    *)
(***************************************************************************)
CapeShowsItsUpload ==
    \A c \in capes :
        /\ c.file \in DOMAIN bucket
        /\ scenario.exclusive => bucket[c.file] = c.name
-----------------------------------------------------------------------------
(***************************************************************************)
(* Whatever fails, every request gets an answer: no handler is left        *)
(* without a query to wait for.                                            *)
(***************************************************************************)
EveryCallIsAnswered == \A p \in Procs : ~ At(p, "idle") ~> At(p, "idle")
=============================================================================
