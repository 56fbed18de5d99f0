----------------------------- MODULE MassActions -----------------------------
(***************************************************************************)
(* demoteMultiple, fireMultiple and warnMultiple of ActionsService, beside *)
(* the handlers for one member, on the same tables.                        *)
(*                                                                         *)
(* A list is walked twice.  The first walk only checks each member; the    *)
(* second reads each member again and prepares the writes, which Prisma    *)
(* does not send before the Promise.all at the end: when the second walk   *)
(* throws, none of them is made.  The one exception is the log row of a    *)
(* third warning, which the second walk awaits.                            *)
(*                                                                         *)
(* The handlers mean to ask for a role in the RH departament; the list of  *)
(* those roles, empty or not, counts as one, so every active account may   *)
(* call them.  Nicks of one character, which both walks skip, are left out *)
(* of the lists.                                                           *)
(***************************************************************************)
EXTENDS Discipline

CONSTANTS
    Lists,      \* the calls clients make
    Desks,      \* list requests that can be in flight together
    MaxLists    \* bound: lists submitted in a behaviour

MassOps == {"demote", "fire", "warn"}

MassCall == [op : MassOps, actor : Users, nicks : Seq(Nicks)]

ASSUME MassAssumption ==
    /\ Lists # {} /\ Lists \subseteq MassCall
    /\ \A c \in Lists : c.nicks # <<>>
    /\ MaxLists \in Nat

VARIABLES
    desk,       \* the list request each desk handles
    snapshots,  \* the userBeforeAction table: the roles it remembers
    submitted   \* lists submitted so far

massVars == <<desk, snapshots, submitted>>
allVars  == <<user, perms, depts, log, now, req, issued, setting,
              desk, snapshots, submitted>>

MassWrites == Writes \cup {"snapshot"}

\* A row prepared for, and the date taken when its writes were.
Reading == [row : UserRow, stamp : Nat]

MassRequest ==
    [stage    : {"idle", "check", "prepare", "third", "writes"},
     call     : MassCall,
     at       : Nat \ {0},               \* the place in the list
     readings : Seq(Reading),            \* one per member the second walk read
     todo     : SUBSET (Nat \X MassWrites)]   \* writes, by place in the list

Clear == [stage |-> "idle", call |-> CHOOSE c \in Lists : TRUE, at |-> 1,
          readings |-> <<>>, todo |-> {}]

NickAt(d, i) == desk[d].call.nicks[i]
RowAt(d, i)  == desk[d].readings[i].row
Working(d)   == desk[d].stage # "idle"
-----------------------------------------------------------------------------
(***************************************************************************)
(* What the handlers decide.                                               *)
(***************************************************************************)
\* Mistake: the lowest of the generals not counted among them.
ListableBelowTen(op, t) ==
    /\ t.roleName \notin Untouchable(op)
    /\ ~ (KindOf(t.roleName) = "MILITARY" /\ PositionOf(t.roleName) > 9)

General(role) == KindOf(role) = "MILITARY" /\ PositionOf(role) >= 9

\* The check of the first walk on a row.
Listable(op, t) ==
    /\ t.roleName \notin Untouchable(op)
    /\ ~ General(t.roleName)

\* The second walk reads the name of the role below.
NeedsRoleBelow(op, t) == op = "demote" \/ (op = "warn" /\ t.advNum = 2)

Throws(op, t) == NeedsRoleBelow(op, t) /\ NextDown(t.roleName) = NoRole

\* Mistake: the role below looked up on the military ladder.
MassRoleMilitary(op, t) ==
    IF op = "fire" THEN "Recruta"
    ELSE CHOOSE r \in RoleNames :
            /\ KindOf(r) = "MILITARY"
            /\ PositionOf(r) = PositionOf(t.roleName) - 1

MassRole(op, t) == IF op = "fire" THEN "Recruta" ELSE NextDown(t.roleName)

\* Mistake: the role before is not remembered.
MassChangeForgotten == {"update", "deleteCourses", "register"}

\* The courses are deleted twice of a member demoted to position 5: the CFO,
\* a course, goes with the others.
MassChange == {"update", "deleteCourses", "register", "snapshot"}

MassDismissal ==
    {"update", "deletePermissions", "register", "deleteRoles", "snapshot"}

\* Mistake: the warning counted and not logged.
MassWarningUnlogged == {"update"}

MassWarning == {"warning", "update"}

MassPlan(op, t) ==
    IF op = "fire" THEN MassDismissal
    ELSE IF op = "demote" THEN MassChange
    ELSE IF t.advNum = 2 THEN MassChange \cup {"retireWarnings"}
    ELSE MassWarning

\* Mistakes: the role below computed from the row the update finds; the
\* counter left as it was.
MassUpdatedFromFound(op, t, row, stamp) ==
    IF NextDown(row.roleName) = NoRole THEN row
    ELSE [row EXCEPT !.roleName = NextDown(row.roleName)]
MassUpdatedStillWarned(op, t, row, stamp) ==
    IF op = "warn" /\ t.advNum # 2 THEN Warned(row, t)
    ELSE Ranked(row, MassRole(op, t), stamp)

\* A dismissed member stays active, unlike in fireUser.
MassUpdated(op, t, row, stamp) ==
    IF op = "warn" THEN IF t.advNum = 2
                        THEN [Ranked(row, MassRole(op, t), stamp) EXCEPT !.advNum = 0]
                        ELSE Warned(row, t)
    ELSE Ranked(row, MassRole(op, t), stamp)

MassRow(op, t, u) ==
    [type     |-> IF op = "fire" THEN "FIRE" ELSE "DEMOTION",
     target   |-> u,
     newRole  |-> MassRole(op, t),
     bySystem |-> op = "warn",
     bonificationsInRole |-> 0,
     isActive |-> TRUE]
-----------------------------------------------------------------------------
MassInit == /\ Init
            /\ desk = [d \in Desks |-> Clear]
            /\ snapshots = <<>>
            /\ submitted = 0

\* Clients who leave members alone wait for what is in flight, to the last write
\* of a list or a handler that has failed and been answered already.
SubmitList(d, c) ==
    /\ ~ Working(d) /\ submitted < MaxLists
    /\ setting.exclusive => AtRest /\ \A e \in Desks : ~ Working(e)
    /\ user[c.actor].isAccountActive
    /\ desk' = [desk EXCEPT ![d] = [Clear EXCEPT !.stage = "check", !.call = c]]
    /\ submitted' = submitted + 1
    /\ UNCHANGED <<vars, snapshots>>

NickListable(d) ==
    LET nick == NickAt(d, desk[d].at) IN
    nick \in Users /\ Listable(desk[d].call.op, user[nick])

LastNick(d) == desk[d].at = Len(desk[d].call.nicks)

\* First walk: user.findUnique has answered and the member passes.
CheckNick(d) ==
    /\ desk[d].stage = "check" /\ NickListable(d)
    /\ desk' = [desk EXCEPT ![d] =
                  IF LastNick(d) THEN [@ EXCEPT !.stage = "prepare", !.at = 1]
                                 ELSE [@ EXCEPT !.at = desk[d].at + 1]]
    /\ UNCHANGED <<vars, snapshots, submitted>>

\* Mistake: a member who may not be listed is passed over.
RefuseNobody(d) ==
    /\ desk[d].stage = "check" /\ NickAt(d, desk[d].at) \notin Users
    /\ desk' = [desk EXCEPT ![d] = Clear]
    /\ UNCHANGED <<vars, snapshots, submitted>>

\* One who does not, or an unknown nick, fails the whole list.
RefuseList(d) ==
    /\ desk[d].stage = "check" /\ ~ NickListable(d)
    /\ desk' = [desk EXCEPT ![d] = Clear]
    /\ UNCHANGED <<vars, snapshots, submitted>>

\* The writes for one more member are prepared; after the last all are sent.
Prepared(m, readings, w) ==
    [m EXCEPT !.readings = readings,
              !.todo  = @ \cup ({m.at} \X w),
              !.stage = IF m.at = Len(m.call.nicks) THEN "writes" ELSE "prepare",
              !.at    = IF m.at = Len(m.call.nicks) THEN @ ELSE @ + 1]

\* Second walk: the row is read again.  A third warning is logged at once, a
\* missing role below fails a list of demotions.
PrepareNick(d) ==
    LET m == desk[d]
        t == user[NickAt(d, m.at)]
        readings == Append(m.readings, [row |-> t, stamp |-> now]) IN
    /\ m.stage = "prepare"
    /\ desk' = [desk EXCEPT ![d] =
                  IF m.call.op = "warn" /\ t.advNum = 2
                  THEN [m EXCEPT !.stage = "third", !.readings = readings]
                  ELSE IF Throws(m.call.op, t) THEN Clear
                  ELSE Prepared(m, readings, MassPlan(m.call.op, t))]
    /\ UNCHANGED <<vars, snapshots, submitted>>

\* The log row of a third warning has been written, and the date is taken after
\* it; without a role below the list fails now.
Redated(m) == [m.readings EXCEPT ![m.at].stamp = now]

LogThird(d) ==
    LET m == desk[d]
        t == RowAt(d, m.at) IN
    /\ m.stage = "third"
    /\ log' = Append(log, WarningRow(NickAt(d, m.at)))
    /\ desk' = [desk EXCEPT ![d] =
                  IF Throws("warn", t) THEN Clear
                  ELSE Prepared(m, Redated(m), MassPlan("warn", t))]
    /\ UNCHANGED <<user, perms, depts, now, req, issued, setting, snapshots, submitted>>

\* One write of the Promise.all has been settled; with the last the handler
\* answers.
AfterMassWrite(m, x) ==
    IF m.todo = {x} THEN Clear ELSE [m EXCEPT !.todo = @ \ {x}]

MassLanded(d, i, w) ==
    /\ desk[d].stage = "writes" /\ <<i, w>> \in desk[d].todo
    /\ desk' = [desk EXCEPT ![d] = AfterMassWrite(@, <<i, w>>)]
    /\ UNCHANGED <<now, req, issued, setting, submitted>>

MassUpdateUser(d, i) ==
    LET m == desk[d] IN
    /\ MassLanded(d, i, "update")
    /\ user' = [user EXCEPT ![NickAt(d, i)] =
                  MassUpdated(m.call.op, RowAt(d, i), @, m.readings[i].stamp)]
    /\ UNCHANGED <<perms, depts, log, snapshots>>

MassRegister(d, i) ==
    /\ MassLanded(d, i, "register")
    /\ log' = Append(log, MassRow(desk[d].call.op, RowAt(d, i), NickAt(d, i)))
    /\ UNCHANGED <<user, perms, depts, snapshots>>

MassLogWarning(d, i) ==
    /\ MassLanded(d, i, "warning")
    /\ log' = Append(log, WarningRow(NickAt(d, i)))
    /\ UNCHANGED <<user, perms, depts, snapshots>>

MassRetireWarnings(d, i) ==
    /\ MassLanded(d, i, "retireWarnings")
    /\ log' = [k \in DOMAIN log |->
                 IF log[k].type = "WARNING" /\ log[k].target = NickAt(d, i)
                 THEN [log[k] EXCEPT !.isActive = FALSE] ELSE log[k]]
    /\ UNCHANGED <<user, perms, depts, snapshots>>

MassDeletePermissions(d, i, w) ==
    /\ MassLanded(d, i, w)
    /\ perms' = {g \in perms : \/ g.user # NickAt(d, i)
                               \/ w = "deleteCourses" /\ g.perm.type # "COURSE"}
    /\ UNCHANGED <<user, depts, log, snapshots>>

MassDeleteRoles(d, i) ==
    /\ MassLanded(d, i, "deleteRoles")
    /\ depts' = depts \ {NickAt(d, i)}
    /\ UNCHANGED <<user, perms, log, snapshots>>

\* The row does not say whose role it remembers.
TakeSnapshot(d, i) ==
    /\ MassLanded(d, i, "snapshot")
    /\ snapshots' = Append(snapshots, RowAt(d, i).roleName)
    /\ UNCHANGED db

MassWrite(d) ==
    \E i \in DOMAIN desk[d].readings :
        \/ MassUpdateUser(d, i) \/ MassRegister(d, i) \/ MassLogWarning(d, i)
        \/ MassRetireWarnings(d, i) \/ MassDeleteRoles(d, i) \/ TakeSnapshot(d, i)
        \/ \E w \in {"deleteCourses", "deletePermissions"} :
              MassDeletePermissions(d, i, w)

\* A query fails: in a walk the handler throws; at the end the write is lost.
MassFail(d) ==
    /\ setting.faults
    /\ \/ /\ desk[d].stage \in {"check", "prepare", "third"}
          /\ desk' = [desk EXCEPT ![d] = Clear]
          /\ UNCHANGED <<vars, snapshots, submitted>>
       \/ \E x \in desk[d].todo :
              MassLanded(d, x[1], x[2]) /\ UNCHANGED <<db, snapshots>>

MassStep(d) == CheckNick(d) \/ RefuseList(d) \/ PrepareNick(d) \/ LogThird(d)
               \/ MassWrite(d)

Considerate ==
    setting.exclusive /\ issued' # issued => \A d \in Desks : ~ Working(d)

MassNext == \/ Next /\ Considerate /\ UNCHANGED massVars
            \/ \E d \in Desks : \/ \E c \in Lists : SubmitList(d, c)
                                \/ MassStep(d)
                                \/ MassFail(d)

MassFairness == /\ \A d \in Desks : WF_allVars(MassStep(d))
                /\ \A p \in Procs : WF_allVars(Step(p) /\ UNCHANGED massVars)

MassSpec     == MassInit /\ [][MassNext]_allVars
MassFairSpec == MassSpec /\ MassFairness
-----------------------------------------------------------------------------
(***************************************************************************)
(* Properties.                                                             *)
(***************************************************************************)

\* Desks and snapshots have the shape of the code's locals and of the schema;
\* above all, lists and single warnings together keep advNum in 0..2.
MassTypeOK ==
    /\ TypeOK
    /\ desk \in [Desks -> MassRequest]
    /\ snapshots \in Seq(RoleNames)
    /\ submitted \in Nat

EverythingAtRest == AtRest /\ \A d \in Desks : ~ Working(d)

(***************************************************************************)
(* As long as no query fails, every warning counted is in the history once *)
(* everything is at rest, although warnMultiple writes both in no order.   *)
(***************************************************************************)
WarningsLoggedAtRest ==
    EverythingAtRest /\ ~ setting.faults => EveryWarningIsLogged

MassPendingRoles(u) ==
    UNION {{MassRole(desk[d].call.op, RowAt(d, i)) :
              i \in {j \in DOMAIN desk[d].readings :
                        <<j, "register">> \in desk[d].todo /\ NickAt(d, j) = u}} :
           d \in Desks}

(***************************************************************************)
(* HistoryNamesEveryRole with lists in flight: the role a member holds is  *)
(* in the history, or on its way there from a handler or a list.           *)
(***************************************************************************)
HistoryNamesRolesOfLists ==
    ~ setting.faults => \A u \in Users :
        user[u].roleName \in LoggedRoles(u) \cup PendingRoles(u)
                                \cup MassPendingRoles(u)

(***************************************************************************)
(* The officers a list may not punish (actions.service.ts:514, 619 and     *)
(* 710) lose no rank to one, as long as nobody is promoted between the two *)
(* walks: whoever ranked as a general before a step of a list still does   *)
(* after it.                                                               *)
(***************************************************************************)
GeneralsAreSpared ==
    [][\A d \in Desks : setting.exclusive /\ MassStep(d) =>
          \A u \in Users : General(user[u].roleName) =>
                              user'[u].roleName = user[u].roleName]_allVars

(***************************************************************************)
(* Undoing a list needs the role each member had: every member a list has  *)
(* moved left a role that one of the snapshots remembers, or will, when    *)
(* nothing races with the list and no query fails.                         *)
(***************************************************************************)
PendingSnapshots ==
    UNION {{RowAt(d, i).roleName :
              i \in {j \in DOMAIN desk[d].readings :
                        <<j, "snapshot">> \in desk[d].todo}} : d \in Desks}

Remembered == {snapshots[i] : i \in DOMAIN snapshots} \cup PendingSnapshots

SnapshotsRememberRoles ==
    [][\A d \in Desks : \A u \in Users :
          /\ setting.exclusive /\ ~ setting.faults
          /\ MassStep(d) /\ user'[u].roleName # user[u].roleName
          => user[u].roleName \in Remembered']_allVars

(***************************************************************************)
(* Three warnings of its own behind each punishment of the system, of      *)
(* lists as of warnUser (actions.service.ts:807), when requests and lists  *)
(* come one after the other.                                               *)
(***************************************************************************)
ThreeWarningsInLists ==
    EverythingAtRest /\ setting.exclusive /\ ~ setting.faults =>
        PunishmentsAreEarned

(***************************************************************************)
(* Every list that is let in is answered.                                  *)
(***************************************************************************)
ListsFinish == \A d \in Desks : Working(d) ~> ~ Working(d)

(***************************************************************************)
(* "não é um policial ativo para ser demitido novamente"                   *)
(* (actions.service.ts:616): who has been dismissed is not active, as      *)
(* fireUser sees to.                                                       *)
(***************************************************************************)
RecrutaIsInactive ==
    EverythingAtRest => \A u \in Users :
        user[u].roleName = "Recruta" => ~ user[u].isAccountActive
=============================================================================
