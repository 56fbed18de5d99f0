----------------------------- MODULE Discipline -----------------------------
(***************************************************************************)
(* The four single-member handlers of ActionsService: promoteUser,         *)
(* demoteUser, fireUser and warnUser, as the server runs them: each call   *)
(* is a request that reads rows, decides on what it has read and then      *)
(* sends its writes, and every query is atomic only by itself.             *)
(*                                                                         *)
(* A request keeps the queries it has sent and not yet heard of:           *)
(*   - while it reads, `awaiting' names the rows or permission lists that  *)
(*     the current Promise.all still waits for;                            *)
(*   - while it writes, `batches' holds one set of writes per await: the   *)
(*     writes of the first set are all on their way and land in any order, *)
(*     the next set is sent when the first has landed.                     *)
(* A write that fails rejects its await: what was sent with it still       *)
(* lands, what comes after is never sent.  A server that stops is a server *)
(* whose queries all fail.                                                 *)
(***************************************************************************)
EXTENDS Authority, Sequences

CONSTANTS
    Users,      \* the members that have a row in the User table
    Nicks,      \* what a client may type as a nick: a member's, or nobody's
    Track,      \* the ladder each member was contracted into
    PermNames,  \* the names a permission may have
    Databases,  \* the databases the server may start on
    Calls,      \* the calls clients make
    Grants,     \* the permissions administrators may give meanwhile
    Procs,      \* requests that can be in flight together
    DayLen,     \* ticks of the clock in 24 hours
    MaxNow,     \* bound: the last tick of the clock
    MaxCalls,   \* bound: calls made in a behaviour
    Settings    \* the settings behaviours run in, see Setting

\* What surrounds the server in a behaviour: whether clients leave a member
\* alone while a call on that member is in flight, which nothing in the code
\* makes them do, and whether queries may fail.
Setting == [exclusive : BOOLEAN, faults : BOOLEAN]

Ops == {"promote", "demote", "fire", "warn"}
Who == {"target", "actor"}

Call == [op : Ops, actor : Users, target : Nicks]

AdvNums == 0..2

UserRow == [roleName            : RoleNames,
            advNum              : AdvNums,
            isAccountActive     : BOOLEAN,
            bonificationsInRole : Nat,
            lastPromoted        : Nat]

Permission == [name : PermNames, type : {"COURSE", "OTHER"}]
UserPermission == [user : Users, perm : Permission]

LogRow == [type     : {"PROMOTION", "DEMOTION", "FIRE", "WARNING", "CONTRACTING"},
           target   : Users,
           newRole  : RoleNames \cup {NoRole},
           bySystem : BOOLEAN,
           bonificationsInRole : Nat,
           isActive : BOOLEAN]

Database == [user  : [Users -> UserRow],
             perms : SUBSET UserPermission,
             depts : SUBSET Users,
             log   : Seq(LogRow)]

OnTrack(u, role) == role = "Recruta" \/ KindOf(role) = Track[u]

ASSUME DisciplineAssumption ==
    /\ Users \subseteq Nicks
    /\ Track \in [Users -> Kinds]
    /\ Databases \subseteq Database
    /\ \A d \in Databases, u \in Users : OnTrack(u, d.user[u].roleName)
    /\ Calls # {} /\ Calls \subseteq Call
    /\ Grants \subseteq UserPermission
    /\ DayLen \in Nat \ {0}
    /\ MaxNow \in Nat /\ MaxCalls \in Nat
    /\ Settings \subseteq Setting

WarningRows(rows, u) ==
    {i \in DOMAIN rows : rows[i].target = u /\ rows[i].type = "WARNING"}

\* The server starts on a history that has the warnings members have received.
ASSUME HistoryAssumption ==
    \A d \in Databases, u \in Users :
        d.user[u].advNum <= Cardinality(WarningRows(d.log, u))

NamedRoles(rows, u) == {rows[i].newRole : i \in {j \in DOMAIN rows : rows[j].target = u}}

\* That history says how members came to hold their roles, and who is a Recruta
\* has no permissions but those administrators give.
ASSUME StartAssumption ==
    \A d \in Databases, u \in Users :
        /\ d.user[u].roleName \in NamedRoles(d.log, u)
        /\ d.user[u].roleName = "Recruta" =>
              {g \in d.perms : g.user = u} \subseteq Grants

VARIABLES
    user,    \* the User table
    perms,   \* the PermissionsObtained table
    depts,   \* the members that have a row in userDepartamentRole
    log,     \* the ActivityLog table, oldest row first
    now,     \* the clock
    req,     \* the request each process handles
    issued,  \* calls made so far
    setting  \* the setting of this behaviour, which never changes

db   == <<user, perms, depts, log>>
vars == <<user, perms, depts, log, now, req, issued, setting>>

Writes == {"update", "register", "deleteCourses", "deleteCFO",
           "deletePermissions", "deleteRoles", "warning", "retireWarnings"}

Request == [stage    : {"idle", "rows", "perms", "writes"},
            call     : Call,
            awaiting : SUBSET Who,
            row      : [Who -> UserRow],
            held     : [Who -> SUBSET Permission],
            batches  : Seq(SUBSET Writes),
            stamp    : Nat]

\* What a request holds in the place of a row it has not read.
NoRow == [roleName |-> "Recruta", advNum |-> 0, isAccountActive |-> FALSE,
          bonificationsInRole |-> 0, lastPromoted |-> 0]

Idle == [stage    |-> "idle",
         call     |-> CHOOSE c \in Calls : TRUE,
         awaiting |-> {},
         row      |-> [w \in Who |-> NoRow],
         held     |-> [w \in Who |-> {}],
         batches  |-> <<>>,
         stamp    |-> 0]

PermsOf(nick) == {g.perm : g \in {h \in perms : h.user = nick}}
-----------------------------------------------------------------------------
(***************************************************************************)
(* What the handlers decide on the rows they have read: t is the row of    *)
(* the target, a the row of the actor.                                     *)
(***************************************************************************)
DaysInRole(t, time) == (time - t.lastPromoted) \div DayLen

Admitted(op, t, a, time) ==
    IF op = "promote"
    THEN /\ MayPromote(t.roleName, a.roleName)
         /\ t.isAccountActive
         /\ DaysInRole(t, time) >= Roles[t.roleName].daysToBePromoted
    ELSE MayPunish(op, t.roleName, a.roleName)

Permitted(op, t, tperms, a, aperms) ==
    IF op = "promote"
    THEN PromotionPermitted(t.roleName, tperms, a.roleName, aperms)
    ELSE PunishmentPermitted(op, t.roleName, a.roleName, aperms)

\* The permission lists the handler reads: only promoteUser asks for the
\* target's.
Consulted(op) == IF op = "promote" THEN Who ELSE {"actor"}

NewRole(op, t) == CASE op = "promote" -> NextUp(t.roleName)
                    [] op = "fire"    -> "Recruta"
                    [] OTHER          -> NextDown(t.roleName)

(***************************************************************************)
(* The writes of a handler, one set per await.  A third warning of a       *)
(* member on the lowest executive rank finds no role below: reading its    *)
(* name throws once the warning is logged, and nothing else is sent.       *)
(***************************************************************************)
Dismissal == {"register", "update", "retireWarnings"}

\* Mistake: the warning logged together with the update of the member.
WarningPlanAtOnce(t) ==
    IF t.advNum # 2 THEN <<{"warning", "update"}>>
    ELSE <<{"warning"}, Dismissal>>

\* Mistake: a dismissed Soldado keeps the permissions.
WarningPlanKeepingPermissions(t) ==
    IF t.advNum # 2 THEN <<{"warning"}, {"update"}>>
    ELSE IF NextDown(t.roleName) = NoRole THEN <<{"warning"}>>
    ELSE <<{"warning"}, Dismissal>>

\* Mistake: the warnings of a punished member stay active.
WarningPlanWithoutRetiring(t) ==
    IF t.advNum # 2 THEN <<{"warning"}, {"update"}>>
    ELSE IF NextDown(t.roleName) = NoRole THEN <<{"warning"}>>
    ELSE <<{"warning"}, {"register", "update"}>>

WarningPlan(t) ==
    IF t.advNum # 2 THEN <<{"warning"}, {"update"}>>
    ELSE IF NextDown(t.roleName) = NoRole THEN <<{"warning"}>>
    ELSE IF t.roleName = "Soldado"
    THEN <<{"warning"}, {"deletePermissions"}, Dismissal>>
    ELSE <<{"warning"}, Dismissal>>

Change == {"update", "register", "deleteCourses"}

DemotionPlan(t) ==
    IF PositionOf(NextDown(t.roleName)) = 5 THEN <<{"deleteCFO"}, Change>>
                                            ELSE <<Change>>

\* Mistake: the departament roles of who is fired are left.
PlanKeepingRoles(op, t) ==
    CASE op = "promote" -> <<Change>>
      [] op = "demote"  -> DemotionPlan(t)
      [] op = "fire"    -> <<{"update", "register", "deletePermissions"}>>
      [] op = "warn"    -> WarningPlan(t)

Plan(op, t) ==
    CASE op = "promote" -> <<Change>>
      [] op = "demote"  -> DemotionPlan(t)
      [] op = "fire"    ->
            <<{"update", "register", "deletePermissions", "deleteRoles"}>>
      [] op = "warn"    -> WarningPlan(t)

(***************************************************************************)
(* The data of user.update: `row' is the row the query finds, t the row    *)
(* the handler has read, `stamp' the date it took when it sent the query.  *)
(***************************************************************************)
Ranked(row, role, stamp) == [row EXCEPT !.roleName = role,
                                        !.bonificationsInRole = 0,
                                        !.lastPromoted = stamp]

Expelled(row) == [row EXCEPT !.roleName = "Recruta",
                             !.isAccountActive = FALSE,
                             !.bonificationsInRole = 0]

\* Mistake: the third warning leaves the counter as it was.
PunishedStillWarned(row, t) == [row EXCEPT !.roleName = NextDown(t.roleName)]

Punished(row, t) == [row EXCEPT !.roleName = NextDown(t.roleName),
                                !.isAccountActive = (t.roleName # "Soldado"),
                                !.advNum = 0]

\* Mistake: the counter incremented whatever the handler has read.
WarnedByIncrement(row, t) == [row EXCEPT !.advNum = @ + 1]

\* advNum is written as a value computed from t, not as an increment.
Warned(row, t) == [row EXCEPT !.advNum = t.advNum + 1]

\* Mistake: every change of role leads to the military ladder.
UpdatedAcrossLadders(op, t, row, stamp) ==
    [row EXCEPT !.roleName = IF op = "fire" THEN "Recruta" ELSE "Soldado"]

Updated(op, t, row, stamp) ==
    CASE op \in {"promote", "demote"} -> Ranked(row, NewRole(op, t), stamp)
      [] op = "fire"                  -> Expelled(row)
      [] op = "warn"                  -> IF t.advNum = 2 THEN Punished(row, t)
                                                         ELSE Warned(row, t)

\* Mistake: the row names the role the member leaves.
ChangeRowOfOldRole(op, t, u) ==
    [type |-> "PROMOTION", target |-> u, newRole |-> t.roleName,
     bySystem |-> op = "warn", bonificationsInRole |-> 0, isActive |-> TRUE]

\* The row activityLog.create adds for a change of role ...
ChangeType(op, t) ==
    IF op = "promote" THEN "PROMOTION"
    ELSE IF op = "fire" \/ (op = "warn" /\ t.roleName = "Soldado") THEN "FIRE"
    ELSE "DEMOTION"

ChangeRow(op, t, u) ==
    [type     |-> ChangeType(op, t),
     target   |-> u,
     newRole  |-> NewRole(op, t),
     bySystem |-> op = "warn",
     bonificationsInRole |-> IF op = "promote" THEN t.bonificationsInRole ELSE 0,
     isActive |-> TRUE]

\* ... and for a warning.
WarningRow(u) == [type |-> "WARNING", target |-> u, newRole |-> NoRole,
                  bySystem |-> FALSE, bonificationsInRole |-> 0,
                  isActive |-> TRUE]

\* The permissions a deleteMany of the handler takes from a member.
Deleted(w, op, t) ==
    CASE w = "deletePermissions" -> Permission
      [] w = "deleteCFO"         -> {p \in Permission : p.name = "CFO"}
      [] w = "deleteCourses"     ->
            IF op = "promote" /\ NewRole(op, t) = "Sargento"
            THEN {p \in Permission : p.name = "ECb"}
            ELSE {p \in Permission : p.type = "COURSE"}
-----------------------------------------------------------------------------
Init == /\ \E d \in Databases : /\ user  = d.user
                                /\ perms = d.perms
                                /\ depts = d.depts
                                /\ log   = d.log
        /\ now = 0
        /\ req = [p \in Procs |-> Idle]
        /\ issued = 0
        /\ setting \in Settings

Busy(p) == req[p].stage # "idle"

(***************************************************************************)
(* AuthGuard lets an active account through; of the row it reads the       *)
(* handler only uses the nick.  Exclusive clients leave the member alone   *)
(* until the last write is over, not only until they have an answer, which *)
(* a failed write gives them while the others are still on their way.      *)
(***************************************************************************)
Submit(p, c) ==
    /\ ~ Busy(p) /\ issued < MaxCalls
    /\ user[c.actor].isAccountActive
    /\ setting.exclusive => \A q \in Procs : Busy(q) => req[q].call.target # c.target
    /\ req' = [req EXCEPT ![p] = [Idle EXCEPT !.stage = "rows",
                                              !.call = c,
                                              !.awaiting = Who]]
    /\ issued' = issued + 1
    /\ UNCHANGED <<db, now, setting>>

\* A request that has heard the answer to one of its reads.
WithRow(r, who, row)   == [r EXCEPT !.awaiting = @ \ {who},
                                    !.row = [@ EXCEPT ![who] = row]]
WithHeld(r, who, held) == [r EXCEPT !.awaiting = @ \ {who},
                                    !.held = [@ EXCEPT ![who] = held]]

\* One of the two user.findUnique answers.
ReadRow(p, who) ==
    LET nick == req[p].call[who] IN
    /\ req[p].stage = "rows" /\ who \in req[p].awaiting
    /\ req' = [req EXCEPT ![p] =
                 WithRow(@, who, IF nick \in Users THEN user[nick] ELSE NoRow)]
    /\ UNCHANGED <<db, now, issued, setting>>

Found(p) == req[p].call.target \in Users

RowsAdmit(p) ==
    Found(p) /\ Admitted(req[p].call.op, req[p].row["target"],
                         req[p].row["actor"], now)

Admit(p) ==
    /\ req[p].stage = "rows" /\ req[p].awaiting = {}
    /\ RowsAdmit(p)
    /\ req' = [req EXCEPT ![p] =
                 [@ EXCEPT !.stage = "perms",
                           !.awaiting = Consulted(req[p].call.op)]]
    /\ UNCHANGED <<db, now, issued, setting>>

\* One of the permissionsObtained.findMany answers.
ReadPerms(p, who) ==
    /\ req[p].stage = "perms" /\ who \in req[p].awaiting
    /\ req' = [req EXCEPT ![p] = WithHeld(@, who, PermsOf(req[p].call[who]))]
    /\ UNCHANGED <<db, now, issued, setting>>

PermsPermit(p) ==
    Permitted(req[p].call.op, req[p].row["target"], req[p].held["target"],
              req[p].row["actor"], req[p].held["actor"])

\* The handler has decided: it sends the first of its writes.
Issue(p) ==
    /\ req[p].stage = "perms" /\ req[p].awaiting = {}
    /\ PermsPermit(p)
    /\ req' = [req EXCEPT ![p] =
                 [@ EXCEPT !.stage = "writes",
                           !.batches = Plan(req[p].call.op, req[p].row["target"]),
                           !.stamp = now]]
    /\ UNCHANGED <<db, now, issued, setting>>

\* Mistake: the first refusal is never sent.
RefuseOnPermsOnly(p) ==
    /\ req[p].stage = "perms" /\ req[p].awaiting = {} /\ ~ PermsPermit(p)
    /\ req' = [req EXCEPT ![p] = Idle]
    /\ UNCHANGED <<db, now, issued, setting>>

Refuse(p) ==
    /\ req[p].awaiting = {}
    /\ \/ req[p].stage = "rows"  /\ ~ RowsAdmit(p)
       \/ req[p].stage = "perms" /\ ~ PermsPermit(p)
    /\ req' = [req EXCEPT ![p] = Idle]
    /\ UNCHANGED <<db, now, issued, setting>>

\* A read fails: the handler throws.
FailRead(p) ==
    /\ setting.faults
    /\ req[p].stage \in {"rows", "perms"} /\ req[p].awaiting # {}
    /\ req' = [req EXCEPT ![p] = Idle]
    /\ UNCHANGED <<db, now, issued, setting>>
-----------------------------------------------------------------------------
OnTheWay(p, w) ==
    req[p].stage = "writes" /\ req[p].batches # <<>> /\ w \in Head(req[p].batches)

\* What is left to write once w has landed; a set that has landed entirely
\* lets the handler send the next one.
Left(batches, w) ==
    IF Head(batches) = {w} THEN Tail(batches)
                           ELSE <<Head(batches) \ {w}>> \o Tail(batches)

\* The handler is left with these sets of writes, the first of them sent at
\* `time'; with none it answers.
Proceed(p, batches, time) ==
    req' = [req EXCEPT ![p] = IF batches = <<>> THEN Idle
                              ELSE [@ EXCEPT !.batches = batches, !.stamp = time]]

Landed(p, w) ==
    /\ OnTheWay(p, w)
    /\ Proceed(p, Left(req[p].batches, w),
               IF Head(req[p].batches) = {w} THEN now ELSE req[p].stamp)

UpdateUser(p) ==
    LET u == req[p].call.target IN
    /\ Landed(p, "update")
    /\ user' = [user EXCEPT ![u] = Updated(req[p].call.op, req[p].row["target"],
                                           user[u], req[p].stamp)]
    /\ UNCHANGED <<perms, depts, log, now, issued, setting>>

Register(p) ==
    /\ Landed(p, "register")
    /\ log' = Append(log, ChangeRow(req[p].call.op, req[p].row["target"],
                                    req[p].call.target))
    /\ UNCHANGED <<user, perms, depts, now, issued, setting>>

LogWarning(p) ==
    /\ Landed(p, "warning")
    /\ log' = Append(log, WarningRow(req[p].call.target))
    /\ UNCHANGED <<user, perms, depts, now, issued, setting>>

RetireWarnings(p) ==
    /\ Landed(p, "retireWarnings")
    /\ log' = [i \in DOMAIN log |->
                 IF log[i].type = "WARNING" /\ log[i].target = req[p].call.target
                 THEN [log[i] EXCEPT !.isActive = FALSE] ELSE log[i]]
    /\ UNCHANGED <<user, perms, depts, now, issued, setting>>

DeletePermissions(p, w) ==
    /\ Landed(p, w)
    /\ perms' = {g \in perms :
                   \/ g.user # req[p].call.target
                   \/ g.perm \notin Deleted(w, req[p].call.op, req[p].row["target"])}
    /\ UNCHANGED <<user, depts, log, now, issued, setting>>

DeleteRoles(p) ==
    /\ Landed(p, "deleteRoles")
    /\ depts' = depts \ {req[p].call.target}
    /\ UNCHANGED <<user, perms, log, now, issued, setting>>

\* A write fails: the others of its set land, the sets after it are not sent.
LoseWrite(p, w) ==
    /\ setting.faults
    /\ OnTheWay(p, w)
    /\ Proceed(p, IF Head(req[p].batches) = {w} THEN <<>>
                  ELSE <<Head(req[p].batches) \ {w}>>, req[p].stamp)
    /\ UNCHANGED <<db, now, issued, setting>>
-----------------------------------------------------------------------------
\* AuthService.givePermission, called by an administrator; the unique key of
\* the table refuses a row that is there.
GivePermission(g) ==
    /\ g \notin perms
    /\ perms' = perms \cup {g}
    /\ UNCHANGED <<user, depts, log, now, req, issued, setting>>

Tick ==
    /\ now < MaxNow
    /\ now' = now + 1
    /\ UNCHANGED <<db, req, issued, setting>>

Write(p) ==
    \/ UpdateUser(p) \/ Register(p) \/ LogWarning(p) \/ RetireWarnings(p)
    \/ \E w \in {"deleteCourses", "deleteCFO", "deletePermissions"} :
          DeletePermissions(p, w)
    \/ DeleteRoles(p)

Step(p) ==
    \/ \E who \in Who : ReadRow(p, who) \/ ReadPerms(p, who)
    \/ Admit(p) \/ Issue(p) \/ Refuse(p)
    \/ Write(p)

Fail(p) == FailRead(p) \/ \E w \in Writes : LoseWrite(p, w)

Next == \/ \E p \in Procs : \/ \E c \in Calls : Submit(p, c)
                            \/ Step(p)
                            \/ Fail(p)
        \/ \E g \in Grants : GivePermission(g)
        \/ Tick

\* The database answers, and the event loop runs what an answer wakes.
Fairness == \A p \in Procs : WF_vars(Step(p))

Spec == Init /\ [][Next]_vars
FairSpec == Spec /\ Fairness
-----------------------------------------------------------------------------
(***************************************************************************)
(* Properties.                                                             *)
(***************************************************************************)

\* The tables and the requests have the shape of the schema; above all, no
\* interleaving of warnings takes advNum out of 0..2.
TypeOK ==
    /\ user \in [Users -> UserRow]
    /\ perms \subseteq UserPermission
    /\ depts \subseteq Users
    /\ log \in Seq(LogRow)
    /\ now \in Nat
    /\ req \in [Procs -> Request]
    /\ issued \in Nat

(***************************************************************************)
(* A member never ends up on the other ladder: whatever the interleaving   *)
(* of the handlers, which compute the new role from a role they read       *)
(* earlier, a member holds a role of the ladder of the contract, or is a   *)
(* Recruta.                                                                *)
(***************************************************************************)
StaysOnTrack == \A u \in Users : OnTrack(u, user[u].roleName)

(***************************************************************************)
(* No warning counts against a member without a WARNING row in the         *)
(* history: warnUser logs first and counts afterwards, so neither races    *)
(* nor failed queries can make advNum exceed the warnings logged.          *)
(***************************************************************************)
EveryWarningIsLogged ==
    \A u \in Users : user[u].advNum <= Cardinality(WarningRows(log, u))

LoggedRoles(u) == NamedRoles(log, u)

\* The writes a request has sent or is going to send.
Outstanding(batches) == UNION {batches[i] : i \in DOMAIN batches}

PendingRoles(u) ==
    {NewRole(req[p].call.op, req[p].row["target"]) :
        p \in {q \in Procs : /\ req[q].call.target = u
                             /\ "register" \in Outstanding(req[q].batches)}}

(***************************************************************************)
(* As long as no query fails, the history explains the role: whatever the  *)
(* order in which the writes of the handlers land, the role a member holds *)
(* is one the activity log names or is about to name.                      *)
(***************************************************************************)
HistoryNamesEveryRole ==
    ~ setting.faults => \A u \in Users :
                   user[u].roleName \in LoggedRoles(u) \cup PendingRoles(u)

AtRest == \A p \in Procs : ~ Busy(p)

(***************************************************************************)
(* Who has become a Recruta, fired or dismissed at the third warning as a  *)
(* Soldado, holds once every request has answered no permission but those  *)
(* administrators may have given meanwhile, even when promotions and       *)
(* demotions of the member were in flight.                                 *)
(***************************************************************************)
RecrutaHoldsNoPermission ==
    AtRest /\ ~ setting.faults =>
        \A u \in Users : user[u].roleName = "Recruta" =>
            {g \in perms : g.user = u} \subseteq Grants

(***************************************************************************)
(* Who is dismissed leaves the departaments too, unless the third warning  *)
(* did it: a Recruta at rest with a departament role is one the system     *)
(* dismissed and no officer has fired, whatever else was in flight.        *)
(***************************************************************************)
OnlyWarningsLeaveRoles ==
    AtRest /\ ~ setting.faults =>
        \A u \in depts : user[u].roleName = "Recruta" =>
            LET fired == {i \in DOMAIN log : log[i].target = u /\ log[i].type = "FIRE"}
            IN  fired # {} /\ \A i \in fired : log[i].bySystem

PunishedBySystem(u) == {i \in DOMAIN log : log[i].target = u /\ log[i].bySystem}

PunishmentsAreEarned ==
    \A u \in Users : 3 * Cardinality(PunishedBySystem(u)) + user[u].advNum
                        <= Cardinality(WarningRows(log, u))

(***************************************************************************)
(* Each punishment the system applies has three warnings of its own        *)
(* behind it, and at rest those counted against the member are others      *)
(* again (the log row of the punishment says so: actions.service.ts:1189). *)
(***************************************************************************)
ThreeWarningsPerPunishment == AtRest /\ ~ setting.faults => PunishmentsAreEarned

ActiveWarnings(u) == {i \in WarningRows(log, u) : log[i].isActive}

(***************************************************************************)
(* Of a military member left to one request at a time, the counter and the *)
(* history agree at rest: advNum is the number of active WARNING rows.     *)
(***************************************************************************)
WarningLedger ==
    AtRest /\ setting.exclusive /\ ~ setting.faults =>
        \A u \in Users : Track[u] = "MILITARY" =>
            user[u].advNum = Cardinality(ActiveWarnings(u))

RoleRows(u) == {i \in DOMAIN log : log[i].target = u /\ log[i].newRole # NoRole}

(***************************************************************************)
(* With one request at a time per member and no failed query, the last     *)
(* role the history gives a member is, at rest, the role the member holds. *)
(***************************************************************************)
LastRoleIsCurrent ==
    AtRest /\ setting.exclusive /\ ~ setting.faults =>
        \A u \in Users :
            \A i \in RoleRows(u) :
                (\A j \in RoleRows(u) : j <= i) => log[i].newRole = user[u].roleName

(***************************************************************************)
(* A request that is let in is answered.                                   *)
(***************************************************************************)
RequestsFinish == \A p \in Procs : Busy(p) ~> ~ Busy(p)

(***************************************************************************)
(* Three active warnings bring a punishment, whatever the rank: at rest no *)
(* member has more than two.  The lowest executive rank has none below it. *)
(***************************************************************************)
ThirdWarningPunishes ==
    AtRest => \A u \in Users : Cardinality(ActiveWarnings(u)) <= 2

(***************************************************************************)
(* When clients leave a member alone while a request on that member is in  *)
(* flight, each handler is one step of the ladder: the member's row before *)
(* user.update is still the row the handler decided on.  Failed queries do *)
(* not break this, the update either lands or does not.                    *)
(***************************************************************************)
CareerOf(row) == [roleName |-> row.roleName, advNum |-> row.advNum,
                  isAccountActive |-> row.isAccountActive]

Ladder == INSTANCE CareerLadder WITH career <- [u \in Users |-> CareerOf(user[u])]

ImplementsLadder == Ladder!Spec
=============================================================================
