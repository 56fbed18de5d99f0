------------------------------ MODULE Careers -------------------------------
(***************************************************************************)
(* ActionsService.promoteUser and demoteUser on members with ids: besides  *)
(* the rank they change what a member holds, while classes, dismissals and *)
(* changes of nick go on.                                                  *)
(*                                                                         *)
(* Discipline has their reads one by one; here, as in FindToFire, the two  *)
(* rows and the permissions are read in one step.                          *)
(***************************************************************************)
EXTENDS Accounts

RankOps == {"promoteUser", "demoteUser"}

\* promoteUser refuses a nick Habbo does not know.
SubmitRankCall(p) ==
    \E op \in RankOps : \E call \in CallsOf(op) :
        /\ Admitted(call)
        /\ op = "promoteUser" => Canon[call.nicks[1]] # NoNick
        /\ Begin(p, call, "rank.find", Guarded(call.actor))

NextRole(op, role) == IF op = "promoteUser" THEN NextUp(role) ELSE NextDown(role)

MayRank(op, id, officer) ==
    /\ {id, officer} \subseteq DOMAIN member
    /\ LET role   == member[id].roleName
           theirs == member[officer].roleName
       IN  IF op = "promoteUser"
           THEN /\ MayPromote(role, theirs) /\ member[id].isAccountActive
                /\ PromotionPermitted(role, RowsOf(held, id), theirs, RowsOf(held, officer))
           ELSE /\ MayPunish("demote", role, theirs)
                /\ PunishmentPermitted("demote", role, theirs, RowsOf(held, officer))

RankWrites == {"update", "log", "permissions"}

\* Down to position 5 the CFO goes in a query of its own.
FirstWrite(op, role) ==
    IF op = "demoteUser" /\ PositionOf(role) = 5 THEN "rank.cfo" ELSE "rank.settle"

\* The new role takes the place of what the call is about.  A promotion is
\* refused besides to who has too few days in the role, which are not kept here.
FindToRank(p) ==
    LET op   == req[p].call.op
        id   == Find(Spelled(req[p].call.nicks[1]))
        role == NextRole(op, member[id].roleName)
        may  == MayRank(op, id, Find(req[p].who.nick))
    IN  /\ At(p, "rank.find")
        /\ \/ /\ may
              /\ req' = [req EXCEPT ![p].stage = FirstWrite(op, role), ![p].target = id,
                                    ![p].call.about = role, ![p].todo = RankWrites]
           \/ (may => op = "promoteUser") /\ Answer(p)
        /\ UNCHANGED <<tables, now, issued, scenario>>

RevokeCfo(p) ==
    /\ At(p, "rank.cfo")
    /\ held' = {r \in held : ~ (r.user = req[p].target /\ r.name = "CFO")}
    /\ Goto(p, "rank.settle")
    /\ UNCHANGED <<member, created, posts, history, classes, sessions, wardrobe,
                   now, issued, scenario>>

\* The update is by the nick that was read.
Rerank(p) ==
    LET id == Find(Spelled(req[p].call.nicks[1]))
    IN  /\ At(p, "rank.settle") /\ "update" \in req[p].todo
        /\ member' = IF id = NoId THEN member
                                  ELSE [member EXCEPT ![id].roleName = Role(p)]
        /\ Settle(p, "update")
        /\ UNCHANGED <<created, posts, held, history, classes, sessions, wardrobe,
                       now, issued, scenario>>

LogRank(p) ==
    /\ At(p, "rank.settle") /\ "log" \in req[p].todo
    /\ history' = Logged(IF req[p].call.op = "promoteUser" THEN "PROMOTION" ELSE "DEMOTION",
                         req[p].target, Role(p))
    /\ Settle(p, "log")
    /\ UNCHANGED <<member, created, posts, held, classes, sessions, wardrobe,
                   now, issued, scenario>>

\* A promotion to Sargento takes the ECb only; any other change of rank takes
\* the courses, and leaves what they have given besides.
\* Mistake: a demotion to Sargento, too, takes the ECb only.
RevokedAtSargento(r, op, role) ==
    IF role = "Sargento" THEN r.name = "ECb" ELSE r.type = "COURSE"

Revoked(r, op, role) ==
    IF op = "promoteUser" /\ role = "Sargento" THEN r.name = "ECb" ELSE r.type = "COURSE"

TakeCourses(p) ==
    /\ At(p, "rank.settle") /\ "permissions" \in req[p].todo
    /\ held' = {r \in held : ~ (r.user = req[p].target
                                  /\ Revoked(r, req[p].call.op, Role(p)))}
    /\ Settle(p, "permissions")
    /\ UNCHANGED <<member, created, posts, history, classes, sessions, wardrobe,
                   now, issued, scenario>>
-----------------------------------------------------------------------------
CareerStep(p) ==
    FindToRank(p) \/ RevokeCfo(p) \/ Rerank(p) \/ LogRank(p) \/ TakeCourses(p)
=============================================================================
