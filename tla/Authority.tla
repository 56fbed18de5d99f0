----------------------------- MODULE Authority -----------------------------
(***************************************************************************)
(* The rules that decide who may act on whom: the Roles and                *)
(* PermissionsRequired tables, the lookup of a role by its place in the    *)
(* hierarchy, ActionsService.missingPermissions and the conditions under   *)
(* which promoteUser, demoteUser, fireUser and warnUser go ahead.          *)
(*                                                                         *)
(* The operators are pure: they take the rows a handler has read, which by *)
(* the time it uses them may no longer be the rows of the database.        *)
(***************************************************************************)
EXTENDS Integers, FiniteSets

CONSTANTS Roles,     \* the Roles table: role name -> row
          Required   \* the rows of the PermissionsRequired table

RoleNames == DOMAIN Roles

\* What roles.findUnique answers when no row matches, and a null column.
NoRole == "null"

Kinds == {"MILITARY", "EXECUTIVE"}

RoleRow == [hierarchyKind             : Kinds,
            hierarchyPosition         : Nat,
            promotesUntilRolePosition : Nat,
            demoteUntilRolePosition   : Nat,
            gratifyUntilRolePosition  : Nat,
            daysToBePromoted          : Nat]

KindOf(role)     == Roles[role].hierarchyKind
PositionOf(role) == Roles[role].hierarchyPosition

\* The unique keys of the table, and the role everybody falls back to.
ASSUME RolesAssumption ==
    /\ Roles \in [RoleNames -> RoleRow]
    /\ "Recruta" \in RoleNames /\ PositionOf("Recruta") = 0
    /\ NoRole \notin RoleNames
    /\ \A r, s \in RoleNames :
          KindOf(r) = KindOf(s) /\ PositionOf(r) = PositionOf(s) => r = s

(***************************************************************************)
(* roles.findUnique({ roleIdentifier }), `steps' rungs away from a role on *)
(* the same ladder.                                                        *)
(***************************************************************************)
Rungs(role, steps) ==
    {r \in RoleNames : /\ KindOf(r) = KindOf(role)
                       /\ PositionOf(r) = PositionOf(role) + steps}

RoleAt(role, steps) ==
    IF Rungs(role, steps) = {} THEN NoRole
                               ELSE CHOOSE r \in Rungs(role, steps) : TRUE

NextUp(role)   == RoleAt(role, 1)
NextDown(role) == RoleAt(role, -1)

\* Only a Soldado stands right above the Recruta: the executive ladder begins
\* higher, with none below.
ASSUME SoldadoAssumption ==
    \A r \in RoleNames : NextDown(r) = "Recruta" => r = "Soldado"

\* The military ladder has no gap above the Recruta.
ASSUME MilitaryAssumption ==
    \A r \in RoleNames : KindOf(r) = "MILITARY" /\ r # "Recruta" => NextDown(r) # NoRole

(***************************************************************************)
(* permissionsRequired.findMany for one action and one role: the rows that *)
(* name the role and the rows that name its hierarchy.  Only their `name'  *)
(* is looked at afterwards.                                                *)
(***************************************************************************)
RequiredNames(action, role) ==
    {q.name : q \in {r \in Required : /\ r.action = action
                                      /\ \/ r.roleName = role
                                         \/ r.hierarchyKind = KindOf(role)}}

Names(obtained) == {p.name : p \in obtained}

MissingPermissions(needed, obtained) == ~ (needed \subseteq Names(obtained))

(***************************************************************************)
(* promoteUser: the check on the two rows, then the check on the           *)
(* permissions of both.  A holder of CApEx or CFO, and an Aspirante a      *)
(* Oficial, promote a Soldado whatever the PROMOTE rows ask for.           *)
(***************************************************************************)
\* Mistakes: the rank compared instead of the range; a strict comparison.
MayPromoteByRank(target, actor) ==
    target # "Recruta" /\ PositionOf(target) < PositionOf(actor)
MayPromoteBelow(target, actor) ==
    /\ target # "Recruta"
    /\ PositionOf(target) < Roles[actor].promotesUntilRolePosition

MayPromote(target, actor) ==
    /\ target # "Recruta"
    /\ PositionOf(target) <= Roles[actor].promotesUntilRolePosition

PromotesSoldadoAnyway(actor, actorPerms) ==
    \/ actor = "Aspirante a Oficial"
    \/ {"CApEx", "CFO"} \cap Names(actorPerms) # {}

PromotionPermitted(target, targetPerms, actor, actorPerms) ==
    /\ ~ MissingPermissions(RequiredNames("BE_PROMOTED", target), targetPerms)
    /\ \/ target = "Soldado" /\ PromotesSoldadoAnyway(actor, actorPerms)
       \/ ~ MissingPermissions(RequiredNames("PROMOTE", actor), actorPerms)
    /\ NextUp(target) # NoRole

(***************************************************************************)
(* demoteUser, fireUser and warnUser compare the positions in the same     *)
(* way (fireUntilRolePosition is never read) and each has its own list of  *)
(* roles it does not touch.                                                *)
(***************************************************************************)
Untouchable(op) ==
    IF op = "demote" THEN {"Soldado", "Estagiario"} ELSE {"Recruta"}

\* Mistake: the rank compared instead of the range.
MayPunishByRank(op, target, actor) ==
    target \notin Untouchable(op) /\ PositionOf(target) <= PositionOf(actor)

MayPunish(op, target, actor) ==
    /\ target \notin Untouchable(op)
    /\ PositionOf(target) <= Roles[actor].demoteUntilRolePosition

ActionOf(op) == CASE op = "demote" -> "DEMOTE"
                  [] op = "fire"   -> "FIRE"
                  [] op = "warn"   -> "WARN"

PunishmentPermitted(op, target, actor, actorPerms) ==
    /\ ~ MissingPermissions(RequiredNames(ActionOf(op), actor), actorPerms)
    /\ op = "demote" => NextDown(target) # NoRole
=============================================================================
