----------------------------- MODULE LadderProofs -----------------------------
(***************************************************************************)
(* What holds when clients leave a member alone while a request on that    *)
(* member is in flight: the row a handler has read is the row it           *)
(* overwrites, each request is one step of the ladder, and the counters    *)
(* and the history agree with the career.                                  *)
(***************************************************************************)
EXTENDS HistoryProofs

\* No two requests are about the same member.
Apart == \A p, q \in Procs :
            p # q /\ Busy(p) /\ Busy(q) => req[p].call.target # req[q].call.target

\* The row of the target, once read and until it is updated, is current.
Fresh(r) ==
    /\ r.stage # "idle" /\ r.call.target \in Users
    /\ r.stage = "rows" => "target" \notin r.awaiting
    /\ r.stage = "writes" => "update" \in Outstanding(r.batches)
    => r.row["target"] = user[r.call.target]

Undisturbed == Apart /\ \A p \in Procs : Fresh(req[p])

XInv == TInv /\ (setting.exclusive => Undisturbed)
-----------------------------------------------------------------------------
LEMMA InitXInv == Init => XInv
<1> SUFFICES ASSUME Init PROVE XInv
  OBVIOUS
<1>1. \A p \in Procs : req[p] = Idle /\ Idle.stage = "idle"
  BY DEF Init, Idle
<1> QED
  BY <1>1, InitTidy DEF XInv, Undisturbed, Apart, Busy, Fresh

(* A step of one request, on the same member or on one nobody is busy      *)
(* with, that leaves the other members' rows alone.                        *)
LEMMA OneUndisturbed ==
    ASSUME Undisturbed, NEW p \in Procs, \A q \in Procs \ {p} : req'[q] = req[q],
           Fresh(req[p])',
           \/ req'[p].stage = "idle"
           \/ \A q \in Procs \ {p} : Busy(q) => req[q].call.target # req'[p].call.target,
           \A q \in Procs \ {p} : Busy(q) /\ req[q].call.target \in Users =>
                 user'[req[q].call.target] = user[req[q].call.target]
    PROVE  Undisturbed'
<1>1. Apart'
  BY DEF Undisturbed, Apart, Busy
<1>2. ASSUME NEW q \in Procs PROVE Fresh(req[q])'
  <2>1. CASE q = p
    BY <2>1
  <2>2. CASE q # p
    <3>1. Fresh(req[q]) /\ req'[q] = req[q]
      BY <2>2 DEF Undisturbed
    <3> QED BY <2>2, <3>1 DEF Fresh, Busy
  <2> QED BY <2>1, <2>2
<1> QED
  BY <1>1, <1>2 DEF Undisturbed

LEMMA WriteUndisturbed ==
    ASSUME XInv, setting.exclusive, NEW p \in Procs, Write(p)
    PROVE  Undisturbed'
<1> DEFINE r == req[p]
           u == r.call.target
<1>0. TInv /\ IInv /\ Undisturbed /\ Fresh(r)
  BY DEF XInv, TInv, Undisturbed
<1>1. PICK w \in Writes : WriteOf(p, w)
  BY WriteCases
<1>2. /\ \A q \in Procs \ {p} : req'[q] = req[q]
      /\ r.stage = "writes" /\ u \in Users
      /\ w \in ToWrite(p) /\ ToWrite(p)' = ToWrite(p) \ {w}
      /\ \/ req'[p] = Idle
         \/ req'[p].stage = "writes" /\ req'[p].call = r.call /\ req'[p].row = r.row
  BY <1>0, <1>1, LandedTidy DEF WriteOf
<1>3. \A q \in Procs \ {p} : Busy(q) => req[q].call.target # u
  BY <1>0, <1>2 DEF Undisturbed, Apart, Busy
<1>4. \A v \in Users : v # u \/ w # "update" => user'[v] = user[v]
  <2>1. CASE w = "update"
    BY <1>0, <1>1, <2>1 DEF WriteOf, UpdateUser, IInv, TypeOK
  <2>2. CASE w # "update"
    BY <1>1, <2>2 DEF WriteOf
  <2> QED BY <2>1, <2>2
<1>5. CASE req'[p] = Idle
  <2>1. req'[p].stage = "idle"
    BY <1>5 DEF Idle
  <2> QED BY <1>0, <1>2, <1>3, <1>4, <2>1, OneUndisturbed DEF Fresh
<1>6. CASE req'[p].stage = "writes" /\ req'[p].call = r.call /\ req'[p].row = r.row
  <2>1. Fresh(req[p])'
    BY <1>0, <1>2, <1>4, <1>6 DEF Fresh, ToWrite
  <2> QED BY <1>0, <1>2, <1>3, <1>4, <1>6, <2>1, OneUndisturbed
<1> QED
  BY <1>2, <1>5, <1>6

LEMMA ReadUndisturbed ==
    ASSUME XInv, setting.exclusive, NEW p \in Procs,
           \/ \E c \in Calls : Submit(p, c)
           \/ \E who \in Who : ReadRow(p, who) \/ ReadPerms(p, who)
           \/ Admit(p) \/ Issue(p) \/ Refuse(p) \/ FailRead(p)
    PROVE  Undisturbed'
<1>0. /\ TInv /\ Undisturbed /\ Fresh(req[p])
      /\ req \in [Procs -> Request] /\ req[p] \in Request
  BY DEF XInv, TInv, IInv, TypeOK, Undisturbed
<1>1. UNCHANGED user
  BY DEF Submit, ReadRow, ReadPerms, Admit, Issue, Refuse, FailRead, db
<1>2. ASSUME NEW r, req' = [req EXCEPT ![p] = r],
             \/ r.stage = "idle"
             \/ \A q \in Procs \ {p} : Busy(q) => req[q].call.target # r.call.target,
             Fresh(r)
      PROVE  Undisturbed'
  <2>1. req'[p] = r /\ \A q \in Procs \ {p} : req'[q] = req[q]
    BY <1>0, <1>2
  <2>2. Fresh(req[p])'
    BY <1>1, <1>2, <2>1 DEF Fresh
  <2> QED BY <1>0, <1>1, <1>2, <2>1, <2>2, OneUndisturbed
<1>3. ASSUME Busy(p), NEW r, r.call = req[p].call
      PROVE  \A q \in Procs \ {p} : Busy(q) => req[q].call.target # r.call.target
  BY <1>0, <1>3 DEF Undisturbed, Apart
<1>4. ASSUME NEW c \in Calls, Submit(p, c) PROVE Undisturbed'
  <2> DEFINE r == [Idle EXCEPT !.stage = "rows", !.call = c, !.awaiting = Who]
  <2>1. /\ req' = [req EXCEPT ![p] = r]
        /\ \A q \in Procs : Busy(q) => req[q].call.target # c.target
    BY <1>4 DEF Submit
  <2>2. r.call = c /\ r.stage = "rows" /\ r.awaiting = Who
    BY DEF Idle
  <2> HIDE DEF r
  <2>3. Fresh(r)
    BY <2>2 DEF Fresh, Who
  <2> QED BY <1>2, <2>1, <2>2, <2>3
<1>5. ASSUME NEW who \in Who, ReadRow(p, who) PROVE Undisturbed'
  <2> DEFINE nick == req[p].call[who]
             row  == IF nick \in Users THEN user[nick] ELSE NoRow
             r    == WithRow(req[p], who, row)
  <2>1. req' = [req EXCEPT ![p] = r] /\ req[p].stage = "rows" /\ Busy(p)
    BY <1>5 DEF ReadRow, Busy
  <2>2. /\ r.stage = "rows" /\ r.call = req[p].call
        /\ r.awaiting = req[p].awaiting \ {who}
        /\ r.row = [req[p].row EXCEPT ![who] = row]
    <3> HIDE DEF row
    <3> QED BY <1>0, <2>1 DEF WithRow, Request
  <2>3. who = "target" /\ req[p].call.target \in Users => row = user[req[p].call.target]
    OBVIOUS
  <2> HIDE DEF r, row
  <2>4. r.row["target"] = IF who = "target" THEN row ELSE req[p].row["target"]
    BY <1>0, <2>2 DEF Request, Who
  <2>5. Fresh(r)
    BY <1>0, <2>1, <2>2, <2>3, <2>4 DEF Fresh
  <2> QED BY <1>2, <1>3, <2>1, <2>2, <2>5
<1>6. ASSUME NEW who \in Who, ReadPerms(p, who) PROVE Undisturbed'
  <2> DEFINE r == WithHeld(req[p], who, PermsOf(req[p].call[who]))
  <2>1. req' = [req EXCEPT ![p] = r] /\ req[p].stage = "perms" /\ Busy(p)
    BY <1>6 DEF ReadPerms, Busy
  <2>2. r.stage = "perms" /\ r.call = req[p].call /\ r.row = req[p].row
    BY <1>0, <2>1 DEF WithHeld, Request
  <2> HIDE DEF r
  <2>3. Fresh(r)
    BY <1>0, <2>1, <2>2 DEF Fresh
  <2> QED BY <1>2, <1>3, <2>1, <2>2, <2>3
<1>7. CASE Admit(p)
  <2> DEFINE r == [req[p] EXCEPT !.stage = "perms",
                                 !.awaiting = Consulted(req[p].call.op)]
  <2>1. /\ req' = [req EXCEPT ![p] = r] /\ req[p].stage = "rows"
        /\ req[p].awaiting = {} /\ Busy(p)
    BY <1>7 DEF Admit, Busy
  <2>2. r.stage = "perms" /\ r.call = req[p].call /\ r.row = req[p].row
    BY <1>0 DEF Request
  <2> HIDE DEF r
  <2>3. Fresh(r)
    BY <1>0, <2>1, <2>2 DEF Fresh
  <2> QED BY <1>2, <1>3, <2>1, <2>2, <2>3
<1>8. CASE Issue(p)
  <2> DEFINE plan == Plan(req[p].call.op, req[p].row["target"])
             r    == [req[p] EXCEPT !.stage = "writes", !.batches = plan,
                                    !.stamp = now]
  <2>1. req' = [req EXCEPT ![p] = r] /\ req[p].stage = "perms" /\ Busy(p)
    BY <1>8 DEF Issue, Busy
  <2>2. r.stage = "writes" /\ r.call = req[p].call /\ r.row = req[p].row
    <3> HIDE DEF plan
    <3> QED BY <1>0 DEF Request
  <2> HIDE DEF r
  <2>3. Fresh(r)
    BY <1>0, <2>1, <2>2 DEF Fresh
  <2> QED BY <1>2, <1>3, <2>1, <2>2, <2>3
<1>9. CASE Refuse(p) \/ FailRead(p)
  <2>1. req' = [req EXCEPT ![p] = Idle] /\ Idle.stage = "idle"
    BY <1>9 DEF Refuse, FailRead, Idle
  <2> QED BY <1>2, <2>1 DEF Fresh
<1> QED
  BY <1>4, <1>5, <1>6, <1>7, <1>8, <1>9

LEMMA NextXInv == XInv /\ [Next]_vars => XInv'
<1> SUFFICES ASSUME XInv, [Next]_vars PROVE XInv'
  OBVIOUS
<1>0. TInv /\ TInv' /\ setting' = setting
  BY NextTidy, SettingStays DEF XInv
<1> SUFFICES ASSUME setting.exclusive PROVE Undisturbed'
  BY <1>0 DEF XInv
<1>1. Undisturbed
  BY DEF XInv
<1>2. ASSUME NEW p \in Procs, Write(p) PROVE Undisturbed'
  BY <1>2, WriteUndisturbed
<1>3. ASSUME NEW p \in Procs,
             \/ \E c \in Calls : Submit(p, c)
             \/ \E who \in Who : ReadRow(p, who) \/ ReadPerms(p, who)
             \/ Admit(p) \/ Issue(p) \/ Refuse(p) \/ FailRead(p)
      PROVE  Undisturbed'
  BY <1>3, ReadUndisturbed
<1>4. ASSUME NEW p \in Procs, NEW w \in Writes, LoseWrite(p, w) PROVE Undisturbed'
  <2>1. /\ \A q \in Procs \ {p} : req'[q] = req[q]
        /\ req[p].stage = "writes" /\ ToWrite(p)' \subseteq ToWrite(p)
        /\ \/ req'[p] = Idle
           \/ /\ req'[p].stage = "writes" /\ req'[p].call = req[p].call
              /\ req'[p].row = req[p].row
    BY <1>0, <1>4, LostTidy
  <2>2. UNCHANGED user
    BY <1>4 DEF LoseWrite, db
  <2>3. Fresh(req[p]) /\ Idle.stage = "idle"
    BY <1>1 DEF Undisturbed, Idle
  <2>4. Fresh(req[p])'
    BY <2>1, <2>2, <2>3 DEF Fresh, ToWrite
  <2>5. \A q \in Procs \ {p} : Busy(q) => req[q].call.target # req[p].call.target
    BY <1>1, <2>1 DEF Undisturbed, Apart, Busy
  <2> QED BY <1>1, <2>1, <2>2, <2>3, <2>4, <2>5, OneUndisturbed
<1>5. CASE OtherStep
  BY <1>1, <1>5, OtherKeeps DEF Undisturbed, Apart, Busy, Fresh
<1> QED
  BY <1>2, <1>3, <1>4, <1>5 DEF Next, Step, Fail, OtherStep

LEMMA Undisturbance == Spec => []XInv
BY InitXInv, NextXInv, PTL DEF Spec
-----------------------------------------------------------------------------
(***************************************************************************)
(* The refinement: an update is one step of the career ladder, and nothing *)
(* else moves a career.                                                    *)
(***************************************************************************)
career == [u \in Users |-> CareerOf(user[u])]

LEMMA SameLadder ==
    /\ \A role : Ladder!NextUp(role) = NextUp(role)
    /\ \A role : Ladder!NextDown(role) = NextDown(role)
    /\ \A op : Ladder!Untouchable(op) = Untouchable(op)
    /\ Ladder!NoRole = NoRole
BY DEF Ladder!NextUp, NextUp, Ladder!NextDown, NextDown, Ladder!RoleAt, RoleAt,
       Ladder!Rungs, Rungs, Ladder!KindOf, KindOf, Ladder!PositionOf, PositionOf,
       Ladder!RoleNames, RoleNames, Ladder!Untouchable, Untouchable,
       Ladder!NoRole, NoRole

LEMMA LadderInit == Init => Ladder!Init
<1> SUFFICES ASSUME Init PROVE career \in [Users -> Ladder!Career]
  BY DEF Ladder!Init, career
<1>1. user \in [Users -> UserRow]
  BY InitInv DEF IInv, TypeOK
<1>2. ASSUME NEW u \in Users PROVE CareerOf(user[u]) \in Ladder!Career
  <2>1. user[u] \in UserRow
    BY <1>1
  <2> QED BY <2>1 DEF CareerOf, UserRow, AdvNums, Ladder!Career, Ladder!RoleNames, RoleNames
<1> QED
  BY <1>2 DEF career

(* What the writes that set one column of a career, or two, make of it.    *)
LEMMA CareersWritten ==
    ASSUME NEW t \in UserRow, NEW role, NEW stamp
    PROVE  /\ CareerOf(Ranked(t, role, stamp)) = [CareerOf(t) EXCEPT !.roleName = role]
           /\ CareerOf(Warned(t, t)) = [CareerOf(t) EXCEPT !.advNum = t.advNum + 1]
<1>1. CareerOf(Ranked(t, role, stamp)) = [CareerOf(t) EXCEPT !.roleName = role]
  BY DEF CareerOf, Ranked, UserRow
<1>2. CareerOf(Warned(t, t)) = [CareerOf(t) EXCEPT !.advNum = t.advNum + 1]
  BY DEF CareerOf, Warned, UserRow
<1> QED BY <1>1, <1>2

(* user.update is a step of the ladder, or leaves the career as it was.    *)
LEMMA UpdateClimbs ==
    ASSUME XInv, setting.exclusive, NEW p \in Procs, UpdateUser(p)
    PROVE  Ladder!Next \/ UNCHANGED career
<1> DEFINE r   == req[p]
           op  == r.call.op
           u   == r.call.target
           t   == r.row["target"]
           new == Updated(op, t, user[u], r.stamp)
<1>1. /\ user \in [Users -> UserRow] /\ Landed(p, "update")
      /\ user' = [user EXCEPT ![u] = new]
  BY DEF XInv, TInv, UpdateUser, IInv, TypeOK
<1>2. /\ r \in Request /\ RequestSound(r) /\ r.stage = "writes" /\ u \in Users
      /\ "update" \in Outstanding(r.batches)
  BY <1>1, LandedRequest DEF XInv, TInv
<1>3. /\ op \in Ops /\ user[u] \in UserRow /\ UpdateSound(r) /\ Decided(r)
      /\ t = user[u] /\ t \in UserRow
  BY <1>1, <1>2 DEF Request, Call, RequestSound, XInv, Undisturbed, Fresh, TInv, Tidy, Who
<1>4. career'= [career EXCEPT ![u] = CareerOf(new)] /\ career[u] = CareerOf(t)
  <2> HIDE DEF new
  <2> QED BY <1>1, <1>2, <1>3 DEF career
<1>5. /\ career[u].roleName = t.roleName /\ career[u].advNum = t.advNum
      /\ career[u].isAccountActive = t.isAccountActive
      /\ career[u] = [roleName |-> t.roleName, advNum |-> t.advNum,
                      isAccountActive |-> t.isAccountActive]
      /\ career'[u] = CareerOf(new)
      /\ u \in DOMAIN career
  BY <1>2, <1>4 DEF CareerOf, career
<1> HIDE DEF new
<1>6. ASSUME op = "promote" PROVE Ladder!Promote(u)
  <2>1. new = Ranked(t, NextUp(t.roleName), r.stamp)
    BY <1>3, <1>6 DEF new, Updated, NewRole
  <2>2. CareerOf(new) = [career[u] EXCEPT !.roleName = NextUp(@)]
    <3>1. CareerOf(new) = [CareerOf(t) EXCEPT !.roleName = NextUp(t.roleName)]
      BY <1>3, <2>1, CareersWritten
    <3>2. CareerOf(t) = career[u] /\ career[u].roleName = t.roleName
      BY <1>4, <1>5
    <3> HIDE DEF career
    <3> QED BY <3>1, <3>2
  <2>3. /\ t.roleName # "Recruta" /\ t.isAccountActive
        /\ NextUp(t.roleName) # NoRole
    BY <1>2, <1>3, <1>6, RolesAssumption DEF Decided, UpdateSound, NewRole
  <2> QED BY <1>4, <1>5, <2>2, <2>3, SameLadder DEF Ladder!Promote, career
<1>7. ASSUME op = "demote" PROVE Ladder!Demote(u)
  <2>1. new = Ranked(t, NextDown(t.roleName), r.stamp)
    BY <1>3, <1>7 DEF new, Updated, NewRole
  <2>2. CareerOf(new) = [career[u] EXCEPT !.roleName = NextDown(@)]
    <3>1. CareerOf(new) = [CareerOf(t) EXCEPT !.roleName = NextDown(t.roleName)]
      BY <1>3, <2>1, CareersWritten
    <3>2. CareerOf(t) = career[u] /\ career[u].roleName = t.roleName
      BY <1>4, <1>5
    <3> HIDE DEF career
    <3> QED BY <3>1, <3>2
  <2>3. /\ t.roleName \notin Untouchable("demote")
        /\ NextDown(t.roleName) # NoRole
    BY <1>2, <1>3, <1>7, RolesAssumption DEF Decided, UpdateSound, NewRole
  <2> QED BY <1>4, <1>5, <2>2, <2>3, SameLadder DEF Ladder!Demote, career
<1>8. ASSUME op = "fire" PROVE Ladder!Expel(u)
  <2>1. new = Expelled(t)
    BY <1>3, <1>8 DEF new, Updated
  <2>2. CareerOf(new) = [roleName |-> "Recruta", advNum |-> t.advNum,
                         isAccountActive |-> FALSE]
    BY <1>3, <1>5, <2>1 DEF Expelled, CareerOf, UserRow
  <2>3. t.roleName # "Recruta"
    BY <1>2, <1>3, <1>8 DEF Decided, Untouchable
  <2> QED BY <1>4, <1>5, <2>2, <2>3, ZenonT(60) DEF Ladder!Expel, career
<1>9. ASSUME op = "warn" /\ t.advNum # 2 PROVE Ladder!Warn(u)
  <2>1. new = Warned(t, t)
    BY <1>3, <1>9 DEF new, Updated
  <2>2. CareerOf(new) = [career[u] EXCEPT !.advNum = @ + 1]
    <3>1. CareerOf(new) = [CareerOf(t) EXCEPT !.advNum = t.advNum + 1]
      BY <1>3, <2>1, CareersWritten
    <3>2. CareerOf(t) = career[u] /\ career[u].advNum = t.advNum
      BY <1>4, <1>5
    <3> HIDE DEF career
    <3> QED BY <3>1, <3>2
  <2>3. t.roleName # "Recruta" /\ t.advNum < 2
    BY <1>2, <1>3, <1>9 DEF Decided, Untouchable, UserRow, AdvNums
  <2> QED BY <1>4, <1>5, <2>2, <2>3 DEF Ladder!Warn, career
<1>10. ASSUME op = "warn" /\ t.advNum = 2 PROVE Ladder!PunishThirdWarning(u)
  <2>1. new = Punished(t, t)
    BY <1>3, <1>10 DEF new, Updated
  <2>2. CareerOf(new) = [roleName        |-> NextDown(t.roleName),
                         advNum          |-> 0,
                         isAccountActive |-> t.roleName # "Soldado"]
    BY <1>3, <2>1 DEF Punished, CareerOf, UserRow
  <2>3. t.roleName # "Recruta" /\ NextDown(t.roleName) # NoRole
    BY <1>2, <1>3, <1>10, RolesAssumption DEF Decided, Untouchable, UpdateSound, NewRole
  <2> QED BY <1>4, <1>5, <1>10, <2>2, <2>3, SameLadder DEF Ladder!PunishThirdWarning, career
<1>11. CASE career'[u] # career[u]
  <2>1. \/ Ladder!Promote(u) \/ Ladder!Demote(u) \/ Ladder!Expel(u)
        \/ Ladder!Warn(u) \/ Ladder!PunishThirdWarning(u)
    BY <1>3, <1>6, <1>7, <1>8, <1>9, <1>10 DEF Ops
  <2> QED BY <1>2, <1>11, <2>1 DEF Ladder!Next, career
<1>12. CASE career'[u] = career[u]
  BY <1>4, <1>12 DEF career
<1> QED
  BY <1>11, <1>12

LEMMA StepClimbs ==
    ASSUME XInv, setting.exclusive, [Next]_vars
    PROVE  Ladder!Next \/ UNCHANGED career
<1>1. ASSUME UNCHANGED user PROVE UNCHANGED career
  BY <1>1 DEF career
<1>2. ASSUME NEW p \in Procs, Write(p), ~ UpdateUser(p) PROVE UNCHANGED user
  BY <1>2, WriteCases DEF WriteOf
<1>3. ASSUME NEW p \in Procs,
             \/ \E c \in Calls : Submit(p, c)
             \/ \E who \in Who : ReadRow(p, who) \/ ReadPerms(p, who)
             \/ Admit(p) \/ Issue(p) \/ Refuse(p) \/ Fail(p)
      PROVE  UNCHANGED user
  BY <1>3 DEF Submit, ReadRow, ReadPerms, Admit, Issue, Refuse, Fail, FailRead,
              LoseWrite, db
<1>4. CASE OtherStep
  BY <1>1, <1>4, OtherKeeps
<1>5. ASSUME NEW p \in Procs, UpdateUser(p) PROVE Ladder!Next \/ UNCHANGED career
  BY <1>5, UpdateClimbs
<1> QED
  BY <1>1, <1>2, <1>3, <1>4, <1>5 DEF Next, Step, OtherStep

(***************************************************************************)
(* With a member left alone while a request on the member is in flight,    *)
(* the handlers implement the career ladder: whatever their reads and      *)
(* writes do, and whichever of them fail, a career changes by whole steps, *)
(* each from the career as it is at that moment.                           *)
(***************************************************************************)
THEOREM ClimbsTheLadder == Spec /\ setting.exclusive => ImplementsLadder
<1>1. Init => Ladder!Init
  BY LadderInit
<1>2. XInv /\ setting.exclusive /\ [Next]_vars
         => setting.exclusive' /\ [Ladder!Next]_career
  BY StepClimbs, SettingStays
<1>3. Spec /\ setting.exclusive => Ladder!Init /\ [][Ladder!Next]_career
  BY <1>1, <1>2, Undisturbance, PTL DEF Spec
<1> QED
  BY <1>3, PTL DEF ImplementsLadder, Ladder!Spec, career
-----------------------------------------------------------------------------
(***************************************************************************)
(* What a request still has to write is part of its plan; until warnUser   *)
(* has logged the warning it is the whole plan.                            *)
(***************************************************************************)
Planned(r) ==
    LET plan == Plan(r.call.op, r.row["target"]) IN
    r.stage = "writes" =>
        /\ Outstanding(r.batches) \subseteq Outstanding(plan)
        /\ r.call.op = "warn" /\ "warning" \in Outstanding(r.batches) =>
              r.batches = plan
        /\ "update" \in Outstanding(plan) => UpdateSound(r)

YInv == XInv /\ \A p \in Procs : Planned(req[p])

LEMMA WarnPlanHead ==
    ASSUME NEW t
    PROVE  Plan("warn", t) # <<>> /\ Head(Plan("warn", t)) = {"warning"}
<1>1. Plan("warn", t) = WarningPlan(t)
  BY DEF Plan
<1> QED
  BY <1>1 DEF WarningPlan

LEMMA InitYInv == Init => YInv
<1> SUFFICES ASSUME Init PROVE YInv
  OBVIOUS
<1>1. \A p \in Procs : req[p] = Idle /\ Idle.stage = "idle"
  BY DEF Init, Idle
<1> QED
  BY <1>1, InitXInv DEF YInv, Planned

LEMMA NextYInv == YInv /\ [Next]_vars => YInv'
<1> SUFFICES ASSUME YInv, [Next]_vars PROVE YInv'
  OBVIOUS
<1>0. XInv' /\ TInv /\ TInv' /\ \A p \in Procs : Planned(req[p])
  BY NextXInv DEF YInv, XInv
<1>1. ASSUME NEW p \in Procs, \A q \in Procs \ {p} : req'[q] = req[q], Planned(req'[p])
      PROVE  YInv'
  BY <1>0, <1>1 DEF YInv
<1>2. ASSUME NEW r, r.stage # "writes" PROVE Planned(r)
  BY <1>2 DEF Planned
<1>3. ASSUME NEW p \in Procs, NEW w \in Head(req[p].batches),
             req[p].stage = "writes",
             \/ req'[p] = Idle
             \/ /\ req'[p].stage = "writes" /\ req'[p].call = req[p].call
                /\ req'[p].row = req[p].row
                /\ ToWrite(p)' \subseteq ToWrite(p) \ {w}
      PROVE  Planned(req'[p])
  <2>1. CASE req'[p] = Idle
    BY <1>2, <2>1 DEF Idle
  <2>2. CASE /\ req'[p].stage = "writes" /\ req'[p].call = req[p].call
             /\ req'[p].row = req[p].row
             /\ ToWrite(p)' \subseteq ToWrite(p) \ {w}
    <3> DEFINE plan == Plan(req[p].call.op, req[p].row["target"])
    <3>1. /\ ToWrite(p) \subseteq Outstanding(plan)
          /\ req[p].call.op = "warn" /\ "warning" \in ToWrite(p) =>
                req[p].batches = plan
          /\ "update" \in Outstanding(plan) => UpdateSound(req[p])
      BY <1>0, <1>3 DEF Planned, ToWrite
    <3>2. ~ (req[p].call.op = "warn" /\ "warning" \in ToWrite(p)')
      BY <1>3, <2>2, <3>1, WarnPlanHead
    <3>3. UpdateSound(req[p]) => UpdateSound(req'[p])
      BY <2>2 DEF UpdateSound
    <3> HIDE DEF plan
    <3>4. plan = Plan(req'[p].call.op, req'[p].row["target"])
      BY <2>2 DEF plan
    <3>5. ToWrite(p)' = Outstanding(req'[p].batches)
      BY DEF ToWrite
    <3> QED BY <2>2, <3>1, <3>2, <3>3, <3>4, <3>5 DEF Planned
  <2> QED BY <1>3, <2>1, <2>2
<1>4. ASSUME NEW p \in Procs, Write(p) PROVE YInv'
  <2>1. PICK w \in Writes : Landed(p, w)
    BY <1>4, WriteCases DEF WriteOf
  <2>2. w \in Head(req[p].batches)
    BY <2>1 DEF Landed, OnTheWay
  <2> QED BY <1>0, <1>1, <1>3, <2>1, <2>2, LandedTidy
<1>5. ASSUME NEW p \in Procs, NEW w \in Writes, LoseWrite(p, w) PROVE YInv'
  <2>1. w \in Head(req[p].batches)
    BY <1>5 DEF LoseWrite, OnTheWay
  <2> QED BY <1>0, <1>1, <1>3, <1>5, <2>1, LostTidy
<1>6. ASSUME NEW p \in Procs,
             \/ \E c \in Calls : Submit(p, c)
             \/ \E who \in Who : ReadRow(p, who) \/ ReadPerms(p, who)
             \/ Admit(p) \/ Refuse(p) \/ FailRead(p)
      PROVE  YInv'
  <2>1. req'[p].stage # "writes" /\ \A q \in Procs \ {p} : req'[q] = req[q]
    BY <1>0, <1>6, ReadTidy
  <2> QED BY <1>1, <1>2, <2>1
<1>7. ASSUME NEW p \in Procs, Issue(p) PROVE YInv'
  <2> DEFINE r    == req[p]
             plan == Plan(r.call.op, r.row["target"])
  <2>1. /\ \A q \in Procs \ {p} : req'[q] = req[q]
        /\ req'[p].batches = plan
        /\ req'[p].call = r.call /\ req'[p].row = r.row
        /\ r.stage = "perms" /\ PermsPermit(p)
    BY <1>0, <1>7, IssueTidy
  <2>2. r \in Request /\ RequestSound(r)
    BY <1>0 DEF TInv, IInv, TypeOK
  <2>3. "update" \in Outstanding(plan) => UpdateSound(r)
    BY <2>1, <2>2, PlanSound DEF PermsPermit
  <2>4. UpdateSound(r) => UpdateSound(req'[p])
    BY <2>1 DEF UpdateSound
  <2>5. Planned(req'[p])
    BY <2>1, <2>3, <2>4 DEF Planned
  <2> QED BY <1>1, <2>1, <2>5
<1>8. CASE OtherStep
  BY <1>0, <1>8, OtherKeeps DEF YInv
<1> QED
  BY <1>4, <1>5, <1>6, <1>7, <1>8 DEF Next, Step, Fail, OtherStep
-----------------------------------------------------------------------------
(***************************************************************************)
(* Counting rows of the history as writes land.                            *)
(***************************************************************************)
War(u) == Warnings(log, u)
Act(u) == Cardinality(ActiveWarnings(u))
Pun(u) == Cardinality(PunishedBySystem(u))

LEMMA RowsCounted ==
    ASSUME NEW rows \in Seq(LogRow), NEW S \in SUBSET (DOMAIN rows)
    PROVE  /\ Cardinality(S) \in Nat
           /\ Cardinality(S \cup {Len(rows) + 1}) = Cardinality(S) + 1
<1>1. DOMAIN rows = 1..Len(rows) /\ Len(rows) \in Nat
  BY LenProperties
<1>2. IsFiniteSet(DOMAIN rows)
  BY <1>1, FS_Interval
<1>3. IsFiniteSet(S) /\ Cardinality(S) \in Nat
  BY <1>2, FS_Subset, FS_CardinalityType
<1>4. Len(rows) + 1 \notin S
  BY <1>1
<1> QED
  BY <1>3, <1>4, FS_AddElement

\* The number of a row, when it is of the kind counted.
Added(rows, counted) == IF counted THEN {Len(rows) + 1} ELSE {}

LEMMA RowAppended ==
    ASSUME log \in Seq(LogRow), NEW row, log' = Append(log, row), NEW v
    PROVE  LET new(counted) == Added(log, row.target = v /\ counted)
           IN  /\ WarningRows(log', v) = WarningRows(log, v) \cup new(row.type = "WARNING")
               /\ ActiveWarnings(v)' = ActiveWarnings(v)
                                       \cup new(row.type = "WARNING" /\ row.isActive)
               /\ PunishedBySystem(v)' = PunishedBySystem(v) \cup new(row.bySystem)
               /\ RoleRows(v)' = RoleRows(v) \cup new(row.newRole # NoRole)
<1>1. /\ DOMAIN log' = DOMAIN log \cup {Len(log) + 1}
      /\ log'[Len(log) + 1] = row
      /\ \A i \in DOMAIN log : log'[i] = log[i]
  <2>1. /\ DOMAIN log' = 1..(Len(log) + 1) /\ DOMAIN log = 1..Len(log)
        /\ Len(log) \in Nat
        /\ log'[Len(log) + 1] = row
        /\ \A i \in 1..Len(log) : log'[i] = log[i]
    BY AppendProperties, LenProperties
  <2> QED BY <2>1
<1>2. WarningRows(log', v) = WarningRows(log, v)
                             \cup Added(log, row.target = v /\ row.type = "WARNING")
  BY <1>1 DEF WarningRows, Added
<1>3. ActiveWarnings(v)' = ActiveWarnings(v)
          \cup Added(log, row.target = v /\ row.type = "WARNING" /\ row.isActive)
  <2>1. ActiveWarnings(v)' = {i \in WarningRows(log', v) : log'[i].isActive}
    BY DEF ActiveWarnings
  <2>2. \A i \in WarningRows(log, v) : log'[i] = log[i]
    BY <1>1 DEF WarningRows
  <2> QED BY <1>1, <1>2, <2>1, <2>2 DEF ActiveWarnings, Added
<1>4. PunishedBySystem(v)' = PunishedBySystem(v)
                             \cup Added(log, row.target = v /\ row.bySystem)
  BY <1>1 DEF PunishedBySystem, Added
<1>5. RoleRows(v)' = RoleRows(v)
                     \cup Added(log, row.target = v /\ row.newRole # NoRole)
  BY <1>1 DEF RoleRows, Added
<1> QED
  BY <1>2, <1>3, <1>4, <1>5

(* What a row that is added does to the counts.                            *)
LEMMA RowCounts ==
    ASSUME log \in Seq(LogRow), NEW row \in LogRow, log' = Append(log, row), NEW v
    PROVE  /\ War(v)' = IF row.target = v /\ row.type = "WARNING"
                        THEN War(v) + 1 ELSE War(v)
           /\ Act(v)' = IF row.target = v /\ row.type = "WARNING" /\ row.isActive
                        THEN Act(v) + 1 ELSE Act(v)
           /\ Pun(v)' = IF row.target = v /\ row.bySystem
                        THEN Pun(v) + 1 ELSE Pun(v)
<1>0. /\ WarningRows(log, v) \in SUBSET (DOMAIN log)
      /\ ActiveWarnings(v) \in SUBSET (DOMAIN log)
      /\ PunishedBySystem(v) \in SUBSET (DOMAIN log)
  BY DEF WarningRows, ActiveWarnings, PunishedBySystem
<1>1. ASSUME NEW S \in SUBSET (DOMAIN log), NEW counted
      PROVE  Cardinality(S \cup Added(log, counted))
                = IF counted THEN Cardinality(S) + 1 ELSE Cardinality(S)
  <2>1. Added(log, counted) = IF counted THEN {Len(log) + 1} ELSE {}
    BY DEF Added
  <2>2. Cardinality(S \cup {Len(log) + 1}) = Cardinality(S) + 1 /\ S \cup {} = S
    BY RowsCounted
  <2> QED BY <2>1, <2>2
<1>2. War(v)' = Cardinality(WarningRows(log', v))
  BY DEF War, Warnings
<1>3. /\ WarningRows(log', v) = WarningRows(log, v)
                                 \cup Added(log, row.target = v /\ row.type = "WARNING")
      /\ ActiveWarnings(v)' = ActiveWarnings(v)
            \cup Added(log, row.target = v /\ row.type = "WARNING" /\ row.isActive)
      /\ PunishedBySystem(v)' = PunishedBySystem(v)
                                \cup Added(log, row.target = v /\ row.bySystem)
  BY RowAppended
<1>4. War(v) = Cardinality(WarningRows(log, v))
  BY DEF War, Warnings
<1> DEFINE warns   == row.target = v /\ row.type = "WARNING"
           active  == row.target = v /\ row.type = "WARNING" /\ row.isActive
           imposed == row.target = v /\ row.bySystem
<1>5. War(v)' = IF warns THEN War(v) + 1 ELSE War(v)
  <2>1. WarningRows(log', v) = WarningRows(log, v) \cup Added(log, warns)
    BY <1>3
  <2> HIDE DEF warns
  <2>2. Cardinality(WarningRows(log', v))
           = IF warns THEN Cardinality(WarningRows(log, v)) + 1
                      ELSE Cardinality(WarningRows(log, v))
    BY <1>0, <1>1, <2>1
  <2> QED BY <1>2, <1>4, <2>2
<1>6. Act(v)' = IF active THEN Act(v) + 1 ELSE Act(v)
  <2>1. ActiveWarnings(v)' = ActiveWarnings(v) \cup Added(log, active)
    BY <1>3
  <2> HIDE DEF active
  <2> QED BY <1>0, <1>1, <2>1 DEF Act
<1>7. Pun(v)' = IF imposed THEN Pun(v) + 1 ELSE Pun(v)
  <2>1. PunishedBySystem(v)' = PunishedBySystem(v) \cup Added(log, imposed)
    BY <1>3
  <2> HIDE DEF imposed
  <2> QED BY <1>0, <1>1, <2>1 DEF Pun
<1> QED
  BY <1>5, <1>6, <1>7

(* What a write that lands does to the counts.                             *)
LEMMA CountsWritten ==
    ASSUME IInv, NEW p \in Procs, NEW w \in Writes, WriteOf(p, w), NEW v
    PROVE  LET on(wr) == w = wr /\ req[p].call.target = v
           IN  /\ War(v) \in Nat /\ Act(v) \in Nat /\ Pun(v) \in Nat
               /\ War(v)' = IF on("warning") THEN War(v) + 1 ELSE War(v)
               /\ Act(v)' = IF on("retireWarnings") THEN 0
                            ELSE IF on("warning") THEN Act(v) + 1 ELSE Act(v)
               /\ Pun(v)' = IF on("register") /\ req[p].call.op = "warn"
                            THEN Pun(v) + 1 ELSE Pun(v)
<1> DEFINE u == req[p].call.target
<1>0. log \in Seq(LogRow)
  BY DEF IInv, TypeOK
<1>1. /\ WarningRows(log, v) \in SUBSET (DOMAIN log)
      /\ ActiveWarnings(v) \in SUBSET (DOMAIN log)
      /\ PunishedBySystem(v) \in SUBSET (DOMAIN log)
  BY DEF WarningRows, ActiveWarnings, PunishedBySystem
<1>2. War(v) \in Nat /\ Act(v) \in Nat /\ Pun(v) \in Nat
  BY <1>0, <1>1, RowsCounted DEF War, Warnings, Act, Pun
<1>3. CASE w \notin {"register", "warning", "retireWarnings"}
  <2>1. log' = log
    BY <1>3 DEF WriteOf
  <2>2. War(v)' = War(v) /\ Act(v)' = Act(v) /\ Pun(v)' = Pun(v)
    BY <2>1 DEF War, Warnings, Act, ActiveWarnings, Pun, PunishedBySystem
  <2> QED BY <1>2, <1>3, <2>2
<1>4. ASSUME NEW row \in LogRow, log' = Append(log, row)
      PROVE  /\ War(v)' = IF row.target = v /\ row.type = "WARNING"
                          THEN War(v) + 1 ELSE War(v)
             /\ Act(v)' = IF row.target = v /\ row.type = "WARNING" /\ row.isActive
                          THEN Act(v) + 1 ELSE Act(v)
             /\ Pun(v)' = IF row.target = v /\ row.bySystem
                          THEN Pun(v) + 1 ELSE Pun(v)
  BY <1>0, <1>4, RowCounts
<1>5. CASE w = "register"
  <2> DEFINE row == ChangeRow(req[p].call.op, req[p].row["target"], u)
  <2>1. Register(p)
    BY <1>5 DEF WriteOf
  <2>2. /\ row \in LogRow /\ log' = Append(log, row) /\ row.target = u
        /\ row.bySystem = (req[p].call.op = "warn") /\ row.type # "WARNING"
    BY <2>1, RowRegistered
  <2> HIDE DEF row
  <2> QED BY <1>2, <1>4, <1>5, <2>2
<1>6. CASE w = "warning"
  <2> DEFINE row == WarningRow(u)
  <2>1. LogWarning(p) /\ Landed(p, w)
    BY <1>6 DEF WriteOf
  <2>2. /\ row \in LogRow /\ log' = Append(log, row) /\ row.target = u
        /\ ~ row.bySystem /\ row.type = "WARNING" /\ row.isActive
    BY <2>1, LandedRequest DEF LogWarning, WarningRow, LogRow
  <2> HIDE DEF row
  <2> QED BY <1>2, <1>4, <1>6, <2>2
<1>7. CASE w = "retireWarnings"
  <2> DEFINE row(i) == IF log[i].type = "WARNING" /\ log[i].target = u
                       THEN [log[i] EXCEPT !.isActive = FALSE] ELSE log[i]
  <2>1. RetireWarnings(p)
    BY <1>7 DEF WriteOf
  <2>2. log' = [i \in DOMAIN log |-> row(i)]
    BY <2>1 DEF RetireWarnings
  <2>3. ASSUME NEW i \in DOMAIN log
        PROVE  /\ row(i).target = log[i].target /\ row(i).type = log[i].type
               /\ row(i).bySystem = log[i].bySystem
               /\ row(i).isActive = IF log[i].type = "WARNING" /\ log[i].target = u
                                    THEN FALSE ELSE log[i].isActive
    <3>1. log[i] \in LogRow
      BY <1>0
    <3> QED BY <3>1 DEF LogRow
  <2> HIDE DEF row
  <2>4. WarningRows(log', v) = WarningRows(log, v)
    BY <2>2, <2>3 DEF WarningRows
  <2>5. PunishedBySystem(v)' = PunishedBySystem(v)
    BY <2>2, <2>3 DEF PunishedBySystem
  <2>6. ActiveWarnings(v)' = IF u = v THEN {} ELSE ActiveWarnings(v)
    <3>1. ActiveWarnings(v)' = {i \in WarningRows(log', v) : log'[i].isActive}
      BY DEF ActiveWarnings
    <3>2. \A i \in WarningRows(log, v) :
             /\ i \in DOMAIN log /\ log[i].target = v /\ log[i].type = "WARNING"
             /\ log'[i].isActive = IF v = u THEN FALSE ELSE log[i].isActive
      BY <2>2, <2>3 DEF WarningRows
    <3> QED BY <2>4, <3>1, <3>2 DEF ActiveWarnings
  <2>7. Cardinality({}) = 0
    BY FS_EmptySet
  <2> QED BY <1>2, <1>7, <2>4, <2>5, <2>6, <2>7 DEF War, Warnings, Act, Pun
<1> QED
  BY <1>3, <1>5, <1>6, <1>7
-----------------------------------------------------------------------------
(***************************************************************************)
(* One step, when members are left alone and no query fails: it is a write *)
(* of one request, or it moves neither table and at most has one request   *)
(* start on its plan.                                                      *)
(***************************************************************************)
Calm == setting.exclusive /\ ~ setting.faults

Writing(p, w) ==
    LET r    == req[p]
        sent == Outstanding(Plan(r.call.op, r.row["target"]))
    IN  /\ WriteOf(p, w)
        /\ \A q \in Procs \ {p} : /\ UNCHANGED req[q]
                                  /\ ToWrite(q) # {} => req[q].call.target # r.call.target
        /\ w \in ToWrite(p) /\ ToWrite(p)' = ToWrite(p) \ {w}
        /\ ToWrite(p)' # {} => req'[p].call = r.call /\ req'[p].row = r.row
        /\ ToWrite(p) \subseteq sent
        /\ r.call.op = "warn" /\ "warning" \in ToWrite(p) =>
              w = "warning" /\ ToWrite(p) = sent
        /\ r.call.op \in Ops /\ r.call.target \in Users
        /\ "update" \in ToWrite(p) => r.row["target"] = user[r.call.target]
        /\ r.row["target"] \in UserRow
        /\ Decided(r)
        /\ OnTrack(r.call.target, r.row["target"].roleName)
        /\ "update" \in sent => UpdateSound(r)

Quiet(p) ==
    /\ UNCHANGED <<user, log>>
    /\ \A q \in Procs \ {p} : UNCHANGED req[q]
    /\ ToWrite(p) = {}
    /\ ToWrite(p)' \in {{}, Outstanding(Plan(req[p].call.op, req[p].row["target"]))'}
    /\ ToWrite(p)' # {} => req'[p].call.op \in Ops

LEMMA CalmStep ==
    ASSUME YInv, Calm, [Next]_vars
    PROVE  \/ \E p \in Procs : \E w \in Writes : Writing(p, w)
           \/ \E p \in Procs : Quiet(p)
           \/ UNCHANGED <<user, log, req>>
<1>0. TInv /\ IInv /\ Undisturbed /\ \A p \in Procs : Planned(req[p])
  BY DEF YInv, XInv, TInv, Calm
<1>1. ASSUME NEW p \in Procs, Write(p)
      PROVE  \E w \in Writes : Writing(p, w)
  <2> DEFINE r    == req[p]
             plan == Plan(r.call.op, r.row["target"])
  <2>1. PICK w \in Writes : WriteOf(p, w)
    BY <1>1, WriteCases
  <2>2. /\ \A q \in Procs \ {p} : req'[q] = req[q]
        /\ r.stage = "writes" /\ r.call.target \in Users
        /\ w \in ToWrite(p) /\ ToWrite(p)' = ToWrite(p) \ {w}
        /\ \/ req'[p] = Idle
           \/ req'[p].call = r.call /\ req'[p].row = r.row
    BY <1>0, <2>1, LandedTidy DEF WriteOf
  <2>3. req'[p] = Idle => ToWrite(p)' = {}
    BY IdleTidy DEF ToWrite
  <2>4. w \in Head(r.batches)
    BY <2>1 DEF WriteOf, Landed, OnTheWay
  <2>5. /\ ToWrite(p) \subseteq Outstanding(plan)
        /\ r.call.op = "warn" /\ "warning" \in ToWrite(p) => r.batches = plan
        /\ "update" \in Outstanding(plan) => UpdateSound(r)
    BY <1>0, <2>2 DEF Planned, ToWrite
  <2>6. r.call.op = "warn" /\ "warning" \in ToWrite(p) =>
            w = "warning" /\ ToWrite(p) = Outstanding(plan)
    BY <2>4, <2>5, WarnPlanHead DEF ToWrite
  <2>7. ASSUME NEW q \in Procs \ {p}, ToWrite(q) # {}
        PROVE  req[q].call.target # r.call.target
    <3>1. req[q].stage = "writes"
      BY <1>0, <2>7 DEF TInv, Tidy, ToWrite, Outstanding
    <3> QED BY <1>0, <2>2, <3>1 DEF Undisturbed, Apart, Busy
  <2>8. /\ r \in Request /\ Decided(r) /\ RequestSound(r)
        /\ Fresh(r)
    BY <1>0 DEF TInv, IInv, TypeOK, Tidy, Undisturbed
  <2>9. /\ r.call.op \in Ops /\ r.row["target"] \in UserRow
        /\ OnTrack(r.call.target, r.row["target"].roleName)
    BY <2>2, <2>8 DEF Request, Call, Who, RequestSound
  <2>10. "update" \in ToWrite(p) => r.row["target"] = user[r.call.target]
    BY <2>2, <2>8 DEF Fresh, ToWrite
  <2> QED BY <2>1, <2>2, <2>3, <2>5, <2>6, <2>7, <2>8, <2>9, <2>10 DEF Writing
<1>2. ASSUME NEW p \in Procs,
             \/ \E c \in Calls : Submit(p, c)
             \/ \E who \in Who : ReadRow(p, who) \/ ReadPerms(p, who)
             \/ Admit(p) \/ Refuse(p) \/ FailRead(p)
      PROVE  Quiet(p)
  BY <1>0, <1>2, ReadTidy DEF Quiet
<1>3. ASSUME NEW p \in Procs, Issue(p) PROVE Quiet(p)
  <2> DEFINE r == req[p]
  <2>1. /\ \A q \in Procs \ {p} : req'[q] = req[q]
        /\ ToWrite(p) = {} /\ req'[p].batches = Plan(r.call.op, r.row["target"])
        /\ req'[p].call = r.call /\ req'[p].row = r.row /\ r.call.op \in Ops
        /\ UNCHANGED <<user, log>>
    BY <1>0, <1>3, IssueTidy
  <2>2. Plan(r.call.op, r.row["target"]) = Plan(r.call.op, r.row["target"])'
    BY <2>1
  <2>3. ToWrite(p)' = Outstanding(Plan(r.call.op, r.row["target"]))'
    BY <2>1, <2>2 DEF ToWrite
  <2> QED BY <2>1, <2>3 DEF Quiet
<1>4. ASSUME NEW p \in Procs, NEW w, LoseWrite(p, w) PROVE FALSE
  BY <1>4 DEF LoseWrite, Calm
<1>5. CASE OtherStep
  BY <1>5, OtherKeeps
<1> QED
  BY <1>1, <1>2, <1>3, <1>4, <1>5 DEF Next, Step, Fail, OtherStep

(* What user.update does to the warnings counted.                          *)
LEMMA UpdatedCount ==
    ASSUME IInv, NEW p \in Procs, NEW w \in Writes, Writing(p, w), NEW v \in Users
    PROVE  user'[v].advNum =
              IF w = "update" /\ v = req[p].call.target /\ req[p].call.op = "warn"
              THEN IF req[p].row["target"].advNum = 2 THEN 0
                   ELSE req[p].row["target"].advNum + 1
              ELSE user[v].advNum
<1> DEFINE r   == req[p]
           u   == r.call.target
           new == Updated(r.call.op, r.row["target"], user[u], r.stamp)
<1>1. CASE w # "update"
  BY <1>1 DEF Writing, WriteOf
<1>2. CASE w = "update"
  <2>1. UpdateUser(p) /\ u \in Users /\ r.call.op \in Ops
    BY <1>2 DEF Writing, WriteOf
  <2>2. /\ user \in [Users -> UserRow] /\ user' = [user EXCEPT ![u] = new]
        /\ user[u] \in UserRow
    BY <2>1 DEF UpdateUser, IInv, TypeOK
  <2>3. new.advNum = IF r.call.op = "warn"
                     THEN IF r.row["target"].advNum = 2 THEN 0
                          ELSE r.row["target"].advNum + 1
                     ELSE user[u].advNum
    <3>1. CASE r.call.op \in {"promote", "demote"}
      BY <2>2, <3>1 DEF Updated, Ranked, UserRow
    <3>2. CASE r.call.op = "fire"
      BY <2>2, <3>2 DEF Updated, Expelled, UserRow
    <3>3. CASE r.call.op = "warn" /\ r.row["target"].advNum = 2
      BY <2>2, <3>3 DEF Updated, Punished, UserRow
    <3>4. CASE r.call.op = "warn" /\ r.row["target"].advNum # 2
      BY <2>2, <3>4 DEF Updated, Warned, UserRow
    <3> QED BY <2>1, <3>1, <3>2, <3>3, <3>4 DEF Ops
  <2> HIDE DEF new
  <2> QED BY <1>2, <2>2, <2>3
<1> QED
  BY <1>1, <1>2
-----------------------------------------------------------------------------
(***************************************************************************)
(* The warnings behind the punishments: warnUser in the middle of its      *)
(* writes owes the counter, the history or both what it has not written.   *)
(***************************************************************************)
\* warnUser has logged the warning of u and has more to write.
Punishing(p, u) == /\ req[p].call.target = u /\ req[p].call.op = "warn"
                   /\ ToWrite(p) # {} /\ "warning" \notin ToWrite(p)

EarnedDue(p, u) ==
    IF req[p].row["target"].advNum # 2
    THEN 3 * Pun(u) + user[u].advNum + 1 <= War(u)
    ELSE /\ "update" \notin ToWrite(p) => user[u].advNum = 0
         /\ 3 * Pun(u) + (IF "register" \in ToWrite(p) THEN 3 ELSE 0) <= War(u)

EarnedBy(u) == 3 * Pun(u) + user[u].advNum <= War(u)

Earned(u) == /\ \A p \in Procs : Punishing(p, u) => EarnedDue(p, u)
             /\ (\A p \in Procs : ~ Punishing(p, u)) => EarnedBy(u)

LEMMA RestsUnpunishing ==
    ASSUME TInv, AtRest, NEW p \in Procs
    PROVE  ToWrite(p) = {}
BY DEF TInv, Tidy, AtRest, Busy, ToWrite, Outstanding

(* A request is of its member's concern only.                              *)
LEMMA OthersPunish ==
    ASSUME NEW p \in Procs, NEW w \in Writes, Writing(p, w), NEW q \in Procs, NEW v,
           q # p \/ v # req[p].call.target
    PROVE  /\ Punishing(q, v)' <=> Punishing(q, v)
           /\ Punishing(q, v) => q # p /\ v # req[p].call.target
<1>1. CASE q = p
  <2>1. ~ Punishing(q, v)
    BY <1>1 DEF Punishing
  <2>2. ~ Punishing(q, v)'
    <3>1. ToWrite(p)' # {} => req'[p].call = req[p].call
      BY DEF Writing
    <3> QED BY <1>1, <3>1 DEF Punishing
  <2> QED BY <1>1, <2>1, <2>2
<1>2. CASE q # p
  <2>1. /\ req'[q] = req[q] /\ ToWrite(q)' = ToWrite(q)
        /\ ToWrite(q) # {} => req[q].call.target # req[p].call.target
    BY <1>2 DEF Writing, ToWrite
  <2> QED BY <1>2, <2>1 DEF Punishing
<1> QED
  BY <1>1, <1>2

LEMMA WriteEarned ==
    ASSUME IInv, NEW p \in Procs, NEW w \in Writes, Writing(p, w),
           NEW v \in Users, Earned(v)
    PROVE  Earned(v)'
<1> DEFINE r    == req[p]
           u    == r.call.target
           t    == r.row["target"]
           sent == Outstanding(Plan(r.call.op, t))
<1>0. /\ War(v) \in Nat /\ Pun(v) \in Nat /\ user[v].advNum \in 0..2
      /\ War(v)' = IF w = "warning" /\ u = v THEN War(v) + 1 ELSE War(v)
      /\ Pun(v)' = IF w = "register" /\ u = v /\ r.call.op = "warn"
                   THEN Pun(v) + 1 ELSE Pun(v)
      /\ user'[v].advNum = IF w = "update" /\ v = u /\ r.call.op = "warn"
                           THEN IF t.advNum = 2 THEN 0 ELSE t.advNum + 1
                           ELSE user[v].advNum
  <2>1. WriteOf(p, w)
    BY DEF Writing
  <2>2. user[v] \in UserRow
    BY DEF IInv, TypeOK
  <2> QED BY <2>1, <2>2, CountsWritten, UpdatedCount DEF UserRow, AdvNums
<1>1. CASE v # u
  <2>1. War(v)' = War(v) /\ Pun(v)' = Pun(v) /\ user'[v].advNum = user[v].advNum
    BY <1>0, <1>1
  <2>2. ASSUME NEW q \in Procs
        PROVE  /\ Punishing(q, v)' <=> Punishing(q, v)
               /\ Punishing(q, v) => (EarnedDue(q, v)' <=> EarnedDue(q, v))
    <3>1. /\ Punishing(q, v)' <=> Punishing(q, v)
          /\ Punishing(q, v) => q # p
      BY <1>1, OthersPunish
    <3>2. q # p => req'[q] = req[q] /\ ToWrite(q)' = ToWrite(q)
      BY DEF Writing, ToWrite
    <3> QED BY <2>1, <3>1, <3>2 DEF EarnedDue
  <2>3. EarnedBy(v)' <=> EarnedBy(v)
    BY <2>1 DEF EarnedBy
  <2> QED BY <2>2, <2>3 DEF Earned
<1>2. CASE v = u
  <2>1. ASSUME NEW q \in Procs \ {p} PROVE ~ Punishing(q, v) /\ ~ Punishing(q, v)'
    BY <1>2, <2>1, OthersPunish
  <2>2. /\ Punishing(p, u) => EarnedDue(p, u)
        /\ ~ Punishing(p, u) => EarnedBy(u)
    BY <1>2, <2>1 DEF Earned
  <2>3. SUFFICES /\ Punishing(p, v)' => EarnedDue(p, v)'
                 /\ ~ Punishing(p, v)' => EarnedBy(v)'
    BY <1>2, <2>1, <2>3 DEF Earned
  <2>4. /\ w \in ToWrite(p) /\ ToWrite(p)' = ToWrite(p) \ {w}
        /\ ToWrite(p)' # {} => req'[p].call = r.call /\ req'[p].row = r.row
        /\ ToWrite(p) \subseteq sent
        /\ r.call.op = "warn" /\ "warning" \in ToWrite(p) =>
              w = "warning" /\ ToWrite(p) = sent
        /\ "update" \in ToWrite(p) => t = user[v]
        /\ r.call.op \in Ops /\ t.advNum \in 0..2
    BY <1>2 DEF Writing, UserRow, AdvNums
  <2>5. CASE r.call.op # "warn"
    <3>1. ~ Punishing(p, v) /\ ~ Punishing(p, v)'
      BY <2>4, <2>5 DEF Punishing
    <3>2. w # "warning"
      BY <2>4, <2>5, PlanWrites DEF Change, Ops
    <3> QED BY <1>0, <1>2, <2>2, <2>5, <3>1, <3>2 DEF EarnedBy
  <2>6. CASE r.call.op = "warn" /\ t.advNum # 2
    <3>1. sent = {"warning", "update"}
      BY <2>4, <2>6, PlanWrites
    <3>2. CASE "warning" \in ToWrite(p)
      <4>1. /\ w = "warning" /\ t = user[v] /\ ToWrite(p)' = {"update"}
            /\ req'[p].call = r.call /\ req'[p].row = r.row
        BY <2>4, <2>6, <3>1, <3>2
      <4>2. ~ Punishing(p, u) /\ EarnedBy(v)
        BY <1>2, <2>2, <3>2 DEF Punishing
      <4>3. 3 * Pun(v)' + user'[v].advNum + 1 <= War(v)'
        BY <1>0, <1>2, <4>1, <4>2 DEF EarnedBy
      <4>4. Punishing(p, v)'
        BY <1>2, <2>6, <4>1 DEF Punishing
      <4> QED BY <2>6, <4>1, <4>3, <4>4 DEF EarnedDue
    <3>3. CASE "warning" \notin ToWrite(p)
      <4>1. w = "update" /\ t = user[v] /\ ToWrite(p)' = {}
        BY <2>4, <2>6, <3>1, <3>3
      <4>2. EarnedDue(p, u)
        BY <2>2, <2>4, <2>6, <3>3 DEF Punishing
      <4>3. EarnedBy(v)'
        BY <1>0, <1>2, <2>6, <4>1, <4>2 DEF EarnedBy, EarnedDue
      <4> QED BY <4>1, <4>3 DEF Punishing
    <3> QED BY <3>2, <3>3
  <2>7. CASE r.call.op = "warn" /\ t.advNum = 2
    <3>1. CASE "warning" \in ToWrite(p)
      <4>1. w = "warning" /\ ToWrite(p) = sent
        BY <2>4, <2>7, <3>1
      <4>2. ~ Punishing(p, u) /\ EarnedBy(v)
        BY <1>2, <2>2, <3>1 DEF Punishing
      <4>3. CASE NextDown(t.roleName) = NoRole
        <5>1. ToWrite(p)' = {}
          BY <2>4, <2>7, <4>1, <4>3, PlanWrites
        <5> QED BY <1>0, <1>2, <4>1, <4>2, <5>1 DEF EarnedBy, Punishing
      <4>4. CASE NextDown(t.roleName) # NoRole
        <5>1. "update" \in sent
          BY <2>4, <2>7, <4>4, PlanWrites DEF Dismissal
        <5>2. /\ t = user[v] /\ "update" \in ToWrite(p)'
              /\ req'[p].call = r.call /\ req'[p].row = r.row
              /\ "warning" \notin ToWrite(p)'
          BY <2>4, <4>1, <5>1
        <5>3. 3 * Pun(v)' + 3 <= War(v)'
          BY <1>0, <1>2, <2>7, <4>1, <4>2, <5>2 DEF EarnedBy
        <5>4. Punishing(p, v)'
          BY <1>2, <2>7, <5>2 DEF Punishing
        <5>5. Pun(v)' \in Nat /\ War(v)' \in Nat
          BY <1>0
        <5> QED BY <2>7, <5>2, <5>3, <5>4, <5>5 DEF EarnedDue
      <4> QED BY <4>3, <4>4
    <3>2. CASE "warning" \notin ToWrite(p)
      <4>1. EarnedDue(p, v)
        BY <1>2, <2>2, <2>4, <2>7, <3>2 DEF Punishing
      <4>2. "update" \notin ToWrite(p)' => user'[v].advNum = 0
        BY <1>0, <1>2, <2>4, <2>7, <4>1 DEF EarnedDue
      <4>3. 3 * Pun(v)' + (IF "register" \in ToWrite(p)' THEN 3 ELSE 0) <= War(v)'
        BY <1>0, <1>2, <2>4, <2>7, <3>2, <4>1 DEF EarnedDue
      <4>4. Pun(v)' \in Nat /\ War(v)' \in Nat
        BY <1>0
      <4>5. Punishing(p, v)' => EarnedDue(p, v)'
        BY <2>4, <2>7, <4>2, <4>3 DEF EarnedDue, Punishing
      <4>6. ToWrite(p)' = {} => EarnedBy(v)'
        BY <4>2, <4>3, <4>4 DEF EarnedBy
      <4>7. ToWrite(p)' # {} => Punishing(p, v)'
        BY <1>2, <2>4, <2>7, <3>2 DEF Punishing
      <4> QED BY <4>5, <4>6, <4>7
    <3> QED BY <3>1, <3>2
  <2> QED BY <2>4, <2>5, <2>6, <2>7
<1> QED
  BY <1>1, <1>2

(* What a quiet step leaves of the requests that punish.                   *)
LEMMA QuietPunishes ==
    ASSUME NEW p \in Procs, Quiet(p), NEW q \in Procs, NEW v
    PROVE  /\ Punishing(q, v)' <=> Punishing(q, v)
           /\ Punishing(q, v) => UNCHANGED <<req[q], ToWrite(q)>>
<1>1. CASE q = p
  <2>1. ~ Punishing(q, v)
    BY <1>1 DEF Quiet, Punishing
  <2>2. ~ Punishing(q, v)'
    <3>1. ASSUME req'[p].call.op = "warn", ToWrite(p)' # {} PROVE "warning" \in ToWrite(p)'
      <4> DEFINE t == req'[p].row["target"]
      <4>1. ToWrite(p)' = Outstanding(Plan("warn", t))
        BY <3>1 DEF Quiet
      <4>2. "warning" \in Outstanding(Plan("warn", t))
        BY PlanWrites DEF Ops
      <4> QED BY <4>1, <4>2
    <3> QED BY <1>1, <3>1 DEF Punishing
  <2> QED BY <1>1, <2>1, <2>2
<1>2. CASE q # p
  <2>1. req'[q] = req[q] /\ ToWrite(q)' = ToWrite(q)
    BY <1>2 DEF Quiet, ToWrite
  <2> QED BY <2>1 DEF Punishing
<1> QED
  BY <1>1, <1>2

EInv == YInv /\ (Calm => \A u \in Users : Earned(u))

LEMMA NextEInv == EInv /\ [Next]_vars => EInv'
<1> SUFFICES ASSUME EInv, [Next]_vars PROVE EInv'
  OBVIOUS
<1>0. YInv /\ YInv' /\ IInv /\ setting' = setting
  BY NextYInv, SettingStays DEF EInv, YInv, XInv, TInv
<1> SUFFICES ASSUME Calm, NEW v \in Users PROVE Earned(v)'
  BY <1>0 DEF EInv, Calm
<1>1. Earned(v)
  BY DEF EInv
<1>2. ASSUME NEW p \in Procs, NEW w \in Writes, Writing(p, w) PROVE Earned(v)'
  BY <1>0, <1>1, <1>2, WriteEarned
<1>3. ASSUME UNCHANGED <<user, log>>,
             \A q \in Procs : /\ Punishing(q, v)' <=> Punishing(q, v)
                              /\ Punishing(q, v) => UNCHANGED <<req[q], ToWrite(q)>>
      PROVE  Earned(v)'
  <2>1. War(v)' = War(v) /\ Pun(v)' = Pun(v)
    BY <1>3 DEF War, Warnings, Pun, PunishedBySystem
  <2>2. EarnedBy(v)' <=> EarnedBy(v)
    BY <1>3, <2>1 DEF EarnedBy
  <2>3. \A q \in Procs : Punishing(q, v) => (EarnedDue(q, v)' <=> EarnedDue(q, v))
    BY <1>3, <2>1 DEF EarnedDue
  <2> QED BY <1>1, <1>3, <2>2, <2>3 DEF Earned
<1>4. ASSUME NEW p \in Procs, Quiet(p) PROVE Earned(v)'
  BY <1>3, <1>4, QuietPunishes DEF Quiet
<1>5. CASE UNCHANGED <<user, log, req>>
  BY <1>3, <1>5 DEF Punishing, ToWrite
<1> QED
  BY <1>0, <1>2, <1>4, <1>5, CalmStep

(***************************************************************************)
(* If each punishment in the history has three warnings of its own, apart  *)
(* from those that count against the member, then as long as members are   *)
(* left alone and no query fails this stays so, at rest, for ever.         *)
(***************************************************************************)
THEOREM PunishmentsStayEarned ==
    Spec /\ setting.exclusive /\ PunishmentsAreEarned => []ThreeWarningsPerPunishment
<1>1. Init /\ PunishmentsAreEarned => EInv
  <2> SUFFICES ASSUME Init, PunishmentsAreEarned, NEW u \in Users PROVE Earned(u)
    BY InitYInv DEF EInv
  <2>1. \A p \in Procs : ToWrite(p) = {}
    BY IdleTidy DEF Init, ToWrite
  <2> QED BY <2>1 DEF Earned, Punishing, EarnedBy, PunishmentsAreEarned, Pun, War, Warnings
<1>2. EInv /\ setting.exclusive => ThreeWarningsPerPunishment
  <2> SUFFICES ASSUME EInv, setting.exclusive, AtRest, ~ setting.faults, NEW u \in Users
               PROVE  EarnedBy(u)
    BY DEF ThreeWarningsPerPunishment, PunishmentsAreEarned, EarnedBy, Pun, War, Warnings
  <2>1. \A p \in Procs : ToWrite(p) = {}
    BY RestsUnpunishing DEF EInv, YInv, XInv
  <2> QED BY <2>1 DEF EInv, Calm, Earned, Punishing
<1>3. setting.exclusive /\ [Next]_vars => setting.exclusive'
  BY SettingStays
<1> QED
  BY <1>1, <1>2, <1>3, NextEInv, PTL DEF Spec
-----------------------------------------------------------------------------
(***************************************************************************)
(* The counter of a military member and the active rows of the history.    *)
(***************************************************************************)
LedgerDue(p, u) ==
    IF req[p].row["target"].advNum # 2
    THEN user[u].advNum + 1 = Act(u)
    ELSE /\ "update" \notin ToWrite(p) => user[u].advNum = 0
         /\ "retireWarnings" \notin ToWrite(p) => Act(u) = 0

Kept(u) == /\ \A p \in Procs : Punishing(p, u) => LedgerDue(p, u)
           /\ (\A p \in Procs : ~ Punishing(p, u)) => user[u].advNum = Act(u)

LEMMA WriteKept ==
    ASSUME IInv, NEW p \in Procs, NEW w \in Writes, Writing(p, w),
           NEW v \in Users, Track[v] = "MILITARY", Kept(v)
    PROVE  Kept(v)'
<1> DEFINE r    == req[p]
           u    == r.call.target
           t    == r.row["target"]
           sent == Outstanding(Plan(r.call.op, t))
<1>0. /\ Act(v) \in Nat /\ user[v].advNum \in 0..2
      /\ Act(v)' = IF w = "retireWarnings" /\ u = v THEN 0
                   ELSE IF w = "warning" /\ u = v THEN Act(v) + 1 ELSE Act(v)
      /\ user'[v].advNum = IF w = "update" /\ v = u /\ r.call.op = "warn"
                           THEN IF t.advNum = 2 THEN 0 ELSE t.advNum + 1
                           ELSE user[v].advNum
  <2>1. WriteOf(p, w)
    BY DEF Writing
  <2>2. user[v] \in UserRow
    BY DEF IInv, TypeOK
  <2> QED BY <2>1, <2>2, CountsWritten, UpdatedCount DEF UserRow, AdvNums
<1>1. CASE v # u
  <2>1. Act(v)' = Act(v) /\ user'[v].advNum = user[v].advNum
    BY <1>0, <1>1
  <2>2. ASSUME NEW q \in Procs
        PROVE  /\ Punishing(q, v)' <=> Punishing(q, v)
               /\ Punishing(q, v) => (LedgerDue(q, v)' <=> LedgerDue(q, v))
    <3>1. /\ Punishing(q, v)' <=> Punishing(q, v)
          /\ Punishing(q, v) => q # p
      BY <1>1, OthersPunish
    <3>2. q # p => req'[q] = req[q] /\ ToWrite(q)' = ToWrite(q)
      BY DEF Writing, ToWrite
    <3> QED BY <2>1, <3>1, <3>2 DEF LedgerDue
  <2> QED BY <2>1, <2>2 DEF Kept
<1>2. CASE v = u
  <2>1. ASSUME NEW q \in Procs \ {p} PROVE ~ Punishing(q, v) /\ ~ Punishing(q, v)'
    BY <1>2, <2>1, OthersPunish
  <2>2. /\ Punishing(p, u) => LedgerDue(p, u)
        /\ ~ Punishing(p, u) => user[v].advNum = Act(v)
    BY <1>2, <2>1 DEF Kept
  <2>3. SUFFICES /\ Punishing(p, v)' => LedgerDue(p, v)'
                 /\ ~ Punishing(p, v)' => user'[v].advNum = Act(v)'
    BY <1>2, <2>1, <2>3 DEF Kept
  <2>4. /\ w \in ToWrite(p) /\ ToWrite(p)' = ToWrite(p) \ {w}
        /\ ToWrite(p)' # {} => req'[p].call = r.call /\ req'[p].row = r.row
        /\ ToWrite(p) \subseteq sent
        /\ r.call.op = "warn" /\ "warning" \in ToWrite(p) =>
              w = "warning" /\ ToWrite(p) = sent
        /\ "update" \in ToWrite(p) => t = user[v]
        /\ r.call.op \in Ops /\ t.advNum \in 0..2 /\ t.roleName \in RoleNames
        /\ OnTrack(v, t.roleName) /\ Decided(r)
    BY <1>2 DEF Writing, UserRow, AdvNums
  <2>5. CASE r.call.op # "warn"
    <3>1. ~ Punishing(p, v) /\ ~ Punishing(p, v)'
      BY <2>4, <2>5 DEF Punishing
    <3>2. w # "warning" /\ w # "retireWarnings"
      BY <2>4, <2>5, PlanWrites DEF Change, Ops
    <3> QED BY <1>0, <1>2, <2>2, <2>5, <3>1, <3>2
  <2>6. CASE r.call.op = "warn" /\ t.advNum # 2
    <3>1. sent = {"warning", "update"}
      BY <2>4, <2>6, PlanWrites
    <3>2. CASE "warning" \in ToWrite(p)
      <4>1. /\ w = "warning" /\ t = user[v] /\ ToWrite(p)' = {"update"}
            /\ req'[p].call = r.call /\ req'[p].row = r.row
        BY <2>4, <2>6, <3>1, <3>2
      <4>2. user[v].advNum = Act(v)
        BY <1>2, <2>2, <3>2 DEF Punishing
      <4>3. user'[v].advNum + 1 = Act(v)'
        BY <1>0, <1>2, <4>1, <4>2
      <4>4. Punishing(p, v)'
        BY <1>2, <2>6, <4>1 DEF Punishing
      <4> QED BY <2>6, <4>1, <4>3, <4>4 DEF LedgerDue
    <3>3. CASE "warning" \notin ToWrite(p)
      <4>1. w = "update" /\ t = user[v] /\ ToWrite(p)' = {}
        BY <2>4, <2>6, <3>1, <3>3
      <4>2. LedgerDue(p, u)
        BY <2>2, <2>4, <2>6, <3>3 DEF Punishing
      <4>3. user'[v].advNum = Act(v)'
        BY <1>0, <1>2, <2>6, <4>1, <4>2 DEF LedgerDue
      <4> QED BY <4>1, <4>3 DEF Punishing
    <3> QED BY <3>2, <3>3
  <2>7. CASE r.call.op = "warn" /\ t.advNum = 2
    <3>1. t.roleName # "Recruta" /\ KindOf(t.roleName) = "MILITARY"
      <4>1. r.stage = "writes"
        BY DEF Writing, WriteOf, Landed, OnTheWay
      <4> QED BY <2>4, <2>7, <4>1 DEF Decided, Untouchable, OnTrack
    <3>2. sent = {"warning"} \cup Dismissal
                 \cup (IF t.roleName = "Soldado" THEN {"deletePermissions"} ELSE {})
      BY <2>4, <2>7, <3>1, MilitaryAssumption, PlanWrites
    <3>3. /\ "update" \notin ToWrite(p)' => user'[v].advNum = 0
          /\ "retireWarnings" \notin ToWrite(p)' => Act(v)' = 0
      <4>1. CASE "warning" \in ToWrite(p)
        BY <2>4, <2>7, <3>2, <4>1 DEF Dismissal
      <4>2. CASE "warning" \notin ToWrite(p)
        <5>1. LedgerDue(p, v)
          BY <1>2, <2>2, <2>4, <2>7, <4>2 DEF Punishing
        <5> QED BY <1>0, <1>2, <2>4, <2>7, <4>2, <5>1 DEF LedgerDue
      <4> QED BY <4>1, <4>2
    <3>4. "warning" \notin ToWrite(p)'
      BY <2>4, <2>7
    <3>5. Punishing(p, v)' => LedgerDue(p, v)'
      BY <2>4, <2>7, <3>3 DEF LedgerDue, Punishing
    <3>6. ToWrite(p)' = {} => user'[v].advNum = Act(v)'
      BY <3>3
    <3>7. ToWrite(p)' # {} => Punishing(p, v)'
      BY <1>2, <2>4, <2>7, <3>4 DEF Punishing
    <3> QED BY <3>5, <3>6, <3>7
  <2> QED BY <2>4, <2>5, <2>6, <2>7
<1> QED
  BY <1>1, <1>2

LInv == YInv /\ (Calm => \A u \in Users : Track[u] = "MILITARY" => Kept(u))

LEMMA NextLInv == LInv /\ [Next]_vars => LInv'
<1> SUFFICES ASSUME LInv, [Next]_vars PROVE LInv'
  OBVIOUS
<1>0. YInv /\ YInv' /\ IInv /\ setting' = setting
  BY NextYInv, SettingStays DEF LInv, YInv, XInv, TInv
<1> SUFFICES ASSUME Calm, NEW v \in Users, Track[v] = "MILITARY" PROVE Kept(v)'
  BY <1>0 DEF LInv, Calm
<1>1. Kept(v)
  BY DEF LInv
<1>2. ASSUME NEW p \in Procs, NEW w \in Writes, Writing(p, w) PROVE Kept(v)'
  BY <1>0, <1>1, <1>2, WriteKept
<1>3. ASSUME UNCHANGED <<user, log>>,
             \A q \in Procs : /\ Punishing(q, v)' <=> Punishing(q, v)
                              /\ Punishing(q, v) => UNCHANGED <<req[q], ToWrite(q)>>
      PROVE  Kept(v)'
  <2>1. Act(v)' = Act(v)
    BY <1>3 DEF Act, ActiveWarnings, WarningRows
  <2>2. \A q \in Procs : Punishing(q, v) => (LedgerDue(q, v)' <=> LedgerDue(q, v))
    BY <1>3, <2>1 DEF LedgerDue
  <2> QED BY <1>1, <1>3, <2>1, <2>2 DEF Kept
<1>4. ASSUME NEW p \in Procs, Quiet(p) PROVE Kept(v)'
  BY <1>3, <1>4, QuietPunishes DEF Quiet
<1>5. CASE UNCHANGED <<user, log, req>>
  BY <1>3, <1>5 DEF Punishing, ToWrite
<1> QED
  BY <1>0, <1>2, <1>4, <1>5, CalmStep

\* The counters of the military members are the active rows of the history.
Ledger == \A u \in Users : Track[u] = "MILITARY" =>
                              user[u].advNum = Cardinality(ActiveWarnings(u))

(***************************************************************************)
(* A ledger that agrees stays so: as long as members are left alone and no *)
(* query fails, whenever the server is at rest the advNum of a military    *)
(* member is the number of active WARNING rows.                            *)
(***************************************************************************)
THEOREM LedgerIsKept ==
    Spec /\ Ledger => []WarningLedger
<1>1. Init /\ Ledger => LInv
  <2> SUFFICES ASSUME Init, Ledger, NEW u \in Users, Track[u] = "MILITARY" PROVE Kept(u)
    BY InitYInv DEF LInv
  <2>1. \A p \in Procs : ToWrite(p) = {}
    BY IdleTidy DEF Init, ToWrite
  <2> QED BY <2>1 DEF Kept, Punishing, Ledger, Act
<1>2. LInv => WarningLedger
  <2> SUFFICES ASSUME LInv, setting.exclusive, AtRest, ~ setting.faults,
                      NEW u \in Users, Track[u] = "MILITARY"
               PROVE  user[u].advNum = Act(u)
    BY DEF WarningLedger, Act
  <2>1. \A p \in Procs : ToWrite(p) = {}
    BY RestsUnpunishing DEF LInv, YInv, XInv
  <2> QED BY <2>1 DEF LInv, Calm, Kept, Punishing
<1> QED
  BY <1>1, <1>2, NextLInv, PTL DEF Spec
-----------------------------------------------------------------------------
(***************************************************************************)
(* The last role in the history and the role held: a handler between the   *)
(* update and the row about it has done one of the two.                    *)
(***************************************************************************)
Naming(rows, u) == {i \in DOMAIN rows : rows[i].target = u /\ rows[i].newRole # NoRole}

LastIn(rows, u, role) ==
    \A i \in Naming(rows, u) :
        (\A j \in Naming(rows, u) : j <= i) => rows[i].newRole = role

LEMMA LastAppended ==
    ASSUME NEW rows \in Seq(LogRow), NEW row \in LogRow, NEW u, NEW role,
           IF row.target = u /\ row.newRole # NoRole THEN role = row.newRole
           ELSE LastIn(rows, u, role)
    PROVE  LastIn(Append(rows, row), u, role)
<1> DEFINE more == Append(rows, row)
           n    == Len(rows)
<1>1. /\ DOMAIN rows = 1..n /\ n \in Nat /\ DOMAIN more = 1..(n + 1)
      /\ more[n + 1] = row /\ \A i \in 1..n : more[i] = rows[i]
  BY AppendProperties, LenProperties
<1> HIDE DEF more, n
<1>2. CASE row.target = u /\ row.newRole # NoRole
  <2>1. n + 1 \in Naming(more, u)
    BY <1>1, <1>2 DEF Naming
  <2>2. ASSUME NEW i \in Naming(more, u), \A j \in Naming(more, u) : j <= i
        PROVE  i = n + 1
    <3>1. n + 1 <= i /\ i \in 1..(n + 1)
      BY <1>1, <2>1, <2>2 DEF Naming
    <3> QED BY <1>1, <3>1
  <2> QED BY <1>1, <1>2, <2>2 DEF LastIn, more
<1>3. CASE ~ (row.target = u /\ row.newRole # NoRole)
  <2>1. /\ Naming(more, u) = Naming(rows, u)
        /\ \A i \in Naming(rows, u) : more[i] = rows[i]
    BY <1>1, <1>3 DEF Naming
  <2> QED BY <1>3, <2>1 DEF LastIn, more
<1> QED
  BY <1>2, <1>3

LEMMA LastWritten ==
    ASSUME IInv, NEW p \in Procs, NEW w \in Writes, WriteOf(p, w), NEW v, NEW role,
           IF w = "register" /\ v = req[p].call.target
           THEN role = WrittenRole(req[p]) /\ role # NoRole
           ELSE LastIn(log, v, role)
    PROVE  LastIn(log', v, role)
<1> DEFINE u == req[p].call.target
<1>0. log \in Seq(LogRow)
  BY DEF IInv, TypeOK
<1>1. CASE w \notin {"register", "warning", "retireWarnings"}
  BY <1>1 DEF WriteOf
<1>2. CASE w = "register"
  <2> DEFINE row == ChangeRow(req[p].call.op, req[p].row["target"], u)
  <2>1. Register(p)
    BY <1>2 DEF WriteOf
  <2>2. /\ row \in LogRow /\ log' = Append(log, row) /\ row.target = u
        /\ row.newRole = WrittenRole(req[p])
    BY <2>1, RowRegistered
  <2> HIDE DEF row
  <2> QED BY <1>0, <1>2, <2>2, LastAppended
<1>3. CASE w = "warning"
  <2> DEFINE row == WarningRow(u)
  <2>1. LogWarning(p) /\ Landed(p, w)
    BY <1>3 DEF WriteOf
  <2>2. row \in LogRow /\ log' = Append(log, row) /\ row.newRole = NoRole
    BY <2>1, LandedRequest DEF LogWarning, WarningRow, LogRow
  <2> HIDE DEF row
  <2> QED BY <1>0, <1>3, <2>2, LastAppended
<1>4. CASE w = "retireWarnings"
  <2> DEFINE row(i) == IF log[i].type = "WARNING" /\ log[i].target = u
                       THEN [log[i] EXCEPT !.isActive = FALSE] ELSE log[i]
  <2>1. RetireWarnings(p)
    BY <1>4 DEF WriteOf
  <2>2. log' = [i \in DOMAIN log |-> row(i)]
    BY <2>1 DEF RetireWarnings
  <2>3. ASSUME NEW i \in DOMAIN log
        PROVE  row(i).target = log[i].target /\ row(i).newRole = log[i].newRole
    <3>1. log[i] \in LogRow
      BY <1>0
    <3> QED BY <3>1 DEF LogRow
  <2> HIDE DEF row
  <2>4. /\ Naming(log', v) = Naming(log, v)
        /\ \A i \in Naming(log, v) : log'[i].newRole = log[i].newRole
    BY <2>2, <2>3 DEF Naming
  <2> QED BY <1>4, <2>4 DEF LastIn
<1> QED
  BY <1>1, <1>2, <1>3, <1>4

\* One of the two writes of a change of role of u has landed.
Halfway(p, u) ==
    /\ req[p].call.target = u /\ ChangesRole(req[p])
    /\ ~ ("update" \in ToWrite(p) <=> "register" \in ToWrite(p))

NamingDue(p, u) ==
    /\ "update" \in ToWrite(p) => LastIn(log, u, WrittenRole(req[p]))
    /\ "register" \in ToWrite(p) => user[u].roleName = WrittenRole(req[p])

Current(u) ==
    /\ \A p \in Procs : Halfway(p, u) => NamingDue(p, u)
    /\ (\A p \in Procs : ~ Halfway(p, u)) => LastIn(log, u, user[u].roleName)

LEMMA OthersHalfway ==
    ASSUME NEW p \in Procs, NEW w \in Writes, Writing(p, w), NEW q \in Procs, NEW v,
           q # p \/ v # req[p].call.target
    PROVE  /\ Halfway(q, v)' <=> Halfway(q, v)
           /\ Halfway(q, v) => q # p /\ v # req[p].call.target
<1>1. CASE q = p
  <2>1. ~ Halfway(q, v)
    BY <1>1 DEF Halfway
  <2>2. ~ Halfway(q, v)'
    <3>1. ToWrite(p)' # {} => req'[p].call = req[p].call
      BY DEF Writing
    <3> QED BY <1>1, <3>1 DEF Halfway
  <2> QED BY <1>1, <2>1, <2>2
<1>2. CASE q # p
  <2>1. /\ req'[q] = req[q] /\ ToWrite(q)' = ToWrite(q)
        /\ ToWrite(q) # {} => req[q].call.target # req[p].call.target
    BY <1>2 DEF Writing, ToWrite
  <2> QED BY <1>2, <2>1 DEF Halfway, ChangesRole
<1> QED
  BY <1>1, <1>2

LEMMA WriteCurrent ==
    ASSUME IInv, NEW p \in Procs, NEW w \in Writes, Writing(p, w),
           NEW v \in Users, Current(v)
    PROVE  Current(v)'
<1> DEFINE r    == req[p]
           u    == r.call.target
           t    == r.row["target"]
           sent == Outstanding(Plan(r.call.op, t))
           role == WrittenRole(r)
<1>0. /\ WriteOf(p, w)
      /\ user'[v].roleName = IF w = "update" /\ v = u /\ ChangesRole(r)
                             THEN role ELSE user[v].roleName
  <2>1. WriteOf(p, w)
    BY DEF Writing
  <2>2. CASE w = "update"
    <3>1. UpdateUser(p)
      BY <2>1, <2>2 DEF WriteOf
    <3> QED BY <2>1, <2>2, <3>1, UpdatedRole
  <2>3. CASE w # "update"
    BY <2>1, <2>3 DEF WriteOf
  <2> QED BY <2>1, <2>2, <2>3
<1>1. CASE v # u
  <2>1. /\ user'[v].roleName = user[v].roleName
        /\ \A name : LastIn(log, v, name) => LastIn(log', v, name)
    BY <1>0, <1>1, LastWritten
  <2>2. ASSUME NEW q \in Procs
        PROVE  /\ Halfway(q, v)' <=> Halfway(q, v)
               /\ Halfway(q, v) /\ NamingDue(q, v) => NamingDue(q, v)'
    <3>1. /\ Halfway(q, v)' <=> Halfway(q, v)
          /\ Halfway(q, v) => q # p
      BY <1>1, OthersHalfway
    <3>2. q # p => req'[q] = req[q] /\ ToWrite(q)' = ToWrite(q)
      BY DEF Writing, ToWrite
    <3> QED BY <2>1, <3>1, <3>2 DEF NamingDue, WrittenRole
  <2> QED BY <2>1, <2>2 DEF Current
<1>2. CASE v = u
  <2>1. ASSUME NEW q \in Procs \ {p} PROVE ~ Halfway(q, v) /\ ~ Halfway(q, v)'
    BY <1>2, <2>1, OthersHalfway
  <2>2. /\ Halfway(p, v) => NamingDue(p, v)
        /\ ~ Halfway(p, v) => LastIn(log, v, user[v].roleName)
    BY <1>2, <2>1 DEF Current
  <2>3. SUFFICES /\ Halfway(p, v)' => NamingDue(p, v)'
                 /\ ~ Halfway(p, v)' => LastIn(log', v, user'[v].roleName)
    BY <1>2, <2>1, <2>3 DEF Current
  <2>4. /\ w \in ToWrite(p) /\ ToWrite(p)' = ToWrite(p) \ {w}
        /\ ToWrite(p)' # {} => req'[p].call = r.call /\ req'[p].row = r.row
        /\ ToWrite(p) \subseteq sent
        /\ "update" \in sent => UpdateSound(r)
        /\ r.call.op \in Ops
    BY DEF Writing
  <2>5. ToWrite(p)' # {} => /\ WrittenRole(req'[p]) = role
                            /\ ChangesRole(req'[p]) <=> ChangesRole(r)
    BY <2>4 DEF WrittenRole, ChangesRole
  <2>6. CASE ~ ChangesRole(r)
    <3>1. r.call.op = "warn" /\ t.advNum # 2
      BY <2>6 DEF ChangesRole
    <3>2. sent = {"warning", "update"}
      BY <2>4, <3>1, PlanWrites
    <3>3. w # "register" /\ user'[v].roleName = user[v].roleName
      BY <1>0, <2>4, <2>6, <3>2
    <3>4. ~ Halfway(p, v) /\ ~ Halfway(p, v)'
      BY <2>4, <2>5, <2>6 DEF Halfway
    <3>5. LastIn(log', v, user[v].roleName)
      BY <1>0, <2>2, <3>3, <3>4, LastWritten
    <3> QED BY <3>3, <3>4, <3>5
  <2>7. CASE ChangesRole(r) /\ w \notin {"update", "register"}
    <3>1. /\ user'[v].roleName = user[v].roleName
          /\ \A name : LastIn(log, v, name) => LastIn(log', v, name)
      BY <1>0, <2>7, LastWritten
    <3>2. /\ "update" \in ToWrite(p)' <=> "update" \in ToWrite(p)
          /\ "register" \in ToWrite(p)' <=> "register" \in ToWrite(p)
      BY <2>4, <2>7
    <3>3. CASE Halfway(p, v)
      <4>1. NamingDue(p, v)' /\ Halfway(p, v)'
        BY <1>2, <2>2, <2>4, <2>5, <3>1, <3>2, <3>3 DEF Halfway, NamingDue
      <4> QED BY <4>1
    <3>4. CASE ~ Halfway(p, v)
      <4>1. ~ Halfway(p, v)'
        BY <1>2, <2>4, <2>5, <2>7, <3>2, <3>4 DEF Halfway
      <4> QED BY <2>2, <3>1, <3>4, <4>1
    <3> QED BY <3>3, <3>4
  <2>8. CASE ChangesRole(r) /\ w = "update"
    <3>1. user'[v].roleName = role
      BY <1>0, <1>2, <2>8
    <3>2. CASE "register" \in ToWrite(p)
      <4>1. /\ "register" \in ToWrite(p)' /\ "update" \notin ToWrite(p)'
            /\ WrittenRole(req'[p]) = role
        BY <2>4, <2>5, <2>8, <3>2
      <4>2. NamingDue(p, v)' /\ Halfway(p, v)'
        BY <1>2, <2>4, <2>5, <2>8, <3>1, <4>1 DEF NamingDue, Halfway
      <4> QED BY <4>2
    <3>3. CASE "register" \notin ToWrite(p)
      <4>1. Halfway(p, v)
        BY <1>2, <2>4, <2>8, <3>3 DEF Halfway
      <4>2. LastIn(log, v, role)
        BY <2>2, <2>4, <2>8, <4>1 DEF NamingDue
      <4>3. LastIn(log', v, role)
        BY <1>0, <2>8, <4>2, LastWritten
      <4>4. ~ Halfway(p, v)'
        BY <2>4, <2>8, <3>3 DEF Halfway
      <4> QED BY <3>1, <4>3, <4>4
    <3> QED BY <3>2, <3>3
  <2>9. CASE ChangesRole(r) /\ w = "register"
    <3>1. "update" \in sent
      BY <2>4, <2>9, PlanWrites DEF Ops, Change, Dismissal
    <3>2. role # NoRole
      BY <2>4, <2>9, <3>1, RolesAssumption DEF UpdateSound, ChangesRole, WrittenRole
    <3>3. LastIn(log', v, role)
      BY <1>0, <1>2, <2>9, <3>2, LastWritten
    <3>4. user'[v].roleName = user[v].roleName
      BY <1>0, <2>9
    <3>5. CASE "update" \in ToWrite(p)
      <4>1. /\ "update" \in ToWrite(p)' /\ "register" \notin ToWrite(p)'
            /\ WrittenRole(req'[p]) = role
        BY <2>4, <2>5, <2>9, <3>5
      <4>2. NamingDue(p, v)' /\ Halfway(p, v)'
        BY <1>2, <2>4, <2>5, <2>9, <3>3, <4>1 DEF NamingDue, Halfway
      <4> QED BY <4>2
    <3>6. CASE "update" \notin ToWrite(p)
      <4>1. Halfway(p, v)
        BY <1>2, <2>4, <2>9, <3>6 DEF Halfway
      <4>2. user[v].roleName = role
        BY <2>2, <2>4, <2>9, <4>1 DEF NamingDue
      <4>3. ~ Halfway(p, v)'
        BY <2>4, <2>9, <3>6 DEF Halfway
      <4> QED BY <3>3, <3>4, <4>2, <4>3
    <3> QED BY <3>5, <3>6
  <2> QED BY <2>6, <2>7, <2>8, <2>9
<1> QED
  BY <1>1, <1>2

RInv == YInv /\ (Calm => \A u \in Users : Current(u))

LEMMA QuietHalfway ==
    ASSUME NEW p \in Procs, Quiet(p), NEW q \in Procs, NEW v
    PROVE  /\ Halfway(q, v)' <=> Halfway(q, v)
           /\ Halfway(q, v) => UNCHANGED <<req[q], ToWrite(q)>>
<1>1. CASE q = p
  <2>1. ~ Halfway(q, v)
    BY <1>1 DEF Quiet, Halfway
  <2>2. ~ Halfway(q, v)'
    <3>1. ASSUME ChangesRole(req'[p]), ToWrite(p)' # {}
          PROVE  "update" \in ToWrite(p)' <=> "register" \in ToWrite(p)'
      <4> DEFINE op == req'[p].call.op
                 t  == req'[p].row["target"]
      <4>1. ToWrite(p)' = Outstanding(Plan(op, t)) /\ op \in Ops
        BY <3>1 DEF Quiet
      <4>2. ~ (op = "warn" /\ t.advNum # 2)
        BY <3>1 DEF ChangesRole
      <4> HIDE DEF op, t
      <4> QED BY <4>1, <4>2, PlanWrites DEF Ops, Change, Dismissal
    <3> QED BY <1>1, <3>1 DEF Halfway
  <2> QED BY <1>1, <2>1, <2>2
<1>2. CASE q # p
  <2>1. req'[q] = req[q] /\ ToWrite(q)' = ToWrite(q)
    BY <1>2 DEF Quiet, ToWrite
  <2> QED BY <2>1 DEF Halfway, ChangesRole
<1> QED
  BY <1>1, <1>2

LEMMA NextRInv == RInv /\ [Next]_vars => RInv'
<1> SUFFICES ASSUME RInv, [Next]_vars PROVE RInv'
  OBVIOUS
<1>0. YInv /\ YInv' /\ IInv /\ setting' = setting
  BY NextYInv, SettingStays DEF RInv, YInv, XInv, TInv
<1> SUFFICES ASSUME Calm, NEW v \in Users PROVE Current(v)'
  BY <1>0 DEF RInv, Calm
<1>1. Current(v)
  BY DEF RInv
<1>2. ASSUME NEW p \in Procs, NEW w \in Writes, Writing(p, w) PROVE Current(v)'
  BY <1>0, <1>1, <1>2, WriteCurrent
<1>3. ASSUME UNCHANGED <<user, log>>,
             \A q \in Procs : /\ Halfway(q, v)' <=> Halfway(q, v)
                              /\ Halfway(q, v) => UNCHANGED <<req[q], ToWrite(q)>>
      PROVE  Current(v)'
  <2>1. \A q \in Procs : Halfway(q, v) => (NamingDue(q, v)' <=> NamingDue(q, v))
    BY <1>3 DEF NamingDue, WrittenRole
  <2> QED BY <1>1, <1>3, <2>1 DEF Current
<1>4. ASSUME NEW p \in Procs, Quiet(p) PROVE Current(v)'
  BY <1>3, <1>4, QuietHalfway DEF Quiet
<1>5. CASE UNCHANGED <<user, log, req>>
  BY <1>3, <1>5 DEF Halfway, ChangesRole, ToWrite
<1> QED
  BY <1>0, <1>2, <1>4, <1>5, CalmStep

\* The last role the history gives a member is the role the member holds.
HistoryIsCurrent ==
    \A u \in Users : \A i \in RoleRows(u) :
        (\A j \in RoleRows(u) : j <= i) => log[i].newRole = user[u].roleName

(***************************************************************************)
(* A history that is current stays so: as long as members are left alone   *)
(* and no query fails, whenever the server is at rest the last role in the *)
(* history of a member is the role the member holds.                       *)
(***************************************************************************)
THEOREM HistoryStaysCurrent ==
    Spec /\ HistoryIsCurrent => []LastRoleIsCurrent
<1>0. HistoryIsCurrent <=> \A u \in Users : LastIn(log, u, user[u].roleName)
  BY DEF HistoryIsCurrent, RoleRows, LastIn, Naming
<1>1. Init /\ HistoryIsCurrent => RInv
  <2> SUFFICES ASSUME Init, HistoryIsCurrent, NEW u \in Users PROVE Current(u)
    BY InitYInv DEF RInv
  <2>1. \A p \in Procs : ToWrite(p) = {}
    BY IdleTidy DEF Init, ToWrite
  <2> QED BY <1>0, <2>1 DEF Current, Halfway
<1>2. RInv => LastRoleIsCurrent
  <2> SUFFICES ASSUME RInv, AtRest, setting.exclusive, ~ setting.faults, NEW u \in Users
               PROVE  LastIn(log, u, user[u].roleName)
    BY DEF LastRoleIsCurrent, RoleRows, LastIn, Naming
  <2>1. \A p \in Procs : ToWrite(p) = {}
    BY RestsUnpunishing DEF RInv, YInv, XInv
  <2> QED BY <2>1 DEF RInv, Calm, Current, Halfway
<1> QED
  BY <1>1, <1>2, NextRInv, PTL DEF Spec
=============================================================================
