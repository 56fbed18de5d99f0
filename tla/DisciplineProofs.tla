-------------------------- MODULE DisciplineProofs --------------------------
(***************************************************************************)
(* Proofs about Discipline, for every table of roles and requirements, any *)
(* number of members and requests, every interleaving and every failure of *)
(* a query.                                                                *)
(***************************************************************************)
EXTENDS Discipline, SequenceTheorems, TLAPS

(***************************************************************************)
(* The invariant behind TypeOK and StaysOnTrack.  The role a request is    *)
(* about to write was computed from a row read earlier, which nothing ties *)
(* to the row it will overwrite; what it does carry with it is the ladder  *)
(* of the member, and that it is a role at all.                            *)
(***************************************************************************)
UpdateSound(r) ==
    LET t == r.row["target"] IN
    \/ r.call.op = "warn" /\ t.advNum # 2
    \/ /\ NewRole(r.call.op, t) \in RoleNames
       /\ OnTrack(r.call.target, NewRole(r.call.op, t))

RequestSound(r) ==
    /\ r.call.target \in Users =>
          OnTrack(r.call.target, r.row["target"].roleName)
    /\ r.stage \in {"perms", "writes"} =>
          /\ r.call.target \in Users
          /\ r.call.op \in {"promote", "warn"} =>
                r.row["target"].roleName # "Recruta"
    /\ "update" \in Outstanding(r.batches) =>
          r.stage = "writes" /\ UpdateSound(r)

IInv == /\ TypeOK
        /\ StaysOnTrack
        /\ \A p \in Procs : RequestSound(req[p])
-----------------------------------------------------------------------------
(* The rungs next to a role are on its ladder; below a Recruta there is    *)
(* none.                                                                   *)
LEMMA RungOnLadder ==
    ASSUME NEW role \in RoleNames, NEW steps \in {1, -1},
           RoleAt(role, steps) # NoRole
    PROVE  /\ RoleAt(role, steps) \in RoleNames
           /\ KindOf(RoleAt(role, steps)) = KindOf(role)
           /\ steps = -1 => role # "Recruta"
<1>1. Rungs(role, steps) # {}
  BY DEF RoleAt
<1>2. RoleAt(role, steps) \in Rungs(role, steps)
  BY <1>1 DEF RoleAt
<1>3. PICK r \in RoleNames : PositionOf(r) = PositionOf(role) + steps
  BY <1>1 DEF Rungs
<1>4. steps = -1 => role # "Recruta"
  BY <1>3, RolesAssumption DEF RoleRow, PositionOf
<1> QED
  BY <1>2, <1>4 DEF Rungs

LEMMA RoleAtType ==
    ASSUME NEW role, NEW steps
    PROVE  RoleAt(role, steps) \in RoleNames \cup {NoRole}
BY DEF RoleAt, Rungs

(* What a request still has to write once a write has landed or failed is  *)
(* part of what it had to write.                                           *)
LEMMA LeftProperties ==
    ASSUME NEW batches \in Seq(SUBSET Writes), batches # <<>>, NEW w
    PROVE  /\ Left(batches, w) \in Seq(SUBSET Writes)
           /\ Outstanding(Left(batches, w)) \subseteq Outstanding(batches)
           /\ <<Head(batches) \ {w}>> \in Seq(SUBSET Writes)
           /\ Outstanding(<<Head(batches) \ {w}>>) \subseteq Outstanding(batches)
           /\ Head(batches) \subseteq Outstanding(batches)
<1> DEFINE one == <<Head(batches) \ {w}>>
<1>1. /\ Head(batches) \in SUBSET Writes /\ Head(batches) = batches[1]
      /\ Tail(batches) \in Seq(SUBSET Writes)
      /\ Len(Tail(batches)) = Len(batches) - 1
      /\ \A i \in 1..Len(Tail(batches)) : Tail(batches)[i] = batches[i + 1]
      /\ Len(batches) \in Nat \ {0} /\ DOMAIN batches = 1..Len(batches)
  BY HeadTailProperties, EmptySeq, LenProperties
<1>2. /\ one \in Seq(SUBSET Writes) /\ Len(one) = 1 /\ DOMAIN one = {1}
      /\ one[1] = Head(batches) \ {w}
  BY <1>1
<1>3. one \o Tail(batches) \in Seq(SUBSET Writes)
  BY <1>1, <1>2, ConcatProperties
<1>4. Head(batches) \subseteq Outstanding(batches)
  BY <1>1 DEF Outstanding
<1>5. Outstanding(one) \subseteq Outstanding(batches)
  BY <1>2, <1>4 DEF Outstanding
<1>6. Outstanding(Tail(batches)) \subseteq Outstanding(batches)
  <2>1. DOMAIN Tail(batches) = 1..Len(Tail(batches))
    BY <1>1, LenProperties
  <2>2. \A i \in DOMAIN Tail(batches) : /\ i + 1 \in DOMAIN batches
                                        /\ Tail(batches)[i] = batches[i + 1]
    BY <1>1, <2>1
  <2> QED BY <2>2 DEF Outstanding
<1>7. \A i \in DOMAIN (one \o Tail(batches)) :
         (one \o Tail(batches))[i] \subseteq batches[i] /\ i \in DOMAIN batches
  <2>1. DOMAIN (one \o Tail(batches)) = 1..Len(batches)
    BY <1>1, <1>2, <1>3, ConcatProperties, LenProperties
  <2>2. \A i \in 1..Len(batches) :
           (one \o Tail(batches))[i] = IF i <= 1 THEN one[i] ELSE Tail(batches)[i - 1]
    BY <1>1, <1>2, ConcatProperties
  <2> QED BY <1>1, <1>2, <2>1, <2>2
<1>8. Outstanding(one \o Tail(batches)) \subseteq Outstanding(batches)
  BY <1>7 DEF Outstanding
<1> QED
  BY <1>1, <1>2, <1>3, <1>4, <1>5, <1>6, <1>8 DEF Left

(* A request may change into any sound request of the right type.          *)
LEMMA RequestChange ==
    ASSUME NEW table \in [Procs -> Request], NEW p \in Procs,
           NEW r \in Request, RequestSound(r),
           \A q \in Procs : RequestSound(table[q])
    PROVE  /\ [table EXCEPT ![p] = r] \in [Procs -> Request]
           /\ \A q \in Procs : RequestSound([table EXCEPT ![p] = r][q])
BY DEF RequestSound

LEMMA IdleSound == Idle \in Request /\ RequestSound(Idle)
<1>1. (CHOOSE c \in Calls : TRUE) \in Call
  BY DisciplineAssumption
<1>2. NoRow \in UserRow
  BY RolesAssumption DEF NoRow, UserRow, AdvNums
<1>3. Outstanding(<<>>) = {}
  BY DEF Outstanding
<1> QED
  BY <1>1, <1>2, <1>3 DEF Idle, Request, RequestSound, NoRow, OnTrack, Who

(***************************************************************************)
(* What the handlers decide, and the writes they then send.                *)
(***************************************************************************)
LEMMA PlanType ==
    ASSUME NEW op \in Ops, NEW t
    PROVE  Plan(op, t) \in Seq(SUBSET Writes)
<1>1. DemotionPlan(t) \in Seq(SUBSET Writes)
  <2>1. <<{"deleteCFO"}, Change>> \in Seq(SUBSET Writes)
    BY DEF Change, Writes
  <2>2. <<Change>> \in Seq(SUBSET Writes)
    BY DEF Change, Writes
  <2> QED BY <2>1, <2>2 DEF DemotionPlan
<1>2. WarningPlan(t) \in Seq(SUBSET Writes)
  <2>1. <<{"warning"}, {"update"}>> \in Seq(SUBSET Writes)
    BY DEF Writes
  <2>2. <<{"warning"}>> \in Seq(SUBSET Writes)
    BY DEF Writes
  <2>3. <<{"warning"}, {"deletePermissions"}, Dismissal>> \in Seq(SUBSET Writes)
    BY DEF Dismissal, Writes
  <2>4. <<{"warning"}, Dismissal>> \in Seq(SUBSET Writes)
    BY DEF Dismissal, Writes
  <2> QED BY <2>1, <2>2, <2>3, <2>4 DEF WarningPlan
<1>3. <<Change>> \in Seq(SUBSET Writes)
  BY DEF Change, Writes
<1>4. <<{"update", "register", "deletePermissions", "deleteRoles"}>>
         \in Seq(SUBSET Writes)
  BY DEF Writes
<1> QED
  BY <1>1, <1>2, <1>3, <1>4 DEF Plan, Ops

(* A handler that goes as far as writing a role computed one that exists,  *)
(* on the ladder of the role it has read.                                  *)
LEMMA PlanSound ==
    ASSUME NEW r \in Request, RequestSound(r),
           r.stage = "perms",
           Permitted(r.call.op, r.row["target"], r.held["target"],
                     r.row["actor"], r.held["actor"]),
           "update" \in Outstanding(Plan(r.call.op, r.row["target"]))
    PROVE  UpdateSound(r)
<1> DEFINE op == r.call.op
           t  == r.row["target"]
           u  == r.call.target
<1>1. /\ op \in Ops /\ t \in UserRow /\ u \in Users
      /\ OnTrack(u, t.roleName)
      /\ op \in {"promote", "warn"} => t.roleName # "Recruta"
  BY DEF Request, Call, Who, RequestSound
<1>2. CASE op = "promote"
  <2>1. NextUp(t.roleName) # NoRole
    BY <1>2 DEF Permitted, PromotionPermitted
  <2>2. /\ NextUp(t.roleName) \in RoleNames
        /\ KindOf(NextUp(t.roleName)) = KindOf(t.roleName)
    BY <1>1, <2>1, RungOnLadder DEF NextUp, UserRow
  <2> QED
    BY <1>1, <1>2, <2>2 DEF UpdateSound, NewRole, OnTrack
<1>3. CASE op = "fire"
  BY <1>3, RolesAssumption DEF UpdateSound, NewRole, OnTrack
<1>4. CASE op = "demote"
  <2>1. NextDown(t.roleName) # NoRole
    BY <1>4 DEF Permitted, PunishmentPermitted
  <2>2. /\ NextDown(t.roleName) \in RoleNames
        /\ KindOf(NextDown(t.roleName)) = KindOf(t.roleName)
        /\ t.roleName # "Recruta"
    BY <1>1, <2>1, RungOnLadder DEF NextDown, UserRow
  <2> QED
    BY <1>1, <1>4, <2>2 DEF UpdateSound, NewRole, OnTrack
<1>5. CASE op = "warn" /\ t.advNum = 2
  <2>1. Plan(op, t) = WarningPlan(t)
    BY <1>5 DEF Plan
  <2>2. CASE NextDown(t.roleName) = NoRole
    <3>1. WarningPlan(t) = <<{"warning"}>>
      BY <1>5, <2>2 DEF WarningPlan
    <3>2. "update" \notin Outstanding(<<{"warning"}>>)
      BY DEF Outstanding
    <3> QED BY <2>1, <3>1, <3>2
  <2>3. CASE NextDown(t.roleName) # NoRole
    <3>1. /\ NextDown(t.roleName) \in RoleNames
          /\ KindOf(NextDown(t.roleName)) = KindOf(t.roleName)
      BY <1>1, <2>3, RungOnLadder DEF NextDown, UserRow
    <3> QED
      BY <1>1, <1>5, <3>1 DEF UpdateSound, NewRole, OnTrack
  <2> QED BY <2>2, <2>3
<1>6. CASE op = "warn" /\ t.advNum # 2
  BY <1>6 DEF UpdateSound
<1> QED
  BY <1>1, <1>2, <1>3, <1>4, <1>5, <1>6 DEF Ops

LEMMA RankedRow ==
    ASSUME NEW row \in UserRow, NEW role \in RoleNames, NEW stamp \in Nat
    PROVE  /\ Ranked(row, role, stamp) \in UserRow
           /\ Ranked(row, role, stamp).roleName = role
BY DEF Ranked, UserRow

LEMMA ExpelledRow ==
    ASSUME NEW row \in UserRow
    PROVE  Expelled(row) \in UserRow /\ Expelled(row).roleName = "Recruta"
BY RolesAssumption DEF Expelled, UserRow

LEMMA PunishedRow ==
    ASSUME NEW row \in UserRow, NEW t, NextDown(t.roleName) \in RoleNames
    PROVE  /\ Punished(row, t) \in UserRow
           /\ Punished(row, t).roleName = NextDown(t.roleName)
<1> DEFINE With(b) == [row EXCEPT !.roleName = NextDown(t.roleName),
                                  !.isAccountActive = b, !.advNum = 0]
<1>0. 0 \in AdvNums
  BY DEF AdvNums
<1>1. /\ With(TRUE) \in UserRow
      /\ With(TRUE).roleName = NextDown(t.roleName)
  BY <1>0 DEF UserRow
<1>2. /\ With(FALSE) \in UserRow
      /\ With(FALSE).roleName = NextDown(t.roleName)
  BY <1>0 DEF UserRow
<1>3. Punished(row, t) = With(TRUE) \/ Punished(row, t) = With(FALSE)
  <2>1. (t.roleName # "Soldado") = TRUE \/ (t.roleName # "Soldado") = FALSE
    OBVIOUS
  <2> QED BY <2>1, Zenon DEF Punished
<1> QED
  BY <1>1, <1>2, <1>3, Zenon

LEMMA WarnedRow ==
    ASSUME NEW row \in UserRow, NEW t \in UserRow, t.advNum # 2
    PROVE  /\ Warned(row, t) \in UserRow
           /\ Warned(row, t).roleName = row.roleName
<1>1. t.advNum + 1 \in AdvNums
  BY DEF UserRow, AdvNums
<1> QED
  BY <1>1 DEF Warned, UserRow

(* The row an update leaves behind is a row of the table, of a member who  *)
(* is still on the ladder.                                                 *)
LEMMA UpdatedSound ==
    ASSUME NEW r \in Request, UpdateSound(r), NEW row \in UserRow,
           OnTrack(r.call.target, row.roleName)
    PROVE  LET new == Updated(r.call.op, r.row["target"], row, r.stamp)
           IN  new \in UserRow /\ OnTrack(r.call.target, new.roleName)
<1> DEFINE op == r.call.op
           t  == r.row["target"]
           new == Updated(op, t, row, r.stamp)
<1> SUFFICES new \in UserRow /\ OnTrack(r.call.target, new.roleName)
  OBVIOUS
<1> HIDE DEF new
<1>1. op \in Ops /\ t \in UserRow /\ r.stamp \in Nat
  BY DEF Request, Call, Who
<1>2. CASE op \in {"promote", "demote"}
  <2>1. NewRole(op, t) \in RoleNames /\ OnTrack(r.call.target, NewRole(op, t))
    BY <1>2 DEF UpdateSound
  <2>2. new = Ranked(row, NewRole(op, t), r.stamp)
    BY <1>2 DEF Updated, new
  <2>3. new \in UserRow /\ new.roleName = NewRole(op, t)
    BY <1>1, <2>1, <2>2, RankedRow
  <2> QED BY <2>1, <2>3
<1>3. CASE op = "fire"
  <2>1. new = Expelled(row)
    BY <1>3 DEF Updated, new
  <2>2. new \in UserRow /\ new.roleName = "Recruta"
    BY <1>1, <2>1, ExpelledRow
  <2> QED BY <2>2 DEF OnTrack
<1>4. CASE op = "warn" /\ t.advNum = 2
  <2>1. NewRole(op, t) = NextDown(t.roleName)
    BY <1>4 DEF NewRole
  <2>2. /\ NextDown(t.roleName) \in RoleNames
        /\ OnTrack(r.call.target, NextDown(t.roleName))
    BY <1>4, <2>1 DEF UpdateSound
  <2>3. new = Punished(row, t)
    BY <1>4 DEF Updated, new
  <2>4. new \in UserRow /\ new.roleName = NextDown(t.roleName)
    BY <1>1, <2>2, <2>3, PunishedRow
  <2> QED BY <2>2, <2>4
<1>5. CASE op = "warn" /\ t.advNum # 2
  <2>1. new = Warned(row, t)
    BY <1>5 DEF Updated, new
  <2>2. new \in UserRow /\ new.roleName = row.roleName
    BY <1>1, <1>5, <2>1, WarnedRow
  <2> QED BY <2>2
<1> QED
  BY <1>1, <1>2, <1>3, <1>4, <1>5 DEF Ops
-----------------------------------------------------------------------------
(***************************************************************************)
(* The requests an action leaves behind.                                   *)
(***************************************************************************)
LEMMA SubmittedRequest ==
    ASSUME NEW c \in Calls
    PROVE  LET r == [Idle EXCEPT !.stage = "rows", !.call = c, !.awaiting = Who]
           IN  r \in Request /\ RequestSound(r)
<1>1. c \in Call
  BY DisciplineAssumption
<1>2. Idle \in Request /\ RequestSound(Idle)
  BY IdleSound
<1> DEFINE r == [Idle EXCEPT !.stage = "rows", !.call = c, !.awaiting = Who]
<1>3. r \in Request
  BY <1>1, <1>2 DEF Request
<1>4. r.row = Idle.row /\ r.batches = <<>> /\ r.stage = "rows" /\ r.call = c
  BY DEF Idle
<1>5. Outstanding(<<>>) = {}
  BY DEF Outstanding
<1>6. r.row["target"].roleName = "Recruta"
  BY <1>4 DEF Idle, NoRow, Who
<1> QED
  BY <1>3, <1>4, <1>5, <1>6 DEF RequestSound, OnTrack

LEMMA RowRead ==
    ASSUME NEW r \in Request, RequestSound(r), r.stage = "rows",
           NEW who \in Who, NEW row \in UserRow,
           who = "target" /\ r.call.target \in Users =>
               OnTrack(r.call.target, row.roleName)
    PROVE  /\ WithRow(r, who, row) \in Request
           /\ RequestSound(WithRow(r, who, row))
<1> DEFINE new == [r EXCEPT !.awaiting = @ \ {who},
                            !.row = [@ EXCEPT ![who] = row]]
<1>1. r.row \in [Who -> UserRow] /\ r.awaiting \in SUBSET Who
  BY DEF Request
<1>2. [r.row EXCEPT ![who] = row] \in [Who -> UserRow]
  BY <1>1
<1>3. r.awaiting \ {who} \in SUBSET Who
  BY <1>1
<1>4. new \in Request
  BY <1>2, <1>3 DEF Request
<1>5. /\ new.stage = "rows" /\ new.call = r.call /\ new.batches = r.batches
      /\ new.row = [r.row EXCEPT ![who] = row]
  BY DEF Request
<1>6. new.row["target"] = IF who = "target" THEN row ELSE r.row["target"]
  BY <1>1, <1>5 DEF Who
<1>7. "update" \notin Outstanding(r.batches)
  BY DEF RequestSound
<1> QED
  BY <1>4, <1>5, <1>6, <1>7 DEF RequestSound, WithRow

LEMMA PermsRead ==
    ASSUME NEW r \in Request, RequestSound(r),
           NEW who \in Who, NEW held \in SUBSET Permission
    PROVE  /\ WithHeld(r, who, held) \in Request
           /\ RequestSound(WithHeld(r, who, held))
<1> DEFINE new == [r EXCEPT !.awaiting = @ \ {who},
                            !.held = [@ EXCEPT ![who] = held]]
<1>1. r.held \in [Who -> SUBSET Permission] /\ r.awaiting \in SUBSET Who
  BY DEF Request
<1>2. [r.held EXCEPT ![who] = held] \in [Who -> SUBSET Permission]
  BY <1>1
<1>3. r.awaiting \ {who} \in SUBSET Who
  BY <1>1
<1>4. new \in Request
  BY <1>2, <1>3 DEF Request
<1>5. /\ new.stage = r.stage /\ new.call = r.call /\ new.batches = r.batches
      /\ new.row = r.row
  BY DEF Request
<1> QED
  BY <1>4, <1>5 DEF RequestSound, UpdateSound, WithHeld

LEMMA WritesLeft ==
    ASSUME NEW r \in Request, RequestSound(r), r.stage = "writes",
           NEW batches \in Seq(SUBSET Writes), NEW stamp \in Nat,
           Outstanding(batches) \subseteq Outstanding(r.batches)
    PROVE  LET new == [r EXCEPT !.batches = batches, !.stamp = stamp]
           IN  new \in Request /\ RequestSound(new)
<1> DEFINE new == [r EXCEPT !.batches = batches, !.stamp = stamp]
<1>1. new \in Request
  BY DEF Request
<1>2. /\ new.stage = r.stage /\ new.call = r.call /\ new.row = r.row
      /\ new.batches = batches
  BY DEF Request
<1> QED
  BY <1>1, <1>2 DEF RequestSound, UpdateSound
-----------------------------------------------------------------------------
LEMMA InitInv == Init => IInv
<1> SUFFICES ASSUME Init PROVE IInv
  OBVIOUS
<1>1. PICK d \in Databases : user = d.user /\ perms = d.perms
                             /\ depts = d.depts /\ log = d.log
  BY DEF Init
<1>2. d \in Database /\ \A u \in Users : OnTrack(u, d.user[u].roleName)
  BY DisciplineAssumption
<1>3. /\ user \in [Users -> UserRow] /\ perms \subseteq UserPermission
      /\ depts \subseteq Users /\ log \in Seq(LogRow)
  BY <1>1, <1>2 DEF Database
<1>4. now \in Nat /\ issued \in Nat
  BY DEF Init
<1>5. req \in [Procs -> Request] /\ \A p \in Procs : RequestSound(req[p])
  BY IdleSound DEF Init
<1> QED
  BY <1>1, <1>2, <1>3, <1>4, <1>5 DEF IInv, TypeOK, StaysOnTrack

(* A step that only changes one request, into a sound one.                 *)
LEMMA OnlyRequest ==
    ASSUME IInv, NEW p \in Procs, NEW r \in Request, RequestSound(r),
           req' = [req EXCEPT ![p] = r],
           UNCHANGED <<user, perms, depts, log>>, now' \in Nat, issued' \in Nat
    PROVE  IInv'
BY RequestChange DEF IInv, TypeOK, StaysOnTrack

(* What a write that lands leaves to the request that sent it.             *)
LEMMA LandedRequest ==
    ASSUME IInv, NEW p \in Procs, NEW w, Landed(p, w)
    PROVE  /\ req' \in [Procs -> Request]
           /\ \A q \in Procs : RequestSound(req'[q])
           /\ req[p] \in Request /\ RequestSound(req[p])
           /\ req[p].stage = "writes" /\ req[p].call.target \in Users
           /\ w \in Outstanding(req[p].batches)
<1> DEFINE left == Left(req[p].batches, w)
           time == IF Head(req[p].batches) = {w} THEN now ELSE req[p].stamp
           r    == IF left = <<>> THEN Idle
                   ELSE [req[p] EXCEPT !.batches = left, !.stamp = time]
<1>1. /\ req \in [Procs -> Request] /\ req[p] \in Request
      /\ \A q \in Procs : RequestSound(req[q])
      /\ now \in Nat
  BY DEF IInv, TypeOK
<1>2. /\ req[p].batches \in Seq(SUBSET Writes) /\ req[p].batches # <<>>
      /\ req[p].stamp \in Nat /\ req[p].stage = "writes"
      /\ w \in Head(req[p].batches)
  BY <1>1 DEF Request, Landed, OnTheWay
<1>3. /\ left \in Seq(SUBSET Writes)
      /\ Outstanding(left) \subseteq Outstanding(req[p].batches)
      /\ w \in Outstanding(req[p].batches)
  BY <1>2, LeftProperties
<1>4. time \in Nat
  BY <1>1, <1>2
<1>5. r \in Request /\ RequestSound(r)
  <2>1. /\ [req[p] EXCEPT !.batches = left, !.stamp = time] \in Request
        /\ RequestSound([req[p] EXCEPT !.batches = left, !.stamp = time])
    <3> HIDE DEF left, time
    <3> QED BY <1>1, <1>2, <1>3, <1>4, WritesLeft
  <2> QED BY <2>1, IdleSound
<1>6. req' = [req EXCEPT ![p] = r]
  BY DEF Landed, Proceed
<1>7. req[p].call.target \in Users
  BY <1>1, <1>2 DEF RequestSound
<1> QED
  <2> HIDE DEF r
  <2> QED BY <1>1, <1>2, <1>3, <1>5, <1>6, <1>7, RequestChange

LEMMA ChangeRowType ==
    ASSUME NEW r \in Request, r.call.target \in Users,
           NewRole(r.call.op, r.row["target"]) \in RoleNames \cup {NoRole}
    PROVE  ChangeRow(r.call.op, r.row["target"], r.call.target) \in LogRow
<1> DEFINE op == r.call.op
           t  == r.row["target"]
<1>1. op \in Ops /\ t \in UserRow
  BY DEF Request, Call, Who
<1>2. (op = "warn") \in BOOLEAN
  OBVIOUS
<1>3. (IF op = "promote" THEN t.bonificationsInRole ELSE 0) \in Nat
  BY <1>1 DEF UserRow
<1>4. ChangeType(op, t) \in {"PROMOTION", "DEMOTION", "FIRE"}
  BY DEF ChangeType
<1> QED
  BY <1>2, <1>3, <1>4 DEF ChangeRow, LogRow

LEMMA WriteInv ==
    ASSUME IInv, NEW p \in Procs, Write(p)
    PROVE  IInv'
<1>0. /\ user \in [Users -> UserRow] /\ perms \subseteq UserPermission
      /\ depts \subseteq Users /\ log \in Seq(LogRow)
      /\ now \in Nat /\ issued \in Nat
      /\ \A u \in Users : OnTrack(u, user[u].roleName)
  BY DEF IInv, TypeOK, StaysOnTrack
<1>1. CASE UpdateUser(p)
  <2> DEFINE r == req[p]
             u == r.call.target
             new == Updated(r.call.op, r.row["target"], user[u], r.stamp)
  <2>1. Landed(p, "update") /\ user' = [user EXCEPT ![u] = new]
        /\ UNCHANGED <<perms, depts, log, now, issued>>
    BY <1>1 DEF UpdateUser
  <2>2. /\ req' \in [Procs -> Request] /\ \A q \in Procs : RequestSound(req'[q])
        /\ r \in Request /\ u \in Users
        /\ UpdateSound(r)
    BY <2>1, LandedRequest DEF RequestSound
  <2>3. new \in UserRow /\ OnTrack(u, new.roleName)
    BY <1>0, <2>2, UpdatedSound
  <2>4. user' \in [Users -> UserRow] /\ \A v \in Users : OnTrack(v, user'[v].roleName)
    <3> HIDE DEF new
    <3> QED BY <1>0, <2>1, <2>2, <2>3
  <2> QED BY <1>0, <2>1, <2>2, <2>4 DEF IInv, TypeOK, StaysOnTrack
<1>2. CASE Register(p)
  <2>1. Landed(p, "register")
        /\ log' = Append(log, ChangeRow(req[p].call.op, req[p].row["target"],
                                        req[p].call.target))
        /\ UNCHANGED <<user, perms, depts, now, issued>>
    BY <1>2 DEF Register
  <2>2. /\ req' \in [Procs -> Request] /\ \A q \in Procs : RequestSound(req'[q])
        /\ req[p] \in Request /\ req[p].call.target \in Users
    BY <2>1, LandedRequest
  <2>3. NewRole(req[p].call.op, req[p].row["target"]) \in RoleNames \cup {NoRole}
    <3>1. req[p].row["target"].roleName \in RoleNames
      BY <2>2 DEF Request, Who, UserRow
    <3> QED BY <3>1, RoleAtType, RolesAssumption DEF NewRole, NextUp, NextDown
  <2>4. log' \in Seq(LogRow)
    BY <1>0, <2>1, <2>2, <2>3, ChangeRowType
  <2> QED BY <1>0, <2>1, <2>2, <2>4 DEF IInv, TypeOK, StaysOnTrack
<1>3. CASE LogWarning(p)
  <2>1. Landed(p, "warning") /\ log' = Append(log, WarningRow(req[p].call.target))
        /\ UNCHANGED <<user, perms, depts, now, issued>>
    BY <1>3 DEF LogWarning
  <2>2. /\ req' \in [Procs -> Request] /\ \A q \in Procs : RequestSound(req'[q])
        /\ req[p].call.target \in Users
    BY <2>1, LandedRequest
  <2>3. WarningRow(req[p].call.target) \in LogRow
    BY <2>2 DEF WarningRow, LogRow
  <2>4. log' \in Seq(LogRow)
    BY <1>0, <2>1, <2>3
  <2> QED BY <1>0, <2>1, <2>2, <2>4 DEF IInv, TypeOK, StaysOnTrack
<1>4. CASE RetireWarnings(p)
  <2> DEFINE row(i) == IF log[i].type = "WARNING" /\ log[i].target = req[p].call.target
                       THEN [log[i] EXCEPT !.isActive = FALSE] ELSE log[i]
  <2>1. Landed(p, "retireWarnings") /\ log' = [i \in DOMAIN log |-> row(i)]
        /\ UNCHANGED <<user, perms, depts, now, issued>>
    BY <1>4 DEF RetireWarnings
  <2>2. /\ req' \in [Procs -> Request] /\ \A q \in Procs : RequestSound(req'[q])
    BY <2>1, LandedRequest
  <2>3. DOMAIN log = 1..Len(log) /\ Len(log) \in Nat
    BY <1>0
  <2>4. ASSUME NEW i \in 1..Len(log) PROVE row(i) \in LogRow
    <3>1. log[i] \in LogRow
      BY <1>0
    <3>2. [log[i] EXCEPT !.isActive = FALSE] \in LogRow
      BY <3>1 DEF LogRow
    <3> QED BY <3>1, <3>2
  <2>5. log' \in Seq(LogRow)
    <3> HIDE DEF row
    <3>1. log' \in [1..Len(log) -> LogRow]
      BY <2>1, <2>3, <2>4
    <3> QED BY <2>3, <3>1, SeqDef
  <2> QED BY <1>0, <2>1, <2>2, <2>5 DEF IInv, TypeOK, StaysOnTrack
<1>5. ASSUME NEW w, DeletePermissions(p, w) PROVE IInv'
  <2>1. Landed(p, w) /\ perms' \subseteq perms
        /\ UNCHANGED <<user, depts, log, now, issued>>
    BY <1>5 DEF DeletePermissions
  <2>2. /\ req' \in [Procs -> Request] /\ \A q \in Procs : RequestSound(req'[q])
    BY <2>1, LandedRequest
  <2> QED BY <1>0, <2>1, <2>2 DEF IInv, TypeOK, StaysOnTrack
<1>6. CASE DeleteRoles(p)
  <2>1. Landed(p, "deleteRoles") /\ depts' \subseteq depts
        /\ UNCHANGED <<user, perms, log, now, issued>>
    BY <1>6 DEF DeleteRoles
  <2>2. /\ req' \in [Procs -> Request] /\ \A q \in Procs : RequestSound(req'[q])
    BY <2>1, LandedRequest
  <2> QED BY <1>0, <2>1, <2>2 DEF IInv, TypeOK, StaysOnTrack
<1> QED
  BY <1>1, <1>2, <1>3, <1>4, <1>5, <1>6 DEF Write

LEMMA ReadInv ==
    ASSUME IInv, NEW p \in Procs, NEW who \in Who,
           ReadRow(p, who) \/ ReadPerms(p, who)
    PROVE  IInv'
<1>0. /\ user \in [Users -> UserRow] /\ perms \subseteq UserPermission
      /\ now \in Nat /\ issued \in Nat
      /\ req[p] \in Request /\ RequestSound(req[p])
      /\ \A u \in Users : OnTrack(u, user[u].roleName)
  BY DEF IInv, TypeOK, StaysOnTrack
<1>1. CASE ReadRow(p, who)
  <2> DEFINE nick == req[p].call[who]
             row  == IF nick \in Users THEN user[nick] ELSE NoRow
             r    == WithRow(req[p], who, row)
  <2>1. /\ req[p].stage = "rows" /\ req' = [req EXCEPT ![p] = r]
        /\ UNCHANGED <<user, perms, depts, log, now, issued>>
    BY <1>1 DEF ReadRow, db
  <2>2. NoRow \in UserRow
    BY RolesAssumption DEF NoRow, UserRow, AdvNums
  <2>3. row \in UserRow
    BY <1>0, <2>2
  <2>4. who = "target" /\ req[p].call.target \in Users =>
            OnTrack(req[p].call.target, row.roleName)
    BY <1>0
  <2>5. r \in Request /\ RequestSound(r)
    <3> HIDE DEF row
    <3> QED BY <1>0, <2>1, <2>3, <2>4, RowRead
  <2> QED
    <3> HIDE DEF r
    <3> QED BY <1>0, <2>1, <2>5, OnlyRequest
<1>2. CASE ReadPerms(p, who)
  <2> DEFINE r == WithHeld(req[p], who, PermsOf(req[p].call[who]))
  <2>1. /\ req' = [req EXCEPT ![p] = r]
        /\ UNCHANGED <<user, perms, depts, log, now, issued>>
    BY <1>2 DEF ReadPerms, db
  <2>2. PermsOf(req[p].call[who]) \in SUBSET Permission
    BY <1>0 DEF PermsOf, UserPermission
  <2>3. r \in Request /\ RequestSound(r)
    BY <1>0, <2>2, PermsRead
  <2> QED
    <3> HIDE DEF r
    <3> QED BY <1>0, <2>1, <2>3, OnlyRequest
<1> QED BY <1>1, <1>2

LEMMA DecisionInv ==
    ASSUME IInv, NEW p \in Procs, Admit(p) \/ Issue(p) \/ Refuse(p) \/ FailRead(p)
    PROVE  IInv'
<1>0. /\ now \in Nat /\ issued \in Nat
      /\ req[p] \in Request /\ RequestSound(req[p])
  BY DEF IInv, TypeOK
<1>1. CASE Admit(p)
  <2> DEFINE r == [req[p] EXCEPT !.stage = "perms",
                                 !.awaiting = Consulted(req[p].call.op)]
  <2>1. /\ req[p].stage = "rows" /\ RowsAdmit(p) /\ req' = [req EXCEPT ![p] = r]
        /\ UNCHANGED <<user, perms, depts, log, now, issued>>
    BY <1>1 DEF Admit, db
  <2>2. /\ req[p].call.target \in Users
        /\ req[p].call.op \in {"promote", "warn"} =>
              req[p].row["target"].roleName # "Recruta"
    BY <2>1 DEF RowsAdmit, Found, Admitted, MayPromote, MayPunish, Untouchable
  <2>3. r \in Request
    BY <1>0 DEF Request, Consulted, Who
  <2>4. /\ r.stage = "perms" /\ r.call = req[p].call /\ r.row = req[p].row
        /\ r.batches = req[p].batches
    BY <1>0 DEF Request
  <2>5. "update" \notin Outstanding(req[p].batches)
    BY <1>0, <2>1 DEF RequestSound
  <2>6. RequestSound(r)
    <3> HIDE DEF r
    <3> QED BY <1>0, <2>2, <2>4, <2>5 DEF RequestSound
  <2> QED
    <3> HIDE DEF r
    <3> QED BY <1>0, <2>1, <2>3, <2>6, OnlyRequest
<1>2. CASE Issue(p)
  <2> DEFINE plan == Plan(req[p].call.op, req[p].row["target"])
             r    == [req[p] EXCEPT !.stage = "writes", !.batches = plan,
                                    !.stamp = now]
  <2>1. /\ req[p].stage = "perms" /\ PermsPermit(p) /\ req' = [req EXCEPT ![p] = r]
        /\ UNCHANGED <<user, perms, depts, log, now, issued>>
    BY <1>2 DEF Issue, db
  <2>2. plan \in Seq(SUBSET Writes)
    BY <1>0, PlanType DEF Request, Call
  <2>3. r \in Request
    <3> HIDE DEF plan
    <3> QED BY <1>0, <2>2 DEF Request
  <2>4. /\ r.stage = "writes" /\ r.call = req[p].call /\ r.row = req[p].row
        /\ r.batches = plan
    <3> HIDE DEF plan
    <3> QED BY <1>0 DEF Request
  <2>5. "update" \in Outstanding(plan) => UpdateSound(req[p])
    BY <1>0, <2>1, PlanSound DEF PermsPermit
  <2>6. RequestSound(r)
    <3> HIDE DEF r, plan
    <3> QED BY <1>0, <2>1, <2>4, <2>5 DEF RequestSound, UpdateSound
  <2> QED
    <3> HIDE DEF r
    <3> QED BY <1>0, <2>1, <2>3, <2>6, OnlyRequest
<1>3. CASE Refuse(p) \/ FailRead(p)
  <2>1. /\ req' = [req EXCEPT ![p] = Idle]
        /\ UNCHANGED <<user, perms, depts, log, now, issued>>
    BY <1>3 DEF Refuse, FailRead, db
  <2> QED BY <1>0, <2>1, IdleSound, OnlyRequest
<1> QED BY <1>1, <1>2, <1>3

LEMMA LoseWriteInv ==
    ASSUME IInv, NEW p \in Procs, NEW w \in Writes, LoseWrite(p, w)
    PROVE  IInv'
<1> DEFINE one == <<Head(req[p].batches) \ {w}>>
           r   == IF Head(req[p].batches) = {w} THEN Idle
                  ELSE [req[p] EXCEPT !.batches = one, !.stamp = req[p].stamp]
<1>1. /\ now \in Nat /\ issued \in Nat
      /\ req[p] \in Request /\ RequestSound(req[p])
  BY DEF IInv, TypeOK
<1>2. /\ req[p].batches \in Seq(SUBSET Writes) /\ req[p].batches # <<>>
      /\ req[p].stamp \in Nat /\ req[p].stage = "writes"
      /\ UNCHANGED <<user, perms, depts, log, now, issued>>
  BY <1>1 DEF Request, LoseWrite, OnTheWay, db
<1>3. /\ one \in Seq(SUBSET Writes)
      /\ Outstanding(one) \subseteq Outstanding(req[p].batches)
      /\ one # <<>>
  BY <1>2, LeftProperties
<1>4. req' = [req EXCEPT ![p] = r]
  BY <1>3 DEF LoseWrite, Proceed
<1>5. r \in Request /\ RequestSound(r)
  <2>1. /\ [req[p] EXCEPT !.batches = one, !.stamp = req[p].stamp] \in Request
        /\ RequestSound([req[p] EXCEPT !.batches = one, !.stamp = req[p].stamp])
    <3> HIDE DEF one
    <3> QED BY <1>1, <1>2, <1>3, WritesLeft
  <2> QED BY <2>1, IdleSound
<1> QED
  <2> HIDE DEF r
  <2> QED BY <1>1, <1>2, <1>4, <1>5, OnlyRequest

LEMMA NextInv == IInv /\ [Next]_vars => IInv'
<1> SUFFICES ASSUME IInv, [Next]_vars PROVE IInv'
  OBVIOUS
<1>0. /\ user \in [Users -> UserRow] /\ perms \subseteq UserPermission
      /\ depts \subseteq Users /\ log \in Seq(LogRow)
      /\ now \in Nat /\ issued \in Nat /\ req \in [Procs -> Request]
  BY DEF IInv, TypeOK
<1>1. ASSUME NEW p \in Procs, NEW c \in Calls, Submit(p, c) PROVE IInv'
  <2> DEFINE r == [Idle EXCEPT !.stage = "rows", !.call = c, !.awaiting = Who]
  <2>1. /\ req' = [req EXCEPT ![p] = r] /\ issued' = issued + 1
        /\ UNCHANGED <<user, perms, depts, log, now>>
    BY <1>1 DEF Submit, db
  <2>2. r \in Request /\ RequestSound(r)
    BY SubmittedRequest
  <2>3. now' \in Nat /\ issued' \in Nat
    BY <1>0, <2>1
  <2>4. UNCHANGED <<user, perms, depts, log>>
    BY <2>1
  <2> QED
    <3> HIDE DEF r
    <3> QED BY <2>1, <2>2, <2>3, <2>4, OnlyRequest
<1>2. ASSUME NEW p \in Procs, Step(p) PROVE IInv'
  BY <1>2, ReadInv, DecisionInv, WriteInv DEF Step
<1>3. ASSUME NEW p \in Procs, Fail(p) PROVE IInv'
  BY <1>3, DecisionInv, LoseWriteInv DEF Fail
<1>4. ASSUME NEW g \in Grants, GivePermission(g) PROVE IInv'
  <2>1. /\ perms' = perms \cup {g}
        /\ UNCHANGED <<user, depts, log, now, req, issued>>
    BY <1>4 DEF GivePermission
  <2>2. g \in UserPermission
    BY DisciplineAssumption
  <2> QED BY <1>0, <2>1, <2>2 DEF IInv, TypeOK, StaysOnTrack
<1>5. CASE Tick
  <2>1. /\ now' = now + 1 /\ UNCHANGED <<user, perms, depts, log, req, issued>>
    BY <1>5 DEF Tick, db
  <2> QED BY <1>0, <2>1 DEF IInv, TypeOK, StaysOnTrack
<1>6. CASE UNCHANGED vars
  BY <1>6 DEF vars, db, IInv, TypeOK, StaysOnTrack
<1> QED
  BY <1>1, <1>2, <1>3, <1>4, <1>5, <1>6 DEF Next
-----------------------------------------------------------------------------
LEMMA Invariance == Spec => []IInv
<1>1. Init => IInv
  BY InitInv
<1>2. IInv /\ [Next]_vars => IInv'
  BY NextInv
<1> QED
  BY <1>1, <1>2, PTL DEF Spec

(***************************************************************************)
(* Every table keeps its shape and advNum stays within 0..2, although      *)
(* warnUser checks the counter in one query and writes it in another.      *)
(***************************************************************************)
THEOREM TypeCorrect == Spec => []TypeOK
<1>1. IInv => TypeOK
  BY DEF IInv
<1> QED
  BY <1>1, Invariance, PTL

(***************************************************************************)
(* No interleaving of promotions, demotions, firings and warnings moves a  *)
(* member to the other ladder.                                             *)
(***************************************************************************)
THEOREM NeverChangesLadder == Spec => []StaysOnTrack
<1>1. IInv => StaysOnTrack
  BY DEF IInv
<1> QED
  BY <1>1, Invariance, PTL
=============================================================================
