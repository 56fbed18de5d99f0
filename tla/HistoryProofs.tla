---------------------------- MODULE HistoryProofs ----------------------------
(***************************************************************************)
(* What the history, the counter of warnings and the table of permissions  *)
(* say of a member whatever races with whatever: first that the warnings   *)
(* counted are in the history, whichever queries fail, then what the       *)
(* writes of a request, which are separate queries, leave behind.          *)
(***************************************************************************)
EXTENDS DisciplineProofs, FiniteSetTheorems

(***************************************************************************)
(* EveryWarningIsLogged, for any number of members and requests, every     *)
(* interleaving and every failure of a query.  Nothing deletes a row of    *)
(* the history, so a count of warnings only grows; what has to be shown is *)
(* that a request which is going to raise advNum has its own row written   *)
(* by then, on top of those that back the advNum it has read.              *)
(***************************************************************************)

\* What a request on a member with n warnings in the history carries with it.
BackedBy(r, n) ==
    LET adv == r.row["target"].advNum IN
    /\ adv <= n
    /\ r.stage # "writes" => r.batches = <<>>
    /\ r.call.op = "warn" /\ adv # 2 /\ r.batches # <<>> =>
          \/ r.batches = <<{"warning"}, {"update"}>>
          \/ r.batches = <<{"update"}>> /\ adv + 1 <= n

Warnings(rows, u) == Cardinality(WarningRows(rows, u))

\* `others' are the warnings of each member of which someone else owes the row.
Backing(rows, others, u) ==
    Warnings(rows, u) + (IF u \in Users THEN others[u] ELSE 0)

Covered(others) == \A u \in Users : user[u].advNum <= Backing(log, others, u)

WInv(others) ==
    /\ IInv
    /\ Covered(others)
    /\ \A p \in Procs : BackedBy(req[p], Backing(log, others, req[p].call.target))

NoOthers == [u \in Users |-> 0]
-----------------------------------------------------------------------------
(* Counting the warnings of a member in a history.                         *)
LEMMA WarningRowsFinite ==
    ASSUME NEW rows \in Seq(LogRow), NEW u
    PROVE  /\ IsFiniteSet(WarningRows(rows, u))
           /\ Cardinality(WarningRows(rows, u)) \in Nat
<1>1. DOMAIN rows = 1..Len(rows) /\ Len(rows) \in Nat
  BY LenProperties
<1>2. IsFiniteSet(DOMAIN rows)
  BY <1>1, FS_Interval
<1>3. WarningRows(rows, u) \in SUBSET (DOMAIN rows)
  BY DEF WarningRows
<1> QED
  BY <1>2, <1>3, FS_Subset, FS_CardinalityType

LEMMA WarningsKept ==
    ASSUME NEW rows \in Seq(LogRow), NEW later \in Seq(LogRow), NEW u,
           \A i \in DOMAIN rows : /\ i \in DOMAIN later
                                  /\ later[i].target = rows[i].target
                                  /\ later[i].type = rows[i].type
    PROVE  Cardinality(WarningRows(rows, u)) <= Cardinality(WarningRows(later, u))
<1>1. WarningRows(rows, u) \in SUBSET WarningRows(later, u)
  BY DEF WarningRows
<1> QED
  BY <1>1, WarningRowsFinite, FS_Subset

LEMMA WarningAdded ==
    ASSUME NEW rows \in Seq(LogRow), NEW row \in LogRow, row.type = "WARNING"
    PROVE  Cardinality(WarningRows(Append(rows, row), row.target))
              = Cardinality(WarningRows(rows, row.target)) + 1
<1> DEFINE more == Append(rows, row)
           u    == row.target
<1>1. /\ DOMAIN more = 1..(Len(rows) + 1) /\ DOMAIN rows = 1..Len(rows)
      /\ Len(rows) \in Nat
      /\ more[Len(rows) + 1] = row
      /\ \A i \in 1..Len(rows) : more[i] = rows[i]
  BY AppendProperties, LenProperties
<1>2. WarningRows(more, u) = WarningRows(rows, u) \cup {Len(rows) + 1}
  <2> HIDE DEF more
  <2> QED BY <1>1 DEF WarningRows
<1>3. Len(rows) + 1 \notin WarningRows(rows, u)
  BY <1>1 DEF WarningRows
<1> QED
  BY <1>2, <1>3, WarningRowsFinite, FS_AddElement

LEMMA BackingNat ==
    ASSUME NEW rows \in Seq(LogRow), NEW others \in [Users -> Nat], NEW u
    PROVE  Backing(rows, others, u) \in Nat
BY WarningRowsFinite DEF Backing, Warnings
-----------------------------------------------------------------------------
(* What a request carries with it, as it goes on.                          *)
LEMMA IdleBacked ==
    ASSUME NEW n \in Nat
    PROVE  BackedBy(Idle, n)
BY DEF BackedBy, Idle, NoRow, Who

LEMMA BackedByMore ==
    ASSUME NEW r \in Request, NEW n \in Nat, NEW m \in Nat, n <= m, BackedBy(r, n)
    PROVE  BackedBy(r, m)
<1>1. r.row["target"].advNum \in 0..2
  BY DEF Request, UserRow, AdvNums, Who
<1> QED
  BY <1>1 DEF BackedBy

LEMMA TwoBatches ==
    /\ Head(<<{"warning"}, {"update"}>>) = {"warning"}
    /\ Tail(<<{"warning"}, {"update"}>>) = <<{"update"}>>
    /\ Head(<<{"update"}>>) = {"update"} /\ Tail(<<{"update"}>>) = <<>>
    /\ <<{"warning"}, {"update"}>> # <<>> /\ <<{"update"}>> # <<>>
OBVIOUS

\* The request once `batches' is what it has left to write.
Cut(r, batches, stamp) == [r EXCEPT !.batches = batches, !.stamp = stamp]

LEMMA WriteBacked ==
    ASSUME NEW r \in Request, NEW n \in Nat, NEW w, NEW stamp \in Nat,
           BackedBy(r, n), r.stage = "writes", r.batches # <<>>,
           w \in Head(r.batches)
    PROVE  /\ w # "warning" => BackedBy(Cut(r, Left(r.batches, w), stamp), n)
           /\ w = "warning" => BackedBy(Cut(r, Left(r.batches, w), stamp), n + 1)
           /\ Head(r.batches) # {w} =>
                 BackedBy(Cut(r, <<Head(r.batches) \ {w}>>, stamp), n)
           /\ /\ w = "update" /\ r.call.op = "warn"
              /\ r.row["target"].advNum # 2
              => r.row["target"].advNum + 1 <= n
<1>1. r.row["target"].advNum \in 0..2
  BY DEF Request, UserRow, AdvNums, Who
<1>2. ASSUME NEW batches
      PROVE  LET new == Cut(r, batches, stamp)
             IN  /\ new.batches = batches /\ new.call = r.call
                 /\ new.row = r.row /\ new.stage = "writes"
  BY DEF Cut, Request
<1>3. CASE r.call.op = "warn" /\ r.row["target"].advNum # 2
  <2>1. CASE r.batches = <<{"warning"}, {"update"}>>
    <3>1. w = "warning" /\ Head(r.batches) = {w} /\ Left(r.batches, w) = <<{"update"}>>
      BY <2>1, TwoBatches DEF Left
    <3>2. r.row["target"].advNum + 1 <= n + 1
      BY <1>1 DEF BackedBy
    <3>3. BackedBy(Cut(r, <<{"update"}>>, stamp), n + 1)
      BY <1>1, <1>2, <3>2, TwoBatches DEF BackedBy
    <3> QED BY <3>1, <3>3
  <2>2. CASE r.batches = <<{"update"}>> /\ r.row["target"].advNum + 1 <= n
    <3>1. w = "update" /\ Head(r.batches) = {w} /\ Left(r.batches, w) = <<>>
      BY <2>2, TwoBatches DEF Left
    <3>2. BackedBy(Cut(r, <<>>, stamp), n)
      BY <1>2 DEF BackedBy
    <3> QED BY <2>2, <3>1, <3>2
  <2> QED BY <1>3, <2>1, <2>2 DEF BackedBy
<1>4. CASE ~ (r.call.op = "warn" /\ r.row["target"].advNum # 2)
  <2>1. ASSUME NEW batches, NEW m \in {n, n + 1} PROVE BackedBy(Cut(r, batches, stamp), m)
    BY <1>1, <1>2, <1>4 DEF BackedBy
  <2> QED BY <1>4, <2>1
<1> QED
  BY <1>3, <1>4
-----------------------------------------------------------------------------
LEMMA InitWInv == Init => WInv(NoOthers)
<1> SUFFICES ASSUME Init PROVE WInv(NoOthers)
  OBVIOUS
<1>1. IInv /\ log \in Seq(LogRow)
  BY InitInv DEF IInv, TypeOK
<1>2. /\ NoOthers \in [Users -> Nat]
      /\ \A rows \in Seq(LogRow), u \in Users : Backing(rows, NoOthers, u) = Warnings(rows, u)
  BY WarningRowsFinite DEF NoOthers, Backing, Warnings
<1>3. EveryWarningIsLogged
  BY HistoryAssumption DEF Init, EveryWarningIsLogged
<1>4. Covered(NoOthers)
  BY <1>1, <1>2, <1>3 DEF Covered, EveryWarningIsLogged, Warnings
<1>5. ASSUME NEW p \in Procs
      PROVE  BackedBy(req[p], Backing(log, NoOthers, req[p].call.target))
  <2>1. req[p] = Idle
    BY DEF Init
  <2> QED BY <1>1, <1>2, <2>1, IdleBacked, BackingNat
<1> QED
  BY <1>1, <1>4, <1>5 DEF WInv

(* A step that changes one request and neither table.                      *)
LEMMA OnlyBackedRequest ==
    ASSUME NEW others \in [Users -> Nat], WInv(others), IInv', NEW p \in Procs, NEW r,
           req' = [req EXCEPT ![p] = r], UNCHANGED <<user, log>>,
           BackedBy(r, Backing(log, others, r.call.target))
    PROVE  WInv(others)'
<1>1. \A u : Backing(log', others, u) = Backing(log, others, u)
  BY DEF Backing, Warnings
<1>2. \A q \in Procs : req'[q] = IF q = p THEN r ELSE req[q]
  BY DEF WInv, IInv, TypeOK
<1>3. Covered(others)'
  BY DEF WInv, Covered
<1>4. ASSUME NEW q \in Procs
      PROVE  BackedBy(req'[q], Backing(log', others, req'[q].call.target))
  BY <1>1, <1>2 DEF WInv
<1> QED
  BY <1>3, <1>4 DEF WInv

(* Before it writes, a request has sent nothing and holds an advNum that   *)
(* the history backs; the warnings of warnUser are logged before counted.  *)
LEMMA BeforeWrites ==
    ASSUME NEW others \in [Users -> Nat], WInv(others), IInv', NEW p \in Procs,
           \/ \E c \in Calls : Submit(p, c)
           \/ \E who \in Who : ReadRow(p, who) \/ ReadPerms(p, who)
           \/ Admit(p) \/ Issue(p) \/ Refuse(p) \/ FailRead(p)
    PROVE  WInv(others)'
<1> DEFINE n == Backing(log, others, req[p].call.target)
<1>0. /\ req \in [Procs -> Request] /\ req[p] \in Request
      /\ user \in [Users -> UserRow] /\ log \in Seq(LogRow)
      /\ BackedBy(req[p], n)
  BY DEF WInv, IInv, TypeOK
<1>1. \A u : Backing(log, others, u) \in Nat
  BY <1>0, BackingNat
<1>2. ASSUME NEW c \in Calls, Submit(p, c) PROVE WInv(others)'
  <2> DEFINE r == [Idle EXCEPT !.stage = "rows", !.call = c, !.awaiting = Who]
  <2>1. req' = [req EXCEPT ![p] = r] /\ UNCHANGED <<user, log>>
    BY <1>2 DEF Submit, db
  <2>2. r.row = Idle.row /\ r.batches = <<>> /\ r.call = c
    BY DEF Idle
  <2>3. r.row["target"].advNum = 0
    BY <2>2 DEF Idle, NoRow, Who
  <2>4. BackedBy(r, Backing(log, others, r.call.target))
    <3> HIDE DEF r
    <3> QED BY <1>1, <2>2, <2>3 DEF BackedBy
  <2> QED
    <3> HIDE DEF r
    <3> QED BY <2>1, <2>4, OnlyBackedRequest
<1>3. ASSUME NEW who \in Who, ReadRow(p, who) PROVE WInv(others)'
  <2> DEFINE nick == req[p].call[who]
             row  == IF nick \in Users THEN user[nick] ELSE NoRow
             r    == WithRow(req[p], who, row)
  <2>1. /\ req[p].stage = "rows" /\ req' = [req EXCEPT ![p] = r]
        /\ UNCHANGED <<user, log>>
    BY <1>3 DEF ReadRow, db
  <2>2. /\ r.stage = "rows" /\ r.batches = req[p].batches /\ r.call = req[p].call
        /\ r.row = [req[p].row EXCEPT ![who] = row]
    <3> HIDE DEF row
    <3> QED BY <1>0, <2>1 DEF WithRow, Request
  <2>3. r.row["target"] = IF who = "target" THEN row ELSE req[p].row["target"]
    <3> HIDE DEF row
    <3> QED BY <1>0, <2>2 DEF Request, Who
  <2>4. who = "target" => row.advNum <= Backing(log, others, req[p].call.target)
    BY <1>1 DEF WInv, Covered, NoRow
  <2>5. BackedBy(r, Backing(log, others, r.call.target))
    <3> HIDE DEF r, row
    <3> QED BY <1>0, <2>1, <2>2, <2>3, <2>4 DEF BackedBy
  <2> QED
    <3> HIDE DEF r
    <3> QED BY <2>1, <2>5, OnlyBackedRequest
<1>4. ASSUME NEW who \in Who, ReadPerms(p, who) PROVE WInv(others)'
  <2> DEFINE r == WithHeld(req[p], who, PermsOf(req[p].call[who]))
  <2>1. req' = [req EXCEPT ![p] = r] /\ UNCHANGED <<user, log>>
    BY <1>4 DEF ReadPerms, db
  <2>2. /\ r.stage = req[p].stage /\ r.batches = req[p].batches
        /\ r.call = req[p].call /\ r.row = req[p].row
    BY <1>0 DEF WithHeld, Request
  <2>3. BackedBy(r, Backing(log, others, r.call.target))
    <3> HIDE DEF r
    <3> QED BY <1>0, <2>2 DEF BackedBy
  <2> QED
    <3> HIDE DEF r
    <3> QED BY <2>1, <2>3, OnlyBackedRequest
<1>5. CASE Admit(p)
  <2> DEFINE r == [req[p] EXCEPT !.stage = "perms",
                                 !.awaiting = Consulted(req[p].call.op)]
  <2>1. /\ req[p].stage = "rows" /\ req' = [req EXCEPT ![p] = r]
        /\ UNCHANGED <<user, log>>
    BY <1>5 DEF Admit, db
  <2>2. /\ r.stage = "perms" /\ r.batches = req[p].batches
        /\ r.call = req[p].call /\ r.row = req[p].row
    BY <1>0 DEF Request
  <2>3. BackedBy(r, Backing(log, others, r.call.target))
    <3> HIDE DEF r
    <3> QED BY <1>0, <2>1, <2>2 DEF BackedBy
  <2> QED
    <3> HIDE DEF r
    <3> QED BY <2>1, <2>3, OnlyBackedRequest
<1>6. CASE Issue(p)
  <2> DEFINE plan == Plan(req[p].call.op, req[p].row["target"])
             r    == [req[p] EXCEPT !.stage = "writes", !.batches = plan,
                                    !.stamp = now]
  <2>1. req' = [req EXCEPT ![p] = r] /\ UNCHANGED <<user, log>>
    BY <1>6 DEF Issue, db
  <2>2. /\ r.stage = "writes" /\ r.batches = plan
        /\ r.call = req[p].call /\ r.row = req[p].row
    <3> HIDE DEF plan
    <3> QED BY <1>0 DEF Request
  <2>3. req[p].call.op = "warn" /\ req[p].row["target"].advNum # 2 =>
            plan = <<{"warning"}, {"update"}>>
    BY DEF Plan, WarningPlan
  <2>4. BackedBy(r, Backing(log, others, r.call.target))
    <3> HIDE DEF r, plan
    <3> QED BY <1>0, <2>2, <2>3 DEF BackedBy
  <2> QED
    <3> HIDE DEF r
    <3> QED BY <2>1, <2>4, OnlyBackedRequest
<1>7. CASE Refuse(p) \/ FailRead(p)
  <2>1. req' = [req EXCEPT ![p] = Idle] /\ UNCHANGED <<user, log>>
    BY <1>7 DEF Refuse, FailRead, db
  <2> QED BY <1>1, <2>1, IdleBacked, OnlyBackedRequest
<1> QED
  BY <1>2, <1>3, <1>4, <1>5, <1>6, <1>7
-----------------------------------------------------------------------------
(* No write takes a row out of the history, or changes its type or target. *)
LEMMA HistoryKept ==
    ASSUME IInv, NEW p \in Procs, Write(p)
    PROVE  \A i \in DOMAIN log : /\ i \in DOMAIN log'
                                 /\ log'[i].target = log[i].target
                                 /\ log'[i].type = log[i].type
<1>0. log \in Seq(LogRow) /\ DOMAIN log = 1..Len(log) /\ Len(log) \in Nat
  BY DEF IInv, TypeOK
<1>1. ASSUME NEW row, log' = Append(log, row)
      PROVE  \A i \in DOMAIN log : i \in DOMAIN log' /\ log'[i] = log[i]
  BY <1>0, <1>1, AppendProperties
<1>2. CASE UNCHANGED log
  BY <1>2
<1>3. CASE Register(p)
  BY <1>1, <1>3 DEF Register
<1>4. CASE LogWarning(p)
  BY <1>1, <1>4 DEF LogWarning
<1>5. CASE RetireWarnings(p)
  <2> DEFINE row(i) == IF log[i].type = "WARNING" /\ log[i].target = req[p].call.target
                       THEN [log[i] EXCEPT !.isActive = FALSE] ELSE log[i]
  <2>1. log' = [i \in DOMAIN log |-> row(i)]
    BY <1>5 DEF RetireWarnings
  <2>2. ASSUME NEW i \in DOMAIN log
        PROVE  row(i).target = log[i].target /\ row(i).type = log[i].type
    <3>1. log[i] \in LogRow
      BY <1>0
    <3> QED BY <3>1 DEF LogRow
  <2> HIDE DEF row
  <2> QED BY <2>1, <2>2
<1> QED
  BY <1>2, <1>3, <1>4, <1>5
     DEF Write, UpdateUser, DeletePermissions, DeleteRoles

\* What a write on its way leaves of the request.
LEMMA LandedBacked ==
    ASSUME NEW others \in [Users -> Nat], WInv(others), IInv', NEW p \in Procs,
           NEW w, Landed(p, w),
           \A u : Backing(log, others, u) <= Backing(log', others, u),
           w = "warning" =>
              Backing(log', others, req[p].call.target)
                 = Backing(log, others, req[p].call.target) + 1
    PROVE  \A q \in Procs : BackedBy(req'[q], Backing(log', others, req'[q].call.target))
<1> DEFINE r    == req[p]
           u    == r.call.target
           left == Left(r.batches, w)
           time == IF Head(r.batches) = {w} THEN now ELSE r.stamp
           new  == IF left = <<>> THEN Idle
                   ELSE Cut(r, left, time)
<1>1. /\ req \in [Procs -> Request] /\ req' \in [Procs -> Request] /\ r \in Request
      /\ now \in Nat /\ log \in Seq(LogRow) /\ log' \in Seq(LogRow)
      /\ \A q \in Procs : BackedBy(req[q], Backing(log, others, req[q].call.target))
  BY DEF WInv, IInv, TypeOK
<1>2. \A v : Backing(log, others, v) \in Nat /\ Backing(log', others, v) \in Nat
  BY <1>1, BackingNat
<1>3. /\ r.stage = "writes" /\ r.batches # <<>> /\ w \in Head(r.batches)
      /\ time \in Nat
  BY <1>1 DEF Landed, OnTheWay, Request
<1>4. \A q \in Procs : req'[q] = IF q = p THEN new ELSE req[q]
  BY <1>1 DEF Landed, Proceed, Cut
<1>5. BackedBy(new, Backing(log', others, new.call.target))
  <2> DEFINE rest == Cut(r, left, time)
  <2>1. rest \in Request
    <3>1. left \in Seq(SUBSET Writes)
      BY <1>1, <1>3, LeftProperties DEF Request
    <3> HIDE DEF left, time
    <3> QED BY <1>1, <1>3, <3>1 DEF Cut, Request
  <2>2. /\ w # "warning" => BackedBy(rest, Backing(log, others, u))
        /\ w = "warning" => BackedBy(rest, Backing(log, others, u) + 1)
    <3>1. Backing(log, others, u) \in Nat /\ BackedBy(r, Backing(log, others, u))
      BY <1>1, <1>2
    <3> HIDE DEF time
    <3> QED BY <1>1, <1>3, <3>1, WriteBacked
  <2>3. BackedBy(rest, Backing(log', others, u))
    <3> HIDE DEF rest
    <3> QED BY <1>2, <2>1, <2>2, BackedByMore
  <2>4. rest.call = r.call
    <3> HIDE DEF left, time
    <3> QED BY <1>1 DEF Cut, Request
  <2>5. BackedBy(Idle, Backing(log', others, Idle.call.target))
    BY <1>2, IdleBacked
  <2> QED BY <2>3, <2>4, <2>5
<1>6. ASSUME NEW q \in Procs
      PROVE  BackedBy(req'[q], Backing(log', others, req'[q].call.target))
  <2>1. CASE q # p
    <3>1. req'[q] = req[q]
      BY <1>4, <2>1
    <3>2. BackedBy(req[q], Backing(log', others, req[q].call.target))
      BY <1>1, <1>2, BackedByMore
    <3> QED BY <3>1, <3>2
  <2>2. CASE q = p
    BY <1>4, <1>5, <2>2
  <2> QED BY <2>1, <2>2
<1> QED
  BY <1>6

(* The count after a write, as LandedBacked needs it.                      *)
LEMMA WriteCounts ==
    ASSUME NEW others \in [Users -> Nat], IInv, IInv', NEW p \in Procs, Write(p)
    PROVE  \A u : Backing(log, others, u) <= Backing(log', others, u)
<1>1. log \in Seq(LogRow) /\ log' \in Seq(LogRow)
  BY DEF IInv, TypeOK
<1>2. ASSUME NEW u PROVE Warnings(log, u) <= Warnings(log', u)
  BY <1>1, HistoryKept, WarningsKept DEF Warnings
<1>3. ASSUME NEW u PROVE Warnings(log, u) \in Nat /\ Warnings(log', u) \in Nat
  BY <1>1, WarningRowsFinite DEF Warnings
<1> QED
  BY <1>2, <1>3 DEF Backing

LEMMA LogWarningCounts ==
    ASSUME NEW others \in [Users -> Nat], IInv, NEW p \in Procs, LogWarning(p)
    PROVE  Backing(log', others, req[p].call.target)
              = Backing(log, others, req[p].call.target) + 1
<1> DEFINE u == req[p].call.target
<1>1. log \in Seq(LogRow) /\ u \in Users
  BY LandedRequest DEF IInv, TypeOK, LogWarning
<1>2. /\ WarningRow(u) \in LogRow /\ WarningRow(u).type = "WARNING"
      /\ WarningRow(u).target = u
  BY <1>1 DEF WarningRow, LogRow
<1>3. log' = Append(log, WarningRow(u))
  BY DEF LogWarning
<1> HIDE DEF u
<1> QED
  <2>1. Warnings(log', u) = Warnings(log, u) + 1 /\ Warnings(log, u) \in Nat
    BY <1>1, <1>2, <1>3, WarningAdded, WarningRowsFinite DEF Warnings
  <2> QED BY <1>1, <2>1 DEF Backing, u

(* The one action that touches a counter.                                  *)
LEMMA UpdateLogged ==
    ASSUME NEW others \in [Users -> Nat], WInv(others), IInv', NEW p \in Procs, UpdateUser(p)
    PROVE  Covered(others)'
<1> DEFINE r   == req[p]
           u   == r.call.target
           t   == r.row["target"]
           new == Updated(r.call.op, t, user[u], r.stamp)
<1>1. /\ user \in [Users -> UserRow] /\ log \in Seq(LogRow) /\ r \in Request
      /\ u \in Users /\ BackedBy(r, Backing(log, others, u))
      /\ \A v \in Users : user[v].advNum <= Backing(log, others, v)
  BY LandedRequest
     DEF WInv, IInv, TypeOK, UpdateUser, Covered
<1>2. Landed(p, "update") /\ log' = log /\ user' = [user EXCEPT ![u] = new]
  BY DEF UpdateUser
<1>3. r.stage = "writes" /\ r.batches # <<>> /\ "update" \in Head(r.batches)
  BY <1>2 DEF Landed, OnTheWay
<1>4. Backing(log, others, u) \in Nat
  BY <1>1, BackingNat
<1>5. user[u] \in UserRow /\ t \in UserRow /\ r.call.op \in Ops
  BY <1>1 DEF Request, Who, Call
<1>6. new.advNum <= Backing(log, others, u)
  <2>1. CASE r.call.op # "warn"
    <3>1. new.advNum = user[u].advNum
      BY <1>5, <2>1 DEF Updated, Ranked, Expelled, UserRow, Ops
    <3> QED BY <1>1, <3>1
  <2>2. CASE r.call.op = "warn" /\ t.advNum = 2
    <3>1. new.advNum = 0
      BY <1>5, <2>2 DEF Updated, Punished, UserRow
    <3> QED BY <1>4, <3>1
  <2>3. CASE r.call.op = "warn" /\ t.advNum # 2
    <3>1. new.advNum = t.advNum + 1
      BY <1>5, <2>3 DEF Updated, Warned, UserRow
    <3>2. t.advNum + 1 <= Backing(log, others, u)
      <4>1. r.stamp \in Nat
        BY <1>1 DEF Request
      <4> QED BY <1>1, <1>3, <1>4, <2>3, <4>1, WriteBacked
    <3> QED BY <3>1, <3>2
  <2> QED BY <2>1, <2>2, <2>3
<1>7. ASSUME NEW v \in Users PROVE user'[v].advNum <= Backing(log', others, v)
  <2> HIDE DEF new
  <2> QED BY <1>1, <1>2, <1>6
<1> QED
  BY <1>7 DEF Covered

LEMMA WriteWInv ==
    ASSUME NEW others \in [Users -> Nat], WInv(others), IInv', NEW p \in Procs, Write(p)
    PROVE  WInv(others)'
<1>1. IInv /\ \A u : Backing(log, others, u) <= Backing(log', others, u)
  BY WriteCounts DEF WInv
<1>2. PICK w : Landed(p, w) /\ (w = "warning" => LogWarning(p))
  BY DEF Write, UpdateUser, Register, LogWarning, RetireWarnings,
         DeletePermissions, DeleteRoles
<1>3. w = "warning" => Backing(log', others, req[p].call.target)
                          = Backing(log, others, req[p].call.target) + 1
  BY <1>1, <1>2, LogWarningCounts
<1>4. \A q \in Procs : BackedBy(req'[q], Backing(log', others, req'[q].call.target))
  BY <1>1, <1>2, <1>3, LandedBacked
<1>5. Covered(others)'
  <2>1. CASE UpdateUser(p)
    BY <2>1, UpdateLogged
  <2>2. CASE user' = user
    <3>1. /\ log \in Seq(LogRow) /\ log' \in Seq(LogRow)
          /\ user \in [Users -> UserRow]
      BY <1>1 DEF IInv, TypeOK
    <3>2. ASSUME NEW u \in Users PROVE user'[u].advNum <= Backing(log', others, u)
      <4>1. /\ user[u].advNum <= Backing(log, others, u) /\ user[u].advNum \in 0..2
            /\ Backing(log, others, u) \in Nat /\ Backing(log', others, u) \in Nat
        BY <3>1, BackingNat
           DEF WInv, Covered, UserRow, AdvNums
      <4> QED BY <1>1, <2>2, <4>1
    <3> QED BY <3>2 DEF Covered
  <2> QED
    BY <2>1, <2>2 DEF Write, Register, LogWarning, RetireWarnings,
                      DeletePermissions, DeleteRoles
<1> QED
  BY <1>4, <1>5 DEF WInv

LEMMA LostWriteWInv ==
    ASSUME NEW others \in [Users -> Nat], WInv(others), IInv', NEW p \in Procs,
           NEW w \in Writes, LoseWrite(p, w)
    PROVE  WInv(others)'
<1> DEFINE r    == req[p]
           one  == <<Head(r.batches) \ {w}>>
           new  == IF Head(r.batches) = {w} THEN Idle ELSE Cut(r, one, r.stamp)
<1>1. /\ r \in Request /\ log \in Seq(LogRow)
      /\ BackedBy(r, Backing(log, others, r.call.target))
  BY DEF WInv, IInv, TypeOK
<1>2. \A u : Backing(log, others, u) \in Nat
  BY <1>1, BackingNat
<1>3. /\ r.stage = "writes" /\ r.batches # <<>> /\ w \in Head(r.batches)
      /\ r.stamp \in Nat /\ UNCHANGED <<user, log>>
  BY <1>1 DEF LoseWrite, OnTheWay, Request, db
<1>4. req' = [req EXCEPT ![p] = new]
  BY DEF LoseWrite, Proceed, Cut
<1>5. BackedBy(new, Backing(log, others, new.call.target))
  <2>1. CASE Head(r.batches) = {w}
    BY <1>2, <2>1, IdleBacked
  <2>2. CASE Head(r.batches) # {w}
    <3>1. BackedBy(Cut(r, one, r.stamp), Backing(log, others, r.call.target))
      BY <1>1, <1>2, <1>3, <2>2, WriteBacked
    <3>2. Cut(r, one, r.stamp).call = r.call
      <4> HIDE DEF one
      <4> QED BY <1>1 DEF Cut, Request
    <3> QED BY <2>2, <3>1, <3>2
  <2> QED BY <2>1, <2>2
<1> QED
  <2> HIDE DEF new
  <2> QED BY <1>3, <1>4, <1>5, OnlyBackedRequest

LEMMA NextWInv ==
    ASSUME NEW others \in [Users -> Nat], WInv(others), [Next]_vars
    PROVE  WInv(others)'
<1>1. IInv'
  BY NextInv DEF WInv
<1>2. ASSUME NEW p \in Procs, NEW c \in Calls, Submit(p, c) PROVE WInv(others)'
  BY <1>1, <1>2, BeforeWrites
<1>3. ASSUME NEW p \in Procs, Step(p) PROVE WInv(others)'
  BY <1>1, <1>3, BeforeWrites, WriteWInv DEF Step
<1>4. ASSUME NEW p \in Procs, Fail(p) PROVE WInv(others)'
  BY <1>1, <1>4, BeforeWrites, LostWriteWInv DEF Fail
<1>5. CASE UNCHANGED <<user, log, req>>
  BY <1>1, <1>5 DEF WInv, Covered, Backing, Warnings
<1>6. ASSUME NEW g \in Grants, GivePermission(g) PROVE WInv(others)'
  BY <1>5, <1>6 DEF GivePermission
<1>7. CASE Tick
  BY <1>5, <1>7 DEF Tick, db
<1>8. CASE UNCHANGED vars
  BY <1>5, <1>8 DEF vars, db
<1> QED
  BY <1>2, <1>3, <1>4, <1>6, <1>7, <1>8 DEF Next

(***************************************************************************)
(* No warning counts against a member without its row in the history,      *)
(* although warnUser writes the two in two queries, either of which may    *)
(* fail, and counts from a row other requests may have changed meanwhile.  *)
(***************************************************************************)
THEOREM CountedWarningsAreLogged == Spec => []EveryWarningIsLogged
<1>1. Init => WInv(NoOthers)
  BY InitWInv
<1>2. WInv(NoOthers) /\ [Next]_vars => WInv(NoOthers)'
  <2>1. PICK others \in [Users -> Nat] : others = NoOthers
    BY DEF NoOthers
  <2> QED BY <2>1, NextWInv
<1>3. WInv(NoOthers) => EveryWarningIsLogged
  <2>1. ASSUME WInv(NoOthers), NEW u \in Users
        PROVE  user[u].advNum <= Cardinality(WarningRows(log, u))
    <3>1. log \in Seq(LogRow) /\ user[u].advNum <= Backing(log, NoOthers, u)
      BY <2>1 DEF WInv, IInv, TypeOK, Covered
    <3>2. Backing(log, NoOthers, u) = Cardinality(WarningRows(log, u))
      BY <3>1, WarningRowsFinite DEF Backing, NoOthers, Warnings
    <3> QED BY <3>1, <3>2
  <2> QED BY <2>1 DEF EveryWarningIsLogged
<1> QED
  BY <1>1, <1>2, <1>3, PTL DEF Spec
-----------------------------------------------------------------------------
(***************************************************************************)
(* What the history and the table of permissions say of a member whatever  *)
(* races with whatever, as long as no query fails: the history names the   *)
(* role, and a Recruta is left no permission.  The writes that make it so  *)
(* are separate queries; the invariants say which of them a request still  *)
(* owes once another has landed.                                           *)
(***************************************************************************)

\* No write is sent twice.
Once(batches) ==
    \A i, j \in DOMAIN batches : i # j => batches[i] \cap batches[j] = {}

\* What the first check of the handler has left out.
Decided(r) ==
    LET t == r.row["target"] IN
    r.stage \in {"perms", "writes"} =>
        IF r.call.op = "promote" THEN t.roleName # "Recruta" /\ t.isAccountActive
                                 ELSE t.roleName \notin Untouchable(r.call.op)

Tidy(r) == /\ r.stage # "writes" => r.batches = <<>>
           /\ Once(r.batches)
           /\ Decided(r)

TInv == IInv /\ \A p \in Procs : Tidy(req[p])

ToWrite(p) == Outstanding(req[p].batches)
-----------------------------------------------------------------------------
(* What is left once a write has landed: the same sets but for that write. *)
LEMMA LeftShape ==
    ASSUME NEW batches \in Seq(SUBSET Writes), batches # <<>>, NEW w
    PROVE  /\ 1 \in DOMAIN batches /\ Head(batches) = batches[1]
           /\ Head(batches) = {w} =>
                 /\ \A i \in DOMAIN Left(batches, w) :
                       /\ i + 1 \in DOMAIN batches
                       /\ i + 1 # 1 /\ i \in Nat
                       /\ Left(batches, w)[i] = batches[i + 1]
                 /\ \A i \in DOMAIN batches : i # 1 =>
                       /\ i - 1 \in DOMAIN Left(batches, w)
                       /\ Left(batches, w)[i - 1] = batches[i]
           /\ Head(batches) # {w} =>
                 /\ DOMAIN Left(batches, w) = DOMAIN batches
                 /\ \A i \in DOMAIN batches :
                       Left(batches, w)[i] = IF i = 1 THEN batches[1] \ {w} ELSE batches[i]
<1> DEFINE one == <<Head(batches) \ {w}>>
<1>1. /\ Head(batches) \in SUBSET Writes /\ Head(batches) = batches[1]
      /\ Tail(batches) \in Seq(SUBSET Writes)
      /\ Len(Tail(batches)) = Len(batches) - 1
      /\ \A i \in 1..Len(Tail(batches)) : Tail(batches)[i] = batches[i + 1]
      /\ Len(batches) \in Nat \ {0} /\ DOMAIN batches = 1..Len(batches)
      /\ DOMAIN Tail(batches) = 1..Len(Tail(batches))
  BY HeadTailProperties, EmptySeq, LenProperties
<1>2. /\ one \in Seq(SUBSET Writes) /\ Len(one) = 1 /\ one[1] = Head(batches) \ {w}
  BY <1>1
<1>3. CASE Head(batches) = {w}
  <2> DEFINE left == Left(batches, w)
             n    == Len(batches)
  <2>1. left = Tail(batches)
    BY <1>3 DEF Left
  <2>2. /\ n \in Nat \ {0} /\ DOMAIN batches = 1..n /\ DOMAIN left = 1..(n - 1)
        /\ \A i \in 1..(n - 1) : left[i] = batches[i + 1]
    BY <1>1, <2>1
  <2> HIDE DEF left, n
  <2>3. \A i \in DOMAIN left : /\ i + 1 \in DOMAIN batches
                               /\ i + 1 # 1 /\ i \in Nat
                               /\ left[i] = batches[i + 1]
    BY <2>2
  <2>4. ASSUME NEW i \in DOMAIN batches, i # 1
        PROVE  i - 1 \in DOMAIN left /\ left[i - 1] = batches[i]
    <3>1. i - 1 \in 1..(n - 1) /\ (i - 1) + 1 = i
      BY <2>2, <2>4
    <3>2. left[i - 1] = batches[(i - 1) + 1]
      BY <2>2, <3>1
    <3> QED BY <2>2, <3>1, <3>2
  <2>5. 1 \in DOMAIN batches
    BY <2>2
  <2> QED BY <1>1, <1>3, <2>3, <2>4, <2>5 DEF left
<1>4. CASE Head(batches) # {w}
  <2>1. Left(batches, w) = one \o Tail(batches)
    BY <1>4 DEF Left
  <2>2. DOMAIN (one \o Tail(batches)) = 1..Len(batches)
    BY <1>1, <1>2, ConcatProperties, LenProperties
  <2>3. \A i \in 1..Len(batches) :
           (one \o Tail(batches))[i] = IF i <= 1 THEN one[i] ELSE Tail(batches)[i - 1]
    BY <1>1, <1>2, ConcatProperties
  <2> DEFINE both == one \o Tail(batches)
             n    == Len(batches)
  <2>4. ASSUME NEW i \in 1..n
        PROVE  both[i] = IF i = 1 THEN batches[1] \ {w} ELSE batches[i]
    <3>1. CASE i = 1
      BY <1>1, <1>2, <2>3, <3>1
    <3>2. CASE i # 1
      <4>1. both[i] = Tail(batches)[i - 1]
        BY <2>3, <3>2
      <4>2. i - 1 \in 1..Len(Tail(batches)) /\ (i - 1) + 1 = i
        BY <1>1, <3>2
      <4>3. Tail(batches)[i - 1] = batches[(i - 1) + 1]
        BY <1>1, <4>2
      <4> QED BY <3>2, <4>1, <4>2, <4>3
    <3> QED BY <3>1, <3>2
  <2>5. 1 \in DOMAIN batches /\ DOMAIN both = DOMAIN batches /\ DOMAIN batches = 1..n
    BY <1>1, <2>2
  <2> HIDE DEF both
  <2> QED BY <1>1, <1>4, <2>1, <2>4, <2>5 DEF both
<1> QED BY <1>3, <1>4

LEMMA LeftOnce ==
    ASSUME NEW batches \in Seq(SUBSET Writes), batches # <<>>,
           NEW w \in Head(batches), Once(batches)
    PROVE  /\ Once(Left(batches, w))
           /\ Outstanding(Left(batches, w)) = Outstanding(batches) \ {w}
<1> DEFINE left == Left(batches, w)
<1>0. 1 \in DOMAIN batches /\ w \in batches[1]
  BY LeftShape
<1>1. CASE Head(batches) = {w}
  <2>0. /\ batches[1] = {w}
        /\ \A i \in DOMAIN left : /\ i + 1 \in DOMAIN batches
                                  /\ i + 1 # 1 /\ i \in Nat
                                  /\ left[i] = batches[i + 1]
        /\ \A i \in DOMAIN batches : i # 1 => /\ i - 1 \in DOMAIN left
                                              /\ left[i - 1] = batches[i]
    <3>1. Head(batches) = batches[1]
      BY LeftShape
    <3>2. \A i \in DOMAIN left : /\ i + 1 \in DOMAIN batches
                                 /\ i + 1 # 1 /\ i \in Nat
                                 /\ left[i] = batches[i + 1]
      BY <1>1, LeftShape, Zenon
    <3>3. \A i \in DOMAIN batches : i # 1 => /\ i - 1 \in DOMAIN left
                                             /\ left[i - 1] = batches[i]
      BY <1>1, LeftShape, Zenon
    <3> QED BY <1>1, <3>1, <3>2, <3>3
  <2> HIDE DEF left
  <2>1. Once(left)
    <3> SUFFICES ASSUME NEW i \in DOMAIN left, NEW j \in DOMAIN left, i # j
                 PROVE  left[i] \cap left[j] = {}
      BY DEF Once
    <3>1. /\ i + 1 \in DOMAIN batches /\ j + 1 \in DOMAIN batches
          /\ i \in Nat /\ j \in Nat
          /\ left[i] = batches[i + 1] /\ left[j] = batches[j + 1]
      BY <2>0
    <3>2. i + 1 # j + 1
      BY <3>1
    <3> QED BY <3>1, <3>2 DEF Once
  <2>2. ASSUME NEW x \in Outstanding(left) PROVE x \in Outstanding(batches) \ {w}
    <3>1. PICK i \in DOMAIN left : x \in left[i]
      BY DEF Outstanding
    <3>2. /\ i + 1 \in DOMAIN batches /\ i + 1 # 1
          /\ x \in batches[i + 1]
      BY <2>0, <3>1
    <3>3. batches[i + 1] \cap batches[1] = {}
      BY <1>0, <3>2, Zenon DEF Once
    <3>4. x # w
      BY <1>0, <3>2, <3>3
    <3> QED BY <3>2, <3>4, Zenon DEF Outstanding
  <2>3. ASSUME NEW x \in Outstanding(batches), x # w PROVE x \in Outstanding(left)
    <3>1. PICK i \in DOMAIN batches : x \in batches[i]
      BY DEF Outstanding
    <3> QED BY <2>0, <2>3, <3>1 DEF Outstanding
  <2> QED BY <2>1, <2>2, <2>3 DEF left
<1>2. CASE Head(batches) # {w}
  <2>0. /\ DOMAIN left = DOMAIN batches
        /\ \A i \in DOMAIN batches :
              left[i] = IF i = 1 THEN batches[1] \ {w} ELSE batches[i]
    BY <1>2, LeftShape
  <2> HIDE DEF left
  <2>1. Once(left)
    BY <2>0 DEF Once
  <2>2. Outstanding(left) = Outstanding(batches) \ {w}
    BY <1>0, <2>0 DEF Once, Outstanding
  <2> QED BY <2>1, <2>2 DEF left
<1> QED BY <1>1, <1>2

(* Every plan names a write once.                                          *)
LEMMA PlanOnce ==
    ASSUME NEW op \in Ops, NEW t
    PROVE  Once(Plan(op, t))
BY DEF Once, Plan, DemotionPlan, WarningPlan, Change, Dismissal, Ops

LEMMA IdleTidy == Tidy(Idle) /\ Outstanding(Idle.batches) = {}
BY DEF Tidy, Idle, Once, Decided, Outstanding
-----------------------------------------------------------------------------
(***************************************************************************)
(* How a request goes on.                                                  *)
(***************************************************************************)
LEMMA LandedTidy ==
    ASSUME TInv, NEW p \in Procs, NEW w, Landed(p, w)
    PROVE  /\ \A q \in Procs \ {p} : req'[q] = req[q]
           /\ req[p].stage = "writes" /\ req[p].call.target \in Users
           /\ w \in ToWrite(p) /\ ToWrite(p)' = ToWrite(p) \ {w}
           /\ \/ req'[p] = Idle
              \/ /\ req'[p].stage = "writes" /\ req'[p].call = req[p].call
                 /\ req'[p].row = req[p].row
           /\ Tidy(req'[p])
<1> DEFINE left == Left(req[p].batches, w)
           time == IF Head(req[p].batches) = {w} THEN now ELSE req[p].stamp
<1>1. /\ req \in [Procs -> Request] /\ req[p] \in Request /\ Tidy(req[p]) /\ IInv
  BY DEF TInv, IInv, TypeOK
<1>2. /\ req[p].batches \in Seq(SUBSET Writes) /\ req[p].batches # <<>>
      /\ w \in Head(req[p].batches) /\ req[p].stage = "writes"
  BY <1>1 DEF Landed, OnTheWay, Request
<1>3. /\ Once(left) /\ Outstanding(left) = ToWrite(p) \ {w}
      /\ w \in ToWrite(p)
  BY <1>1, <1>2, LeftOnce, LeftProperties DEF Tidy, ToWrite
<1>4. req' = [req EXCEPT ![p] = IF left = <<>> THEN Idle ELSE Cut(req[p], left, time)]
  BY DEF Landed, Proceed, Cut
<1>5. /\ Cut(req[p], left, time).batches = left
      /\ Cut(req[p], left, time).stage = "writes"
      /\ Cut(req[p], left, time).call = req[p].call
      /\ Cut(req[p], left, time).row = req[p].row
  <2> HIDE DEF left, time
  <2> QED BY <1>1, <1>2 DEF Cut, Request
<1> HIDE DEF left, time
<1>6. /\ \A q \in Procs \ {p} : req'[q] = req[q]
      /\ req'[p] = IF left = <<>> THEN Idle ELSE Cut(req[p], left, time)
  BY <1>1, <1>4
<1>7. req[p].call.target \in Users
  BY <1>1, LandedRequest
<1>8. CASE left = <<>>
  <2>1. ToWrite(p)' = {} /\ Outstanding(left) = {}
    BY <1>6, <1>8, IdleTidy DEF ToWrite, Outstanding
  <2> QED BY <1>2, <1>3, <1>6, <1>7, <1>8, <2>1, IdleTidy
<1>9. CASE left # <<>>
  <2>1. ToWrite(p)' = Outstanding(left)
    BY <1>5, <1>6, <1>9 DEF ToWrite
  <2>2. Tidy(req'[p])
    BY <1>1, <1>2, <1>3, <1>5, <1>6, <1>9 DEF Tidy, Decided
  <2> QED BY <1>2, <1>3, <1>5, <1>6, <1>7, <1>9, <2>1, <2>2
<1> QED BY <1>8, <1>9

LEMMA LostTidy ==
    ASSUME TInv, NEW p \in Procs, NEW w \in Writes, LoseWrite(p, w)
    PROVE  /\ \A q \in Procs \ {p} : req'[q] = req[q]
           /\ req[p].stage = "writes"
           /\ ToWrite(p)' \subseteq ToWrite(p) \ {w}
           /\ \/ req'[p] = Idle
              \/ /\ req'[p].stage = "writes" /\ req'[p].call = req[p].call
                 /\ req'[p].row = req[p].row
           /\ Tidy(req'[p])
<1> DEFINE one == <<Head(req[p].batches) \ {w}>>
           r   == IF Head(req[p].batches) = {w} THEN Idle
                  ELSE Cut(req[p], one, req[p].stamp)
<1>1. /\ req \in [Procs -> Request] /\ req[p] \in Request /\ Tidy(req[p])
  BY DEF TInv, IInv, TypeOK
<1>2. /\ req[p].batches \in Seq(SUBSET Writes) /\ req[p].batches # <<>>
      /\ w \in Head(req[p].batches) /\ req[p].stage = "writes"
  BY <1>1 DEF LoseWrite, OnTheWay, Request
<1>3. /\ Outstanding(one) \subseteq ToWrite(p) /\ w \notin Outstanding(one)
      /\ Once(one)
  <2>1. Outstanding(one) \subseteq ToWrite(p)
    BY <1>2, LeftProperties DEF ToWrite
  <2>2. DOMAIN one = {1} /\ one[1] = Head(req[p].batches) \ {w}
    OBVIOUS
  <2> HIDE DEF one
  <2> QED BY <2>1, <2>2 DEF Outstanding, Once
<1>4. req' = [req EXCEPT ![p] = r]
  BY <1>2 DEF LoseWrite, Proceed, Cut
<1>5. /\ Cut(req[p], one, req[p].stamp).batches = one
      /\ Cut(req[p], one, req[p].stamp).stage = "writes"
      /\ Cut(req[p], one, req[p].stamp).call = req[p].call
      /\ Cut(req[p], one, req[p].stamp).row = req[p].row
  <2> HIDE DEF one
  <2> QED BY <1>1, <1>2 DEF Cut, Request
<1> HIDE DEF one
<1>6. (\A q \in Procs \ {p} : req'[q] = req[q]) /\ req'[p] = r
  BY <1>1, <1>4
<1>7. CASE Head(req[p].batches) = {w}
  BY <1>2, <1>6, <1>7, IdleTidy DEF ToWrite
<1>8. CASE Head(req[p].batches) # {w}
  BY <1>1, <1>2, <1>3, <1>5, <1>6, <1>8 DEF Tidy, Decided, ToWrite
<1> QED BY <1>7, <1>8

(* Before its writes, a request is not yet owing any.                      *)
LEMMA ReadTidy ==
    ASSUME TInv, NEW p \in Procs,
           \/ \E c \in Calls : Submit(p, c)
           \/ \E who \in Who : ReadRow(p, who) \/ ReadPerms(p, who)
           \/ Admit(p) \/ Refuse(p) \/ FailRead(p)
    PROVE  /\ \A q \in Procs \ {p} : req'[q] = req[q]
           /\ ToWrite(p) = {} /\ ToWrite(p)' = {}
           /\ Tidy(req'[p]) /\ req'[p].stage # "writes"
           /\ UNCHANGED <<user, perms, depts, log, setting>>
<1>0. /\ req \in [Procs -> Request] /\ req[p] \in Request /\ Tidy(req[p])
  BY DEF TInv, IInv, TypeOK
<1>1. UNCHANGED <<user, perms, depts, log, setting>>
  BY DEF Submit, ReadRow, ReadPerms, Admit, Refuse, FailRead, db
<1>2. Outstanding(<<>>) = {} /\ Once(<<>>)
  BY DEF Outstanding, Once
<1>3. req[p].stage # "writes"
  BY DEF Submit, Busy, ReadRow, ReadPerms, Admit, Refuse, FailRead
<1>4. req[p].batches = <<>> /\ ToWrite(p) = {}
  BY <1>0, <1>2, <1>3 DEF Tidy, ToWrite
<1>5. ASSUME NEW r, req' = [req EXCEPT ![p] = r], r.batches = <<>>,
             r.stage # "writes", Decided(r)
      PROVE  /\ \A q \in Procs \ {p} : req'[q] = req[q]
             /\ ToWrite(p)' = {} /\ Tidy(req'[p]) /\ req'[p].stage # "writes"
  BY <1>0, <1>2, <1>5 DEF Tidy, ToWrite
<1>6. ASSUME NEW c \in Calls, Submit(p, c)
      PROVE  /\ \A q \in Procs \ {p} : req'[q] = req[q]
             /\ ToWrite(p)' = {} /\ Tidy(req'[p]) /\ req'[p].stage # "writes"
  <2> DEFINE r == [Idle EXCEPT !.stage = "rows", !.call = c, !.awaiting = Who]
  <2>1. req' = [req EXCEPT ![p] = r] /\ r.batches = <<>> /\ r.stage = "rows"
    BY <1>6 DEF Submit, Idle
  <2> HIDE DEF r
  <2> QED BY <1>5, <2>1 DEF Decided
<1>7. ASSUME NEW who \in Who, ReadRow(p, who)
      PROVE  /\ \A q \in Procs \ {p} : req'[q] = req[q]
             /\ ToWrite(p)' = {} /\ Tidy(req'[p]) /\ req'[p].stage # "writes"
  <2> DEFINE nick == req[p].call[who]
             row  == IF nick \in Users THEN user[nick] ELSE NoRow
             r    == WithRow(req[p], who, row)
  <2>1. req' = [req EXCEPT ![p] = r] /\ req[p].stage = "rows"
    BY <1>7 DEF ReadRow
  <2>2. r.batches = <<>> /\ r.stage = "rows"
    <3> HIDE DEF row
    <3> QED BY <1>0, <1>4, <2>1 DEF WithRow, Request
  <2> HIDE DEF r
  <2> QED BY <1>5, <2>1, <2>2 DEF Decided
<1>8. ASSUME NEW who \in Who, ReadPerms(p, who)
      PROVE  /\ \A q \in Procs \ {p} : req'[q] = req[q]
             /\ ToWrite(p)' = {} /\ Tidy(req'[p]) /\ req'[p].stage # "writes"
  <2> DEFINE r == WithHeld(req[p], who, PermsOf(req[p].call[who]))
  <2>1. req' = [req EXCEPT ![p] = r] /\ req[p].stage = "perms"
    BY <1>8 DEF ReadPerms
  <2>2. /\ r.batches = <<>> /\ r.stage = req[p].stage
        /\ r.call = req[p].call /\ r.row = req[p].row
    BY <1>0, <1>4, <2>1 DEF WithHeld, Request
  <2> HIDE DEF r
  <2> QED BY <1>0, <1>5, <2>1, <2>2 DEF Decided, Tidy
<1>9. CASE Admit(p)
  <2> DEFINE r == [req[p] EXCEPT !.stage = "perms",
                                 !.awaiting = Consulted(req[p].call.op)]
  <2>1. req' = [req EXCEPT ![p] = r] /\ RowsAdmit(p)
    BY <1>9 DEF Admit
  <2>2. /\ r.batches = <<>> /\ r.stage = "perms"
        /\ r.call = req[p].call /\ r.row = req[p].row
    BY <1>0, <1>4 DEF Request
  <2> HIDE DEF r
  <2>3. Decided(r)
    BY <2>1, <2>2 DEF Decided, RowsAdmit, Admitted, MayPromote, MayPunish
  <2> QED BY <1>5, <2>1, <2>2, <2>3, <1>1, <1>4
<1>10. CASE Refuse(p) \/ FailRead(p)
  <2>1. req' = [req EXCEPT ![p] = Idle]
    BY <1>10 DEF Refuse, FailRead
  <2>2. Idle.batches = <<>> /\ Idle.stage = "idle" /\ Decided(Idle)
    BY DEF Idle, Decided
  <2> QED BY <1>1, <1>4, <1>5, <2>1, <2>2
<1> QED BY <1>1, <1>4, <1>6, <1>7, <1>8, <1>9, <1>10

LEMMA IssueTidy ==
    ASSUME TInv, NEW p \in Procs, Issue(p)
    PROVE  /\ \A q \in Procs \ {p} : req'[q] = req[q]
           /\ ToWrite(p) = {}
           /\ req'[p].batches = Plan(req[p].call.op, req[p].row["target"])
           /\ req'[p].stage = "writes" /\ req[p].stage = "perms"
           /\ req'[p].call = req[p].call /\ req'[p].row = req[p].row
           /\ req[p].call.op \in Ops /\ PermsPermit(p)
           /\ Tidy(req'[p])
           /\ UNCHANGED <<user, perms, depts, log, setting>>
<1> DEFINE plan == Plan(req[p].call.op, req[p].row["target"])
           r    == [req[p] EXCEPT !.stage = "writes", !.batches = plan,
                                  !.stamp = now]
<1>1. /\ req \in [Procs -> Request] /\ req[p] \in Request /\ Tidy(req[p])
  BY DEF TInv, IInv, TypeOK
<1>2. /\ req' = [req EXCEPT ![p] = r] /\ req[p].stage = "perms" /\ PermsPermit(p)
      /\ UNCHANGED <<user, perms, depts, log, setting>>
  BY DEF Issue, db
<1>3. req[p].call.op \in Ops /\ Once(plan)
  BY <1>1, PlanOnce DEF Request, Call
<1>4. /\ r.batches = plan /\ r.stage = "writes"
      /\ r.call = req[p].call /\ r.row = req[p].row
  <2> HIDE DEF plan
  <2> QED BY <1>1 DEF Request
<1>5. ToWrite(p) = {}
  BY <1>1, <1>2 DEF Tidy, ToWrite, Outstanding
<1> HIDE DEF r, plan
<1>6. req'[p] = r /\ \A q \in Procs \ {p} : req'[q] = req[q]
  BY <1>1, <1>2
<1>7. Tidy(r)
  BY <1>1, <1>2, <1>3, <1>4 DEF Tidy, Decided
<1> QED BY <1>2, <1>3, <1>4, <1>5, <1>6, <1>7 DEF plan

(* A write that lands changes only the table it is about.                  *)
WriteOf(p, w) ==
    /\ Landed(p, w)
    /\ \/ w = "update" /\ UpdateUser(p) /\ UNCHANGED <<perms, log>>
       \/ w = "register" /\ Register(p) /\ UNCHANGED <<user, perms>>
       \/ w = "warning" /\ LogWarning(p) /\ UNCHANGED <<user, perms>>
       \/ w = "retireWarnings" /\ RetireWarnings(p) /\ UNCHANGED <<user, perms>>
       \/ /\ w \in {"deleteCourses", "deleteCFO", "deletePermissions"}
          /\ DeletePermissions(p, w) /\ UNCHANGED <<user, log>>
       \/ w = "deleteRoles" /\ DeleteRoles(p) /\ UNCHANGED <<user, perms, log>>

LEMMA WriteCases ==
    ASSUME NEW p \in Procs, Write(p)
    PROVE  /\ UNCHANGED setting
           /\ \E w \in Writes : WriteOf(p, w)
<1>1. ASSUME NEW w \in {"deleteCourses", "deleteCFO", "deletePermissions"},
             DeletePermissions(p, w)
      PROVE  WriteOf(p, w) /\ w \in Writes /\ UNCHANGED setting
  BY <1>1 DEF DeletePermissions, Writes, WriteOf
<1>2. CASE UpdateUser(p)
  BY <1>2 DEF UpdateUser, Writes, WriteOf
<1>3. CASE Register(p)
  BY <1>3 DEF Register, Writes, WriteOf
<1>4. CASE LogWarning(p)
  BY <1>4 DEF LogWarning, Writes, WriteOf
<1>5. CASE RetireWarnings(p)
  BY <1>5 DEF RetireWarnings, Writes, WriteOf
<1>6. CASE DeleteRoles(p)
  BY <1>6 DEF DeleteRoles, Writes, WriteOf
<1> QED
  BY <1>1, <1>2, <1>3, <1>4, <1>5, <1>6 DEF Write

(* The steps that reach no request.                                        *)
OtherStep == (\E g \in Grants : GivePermission(g)) \/ Tick \/ UNCHANGED vars

LEMMA OtherKeeps ==
    ASSUME OtherStep
    PROVE  UNCHANGED <<user, depts, log, req, setting>>
BY DEF OtherStep, GivePermission, Tick, vars, db

LEMMA SettingStays == [Next]_vars => UNCHANGED setting
BY DEF Next, Step, Fail, vars, Submit, ReadRow, ReadPerms, Admit, Issue, Refuse,
       Write, UpdateUser, Register, LogWarning, RetireWarnings,
       DeletePermissions, DeleteRoles, FailRead, LoseWrite, GivePermission, Tick

LEMMA InitTidy == Init => TInv
<1> SUFFICES ASSUME Init PROVE TInv
  OBVIOUS
<1>1. \A p \in Procs : req[p] = Idle
  BY DEF Init
<1> QED
  BY <1>1, InitInv, IdleTidy DEF TInv

LEMMA NextTidy == TInv /\ [Next]_vars => TInv'
<1> SUFFICES ASSUME TInv, [Next]_vars PROVE TInv'
  OBVIOUS
<1>0. IInv'
  BY NextInv DEF TInv
<1>1. ASSUME NEW p \in Procs, \A q \in Procs \ {p} : req'[q] = req[q], Tidy(req'[p])
      PROVE  TInv'
  BY <1>0, <1>1 DEF TInv
<1>2. ASSUME NEW p \in Procs, Write(p) PROVE TInv'
  BY <1>1, <1>2, WriteCases, LandedTidy DEF WriteOf
<1>3. ASSUME NEW p \in Procs,
             \/ \E c \in Calls : Submit(p, c)
             \/ \E who \in Who : ReadRow(p, who) \/ ReadPerms(p, who)
             \/ Admit(p) \/ Refuse(p) \/ FailRead(p)
      PROVE  TInv'
  BY <1>1, <1>3, ReadTidy
<1>4. ASSUME NEW p \in Procs, Issue(p) PROVE TInv'
  BY <1>1, <1>4, IssueTidy
<1>5. ASSUME NEW p \in Procs, NEW w \in Writes, LoseWrite(p, w) PROVE TInv'
  BY <1>1, <1>5, LostTidy
<1>6. CASE OtherStep
  BY <1>0, <1>6, OtherKeeps DEF TInv
<1> QED
  BY <1>2, <1>3, <1>4, <1>5, <1>6 DEF Next, Step, Fail, OtherStep
-----------------------------------------------------------------------------
(***************************************************************************)
(* The role a member holds and the roles the history names.                *)
(***************************************************************************)
ChangesRole(r) == ~ (r.call.op = "warn" /\ r.row["target"].advNum # 2)

WrittenRole(r) == NewRole(r.call.op, r.row["target"])

\* A request that still has to change the role has the row about it still to
\* write, or has written it.
RowDue(r) ==
    "update" \in Outstanding(r.batches) /\ ChangesRole(r) =>
        \/ "register" \in Outstanding(r.batches)
        \/ WrittenRole(r) \in LoggedRoles(r.call.target)

\* `others' are the roles of which someone else owes the row.
HistoryNamed(others) ==
    /\ \A u \in Users :
          user[u].roleName \in LoggedRoles(u) \cup PendingRoles(u) \cup others[u]
    /\ \A p \in Procs : RowDue(req[p])

Nobody == [u \in Users |-> {}]

HInv == TInv /\ (~ setting.faults => HistoryNamed(Nobody))

LEMMA InitHInv == Init => HInv
<1> SUFFICES ASSUME Init PROVE HInv
  OBVIOUS
<1>1. \A u \in Users : user[u].roleName \in LoggedRoles(u)
  BY StartAssumption DEF Init, LoggedRoles
<1>2. \A p \in Procs : RowDue(req[p])
  BY IdleTidy DEF Init, RowDue
<1> QED
  BY <1>1, <1>2, InitTidy DEF HInv, HistoryNamed

(* The history forgets no role.                                            *)
LEMMA NamesAdded ==
    ASSUME NEW rows \in Seq(LogRow), NEW row \in LogRow, NEW u
    PROVE  /\ NamedRoles(rows, u) \subseteq NamedRoles(Append(rows, row), u)
           /\ row.newRole \in NamedRoles(Append(rows, row), row.target)
<1> DEFINE more == Append(rows, row)
<1>1. /\ DOMAIN more = 1..(Len(rows) + 1) /\ DOMAIN rows = 1..Len(rows)
      /\ Len(rows) \in Nat
      /\ more[Len(rows) + 1] = row
      /\ \A i \in 1..Len(rows) : more[i] = rows[i]
  BY AppendProperties, LenProperties
<1>2. \A i \in DOMAIN rows : i \in DOMAIN more /\ more[i] = rows[i]
  BY <1>1
<1>3. Len(rows) + 1 \in DOMAIN more
  BY <1>1
<1> HIDE DEF more
<1>4. NamedRoles(rows, u) \subseteq NamedRoles(more, u)
  BY <1>2 DEF NamedRoles
<1>5. row.newRole \in NamedRoles(more, row.target)
  BY <1>1, <1>3 DEF NamedRoles
<1> QED
  BY <1>4, <1>5 DEF more

(* The row a change of role adds to the history.                           *)
LEMMA RowRegistered ==
    ASSUME IInv, NEW p \in Procs, Register(p)
    PROVE  LET row == ChangeRow(req[p].call.op, req[p].row["target"],
                                req[p].call.target)
           IN  /\ log \in Seq(LogRow) /\ row \in LogRow /\ log' = Append(log, row)
               /\ row.newRole = WrittenRole(req[p])
               /\ row.target = req[p].call.target
               /\ row.bySystem = (req[p].call.op = "warn")
               /\ row.type # "WARNING"
<1> DEFINE row == ChangeRow(req[p].call.op, req[p].row["target"], req[p].call.target)
<1>1. Landed(p, "register") /\ log' = Append(log, row)
  BY DEF Register
<1>2. log \in Seq(LogRow) /\ req[p] \in Request /\ req[p].call.target \in Users
  BY <1>1, LandedRequest DEF IInv, TypeOK
<1>3. WrittenRole(req[p]) \in RoleNames \cup {NoRole}
  <2>1. req[p].row["target"].roleName \in RoleNames
    BY <1>2 DEF Request, Who, UserRow
  <2> QED BY <2>1, RoleAtType, RolesAssumption DEF WrittenRole, NewRole, NextUp, NextDown
<1>4. row \in LogRow
  BY <1>2, <1>3, ChangeRowType DEF WrittenRole
<1>5. /\ row.newRole = WrittenRole(req[p]) /\ row.target = req[p].call.target
      /\ row.type = ChangeType(req[p].call.op, req[p].row["target"])
  BY DEF ChangeRow, WrittenRole
<1>6. row.bySystem = (req[p].call.op = "warn")
  BY DEF ChangeRow
<1>7. row.type # "WARNING"
  BY <1>5 DEF ChangeType
<1> QED
  BY <1>1, <1>2, <1>4, <1>5, <1>6, <1>7

LEMMA NamesKept ==
    ASSUME IInv, NEW p \in Procs, Write(p), NEW u
    PROVE  /\ LoggedRoles(u) \subseteq LoggedRoles(u)'
           /\ Register(p) =>
                 WrittenRole(req[p]) \in NamedRoles(log', req[p].call.target)
<1>0. log \in Seq(LogRow) /\ DOMAIN log = 1..Len(log)
  BY DEF IInv, TypeOK
<1>1. CASE ~ Register(p) /\ UNCHANGED log
  BY <1>1 DEF LoggedRoles
<1>2. CASE Register(p)
  <2> DEFINE row == ChangeRow(req[p].call.op, req[p].row["target"],
                              req[p].call.target)
  <2>1. /\ row \in LogRow /\ log' = Append(log, row)
        /\ row.newRole = WrittenRole(req[p]) /\ row.target = req[p].call.target
    BY <1>2, RowRegistered
  <2> HIDE DEF row
  <2> QED BY <1>0, <2>1, NamesAdded DEF LoggedRoles
<1>3. CASE ~ Register(p) /\ LogWarning(p)
  <2>1. Landed(p, "warning") /\ log' = Append(log, WarningRow(req[p].call.target))
    BY <1>3 DEF LogWarning
  <2>2. WarningRow(req[p].call.target) \in LogRow
    BY <2>1, LandedRequest DEF WarningRow, LogRow
  <2> QED BY <1>0, <1>3, <2>1, <2>2, NamesAdded DEF LoggedRoles
<1>4. CASE ~ Register(p) /\ RetireWarnings(p)
  <2> DEFINE row(i) == IF log[i].type = "WARNING" /\ log[i].target = req[p].call.target
                       THEN [log[i] EXCEPT !.isActive = FALSE] ELSE log[i]
  <2>1. log' = [i \in DOMAIN log |-> row(i)]
    BY <1>4 DEF RetireWarnings
  <2>2. ASSUME NEW i \in DOMAIN log
        PROVE  row(i).target = log[i].target /\ row(i).newRole = log[i].newRole
    <3>1. log[i] \in LogRow
      BY <1>0
    <3> QED BY <3>1 DEF LogRow
  <2> HIDE DEF row
  <2>3. NamedRoles(log, u) \subseteq NamedRoles(log', u)
    BY <2>1, <2>2 DEF NamedRoles
  <2> QED BY <1>4, <2>3 DEF LoggedRoles
<1> QED
  BY <1>1, <1>2, <1>3, <1>4, WriteCases DEF WriteOf

(* What user.update does to the role.                                      *)
LEMMA UpdatedRole ==
    ASSUME IInv, NEW p \in Procs, UpdateUser(p), NEW v \in Users
    PROVE  user'[v].roleName =
              IF v = req[p].call.target /\ ChangesRole(req[p])
              THEN WrittenRole(req[p]) ELSE user[v].roleName
<1> DEFINE r   == req[p]
           u   == r.call.target
           new == Updated(r.call.op, r.row["target"], user[u], r.stamp)
<1>1. /\ user \in [Users -> UserRow] /\ user' = [user EXCEPT ![u] = new]
      /\ Landed(p, "update")
  BY DEF UpdateUser, IInv, TypeOK
<1>2. u \in Users /\ user[u] \in UserRow /\ r.call.op \in Ops
  BY <1>1, LandedRequest DEF Request, Call
<1>3. new.roleName = IF ChangesRole(r) THEN WrittenRole(r) ELSE user[u].roleName
  <2>1. CASE r.call.op \in {"promote", "demote"}
    BY <1>2, <2>1 DEF Updated, Ranked, UserRow, ChangesRole, WrittenRole
  <2>2. CASE r.call.op = "fire"
    BY <1>2, <2>2 DEF Updated, Expelled, UserRow, ChangesRole, WrittenRole, NewRole
  <2>3. CASE r.call.op = "warn" /\ r.row["target"].advNum = 2
    BY <1>2, <2>3 DEF Updated, Punished, UserRow, ChangesRole, WrittenRole, NewRole
  <2>4. CASE r.call.op = "warn" /\ r.row["target"].advNum # 2
    BY <1>2, <2>4 DEF Updated, Warned, UserRow, ChangesRole
  <2> QED BY <1>2, <2>1, <2>2, <2>3, <2>4 DEF Ops
<1> HIDE DEF new
<1> QED
  BY <1>1, <1>2, <1>3

(* The writes of each plan.                                                *)
LEMMA SentSets ==
    /\ \A a : Outstanding(<<a>>) = a
    /\ \A a, b : Outstanding(<<a, b>>) = a \cup b
    /\ \A a, b, c : Outstanding(<<a, b, c>>) = a \cup b \cup c
<1>1. /\ \A a : DOMAIN <<a>> = {1}
      /\ \A a, b : DOMAIN <<a, b>> = {1, 2}
      /\ \A a, b, c : DOMAIN <<a, b, c>> = {1, 2, 3}
  OBVIOUS
<1>2. ASSUME NEW a PROVE Outstanding(<<a>>) = a
  BY <1>1 DEF Outstanding
<1>3. ASSUME NEW a, NEW b PROVE Outstanding(<<a, b>>) = a \cup b
  BY <1>1 DEF Outstanding
<1>4. ASSUME NEW a, NEW b, NEW c PROVE Outstanding(<<a, b, c>>) = a \cup b \cup c
  BY <1>1 DEF Outstanding
<1> QED
  BY <1>2, <1>3, <1>4

LEMMA PlanWrites ==
    ASSUME NEW op \in Ops, NEW t
    PROVE  LET sent == Outstanding(Plan(op, t))
           IN  /\ op = "promote" => sent = Change
               /\ op = "demote" => sent \in {Change, Change \cup {"deleteCFO"}}
               /\ op = "fire" => sent = {"update", "register",
                                         "deletePermissions", "deleteRoles"}
               /\ op = "warn" /\ t.advNum # 2 => sent = {"warning", "update"}
               /\ op = "warn" /\ t.advNum = 2 /\ NextDown(t.roleName) = NoRole =>
                     sent = {"warning"}
               /\ op = "warn" /\ t.advNum = 2 /\ NextDown(t.roleName) # NoRole =>
                     sent = {"warning"} \cup Dismissal
                            \cup (IF t.roleName = "Soldado" THEN {"deletePermissions"}
                                  ELSE {})
<1>1. CASE op = "promote"
  BY <1>1, SentSets DEF Plan
<1>2. CASE op = "demote"
  BY <1>2, SentSets DEF Plan, DemotionPlan
<1>3. CASE op = "fire"
  BY <1>3, SentSets DEF Plan
<1>4. CASE op = "warn"
  <2>1. Plan(op, t) = WarningPlan(t)
    BY <1>4 DEF Plan
  <2>2. CASE t.advNum # 2
    BY <1>4, <2>1, <2>2, SentSets DEF WarningPlan
  <2>3. CASE t.advNum = 2 /\ NextDown(t.roleName) = NoRole
    BY <1>4, <2>1, <2>3, SentSets DEF WarningPlan
  <2>4. CASE t.advNum = 2 /\ NextDown(t.roleName) # NoRole
    <3>1. CASE t.roleName = "Soldado"
      BY <1>4, <2>1, <2>4, <3>1, SentSets DEF WarningPlan
    <3>2. CASE t.roleName # "Soldado"
      BY <1>4, <2>1, <2>4, <3>2, SentSets DEF WarningPlan
    <3> QED BY <3>1, <3>2
  <2> QED BY <2>2, <2>3, <2>4
<1> QED
  BY <1>1, <1>2, <1>3, <1>4 DEF Ops

(* How the pieces of the history invariant survive a write that lands.     *)
LEMMA WriteHistory ==
    ASSUME TInv, NEW others, HistoryNamed(others), NEW p \in Procs, Write(p)
    PROVE  HistoryNamed(others)'
<1> DEFINE r == req[p]
           u == r.call.target
<1>0. IInv /\ RowDue(r)
  BY DEF TInv, HistoryNamed
<1>1. PICK w \in Writes : /\ Landed(p, w)
                          /\ \/ w = "update" /\ UpdateUser(p)
                             \/ w # "update" /\ UNCHANGED user
                          /\ w = "register" => Register(p)
  <2>1. PICK w \in Writes : WriteOf(p, w)
    BY WriteCases
  <2>2. \/ w = "update" /\ UpdateUser(p)
        \/ w # "update" /\ UNCHANGED user
    BY <2>1 DEF WriteOf
  <2>3. Landed(p, w) /\ (w = "register" => Register(p))
    BY <2>1 DEF WriteOf
  <2> QED BY <2>1, <2>2, <2>3
<1>2. /\ \A q \in Procs \ {p} : req'[q] = req[q]
      /\ w \in ToWrite(p) /\ ToWrite(p)' = ToWrite(p) \ {w}
      /\ \/ req'[p] = Idle
         \/ req'[p].call = r.call /\ req'[p].row = r.row
  BY <1>0, <1>1, LandedTidy
<1>3. /\ \A v : LoggedRoles(v) \subseteq LoggedRoles(v)'
      /\ w = "register" => WrittenRole(r) \in NamedRoles(log', u)
  BY <1>0, <1>1, NamesKept
<1>4. /\ ToWrite(p)' = Outstanding(req'[p].batches)
      /\ req'[p] = Idle => ToWrite(p)' = {}
  BY IdleTidy DEF ToWrite
<1>5. "register" \in ToWrite(p) /\ w # "register" =>
          /\ "register" \in Outstanding(req'[p].batches)
          /\ req'[p].call = r.call /\ req'[p].row = r.row
  BY <1>2, <1>4
<1>6. ASSUME NEW q \in Procs PROVE RowDue(req[q])'
  <2>1. CASE q # p
    <3>1. RowDue(req[q]) /\ req'[q] = req[q]
      BY <1>0, <1>2, <2>1 DEF HistoryNamed
    <3>2. LoggedRoles(req[q].call.target) \subseteq NamedRoles(log', req[q].call.target)
      BY <1>3 DEF LoggedRoles
    <3> QED BY <3>1, <3>2 DEF RowDue, ChangesRole, WrittenRole, LoggedRoles
  <2>2. CASE q = p /\ req'[p] = Idle
    BY <1>4, <2>2 DEF RowDue
  <2>3. CASE q = p /\ req'[p].call = r.call /\ req'[p].row = r.row
    <3>1. ~ ("update" \in Outstanding(req[p].batches) /\ ChangesRole(r)) =>
              ~ ("update" \in Outstanding(req'[p].batches) /\ ChangesRole(req[p])')
      BY <1>2, <1>4, <2>3 DEF ChangesRole, ToWrite
    <3>2. WrittenRole(r) \in LoggedRoles(u) => RowDue(req[p])'
      BY <1>3, <2>3 DEF RowDue, WrittenRole, LoggedRoles
    <3>3. "register" \in ToWrite(p) => RowDue(req[p])'
      BY <1>3, <1>5, <2>3 DEF RowDue, WrittenRole, LoggedRoles
    <3> QED BY <1>0, <2>3, <3>1, <3>2, <3>3 DEF RowDue, ToWrite
  <2> QED BY <1>2, <2>1, <2>2, <2>3
<1>7. ASSUME NEW v \in Users, NEW role \in LoggedRoles(v) \cup PendingRoles(v) \cup others[v]
      PROVE  role \in (LoggedRoles(v) \cup PendingRoles(v))' \cup others[v]
  <2>1. CASE role \in LoggedRoles(v)
    BY <1>3, <2>1
  <2>2. CASE role \in PendingRoles(v)
    <3>1. PICK q \in Procs : /\ req[q].call.target = v
                             /\ "register" \in Outstanding(req[q].batches)
                             /\ role = WrittenRole(req[q])
      BY <2>2 DEF PendingRoles, WrittenRole
    <3>2. CASE q = p /\ w = "register"
      BY <1>3, <3>1, <3>2 DEF LoggedRoles
    <3>3. CASE ~ (q = p /\ w = "register")
      <4>1. /\ req'[q].call = req[q].call /\ req'[q].row = req[q].row
            /\ "register" \in Outstanding(req'[q].batches)
        BY <1>2, <1>5, <3>1, <3>3 DEF ToWrite
      <4> QED BY <3>1, <4>1 DEF PendingRoles, WrittenRole
    <3> QED BY <3>2, <3>3
  <2>3. CASE role \in others[v]
    BY <2>3
  <2> QED BY <2>1, <2>2, <2>3
<1>8. ASSUME NEW v \in Users
      PROVE  user'[v].roleName \in (LoggedRoles(v) \cup PendingRoles(v))' \cup others[v]
  <2>1. user[v].roleName \in LoggedRoles(v) \cup PendingRoles(v) \cup others[v]
    BY DEF HistoryNamed
  <2>2. CASE user'[v].roleName = user[v].roleName
    BY <1>7, <2>1, <2>2
  <2>3. CASE w = "update" /\ v = u /\ ChangesRole(r) /\ user'[v].roleName = WrittenRole(r)
    <3>1. WrittenRole(r) \in LoggedRoles(u) \cup PendingRoles(u)
      BY <1>0, <1>2, <2>3 DEF RowDue, ToWrite, PendingRoles, WrittenRole
    <3> QED BY <1>7, <2>3, <3>1
  <2>4. w # "update" => user'[v].roleName = user[v].roleName
    BY <1>1
  <2>5. w = "update" =>
            user'[v].roleName = IF v = u /\ ChangesRole(r) THEN WrittenRole(r)
                                ELSE user[v].roleName
    BY <1>0, <1>1, UpdatedRole
  <2> QED BY <2>2, <2>3, <2>4, <2>5
<1> QED
  BY <1>6, <1>8 DEF HistoryNamed

LEMMA NextNamed ==
    ASSUME TInv, NEW others, HistoryNamed(others), [Next]_vars, ~ setting.faults
    PROVE  HistoryNamed(others)'
<1>0. TInv'
  BY NextTidy
<1>2. ASSUME NEW p \in Procs, Write(p)
      PROVE  HistoryNamed(others)'
  BY <1>2, WriteHistory
<1>3. ASSUME NEW p \in Procs, \A q \in Procs \ {p} : req'[q] = req[q],
             ToWrite(p) = {}, RowDue(req[p])', UNCHANGED <<user, log>>
      PROVE  HistoryNamed(others)'
  <2>1. \A v : LoggedRoles(v)' = LoggedRoles(v)
    BY <1>3 DEF LoggedRoles
  <2>2. \A v : PendingRoles(v) \subseteq PendingRoles(v)'
    BY <1>3 DEF PendingRoles, ToWrite
  <2>3. ASSUME NEW q \in Procs \ {p} PROVE RowDue(req[q])'
    <3>1. RowDue(req[q]) /\ req'[q] = req[q]
      BY <1>3 DEF HistoryNamed
    <3> QED BY <1>3, <3>1 DEF RowDue, ChangesRole, WrittenRole, LoggedRoles
  <2> QED BY <1>3, <2>1, <2>2, <2>3 DEF HistoryNamed
<1>4. ASSUME NEW p \in Procs,
             \/ \E c \in Calls : Submit(p, c)
             \/ \E who \in Who : ReadRow(p, who) \/ ReadPerms(p, who)
             \/ Admit(p) \/ Refuse(p) \/ FailRead(p)
      PROVE  HistoryNamed(others)'
  <2>1. /\ \A q \in Procs \ {p} : req'[q] = req[q]
        /\ ToWrite(p) = {} /\ Outstanding(req'[p].batches) = {}
        /\ UNCHANGED <<user, log>>
    BY <1>0, <1>4, ReadTidy DEF ToWrite
  <2>2. RowDue(req[p])'
    BY <2>1 DEF RowDue
  <2> QED BY <1>3, <2>1, <2>2
<1>5. ASSUME NEW p \in Procs, Issue(p)
      PROVE  HistoryNamed(others)'
  <2> DEFINE r == req[p]
             sent == Outstanding(Plan(r.call.op, r.row["target"]))
  <2>1. /\ \A q \in Procs \ {p} : req'[q] = req[q]
        /\ ToWrite(p) = {} /\ UNCHANGED <<user, log>>
        /\ req'[p].batches = Plan(r.call.op, r.row["target"])
        /\ req'[p].call = r.call /\ req'[p].row = r.row /\ r.call.op \in Ops
    BY <1>0, <1>5, IssueTidy
  <2>2. ChangesRole(r) /\ "update" \in sent => "register" \in sent
    BY <2>1, PlanWrites DEF ChangesRole, Change, Dismissal, Ops
  <2>3. RowDue(req[p])'
    BY <2>1, <2>2 DEF RowDue, ChangesRole
  <2> QED BY <1>3, <2>1, <2>3
<1>6. CASE OtherStep
  <2>1. UNCHANGED <<user, log, req>>
    BY <1>6, OtherKeeps
  <2>2. \A v : (LoggedRoles(v) \cup PendingRoles(v))' = LoggedRoles(v) \cup PendingRoles(v)
    BY <2>1 DEF LoggedRoles, PendingRoles
  <2>3. ASSUME NEW q \in Procs PROVE RowDue(req[q])'
    <3>1. RowDue(req[q]) /\ req'[q] = req[q]
      BY <2>1 DEF HistoryNamed
    <3> QED BY <2>1, <3>1 DEF RowDue, ChangesRole, WrittenRole, LoggedRoles
  <2> QED BY <2>1, <2>2, <2>3 DEF HistoryNamed
<1>7. ASSUME NEW p \in Procs, Fail(p), ~ FailRead(p) PROVE FALSE
  BY <1>7 DEF Fail, LoseWrite
<1> QED
  BY <1>2, <1>4, <1>5, <1>6, <1>7 DEF Next, Step, OtherStep

LEMMA NextHInv == HInv /\ [Next]_vars => HInv'
<1>1. ASSUME HInv, [Next]_vars PROVE TInv' /\ setting' = setting
  BY <1>1, NextTidy, SettingStays DEF HInv
<1> QED
  BY <1>1, NextNamed DEF HInv, Nobody

(***************************************************************************)
(* As long as no query fails, the activity log names, or is about to name, *)
(* the role every member holds: the update and the row about it are sent   *)
(* together or one after the other, and whichever lands first, of whatever *)
(* request, the other is still to come.                                    *)
(***************************************************************************)
THEOREM HistoryExplainsRoles == Spec => []HistoryNamesEveryRole
<1>1. HInv => HistoryNamesEveryRole
  BY DEF HInv, HistoryNamed, Nobody, HistoryNamesEveryRole
<1>2. Spec => []HInv
  BY InitHInv, NextHInv, PTL DEF Spec
<1> QED
  BY <1>1, <1>2, PTL
-----------------------------------------------------------------------------
(***************************************************************************)
(* The permissions of a Recruta.                                           *)
(***************************************************************************)
Surplus(u) == {g \in perms : g.user = u} \ Grants

Cleaning(u) == \E p \in Procs : /\ req[p].call.target = u
                                /\ "deletePermissions" \in Outstanding(req[p].batches)

\* A request that is going to make a Recruta of a member has the permissions
\* still to delete, or has deleted them.
CleanDue(r) ==
    "update" \in Outstanding(r.batches) /\ ChangesRole(r)
          /\ WrittenRole(r) = "Recruta" =>
        \/ "deletePermissions" \in Outstanding(r.batches)
        \/ Surplus(r.call.target) = {}

RecrutasCleaned ==
    /\ \A u \in Users : user[u].roleName = "Recruta" => Surplus(u) = {} \/ Cleaning(u)
    /\ \A p \in Procs : CleanDue(req[p])

PInv == TInv /\ (~ setting.faults => RecrutasCleaned)

LEMMA InitPInv == Init => PInv
<1> SUFFICES ASSUME Init PROVE PInv
  OBVIOUS
<1>1. \A u \in Users : user[u].roleName = "Recruta" => Surplus(u) = {}
  BY StartAssumption DEF Init, Surplus
<1>2. \A p \in Procs : CleanDue(req[p])
  BY IdleTidy DEF Init, CleanDue
<1> QED
  BY <1>1, <1>2, InitTidy DEF PInv, RecrutasCleaned

(* Nobody is promoted to Recruta; what makes a Recruta of a member deletes *)
(* the permissions too.                                                    *)
LEMMA PlanCleans ==
    ASSUME NEW r \in Request, Decided(r), r.stage = "perms",
           ChangesRole(r), WrittenRole(r) = "Recruta",
           "update" \in Outstanding(Plan(r.call.op, r.row["target"]))
    PROVE  "deletePermissions" \in Outstanding(Plan(r.call.op, r.row["target"]))
<1> DEFINE op   == r.call.op
           t    == r.row["target"]
           sent == Outstanding(Plan(op, t))
<1>1. op \in Ops /\ t.roleName \in RoleNames
  BY DEF Request, Call, Who, UserRow
<1>2. CASE op = "promote"
  <2>1. NextUp(t.roleName) = "Recruta"
    BY <1>2 DEF WrittenRole, NewRole
  <2>2. PositionOf("Recruta") = PositionOf(t.roleName) + 1
    BY <2>1, RolesAssumption DEF NextUp, RoleAt, Rungs
  <2>3. PositionOf(t.roleName) \in Nat
    BY <1>1, RolesAssumption DEF RoleRow, PositionOf
  <2> QED BY <2>2, <2>3, RolesAssumption
<1>3. CASE op = "demote"
  <2>1. t.roleName = "Soldado"
    BY <1>1, <1>3, SoldadoAssumption DEF WrittenRole, NewRole
  <2> QED BY <1>3, <2>1 DEF Decided, Untouchable
<1>4. CASE op = "fire"
  BY <1>1, <1>4, PlanWrites
<1>5. CASE op = "warn"
  <2>1. t.advNum = 2 /\ t.roleName = "Soldado" /\ NextDown(t.roleName) # NoRole
    BY <1>1, <1>5, SoldadoAssumption, RolesAssumption
       DEF ChangesRole, WrittenRole, NewRole
  <2> QED BY <1>1, <1>5, <2>1, PlanWrites
<1> QED
  BY <1>1, <1>2, <1>3, <1>4, <1>5 DEF Ops

(* No handler gives a permission, and deletePermissions leaves none.       *)
LEMMA PermsWritten ==
    ASSUME IInv, NEW p \in Procs, NEW w \in Writes, WriteOf(p, w)
    PROVE  /\ \A v : Surplus(v)' \subseteq Surplus(v)
           /\ w = "deletePermissions" =>
                 {g \in perms' : g.user = req[p].call.target} = {}
<1>1. perms \subseteq UserPermission
  BY DEF IInv, TypeOK
<1>2. CASE w \notin {"deleteCourses", "deleteCFO", "deletePermissions"}
  <2>1. perms' = perms
    BY <1>2 DEF WriteOf
  <2> QED BY <1>2, <2>1 DEF Surplus
<1>3. CASE w \in {"deleteCourses", "deleteCFO", "deletePermissions"}
  <2>1. DeletePermissions(p, w)
    BY <1>3 DEF WriteOf
  <2>2. perms' = {g \in perms :
                     \/ g.user # req[p].call.target
                     \/ g.perm \notin Deleted(w, req[p].call.op, req[p].row["target"])}
    BY <2>1 DEF DeletePermissions
  <2>3. \A v : Surplus(v)' \subseteq Surplus(v)
    BY <2>2 DEF Surplus
  <2>4. w = "deletePermissions" =>
            Deleted(w, req[p].call.op, req[p].row["target"]) = Permission
    BY DEF Deleted
  <2>5. \A g \in perms : g.perm \in Permission
    BY <1>1 DEF UserPermission
  <2> QED BY <2>2, <2>3, <2>4, <2>5
<1> QED
  BY <1>2, <1>3

LEMMA WriteCleaned ==
    ASSUME PInv, NEW p \in Procs, Write(p), ~ setting.faults
    PROVE  RecrutasCleaned'
<1> DEFINE r == req[p]
           u == r.call.target
<1>0. TInv /\ IInv /\ RecrutasCleaned /\ CleanDue(r)
  BY DEF PInv, TInv, RecrutasCleaned
<1>1. PICK w \in Writes : WriteOf(p, w)
  BY WriteCases
<1>2. /\ \A q \in Procs \ {p} : req'[q] = req[q]
      /\ w \in ToWrite(p) /\ ToWrite(p)' = ToWrite(p) \ {w}
      /\ \/ req'[p] = Idle
         \/ req'[p].call = r.call /\ req'[p].row = r.row
  BY <1>0, <1>1, LandedTidy DEF WriteOf
<1>3. /\ \A v : Surplus(v)' \subseteq Surplus(v)
      /\ w = "deletePermissions" => {g \in perms' : g.user = u} = {}
  BY <1>0, <1>1, PermsWritten
<1>4. /\ ToWrite(p)' = Outstanding(req'[p].batches)
      /\ req'[p] = Idle => ToWrite(p)' = {}
  BY IdleTidy DEF ToWrite
<1>5. "deletePermissions" \in ToWrite(p) /\ w # "deletePermissions" =>
          /\ "deletePermissions" \in Outstanding(req'[p].batches)
          /\ req'[p].call = r.call /\ req'[p].row = r.row
  BY <1>2, <1>4
<1>6. ASSUME NEW q \in Procs PROVE CleanDue(req[q])'
  <2>1. CASE q # p
    <3>1. CleanDue(req[q]) /\ req'[q] = req[q]
      BY <1>0, <1>2, <2>1 DEF RecrutasCleaned
    <3>2. Surplus(req[q].call.target) = {} =>
              {g \in perms' : g.user = req[q].call.target} \ Grants = {}
      BY <1>3 DEF Surplus
    <3> QED BY <3>1, <3>2 DEF CleanDue, ChangesRole, WrittenRole, Surplus
  <2>2. CASE q = p /\ req'[p] = Idle
    BY <1>4, <2>2 DEF CleanDue
  <2>3. CASE q = p /\ req'[p].call = r.call /\ req'[p].row = r.row
    <3>1. ~ ("update" \in ToWrite(p) /\ ChangesRole(r) /\ WrittenRole(r) = "Recruta")
             => CleanDue(req[p])'
      BY <1>2, <1>4, <2>3 DEF CleanDue, ChangesRole, WrittenRole
    <3>2. Surplus(u) = {} \/ w = "deletePermissions" => CleanDue(req[p])'
      BY <1>3, <2>3 DEF CleanDue, Surplus
    <3>3. "deletePermissions" \in ToWrite(p) => CleanDue(req[p])'
      BY <1>5, <3>2 DEF CleanDue
    <3> QED BY <1>0, <2>3, <3>1, <3>2, <3>3 DEF CleanDue, ToWrite
  <2> QED BY <1>2, <2>1, <2>2, <2>3
<1>7. ASSUME NEW v \in Users, Surplus(v) = {} \/ Cleaning(v)
      PROVE  (Surplus(v) = {} \/ Cleaning(v))'
  <2>1. CASE Surplus(v) = {}
    BY <1>3, <2>1
  <2>2. ASSUME NEW q \in Procs, req[q].call.target = v,
               "deletePermissions" \in Outstanding(req[q].batches)
        PROVE  (Surplus(v) = {} \/ Cleaning(v))'
    <3>1. CASE q = p /\ w = "deletePermissions"
      BY <1>3, <2>2, <3>1 DEF Surplus
    <3>2. CASE ~ (q = p /\ w = "deletePermissions")
      <4>1. /\ req'[q].call = req[q].call
            /\ "deletePermissions" \in Outstanding(req'[q].batches)
        BY <1>2, <1>5, <2>2, <3>2 DEF ToWrite
      <4> QED BY <2>2, <4>1 DEF Cleaning
    <3> QED BY <3>1, <3>2
  <2> QED BY <1>7, <2>1, <2>2 DEF Cleaning
<1>8. ASSUME NEW v \in Users, user'[v].roleName = "Recruta"
      PROVE  (Surplus(v) = {} \/ Cleaning(v))'
  <2>1. CASE user'[v].roleName = user[v].roleName
    BY <1>0, <1>7, <1>8, <2>1 DEF RecrutasCleaned
  <2>2. CASE w = "update" /\ v = u /\ ChangesRole(r) /\ user'[v].roleName = WrittenRole(r)
    <3>1. Surplus(u) = {} \/ Cleaning(u)
      BY <1>0, <1>2, <1>8, <2>2 DEF CleanDue, ToWrite, Cleaning
    <3> QED BY <1>7, <2>2, <3>1
  <2>3. w # "update" => user'[v].roleName = user[v].roleName
    BY <1>1 DEF WriteOf
  <2>4. w = "update" => UpdateUser(p)
    BY <1>1 DEF WriteOf
  <2>5. w = "update" =>
            user'[v].roleName = IF v = u /\ ChangesRole(r) THEN WrittenRole(r)
                                ELSE user[v].roleName
    BY <1>0, <2>4, UpdatedRole
  <2> QED BY <2>1, <2>2, <2>3, <2>5
<1> QED
  BY <1>6, <1>8 DEF RecrutasCleaned

LEMMA NextPInv == PInv /\ [Next]_vars => PInv'
<1> SUFFICES ASSUME PInv, [Next]_vars PROVE PInv'
  OBVIOUS
<1>0. TInv /\ TInv' /\ setting' = setting
  BY NextTidy, SettingStays DEF PInv
<1> SUFFICES ASSUME ~ setting.faults PROVE RecrutasCleaned'
  BY <1>0 DEF PInv
<1>1. RecrutasCleaned
  BY DEF PInv
<1>2. ASSUME NEW p \in Procs, Write(p) PROVE RecrutasCleaned'
  BY <1>2, WriteCleaned
<1>3. ASSUME NEW p \in Procs, \A q \in Procs \ {p} : req'[q] = req[q],
             ToWrite(p) = {}, CleanDue(req[p])', UNCHANGED <<user, perms>>
      PROVE  RecrutasCleaned'
  <2>1. \A v : Surplus(v)' = Surplus(v)
    BY <1>3 DEF Surplus
  <2>2. \A v : Cleaning(v) => Cleaning(v)'
    BY <1>3 DEF Cleaning, ToWrite
  <2>3. ASSUME NEW q \in Procs \ {p} PROVE CleanDue(req[q])'
    <3>1. CleanDue(req[q]) /\ req'[q] = req[q]
      BY <1>1, <1>3 DEF RecrutasCleaned
    <3> QED BY <1>3, <3>1 DEF CleanDue, ChangesRole, WrittenRole, Surplus
  <2> QED BY <1>1, <1>3, <2>1, <2>2, <2>3 DEF RecrutasCleaned
<1>4. ASSUME NEW p \in Procs,
             \/ \E c \in Calls : Submit(p, c)
             \/ \E who \in Who : ReadRow(p, who) \/ ReadPerms(p, who)
             \/ Admit(p) \/ Refuse(p) \/ FailRead(p)
      PROVE  RecrutasCleaned'
  <2>1. /\ \A q \in Procs \ {p} : req'[q] = req[q]
        /\ ToWrite(p) = {} /\ Outstanding(req'[p].batches) = {}
        /\ UNCHANGED <<user, perms>>
    BY <1>0, <1>4, ReadTidy DEF ToWrite
  <2>2. CleanDue(req[p])'
    BY <2>1 DEF CleanDue
  <2> QED BY <1>3, <2>1, <2>2
<1>5. ASSUME NEW p \in Procs, Issue(p) PROVE RecrutasCleaned'
  <2> DEFINE r == req[p]
             sent == Outstanding(Plan(r.call.op, r.row["target"]))
  <2>1. /\ \A q \in Procs \ {p} : req'[q] = req[q]
        /\ ToWrite(p) = {} /\ UNCHANGED <<user, perms>>
        /\ req'[p].batches = Plan(r.call.op, r.row["target"])
        /\ req'[p].call = r.call /\ req'[p].row = r.row /\ r.stage = "perms"
    BY <1>0, <1>5, IssueTidy
  <2>2. r \in Request /\ Decided(r)
    BY <1>0 DEF TInv, IInv, TypeOK, Tidy
  <2>3. ChangesRole(r) /\ WrittenRole(r) = "Recruta" /\ "update" \in sent =>
            "deletePermissions" \in sent
    BY <2>1, <2>2, PlanCleans
  <2>4. CleanDue(req[p])'
    BY <2>1, <2>3 DEF CleanDue, ChangesRole, WrittenRole
  <2> QED BY <1>3, <2>1, <2>4
<1>6. ASSUME OtherStep, \A v : Surplus(v)' = Surplus(v) PROVE RecrutasCleaned'
  <2>1. UNCHANGED <<user, req>>
    BY <1>6, OtherKeeps
  <2>2. \A v : Cleaning(v)' = Cleaning(v)
    BY <2>1 DEF Cleaning
  <2>3. ASSUME NEW q \in Procs PROVE CleanDue(req[q])'
    <3>1. CleanDue(req[q]) /\ req'[q] = req[q]
      BY <1>1, <2>1 DEF RecrutasCleaned
    <3>2. ({g \in perms' : g.user = req[q].call.target} \ Grants)
             = Surplus(req[q].call.target)
      BY <1>6 DEF Surplus
    <3> QED BY <3>1, <3>2 DEF CleanDue, ChangesRole, WrittenRole, Surplus
  <2> QED BY <1>1, <1>6, <2>1, <2>2, <2>3 DEF RecrutasCleaned
<1>7. CASE OtherStep
  <2>1. \A v : Surplus(v)' = Surplus(v)
    BY <1>7 DEF OtherStep, GivePermission, Tick, vars, db, Surplus
  <2> QED BY <1>6, <1>7, <2>1
<1>8. ASSUME NEW p \in Procs, Fail(p), ~ FailRead(p) PROVE FALSE
  BY <1>8 DEF Fail, LoseWrite
<1> QED
  BY <1>2, <1>4, <1>5, <1>7, <1>8 DEF Next, Step, OtherStep

(***************************************************************************)
(* Once every request has answered and none of their queries has failed,   *)
(* a Recruta holds no permission but those administrators give: firing     *)
(* sends the deletion with the update, the third warning of a Soldado      *)
(* before it, and no promotion or demotion in flight makes a Recruta.      *)
(***************************************************************************)
THEOREM DismissedKeepNothing == Spec => []RecrutaHoldsNoPermission
<1>1. PInv => RecrutaHoldsNoPermission
  <2> SUFFICES ASSUME PInv, AtRest, ~ setting.faults,
                      NEW u \in Users, user[u].roleName = "Recruta"
               PROVE  {g \in perms : g.user = u} \subseteq Grants
    BY DEF RecrutaHoldsNoPermission
  <2>1. \A p \in Procs : Outstanding(req[p].batches) = {}
    BY DEF PInv, TInv, Tidy, AtRest, Busy, Outstanding
  <2>2. Surplus(u) = {} \/ Cleaning(u)
    BY DEF PInv, RecrutasCleaned
  <2> QED BY <2>1, <2>2 DEF Cleaning, Surplus
<1>2. Spec => []PInv
  BY InitPInv, NextPInv, PTL DEF Spec
<1> QED
  BY <1>1, <1>2, PTL
-----------------------------------------------------------------------------
(***************************************************************************)
(* Who is dismissed and the departament roles.                             *)
(***************************************************************************)
Fired(rows, u) == {i \in DOMAIN rows : rows[i].target = u /\ rows[i].type = "FIRE"}

ByOfficer(rows, u) == \E i \in Fired(rows, u) : ~ rows[i].bySystem

Leaving(u) == \E p \in Procs : /\ req[p].call.target = u
                               /\ "deleteRoles" \in Outstanding(req[p].batches)

Dismissing(u) == \E p \in Procs : /\ req[p].call.target = u /\ req[p].call.op = "warn"
                                  /\ req[p].row["target"].roleName = "Soldado"
                                  /\ "register" \in Outstanding(req[p].batches)

\* An officer who fires has the roles still to delete, or has deleted them; the
\* third warning of a Soldado has the row about it still to write, or has.
LeaveDue(r) ==
    LET o == Outstanding(r.batches) IN
    /\ r.call.op = "fire" /\ {"update", "register"} \cap o # {} =>
          "deleteRoles" \in o \/ r.call.target \notin depts
    /\ r.call.op # "fire" /\ "update" \in o /\ ChangesRole(r)
             /\ WrittenRole(r) = "Recruta" =>
          /\ r.call.op = "warn" /\ r.row["target"].roleName = "Soldado"
          /\ "register" \in o \/ Fired(log, r.call.target) # {}

LeaversNoted ==
    /\ \A u \in depts : ByOfficer(log, u) => Leaving(u)
    /\ \A u \in depts : user[u].roleName = "Recruta" =>
          Leaving(u) \/ Dismissing(u) \/ Fired(log, u) # {}
    /\ \A p \in Procs : LeaveDue(req[p])

DInv == TInv /\ (~ setting.faults => LeaversNoted)

LEMMA FiredAppended ==
    ASSUME NEW rows \in Seq(LogRow), NEW row \in LogRow, NEW u
    PROVE  LET more == Append(rows, row)
           IN  /\ Fired(rows, u) \subseteq Fired(more, u)
               /\ row.target = u /\ row.type = "FIRE" => Fired(more, u) # {}
               /\ ByOfficer(more, u) =>
                     \/ ByOfficer(rows, u)
                     \/ row.target = u /\ row.type = "FIRE" /\ ~ row.bySystem
<1> DEFINE more == Append(rows, row)
           n    == Len(rows)
<1>1. /\ DOMAIN rows = 1..n /\ n \in Nat /\ DOMAIN more = 1..(n + 1)
      /\ more[n + 1] = row /\ \A i \in 1..n : more[i] = rows[i]
  BY AppendProperties, LenProperties
<1>2. DOMAIN more = DOMAIN rows \cup {n + 1}
  BY <1>1
<1> HIDE DEF more, n
<1>3. Fired(more, u) = Fired(rows, u)
                       \cup (IF row.target = u /\ row.type = "FIRE" THEN {n + 1} ELSE {})
  BY <1>1, <1>2 DEF Fired
<1>4. \A i \in Fired(rows, u) : more[i] = rows[i]
  BY <1>1 DEF Fired
<1>5. ByOfficer(more, u) => \/ ByOfficer(rows, u)
                            \/ row.target = u /\ row.type = "FIRE" /\ ~ row.bySystem
  BY <1>1, <1>3, <1>4 DEF ByOfficer
<1> QED
  BY <1>3, <1>5 DEF more

LEMMA FiredWritten ==
    ASSUME IInv, NEW p \in Procs, NEW w \in Writes, WriteOf(p, w), NEW v
    PROVE  /\ Fired(log, v) \subseteq Fired(log', v)
           /\ /\ w = "register" /\ v = req[p].call.target /\ req[p].call.op = "warn"
              /\ req[p].row["target"].roleName = "Soldado"
              => Fired(log', v) # {}
           /\ ByOfficer(log', v) =>
                 \/ ByOfficer(log, v)
                 \/ w = "register" /\ v = req[p].call.target /\ req[p].call.op = "fire"
<1> DEFINE u == req[p].call.target
<1>0. log \in Seq(LogRow)
  BY DEF IInv, TypeOK
<1>1. CASE w \notin {"register", "warning", "retireWarnings"}
  BY <1>1 DEF WriteOf
<1>2. CASE w = "register"
  <2> DEFINE row == ChangeRow(req[p].call.op, req[p].row["target"], u)
  <2>1. Register(p)
    BY <1>2 DEF WriteOf
  <2>2. /\ row \in LogRow /\ log' = Append(log, row) /\ row.target = u
        /\ row.bySystem = (req[p].call.op = "warn")
    BY <2>1, RowRegistered
  <2>3. row.type = ChangeType(req[p].call.op, req[p].row["target"])
    BY DEF ChangeRow
  <2> HIDE DEF row
  <2>4. /\ row.type = "FIRE" /\ ~ row.bySystem => req[p].call.op = "fire"
        /\ req[p].call.op = "warn" /\ req[p].row["target"].roleName = "Soldado" =>
              row.type = "FIRE"
    BY <2>2, <2>3 DEF ChangeType
  <2>5. /\ Fired(log, v) \subseteq Fired(log', v)
        /\ row.target = v /\ row.type = "FIRE" => Fired(log', v) # {}
        /\ ByOfficer(log', v) =>
              \/ ByOfficer(log, v)
              \/ row.target = v /\ row.type = "FIRE" /\ ~ row.bySystem
    BY <1>0, <2>2, FiredAppended
  <2> QED BY <1>2, <2>2, <2>4, <2>5
<1>3. CASE w = "warning"
  <2> DEFINE row == WarningRow(u)
  <2>1. LogWarning(p) /\ Landed(p, w)
    BY <1>3 DEF WriteOf
  <2>2. row \in LogRow /\ log' = Append(log, row) /\ row.type = "WARNING"
    BY <2>1, LandedRequest DEF LogWarning, WarningRow, LogRow
  <2> HIDE DEF row
  <2>3. /\ Fired(log, v) \subseteq Fired(log', v)
        /\ ByOfficer(log', v) => ByOfficer(log, v) \/ row.type = "FIRE"
    BY <1>0, <2>2, FiredAppended
  <2> QED BY <1>3, <2>2, <2>3
<1>4. CASE w = "retireWarnings"
  <2> DEFINE row(i) == IF log[i].type = "WARNING" /\ log[i].target = u
                       THEN [log[i] EXCEPT !.isActive = FALSE] ELSE log[i]
  <2>1. RetireWarnings(p)
    BY <1>4 DEF WriteOf
  <2>2. log' = [i \in DOMAIN log |-> row(i)]
    BY <2>1 DEF RetireWarnings
  <2>3. ASSUME NEW i \in DOMAIN log
        PROVE  /\ row(i).target = log[i].target /\ row(i).type = log[i].type
               /\ row(i).bySystem = log[i].bySystem
    <3>1. log[i] \in LogRow
      BY <1>0
    <3> QED BY <3>1 DEF LogRow
  <2> HIDE DEF row
  <2>4. Fired(log', v) = Fired(log, v) /\ (ByOfficer(log', v) => ByOfficer(log, v))
    BY <2>2, <2>3 DEF Fired, ByOfficer
  <2> QED BY <1>4, <2>4
<1> QED
  BY <1>1, <1>2, <1>3, <1>4

(* Only deleteRoles takes a departament role, and nothing gives one.       *)
LEMMA DeptsWritten ==
    ASSUME NEW p \in Procs, NEW w \in Writes, WriteOf(p, w)
    PROVE  /\ depts' \subseteq depts
           /\ w = "deleteRoles" => req[p].call.target \notin depts'
<1>1. CASE w = "deleteRoles"
  BY <1>1 DEF WriteOf, DeleteRoles
<1>2. CASE w # "deleteRoles"
  BY <1>2 DEF WriteOf, UpdateUser, Register, LogWarning, RetireWarnings, DeletePermissions
<1> QED
  BY <1>1, <1>2

LEMMA WriteNoted ==
    ASSUME DInv, NEW p \in Procs, Write(p), ~ setting.faults
    PROVE  LeaversNoted'
<1> DEFINE r == req[p]
           u == r.call.target
<1>0. TInv /\ IInv /\ LeaversNoted /\ LeaveDue(r) /\ depts \subseteq Users
  BY DEF DInv, TInv, LeaversNoted, IInv, TypeOK
<1>1. PICK w \in Writes : WriteOf(p, w)
  BY WriteCases
<1>2. /\ \A q \in Procs \ {p} : req'[q] = req[q]
      /\ w \in ToWrite(p) /\ ToWrite(p)' = ToWrite(p) \ {w}
      /\ \/ req'[p] = Idle
         \/ req'[p].call = r.call /\ req'[p].row = r.row
  BY <1>0, <1>1, LandedTidy DEF WriteOf
<1>3. /\ ToWrite(p)' = Outstanding(req'[p].batches)
      /\ req'[p] = Idle => ToWrite(p)' = {}
  BY IdleTidy DEF ToWrite
<1>4. ToWrite(p)' # {} => req'[p].call = r.call /\ req'[p].row = r.row
  BY <1>2, <1>3
<1>5. /\ \A v : Fired(log, v) \subseteq Fired(log', v)
      /\ w = "register" /\ r.call.op = "warn" /\ r.row["target"].roleName = "Soldado"
            => Fired(log', u) # {}
      /\ \A v : ByOfficer(log', v) =>
            ByOfficer(log, v) \/ (w = "register" /\ v = u /\ r.call.op = "fire")
  <2>1. ASSUME NEW v
        PROVE  /\ Fired(log, v) \subseteq Fired(log', v)
               /\ /\ w = "register" /\ v = req[p].call.target /\ req[p].call.op = "warn"
                  /\ req[p].row["target"].roleName = "Soldado"
                  => Fired(log', v) # {}
               /\ ByOfficer(log', v) =>
                     \/ ByOfficer(log, v)
                     \/ w = "register" /\ v = req[p].call.target /\ req[p].call.op = "fire"
    BY <1>0, <1>1, FiredWritten
  <2>2. \A v : Fired(log, v) \subseteq Fired(log', v)
    BY <2>1
  <2>3. w = "register" /\ r.call.op = "warn" /\ r.row["target"].roleName = "Soldado"
            => Fired(log', u) # {}
    BY <2>1
  <2>4. \A v : ByOfficer(log', v) =>
            ByOfficer(log, v) \/ (w = "register" /\ v = u /\ r.call.op = "fire")
    BY <2>1
  <2> QED BY <2>2, <2>3, <2>4
<1>6. depts' \subseteq depts /\ (w = "deleteRoles" => u \notin depts')
  BY <1>1, DeptsWritten
<1>7. ASSUME NEW v \in depts', Leaving(v) PROVE Leaving(v)'
  <2>1. PICK q \in Procs : /\ req[q].call.target = v
                           /\ "deleteRoles" \in Outstanding(req[q].batches)
    BY <1>7 DEF Leaving
  <2>2. CASE q = p
    <3>1. w # "deleteRoles"
      BY <1>6, <1>7, <2>1, <2>2
    <3>2. "deleteRoles" \in Outstanding(req'[p].batches) /\ req'[p].call = r.call
      BY <1>2, <1>3, <1>4, <2>1, <2>2, <3>1 DEF ToWrite
    <3> QED BY <2>1, <2>2, <3>2 DEF Leaving
  <2>3. CASE q # p
    BY <1>2, <2>1, <2>3 DEF Leaving
  <2> QED BY <2>2, <2>3
<1>8. ASSUME NEW v, Dismissing(v) PROVE Dismissing(v)' \/ Fired(log', v) # {}
  <2>1. PICK q \in Procs : /\ req[q].call.target = v /\ req[q].call.op = "warn"
                           /\ req[q].row["target"].roleName = "Soldado"
                           /\ "register" \in Outstanding(req[q].batches)
    BY <1>8 DEF Dismissing
  <2>2. CASE q = p /\ w = "register"
    BY <1>5, <2>1, <2>2
  <2>3. CASE q = p /\ w # "register"
    <3>1. /\ "register" \in Outstanding(req'[p].batches)
          /\ req'[p].call = r.call /\ req'[p].row = r.row
      BY <1>2, <1>3, <1>4, <2>1, <2>3 DEF ToWrite
    <3> QED BY <2>1, <2>3, <3>1 DEF Dismissing
  <2>4. CASE q # p
    BY <1>2, <2>1, <2>4 DEF Dismissing
  <2> QED BY <2>2, <2>3, <2>4
<1>9. ASSUME NEW q \in Procs PROVE LeaveDue(req[q])'
  <2>1. CASE q # p
    <3>1. LeaveDue(req[q]) /\ req'[q] = req[q]
      BY <1>0, <1>2, <2>1 DEF LeaversNoted
    <3> QED BY <1>5, <1>6, <3>1 DEF LeaveDue, ChangesRole, WrittenRole
  <2>2. CASE q = p /\ ToWrite(p)' = {}
    BY <1>3, <2>2 DEF LeaveDue
  <2>3. CASE q = p /\ ToWrite(p)' # {}
    <3>1. /\ req'[p].call = r.call /\ req'[p].row = r.row
          /\ WrittenRole(req'[p]) = WrittenRole(r)
          /\ ChangesRole(req'[p]) <=> ChangesRole(r)
      BY <1>4, <2>3 DEF WrittenRole, ChangesRole
    <3>2. r.call.op = "fire" /\ {"update", "register"} \cap ToWrite(p)' # {} =>
              "deleteRoles" \in ToWrite(p)' \/ u \notin depts'
      BY <1>0, <1>2, <1>6 DEF LeaveDue, ToWrite
    <3>3. r.call.op # "fire" /\ "update" \in ToWrite(p)' /\ ChangesRole(r)
             /\ WrittenRole(r) = "Recruta" =>
          /\ r.call.op = "warn" /\ r.row["target"].roleName = "Soldado"
          /\ "register" \in ToWrite(p)' \/ Fired(log', u) # {}
      BY <1>0, <1>2, <1>5 DEF LeaveDue, ToWrite
    <3> QED BY <1>3, <2>3, <3>1, <3>2, <3>3 DEF LeaveDue
  <2> QED BY <2>1, <2>2, <2>3
<1>10. ASSUME NEW v \in depts', ByOfficer(log', v) PROVE Leaving(v)'
  <2>1. CASE ByOfficer(log, v)
    BY <1>0, <1>6, <1>7, <2>1 DEF LeaversNoted
  <2>2. CASE w = "register" /\ v = u /\ r.call.op = "fire"
    <3>1. Leaving(v)
      BY <1>0, <1>2, <1>6, <2>2 DEF LeaveDue, ToWrite, Leaving
    <3> QED BY <1>7, <3>1
  <2> QED BY <1>5, <1>10, <2>1, <2>2
<1>11. ASSUME NEW v \in depts', Leaving(v) \/ Dismissing(v) \/ Fired(log, v) # {}
       PROVE  Leaving(v)' \/ Dismissing(v)' \/ Fired(log', v) # {}
  BY <1>5, <1>7, <1>8, <1>11
<1>12. ASSUME NEW v \in depts', user'[v].roleName = "Recruta"
       PROVE  Leaving(v)' \/ Dismissing(v)' \/ Fired(log', v) # {}
  <2>1. CASE user[v].roleName = "Recruta"
    BY <1>0, <1>6, <1>11, <2>1 DEF LeaversNoted
  <2>2. CASE w = "update" /\ v = u /\ ChangesRole(r) /\ WrittenRole(r) = "Recruta"
    <3>1. CASE r.call.op = "fire"
      <4>1. Leaving(v)
        BY <1>0, <1>2, <1>6, <2>2, <3>1 DEF LeaveDue, ToWrite, Leaving
      <4> QED BY <1>7, <4>1
    <3>2. CASE r.call.op # "fire"
      <4>1. Dismissing(v) \/ Fired(log, v) # {}
        BY <1>0, <1>2, <2>2, <3>2 DEF LeaveDue, ToWrite, Dismissing
      <4> QED BY <1>11, <4>1
    <3> QED BY <3>1, <3>2
  <2>3. w # "update" => user' = user
    BY <1>1 DEF WriteOf
  <2>4. w = "update" => UpdateUser(p)
    BY <1>1 DEF WriteOf
  <2>5. w = "update" =>
            user'[v].roleName = IF v = u /\ ChangesRole(r) THEN WrittenRole(r)
                                ELSE user[v].roleName
    BY <1>0, <1>6, <2>4, UpdatedRole
  <2> QED BY <1>12, <2>1, <2>2, <2>3, <2>5
<1> QED
  BY <1>9, <1>10, <1>12 DEF LeaversNoted

LEMMA PlanLeaves ==
    ASSUME NEW r \in Request, Decided(r), r.stage = "perms"
    PROVE  LET sent == Outstanding(Plan(r.call.op, r.row["target"]))
           IN  /\ r.call.op = "fire" => "deleteRoles" \in sent
               /\ r.call.op # "fire" /\ "update" \in sent /\ ChangesRole(r)
                     /\ WrittenRole(r) = "Recruta" =>
                  /\ r.call.op = "warn" /\ r.row["target"].roleName = "Soldado"
                  /\ "register" \in sent
<1> DEFINE op   == r.call.op
           t    == r.row["target"]
           sent == Outstanding(Plan(op, t))
<1>1. op \in Ops /\ t.roleName \in RoleNames
  BY DEF Request, Call, Who, UserRow
<1>2. op = "fire" => "deleteRoles" \in sent
  BY <1>1, PlanWrites
<1>3. ASSUME op # "fire", "update" \in sent, ChangesRole(r), WrittenRole(r) = "Recruta"
      PROVE  op = "warn" /\ t.roleName = "Soldado" /\ "register" \in sent
  <2>1. "deletePermissions" \in sent
    BY <1>3, PlanCleans
  <2>2. op = "warn"
    BY <1>1, <1>3, <2>1, PlanWrites DEF Ops, Change
  <2>3. t.advNum = 2 /\ NextDown(t.roleName) = "Recruta"
    BY <1>3, <2>2 DEF ChangesRole, WrittenRole, NewRole
  <2>4. t.roleName = "Soldado" /\ NextDown(t.roleName) # NoRole
    BY <1>1, <2>3, SoldadoAssumption, RolesAssumption
  <2>5. "register" \in sent
    BY <1>1, <2>2, <2>3, <2>4, PlanWrites DEF Dismissal
  <2> QED BY <2>2, <2>4, <2>5
<1> QED
  BY <1>2, <1>3

LEMMA NextDInv == DInv /\ [Next]_vars => DInv'
<1> SUFFICES ASSUME DInv, [Next]_vars PROVE DInv'
  OBVIOUS
<1>0. TInv /\ TInv' /\ setting' = setting
  BY NextTidy, SettingStays DEF DInv
<1> SUFFICES ASSUME ~ setting.faults PROVE LeaversNoted'
  BY <1>0 DEF DInv
<1>1. LeaversNoted
  BY DEF DInv
<1>2. ASSUME NEW p \in Procs, Write(p) PROVE LeaversNoted'
  BY <1>2, WriteNoted
<1>3. ASSUME NEW p \in Procs, \A q \in Procs \ {p} : req'[q] = req[q],
             ToWrite(p) = {}, LeaveDue(req[p])', UNCHANGED <<user, depts, log>>
      PROVE  LeaversNoted'
  <2>1. \A v : (Leaving(v) => Leaving(v)') /\ (Dismissing(v) => Dismissing(v)')
    BY <1>3 DEF Leaving, Dismissing, ToWrite
  <2>2. ASSUME NEW q \in Procs \ {p} PROVE LeaveDue(req[q])'
    <3>1. LeaveDue(req[q]) /\ req'[q] = req[q]
      BY <1>1, <1>3 DEF LeaversNoted
    <3> QED BY <1>3, <3>1 DEF LeaveDue, ChangesRole, WrittenRole
  <2> QED BY <1>1, <1>3, <2>1, <2>2 DEF LeaversNoted
<1>4. ASSUME NEW p \in Procs,
             \/ \E c \in Calls : Submit(p, c)
             \/ \E who \in Who : ReadRow(p, who) \/ ReadPerms(p, who)
             \/ Admit(p) \/ Refuse(p) \/ FailRead(p)
      PROVE  LeaversNoted'
  <2>1. /\ \A q \in Procs \ {p} : req'[q] = req[q]
        /\ ToWrite(p) = {} /\ Outstanding(req'[p].batches) = {}
        /\ UNCHANGED <<user, depts, log>>
    BY <1>0, <1>4, ReadTidy DEF ToWrite
  <2>2. LeaveDue(req[p])'
    BY <2>1 DEF LeaveDue
  <2> QED BY <1>3, <2>1, <2>2
<1>5. ASSUME NEW p \in Procs, Issue(p) PROVE LeaversNoted'
  <2> DEFINE r == req[p]
             sent == Outstanding(Plan(r.call.op, r.row["target"]))
  <2>1. /\ \A q \in Procs \ {p} : req'[q] = req[q]
        /\ ToWrite(p) = {} /\ UNCHANGED <<user, depts, log>>
        /\ req'[p].batches = Plan(r.call.op, r.row["target"])
        /\ req'[p].call = r.call /\ req'[p].row = r.row /\ r.stage = "perms"
    BY <1>0, <1>5, IssueTidy
  <2>2. r \in Request /\ Decided(r)
    BY <1>0 DEF TInv, IInv, TypeOK, Tidy
  <2>3. LeaveDue(req[p])'
    BY <2>1, <2>2, PlanLeaves DEF LeaveDue, ChangesRole, WrittenRole
  <2> QED BY <1>3, <2>1, <2>3
<1>6. CASE OtherStep
  <2>1. UNCHANGED <<user, depts, log, req>>
    BY <1>6, OtherKeeps
  <2>2. \A v : (Leaving(v)' <=> Leaving(v)) /\ (Dismissing(v)' <=> Dismissing(v))
    BY <2>1 DEF Leaving, Dismissing
  <2>3. ASSUME NEW q \in Procs PROVE LeaveDue(req[q])'
    <3>1. LeaveDue(req[q]) /\ req'[q] = req[q]
      BY <1>1, <2>1 DEF LeaversNoted
    <3> QED BY <2>1, <3>1 DEF LeaveDue, ChangesRole, WrittenRole
  <2> QED BY <1>1, <2>1, <2>2, <2>3 DEF LeaversNoted
<1>7. ASSUME NEW p \in Procs, Fail(p), ~ FailRead(p) PROVE FALSE
  BY <1>7 DEF Fail, LoseWrite
<1> QED
  BY <1>2, <1>4, <1>5, <1>6, <1>7 DEF Next, Step, OtherStep

\* Nobody in a departament has been fired by an officer, and a Recruta there
\* has been dismissed.
NobodyLeft == \A u \in depts : /\ ~ ByOfficer(log, u)
                               /\ user[u].roleName = "Recruta" => Fired(log, u) # {}

(***************************************************************************)
(* As long as no query fails, a Recruta at rest with a departament role is *)
(* one the system dismissed and no officer fired, whatever else was in     *)
(* flight: who is fired loses the role with the row that says so.          *)
(***************************************************************************)
THEOREM FiredMembersLeave == Spec /\ NobodyLeft => []OnlyWarningsLeaveRoles
<1>1. Init /\ NobodyLeft => DInv
  <2> SUFFICES ASSUME Init, NobodyLeft PROVE DInv
    OBVIOUS
  <2>1. \A p \in Procs : LeaveDue(req[p])
    BY IdleTidy DEF Init, LeaveDue
  <2> QED BY <2>1, InitTidy DEF DInv, LeaversNoted, NobodyLeft
<1>2. DInv => OnlyWarningsLeaveRoles
  <2> SUFFICES ASSUME DInv, AtRest, ~ setting.faults,
                      NEW u \in depts, user[u].roleName = "Recruta"
               PROVE  /\ Fired(log, u) # {}
                      /\ \A i \in Fired(log, u) : log[i].bySystem
    BY DEF OnlyWarningsLeaveRoles, Fired
  <2>1. \A p \in Procs : Outstanding(req[p].batches) = {}
    BY DEF DInv, TInv, Tidy, AtRest, Busy, Outstanding
  <2>2. ~ Leaving(u) /\ ~ Dismissing(u)
    BY <2>1 DEF Leaving, Dismissing
  <2> QED BY <2>2 DEF DInv, LeaversNoted, ByOfficer
<1> QED
  BY <1>1, <1>2, NextDInv, PTL DEF Spec
=============================================================================
