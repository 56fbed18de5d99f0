----------------------------- MODULE ListProofs -----------------------------
(***************************************************************************)
(* What lists of demotions, dismissals and warnings do to the history and  *)
(* to the career of those they name, beside the requests on one member.    *)
(***************************************************************************)
EXTENDS MassActionsProofs, LadderProofs

\* The entries of a list that change a role, and the role they lead to.
EntryChanges(m, i) == ~ (m.call.op = "warn" /\ m.readings[i].row.advNum # 2)

EntryRole(m, i) == MassRole(m.call.op, m.readings[i].row)

EntryPlan(m, i) == MassPlan(m.call.op, m.readings[i].row)

\* Until a list sends its writes it has them all; it has no others.
ListPlanned(m) ==
    /\ m.stage \in {"prepare", "third"} =>
          \A i \in 1..(m.at - 1) : \A w \in EntryPlan(m, i) : <<i, w>> \in m.todo
    /\ \A x \in m.todo : x[2] \in EntryPlan(m, x[1])

FullPlan(m) == \A i \in DOMAIN m.readings : \A w \in EntryPlan(m, i) : <<i, w>> \in m.todo

GInv == MassInv /\ TInv /\ \A d \in Desks : ListPlanned(desk[d])
-----------------------------------------------------------------------------
(***************************************************************************)
(* How a list goes on.                                                     *)
(***************************************************************************)
LEMMA ClearPlanned == ListPlanned(Clear) /\ Clear.stage = "idle" /\ Clear.todo = {}
BY DEF ListPlanned, Clear

LEMMA DatedAgain ==
    ASSUME GInv, NEW m \in MassRequest, m.at \in 1..Len(m.call.nicks),
           Len(m.readings) = m.at, NEW new, new = Redated(m)
    PROVE  /\ new \in Seq(Reading) /\ Len(new) = m.at /\ DOMAIN new = 1..m.at
           /\ DOMAIN m.readings = 1..m.at
           /\ \A i \in 1..m.at : new[i].row = m.readings[i].row
           /\ \A i \in 1..(m.at - 1) : new[i] = m.readings[i]
<1>1. m.readings \in Seq(Reading) /\ m.at \in Nat /\ m.at >= 1
  BY DEF MassRequest
<1>2. DOMAIN m.readings = 1..m.at
  BY <1>1, LenProperties
<1>3. m.at \in DOMAIN m.readings /\ now \in Nat
  BY <1>1, <1>2 DEF GInv, MassInv, IInv, TypeOK
<1>4. /\ new \in Seq(Reading) /\ Len(new) = m.at /\ DOMAIN new = 1..m.at
      /\ \A i \in 1..m.at : /\ new[i].row = m.readings[i].row
                            /\ i # m.at => new[i] = m.readings[i]
  BY <1>2, <1>3, RedatedSame
<1> QED BY <1>1, <1>2, <1>4

LEMMA PreparedPlanned ==
    ASSUME NEW m \in MassRequest, NEW readings \in Seq(Reading),
           m.at \in 1..Len(m.call.nicks), Len(readings) = m.at,
           \A i \in 1..(m.at - 1) :
               \A w \in MassPlan(m.call.op, readings[i].row) : <<i, w>> \in m.todo,
           \A x \in m.todo : x[2] \in MassPlan(m.call.op, readings[x[1]].row)
    PROVE  LET new == Prepared(m, readings, MassPlan(m.call.op, readings[m.at].row))
           IN  /\ ListPlanned(new) /\ (new.stage = "writes" => FullPlan(new))
               /\ new.readings = readings /\ new.call = m.call
               /\ new.stage \in {"prepare", "writes"}
<1> DEFINE plan == MassPlan(m.call.op, readings[m.at].row)
           todo == m.todo \cup ({m.at} \X plan)
           new  == Prepared(m, readings, plan)
<1>1. /\ m.at \in Nat /\ Len(m.call.nicks) \in Nat /\ DOMAIN readings = 1..m.at
      /\ m.at >= 1
  BY DEF MassRequest, MassCall
<1>2. /\ new.readings = readings /\ new.call = m.call /\ new.todo = todo
      /\ new.stage = IF m.at = Len(m.call.nicks) THEN "writes" ELSE "prepare"
      /\ new.at = IF m.at = Len(m.call.nicks) THEN m.at ELSE m.at + 1
  <2> HIDE DEF plan
  <2> QED BY DEF Prepared, MassRequest
<1>3. \A i \in 1..m.at : i = m.at \/ i \in 1..(m.at - 1)
  BY <1>1
<1>4. \A i \in 1..m.at : \A w \in MassPlan(m.call.op, readings[i].row) : <<i, w>> \in todo
  BY <1>3
<1>5. \A x \in todo : x[2] \in MassPlan(m.call.op, readings[x[1]].row)
  OBVIOUS
<1> HIDE DEF todo, new
<1>6. new.stage = "prepare" => new.at - 1 = m.at
  BY <1>1, <1>2
<1>7. ListPlanned(new)
  BY <1>2, <1>4, <1>5, <1>6 DEF ListPlanned, EntryPlan
<1>8. FullPlan(new)
  BY <1>1, <1>2, <1>4 DEF FullPlan, EntryPlan
<1> QED
  BY <1>2, <1>7, <1>8 DEF new

Walks(d) == \/ \E c \in Lists : SubmitList(d, c)
            \/ CheckNick(d) \/ RefuseList(d) \/ PrepareNick(d) \/ LogThird(d)

GivesUp(d) == /\ desk[d].stage \in {"check", "prepare", "third"}
              /\ desk' = [desk EXCEPT ![d] = Clear]
              /\ UNCHANGED <<vars, snapshots, submitted>>

(* Before its writes a list leaves the tables alone, but for the log rows  *)
(* of third warnings; it comes to its writes with all of them to make.     *)
LEMMA WalkStep ==
    ASSUME GInv, NEW d \in Desks, Walks(d) \/ GivesUp(d)
    PROVE  /\ \A e \in Desks \ {d} : desk'[e] = desk[e]
           /\ desk[d].stage # "writes"
           /\ ListPlanned(desk'[d])
           /\ desk'[d].stage = "writes" => FullPlan(desk'[d])
           /\ UNCHANGED <<user, perms, depts, now, req, issued, setting, snapshots>>
           /\ \/ log' = log
              \/ \E u \in Users : log' = Append(log, WarningRow(u))
<1> DEFINE m == desk[d]
<1>0. /\ m \in MassRequest /\ DeskSound(m) /\ ListPlanned(m)
      /\ desk \in [Desks -> MassRequest] /\ user \in [Users -> UserRow] /\ now \in Nat
  BY DEF GInv, MassInv, DesksInv, IInv, TypeOK
<1>1. ASSUME NEW new, desk' = [desk EXCEPT ![d] = new]
      PROVE  desk'[d] = new /\ \A e \in Desks \ {d} : desk'[e] = desk[e]
  BY <1>0, <1>1
<1>2. CASE GivesUp(d) \/ RefuseList(d)
  BY <1>0, <1>1, <1>2, ClearPlanned DEF GivesUp, RefuseList, vars, db
<1>3. ASSUME NEW c \in Lists, SubmitList(d, c)
      PROVE  /\ m.stage = "idle" /\ desk'[d].stage = "check" /\ ListPlanned(desk'[d])
             /\ \A e \in Desks \ {d} : desk'[e] = desk[e]
             /\ UNCHANGED <<vars, snapshots>>
  <2> DEFINE new == [Clear EXCEPT !.stage = "check", !.call = c]
  <2>1. new.stage = "check" /\ new.todo = {}
    BY DEF Clear
  <2>2. ListPlanned(new)
    BY <2>1 DEF ListPlanned
  <2>3. desk' = [desk EXCEPT ![d] = new] /\ m.stage = "idle" /\ UNCHANGED <<vars, snapshots>>
    BY <1>3 DEF SubmitList, Working
  <2> HIDE DEF new
  <2> QED BY <1>1, <2>1, <2>2, <2>3
<1>4. CASE CheckNick(d)
  <2>1. /\ m.stage = "check" /\ UNCHANGED <<vars, snapshots>> /\ m.todo = {}
        /\ \/ desk' = [desk EXCEPT ![d] = [m EXCEPT !.stage = "prepare", !.at = 1]]
           \/ desk' = [desk EXCEPT ![d] = [m EXCEPT !.at = @ + 1]]
    BY <1>0, <1>4 DEF CheckNick, DeskSound
  <2>2. desk'[d].todo = {} /\ (\/ desk'[d].stage = "prepare" /\ desk'[d].at = 1
                               \/ desk'[d].stage = "check")
    <3>1. CASE desk' = [desk EXCEPT ![d] = [m EXCEPT !.stage = "prepare", !.at = 1]]
      BY <1>0, <2>1, <3>1 DEF MassRequest
    <3>2. CASE desk' = [desk EXCEPT ![d] = [m EXCEPT !.at = @ + 1]]
      BY <1>0, <2>1, <3>2 DEF MassRequest
    <3> QED BY <2>1, <3>1, <3>2
  <2>3. ListPlanned(desk'[d])
    BY <2>2 DEF ListPlanned
  <2> QED BY <1>1, <2>1, <2>2, <2>3 DEF vars, db
<1>5. CASE PrepareNick(d)
  <2> DEFINE t        == user[m.call.nicks[m.at]]
             reading  == [row |-> t, stamp |-> now]
             readings == Append(m.readings, reading)
             ready    == Prepared(m, readings, MassPlan(m.call.op, t))
             third    == [m EXCEPT !.stage = "third", !.readings = readings]
  <2>1. /\ m.stage = "prepare" /\ UNCHANGED <<vars, snapshots>>
        /\ \/ desk' = [desk EXCEPT ![d] = third]
           \/ desk' = [desk EXCEPT ![d] = Clear]
           \/ desk' = [desk EXCEPT ![d] = ready]
    BY <1>5 DEF PrepareNick, NickAt
  <2>2. /\ m.at \in 1..Len(m.call.nicks) /\ Len(m.readings) = m.at - 1
        /\ m.readings \in Seq(Reading) /\ reading \in Reading /\ m.at \in Nat
        /\ NicksFound(m) /\ TodoSound(m)
    BY <1>0, <2>1 DEF DeskSound, MassRequest, MassCall, NicksFound, Reading
  <2>3. /\ readings \in Seq(Reading) /\ Len(readings) = m.at
        /\ readings[m.at].row = t
        /\ \A i \in 1..(m.at - 1) : readings[i] = m.readings[i]
        /\ DOMAIN m.readings = 1..(m.at - 1)
    <3> HIDE DEF t
    <3> QED BY <2>2, AppendProperties, LenProperties
  <2> HIDE DEF t, readings
  <2>4. /\ \A i \in 1..(m.at - 1) :
              \A w \in MassPlan(m.call.op, readings[i].row) : <<i, w>> \in m.todo
        /\ \A x \in m.todo : x[2] \in MassPlan(m.call.op, readings[x[1]].row)
    BY <1>0, <2>1, <2>2, <2>3 DEF ListPlanned, EntryPlan, TodoSound
  <2>5. CASE desk' = [desk EXCEPT ![d] = ready]
    <3>1. ListPlanned(ready) /\ (ready.stage = "writes" => FullPlan(ready))
      BY <1>0, <2>2, <2>3, <2>4, PreparedPlanned
    <3> HIDE DEF ready
    <3> QED BY <1>1, <2>1, <2>5, <3>1 DEF vars, db
  <2>6. CASE desk' = [desk EXCEPT ![d] = third]
    <3>1. /\ third.stage = "third" /\ third.readings = readings /\ third.at = m.at
          /\ third.todo = m.todo /\ third.call = m.call
      BY <1>0 DEF MassRequest
    <3> HIDE DEF third
    <3>2. ListPlanned(third)
      BY <2>4, <3>1 DEF ListPlanned, EntryPlan
    <3> QED BY <1>1, <2>1, <2>6, <3>1, <3>2 DEF vars, db
  <2>7. CASE desk' = [desk EXCEPT ![d] = Clear]
    BY <1>1, <2>1, <2>7, ClearPlanned DEF vars, db
  <2> QED BY <2>1, <2>5, <2>6, <2>7
<1>6. CASE LogThird(d)
  <2> DEFINE t        == m.readings[m.at].row
             readings == Redated(m)
             ready    == Prepared(m, readings, MassPlan("warn", t))
  <2>1. /\ m.stage = "third"
        /\ UNCHANGED <<user, perms, depts, now, req, issued, setting, snapshots>>
        /\ log' = Append(log, WarningRow(m.call.nicks[m.at]))
        /\ \/ desk' = [desk EXCEPT ![d] = Clear]
           \/ desk' = [desk EXCEPT ![d] = ready]
    BY <1>6 DEF LogThird, RowAt, NickAt
  <2>2. /\ m.at \in 1..Len(m.call.nicks) /\ Len(m.readings) = m.at
        /\ m.readings \in Seq(Reading) /\ m.call.op = "warn"
        /\ NicksFound(m) /\ m.call.nicks[m.at] \in Users
    BY <1>0, <2>1 DEF DeskSound, MassRequest, NicksFound
  <2>a. /\ readings \in Seq(Reading) /\ Len(readings) = m.at
        /\ DOMAIN m.readings = 1..m.at
        /\ \A i \in 1..m.at : readings[i].row = m.readings[i].row
    BY <1>0, <2>2, DatedAgain
  <2>3. /\ \A i \in 1..(m.at - 1) :
              \A w \in MassPlan(m.call.op, m.readings[i].row) : <<i, w>> \in m.todo
        /\ \A x \in m.todo : x[2] \in MassPlan(m.call.op, m.readings[x[1]].row)
    BY <1>0, <2>1 DEF ListPlanned, EntryPlan
  <2> HIDE DEF readings
  <2>b. /\ \A i \in 1..(m.at - 1) :
              \A w \in MassPlan(m.call.op, readings[i].row) : <<i, w>> \in m.todo
        /\ \A x \in m.todo : x[2] \in MassPlan(m.call.op, readings[x[1]].row)
        /\ readings[m.at].row = t
    <3>1. /\ \A i \in 1..(m.at - 1) : i \in 1..m.at
          /\ m.at \in 1..m.at /\ \A x \in m.todo : x[1] \in 1..m.at
      BY <1>0, <2>1, <2>2, <2>a DEF DeskSound, TodoSound
    <3> QED BY <2>3, <2>a, <3>1
  <2>4. CASE desk' = [desk EXCEPT ![d] = ready]
    <3>1. ListPlanned(ready) /\ (ready.stage = "writes" => FullPlan(ready))
      BY <1>0, <2>2, <2>a, <2>b, PreparedPlanned
    <3> HIDE DEF ready
    <3> QED BY <1>1, <2>1, <2>2, <2>4, <3>1
  <2>5. CASE desk' = [desk EXCEPT ![d] = Clear]
    BY <1>1, <2>1, <2>2, <2>5, ClearPlanned
  <2> QED BY <2>1, <2>4, <2>5
<1> QED
  BY <1>2, <1>3, <1>4, <1>5, <1>6 DEF Walks, vars, db

(* A write of a list that is settled is one it had to make.                *)
LEMMA SettledStep ==
    ASSUME GInv, NEW d \in Desks, NEW i, NEW w, MassLanded(d, i, w)
    PROVE  /\ \A e \in Desks \ {d} : desk'[e] = desk[e]
           /\ desk[d].stage = "writes" /\ i \in DOMAIN desk[d].readings
           /\ w \in EntryPlan(desk[d], i)
           /\ <<i, w>> \in desk[d].todo /\ desk'[d].todo = desk[d].todo \ {<<i, w>>}
           /\ \/ desk'[d] = Clear
              \/ /\ desk'[d].stage = "writes" /\ desk'[d].call = desk[d].call
                 /\ desk'[d].readings = desk[d].readings
           /\ ListPlanned(desk'[d])
           /\ UNCHANGED <<now, req, issued, setting>>
<1> DEFINE m == desk[d]
           left == [m EXCEPT !.todo = @ \ {<<i, w>>}]
<1>0. /\ m \in MassRequest /\ DeskSound(m) /\ ListPlanned(m)
      /\ desk \in [Desks -> MassRequest]
  BY DEF GInv, MassInv, DesksInv
<1>1. /\ m.stage = "writes" /\ <<i, w>> \in m.todo
      /\ desk' = [desk EXCEPT ![d] = IF m.todo = {<<i, w>>} THEN Clear ELSE left]
      /\ UNCHANGED <<now, req, issued, setting>>
  BY DEF MassLanded, AfterMassWrite
<1>2. i \in DOMAIN m.readings /\ w \in EntryPlan(m, i)
  <2>1. <<i, w>>[1] = i /\ <<i, w>>[2] = w
    OBVIOUS
  <2> QED BY <1>0, <1>1, <2>1 DEF DeskSound, TodoSound, ListPlanned
<1>3. /\ left.stage = "writes" /\ left.call = m.call /\ left.readings = m.readings
      /\ left.todo = m.todo \ {<<i, w>>}
  BY <1>0, <1>1 DEF MassRequest
<1> HIDE DEF left
<1>4. ListPlanned(left)
  BY <1>0, <1>3 DEF ListPlanned, EntryPlan
<1>5. desk'[d] = IF m.todo = {<<i, w>>} THEN Clear ELSE left
  BY <1>0, <1>1
<1>6. desk'[d].todo = m.todo \ {<<i, w>>} /\ ListPlanned(desk'[d])
  BY <1>3, <1>4, <1>5, ClearPlanned
<1> QED
  BY <1>0, <1>1, <1>2, <1>3, <1>5, <1>6

\* A write of a list that lands changes only the table it is about.
ListWriteOf(d, i, w) ==
    /\ MassLanded(d, i, w) /\ i \in DOMAIN desk[d].readings
    /\ \/ w = "update" /\ MassUpdateUser(d, i) /\ UNCHANGED <<perms, log, snapshots>>
       \/ w = "register" /\ MassRegister(d, i) /\ UNCHANGED <<user, perms, snapshots>>
       \/ w = "warning" /\ MassLogWarning(d, i) /\ UNCHANGED <<user, perms, snapshots>>
       \/ /\ w = "retireWarnings" /\ MassRetireWarnings(d, i)
          /\ UNCHANGED <<user, perms, snapshots>>
       \/ w = "deleteRoles" /\ UNCHANGED <<user, perms, log, snapshots>>
       \/ w = "snapshot" /\ TakeSnapshot(d, i) /\ UNCHANGED <<user, perms, log>>
       \/ w \in {"deleteCourses", "deletePermissions"} /\ UNCHANGED <<user, log, snapshots>>

LEMMA ListWriteCases ==
    ASSUME NEW d \in Desks, MassWrite(d)
    PROVE  \E i \in DOMAIN desk[d].readings, w \in MassWrites : ListWriteOf(d, i, w)
<1>1. PICK i \in DOMAIN desk[d].readings :
          \/ MassUpdateUser(d, i) \/ MassRegister(d, i) \/ MassLogWarning(d, i)
          \/ MassRetireWarnings(d, i) \/ MassDeleteRoles(d, i) \/ TakeSnapshot(d, i)
          \/ \E w \in {"deleteCourses", "deletePermissions"} :
                MassDeletePermissions(d, i, w)
  BY DEF MassWrite
<1>2. {"update", "register", "warning", "retireWarnings", "deleteRoles", "snapshot",
       "deleteCourses", "deletePermissions"} \subseteq MassWrites
  BY DEF MassWrites, Writes
<1>3. MassUpdateUser(d, i) => ListWriteOf(d, i, "update")
  BY DEF ListWriteOf, MassUpdateUser
<1>4. MassRegister(d, i) => ListWriteOf(d, i, "register")
  BY DEF ListWriteOf, MassRegister
<1>5. MassLogWarning(d, i) => ListWriteOf(d, i, "warning")
  BY DEF ListWriteOf, MassLogWarning
<1>6. MassRetireWarnings(d, i) => ListWriteOf(d, i, "retireWarnings")
  BY DEF ListWriteOf, MassRetireWarnings
<1>7. MassDeleteRoles(d, i) => ListWriteOf(d, i, "deleteRoles")
  BY DEF ListWriteOf, MassDeleteRoles
<1>8. TakeSnapshot(d, i) => ListWriteOf(d, i, "snapshot")
  BY DEF ListWriteOf, TakeSnapshot, db
<1>9. ASSUME NEW w \in {"deleteCourses", "deletePermissions"},
             MassDeletePermissions(d, i, w)
      PROVE  ListWriteOf(d, i, w)
  BY <1>9 DEF ListWriteOf, MassDeletePermissions
<1> QED
  BY <1>1, <1>2, <1>3, <1>4, <1>5, <1>6, <1>7, <1>8, <1>9

\* The steps of the lists, told apart by what they touch.
ListStep(d) == \/ Walks(d) \/ GivesUp(d)
               \/ \E i \in DOMAIN desk[d].readings, w \in MassWrites : ListWriteOf(d, i, w)

LostByList(d) == /\ setting.faults
                 /\ \E i, w : MassLanded(d, i, w) /\ UNCHANGED <<db, snapshots>>

LEMMA MassCases ==
    ASSUME [MassNext]_allVars
    PROVE  \/ [Next]_vars /\ UNCHANGED massVars
                          /\ (Considerate \/ UNCHANGED vars)
           \/ \E d \in Desks : ListStep(d) /\ UNCHANGED <<now, req, issued, setting>>
           \/ \E d \in Desks : LostByList(d) /\ UNCHANGED <<now, req, issued, setting>>
<1>1. ASSUME NEW d \in Desks, MassFail(d)
      PROVE  (ListStep(d) \/ LostByList(d)) /\ UNCHANGED <<now, req, issued, setting>>
  <2>1. CASE GivesUp(d)
    BY <2>1 DEF ListStep, GivesUp, vars
  <2>2. ASSUME NEW x, MassLanded(d, x[1], x[2]), UNCHANGED <<db, snapshots>>
        PROVE  LostByList(d) /\ UNCHANGED <<now, req, issued, setting>>
    BY <1>1, <2>2 DEF LostByList, MassFail, MassLanded
  <2> QED BY <1>1, <2>1, <2>2 DEF MassFail, GivesUp
<1>2. ASSUME NEW d \in Desks, MassWrite(d)
      PROVE  ListStep(d) /\ UNCHANGED <<now, req, issued, setting>>
  <2>1. PICK i \in DOMAIN desk[d].readings, w \in MassWrites : ListWriteOf(d, i, w)
    BY <1>2, ListWriteCases
  <2> QED BY <2>1 DEF ListStep, ListWriteOf, MassLanded
<1>3. ASSUME NEW d \in Desks, Walks(d)
      PROVE  ListStep(d) /\ UNCHANGED <<now, req, issued, setting>>
  BY <1>3 DEF ListStep, Walks, SubmitList, CheckNick, RefuseList, PrepareNick, LogThird, vars
<1> QED
  BY <1>1, <1>2, <1>3 DEF MassNext, MassStep, Walks, allVars, vars, massVars

LEMMA GInvInit == MassInit => GInv
<1> SUFFICES ASSUME MassInit PROVE GInv
  OBVIOUS
<1>1. MassInv /\ TInv /\ desk = [d \in Desks |-> Clear]
  BY MassInitInv, InitTidy DEF MassInit
<1> QED
  BY <1>1, ClearPlanned DEF GInv

LEMMA GInvNext == GInv /\ [MassNext]_allVars => GInv'
<1> SUFFICES ASSUME GInv, [MassNext]_allVars PROVE GInv'
  OBVIOUS
<1>0. MassInv' /\ IInv'
  BY MassNextInv DEF GInv, MassInv
<1>1. CASE [Next]_vars /\ UNCHANGED massVars
  <2>1. TInv'
    BY <1>1, NextTidy DEF GInv
  <2> QED BY <1>0, <1>1, <2>1 DEF GInv, massVars
<1>2. UNCHANGED req => TInv'
  BY <1>0 DEF GInv, TInv
<1>3. ASSUME NEW d \in Desks, Walks(d) \/ GivesUp(d) PROVE GInv'
  <2>1. /\ ListPlanned(desk'[d]) /\ UNCHANGED req
        /\ \A e \in Desks \ {d} : desk'[e] = desk[e]
    BY <1>3, WalkStep
  <2> QED BY <1>0, <1>2, <2>1 DEF GInv
<1>4. ASSUME NEW d \in Desks, NEW i, NEW w, MassLanded(d, i, w) PROVE GInv'
  <2>1. /\ ListPlanned(desk'[d]) /\ UNCHANGED req
        /\ \A e \in Desks \ {d} : desk'[e] = desk[e]
    BY <1>4, SettledStep
  <2> QED BY <1>0, <1>2, <2>1 DEF GInv
<1> QED
  BY <1>1, <1>3, <1>4, MassCases DEF ListStep, ListWriteOf, LostByList
-----------------------------------------------------------------------------
(***************************************************************************)
(* What the writes of a list leave in the tables.                          *)
(***************************************************************************)
Retired(row, u) == IF row.type = "WARNING" /\ row.target = u
                   THEN [row EXCEPT !.isActive = FALSE] ELSE row

LEMMA RowRetired ==
    ASSUME NEW row \in LogRow, NEW u
    PROVE  /\ Retired(row, u).target = row.target /\ Retired(row, u).type = row.type
           /\ Retired(row, u).newRole = row.newRole
           /\ Retired(row, u).bySystem = row.bySystem
           /\ Retired(row, u).isActive =
                 (row.isActive /\ ~ (row.type = "WARNING" /\ row.target = u))
BY DEF Retired, LogRow

LEMMA EntryKnown ==
    ASSUME GInv, NEW d \in Desks, NEW i, NEW w, MassLanded(d, i, w)
    PROVE  /\ NickAt(d, i) \in Users /\ RowAt(d, i) \in UserRow
           /\ desk[d].call.op \in MassOps
           /\ OnTrack(NickAt(d, i), RowAt(d, i).roleName)
           /\ ~ Throws(desk[d].call.op, RowAt(d, i))
           /\ EntryRole(desk[d], i) = MassRole(desk[d].call.op, RowAt(d, i))
           /\ EntryChanges(desk[d], i) <=>
                 ~ (desk[d].call.op = "warn" /\ RowAt(d, i).advNum # 2)
BY MassLandedSound DEF GInv, EntryRole, EntryChanges, RowAt

LEMMA ListUpdated ==
    ASSUME GInv, NEW d \in Desks, NEW i, MassUpdateUser(d, i), NEW v \in Users
    PROVE  /\ user'[v].roleName =
                 IF v = NickAt(d, i) /\ EntryChanges(desk[d], i)
                 THEN EntryRole(desk[d], i) ELSE user[v].roleName
           /\ user'[v].advNum =
                 IF v = NickAt(d, i) /\ desk[d].call.op = "warn"
                 THEN IF RowAt(d, i).advNum = 2 THEN 0 ELSE RowAt(d, i).advNum + 1
                 ELSE user[v].advNum
<1> DEFINE op == desk[d].call.op
           t  == RowAt(d, i)
           u  == NickAt(d, i)
           stamp == desk[d].readings[i].stamp
           new == MassUpdated(op, t, user[u], stamp)
<1>1. MassLanded(d, i, "update") /\ user' = [user EXCEPT ![u] = new]
  BY DEF MassUpdateUser
<1>2. /\ user \in [Users -> UserRow] /\ u \in Users /\ t \in UserRow
      /\ EntryRole(desk[d], i) = MassRole(op, t)
      /\ EntryChanges(desk[d], i) <=> ~ (op = "warn" /\ t.advNum # 2)
  BY <1>1, EntryKnown DEF GInv, MassInv, IInv, TypeOK
<1>3. user'[v] = IF v = u THEN new ELSE user[v]
  <2> HIDE DEF new, u
  <2> QED BY <1>1, <1>2
<1> HIDE DEF op, t, u, stamp
<1>4. /\ new.roleName = IF op = "warn" /\ t.advNum # 2 THEN user[u].roleName
                        ELSE MassRole(op, t)
      /\ new.advNum = IF op = "warn" THEN IF t.advNum = 2 THEN 0 ELSE t.advNum + 1
                      ELSE user[u].advNum
  <2> DEFINE ranked == Ranked(user[u], MassRole(op, t), stamp)
  <2>1. user[u] \in UserRow
    BY <1>2
  <2>2. /\ ranked.roleName = MassRole(op, t) /\ ranked.advNum = user[u].advNum
        /\ [ranked EXCEPT !.advNum = 0].roleName = MassRole(op, t)
        /\ [ranked EXCEPT !.advNum = 0].advNum = 0
    BY <2>1 DEF Ranked, UserRow
  <2>3. /\ Warned(user[u], t).roleName = user[u].roleName
        /\ Warned(user[u], t).advNum = t.advNum + 1
    BY <2>1 DEF Warned, UserRow
  <2> HIDE DEF ranked
  <2> QED BY <2>2, <2>3 DEF MassUpdated, ranked
<1> HIDE DEF new
<1> QED
  BY <1>2, <1>3, <1>4 DEF op, t, u

LEMMA ListRegistered ==
    ASSUME GInv, NEW d \in Desks, NEW i, MassRegister(d, i)
    PROVE  LET row == MassRow(desk[d].call.op, RowAt(d, i), NickAt(d, i))
           IN  /\ row \in LogRow /\ log' = Append(log, row)
               /\ row.newRole = EntryRole(desk[d], i) /\ row.target = NickAt(d, i)
               /\ row.bySystem = (desk[d].call.op = "warn")
               /\ row.type # "WARNING" /\ row.newRole \in RoleNames
<1> DEFINE op == desk[d].call.op
           t  == RowAt(d, i)
           u  == NickAt(d, i)
           row == MassRow(op, t, u)
<1>1. MassLanded(d, i, "register") /\ log' = Append(log, row)
  BY DEF MassRegister
<1>2. /\ u \in Users /\ EntryRole(desk[d], i) = MassRole(op, t)
      /\ EntryChanges(desk[d], i) <=> ~ (op = "warn" /\ t.advNum # 2)
      /\ t \in UserRow /\ OnTrack(u, t.roleName) /\ ~ Throws(op, t) /\ op \in MassOps
  BY <1>1, EntryKnown
<1>3. "register" \in MassPlan(op, t)
  BY <1>1, SettledStep DEF EntryPlan, RowAt
<1> HIDE DEF op, t, u
<1>4. op = "warn" => t.advNum = 2
  BY <1>3 DEF MassPlan, MassWarning
<1>5. MassRole(op, t) \in RoleNames
  BY <1>2, <1>4, MassRoleSound
<1>6. /\ row.newRole = MassRole(op, t) /\ row.target = u /\ row.bySystem = (op = "warn")
      /\ row.type # "WARNING" /\ row \in LogRow
  <2>1. (op = "warn") \in BOOLEAN
    OBVIOUS
  <2> QED BY <1>2, <1>5, <2>1 DEF MassRow, LogRow
<1> QED
  BY <1>1, <1>2, <1>5, <1>6 DEF op, t, u

(* Rows are added to the history and retired, their roles never forgotten. *)
LEMMA ListKeepsNames ==
    ASSUME GInv, NEW d \in Desks, NEW i, NEW w, ListWriteOf(d, i, w), NEW v
    PROVE  /\ LoggedRoles(v) \subseteq NamedRoles(log', v)
           /\ w = "register" => EntryRole(desk[d], i) \in NamedRoles(log', NickAt(d, i))
<1>0. log \in Seq(LogRow) /\ MassLanded(d, i, w)
  BY DEF GInv, MassInv, IInv, TypeOK, ListWriteOf
<1>1. CASE w \notin {"register", "warning", "retireWarnings"}
  BY <1>1 DEF ListWriteOf, LoggedRoles
<1>2. CASE w = "register"
  <2> DEFINE row == MassRow(desk[d].call.op, RowAt(d, i), NickAt(d, i))
  <2>1. MassRegister(d, i)
    BY <1>2 DEF ListWriteOf
  <2>2. /\ row \in LogRow /\ log' = Append(log, row)
        /\ row.newRole = EntryRole(desk[d], i) /\ row.target = NickAt(d, i)
    BY <2>1, ListRegistered
  <2> HIDE DEF row
  <2> QED BY <1>0, <2>2, NamesAdded DEF LoggedRoles
<1>3. CASE w = "warning"
  <2>1. MassLogWarning(d, i)
    BY <1>3 DEF ListWriteOf
  <2>2. log' = Append(log, WarningRow(NickAt(d, i))) /\ NickAt(d, i) \in Users
    BY <1>0, <2>1, EntryKnown DEF MassLogWarning
  <2>3. WarningRow(NickAt(d, i)) \in LogRow
    BY <2>2 DEF WarningRow, LogRow
  <2> QED BY <1>0, <1>3, <2>2, <2>3, NamesAdded DEF LoggedRoles
<1>4. CASE w = "retireWarnings"
  <2>1. MassRetireWarnings(d, i)
    BY <1>4 DEF ListWriteOf
  <2>2. log' = [k \in DOMAIN log |-> Retired(log[k], NickAt(d, i))]
    BY <2>1 DEF MassRetireWarnings, Retired
  <2>3. \A k \in DOMAIN log : /\ Retired(log[k], NickAt(d, i)).target = log[k].target
                              /\ Retired(log[k], NickAt(d, i)).newRole = log[k].newRole
    <3>1. \A k \in DOMAIN log : log[k] \in LogRow
      BY <1>0
    <3> QED BY <3>1, RowRetired
  <2>4. NamedRoles(log, v) \subseteq NamedRoles(log', v)
    BY <2>2, <2>3 DEF NamedRoles
  <2> QED BY <1>4, <2>4 DEF LoggedRoles
<1> QED
  BY <1>1, <1>2, <1>3, <1>4

LEMMA WarningKeepsNames ==
    ASSUME log \in Seq(LogRow), NEW u \in Users, log' = Append(log, WarningRow(u)), NEW v
    PROVE  LoggedRoles(v) \subseteq NamedRoles(log', v)
<1>1. WarningRow(u) \in LogRow
  BY DEF WarningRow, LogRow
<1> QED
  BY <1>1, NamesAdded DEF LoggedRoles

LEMMA NextKeepsNames ==
    ASSUME TInv, [Next]_vars, NEW v
    PROVE  LoggedRoles(v) \subseteq NamedRoles(log', v)
<1>1. ASSUME NEW p \in Procs, Write(p) PROVE LoggedRoles(v) \subseteq NamedRoles(log', v)
  <2>1. IInv
    BY DEF TInv
  <2>2. LoggedRoles(v) \subseteq LoggedRoles(v)'
    BY <1>1, <2>1, NamesKept
  <2> QED BY <2>2 DEF LoggedRoles
<1>2. UNCHANGED log => LoggedRoles(v) \subseteq NamedRoles(log', v)
  BY DEF LoggedRoles
<1>3. ASSUME NEW p \in Procs,
             \/ \E c \in Calls : Submit(p, c)
             \/ \E who \in Who : ReadRow(p, who) \/ ReadPerms(p, who)
             \/ Admit(p) \/ Refuse(p) \/ Issue(p) \/ Fail(p)
      PROVE  UNCHANGED log
  BY <1>3 DEF Submit, ReadRow, ReadPerms, Admit, Refuse, Issue, Fail, FailRead, LoseWrite, db
<1>4. CASE OtherStep
  BY <1>2, <1>4, OtherKeeps
<1> QED
  BY <1>1, <1>2, <1>3, <1>4 DEF Next, Step, OtherStep
-----------------------------------------------------------------------------
(***************************************************************************)
(* The role a member holds and the roles the history names, with lists in  *)
(* flight: a list that has sent its writes owes the rows not yet written.  *)
(***************************************************************************)
OwedBy(d, u) == {EntryRole(desk[d], i) :
                    i \in {j \in DOMAIN desk[d].readings :
                              <<j, "register">> \in desk[d].todo /\ NickAt(d, j) = u}}

Owed(u) == UNION {OwedBy(d, u) : d \in {e \in Desks : desk[e].stage = "writes"}}

OwedRoles == [u \in Users |-> Owed(u)]

\* An entry whose update is still to come has the row about it still to come
\* too, or written.
ListNamed(m) ==
    m.stage = "writes" =>
        \A i \in DOMAIN m.readings :
            <<i, "update">> \in m.todo /\ EntryChanges(m, i) =>
                \/ <<i, "register">> \in m.todo
                \/ EntryRole(m, i) \in NamedRoles(log, m.call.nicks[i])

ListsNamed == HistoryNamed(OwedRoles) /\ \A d \in Desks : ListNamed(desk[d])

NInv == GInv /\ (~ setting.faults => ListsNamed)

(* What a list that only walks, or another list, owes and has named stays. *)
LEMMA NamedStays ==
    ASSUME NEW m, ListNamed(m), \A v : LoggedRoles(v) \subseteq NamedRoles(log', v)
    PROVE  m.stage = "writes" =>
              \A i \in DOMAIN m.readings :
                  <<i, "update">> \in m.todo /\ EntryChanges(m, i) =>
                      \/ <<i, "register">> \in m.todo
                      \/ EntryRole(m, i) \in NamedRoles(log', m.call.nicks[i])
BY DEF ListNamed, LoggedRoles

LEMMA RowsStayDue ==
    ASSUME HistoryNamed(OwedRoles), UNCHANGED req,
           \A v : LoggedRoles(v) \subseteq NamedRoles(log', v)
    PROVE  /\ \A p \in Procs : RowDue(req[p])'
           /\ \A v : /\ LoggedRoles(v) \subseteq LoggedRoles(v)'
                     /\ PendingRoles(v)' = PendingRoles(v)
<1>1. \A v : LoggedRoles(v) \subseteq LoggedRoles(v)' /\ PendingRoles(v)' = PendingRoles(v)
  BY DEF LoggedRoles, PendingRoles
<1>2. ASSUME NEW p \in Procs PROVE RowDue(req[p])'
  <2>1. RowDue(req[p]) /\ req'[p] = req[p]
    BY DEF HistoryNamed
  <2>2. LoggedRoles(req[p].call.target) \subseteq NamedRoles(log', req[p].call.target)
    OBVIOUS
  <2> QED BY <2>1, <2>2 DEF RowDue, ChangesRole, WrittenRole, LoggedRoles
<1> QED
  BY <1>1, <1>2

LEMMA WalkNamed ==
    ASSUME GInv, GInv', ListsNamed, NEW d \in Desks, Walks(d) \/ GivesUp(d)
    PROVE  ListsNamed'
<1>1. /\ \A e \in Desks \ {d} : desk'[e] = desk[e]
      /\ desk[d].stage # "writes"
      /\ desk'[d].stage = "writes" => FullPlan(desk'[d])
      /\ UNCHANGED <<user, req>>
      /\ log' = log \/ \E u \in Users : log' = Append(log, WarningRow(u))
  BY WalkStep
<1>2. \A v : LoggedRoles(v) \subseteq NamedRoles(log', v)
  BY <1>1, WarningKeepsNames DEF GInv, MassInv, IInv, TypeOK, LoggedRoles
<1>3. HistoryNamed(OwedRoles)
  BY DEF ListsNamed
<1>4. /\ \A p \in Procs : RowDue(req[p])'
      /\ \A v : LoggedRoles(v) \subseteq LoggedRoles(v)' /\ PendingRoles(v)' = PendingRoles(v)
  BY <1>1, <1>2, <1>3, RowsStayDue
<1>5. ASSUME NEW v \in Users PROVE OwedRoles[v] \subseteq OwedRoles'[v]
  <2>1. ASSUME NEW role \in Owed(v) PROVE role \in Owed(v)'
    <3>1. PICK e \in Desks : desk[e].stage = "writes" /\ role \in OwedBy(e, v)
      BY <2>1 DEF Owed
    <3>2. e # d /\ desk'[e] = desk[e]
      BY <1>1, <3>1
    <3>3. role \in OwedBy(e, v)'
      BY <3>1, <3>2 DEF OwedBy, EntryRole, NickAt
    <3> QED BY <3>1, <3>2, <3>3 DEF Owed
  <2> QED BY <2>1 DEF OwedRoles
<1>6. ASSUME NEW e \in Desks PROVE ListNamed(desk[e])'
  <2>1. CASE e # d
    <3>1. ListNamed(desk[e]) /\ desk'[e] = desk[e]
      BY <1>1, <2>1 DEF ListsNamed
    <3> QED BY <1>2, <3>1, NamedStays DEF ListNamed, EntryChanges, EntryRole
  <2>2. CASE e = d /\ desk'[d].stage = "writes"
    <3>1. ASSUME NEW i \in DOMAIN desk'[d].readings, EntryChanges(desk[d], i)'
          PROVE  "register" \in EntryPlan(desk[d], i)'
      <4>1. desk'[d].call.op \in {"warn", "demote", "fire"}
        <5>1. desk' \in [Desks -> MassRequest]
          BY DEF GInv, MassInv, DesksInv
        <5>2. desk'[d].call \in MassCall
          BY <5>1 DEF MassRequest
        <5> QED BY <5>2 DEF MassCall, MassOps
      <4> QED BY <3>1, <4>1 DEF EntryChanges, EntryPlan, MassPlan, MassDismissal, MassChange
    <3>2. ASSUME NEW i \in DOMAIN desk'[d].readings, EntryChanges(desk[d], i)'
          PROVE  <<i, "register">> \in desk'[d].todo
      BY <1>1, <2>2, <3>1, <3>2 DEF FullPlan, EntryPlan
    <3> QED BY <2>2, <3>2 DEF ListNamed
  <2>3. CASE e = d /\ desk'[d].stage # "writes"
    BY <2>3 DEF ListNamed
  <2> QED BY <2>1, <2>2, <2>3
<1>7. HistoryNamed(OwedRoles)'
  BY <1>1, <1>3, <1>4, <1>5 DEF HistoryNamed
<1> QED
  BY <1>6, <1>7 DEF ListsNamed

LEMMA ListWriteNamed ==
    ASSUME GInv, ListsNamed, NEW d \in Desks, NEW i \in DOMAIN desk[d].readings, NEW w,
           ListWriteOf(d, i, w)
    PROVE  ListsNamed'
<1> DEFINE m == desk[d]
           u == NickAt(d, i)
<1>1. /\ \A e \in Desks \ {d} : desk'[e] = desk[e]
      /\ m.stage = "writes"
      /\ <<i, w>> \in m.todo /\ desk'[d].todo = m.todo \ {<<i, w>>}
      /\ \/ desk'[d] = Clear
         \/ /\ desk'[d].stage = "writes" /\ desk'[d].call = m.call
            /\ desk'[d].readings = m.readings
      /\ UNCHANGED req
  BY SettledStep DEF ListWriteOf
<1>2. desk'[d].todo # {} => /\ desk'[d].stage = "writes" /\ desk'[d].call = m.call
                            /\ desk'[d].readings = m.readings
  BY <1>1, ClearPlanned
<1>3. /\ \A v : LoggedRoles(v) \subseteq NamedRoles(log', v)
      /\ w = "register" => EntryRole(m, i) \in NamedRoles(log', u)
  BY ListKeepsNames
<1>4. HistoryNamed(OwedRoles)
  BY DEF ListsNamed
<1>5. /\ \A p \in Procs : RowDue(req[p])'
      /\ \A v : LoggedRoles(v) \subseteq LoggedRoles(v)' /\ PendingRoles(v)' = PendingRoles(v)
  BY <1>1, <1>3, <1>4, RowsStayDue
<1>6. ASSUME NEW v, NEW role \in Owed(v) PROVE role \in Owed(v)' \cup NamedRoles(log', v)
  <2>a. PICK e \in Desks : desk[e].stage = "writes" /\ role \in OwedBy(e, v)
    BY <1>6 DEF Owed
  <2>1. PICK j \in DOMAIN desk[e].readings :
            /\ desk[e].stage = "writes" /\ <<j, "register">> \in desk[e].todo
            /\ NickAt(e, j) = v /\ role = EntryRole(desk[e], j)
    BY <2>a DEF OwedBy
  <2>2. CASE e = d /\ j = i /\ w = "register"
    BY <1>3, <2>1, <2>2
  <2>3. CASE ~ (e = d /\ j = i /\ w = "register")
    <3>1. /\ <<j, "register">> \in desk'[e].todo
          /\ desk'[e].stage = "writes" /\ desk'[e].call = desk[e].call
          /\ desk'[e].readings = desk[e].readings
      <4>1. e = d => <<j, "register">> # <<i, w>>
        BY <2>3
      <4> QED BY <1>1, <1>2, <2>1, <4>1
    <3>2. role \in OwedBy(e, v)'
      BY <2>1, <3>1 DEF OwedBy, EntryRole, NickAt
    <3> QED BY <3>1, <3>2 DEF Owed
  <2> QED BY <2>2, <2>3
<1>7. ASSUME NEW v \in Users, NEW role \in LoggedRoles(v) \cup PendingRoles(v) \cup Owed(v)
      PROVE  role \in (LoggedRoles(v) \cup PendingRoles(v) \cup Owed(v))'
  <2>1. NamedRoles(log', v) = LoggedRoles(v)'
    BY DEF LoggedRoles
  <2> QED BY <1>5, <1>6, <1>7, <2>1
<1>8. ASSUME NEW e \in Desks PROVE ListNamed(desk[e])'
  <2>1. CASE e # d
    <3>1. ListNamed(desk[e]) /\ desk'[e] = desk[e]
      BY <1>1, <2>1 DEF ListsNamed
    <3> QED BY <1>3, <3>1, NamedStays DEF ListNamed, EntryChanges, EntryRole
  <2>2. CASE e = d
    <3>1. SUFFICES ASSUME desk'[d].stage = "writes", NEW j \in DOMAIN desk'[d].readings,
                          <<j, "update">> \in desk'[d].todo, EntryChanges(desk[d], j)'
                   PROVE  \/ <<j, "register">> \in desk'[d].todo
                          \/ EntryRole(desk[d], j)' \in NamedRoles(log', desk'[d].call.nicks[j])
      BY <2>2 DEF ListNamed
    <3>2. /\ desk'[d].call = m.call /\ desk'[d].readings = m.readings
          /\ <<j, "update">> \in m.todo
      BY <1>1, <1>2, <3>1
    <3>3. EntryChanges(m, j) /\ EntryRole(m, j) = EntryRole(desk[d], j)'
      BY <3>1, <3>2 DEF EntryChanges, EntryRole
    <3>4. \/ <<j, "register">> \in m.todo
          \/ EntryRole(m, j) \in NamedRoles(log, m.call.nicks[j])
      BY <1>1, <3>1, <3>2, <3>3 DEF ListsNamed, ListNamed
    <3>5. CASE EntryRole(m, j) \in NamedRoles(log, m.call.nicks[j])
      BY <1>3, <3>2, <3>3, <3>5 DEF LoggedRoles
    <3>6. CASE <<j, "register">> \in m.todo /\ <<j, "register">> = <<i, w>>
      <4>1. j = i /\ w = "register"
        BY <3>6
      <4> QED BY <1>3, <3>2, <3>3, <4>1 DEF NickAt
    <3>7. CASE <<j, "register">> \in m.todo /\ <<j, "register">> # <<i, w>>
      BY <1>1, <3>7
    <3> QED BY <3>4, <3>5, <3>6, <3>7
  <2> QED BY <2>1, <2>2
<1>9. ASSUME NEW v \in Users
      PROVE  user'[v].roleName \in (LoggedRoles(v) \cup PendingRoles(v) \cup Owed(v))'
  <2>1. user[v].roleName \in LoggedRoles(v) \cup PendingRoles(v) \cup Owed(v)
    BY <1>4 DEF HistoryNamed, OwedRoles
  <2>2. CASE user'[v].roleName = user[v].roleName
    BY <1>7, <2>1, <2>2
  <2>3. CASE w = "update" /\ v = u /\ EntryChanges(m, i) /\ user'[v].roleName = EntryRole(m, i)
    <3>1. <<i, "register">> \in m.todo \/ EntryRole(m, i) \in LoggedRoles(v)
      BY <1>1, <2>3 DEF ListsNamed, ListNamed, LoggedRoles, NickAt
    <3>2. <<i, "register">> \in m.todo => EntryRole(m, i) \in Owed(v)
      BY <1>1, <2>3 DEF Owed, OwedBy
    <3> QED BY <1>7, <2>3, <3>1, <3>2
  <2>4. w # "update" => user' = user
    BY DEF ListWriteOf
  <2>5. w = "update" => MassUpdateUser(d, i)
    BY DEF ListWriteOf
  <2>6. w = "update" => user'[v].roleName = IF v = u /\ EntryChanges(m, i)
                                            THEN EntryRole(m, i) ELSE user[v].roleName
    BY <2>5, ListUpdated
  <2> QED BY <2>2, <2>3, <2>4, <2>6
<1>10. HistoryNamed(OwedRoles)'
  BY <1>5, <1>9 DEF HistoryNamed, OwedRoles
<1> QED
  BY <1>8, <1>10 DEF ListsNamed

LEMMA NextNInv == NInv /\ [MassNext]_allVars => NInv'
<1> SUFFICES ASSUME NInv, [MassNext]_allVars PROVE NInv'
  OBVIOUS
<1>0. GInv /\ GInv'
  BY GInvNext DEF NInv
<1>1. CASE [Next]_vars /\ UNCHANGED massVars
  <2>1. SUFFICES ASSUME ~ setting.faults PROVE ListsNamed'
    BY <1>0, <1>1, SettingStays DEF NInv
  <2>2. ListsNamed /\ TInv
    BY <1>0, <2>1 DEF NInv, GInv
  <2>3. PICK others : others = OwedRoles
    OBVIOUS
  <2>4. OwedRoles' = others
    BY <1>1, <2>3 DEF OwedRoles, Owed, OwedBy, EntryRole, NickAt, massVars
  <2>5. HistoryNamed(others)
    BY <2>2, <2>3 DEF ListsNamed
  <2>6. HistoryNamed(others)'
    BY <1>1, <2>1, <2>2, <2>5, NextNamed
  <2>7. HistoryNamed(OwedRoles)'
    BY <2>4, <2>6 DEF HistoryNamed
  <2>8. \A v : LoggedRoles(v) \subseteq NamedRoles(log', v)
    BY <1>1, <2>2, NextKeepsNames
  <2>9. ASSUME NEW d \in Desks PROVE ListNamed(desk[d])'
    <3>1. ListNamed(desk[d]) /\ desk' = desk
      BY <1>1, <2>2 DEF ListsNamed, massVars
    <3> QED BY <2>8, <3>1, NamedStays DEF ListNamed, EntryChanges, EntryRole
  <2> QED BY <2>7, <2>9 DEF ListsNamed
<1>2. ASSUME NEW d \in Desks, ListStep(d), UNCHANGED setting PROVE NInv'
  <2>1. SUFFICES ASSUME ~ setting.faults PROVE ListsNamed'
    BY <1>0, <1>2 DEF NInv
  <2>2. ListsNamed
    BY <2>1 DEF NInv
  <2> QED BY <1>0, <1>2, <2>2, WalkNamed, ListWriteNamed DEF ListStep
<1>3. ASSUME NEW d \in Desks, LostByList(d), UNCHANGED setting PROVE NInv'
  BY <1>0, <1>3 DEF NInv, LostByList
<1> QED
  BY <1>1, <1>2, <1>3, MassCases

(***************************************************************************)
(* As long as no query fails, the role a member holds is in the history or *)
(* on its way there, whatever lists and requests are in flight: what a     *)
(* list has sent it still writes, and a list that throws has sent nothing. *)
(***************************************************************************)
THEOREM HistoryExplainsLists == MassSpec => []HistoryNamesRolesOfLists
<1>1. MassInit => NInv
  <2> SUFFICES ASSUME MassInit PROVE NInv
    OBVIOUS
  <2>1. GInv /\ Init /\ \A d \in Desks : desk[d] = Clear
    BY GInvInit DEF MassInit
  <2>2. \A u \in Users : user[u].roleName \in LoggedRoles(u)
    BY <2>1, StartAssumption DEF Init, LoggedRoles
  <2>3. \A p \in Procs : RowDue(req[p])
    BY <2>1, IdleTidy DEF Init, RowDue
  <2>4. \A d \in Desks : ListNamed(desk[d])
    BY <2>1, ClearPlanned DEF ListNamed
  <2> QED BY <2>1, <2>2, <2>3, <2>4 DEF NInv, ListsNamed, HistoryNamed
<1>2. NInv => HistoryNamesRolesOfLists
  <2> SUFFICES ASSUME NInv, ~ setting.faults, NEW u \in Users
               PROVE  user[u].roleName \in LoggedRoles(u) \cup PendingRoles(u)
                                              \cup MassPendingRoles(u)
    BY DEF HistoryNamesRolesOfLists
  <2>1. user[u].roleName \in LoggedRoles(u) \cup PendingRoles(u) \cup Owed(u)
    BY DEF NInv, ListsNamed, HistoryNamed, OwedRoles
  <2>2. Owed(u) \subseteq MassPendingRoles(u)
    <3>1. \A d \in Desks : \A i : EntryRole(desk[d], i) = MassRole(desk[d].call.op, RowAt(d, i))
      BY DEF EntryRole, RowAt
    <3>2. ASSUME NEW role \in Owed(u) PROVE role \in MassPendingRoles(u)
      <4>1. PICK d \in Desks : role \in OwedBy(d, u)
        BY <3>2 DEF Owed
      <4>2. PICK i \in DOMAIN desk[d].readings :
                /\ <<i, "register">> \in desk[d].todo /\ NickAt(d, i) = u
                /\ role = MassRole(desk[d].call.op, RowAt(d, i))
        BY <3>1, <4>1 DEF OwedBy
      <4> QED BY <4>2 DEF MassPendingRoles
    <3> QED BY <3>2
  <2> QED BY <2>1, <2>2
<1> QED
  BY <1>1, <1>2, NextNInv, PTL DEF MassSpec
-----------------------------------------------------------------------------
(***************************************************************************)
(* Lists that nothing races with.  The rows a list has read are those of   *)
(* the table until it writes, none of them a general's, and a write only   *)
(* moves its member to the role the list has read below that one.          *)
(***************************************************************************)
DesksAlone == \A d \in Desks : Working(d) =>
                 AtRest /\ \A e \in Desks \ {d} : ~ Working(e)

Unraced(m, rows) ==
    LET nicks == m.call.nicks IN
    /\ m.stage = "check" =>
          \A i \in 1..(m.at - 1) : ~ General(rows[nicks[i]].roleName)
    /\ m.stage \in {"prepare", "third", "writes"} =>
          \A i \in 1..Len(nicks) : ~ General(rows[nicks[i]].roleName)
    /\ m.stage \in {"prepare", "third"} =>
          \A i \in DOMAIN m.readings : m.readings[i].row = rows[nicks[i]]
    /\ m.stage = "writes" =>
          \A i \in DOMAIN m.readings :
              /\ ~ General(m.readings[i].row.roleName)
              /\ \A j \in DOMAIN m.readings :
                    nicks[i] = nicks[j] => m.readings[i].row = m.readings[j].row
              /\ \/ rows[nicks[i]].roleName = m.readings[i].row.roleName
                 \/ EntryChanges(m, i) /\ rows[nicks[i]].roleName = EntryRole(m, i)

UInv == /\ GInv
        /\ setting.exclusive => DesksAlone /\ \A d \in Desks : Unraced(desk[d], user)

LEMMA GeneralsStayAbove ==
    ASSUME NEW t \in UserRow, NEW op \in MassOps, ~ General(t.roleName),
           ~ Throws(op, t), op = "warn" => t.advNum = 2
    PROVE  ~ General(MassRole(op, t))
<1>1. CASE op = "fire"
  BY <1>1, RolesAssumption DEF MassRole, General
<1>2. CASE op # "fire"
  <2> DEFINE role  == t.roleName
             below == Rungs(role, -1)
  <2>1. role \in RoleNames /\ NextDown(role) # NoRole /\ MassRole(op, t) = NextDown(role)
    BY <1>2 DEF Throws, NeedsRoleBelow, MassOps, MassRole, UserRow
  <2>2. NextDown(role) \in below
    BY <2>1 DEF NextDown, RoleAt
  <2>3. /\ KindOf(NextDown(role)) = KindOf(role)
        /\ PositionOf(NextDown(role)) = PositionOf(role) - 1
    BY <2>2 DEF Rungs
  <2>4. PositionOf(role) \in Nat
    BY <2>1, RolesAssumption DEF PositionOf, RoleRow
  <2> QED BY <2>1, <2>3, <2>4 DEF General
<1> QED
  BY <1>1, <1>2

(* Requests wait: with none in flight and none sent, members stay as they  *)
(* are.                                                                    *)
LEMMA RequestsWait ==
    ASSUME TInv, AtRest, [Next]_vars, issued' = issued
    PROVE  UNCHANGED <<user, log, req>>
<1>0. \A p \in Procs : req[p].stage = "idle"
  BY DEF AtRest, Busy
<1>1. ASSUME NEW p \in Procs, NEW c \in Calls, Submit(p, c) PROVE FALSE
  BY <1>1 DEF Submit, TInv, IInv, TypeOK
<1>2. ASSUME NEW p \in Procs, Step(p) \/ Fail(p) PROVE FALSE
  BY <1>0, <1>2 DEF Step, Fail, ReadRow, ReadPerms, Admit, Issue, Refuse, FailRead,
         LoseWrite, Write, UpdateUser, Register, LogWarning, RetireWarnings,
         DeletePermissions, DeleteRoles, Landed, OnTheWay
<1>3. CASE OtherStep
  BY <1>3, OtherKeeps
<1> QED
  BY <1>1, <1>2, <1>3 DEF Next, OtherStep

LEMMA IdleUnraced ==
    ASSUME NEW m, m.stage = "idle", NEW rows
    PROVE  Unraced(m, rows)
BY DEF Unraced

\* The second walk has read the member it is at.
LEMMA PreparedUnraced ==
    ASSUME NEW m \in MassRequest, NEW readings \in Seq(Reading), NEW w,
           m.at \in 1..Len(m.call.nicks), Len(readings) = m.at,
           \A i \in 1..Len(m.call.nicks) : ~ General(user[m.call.nicks[i]].roleName),
           \A i \in DOMAIN readings : readings[i].row = user[m.call.nicks[i]]
    PROVE  Unraced(Prepared(m, readings, w), user)
<1> DEFINE new == Prepared(m, readings, w)
<1>1. /\ new.readings = readings /\ new.call = m.call
      /\ new.stage \in {"prepare", "writes"}
  BY DEF Prepared, MassRequest
<1>2. \A i \in DOMAIN readings : i \in 1..Len(m.call.nicks)
  <2>1. Len(m.call.nicks) \in Nat /\ DOMAIN readings = 1..m.at /\ m.at \in Nat
    BY DEF MassRequest, MassCall
  <2> QED BY <2>1
<1> HIDE DEF new
<1>3. ASSUME NEW i \in DOMAIN readings
      PROVE  /\ ~ General(readings[i].row.roleName)
             /\ readings[i].row = user[m.call.nicks[i]]
  BY <1>2
<1>4. /\ \A i \in 1..Len(new.call.nicks) : ~ General(user[new.call.nicks[i]].roleName)
      /\ \A i \in DOMAIN new.readings :
            /\ ~ General(new.readings[i].row.roleName)
            /\ new.readings[i].row = user[new.call.nicks[i]]
      /\ new.stage # "check"
  BY <1>1, <1>3
<1>5. Unraced(new, user)
  BY <1>4, Zenon DEF Unraced
<1> QED
  BY <1>5 DEF new

LEMMA WalkUnraced ==
    ASSUME GInv, NEW d \in Desks, Walks(d) \/ GivesUp(d), Unraced(desk[d], user)
    PROVE  Unraced(desk'[d], user)
<1> DEFINE m == desk[d]
<1>0. /\ m \in MassRequest /\ DeskSound(m) /\ user \in [Users -> UserRow]
      /\ desk \in [Desks -> MassRequest] /\ now \in Nat
  BY DEF GInv, MassInv, DesksInv, IInv, TypeOK
<1>1. ASSUME NEW new, desk' = [desk EXCEPT ![d] = new]
      PROVE  desk'[d] = new
  BY <1>0, <1>1
<1>2. CASE GivesUp(d) \/ RefuseList(d)
  BY <1>1, <1>2, ClearPlanned, IdleUnraced DEF GivesUp, RefuseList
<1>3. ASSUME NEW c \in Lists, SubmitList(d, c) PROVE Unraced(desk'[d], user)
  <2> DEFINE new == [Clear EXCEPT !.stage = "check", !.call = c]
  <2>1. new.stage = "check" /\ new.at = 1
    BY DEF Clear
  <2>2. Unraced(new, user)
    <3> HIDE DEF new
    <3> QED BY <2>1 DEF Unraced
  <2> HIDE DEF new
  <2> QED BY <1>1, <1>3, <2>2 DEF SubmitList, new
<1>4. CASE CheckNick(d)
  <2>1. /\ m.stage = "check" /\ m.at \in 1..Len(m.call.nicks) /\ m.at \in Nat
        /\ Len(m.call.nicks) \in Nat
        /\ \A i \in 1..(m.at - 1) : ~ General(user[m.call.nicks[i]].roleName)
        /\ ~ General(user[m.call.nicks[m.at]].roleName)
    <3>1. m.stage = "check" /\ NickListable(d)
      BY <1>4 DEF CheckNick
    <3>2. ~ General(user[m.call.nicks[m.at]].roleName)
      BY <3>1 DEF NickListable, Listable, NickAt
    <3>3. m.at \in 1..Len(m.call.nicks)
      BY <1>0, <3>1 DEF DeskSound
    <3>4. \A i \in 1..(m.at - 1) : ~ General(user[m.call.nicks[i]].roleName)
      BY <3>1 DEF Unraced
    <3>5. m.call.nicks \in Seq(Nicks) /\ m.at \in Nat
      BY <1>0 DEF MassRequest, MassCall
    <3>6. Len(m.call.nicks) \in Nat
      BY <3>5, LenProperties
    <3> QED BY <3>1, <3>2, <3>3, <3>4, <3>5, <3>6
  <2>2. \A i \in 1..m.at : ~ General(user[m.call.nicks[i]].roleName)
    BY <2>1
  <2>3. CASE LastNick(d)
    <3> DEFINE new == [m EXCEPT !.stage = "prepare", !.at = 1]
    <3>1. desk' = [desk EXCEPT ![d] = new] /\ m.at = Len(m.call.nicks)
      BY <1>4, <2>3 DEF CheckNick, LastNick
    <3>2. new.stage = "prepare" /\ new.call = m.call /\ new.readings = m.readings
      BY <1>0 DEF MassRequest
    <3>3. m.readings = <<>>
      BY <1>0, <2>1 DEF DeskSound
    <3> HIDE DEF new
    <3>4. \A i \in 1..Len(new.call.nicks) : ~ General(user[new.call.nicks[i]].roleName)
      BY <2>2, <3>1, <3>2
    <3>5. Unraced(new, user)
      BY <3>2, <3>3, <3>4 DEF Unraced
    <3> QED BY <1>1, <3>1, <3>5
  <2>4. CASE ~ LastNick(d)
    <3> DEFINE new == [m EXCEPT !.at = m.at + 1]
    <3>1. desk' = [desk EXCEPT ![d] = new]
      BY <1>0, <1>4, <2>4 DEF CheckNick
    <3>2. new.stage = "check" /\ new.call = m.call /\ new.at - 1 = m.at
      BY <1>0, <2>1 DEF MassRequest
    <3> HIDE DEF new
    <3> QED BY <1>1, <2>2, <3>1, <3>2 DEF Unraced
  <2> QED BY <2>3, <2>4
<1>5. CASE PrepareNick(d)
  <2> DEFINE t        == user[m.call.nicks[m.at]]
             reading  == [row |-> t, stamp |-> now]
             readings == Append(m.readings, reading)
             ready    == Prepared(m, readings, MassPlan(m.call.op, t))
             third    == [m EXCEPT !.stage = "third", !.readings = readings]
  <2>1. /\ m.stage = "prepare"
        /\ \/ desk' = [desk EXCEPT ![d] = third]
           \/ desk' = [desk EXCEPT ![d] = Clear]
           \/ desk' = [desk EXCEPT ![d] = ready]
    BY <1>5 DEF PrepareNick, NickAt
  <2>2. /\ m.at \in 1..Len(m.call.nicks) /\ Len(m.readings) = m.at - 1
        /\ m.readings \in Seq(Reading) /\ reading \in Reading /\ m.at \in Nat
        /\ \A i \in 1..Len(m.call.nicks) : ~ General(user[m.call.nicks[i]].roleName)
        /\ \A i \in DOMAIN m.readings : m.readings[i].row = user[m.call.nicks[i]]
    BY <1>0, <2>1 DEF DeskSound, MassRequest, MassCall, NicksFound, Reading, Unraced
  <2>3. /\ readings \in Seq(Reading) /\ Len(readings) = m.at
        /\ \A i \in DOMAIN readings : readings[i].row = user[m.call.nicks[i]]
    <3>1. DOMAIN readings = 1..m.at /\ DOMAIN m.readings = 1..(m.at - 1)
      BY <2>2, AppendProperties, LenProperties
    <3>2. readings[m.at] = reading /\ \A i \in 1..(m.at - 1) : readings[i] = m.readings[i]
      <4>1. m.at = Len(m.readings) + 1
        BY <2>2
      <4> HIDE DEF reading
      <4> QED BY <2>2, <4>1, AppendProperties
    <3>3. \A i \in 1..m.at : i = m.at \/ i \in 1..(m.at - 1)
      BY <2>2
    <3>4. readings \in Seq(Reading) /\ Len(readings) = m.at
      BY <2>2, AppendProperties
    <3> HIDE DEF readings
    <3>5. ASSUME NEW i \in DOMAIN readings PROVE readings[i].row = user[m.call.nicks[i]]
      <4>1. CASE i = m.at
        BY <3>2, <4>1
      <4>2. CASE i \in 1..(m.at - 1)
        BY <2>2, <3>1, <3>2, <4>2
      <4> QED BY <3>1, <3>3, <4>1, <4>2
    <3> QED BY <3>4, <3>5
  <2> HIDE DEF t, readings
  <2>4. CASE desk' = [desk EXCEPT ![d] = ready]
    <3>1. m \in MassRequest /\ m.at \in 1..Len(m.call.nicks)
      BY <1>0, <2>2
    <3>2. \A i \in 1..Len(m.call.nicks) : ~ General(user[m.call.nicks[i]].roleName)
      BY <2>2
    <3>3. Unraced(ready, user)
      <4> HIDE DEF m
      <4> QED BY <2>3, <3>1, <3>2, PreparedUnraced
    <3> HIDE DEF ready
    <3> QED BY <1>1, <2>4, <3>3
  <2>5. CASE desk' = [desk EXCEPT ![d] = third]
    <3>1. third.stage = "third" /\ third.readings = readings /\ third.call = m.call
      BY <1>0 DEF MassRequest
    <3> HIDE DEF third
    <3>2. Unraced(third, user)
      BY <2>2, <2>3, <3>1 DEF Unraced
    <3> QED BY <1>1, <2>5, <3>2
  <2>6. CASE desk' = [desk EXCEPT ![d] = Clear]
    BY <1>1, <2>6, ClearPlanned, IdleUnraced
  <2> QED BY <2>1, <2>4, <2>5, <2>6
<1>6. CASE LogThird(d)
  <2> DEFINE readings == Redated(m)
             ready == Prepared(m, readings, MassPlan("warn", m.readings[m.at].row))
  <2>1. /\ m.stage = "third"
        /\ \/ desk' = [desk EXCEPT ![d] = Clear]
           \/ desk' = [desk EXCEPT ![d] = ready]
    BY <1>6 DEF LogThird, RowAt
  <2>2. /\ m.at \in 1..Len(m.call.nicks) /\ Len(m.readings) = m.at
        /\ m.readings \in Seq(Reading)
        /\ \A i \in 1..Len(m.call.nicks) : ~ General(user[m.call.nicks[i]].roleName)
        /\ \A i \in DOMAIN m.readings : m.readings[i].row = user[m.call.nicks[i]]
    BY <1>0, <2>1 DEF DeskSound, MassRequest, Unraced
  <2>a. /\ readings \in Seq(Reading) /\ Len(readings) = m.at
        /\ DOMAIN readings = DOMAIN m.readings
        /\ \A i \in DOMAIN readings : readings[i].row = user[m.call.nicks[i]]
    <3>1. /\ readings \in Seq(Reading) /\ Len(readings) = m.at /\ DOMAIN readings = 1..m.at
          /\ DOMAIN m.readings = 1..m.at
          /\ \A i \in 1..m.at : readings[i].row = m.readings[i].row
      BY <1>0, <2>2, DatedAgain
    <3> HIDE DEF readings
    <3> QED BY <2>2, <3>1
  <2> HIDE DEF readings
  <2>3. Unraced(ready, user)
    <3> HIDE DEF m
    <3>0. \A i \in 1..Len(m.call.nicks) : ~ General(user[m.call.nicks[i]].roleName)
      BY <2>2
    <3>1. ASSUME NEW w PROVE Unraced(Prepared(m, readings, w), user)
      <4>1. m \in MassRequest /\ m.at \in 1..Len(m.call.nicks)
        BY <1>0, <2>2
      <4> QED BY <2>a, <3>0, <4>1, PreparedUnraced
    <3> QED BY <3>1 DEF ready
  <2> HIDE DEF ready
  <2> QED BY <1>1, <2>1, <2>3, ClearPlanned, IdleUnraced
<1> QED
  BY <1>2, <1>3, <1>4, <1>5, <1>6 DEF Walks

LEMMA WriteUnraced ==
    ASSUME GInv, NEW d \in Desks, NEW i \in DOMAIN desk[d].readings, NEW w,
           ListWriteOf(d, i, w), Unraced(desk[d], user)
    PROVE  /\ Unraced(desk'[d], user')
           /\ \A u \in Users : user'[u].roleName # user[u].roleName =>
                 /\ w = "update" /\ u = NickAt(d, i) /\ EntryChanges(desk[d], i)
                 /\ ~ General(user[u].roleName)
                 /\ user[u].roleName = RowAt(d, i).roleName
<1> DEFINE m     == desk[d]
           nicks == m.call.nicks
           u     == NickAt(d, i)
<1>0. /\ m.stage = "writes" /\ u = nicks[i] /\ NicksFound(m)
      /\ \/ desk'[d] = Clear
         \/ desk'[d].stage = "writes" /\ desk'[d].call = m.call
            /\ desk'[d].readings = m.readings
      /\ i \in DOMAIN m.readings /\ u \in Users
      /\ \A j \in DOMAIN m.readings : j \in 1..Len(nicks)
  <2>1. MassLanded(d, i, w) /\ DeskSound(m)
    BY DEF ListWriteOf, GInv, MassInv, DesksInv
  <2>2. m.stage = "writes"
    BY <2>1 DEF MassLanded
  <2>3. NicksFound(m) /\ ReadingsSound(m)
    BY <2>1, <2>2 DEF DeskSound
  <2> QED BY <2>1, <2>2, <2>3, SettledStep, EntryKnown DEF ReadingsSound, NickAt
<1>1. /\ \A j \in 1..Len(nicks) : ~ General(user[nicks[j]].roleName) /\ nicks[j] \in Users
      /\ \A j \in DOMAIN m.readings :
            /\ ~ General(m.readings[j].row.roleName)
            /\ \A k \in DOMAIN m.readings :
                  nicks[j] = nicks[k] => m.readings[j].row = m.readings[k].row
            /\ \/ user[nicks[j]].roleName = m.readings[j].row.roleName
               \/ EntryChanges(m, j) /\ user[nicks[j]].roleName = EntryRole(m, j)
  BY <1>0 DEF Unraced, NicksFound
<1>2. ASSUME NEW v \in Users
      PROVE  user'[v].roleName = IF w = "update" /\ v = u /\ EntryChanges(m, i)
                                 THEN EntryRole(m, i) ELSE user[v].roleName
  <2>1. w # "update" => user' = user
    BY DEF ListWriteOf
  <2>2. w = "update" => MassUpdateUser(d, i)
    BY DEF ListWriteOf
  <2> QED BY <2>1, <2>2, ListUpdated
<1>3. EntryChanges(m, i) => ~ General(EntryRole(m, i))
  <2>1. MassLanded(d, i, w)
    BY DEF ListWriteOf
  <2>2. RowAt(d, i) = m.readings[i].row
    BY DEF RowAt
  <2> QED BY <1>0, <1>1, <2>1, <2>2, EntryKnown, GeneralsStayAbove
<1>4. ASSUME NEW j \in 1..Len(nicks) PROVE ~ General(user'[nicks[j]].roleName)
  BY <1>1, <1>2, <1>3
<1>5. ASSUME NEW j \in DOMAIN m.readings
      PROVE  \/ user'[nicks[j]].roleName = m.readings[j].row.roleName
             \/ EntryChanges(m, j) /\ user'[nicks[j]].roleName = EntryRole(m, j)
  <2>1. nicks[j] = u => /\ EntryRole(m, j) = EntryRole(m, i)
                        /\ EntryChanges(m, j) <=> EntryChanges(m, i)
    BY <1>0, <1>1 DEF EntryRole, EntryChanges
  <2>2. nicks[j] \in Users
    BY <1>0, <1>1
  <2> QED BY <1>1, <1>2, <2>1, <2>2
<1>6. Unraced(desk'[d], user')
  <2>1. CASE desk'[d] = Clear
    BY <2>1, ClearPlanned, IdleUnraced
  <2>2. CASE /\ desk'[d].stage = "writes" /\ desk'[d].call = m.call
             /\ desk'[d].readings = m.readings
    <3>1. \A j \in DOMAIN m.readings : /\ EntryChanges(desk'[d], j) <=> EntryChanges(m, j)
                                       /\ EntryRole(desk'[d], j) = EntryRole(m, j)
      BY <2>2 DEF EntryChanges, EntryRole
    <3>2. \A j \in 1..Len(nicks) : ~ General(user'[nicks[j]].roleName)
      BY <1>4
    <3>3. \A j \in DOMAIN m.readings :
             \/ user'[nicks[j]].roleName = m.readings[j].row.roleName
             \/ /\ EntryChanges(desk'[d], j)
                /\ user'[nicks[j]].roleName = EntryRole(desk'[d], j)
      BY <1>5, <3>1
    <3>4. PICK n : n = desk'[d]
      OBVIOUS
    <3>5. /\ n.stage = "writes" /\ n.call.nicks = nicks /\ n.readings = m.readings
      BY <2>2, <3>4
    <3>6. PICK rows : rows = user'
      OBVIOUS
    <3> HIDE DEF m, nicks, u
    <3>7. Unraced(n, rows)
      BY <1>1, <3>2, <3>3, <3>4, <3>5, <3>6 DEF Unraced
    <3> QED BY <3>4, <3>6, <3>7
  <2> QED BY <1>0, <2>1, <2>2
<1>7. ASSUME NEW v \in Users, user'[v].roleName # user[v].roleName
      PROVE  /\ w = "update" /\ v = NickAt(d, i) /\ EntryChanges(desk[d], i)
             /\ ~ General(user[v].roleName)
             /\ user[v].roleName = RowAt(d, i).roleName
  <2>1. w = "update" /\ v = u /\ EntryChanges(m, i) /\ user[v].roleName # EntryRole(m, i)
    BY <1>2, <1>7
  <2> QED BY <1>0, <1>1, <2>1 DEF RowAt
<1> QED
  BY <1>6, <1>7

\* A list that takes a step is alone, and goes on alone.
LEMMA AloneStays ==
    ASSUME GInv, GInv', NEW d \in Desks, ListStep(d), DesksAlone, setting.exclusive
    PROVE  DesksAlone'
<1>1. /\ \A e \in Desks \ {d} : desk'[e] = desk[e]
      /\ UNCHANGED req
  BY WalkStep, SettledStep DEF ListStep, ListWriteOf
<1>2. AtRest /\ \A e \in Desks \ {d} : ~ Working(e)
  <2>1. CASE Working(d)
    BY <2>1 DEF DesksAlone
  <2>2. CASE ~ Working(d)
    BY <2>2 DEF ListStep, Walks, GivesUp, SubmitList, CheckNick, RefuseList, PrepareNick,
                LogThird, ListWriteOf, MassLanded, Working
  <2> QED BY <2>1, <2>2
<1>3. AtRest' /\ \A e \in Desks \ {d} : ~ Working(e)'
  BY <1>1, <1>2 DEF AtRest, Busy, Working
<1> QED
  BY <1>3 DEF DesksAlone

LEMMA NextUInv == UInv /\ [MassNext]_allVars => UInv'
<1> SUFFICES ASSUME UInv, [MassNext]_allVars PROVE UInv'
  OBVIOUS
<1>0. GInv /\ GInv'
  BY GInvNext DEF UInv
<1>1. setting' = setting
  BY SettingStays, MassCases
<1>2. SUFFICES ASSUME setting.exclusive
               PROVE  DesksAlone' /\ \A e \in Desks : Unraced(desk'[e], user')
  BY <1>0, <1>1 DEF UInv
<1>3. DesksAlone /\ \A e \in Desks : Unraced(desk[e], user)
  BY <1>2 DEF UInv
<1>4. CASE [Next]_vars /\ UNCHANGED massVars /\ (Considerate \/ UNCHANGED vars)
  <2>1. desk' = desk
    BY <1>4 DEF massVars
  <2>2. CASE \A e \in Desks : ~ Working(e)
    <3>1. \A e \in Desks : desk'[e].stage = "idle" /\ ~ Working(e)'
      BY <2>1, <2>2 DEF Working
    <3> QED BY <3>1, IdleUnraced DEF DesksAlone
  <2>3. CASE ~ \A e \in Desks : ~ Working(e)
    <3>1. AtRest /\ issued' = issued
      BY <1>2, <1>3, <1>4, <2>3 DEF DesksAlone, Considerate, vars
    <3>2. UNCHANGED <<user, req>>
      BY <1>0, <1>4, <3>1, RequestsWait DEF GInv
    <3>3. DesksAlone'
      BY <1>3, <2>1, <3>2 DEF DesksAlone, AtRest, Busy, Working
    <3> QED BY <1>3, <2>1, <3>2, <3>3
  <2> QED BY <2>2, <2>3
<1>5. ASSUME NEW d \in Desks, ListStep(d) PROVE
             DesksAlone' /\ \A e \in Desks : Unraced(desk'[e], user')
  <2>1. DesksAlone'
    BY <1>0, <1>2, <1>3, <1>5, AloneStays
  <2>2. Unraced(desk'[d], user')
    BY <1>0, <1>3, <1>5, WalkUnraced, WriteUnraced, WalkStep DEF ListStep
  <2>3. ASSUME NEW e \in Desks \ {d} PROVE desk'[e].stage = "idle"
    <3>1. desk'[e] = desk[e]
      BY <1>0, <1>5, WalkStep, SettledStep DEF ListStep, ListWriteOf
    <3>2. desk[e].stage = "idle"
      <4>1. CASE Working(d)
        BY <1>3, <4>1 DEF DesksAlone, Working
      <4>2. CASE ~ Working(d)
        BY <1>2, <1>5, <4>2 DEF ListStep, Walks, GivesUp, SubmitList, CheckNick, RefuseList,
             PrepareNick, LogThird, ListWriteOf, MassLanded, Working
      <4> QED BY <4>1, <4>2
    <3> QED BY <3>1, <3>2
  <2> QED BY <2>1, <2>2, <2>3, IdleUnraced
<1>6. ASSUME NEW d \in Desks, LostByList(d), UNCHANGED req PROVE
             DesksAlone' /\ \A e \in Desks : Unraced(desk'[e], user')
  <2>1. PICK i, w : MassLanded(d, i, w) /\ UNCHANGED user
    BY <1>6 DEF LostByList, db
  <2>2. /\ \A e \in Desks \ {d} : desk'[e] = desk[e]
        /\ desk[d].stage = "writes"
        /\ \/ desk'[d] = Clear
           \/ /\ desk'[d].stage = "writes" /\ desk'[d].call = desk[d].call
              /\ desk'[d].readings = desk[d].readings
    BY <1>0, <2>1, SettledStep
  <2>3. AtRest' /\ \A e \in Desks \ {d} : ~ Working(e)'
    BY <1>3, <1>6, <2>2 DEF DesksAlone, AtRest, Busy, Working
  <2>4. CASE desk'[d] = Clear
    BY <1>3, <2>1, <2>2, <2>3, <2>4, ClearPlanned, IdleUnraced DEF DesksAlone
  <2>5. CASE /\ desk'[d].stage = "writes" /\ desk'[d].call = desk[d].call
             /\ desk'[d].readings = desk[d].readings
    <3>1. \A j : /\ EntryChanges(desk'[d], j) <=> EntryChanges(desk[d], j)
                 /\ EntryRole(desk'[d], j) = EntryRole(desk[d], j)
      BY <2>5 DEF EntryChanges, EntryRole
    <3>2. Unraced(desk'[d], user')
      BY <1>3, <2>1, <2>2, <2>5, <3>1 DEF Unraced
    <3> QED BY <1>3, <2>1, <2>2, <2>3, <3>2 DEF DesksAlone
  <2> QED BY <2>2, <2>4, <2>5
<1> QED
  BY <1>4, <1>5, <1>6, MassCases

\* A step of a list is one that walks or one that writes.
LEMMA StepMoves ==
    ASSUME UInv, setting.exclusive, NEW d \in Desks, MassStep(d), NEW u \in Users,
           user'[u].roleName # user[u].roleName
    PROVE  \E i \in DOMAIN desk[d].readings :
              /\ ListWriteOf(d, i, "update")
              /\ u = NickAt(d, i) /\ EntryChanges(desk[d], i)
              /\ ~ General(user[u].roleName)
              /\ user[u].roleName = RowAt(d, i).roleName
<1>1. CASE Walks(d)
  BY <1>1, WalkStep DEF UInv
<1>2. CASE MassWrite(d)
  <2>1. PICK i \in DOMAIN desk[d].readings, w \in MassWrites : ListWriteOf(d, i, w)
    BY <1>2, ListWriteCases
  <2> QED BY <2>1, WriteUnraced DEF UInv
<1> QED
  BY <1>1, <1>2 DEF MassStep, Walks

LEMMA InitUInv == MassInit => UInv
<1> SUFFICES ASSUME MassInit PROVE UInv
  OBVIOUS
<1>1. GInv /\ \A d \in Desks : desk[d] = Clear
  BY GInvInit DEF MassInit
<1> QED
  BY <1>1, ClearPlanned, IdleUnraced DEF UInv, DesksAlone, Working

(***************************************************************************)
(* Whoever ranks as a general loses no rank to a list, when clients take   *)
(* their turns: the first walk has refused the generals of the list, and a *)
(* member does not climb between the two walks.                            *)
(***************************************************************************)
THEOREM ListsSpareGenerals == MassSpec => GeneralsAreSpared
<1>1. UInv /\ [MassNext]_allVars =>
          [\A d \in Desks : setting.exclusive /\ MassStep(d) =>
              \A u \in Users : General(user[u].roleName) =>
                                  user'[u].roleName = user[u].roleName]_allVars
  BY StepMoves
<1> QED
  BY <1>1, InitUInv, NextUInv, PTL DEF MassSpec, GeneralsAreSpared
-----------------------------------------------------------------------------
(***************************************************************************)
(* The roles lists remember.  A list that has yet to move a member has yet *)
(* to remember the role the member had, or has.                            *)
(***************************************************************************)
Taken == {snapshots[k] : k \in DOMAIN snapshots}

Snapped(m, taken) ==
    m.stage = "writes" =>
        \A i \in DOMAIN m.readings :
            <<i, "update">> \in m.todo /\ EntryChanges(m, i) =>
                \/ <<i, "snapshot">> \in m.todo
                \/ m.readings[i].row.roleName \in taken

VInv == UInv /\ (~ setting.faults => \A d \in Desks : Snapped(desk[d], Taken))

LEMMA SnappedByMore ==
    ASSUME NEW m, NEW few, NEW many, few \subseteq many, Snapped(m, few)
    PROVE  Snapped(m, many)
BY DEF Snapped

LEMMA WriteSnapped ==
    ASSUME GInv, NEW d \in Desks, NEW i \in DOMAIN desk[d].readings, NEW w,
           ListWriteOf(d, i, w), \A e \in Desks : Snapped(desk[e], Taken)
    PROVE  /\ \A e \in Desks : Snapped(desk'[e], Taken')
           /\ Taken \subseteq Taken'
<1> DEFINE m == desk[d]
<1>1. /\ \A e \in Desks \ {d} : desk'[e] = desk[e]
      /\ m.stage = "writes"
      /\ <<i, w>> \in m.todo /\ desk'[d].todo = m.todo \ {<<i, w>>}
      /\ \/ desk'[d] = Clear
         \/ /\ desk'[d].stage = "writes" /\ desk'[d].call = m.call
            /\ desk'[d].readings = m.readings
  BY SettledStep DEF ListWriteOf
<1>2. Taken \subseteq Taken' /\ (w = "snapshot" => m.readings[i].row.roleName \in Taken')
  <2>1. CASE w # "snapshot"
    BY <2>1 DEF ListWriteOf, Taken
  <2>2. CASE w = "snapshot"
    <3>1. snapshots' = Append(snapshots, m.readings[i].row.roleName)
      BY <2>2 DEF ListWriteOf, TakeSnapshot, RowAt
    <3>2. snapshots \in Seq(RoleNames)
      BY DEF GInv, MassInv, DesksInv
    <3>3. /\ DOMAIN snapshots = 1..Len(snapshots) /\ Len(snapshots) \in Nat
          /\ DOMAIN snapshots' = 1..(Len(snapshots) + 1)
          /\ snapshots'[Len(snapshots) + 1] = m.readings[i].row.roleName
          /\ \A k \in 1..Len(snapshots) : snapshots'[k] = snapshots[k]
      BY <3>1, <3>2, AppendProperties, LenProperties
    <3>4. /\ \A k \in DOMAIN snapshots : k \in DOMAIN snapshots'
          /\ Len(snapshots) + 1 \in DOMAIN snapshots'
      BY <3>3
    <3> QED BY <3>3, <3>4 DEF Taken
  <2> QED BY <2>1, <2>2
<1>3. ASSUME NEW e \in Desks PROVE Snapped(desk'[e], Taken')
  <2>1. CASE e # d
    BY <1>1, <1>2, <2>1, SnappedByMore
  <2>2. CASE e = d /\ desk'[d] = Clear
    BY <2>2, ClearPlanned DEF Snapped
  <2>3. CASE /\ e = d /\ desk'[d].stage = "writes" /\ desk'[d].call = m.call
             /\ desk'[d].readings = m.readings
    <3> SUFFICES ASSUME NEW j \in DOMAIN m.readings, <<j, "update">> \in desk'[d].todo,
                        EntryChanges(desk'[d], j)
                 PROVE  \/ <<j, "snapshot">> \in desk'[d].todo
                        \/ m.readings[j].row.roleName \in Taken'
      BY <2>3 DEF Snapped
    <3>1. EntryChanges(m, j) /\ <<j, "update">> \in m.todo
      BY <1>1, <2>3 DEF EntryChanges
    <3>2. <<j, "snapshot">> \in m.todo \/ m.readings[j].row.roleName \in Taken
      BY <1>1, <3>1 DEF Snapped
    <3>3. CASE <<j, "snapshot">> = <<i, w>>
      BY <1>2, <3>3
    <3> QED BY <1>1, <1>2, <3>2, <3>3
  <2> QED BY <1>1, <2>1, <2>2, <2>3
<1> QED
  BY <1>2, <1>3

LEMMA WalkSnapped ==
    ASSUME GInv, GInv', NEW d \in Desks, Walks(d) \/ GivesUp(d),
           \A e \in Desks : Snapped(desk[e], Taken)
    PROVE  \A e \in Desks : Snapped(desk'[e], Taken')
<1>1. /\ \A e \in Desks \ {d} : desk'[e] = desk[e]
      /\ desk'[d].stage = "writes" => FullPlan(desk'[d])
      /\ snapshots' = snapshots
  BY WalkStep
<1>2. Taken' = Taken
  BY <1>1 DEF Taken
<1>3. desk'[d].call.op \in {"warn", "demote", "fire"}
  <2>1. desk' \in [Desks -> MassRequest]
    BY DEF GInv, MassInv, DesksInv
  <2>2. desk'[d].call \in MassCall
    BY <2>1 DEF MassRequest
  <2> QED BY <2>2 DEF MassCall, MassOps
<1>4. Snapped(desk'[d], Taken')
  <2> SUFFICES ASSUME desk'[d].stage = "writes", NEW j \in DOMAIN desk'[d].readings,
                      EntryChanges(desk'[d], j)
               PROVE  <<j, "snapshot">> \in desk'[d].todo
    BY DEF Snapped
  <2>1. "snapshot" \in EntryPlan(desk'[d], j)
    BY <1>3 DEF EntryChanges, EntryPlan, MassPlan, MassDismissal, MassChange
  <2> QED BY <1>1, <2>1 DEF FullPlan
<1> QED
  BY <1>1, <1>2, <1>4

LEMMA NextVInv == VInv /\ [MassNext]_allVars => VInv'
<1> SUFFICES ASSUME VInv, [MassNext]_allVars PROVE VInv'
  OBVIOUS
<1>0. UInv /\ UInv' /\ GInv /\ GInv'
  BY NextUInv DEF VInv, UInv
<1>1. setting' = setting
  BY SettingStays, MassCases
<1>2. SUFFICES ASSUME ~ setting.faults PROVE \A d \in Desks : Snapped(desk'[d], Taken')
  BY <1>0, <1>1 DEF VInv
<1>3. \A d \in Desks : Snapped(desk[d], Taken)
  BY <1>2 DEF VInv
<1>4. CASE UNCHANGED massVars
  BY <1>3, <1>4 DEF massVars, Taken
<1>5. ASSUME NEW d \in Desks, ListStep(d) PROVE \A e \in Desks : Snapped(desk'[e], Taken')
  BY <1>0, <1>3, <1>5, WalkSnapped, WriteSnapped DEF ListStep
<1>6. ASSUME NEW d \in Desks, LostByList(d) PROVE FALSE
  BY <1>2, <1>6 DEF LostByList
<1> QED
  BY <1>4, <1>5, <1>6, MassCases

(***************************************************************************)
(* A list that moves a member remembers the role it took, or will, when    *)
(* nothing races with it and no query fails: the rows it has read are the  *)
(* members', although it writes the snapshot and the move in no order.     *)
(***************************************************************************)
THEOREM ListsRememberRoles == MassSpec => SnapshotsRememberRoles
<1>1. MassInit => VInv
  <2> SUFFICES ASSUME MassInit PROVE VInv
    OBVIOUS
  <2>1. UInv /\ \A d \in Desks : desk[d] = Clear
    BY InitUInv DEF MassInit
  <2> QED BY <2>1, ClearPlanned DEF VInv, Snapped
<1>2. ASSUME VInv, NEW d \in Desks, NEW u \in Users,
             setting.exclusive, ~ setting.faults,
             MassStep(d), user'[u].roleName # user[u].roleName
      PROVE  user[u].roleName \in Remembered'
  <2>1. PICK i \in DOMAIN desk[d].readings :
            /\ ListWriteOf(d, i, "update")
            /\ EntryChanges(desk[d], i) /\ user[u].roleName = desk[d].readings[i].row.roleName
    BY <1>2, StepMoves DEF VInv, RowAt
  <2>2. GInv /\ Snapped(desk[d], Taken)
    BY <1>2 DEF VInv, UInv
  <2>3. /\ desk[d].stage = "writes" /\ <<i, "update">> \in desk[d].todo
        /\ desk'[d].todo = desk[d].todo \ {<<i, "update">>}
        /\ \/ desk'[d] = Clear
           \/ desk'[d].readings = desk[d].readings
    BY <2>1, <2>2, SettledStep DEF ListWriteOf
  <2>4. CASE user[u].roleName \in Taken
    <3>1. Taken' = Taken
      BY <2>1 DEF ListWriteOf, Taken
    <3> QED BY <2>4, <3>1 DEF Remembered, Taken
  <2>5. CASE <<i, "snapshot">> \in desk[d].todo
    <3>1. <<i, "snapshot">> \in desk'[d].todo
      BY <2>3, <2>5
    <3>2. desk'[d].readings = desk[d].readings
      BY <2>3, <3>1, ClearPlanned
    <3>3. /\ i \in DOMAIN desk'[d].readings
          /\ user[u].roleName = desk'[d].readings[i].row.roleName
      BY <2>1, <3>2
    <3>4. PendingSnapshots' =
             UNION {{desk'[e].readings[k].row.roleName :
                       k \in {j \in DOMAIN desk'[e].readings :
                                 <<j, "snapshot">> \in desk'[e].todo}} : e \in Desks}
      BY DEF PendingSnapshots, RowAt
    <3>5. i \in {j \in DOMAIN desk'[d].readings : <<j, "snapshot">> \in desk'[d].todo}
      BY <3>1, <3>3
    <3> DEFINE Pending(e) == {desk'[e].readings[k].row.roleName :
                                k \in {j \in DOMAIN desk'[e].readings :
                                          <<j, "snapshot">> \in desk'[e].todo}}
    <3>6. user[u].roleName \in Pending(d)
      BY <3>3, <3>5
    <3>7. PendingSnapshots' = UNION {Pending(e) : e \in Desks}
      BY <3>4
    <3> HIDE DEF Pending
    <3>8. user[u].roleName \in PendingSnapshots'
      BY <3>6, <3>7
    <3> QED BY <3>8 DEF Remembered
  <2> QED BY <2>1, <2>2, <2>3, <2>4, <2>5 DEF Snapped
<1>3. VInv /\ [MassNext]_allVars =>
          [\A d \in Desks : \A u \in Users :
              /\ setting.exclusive /\ ~ setting.faults
              /\ MassStep(d) /\ user'[u].roleName # user[u].roleName
              => user[u].roleName \in Remembered']_allVars
  BY <1>2
<1> QED
  BY <1>1, <1>3, NextVInv, PTL DEF MassSpec, SnapshotsRememberRoles
-----------------------------------------------------------------------------
(***************************************************************************)
(* Warnings counted and warnings logged, with lists in flight.  What backs *)
(* a counter is the rows of the history and the rows lists have announced: *)
(* a warnMultiple that has sent its writes owes one per member it warns.   *)
(***************************************************************************)
Announced(u) == {x \in Desks \X Nat : /\ desk[x[1]].stage = "writes"
                                      /\ <<x[2], "warning">> \in desk[x[1]].todo
                                      /\ NickAt(x[1], x[2]) = u}

Due == [u \in Users |-> Cardinality(Announced(u))]

Total(u) == Warnings(log, u) + (IF u \in Users THEN Cardinality(Announced(u)) ELSE 0)

\* A list has read no more than is backed, nor is going to count more.
ListBacked(d) ==
    \A i \in DOMAIN desk[d].readings :
        LET adv == desk[d].readings[i].row.advNum IN
        /\ adv <= Total(NickAt(d, i))
        /\ /\ desk[d].stage = "writes" /\ desk[d].call.op = "warn" /\ adv # 2
           /\ <<i, "update">> \in desk[d].todo
           => adv + 1 <= Total(NickAt(d, i))

Backed == /\ \A u \in Users : IsFiniteSet(Announced(u))
          /\ WInv(Due)
          /\ \A d \in Desks : ListBacked(d)

AInv == GInv /\ (~ setting.faults => Backed)

LEMMA DueNat ==
    ASSUME \A u \in Users : IsFiniteSet(Announced(u)), log \in Seq(LogRow)
    PROVE  /\ Due \in [Users -> Nat]
           /\ \A u \in Users : Cardinality(Announced(u)) \in Nat
           /\ \A u : Backing(log, Due, u) = Total(u) /\ Total(u) \in Nat
<1>1. \A u \in Users : Cardinality(Announced(u)) \in Nat
  BY FS_CardinalityType
<1>2. \A u : Warnings(log, u) \in Nat
  BY WarningRowsFinite DEF Warnings
<1> QED
  BY <1>1, <1>2 DEF Due, Backing, Total

\* Rows are only added, or retired.
RowsKept == \A k \in DOMAIN log : /\ k \in DOMAIN log'
                                  /\ log'[k].target = log[k].target
                                  /\ log'[k].type = log[k].type

LEMMA AppendKeepsRows ==
    ASSUME log \in Seq(LogRow), NEW row \in LogRow, log' = Append(log, row)
    PROVE  RowsKept
<1>1. DOMAIN log = 1..Len(log) /\ Len(log) \in Nat
  BY LenProperties
<1> QED
  BY <1>1, AppendProperties DEF RowsKept

LEMMA NextKeepsRows ==
    ASSUME IInv, [Next]_vars
    PROVE  RowsKept
<1>1. ASSUME NEW p \in Procs, Write(p) PROVE RowsKept
  BY <1>1, HistoryKept DEF RowsKept
<1>2. UNCHANGED log => RowsKept
  BY DEF RowsKept
<1>3. ASSUME NEW p \in Procs,
             \/ \E c \in Calls : Submit(p, c)
             \/ \E who \in Who : ReadRow(p, who) \/ ReadPerms(p, who)
             \/ Admit(p) \/ Refuse(p) \/ Issue(p) \/ Fail(p)
      PROVE  UNCHANGED log
  BY <1>3 DEF Submit, ReadRow, ReadPerms, Admit, Refuse, Issue, Fail, FailRead, LoseWrite, db
<1>4. CASE OtherStep
  BY <1>2, <1>4, OtherKeeps
<1> QED
  BY <1>1, <1>2, <1>3, <1>4 DEF Next, Step, OtherStep

LEMMA ListKeepsRows ==
    ASSUME GInv, NEW d \in Desks, ListStep(d)
    PROVE  RowsKept
<1>0. log \in Seq(LogRow)
  BY DEF GInv, MassInv, IInv, TypeOK
<1>1. UNCHANGED log => RowsKept
  BY DEF RowsKept
<1>2. ASSUME NEW u \in Users, log' = Append(log, WarningRow(u)) PROVE RowsKept
  <2>1. WarningRow(u) \in LogRow
    BY DEF WarningRow, LogRow
  <2> QED BY <1>0, <1>2, <2>1, AppendKeepsRows
<1>3. CASE Walks(d) \/ GivesUp(d)
  BY <1>1, <1>2, <1>3, WalkStep
<1>4. ASSUME NEW i, NEW w, ListWriteOf(d, i, w) PROVE RowsKept
  <2>1. CASE w \notin {"register", "warning", "retireWarnings"}
    BY <1>1, <1>4, <2>1 DEF ListWriteOf
  <2>2. CASE w = "register"
    <3>1. MassRegister(d, i)
      BY <1>4, <2>2 DEF ListWriteOf
    <3> QED BY <1>0, <3>1, ListRegistered, AppendKeepsRows
  <2>3. CASE w = "warning"
    <3>1. MassLogWarning(d, i) /\ MassLanded(d, i, w)
      BY <1>4, <2>3 DEF ListWriteOf
    <3>2. log' = Append(log, WarningRow(NickAt(d, i))) /\ NickAt(d, i) \in Users
      BY <3>1, EntryKnown DEF MassLogWarning
    <3> QED BY <1>2, <3>2
  <2>4. CASE w = "retireWarnings"
    <3>1. log' = [k \in DOMAIN log |-> Retired(log[k], NickAt(d, i))]
      BY <1>4, <2>4 DEF ListWriteOf, MassRetireWarnings, Retired
    <3>2. \A k \in DOMAIN log : log[k] \in LogRow
      BY <1>0
    <3> QED BY <3>1, <3>2, RowRetired DEF RowsKept
  <2> QED BY <2>1, <2>2, <2>3, <2>4
<1> QED
  BY <1>3, <1>4 DEF ListStep

LEMMA RowsKeptCounts ==
    ASSUME RowsKept, log \in Seq(LogRow), log' \in Seq(LogRow)
    PROVE  \A u : /\ Warnings(log, u) <= Warnings(log', u)
                  /\ Warnings(log, u) \in Nat /\ Warnings(log', u) \in Nat
BY WarningsKept, WarningRowsFinite DEF RowsKept, Warnings

(* A list that walks announces what it is about to write, and no less.     *)
LEMMA WalkAnnounces ==
    ASSUME GInv, GInv', NEW d \in Desks, Walks(d) \/ GivesUp(d), NEW u \in Users,
           IsFiniteSet(Announced(u))
    PROVE  /\ IsFiniteSet(Announced(u)')
           /\ Cardinality(Announced(u)) <= Cardinality(Announced(u)')
           /\ \A i \in DOMAIN desk'[d].readings :
                 /\ desk'[d].stage = "writes" /\ <<i, "warning">> \in desk'[d].todo
                 /\ NickAt(d, i)' = u
                 => Cardinality(Announced(u)) + 1 <= Cardinality(Announced(u)')
<1>1. /\ \A e \in Desks \ {d} : desk'[e] = desk[e]
      /\ desk[d].stage # "writes"
  BY WalkStep
<1> DEFINE m   == desk'[d]
           new == {x \in {d} \X (1..Len(m.readings)) :
                     /\ m.stage = "writes" /\ <<x[2], "warning">> \in m.todo
                     /\ NickAt(d, x[2])' = u}
<1>2. m \in MassRequest /\ DeskSound(m)
  BY DEF GInv, MassInv, DesksInv
<1>3. /\ DOMAIN m.readings = 1..Len(m.readings) /\ Len(m.readings) \in Nat
      /\ \A x \in m.todo : x[1] \in DOMAIN m.readings
  BY <1>2 DEF MassRequest, DeskSound, TodoSound
<1>4. ASSUME NEW i, <<i, "warning">> \in m.todo PROVE i \in 1..Len(m.readings)
  <2>1. <<i, "warning">>[1] = i
    OBVIOUS
  <2> QED BY <1>3, <1>4, <2>1
<1>5. IsFiniteSet({d} \X (1..Len(m.readings)))
  <2>1. IsFiniteSet({d})
    BY FS_Singleton
  <2>2. PICK n \in Nat : n = Len(m.readings)
    BY <1>3
  <2>3. IsFiniteSet(1..n)
    BY FS_Interval
  <2> QED BY <2>1, <2>2, <2>3, FS_Product
<1>6. IsFiniteSet(new)
  <2>1. new \in SUBSET ({d} \X (1..Len(m.readings)))
    OBVIOUS
  <2> QED BY <1>5, <2>1, FS_Subset
<1>7. Announced(u)' = Announced(u) \cup new
  <2>1. ASSUME NEW x \in Desks \X Nat, x[1] # d
        PROVE  x \in Announced(u)' <=> x \in Announced(u)
    BY <1>1, <2>1 DEF Announced, NickAt
  <2>2. ASSUME NEW x \in Desks \X Nat, x[1] = d
        PROVE  (x \in Announced(u)' <=> x \in new) /\ x \notin Announced(u)
    BY <1>1, <1>4, <2>2 DEF Announced
  <2>3. \A x \in new : x \in Desks \X Nat /\ x[1] = d
    BY <1>3
  <2>4. Announced(u) \subseteq Desks \X Nat /\ Announced(u)' \subseteq Desks \X Nat
    BY DEF Announced
  <2> HIDE DEF new
  <2> QED BY <2>1, <2>2, <2>3, <2>4
<1>8. IsFiniteSet(Announced(u)') /\ Announced(u) \in SUBSET (Announced(u)')
  <2> HIDE DEF new
  <2> QED BY <1>6, <1>7, FS_Union
<1>9. Cardinality(Announced(u)) <= Cardinality(Announced(u)')
  BY <1>8, FS_Subset
<1>10. ASSUME NEW i \in DOMAIN m.readings, m.stage = "writes",
              <<i, "warning">> \in m.todo, NickAt(d, i)' = u
       PROVE  Cardinality(Announced(u)) + 1 <= Cardinality(Announced(u)')
  <2> DEFINE x == <<d, i>>
  <2>1. x \in new /\ x \notin Announced(u)
    BY <1>1, <1>3, <1>10 DEF Announced
  <2>2. (Announced(u) \cup {x}) \in SUBSET (Announced(u)')
    <3> HIDE DEF new
    <3> QED BY <1>7, <2>1
  <2>3. Cardinality(Announced(u) \cup {x}) = Cardinality(Announced(u)) + 1
    BY <2>1, FS_AddElement
  <2>4. Cardinality(Announced(u) \cup {x}) <= Cardinality(Announced(u)')
    BY <1>8, <2>2, FS_Subset
  <2> QED BY <2>3, <2>4
<1> QED
  BY <1>8, <1>9, <1>10

\* A row a list announced and writes counts once before and once after.
LEMMA WriteAnnounces ==
    ASSUME GInv, NEW d \in Desks, NEW i \in DOMAIN desk[d].readings, NEW w,
           ListWriteOf(d, i, w), NEW u \in Users, IsFiniteSet(Announced(u))
    PROVE  /\ IsFiniteSet(Announced(u)')
           /\ Cardinality(Announced(u)') = IF w = "warning" /\ u = NickAt(d, i)
                                           THEN Cardinality(Announced(u)) - 1
                                           ELSE Cardinality(Announced(u))
<1> DEFINE m == desk[d]
           x == <<d, i>>
<1>1. /\ \A e \in Desks \ {d} : desk'[e] = desk[e]
      /\ m.stage = "writes"
      /\ <<i, w>> \in m.todo /\ desk'[d].todo = m.todo \ {<<i, w>>}
      /\ \/ desk'[d] = Clear
         \/ desk'[d].stage = "writes" /\ desk'[d].call = m.call
  BY SettledStep DEF ListWriteOf
<1>2. desk'[d].todo # {} => desk'[d].stage = "writes" /\ desk'[d].call = m.call
  BY <1>1, ClearPlanned
<1>3. i \in Nat
  <2>1. m \in MassRequest
    BY DEF GInv, MassInv, DesksInv
  <2> QED BY <2>1 DEF MassRequest
<1>4. ASSUME NEW y \in Desks \X Nat
      PROVE  y \in Announced(u)' <=> y \in Announced(u) /\ ~ (w = "warning" /\ y = x)
  <2>1. CASE y[1] # d
    BY <1>1, <2>1 DEF Announced, NickAt
  <2>2. CASE y[1] = d
    <3>1. <<y[2], "warning">> = <<i, w>> <=> w = "warning" /\ y = x
      BY <1>4, <2>2
    <3>2. <<y[2], "warning">> \in desk'[d].todo <=>
              <<y[2], "warning">> \in m.todo /\ ~ (w = "warning" /\ y = x)
      BY <1>1, <3>1
    <3>3. y \in Announced(u) <=> <<y[2], "warning">> \in m.todo /\ m.call.nicks[y[2]] = u
      BY <1>1, <2>2 DEF Announced, NickAt
    <3>4. y \in Announced(u)' <=> <<y[2], "warning">> \in desk'[d].todo /\ m.call.nicks[y[2]] = u
      BY <1>2, <2>2 DEF Announced, NickAt
    <3> QED BY <3>2, <3>3, <3>4
  <2> QED BY <2>1, <2>2
<1>5. Announced(u) \subseteq Desks \X Nat /\ Announced(u)' \subseteq Desks \X Nat
  BY DEF Announced
<1>6. x \in Announced(u) <=> <<i, "warning">> \in m.todo /\ u = NickAt(d, i)
  BY <1>1, <1>3 DEF Announced
<1>7. CASE w = "warning" /\ u = NickAt(d, i)
  <2>1. Announced(u)' = Announced(u) \ {x} /\ x \in Announced(u)
    BY <1>1, <1>4, <1>5, <1>6, <1>7
  <2> QED BY <1>7, <2>1, FS_RemoveElement
<1>8. CASE ~ (w = "warning" /\ u = NickAt(d, i))
  <2>1. Announced(u)' = Announced(u)
    BY <1>1, <1>4, <1>5, <1>6, <1>8
  <2> QED BY <1>8, <2>1
<1> QED
  BY <1>7, <1>8

LEMMA TotalGrows ==
    ASSUME GInv, GInv', NEW d \in Desks, ListStep(d),
           \A u \in Users : IsFiniteSet(Announced(u))
    PROVE  /\ \A u \in Users : IsFiniteSet(Announced(u)')
           /\ \A u : Total(u) <= Total(u)' /\ Total(u) \in Nat /\ Total(u)' \in Nat
<1>1. log \in Seq(LogRow) /\ log' \in Seq(LogRow) /\ RowsKept
  BY ListKeepsRows DEF GInv, MassInv, IInv, TypeOK
<1>2. \A u : Warnings(log, u) <= Warnings(log', u) /\ Warnings(log, u) \in Nat
             /\ Warnings(log', u) \in Nat
  BY <1>1, RowsKeptCounts
<1>3. \A u \in Users : Cardinality(Announced(u)) \in Nat
  BY FS_CardinalityType
<1>4. CASE Walks(d) \/ GivesUp(d)
  <2>1. ASSUME NEW u \in Users
        PROVE  /\ IsFiniteSet(Announced(u)') /\ Cardinality(Announced(u)') \in Nat
               /\ Cardinality(Announced(u)) <= Cardinality(Announced(u)')
    BY <1>4, WalkAnnounces, FS_CardinalityType
  <2> QED BY <1>2, <1>3, <2>1 DEF Total
<1>5. ASSUME NEW i \in DOMAIN desk[d].readings, NEW w, ListWriteOf(d, i, w)
      PROVE  /\ \A u \in Users : IsFiniteSet(Announced(u)')
             /\ \A u : Total(u) <= Total(u)' /\ Total(u) \in Nat /\ Total(u)' \in Nat
  <2>1. ASSUME NEW u \in Users
        PROVE  /\ IsFiniteSet(Announced(u)') /\ Cardinality(Announced(u)') \in Nat
               /\ Cardinality(Announced(u)') = IF w = "warning" /\ u = NickAt(d, i)
                                               THEN Cardinality(Announced(u)) - 1
                                               ELSE Cardinality(Announced(u))
    BY <1>5, WriteAnnounces, FS_CardinalityType
  <2>2. w = "warning" => Warnings(log', NickAt(d, i)) = Warnings(log, NickAt(d, i)) + 1
    <3>1. SUFFICES ASSUME w = "warning"
                   PROVE  Warnings(log', NickAt(d, i)) = Warnings(log, NickAt(d, i)) + 1
      OBVIOUS
    <3>2. MassLogWarning(d, i) /\ MassLanded(d, i, w)
      BY <1>5, <3>1 DEF ListWriteOf
    <3>3. log' = Append(log, WarningRow(NickAt(d, i))) /\ NickAt(d, i) \in Users
      BY <3>2, EntryKnown DEF MassLogWarning
    <3>4. /\ WarningRow(NickAt(d, i)) \in LogRow
          /\ WarningRow(NickAt(d, i)).type = "WARNING"
          /\ WarningRow(NickAt(d, i)).target = NickAt(d, i)
      BY <3>3 DEF WarningRow, LogRow
    <3> QED BY <1>1, <3>3, <3>4, WarningAdded DEF Warnings
  <2>3. ASSUME NEW u
        PROVE  Total(u) <= Total(u)' /\ Total(u) \in Nat /\ Total(u)' \in Nat
    <3>1. Warnings(log, u)' = Warnings(log', u)
      OBVIOUS
    <3>2. CASE w = "warning" /\ u = NickAt(d, i) /\ u \in Users
      BY <1>2, <1>3, <2>1, <2>2, <3>2 DEF Total
    <3>3. CASE u \notin Users
      BY <1>2, <3>3 DEF Total
    <3>4. CASE u \in Users /\ ~ (w = "warning" /\ u = NickAt(d, i))
      BY <1>2, <1>3, <2>1, <3>4 DEF Total
    <3> QED BY <3>2, <3>3, <3>4
  <2> QED BY <2>1, <2>3
<1> QED
  BY <1>4, <1>5 DEF ListStep

(* What a list that walks holds it held before, or has read just now.      *)
LEMMA WalkReads ==
    ASSUME GInv, GInv', NEW d \in Desks, Walks(d) \/ GivesUp(d),
           NEW i \in DOMAIN desk'[d].readings
    PROVE  LET nick == desk'[d].call.nicks[i]
               row  == desk'[d].readings[i].row
           IN  /\ nick \in Users /\ row \in UserRow
               /\ \/ row = user[nick]
                  \/ /\ i \in DOMAIN desk[d].readings
                     /\ row = desk[d].readings[i].row /\ nick = desk[d].call.nicks[i]
<1> DEFINE m   == desk[d]
           new == desk'[d]
<1>0. /\ m \in MassRequest /\ DeskSound(m) /\ user \in [Users -> UserRow]
      /\ desk \in [Desks -> MassRequest] /\ now \in Nat
      /\ new \in MassRequest /\ DeskSound(new)
  BY DEF GInv, MassInv, DesksInv, IInv, TypeOK
<1>1. ASSUME NEW x, desk' = [desk EXCEPT ![d] = x]
      PROVE  new = x
  BY <1>0, <1>1
<1>2. /\ new.stage \notin {"idle", "check"}
      /\ new.call.nicks[i] \in Users /\ new.readings[i].row \in UserRow
  <2>1. new.readings # <<>>
    OBVIOUS
  <2>2. /\ new.stage \in {"idle", "check", "prepare", "third", "writes"}
        /\ new.readings \in Seq(Reading)
    BY <1>0 DEF MassRequest
  <2>3. NicksFound(new) /\ i \in 1..Len(new.call.nicks) /\ new.stage \notin {"idle", "check"}
    BY <1>0, <2>1, <2>2 DEF DeskSound, ReadingsSound
  <2>4. new.readings[i] \in Reading
    BY <2>2
  <2> QED BY <2>3, <2>4 DEF NicksFound, Reading
<1>3. CASE GivesUp(d) \/ RefuseList(d)
  <2>1. new = Clear
    BY <1>1, <1>3 DEF GivesUp, RefuseList
  <2> QED BY <1>2, <2>1, ClearPlanned
<1>4. ASSUME NEW c \in Lists, SubmitList(d, c) PROVE FALSE
  <2>1. new = [Clear EXCEPT !.stage = "check", !.call = c]
    BY <1>1, <1>4 DEF SubmitList
  <2>2. new.stage = "check"
    BY <2>1 DEF Clear
  <2> QED BY <1>2, <2>2
<1>5. CASE CheckNick(d)
  <2>1. new.readings = m.readings /\ m.readings = <<>>
    BY <1>0, <1>5 DEF CheckNick, MassRequest, DeskSound
  <2> QED BY <2>1
<1>6. CASE PrepareNick(d)
  <2> DEFINE t        == user[m.call.nicks[m.at]]
             reading  == [row |-> t, stamp |-> now]
             readings == Append(m.readings, reading)
             third    == [m EXCEPT !.stage = "third", !.readings = readings]
             ready    == Prepared(m, readings, MassPlan(m.call.op, t))
  <2>1. /\ m.stage = "prepare"
        /\ \/ desk' = [desk EXCEPT ![d] = third]
           \/ desk' = [desk EXCEPT ![d] = Clear]
           \/ desk' = [desk EXCEPT ![d] = ready]
    BY <1>6 DEF PrepareNick, NickAt
  <2>2. third.readings = readings /\ third.call = m.call
    <3> HIDE DEF readings
    <3> QED BY <1>0 DEF MassRequest
  <2>3. ready.readings = readings /\ ready.call = m.call
    <3> HIDE DEF readings, t
    <3> QED BY <1>0 DEF MassRequest, Prepared
  <2>4. Clear.stage = "idle"
    BY ClearPlanned
  <2> HIDE DEF third, ready
  <2>5. new = third \/ new = ready
    BY <1>1, <1>2, <2>1, <2>4
  <2>6. new.readings = readings /\ new.call = m.call
    BY <2>2, <2>3, <2>5
  <2>7. /\ m.readings \in Seq(Reading) /\ Len(m.readings) = m.at - 1 /\ m.at \in Nat
        /\ DOMAIN m.readings = 1..Len(m.readings)
    BY <1>0, <2>1 DEF MassRequest, DeskSound
  <2>8. /\ DOMAIN readings = 1..(Len(m.readings) + 1)
        /\ readings[Len(m.readings) + 1] = reading
        /\ \A k \in 1..Len(m.readings) : readings[k] = m.readings[k]
    <3>1. reading \in Reading
      <4>1. NicksFound(m) /\ m.at \in 1..Len(m.call.nicks)
        BY <1>0, <2>1 DEF DeskSound
      <4> QED BY <1>0, <4>1 DEF NicksFound, Reading
    <3> HIDE DEF reading
    <3>2. PICK old : old = m.readings
      OBVIOUS
    <3>3. old \in Seq(Reading) /\ readings = Append(old, reading)
      BY <2>7, <3>2
    <3> HIDE DEF readings
    <3>4. /\ readings \in Seq(Reading) /\ Len(readings) = Len(old) + 1
          /\ readings[Len(old) + 1] = reading
          /\ \A k \in 1..Len(old) : readings[k] = old[k]
      BY <3>1, <3>3, AppendProperties
    <3>5. DOMAIN readings = 1..(Len(old) + 1)
      BY <3>4, LenProperties
    <3> QED BY <3>2, <3>4, <3>5
  <2>9. Len(m.readings) + 1 = m.at /\ reading.row = t
    BY <2>7
  <2> HIDE DEF readings, reading, t
  <2>10. i \in 1..m.at /\ (i = m.at \/ i \in 1..Len(m.readings))
    <3>1. i \in 1..(Len(m.readings) + 1) /\ Len(m.readings) \in Nat
      BY <2>6, <2>7, <2>8
    <3> QED BY <2>9, <3>1
  <2>11. i = m.at => new.readings[i].row = user[new.call.nicks[i]]
    BY <2>6, <2>8, <2>9 DEF t
  <2> QED BY <1>2, <2>6, <2>7, <2>8, <2>10, <2>11
<1>7. CASE LogThird(d)
  <2> DEFINE readings == Redated(m)
             ready == Prepared(m, readings, MassPlan("warn", m.readings[m.at].row))
  <2>1. /\ m.stage = "third"
        /\ \/ desk' = [desk EXCEPT ![d] = Clear]
           \/ desk' = [desk EXCEPT ![d] = ready]
    BY <1>7 DEF LogThird, RowAt
  <2>a. m.at \in 1..Len(m.call.nicks) /\ Len(m.readings) = m.at
    BY <1>0, <2>1 DEF DeskSound
  <2>b. /\ DOMAIN readings = 1..m.at /\ DOMAIN m.readings = 1..m.at
        /\ \A k \in 1..m.at : readings[k].row = m.readings[k].row
    BY <1>0, <2>a, DatedAgain
  <2> HIDE DEF readings
  <2>2. ready.readings = readings /\ ready.call = m.call
    BY <1>0 DEF MassRequest, Prepared
  <2> HIDE DEF ready
  <2>3. new = ready
    BY <1>1, <1>2, <2>1, ClearPlanned
  <2> QED BY <1>2, <2>b, <2>2, <2>3
<1> QED
  BY <1>3, <1>4, <1>5, <1>6, <1>7 DEF Walks

LEMMA ListStepCovers ==
    ASSUME GInv, NEW d \in Desks, ListStep(d), Backed,
           \A u : Total(u) <= Total(u)' /\ Total(u) \in Nat /\ Total(u)' \in Nat,
           NEW v \in Users
    PROVE  user'[v].advNum <= Total(v)'
<1>1. /\ user[v].advNum <= Total(v) /\ user[v].advNum \in 0..2
  <2>1. log \in Seq(LogRow) /\ user[v] \in UserRow
    BY DEF GInv, MassInv, IInv, TypeOK
  <2>2. Backing(log, Due, v) = Total(v)
    BY <2>1, DueNat DEF Backed
  <2> QED BY <2>1, <2>2 DEF Backed, WInv, Covered, UserRow, AdvNums
<1>2. CASE user'[v].advNum = user[v].advNum
  BY <1>1, <1>2
<1>3. CASE Walks(d) \/ GivesUp(d)
  <2>1. user' = user
    BY <1>3, WalkStep
  <2> QED BY <1>2, <2>1
<1>4. ASSUME NEW i \in DOMAIN desk[d].readings, NEW w, ListWriteOf(d, i, w)
      PROVE  user'[v].advNum <= Total(v)'
  <2>1. CASE w # "update"
    <3>1. user' = user
      BY <1>4, <2>1 DEF ListWriteOf
    <3> QED BY <1>2, <3>1
  <2>2. CASE w = "update"
    <3>1. MassUpdateUser(d, i) /\ MassLanded(d, i, "update")
      BY <1>4, <2>2 DEF ListWriteOf
    <3>2. user'[v].advNum = IF v = NickAt(d, i) /\ desk[d].call.op = "warn"
                            THEN IF RowAt(d, i).advNum = 2 THEN 0
                                 ELSE RowAt(d, i).advNum + 1
                            ELSE user[v].advNum
      BY <3>1, ListUpdated
    <3>3. /\ desk[d].stage = "writes" /\ <<i, "update">> \in desk[d].todo
          /\ ListBacked(d) /\ RowAt(d, i) = desk[d].readings[i].row
          /\ RowAt(d, i).advNum \in 0..2
      BY <3>1, EntryKnown DEF MassLanded, Backed, RowAt, UserRow, AdvNums
    <3>4. CASE v = NickAt(d, i) /\ desk[d].call.op = "warn" /\ RowAt(d, i).advNum # 2
      <4>1. RowAt(d, i).advNum + 1 <= Total(v)
        BY <3>3, <3>4 DEF ListBacked
      <4> QED BY <3>2, <3>3, <3>4, <4>1
    <3>5. CASE v = NickAt(d, i) /\ desk[d].call.op = "warn" /\ RowAt(d, i).advNum = 2
      BY <3>2, <3>5
    <3>6. CASE ~ (v = NickAt(d, i) /\ desk[d].call.op = "warn")
      BY <1>2, <3>2, <3>6
    <3> QED BY <3>4, <3>5, <3>6
  <2> QED BY <2>1, <2>2
<1> QED
  BY <1>3, <1>4 DEF ListStep

LEMMA ListStepBacked ==
    ASSUME GInv, GInv', NEW d \in Desks, ListStep(d), Backed
    PROVE  Backed'
<1>0. /\ log \in Seq(LogRow) /\ log' \in Seq(LogRow) /\ IInv'
      /\ req \in [Procs -> Request] /\ user \in [Users -> UserRow]
      /\ \A u \in Users : IsFiniteSet(Announced(u))
      /\ \A e \in Desks : ListBacked(e)
      /\ desk \in [Desks -> MassRequest] /\ desk' \in [Desks -> MassRequest]
      /\ DeskSound(desk[d])
  BY DEF GInv, MassInv, IInv, TypeOK, Backed, DesksInv
<1>1. /\ \A u \in Users : IsFiniteSet(Announced(u)')
      /\ \A u : Total(u) <= Total(u)' /\ Total(u) \in Nat /\ Total(u)' \in Nat
  BY <1>0, TotalGrows
<1>2. /\ \A u : Backing(log, Due, u) = Total(u)
      /\ \A u : Backing(log', Due', u) = Total(u)'
  <2>1. \A u : Backing(log, Due, u) = Total(u)
    BY <1>0, DueNat
  <2>2. \A u \in Users : Due'[u] = Cardinality(Announced(u)')
    BY DEF Due
  <2> QED BY <2>1, <2>2 DEF Backing, Total, Warnings
<1>3. /\ \A e \in Desks \ {d} : desk'[e] = desk[e]
      /\ UNCHANGED req
  BY WalkStep, SettledStep DEF ListStep, ListWriteOf
<1>4. WInv(Due)'
  <2>1. Covered(Due)'
    <3>1. ASSUME NEW v \in Users PROVE user'[v].advNum <= Backing(log', Due', v)
      BY <1>1, <1>2, ListStepCovers
    <3> QED BY <3>1 DEF Covered
  <2>2. ASSUME NEW p \in Procs
        PROVE  BackedBy(req'[p], Backing(log', Due', req'[p].call.target))
    <3>1. BackedBy(req[p], Total(req[p].call.target)) /\ req[p] \in Request
      BY <1>0, <1>2 DEF Backed, WInv
    <3>2. PICK n \in Nat : n = Total(req[p].call.target)
      BY <1>1
    <3>3. PICK t : t = req[p].call.target
      OBVIOUS
    <3>4. PICK k \in Nat : k = Total(t)' /\ n <= k
      BY <1>1, <3>2, <3>3
    <3>5. BackedBy(req[p], k)
      BY <3>1, <3>2, <3>4, BackedByMore
    <3> QED BY <1>2, <1>3, <3>3, <3>4, <3>5
  <2> QED BY <1>0, <2>1, <2>2 DEF WInv
<1>5. ASSUME NEW e \in Desks, NEW i \in DOMAIN desk[e].readings
      PROVE  /\ NickAt(e, i) = desk[e].call.nicks[i]
             /\ desk[e].readings[i].row.advNum \in 0..2
             /\ desk[e].readings[i].row.advNum <= Total(NickAt(e, i))
             /\ /\ desk[e].stage = "writes" /\ desk[e].call.op = "warn"
                /\ desk[e].readings[i].row.advNum # 2
                /\ <<i, "update">> \in desk[e].todo
                => desk[e].readings[i].row.advNum + 1 <= Total(NickAt(e, i))
  <2>1. desk[e].readings[i].row \in UserRow
    <3>1. desk[e] \in MassRequest
      BY <1>0
    <3>2. desk[e].readings[i] \in Reading
      BY <3>1 DEF MassRequest
    <3> QED BY <3>2 DEF Reading
  <2> QED BY <1>0, <2>1 DEF ListBacked, NickAt, UserRow, AdvNums
<1>6. ASSUME NEW e \in Desks,
             desk'[e].call = desk[e].call /\ desk'[e].readings = desk[e].readings
                /\ desk'[e].todo \subseteq desk[e].todo /\ desk'[e].stage = desk[e].stage
      PROVE  ListBacked(e)'
  <2> SUFFICES ASSUME NEW i \in DOMAIN desk'[e].readings
               PROVE  LET adv == desk'[e].readings[i].row.advNum IN
                      /\ adv <= Total(NickAt(e, i))'
                      /\ /\ desk'[e].stage = "writes" /\ desk'[e].call.op = "warn" /\ adv # 2
                         /\ <<i, "update">> \in desk'[e].todo
                         => adv + 1 <= Total(NickAt(e, i))'
    BY DEF ListBacked
  <2>1. NickAt(e, i)' = NickAt(e, i)
    BY <1>6 DEF NickAt
  <2>2. PICK t : t = NickAt(e, i)
    OBVIOUS
  <2>3. Total(NickAt(e, i))' = Total(t)'
    BY <2>1, <2>2 DEF Total, Announced
  <2>4. Total(t) <= Total(t)' /\ Total(t) \in Nat /\ Total(t)' \in Nat
    BY <1>1
  <2> QED BY <1>5, <1>6, <2>2, <2>3, <2>4
<1>7. ASSUME Walks(d) \/ GivesUp(d) PROVE ListBacked(d)'
  <2> SUFFICES ASSUME NEW i \in DOMAIN desk'[d].readings
               PROVE  LET adv == desk'[d].readings[i].row.advNum IN
                      /\ adv <= Total(NickAt(d, i))'
                      /\ /\ desk'[d].stage = "writes" /\ desk'[d].call.op = "warn" /\ adv # 2
                         => adv + 1 <= Total(NickAt(d, i))'
    BY DEF ListBacked
  <2> DEFINE row == desk'[d].readings[i].row
  <2>1. PICK t \in Users : t = desk'[d].call.nicks[i]
    BY <1>7, WalkReads
  <2>2. NickAt(d, i)' = t /\ Total(NickAt(d, i))' = Total(t)'
    BY <2>1 DEF NickAt, Total, Announced
  <2>3. row \in UserRow /\ row.advNum \in 0..2
    BY <1>7, WalkReads DEF UserRow, AdvNums
  <2>4. row.advNum <= Total(t)
    <3>1. CASE row = user[t]
      BY <1>2, <3>1 DEF Backed, WInv, Covered
    <3>2. CASE /\ i \in DOMAIN desk[d].readings
               /\ row = desk[d].readings[i].row /\ t = desk[d].call.nicks[i]
      BY <1>5, <3>2
    <3> QED BY <1>7, <2>1, <3>1, <3>2, WalkReads
  <2>5. Total(t) <= Total(t)' /\ Total(t) \in Nat /\ Total(t)' \in Nat
    BY <1>1
  <2>6. CASE ~ (desk'[d].stage = "writes" /\ desk'[d].call.op = "warn" /\ row.advNum # 2)
    BY <2>2, <2>3, <2>4, <2>5, <2>6
  <2>7. CASE desk'[d].stage = "writes" /\ desk'[d].call.op = "warn" /\ row.advNum # 2
    <3>1. "warning" \in EntryPlan(desk'[d], i)
      BY <2>7 DEF EntryPlan, MassPlan, MassWarning
    <3>2. <<i, "warning">> \in desk'[d].todo
      BY <1>7, <2>7, <3>1, WalkStep DEF FullPlan
    <3>3. Cardinality(Announced(t)) + 1 <= Cardinality(Announced(t)')
      BY <1>0, <1>7, <2>2, <2>7, <3>2, WalkAnnounces
    <3>4. Total(t) + 1 <= Total(t)'
      <4>1. RowsKept
        BY ListKeepsRows
      <4>2. /\ Warnings(log, t) <= Warnings(log', t)
            /\ Warnings(log, t) \in Nat /\ Warnings(log', t) \in Nat
        BY <1>0, <4>1, RowsKeptCounts
      <4>3. Cardinality(Announced(t)) \in Nat /\ Cardinality(Announced(t)') \in Nat
        BY <1>0, <1>1, FS_CardinalityType
      <4> QED BY <3>3, <4>2, <4>3 DEF Total
    <3> QED BY <2>2, <2>3, <2>4, <2>5, <3>4
  <2> QED BY <2>6, <2>7
<1>8. ASSUME NEW i \in DOMAIN desk[d].readings, NEW w, ListWriteOf(d, i, w)
      PROVE  ListBacked(d)'
  <2>1. CASE desk'[d] = Clear
    BY <2>1, ClearSound DEF ListBacked
  <2>2. CASE desk'[d] # Clear
    BY <1>6, <1>8, <2>2, SettledStep DEF ListWriteOf
  <2> QED BY <2>1, <2>2
<1>9. ASSUME NEW e \in Desks PROVE ListBacked(e)'
  <2>1. CASE e # d
    BY <1>3, <1>6, <2>1
  <2>2. CASE e = d
    BY <1>7, <1>8, <2>2 DEF ListStep
  <2> QED BY <2>1, <2>2
<1> QED
  BY <1>1, <1>4, <1>9 DEF Backed

LEMMA NextAInv == AInv /\ [MassNext]_allVars => AInv'
<1> SUFFICES ASSUME AInv, [MassNext]_allVars PROVE AInv'
  OBVIOUS
<1>0. GInv /\ GInv'
  BY GInvNext DEF AInv
<1>1. setting' = setting
  BY SettingStays, MassCases
<1>2. SUFFICES ASSUME ~ setting.faults PROVE Backed'
  BY <1>0, <1>1 DEF AInv
<1>3. Backed
  BY <1>2 DEF AInv
<1>4. CASE [Next]_vars /\ UNCHANGED massVars
  <2>1. desk' = desk
    BY <1>4 DEF massVars
  <2>2. \A u : Announced(u)' = Announced(u)
    BY <2>1 DEF Announced, NickAt
  <2>3. IInv /\ log \in Seq(LogRow) /\ log' \in Seq(LogRow)
    BY <1>0 DEF GInv, MassInv, IInv, TypeOK
  <2>4. Due \in [Users -> Nat] /\ Due' = Due
    BY <1>3, <2>2, <2>3, DueNat DEF Due, Backed
  <2>5. PICK others \in [Users -> Nat] : others = Due
    BY <2>4
  <2>6. WInv(others)'
    BY <1>3, <1>4, <2>5, NextWInv DEF Backed
  <2>7. WInv(Due)'
    BY <2>4, <2>5, <2>6 DEF WInv, Covered
  <2>8. \A u : Total(u) <= Total(u)' /\ Total(u) \in Nat /\ Total(u)' \in Nat
    <3>1. RowsKept
      BY <1>4, <2>3, NextKeepsRows
    <3>2. \A u : /\ Warnings(log, u) <= Warnings(log', u)
                 /\ Warnings(log, u) \in Nat /\ Warnings(log', u) \in Nat
      BY <2>3, <3>1, RowsKeptCounts
    <3>3. \A u \in Users : Cardinality(Announced(u)) \in Nat
      BY <1>3, FS_CardinalityType DEF Backed
    <3> QED BY <2>2, <3>2, <3>3 DEF Total
  <2>9. ASSUME NEW d \in Desks, NEW i \in DOMAIN desk[d].readings
        PROVE  /\ desk[d].readings[i].row.advNum \in 0..2
               /\ desk[d].readings[i].row.advNum <= Total(NickAt(d, i))
               /\ /\ desk[d].stage = "writes" /\ desk[d].call.op = "warn"
                  /\ desk[d].readings[i].row.advNum # 2
                  /\ <<i, "update">> \in desk[d].todo
                  => desk[d].readings[i].row.advNum + 1 <= Total(NickAt(d, i))
    <3>1. desk[d] \in MassRequest
      BY <1>0 DEF GInv, MassInv, DesksInv
    <3>2. desk[d].readings[i] \in Reading
      BY <3>1 DEF MassRequest
    <3>3. desk[d].readings[i].row \in UserRow
      BY <3>2 DEF Reading
    <3> QED BY <1>3, <3>3 DEF Backed, ListBacked, UserRow, AdvNums
  <2>10. ASSUME NEW d \in Desks, NEW i \in DOMAIN desk[d].readings
         PROVE  /\ Total(NickAt(d, i)) <= Total(NickAt(d, i))'
                /\ Total(NickAt(d, i)) \in Nat /\ Total(NickAt(d, i))' \in Nat
    <3>1. PICK t : t = NickAt(d, i)
      OBVIOUS
    <3>2. Total(NickAt(d, i))' = Total(t)'
      BY <2>1, <3>1 DEF Total, Announced, NickAt
    <3> QED BY <2>8, <3>1, <3>2
  <2>11. ASSUME NEW d \in Desks PROVE ListBacked(d)'
    <3> SUFFICES ASSUME NEW i \in DOMAIN desk'[d].readings
                 PROVE  LET adv == desk'[d].readings[i].row.advNum IN
                        /\ adv <= Total(NickAt(d, i))'
                        /\ /\ desk'[d].stage = "writes" /\ desk'[d].call.op = "warn"
                           /\ adv # 2 /\ <<i, "update">> \in desk'[d].todo
                           => adv + 1 <= Total(NickAt(d, i))'
      BY DEF ListBacked
    <3>1. i \in DOMAIN desk[d].readings
      BY <2>1
    <3> QED BY <2>1, <2>9, <2>10, <3>1
  <2> QED BY <1>3, <2>2, <2>7, <2>11 DEF Backed
<1>5. ASSUME NEW d \in Desks, ListStep(d) PROVE Backed'
  BY <1>0, <1>3, <1>5, ListStepBacked
<1>6. ASSUME NEW d \in Desks, LostByList(d) PROVE FALSE
  BY <1>2, <1>6 DEF LostByList
<1> QED
  BY <1>4, <1>5, <1>6, MassCases

(***************************************************************************)
(* As long as no query fails, every warning counted is in the history once *)
(* every request and list has answered, although warnMultiple logs and     *)
(* counts in no order, from rows others may have changed meanwhile.        *)
(***************************************************************************)
THEOREM ListsLogWarnings == MassSpec => []WarningsLoggedAtRest
<1>1. MassInit => AInv
  <2> SUFFICES ASSUME MassInit PROVE AInv
    OBVIOUS
  <2>1. GInv /\ Init /\ \A d \in Desks : desk[d] = Clear
    BY GInvInit DEF MassInit
  <2>2. \A u : Announced(u) = {}
    BY <2>1, ClearPlanned DEF Announced
  <2>3. Due = NoOthers /\ \A u \in Users : IsFiniteSet(Announced(u))
    BY <2>2, FS_EmptySet DEF Due, NoOthers
  <2>4. WInv(Due)
    BY <2>1, <2>3, InitWInv DEF WInv, Covered
  <2>5. \A d \in Desks : ListBacked(d)
    BY <2>1, ClearSound DEF ListBacked
  <2> QED BY <2>1, <2>3, <2>4, <2>5 DEF AInv, Backed
<1>2. AInv => WarningsLoggedAtRest
  <2> SUFFICES ASSUME AInv, EverythingAtRest, ~ setting.faults, NEW u \in Users
               PROVE  user[u].advNum <= Cardinality(WarningRows(log, u))
    BY DEF WarningsLoggedAtRest, EveryWarningIsLogged
  <2>1. Backed /\ log \in Seq(LogRow)
    BY DEF AInv, GInv, MassInv, IInv, TypeOK
  <2>2. Announced(u) = {}
    BY DEF EverythingAtRest, Working, Announced
  <2>3. user[u].advNum <= Total(u)
    BY <2>1, DueNat DEF Backed, WInv, Covered
  <2>4. Total(u) = Cardinality(WarningRows(log, u))
    BY <2>1, <2>2, FS_EmptySet, WarningRowsFinite DEF Total, Warnings
  <2> QED BY <2>3, <2>4
<1> QED
  BY <1>1, <1>2, NextAInv, PTL DEF MassSpec
-----------------------------------------------------------------------------
(***************************************************************************)
(* The warnings behind the punishments, with lists.  A list in the middle  *)
(* of its work owes a member it warns the counter, the history or both;    *)
(* it keeps one account per member as long as it names nobody twice.       *)
(***************************************************************************)
NamesEachOnce == \A c \in Lists : \A i, j \in 1..Len(c.nicks) :
                    c.nicks[i] = c.nicks[j] => i = j

Warns(d, i, u) == /\ i \in DOMAIN desk[d].readings /\ desk[d].call.op = "warn"
                  /\ NickAt(d, i) = u

\* Of a member with two warnings the third is logged before the writes.
EntryDue(d, i, u) ==
    LET m   == desk[d]
        adv == m.readings[i].row.advNum IN
    IF adv # 2
    THEN /\ 3 * Pun(u) + adv + 1
               <= War(u) + (IF <<i, "warning">> \in m.todo THEN 1 ELSE 0)
         /\ user[u].advNum <= adv + 1
    ELSE IF m.stage = "third" /\ i = m.at THEN EarnedBy(u)
    ELSE /\ 3 * Pun(u) + (IF <<i, "register">> \in m.todo THEN 3 ELSE 0) <= War(u)
         /\ <<i, "update">> \notin m.todo => user[u].advNum = 0

ListEarned(d, u) == /\ \A i : Warns(d, i, u) => EntryDue(d, i, u)
                    /\ (\A i : ~ Warns(d, i, u)) => EarnedBy(u)

Paid == /\ \A d \in Desks : Working(d) => \A u \in Users : ListEarned(d, u)
        /\ (\A d \in Desks : ~ Working(d)) => \A u \in Users : Earned(u)

JInv == /\ UInv /\ YInv /\ NamesEachOnce
        /\ \A d \in Desks : desk[d].call \in Lists
        /\ Calm => Paid

LEMMA CountsNat ==
    ASSUME NEW rows \in Seq(LogRow), rows = log, NEW u
    PROVE  War(u) \in Nat /\ Pun(u) \in Nat
<1>1. WarningRows(log, u) \in SUBSET (DOMAIN log) /\ PunishedBySystem(u) \in SUBSET (DOMAIN log)
  BY DEF WarningRows, PunishedBySystem
<1> QED
  BY <1>1, RowsCounted DEF War, Warnings, Pun

LEMMA ListCounts ==
    ASSUME GInv, NEW d \in Desks, NEW i, NEW w, ListWriteOf(d, i, w), NEW v
    PROVE  /\ War(v)' = IF w = "warning" /\ NickAt(d, i) = v THEN War(v) + 1 ELSE War(v)
           /\ Pun(v)' = IF w = "register" /\ NickAt(d, i) = v /\ desk[d].call.op = "warn"
                        THEN Pun(v) + 1 ELSE Pun(v)
<1>0. log \in Seq(LogRow) /\ MassLanded(d, i, w)
  BY DEF GInv, MassInv, IInv, TypeOK, ListWriteOf
<1>1. CASE w \notin {"register", "warning", "retireWarnings"}
  <2>1. log' = log
    BY <1>1 DEF ListWriteOf
  <2> QED BY <1>1, <2>1 DEF War, Warnings, Pun, PunishedBySystem
<1>2. CASE w = "register"
  <2>1. MassRegister(d, i)
    BY <1>2 DEF ListWriteOf
  <2>2. PICK row \in LogRow :
            /\ log' = Append(log, row) /\ row.target = NickAt(d, i) /\ row.type # "WARNING"
            /\ row.bySystem = (desk[d].call.op = "warn")
    BY <2>1, ListRegistered
  <2>3. /\ War(v)' = IF row.target = v /\ row.type = "WARNING"
                     THEN War(v) + 1 ELSE War(v)
        /\ Pun(v)' = IF row.target = v /\ row.bySystem THEN Pun(v) + 1 ELSE Pun(v)
    BY <1>0, <2>2, RowCounts
  <2> QED BY <1>2, <2>2, <2>3
<1>3. CASE w = "warning"
  <2>1. MassLogWarning(d, i)
    BY <1>3 DEF ListWriteOf
  <2>2. PICK row \in LogRow :
            /\ log' = Append(log, row) /\ row.target = NickAt(d, i) /\ row.type = "WARNING"
            /\ ~ row.bySystem
    <3> DEFINE row == WarningRow(NickAt(d, i))
    <3>1. log' = Append(log, row) /\ NickAt(d, i) \in Users
      BY <1>0, <2>1, EntryKnown DEF MassLogWarning
    <3>2. /\ row \in LogRow /\ row.target = NickAt(d, i) /\ row.type = "WARNING"
          /\ ~ row.bySystem
      BY <3>1 DEF WarningRow, LogRow
    <3> HIDE DEF row
    <3> QED BY <3>1, <3>2
  <2> QED BY <1>0, <1>3, <2>2, RowCounts
<1>4. CASE w = "retireWarnings"
  <2>1. log' = [k \in DOMAIN log |-> Retired(log[k], NickAt(d, i))]
    BY <1>4 DEF ListWriteOf, MassRetireWarnings, Retired
  <2>2. ASSUME NEW k \in DOMAIN log
        PROVE  /\ Retired(log[k], NickAt(d, i)).target = log[k].target
               /\ Retired(log[k], NickAt(d, i)).type = log[k].type
               /\ Retired(log[k], NickAt(d, i)).bySystem = log[k].bySystem
    <3>1. log[k] \in LogRow
      BY <1>0
    <3> QED BY <3>1, RowRetired
  <2>3. WarningRows(log', v) = WarningRows(log, v) /\ PunishedBySystem(v)' = PunishedBySystem(v)
    BY <2>1, <2>2 DEF WarningRows, PunishedBySystem
  <2> QED BY <1>4, <2>3 DEF War, Warnings, Pun
<1> QED
  BY <1>1, <1>2, <1>3, <1>4

\* The plan of an entry, by what the list is about.
LEMMA EntryPlans ==
    ASSUME NEW m, NEW i, NEW w \in EntryPlan(m, i), m.call.op \in MassOps
    PROVE  /\ m.call.op # "warn" => w # "warning"
           /\ m.call.op = "warn" /\ m.readings[i].row.advNum = 2 => w # "warning"
           /\ m.call.op = "warn" /\ m.readings[i].row.advNum # 2 => w # "register"
<1>1. m.call.op \in {"demote", "fire", "warn"}
  BY DEF MassOps
<1>2. w \in MassPlan(m.call.op, m.readings[i].row)
  BY DEF EntryPlan
<1>3. CASE m.call.op = "demote"
  BY <1>2, <1>3 DEF MassPlan, MassChange
<1>4. CASE m.call.op = "fire"
  BY <1>2, <1>4 DEF MassPlan, MassDismissal
<1>5. CASE m.call.op = "warn" /\ m.readings[i].row.advNum = 2
  BY <1>2, <1>5 DEF MassPlan, MassChange
<1>6. CASE m.call.op = "warn" /\ m.readings[i].row.advNum # 2
  BY <1>2, <1>6 DEF MassPlan, MassWarning
<1> QED
  BY <1>1, <1>3, <1>4, <1>5, <1>6

(* The account of the member a write is about.                             *)
LEMMA WritePays ==
    ASSUME GInv, GInv', NEW d \in Desks, NEW i \in DOMAIN desk[d].readings, NEW w,
           ListWriteOf(d, i, w), NEW u \in Users, u = NickAt(d, i)
    PROVE  LET m    == desk[d]
               adv  == m.readings[i].row.advNum
               rest == m.todo \ {<<i, w>>}
           IN  /\ m.call.op # "warn" /\ EarnedBy(u) => EarnedBy(u)'
               /\ m.call.op = "warn" /\ EntryDue(d, i, u) =>
                    IF adv # 2
                    THEN /\ 3 * Pun(u)' + adv + 1
                               <= War(u)' + (IF <<i, "warning">> \in rest THEN 1 ELSE 0)
                         /\ user'[u].advNum <= adv + 1
                    ELSE /\ 3 * Pun(u)' + (IF <<i, "register">> \in rest THEN 3 ELSE 0)
                               <= War(u)'
                         /\ <<i, "update">> \notin rest => user'[u].advNum = 0
<1> DEFINE m    == desk[d]
           adv  == m.readings[i].row.advNum
           rest == m.todo \ {<<i, w>>}
<1>1. /\ MassLanded(d, i, w) /\ m.stage = "writes" /\ w \in EntryPlan(m, i)
      /\ <<i, w>> \in m.todo
  BY SettledStep DEF ListWriteOf
<1>2. /\ m.call.op \in MassOps /\ adv \in 0..2 /\ RowAt(d, i).advNum = adv
      /\ user[u].advNum \in 0..2
  <2>1. RowAt(d, i) \in UserRow /\ user[u] \in UserRow
    BY <1>1, EntryKnown DEF GInv, MassInv, IInv, TypeOK
  <2> QED BY <1>1, <2>1, EntryKnown DEF RowAt, UserRow, AdvNums
<1>3. /\ War(u)' = IF w = "warning" THEN War(u) + 1 ELSE War(u)
      /\ Pun(u)' = IF w = "register" /\ m.call.op = "warn" THEN Pun(u) + 1 ELSE Pun(u)
      /\ War(u) \in Nat /\ Pun(u) \in Nat
  BY ListCounts, CountsNat DEF GInv, MassInv, IInv, TypeOK
<1>4. user'[u].advNum = IF w = "update" /\ m.call.op = "warn"
                        THEN IF adv = 2 THEN 0 ELSE adv + 1
                        ELSE user[u].advNum
  <2>1. w # "update" => user' = user
    BY DEF ListWriteOf
  <2>2. w = "update" => MassUpdateUser(d, i)
    BY DEF ListWriteOf
  <2> QED BY <1>2, <2>1, <2>2, ListUpdated
<1>5. /\ m.call.op # "warn" => w # "warning"
      /\ m.call.op = "warn" /\ adv = 2 => w # "warning"
      /\ m.call.op = "warn" /\ adv # 2 => w # "register"
  BY <1>1, <1>2, EntryPlans
<1>6. ASSUME NEW x PROVE <<i, x>> \in rest <=> <<i, x>> \in m.todo /\ x # w
  <2>1. <<i, x>> = <<i, w>> <=> x = w
    OBVIOUS
  <2> QED BY <2>1
<1>7. CASE m.call.op # "warn"
  <2>1. EarnedBy(u)' <=> 3 * Pun(u)' + user'[u].advNum <= War(u)'
    BY DEF EarnedBy
  <2> QED BY <1>3, <1>4, <1>5, <1>7, <2>1 DEF EarnedBy
<1>8. CASE m.call.op = "warn" /\ adv # 2
  <2>1. EntryDue(d, i, u) =>
            /\ 3 * Pun(u) + adv + 1
                  <= War(u) + (IF <<i, "warning">> \in m.todo THEN 1 ELSE 0)
            /\ user[u].advNum <= adv + 1
    BY <1>8 DEF EntryDue
  <2>2. w = "warning" => <<i, "warning">> \in m.todo
    BY <1>1
  <2> HIDE DEF m, adv, rest
  <2> QED BY <1>2, <1>3, <1>4, <1>5, <1>6, <1>8, <2>1, <2>2 DEF adv, rest, m
<1>9. CASE m.call.op = "warn" /\ adv = 2
  <2>1. EntryDue(d, i, u) =>
            /\ 3 * Pun(u) + (IF <<i, "register">> \in m.todo THEN 3 ELSE 0) <= War(u)
            /\ <<i, "update">> \notin m.todo => user[u].advNum = 0
    BY <1>1, <1>9 DEF EntryDue
  <2>2. w = "register" => <<i, "register">> \in m.todo
    BY <1>1
  <2> HIDE DEF m, adv, rest
  <2> QED BY <1>2, <1>3, <1>4, <1>5, <1>6, <1>9, <2>1, <2>2 DEF adv, rest, m
<1> QED
  BY <1>2, <1>7, <1>8, <1>9

LEMMA WarningPlans ==
    ASSUME NEW m, NEW i, m.call.op = "warn"
    PROVE  IF m.readings[i].row.advNum = 2
           THEN "register" \in EntryPlan(m, i) /\ "update" \in EntryPlan(m, i)
           ELSE "warning" \in EntryPlan(m, i)
BY DEF EntryPlan, MassPlan, MassChange, MassWarning

\* A list names a member in one place.
LEMMA OneEntry ==
    ASSUME GInv, NamesEachOnce, NEW d \in Desks, desk[d].call \in Lists,
           NEW i \in DOMAIN desk[d].readings, NEW j \in DOMAIN desk[d].readings,
           NickAt(d, i) = NickAt(d, j)
    PROVE  i = j
<1>1. DeskSound(desk[d])
  BY DEF GInv, MassInv, DesksInv
<1>2. i \in 1..Len(desk[d].call.nicks) /\ j \in 1..Len(desk[d].call.nicks)
  BY <1>1 DEF DeskSound, ReadingsSound
<1> QED
  BY <1>2 DEF NamesEachOnce, NickAt

(* Until it writes, the account of a list balances without what it plans:  *)
(* when it throws it owes nothing.                                         *)
LEMMA DueFits ==
    ASSUME GInv, NEW d \in Desks, Unraced(desk[d], user), desk[d].stage # "writes",
           NEW u \in Users, ListEarned(d, u)
    PROVE  EarnedBy(u)
<1> DEFINE m == desk[d]
<1>0. /\ m \in MassRequest /\ DeskSound(m) /\ ListPlanned(m) /\ user[u] \in UserRow
      /\ m.stage \in {"idle", "check", "prepare", "third"}
      /\ War(u) \in Nat /\ Pun(u) \in Nat
  <2>1. desk[d] \in MassRequest /\ user[u] \in UserRow /\ log \in Seq(LogRow)
    BY DEF GInv, MassInv, DesksInv, IInv, TypeOK
  <2> QED BY <2>1, CountsNat DEF GInv, MassInv, DesksInv, MassRequest
<1>1. CASE \A i : ~ Warns(d, i, u)
  BY <1>1 DEF ListEarned
<1>2. ASSUME NEW i, Warns(d, i, u) PROVE EarnedBy(u)
  <2>1. /\ i \in DOMAIN m.readings /\ m.call.op = "warn" /\ m.call.nicks[i] = u
        /\ EntryDue(d, i, u)
    BY <1>2 DEF Warns, NickAt, ListEarned
  <2>2. m.stage \in {"prepare", "third"} /\ m.readings[i].row = user[u]
    <3>1. m.stage \notin {"idle", "check"}
      BY <1>0, <2>1 DEF DeskSound
    <3> QED BY <1>0, <2>1, <3>1 DEF Unraced
  <2>3. user[u].advNum \in 0..2
    BY <1>0 DEF UserRow, AdvNums
  <2>4. CASE m.stage = "third" /\ i = m.at
    <3>1. m.readings[i].row.advNum = 2
      BY <1>0, <2>4 DEF DeskSound
    <3> QED BY <2>1, <2>4, <3>1 DEF EntryDue
  <2>5. CASE ~ (m.stage = "third" /\ i = m.at)
    <3>1. i \in 1..(m.at - 1)
      <4>1. m.readings \in Seq(Reading) /\ m.at \in Nat
        BY <1>0 DEF MassRequest
      <4>2. DOMAIN m.readings = 1..Len(m.readings)
        BY <4>1, LenProperties
      <4> QED BY <1>0, <2>1, <2>2, <2>5, <4>1, <4>2 DEF DeskSound
    <3>2. \A w \in EntryPlan(m, i) : <<i, w>> \in m.todo
      BY <1>0, <2>2, <3>1 DEF ListPlanned
    <3>3. CASE user[u].advNum = 2
      <4>1. <<i, "register">> \in m.todo
        BY <2>1, <2>2, <3>2, <3>3, WarningPlans
      <4>2. 3 * Pun(u) + (IF <<i, "register">> \in m.todo THEN 3 ELSE 0) <= War(u)
        BY <2>1, <2>2, <2>5, <3>3 DEF EntryDue
      <4> QED BY <1>0, <3>3, <4>1, <4>2 DEF EarnedBy
    <3>4. CASE user[u].advNum # 2
      <4>1. 3 * Pun(u) + user[u].advNum + 1
               <= War(u) + (IF <<i, "warning">> \in m.todo THEN 1 ELSE 0)
        BY <2>1, <2>2, <3>4 DEF EntryDue
      <4> QED BY <1>0, <2>3, <4>1 DEF EarnedBy
    <3> QED BY <3>3, <3>4
  <2> QED BY <2>4, <2>5
<1> QED
  BY <1>1, <1>2

\* An entry that is neither read nor written leaves the account as it was.
LEMMA EntryStays ==
    ASSUME NEW d \in Desks, NEW i, NEW u, UNCHANGED <<War(u), Pun(u), user[u]>>,
           desk'[d].readings[i] = desk[d].readings[i],
           \A x : <<i, x>> \in desk'[d].todo <=> <<i, x>> \in desk[d].todo,
           ~ (desk[d].stage = "third" /\ i = desk[d].at),
           ~ (desk'[d].stage = "third" /\ i = desk'[d].at)
    PROVE  EntryDue(d, i, u)' <=> EntryDue(d, i, u)
BY DEF EntryDue

LEMMA NoEntries ==
    ASSUME NEW d \in Desks, desk[d].readings = <<>> \/ desk[d].call.op # "warn", NEW u
    PROVE  /\ \A i : ~ Warns(d, i, u)
           /\ ListEarned(d, u) <=> EarnedBy(u)
BY DEF Warns, ListEarned

(* Reading a member: the account of the list takes in one more entry.      *)
LEMMA ReadPays ==
    ASSUME GInv, NEW d \in Desks, PrepareNick(d) \/ LogThird(d), desk'[d].stage # "idle",
           desk[d].call.op = "warn", NEW k, k = desk[d].at,
           NEW u \in Users, War(u)' \in Nat,
           War(u)' = IF LogThird(d) /\ NickAt(d, desk[d].at) = u THEN War(u) + 1 ELSE War(u),
           Pun(u)' = Pun(u), user' = user, EarnedBy(u),
           Unraced(desk[d], user), Unraced(desk'[d], user')
    PROVE  LET m   == desk[d]
               new == desk'[d]
           IN  /\ new.call = m.call
               /\ \A i : i \in DOMAIN new.readings => i \in 1..m.at
               /\ \A i : i \in 1..(m.at - 1) =>
                     /\ i \in DOMAIN m.readings
                     /\ new.readings[i] = m.readings[i]
                     /\ \A x : <<i, x>> \in new.todo <=> <<i, x>> \in m.todo
                     /\ ~ (m.stage = "third" /\ i = m.at)
                     /\ ~ (new.stage = "third" /\ i = new.at)
               /\ k \in DOMAIN new.readings
               /\ NickAt(d, k) = u => EntryDue(d, k, u)'
<1> DEFINE m    == desk[d]
           new  == desk'[d]
           row  == user[NickAt(d, m.at)]
           plan == MassPlan("warn", row)
           readings == IF m.stage = "third" THEN Redated(m)
                       ELSE Append(m.readings, [row |-> row, stamp |-> now])
<1>0. /\ m \in MassRequest /\ DeskSound(m) /\ user \in [Users -> UserRow]
      /\ desk \in [Desks -> MassRequest] /\ now \in Nat /\ user[u] \in UserRow
      /\ War(u) \in Nat /\ Pun(u) \in Nat
  <2>1. log \in Seq(LogRow)
    BY DEF GInv, MassInv, IInv, TypeOK
  <2> QED BY <2>1, CountsNat DEF GInv, MassInv, DesksInv, IInv, TypeOK
<1>1. m.stage = IF LogThird(d) THEN "third" ELSE "prepare"
  BY DEF PrepareNick, LogThird
<1>2. /\ m.at \in 1..Len(m.call.nicks) /\ m.at \in Nat /\ m.readings \in Seq(Reading)
      /\ Len(m.call.nicks) \in Nat
      /\ NickAt(d, m.at) \in Users /\ row \in UserRow /\ row.advNum \in 0..2
      /\ Len(m.readings) = IF m.stage = "third" THEN m.at ELSE m.at - 1
      /\ m.stage = "third" => m.readings[m.at].row.advNum = 2
      /\ \A x \in m.todo : x[1] \in DOMAIN m.readings
      /\ m.stage = "third" => m.readings[m.at].row = row
  <2>1. m.at \in 1..Len(m.call.nicks) /\ NicksFound(m) /\ TodoSound(m)
    BY <1>0, <1>1 DEF DeskSound
  <2>2. NickAt(d, m.at) \in Users
    BY <2>1 DEF NicksFound, NickAt
  <2>3. row \in UserRow /\ row.advNum \in 0..2
    BY <1>0, <2>2 DEF UserRow, AdvNums
  <2>4. m.at \in Nat /\ m.readings \in Seq(Reading) /\ Len(m.call.nicks) \in Nat
    BY <1>0 DEF MassRequest, MassCall
  <2>5. /\ Len(m.readings) = IF m.stage = "third" THEN m.at ELSE m.at - 1
        /\ m.stage = "third" => m.readings[m.at].row.advNum = 2
    BY <1>0, <1>1 DEF DeskSound
  <2>6. m.stage = "third" => m.readings[m.at].row = row
    <3>1. m.stage = "third" => m.at \in DOMAIN m.readings
      BY <2>1, <2>4, <2>5, LenProperties
    <3> QED BY <3>1 DEF Unraced, NickAt
  <2> QED BY <2>1, <2>2, <2>3, <2>4, <2>5, <2>6 DEF TodoSound
<1>3. /\ readings \in Seq(Reading) /\ Len(readings) = m.at /\ DOMAIN readings = 1..m.at
      /\ readings[m.at].row = row
      /\ \A i \in 1..(m.at - 1) : i \in DOMAIN m.readings /\ readings[i] = m.readings[i]
  <2> DEFINE reading == [row |-> row, stamp |-> now]
  <2>1. CASE m.stage = "third"
    <3>1. readings = Redated(m) /\ m.readings[m.at].row = row /\ Len(m.readings) = m.at
      BY <1>2, <2>1
    <3> HIDE DEF readings, row
    <3>2. /\ readings \in Seq(Reading) /\ Len(readings) = m.at /\ DOMAIN readings = 1..m.at
          /\ DOMAIN m.readings = 1..m.at
          /\ \A i \in 1..m.at : readings[i].row = m.readings[i].row
          /\ \A i \in 1..(m.at - 1) : readings[i] = m.readings[i]
      BY <1>0, <1>2, <3>1, DatedAgain
    <3> QED BY <1>2, <3>1, <3>2
  <2>2. CASE m.stage # "third"
    <3>1. reading \in Reading /\ reading.row = row
      BY <1>0, <1>2 DEF Reading
    <3>2. m.at = Len(m.readings) + 1
      BY <1>2, <2>2
    <3>3. DOMAIN m.readings = 1..(m.at - 1)
      BY <1>2, <2>2, LenProperties
    <3> HIDE DEF reading
    <3>4. readings = Append(m.readings, reading)
      BY <2>2 DEF reading
    <3>5. /\ readings \in Seq(Reading) /\ Len(readings) = m.at /\ readings[m.at] = reading
          /\ \A i \in 1..(m.at - 1) : readings[i] = m.readings[i]
      BY <1>2, <3>1, <3>2, <3>4, AppendProperties
    <3>6. DOMAIN readings = 1..m.at
      BY <1>2, <3>5, LenProperties
    <3> HIDE DEF readings
    <3> QED BY <3>1, <3>3, <3>5, <3>6
  <2> QED BY <2>1, <2>2
<1>4. \/ new = Prepared(m, readings, plan) /\ (row.advNum = 2 => LogThird(d))
      \/ /\ new = [m EXCEPT !.stage = "third", !.readings = readings]
         /\ row.advNum = 2 /\ ~ LogThird(d)
  <2>1. CASE LogThird(d)
    <3>1. \/ new = Clear
          \/ new = Prepared(m, Redated(m), MassPlan("warn", m.readings[m.at].row))
      BY <1>0, <2>1 DEF LogThird, RowAt
    <3>2. new # Clear
      BY ClearPlanned
    <3> QED BY <1>1, <1>2, <2>1, <3>1, <3>2
  <2>2. CASE ~ LogThird(d)
    <3>1. m.stage # "third" /\ PrepareNick(d)
      BY <1>1, <2>2
    <3>2. row.advNum # 2 => ~ Throws("warn", row)
      BY DEF Throws, NeedsRoleBelow
    <3> QED BY <1>0, <2>2, <3>1, <3>2 DEF PrepareNick
  <2> QED BY <2>1, <2>2
<1> HIDE DEF readings, plan, row
<1>5. /\ new.readings = readings /\ new.call = m.call /\ new.stage # "check"
      /\ new.stage = "third" => new.at = m.at
      /\ new.stage = "third" <=> (row.advNum = 2 /\ ~ LogThird(d))
      /\ new.todo = IF row.advNum = 2 /\ ~ LogThird(d) THEN m.todo
                    ELSE m.todo \cup ({m.at} \X plan)
  BY <1>0, <1>4 DEF Prepared, MassRequest
<1> HIDE DEF new
<1>6. ASSUME NEW i \in 1..(m.at - 1)
      PROVE  /\ i \in DOMAIN m.readings
             /\ new.readings[i] = m.readings[i]
             /\ \A x : <<i, x>> \in new.todo <=> <<i, x>> \in m.todo
             /\ ~ (m.stage = "third" /\ i = m.at)
             /\ ~ (new.stage = "third" /\ i = new.at)
  <2>1. i # m.at
    BY <1>2
  <2>2. \A x : <<i, x>> \notin {m.at} \X plan
    BY <2>1
  <2> QED BY <1>3, <1>5, <2>1, <2>2
<1>7. m.at \in DOMAIN new.readings /\ \A i \in DOMAIN new.readings : i \in 1..m.at
  BY <1>2, <1>3, <1>5
<1>8. ASSUME NickAt(d, k) = u PROVE EntryDue(d, k, u)'
  <2>0. k = m.at
    OBVIOUS
  <2>1. row = user[u] /\ 3 * Pun(u) + row.advNum <= War(u) /\ user'[u] = user[u]
    BY <1>8, <2>0 DEF EarnedBy, row
  <2>2. new.readings[k].row = row
    BY <1>3, <1>5, <2>0
  <2>6. EntryDue(d, k, u)' <=>
          IF new.readings[k].row.advNum # 2
          THEN /\ 3 * Pun(u)' + new.readings[k].row.advNum + 1
                     <= War(u)' + (IF <<k, "warning">> \in new.todo THEN 1 ELSE 0)
               /\ user'[u].advNum <= new.readings[k].row.advNum + 1
          ELSE IF new.stage = "third" /\ k = new.at THEN EarnedBy(u)'
          ELSE /\ 3 * Pun(u)' + (IF <<k, "register">> \in new.todo THEN 3 ELSE 0)
                     <= War(u)'
               /\ <<k, "update">> \notin new.todo => user'[u].advNum = 0
    BY DEF EntryDue, new
  <2>3. CASE row.advNum # 2
    <3>1. "warning" \in plan
      BY <2>3 DEF plan, MassPlan, MassWarning
    <3>2. <<k, "warning">> \in new.todo
      BY <1>5, <2>0, <2>3, <3>1
    <3>3. /\ 3 * Pun(u)' + row.advNum + 1
                <= War(u)' + (IF <<k, "warning">> \in new.todo THEN 1 ELSE 0)
          /\ user'[u].advNum <= row.advNum + 1
      <4>1. War(u)' >= War(u) /\ user'[u].advNum = row.advNum
        BY <1>0, <2>1
      <4>2. 3 * Pun(u)' + row.advNum + 1 <= War(u)' + 1
        <5>1. 3 * Pun(u)' + row.advNum <= War(u)
          BY <1>0, <2>1
        <5>2. Pun(u)' \in Nat /\ War(u) \in Nat /\ War(u)' \in Nat /\ row.advNum \in Nat
          BY <1>0, <1>2
        <5>3. \A a, b, w, x \in Nat : 3 * a + b <= w /\ x >= w => 3 * a + b + 1 <= x + 1
          OBVIOUS
        <5> QED BY <4>1, <5>1, <5>2, <5>3
      <4> QED BY <1>2, <3>2, <4>1, <4>2
    <3>4. ~ (new.stage = "third" /\ k = new.at)
      BY <1>5, <2>3
    <3> QED BY <2>2, <2>3, <2>6, <3>3, <3>4
  <2>4. CASE row.advNum = 2 /\ ~ LogThird(d)
    <3>1. EarnedBy(u)'
      BY <1>0, <1>8, <2>1, <2>4 DEF EarnedBy
    <3>2. new.stage = "third" /\ new.at = k
      BY <1>5, <2>0, <2>4
    <3> QED BY <2>2, <2>4, <2>6, <3>1, <3>2
  <2>5. CASE row.advNum = 2 /\ LogThird(d)
    <3>1. "update" \in plan
      BY <2>5 DEF plan, MassPlan, MassChange
    <3>2. <<k, "update">> \in new.todo /\ new.stage # "third"
      BY <1>5, <2>0, <2>5, <3>1
    <3>3. /\ 3 * Pun(u)' + (IF <<k, "register">> \in new.todo THEN 3 ELSE 0) <= War(u)'
      BY <1>0, <1>8, <2>0, <2>1, <2>5
    <3> QED BY <2>2, <2>5, <2>6, <3>2, <3>3
  <2> QED BY <2>3, <2>4, <2>5
<1> QED
  BY <1>5, <1>6, <1>7, <1>8 DEF new

(* A walk keeps the accounts of everybody; when it ends, nobody is owed.   *)
LEMMA WalkPays ==
    ASSUME GInv, GInv', NamesEachOnce, NEW d \in Desks, Walks(d) \/ GivesUp(d),
           desk'[d].call \in Lists, setting.exclusive,
           Unraced(desk[d], user), Unraced(desk'[d], user'),
           NEW u \in Users, Working(d) => ListEarned(d, u),
           (\A e \in Desks : ~ Working(e)) => Earned(u)
    PROVE  IF Working(d)' THEN ListEarned(d, u)' ELSE EarnedBy(u)'
<1> DEFINE m == desk[d]
           new == desk'[d]
<1>0. /\ m \in MassRequest /\ DeskSound(m) /\ desk \in [Desks -> MassRequest]
      /\ War(u) \in Nat /\ Pun(u) \in Nat /\ War(u)' \in Nat /\ user[u] \in UserRow
      /\ new \in MassRequest
  <2>1. log \in Seq(LogRow) /\ log' \in Seq(LogRow)
    BY DEF GInv, MassInv, IInv, TypeOK
  <2>2. War(u) \in Nat /\ Pun(u) \in Nat
    BY <2>1, CountsNat
  <2>3. War(u)' \in Nat
    <3>1. WarningRows(log', u) \in SUBSET (DOMAIN log')
      BY DEF WarningRows
    <3> QED BY <2>1, <3>1, RowsCounted DEF War, Warnings
  <2> QED BY <2>2, <2>3 DEF GInv, MassInv, DesksInv, IInv, TypeOK
<1>1. m.stage # "writes" /\ user' = user
  BY WalkStep
<1>2. Working(d) => EarnedBy(u)
  BY <1>1, DueFits
<1>3. ASSUME UNCHANGED log
      PROVE  War(u)' = War(u) /\ Pun(u)' = Pun(u) /\ (EarnedBy(u)' <=> EarnedBy(u))
  BY <1>1, <1>3 DEF War, Warnings, Pun, PunishedBySystem, EarnedBy
<1>4. CASE GivesUp(d) \/ RefuseList(d)
  <2>1. Working(d) /\ new = Clear /\ log' = log
    BY <1>0, <1>4 DEF GivesUp, RefuseList, Working, vars
  <2>2. ~ Working(d)'
    BY <2>1, ClearPlanned DEF Working
  <2> QED BY <1>2, <1>3, <2>1, <2>2
<1>5. ASSUME NEW c \in Lists, SubmitList(d, c)
      PROVE  IF Working(d)' THEN ListEarned(d, u)' ELSE EarnedBy(u)'
  <2>1. new = [Clear EXCEPT !.stage = "check", !.call = c]
    BY <1>0, <1>5 DEF SubmitList
  <2>2. new.stage = "check" /\ new.readings = <<>> /\ log' = log
    BY <1>5, <2>1 DEF SubmitList, Clear, vars
  <2>3. EarnedBy(u)
    <3>1. AtRest /\ \A e \in Desks : ~ Working(e)
      BY <1>5 DEF SubmitList
    <3>2. \A p \in Procs : ToWrite(p) = {}
      BY <3>1, RestsUnpunishing DEF GInv
    <3> QED BY <3>1, <3>2 DEF Earned, Punishing
  <2>4. (\A i : ~ Warns(d, i, u)')
    BY <2>2 DEF Warns
  <2>5. ListEarned(d, u)'
    BY <1>3, <2>2, <2>3, <2>4 DEF ListEarned
  <2> QED BY <2>2, <2>5 DEF Working
<1>6. CASE CheckNick(d)
  <2>1. /\ m.stage = "check" /\ log' = log
        /\ \/ new = [m EXCEPT !.stage = "prepare", !.at = 1]
           \/ new = [m EXCEPT !.at = m.at + 1]
    BY <1>0, <1>6 DEF CheckNick, vars
  <2>2. new.readings = <<>> /\ new.stage # "idle"
    <3>1. m.readings = <<>>
      BY <1>0, <2>1 DEF DeskSound
    <3> QED BY <1>0, <2>1, <3>1 DEF MassRequest
  <2>3. (\A i : ~ Warns(d, i, u)')
    BY <2>2 DEF Warns
  <2>4. ListEarned(d, u)'
    BY <1>2, <1>3, <2>1, <2>3 DEF ListEarned, Working
  <2> QED BY <2>2, <2>4 DEF Working
<1>7. CASE PrepareNick(d) \/ LogThird(d)
  <2>1. m.stage \in {"prepare", "third"} /\ Working(d) /\ EarnedBy(u) /\ ListEarned(d, u)
    BY <1>2, <1>7 DEF PrepareNick, LogThird, Working
  <2>2. /\ War(u)' = IF LogThird(d) /\ NickAt(d, m.at) = u THEN War(u) + 1 ELSE War(u)
        /\ Pun(u)' = Pun(u)
    <3>1. CASE LogThird(d)
      <4> DEFINE row == WarningRow(NickAt(d, m.at))
      <4>1. NickAt(d, m.at) \in Users
        BY <1>0, <3>1 DEF LogThird, DeskSound, NicksFound, NickAt
      <4>2. log' = Append(log, row) /\ log \in Seq(LogRow)
        BY <3>1 DEF LogThird, GInv, MassInv, IInv, TypeOK
      <4>3. /\ row \in LogRow /\ row.target = NickAt(d, m.at) /\ row.type = "WARNING"
            /\ ~ row.bySystem
        BY <4>1 DEF WarningRow, LogRow
      <4> HIDE DEF row
      <4> QED BY <3>1, <4>2, <4>3, RowCounts
    <3>2. CASE ~ LogThird(d)
      <4>1. log' = log
        BY <1>7, <3>2 DEF PrepareNick, vars
      <4> QED BY <1>3, <3>2, <4>1
    <3> QED BY <3>1, <3>2
  <2>3. EarnedBy(u)'
    <3>1. user[u].advNum \in 0..2
      BY <1>0 DEF UserRow, AdvNums
    <3> QED BY <1>0, <1>1, <2>1, <2>2, <3>1 DEF EarnedBy
  <2>4. CASE new.stage = "idle"
    BY <2>3, <2>4 DEF Working
  <2>5. CASE new.stage # "idle" /\ m.call.op # "warn"
    <3>1. new.call = m.call
      <4>1. PrepareNick(d)
        BY <1>0, <1>7, <2>5 DEF LogThird, DeskSound
      <4>2. new # Clear
        BY <2>5, ClearPlanned
      <4>3. \E rs, w : new = Prepared(m, rs, w)
        BY <1>0, <2>5, <4>1, <4>2 DEF PrepareNick
      <4>4. PICK rs, w : new = Prepared(m, rs, w)
        BY <4>3
      <4> QED BY <1>0, <4>4 DEF Prepared, MassRequest
    <3>2. \A i : ~ Warns(d, i, u)'
      BY <2>5, <3>1 DEF Warns
    <3>3. ListEarned(d, u)'
      BY <2>3, <3>2 DEF ListEarned
    <3> QED BY <2>5, <3>3 DEF Working
  <2>6. CASE new.stage # "idle" /\ m.call.op = "warn"
    <3>1. PICK k : k = m.at
      OBVIOUS
    <3>2. /\ new.call = m.call
          /\ \A i : i \in DOMAIN new.readings => i \in 1..k
          /\ \A i : i \in 1..(k - 1) =>
                /\ i \in DOMAIN m.readings
                /\ new.readings[i] = m.readings[i]
                /\ \A x : <<i, x>> \in new.todo <=> <<i, x>> \in m.todo
                /\ ~ (m.stage = "third" /\ i = m.at)
                /\ ~ (new.stage = "third" /\ i = new.at)
          /\ k \in DOMAIN new.readings
          /\ NickAt(d, k) = u => EntryDue(d, k, u)'
      BY <1>0, <1>1, <1>7, <2>1, <2>2, <2>6, <3>1, ReadPays
    <3>3. k \in Nat /\ \A i : i \in 1..k => i = k \/ i \in 1..(k - 1)
      <4>1. k \in Nat \ {0}
        BY <1>0, <3>1 DEF MassRequest
      <4> QED BY <4>1
    <3>4. ASSUME NEW i \in DOMAIN new.readings, NEW j \in DOMAIN new.readings,
                 NickAt(d, i) = NickAt(d, j)
          PROVE  i = j
      <4>1. DeskSound(new)
        BY DEF GInv, MassInv, DesksInv
      <4>2. i \in 1..Len(new.call.nicks) /\ j \in 1..Len(new.call.nicks)
        BY <4>1 DEF DeskSound, ReadingsSound
      <4> QED BY <3>2, <3>4, <4>2 DEF NamesEachOnce, NickAt
    <3>5. ASSUME NEW i, Warns(d, i, u)' PROVE EntryDue(d, i, u)'
      <4>1. i \in DOMAIN new.readings /\ NickAt(d, i) = u
        BY <3>2, <3>5 DEF Warns, NickAt
      <4>2. CASE i = k
        BY <3>2, <4>1, <4>2
      <4>3. CASE i \in 1..(k - 1)
        <5>1. /\ i \in DOMAIN m.readings /\ i # k
              /\ new.readings[i] = m.readings[i]
              /\ \A x : <<i, x>> \in new.todo <=> <<i, x>> \in m.todo
              /\ ~ (m.stage = "third" /\ i = m.at)
              /\ ~ (new.stage = "third" /\ i = new.at)
          <6>1. i # k
            BY <3>3, <4>3
          <6> HIDE DEF new, m
          <6> QED BY <3>2, <4>3, <6>1
        <5>2. EntryDue(d, i, u)
          BY <2>1, <2>6, <4>1, <5>1 DEF Warns, ListEarned
        <5>3. NickAt(d, k) # u
          BY <3>2, <3>4, <4>1, <5>1
        <5>4. War(u)' = War(u) /\ Pun(u)' = Pun(u) /\ user'[u] = user[u]
          BY <1>1, <2>2, <3>1, <5>3
        <5> QED BY <5>1, <5>2, <5>4, EntryStays
      <4> QED BY <3>2, <3>3, <4>1, <4>2, <4>3
    <3>6. ListEarned(d, u)'
      BY <2>3, <3>5 DEF ListEarned
    <3> QED BY <2>6, <3>6 DEF Working
  <2> QED BY <2>4, <2>5, <2>6
<1> QED
  BY <1>4, <1>5, <1>6, <1>7 DEF Walks

(* A write settles what its entry owes, and with the last one all of it.   *)
LEMMA ListWriteBalances ==
    ASSUME GInv, GInv', NamesEachOnce, NEW d \in Desks, desk[d].call \in Lists,
           NEW i \in DOMAIN desk[d].readings, NEW w, ListWriteOf(d, i, w),
           NEW u \in Users, ListEarned(d, u)
    PROVE  IF Working(d)' THEN ListEarned(d, u)' ELSE EarnedBy(u)'
<1> DEFINE m    == desk[d]
           new  == desk'[d]
           rest == m.todo \ {<<i, w>>}
<1>0. /\ War(u) \in Nat /\ Pun(u) \in Nat /\ War(u)' \in Nat /\ Pun(u)' \in Nat
      /\ user'[u] \in UserRow /\ user'[u].advNum \in 0..2
      /\ \A j \in DOMAIN m.readings : m.readings[j].row.advNum \in 0..2
  <2>1. log \in Seq(LogRow) /\ user'[u] \in UserRow /\ m \in MassRequest
    BY DEF GInv, MassInv, IInv, TypeOK, DesksInv
  <2>2. War(u) \in Nat /\ Pun(u) \in Nat
    BY <2>1, CountsNat
  <2>3. War(u)' \in Nat /\ Pun(u)' \in Nat
    BY <2>2, ListCounts
  <2>4. ASSUME NEW j \in DOMAIN m.readings PROVE m.readings[j].row.advNum \in 0..2
    <3>1. m.readings[j] \in Reading
      BY <2>1 DEF MassRequest
    <3> QED BY <3>1 DEF Reading, UserRow, AdvNums
  <2> QED BY <2>1, <2>2, <2>3, <2>4 DEF UserRow, AdvNums
<1>1. /\ m.stage = "writes" /\ new.todo = rest
      /\ \/ new = Clear /\ new.stage = "idle" /\ rest = {}
         \/ new.stage = "writes" /\ new.call = m.call /\ new.readings = m.readings
  BY SettledStep, ClearPlanned DEF ListWriteOf
<1>2. u # NickAt(d, i) => War(u)' = War(u) /\ Pun(u)' = Pun(u) /\ user'[u].advNum = user[u].advNum
  <2>1. w # "update" => user' = user
    BY DEF ListWriteOf
  <2>2. w = "update" => MassUpdateUser(d, i)
    BY DEF ListWriteOf
  <2> QED BY <2>1, <2>2, ListCounts, ListUpdated
<1> DEFINE Due2(j) ==
             LET adv == m.readings[j].row.advNum IN
             IF adv # 2
             THEN /\ 3 * Pun(u)' + adv + 1
                        <= War(u)' + (IF <<j, "warning">> \in rest THEN 1 ELSE 0)
                  /\ user'[u].advNum <= adv + 1
             ELSE /\ 3 * Pun(u)' + (IF <<j, "register">> \in rest THEN 3 ELSE 0) <= War(u)'
                  /\ <<j, "update">> \notin rest => user'[u].advNum = 0
<1>3. ASSUME NEW j, Warns(d, j, u) PROVE Due2(j)
  <2>1. EntryDue(d, j, u) /\ j \in DOMAIN m.readings /\ m.call.op = "warn" /\ NickAt(d, j) = u
    BY <1>3 DEF ListEarned, Warns
  <2>2. CASE j = i
    BY <2>1, <2>2, WritePays
  <2>3. CASE j # i
    <3>1. u # NickAt(d, i)
      BY <2>1, <2>3, OneEntry
    <3>2. \A x : <<j, x>> \in rest <=> <<j, x>> \in m.todo
      BY <2>3
    <3> QED BY <1>1, <1>2, <2>1, <3>1, <3>2 DEF EntryDue
  <2> QED BY <2>2, <2>3
<1>4. ASSUME \A j : ~ Warns(d, j, u) PROVE EarnedBy(u)'
  <2>1. EarnedBy(u)
    BY <1>4 DEF ListEarned
  <2>2. CASE u # NickAt(d, i)
    BY <1>2, <2>1, <2>2 DEF EarnedBy
  <2>3. CASE u = NickAt(d, i)
    <3>1. m.call.op # "warn"
      BY <1>4, <2>3 DEF Warns
    <3> QED BY <2>1, <2>3, <3>1, WritePays
  <2> QED BY <2>2, <2>3
<1>5. CASE new.stage = "writes" /\ new.call = m.call /\ new.readings = m.readings
  <2>1. ASSUME NEW j PROVE Warns(d, j, u)' <=> Warns(d, j, u)
    BY <1>5 DEF Warns, NickAt
  <2>2. ASSUME NEW j, Warns(d, j, u)' PROVE EntryDue(d, j, u)'
    <3>1. Due2(j)
      BY <1>3, <2>1, <2>2
    <3> QED BY <1>1, <1>5, <3>1 DEF EntryDue
  <2>3. (\A j : ~ Warns(d, j, u)') => EarnedBy(u)'
    BY <1>4, <2>1
  <2>4. ListEarned(d, u)'
    BY <2>2, <2>3 DEF ListEarned
  <2> QED BY <1>5, <2>4 DEF Working
<1>6. CASE new = Clear /\ new.stage = "idle" /\ rest = {}
  <2>1. ASSUME NEW j, Warns(d, j, u) PROVE EarnedBy(u)'
    <3>1. Due2(j) /\ m.readings[j].row.advNum \in 0..2
      BY <1>0, <1>3, <2>1 DEF Warns
    <3>2. CASE m.readings[j].row.advNum # 2
      BY <1>0, <1>6, <3>1, <3>2 DEF EarnedBy
    <3>3. CASE m.readings[j].row.advNum = 2
      BY <1>0, <1>6, <3>1, <3>3 DEF EarnedBy
    <3> QED BY <3>2, <3>3
  <2> QED BY <1>4, <1>6, <2>1 DEF Working
<1> QED
  BY <1>1, <1>5, <1>6

(* With no list at work requests come and go as without lists; while one   *)
(* is, they wait.                                                          *)
LEMMA NextYInvWithLists == JInv /\ [MassNext]_allVars => YInv'
<1> SUFFICES ASSUME JInv, [MassNext]_allVars PROVE YInv'
  OBVIOUS
<1>0. YInv /\ UInv /\ UInv' /\ TInv'
  <2>1. UInv'
    BY NextUInv DEF JInv
  <2> QED BY <2>1 DEF JInv, UInv, GInv
<1>1. CASE [Next]_vars
  BY <1>0, <1>1, NextYInv
<1>2. ASSUME NEW d \in Desks, ListStep(d) \/ LostByList(d), UNCHANGED <<req, setting>>
      PROVE  YInv'
  <2>1. \A p \in Procs : Planned(req[p])'
    BY <1>0, <1>2 DEF YInv, Planned, UpdateSound
  <2>2. ASSUME setting.exclusive, NEW p \in Procs PROVE Fresh(req[p])'
    <3>1. CASE user' = user
      BY <1>0, <1>2, <2>2, <3>1 DEF YInv, XInv, Undisturbed, Fresh
    <3>2. CASE user' # user
      <4>1. Working(d)
        <5>1. PICK i, w : ListWriteOf(d, i, w)
          BY <1>0, <1>2, <3>2, WalkStep DEF ListStep, LostByList, db, UInv
        <5> QED BY <5>1 DEF ListWriteOf, MassLanded, Working
      <4>2. req[p].stage = "idle"
        BY <1>0, <2>2, <4>1 DEF UInv, DesksAlone, AtRest, Busy
      <4> QED BY <1>2, <4>2 DEF Fresh
    <3> QED BY <3>1, <3>2
  <2>3. setting.exclusive => Apart'
    BY <1>0, <1>2 DEF YInv, XInv, Undisturbed, Apart, Busy
  <2> QED BY <1>0, <1>2, <2>1, <2>2, <2>3 DEF YInv, XInv, Undisturbed
<1> QED
  BY <1>1, <1>2, MassCases

\* A list keeps its call to the end.
LEMMA WalkCalls ==
    ASSUME GInv, NEW d \in Desks, Walks(d) \/ GivesUp(d)
    PROVE  desk'[d].call \in Lists \cup {desk[d].call}
<1> DEFINE m == desk[d]
<1>0. /\ m \in MassRequest /\ desk \in [Desks -> MassRequest]
      /\ Clear.call \in Lists /\ Clear \in MassRequest
  BY ClearSound, MassAssumption DEF GInv, MassInv, DesksInv, Clear
<1>1. ASSUME NEW rs, NEW w PROVE Prepared(m, rs, w).call = m.call
  BY <1>0 DEF Prepared, MassRequest
<1>2. CASE GivesUp(d) \/ RefuseList(d)
  BY <1>0, <1>2 DEF GivesUp, RefuseList
<1>3. ASSUME NEW c \in Lists, SubmitList(d, c) PROVE desk'[d].call \in Lists
  BY <1>0, <1>3 DEF SubmitList, MassRequest
<1>4. CASE CheckNick(d)
  BY <1>0, <1>4 DEF CheckNick, MassRequest
<1>5. CASE PrepareNick(d)
  <2>1. \/ desk'[d] = Clear
        \/ \E rs : desk'[d] = [m EXCEPT !.stage = "third", !.readings = rs]
        \/ \E rs, w : desk'[d] = Prepared(m, rs, w)
    BY <1>0, <1>5 DEF PrepareNick
  <2>2. ASSUME NEW rs, desk'[d] = [m EXCEPT !.stage = "third", !.readings = rs]
        PROVE  desk'[d].call = m.call
    BY <1>0, <2>2 DEF MassRequest
  <2> QED BY <1>0, <1>1, <2>1, <2>2
<1>6. CASE LogThird(d)
  <2>1. desk'[d] = Clear \/ \E rs, w : desk'[d] = Prepared(m, rs, w)
    BY <1>0, <1>6 DEF LogThird
  <2> QED BY <1>0, <1>1, <2>1
<1> QED
  BY <1>2, <1>3, <1>4, <1>5, <1>6 DEF Walks

LEMMA NextJInv == JInv /\ [MassNext]_allVars => JInv'
<1> SUFFICES ASSUME JInv, [MassNext]_allVars PROVE JInv'
  OBVIOUS
<1>0. /\ UInv /\ UInv' /\ YInv /\ YInv' /\ GInv /\ GInv' /\ NamesEachOnce
      /\ setting' = setting
  BY NextUInv, NextYInvWithLists, SettingStays, MassCases DEF JInv, UInv
<1>1. ASSUME NEW d \in Desks PROVE desk'[d].call \in Lists
  <2>1. Clear.call \in Lists
    BY MassAssumption DEF Clear
  <2>2. desk[d].call \in Lists /\ desk \in [Desks -> MassRequest]
    BY <1>0 DEF JInv, GInv, MassInv, DesksInv
  <2>3. CASE desk' = desk
    BY <2>2, <2>3
  <2>4. ASSUME NEW e \in Desks, ListStep(e) \/ LostByList(e) PROVE desk'[d].call \in Lists
    <3>1. e # d => desk'[d] = desk[d]
      BY <1>0, <2>4, WalkStep, SettledStep DEF ListStep, ListWriteOf, LostByList
    <3>2. ASSUME NEW i, NEW w, MassLanded(d, i, w) PROVE desk'[d].call \in Lists
      BY <1>0, <2>1, <2>2, <3>2, SettledStep
    <3>3. ASSUME Walks(d) \/ GivesUp(d) PROVE desk'[d].call \in Lists
      BY <1>0, <2>1, <2>2, <3>3, WalkCalls
    <3> QED BY <2>2, <2>4, <3>1, <3>2, <3>3 DEF ListStep, ListWriteOf, LostByList
  <2> QED BY <2>3, <2>4, MassCases DEF massVars
<1>2. SUFFICES ASSUME Calm PROVE Paid'
  BY <1>0, <1>1 DEF JInv, Calm
<1>3. Paid /\ setting.exclusive /\ ~ setting.faults
  BY <1>2 DEF JInv, Calm
<1>4. /\ DesksAlone /\ DesksAlone'
      /\ \A d \in Desks : Unraced(desk[d], user) /\ Unraced(desk'[d], user')
  BY <1>0, <1>3 DEF UInv
<1>5. CASE [Next]_vars /\ UNCHANGED massVars /\ (Considerate \/ UNCHANGED vars)
  <2>1. desk' = desk
    BY <1>5 DEF massVars
  <2>2. CASE \A e \in Desks : ~ Working(e)
    <3>1. EInv
      BY <1>0, <1>3, <2>2 DEF Paid, EInv
    <3>2. EInv' /\ Calm'
      BY <1>0, <1>2, <1>5, <3>1, NextEInv DEF Calm
    <3>3. \A e \in Desks : ~ Working(e)'
      BY <2>1, <2>2 DEF Working
    <3> QED BY <3>2, <3>3 DEF Paid, EInv
  <2>3. CASE ~ \A e \in Desks : ~ Working(e)
    <3>1. AtRest /\ issued' = issued
      BY <1>3, <1>4, <1>5, <2>3 DEF DesksAlone, Considerate, vars
    <3>2. UNCHANGED <<user, log, req>>
      BY <1>0, <1>5, <3>1, RequestsWait DEF GInv
    <3>3. \A u : War(u)' = War(u) /\ Pun(u)' = Pun(u)
      BY <3>2 DEF War, Warnings, Pun, PunishedBySystem
    <3>4. \A d \in Desks, u \in Users : ListEarned(d, u)' <=> ListEarned(d, u)
      BY <2>1, <3>2, <3>3 DEF ListEarned, EntryDue, Warns, NickAt, EarnedBy
    <3>5. \A d \in Desks : Working(d)' <=> Working(d)
      BY <2>1 DEF Working
    <3> QED BY <1>3, <2>3, <3>4, <3>5 DEF Paid
  <2> QED BY <2>2, <2>3
<1>6. ASSUME NEW d \in Desks, ListStep(d) PROVE Paid'
  <2>1. ASSUME NEW u \in Users
        PROVE  IF Working(d)' THEN ListEarned(d, u)' ELSE EarnedBy(u)'
    <3>1. Working(d) => ListEarned(d, u)
      BY <1>3 DEF Paid
    <3>2. (\A e \in Desks : ~ Working(e)) => Earned(u)
      BY <1>3 DEF Paid
    <3>3. CASE Walks(d) \/ GivesUp(d)
      BY <1>0, <1>1, <1>3, <1>4, <3>1, <3>2, <3>3, WalkPays
    <3>4. ASSUME NEW i \in DOMAIN desk[d].readings, NEW w, ListWriteOf(d, i, w)
          PROVE  IF Working(d)' THEN ListEarned(d, u)' ELSE EarnedBy(u)'
      <4>1. Working(d) /\ desk[d].call \in Lists
        BY <3>4 DEF ListWriteOf, MassLanded, Working, JInv
      <4> QED BY <1>0, <3>1, <3>4, <4>1, ListWriteBalances
    <3> QED BY <1>6, <3>3, <3>4 DEF ListStep
  <2>2. ASSUME NEW e \in Desks \ {d} PROVE ~ Working(e)'
    <3>1. desk'[e] = desk[e]
      BY <1>0, <1>6, WalkStep, SettledStep DEF ListStep, ListWriteOf
    <3>2. ~ Working(e)
      <4>1. CASE Working(d)
        BY <1>4, <4>1 DEF DesksAlone
      <4>2. CASE ~ Working(d)
        BY <1>3, <1>6, <4>2 DEF ListStep, Walks, GivesUp, SubmitList, CheckNick, RefuseList,
             PrepareNick, LogThird, ListWriteOf, MassLanded, Working
      <4> QED BY <4>1, <4>2
    <3> QED BY <3>1, <3>2 DEF Working
  <2>3. ASSUME ~ Working(d)', NEW u \in Users PROVE Earned(u)'
    <3>1. AtRest
      <4>1. CASE Working(d)
        BY <1>4, <4>1 DEF DesksAlone
      <4>2. CASE ~ Working(d)
        BY <1>3, <1>6, <4>2 DEF ListStep, Walks, GivesUp, SubmitList, CheckNick, RefuseList,
             PrepareNick, LogThird, ListWriteOf, MassLanded, Working
      <4> QED BY <4>1, <4>2
    <3>2. req' = req
      BY <1>0, <1>6, WalkStep, SettledStep DEF ListStep, ListWriteOf
    <3>3. \A p \in Procs : ToWrite(p)' = {}
      BY <1>0, <3>1, <3>2, RestsUnpunishing DEF GInv, ToWrite
    <3> QED BY <2>1, <2>3, <3>3 DEF Earned, Punishing
  <2> QED BY <2>1, <2>2, <2>3 DEF Paid
<1> QED
  BY <1>3, <1>5, <1>6, MassCases DEF LostByList

(***************************************************************************)
(* warnMultiple punishes for three warnings, as warnUser does: if each     *)
(* punishment in the history has three of its own, then as long as members *)
(* are left alone, no list names a member twice and no query fails this    *)
(* stays so, whenever all is at rest.  A list that names a member twice    *)
(* may punish twice for the same three warnings.                           *)
(***************************************************************************)
THEOREM ListsPunishFairly ==
    MassSpec /\ NamesEachOnce /\ PunishmentsAreEarned => []ThreeWarningsInLists
<1>1. MassInit /\ NamesEachOnce /\ PunishmentsAreEarned => JInv
  <2> SUFFICES ASSUME MassInit, NamesEachOnce, PunishmentsAreEarned PROVE JInv
    OBVIOUS
  <2>1. UInv /\ YInv
    BY InitUInv, InitYInv DEF MassInit
  <2>2. \A d \in Desks : desk[d] = Clear
    BY DEF MassInit
  <2>3. \A d \in Desks : desk[d].call \in Lists
    <3>1. Clear.call \in Lists
      BY MassAssumption DEF Clear
    <3> QED BY <2>2, <3>1
  <2>4. \A d \in Desks : ~ Working(d)
    BY <2>2, ClearPlanned DEF Working
  <2>5. ASSUME NEW u \in Users PROVE Earned(u)
    <3>1. \A p \in Procs : ToWrite(p) = {}
      BY IdleTidy DEF MassInit, Init, ToWrite
    <3> QED BY <3>1 DEF Earned, Punishing, EarnedBy, PunishmentsAreEarned, Pun, War, Warnings
  <2> QED BY <2>1, <2>3, <2>4, <2>5 DEF JInv, Paid
<1>2. JInv => ThreeWarningsInLists
  <2> SUFFICES ASSUME JInv, EverythingAtRest, setting.exclusive, ~ setting.faults,
                      NEW u \in Users
               PROVE  EarnedBy(u)
    BY DEF ThreeWarningsInLists, PunishmentsAreEarned, EarnedBy, Pun, War, Warnings
  <2>1. \A p \in Procs : ToWrite(p) = {}
    BY RestsUnpunishing DEF JInv, YInv, XInv, EverythingAtRest
  <2>2. Earned(u)
    BY DEF JInv, Paid, Calm, EverythingAtRest
  <2> QED BY <2>1, <2>2 DEF Earned, Punishing
<1> QED
  BY <1>1, <1>2, NextJInv, PTL DEF MassSpec
=============================================================================
