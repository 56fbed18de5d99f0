------------------------- MODULE MassActionsProofs -------------------------
(***************************************************************************)
(* Proofs about MassActions: lists of any length and with any nicks, a     *)
(* nick that comes twice included, any number of them in flight, beside    *)
(* any number of requests on one member.                                   *)
(***************************************************************************)
EXTENDS MassActions, DisciplineProofs

(***************************************************************************)
(* What a list in flight carries with it.  The members it goes on with     *)
(* have rows in the table; a row it has read is of the ladder of its       *)
(* member; and a write is prepared only where the role it may name exists. *)
(***************************************************************************)
NicksFound(m) == \A i \in 1..Len(m.call.nicks) : m.call.nicks[i] \in Users

ReadingsSound(m) ==
    \A i \in DOMAIN m.readings :
        /\ i \in 1..Len(m.call.nicks)
        /\ OnTrack(m.call.nicks[i], m.readings[i].row.roleName)

TodoSound(m) ==
    \A x \in m.todo : /\ x[1] \in DOMAIN m.readings
                      /\ ~ Throws(m.call.op, m.readings[x[1]].row)

DeskSound(m) ==
    /\ m.stage = "check" =>
          /\ m.at \in 1..Len(m.call.nicks)
          /\ \A i \in 1..(m.at - 1) : m.call.nicks[i] \in Users
    /\ m.stage \in {"prepare", "third", "writes"} => NicksFound(m)
    /\ m.stage \in {"prepare", "third"} => m.at \in 1..Len(m.call.nicks)
    /\ m.stage = "prepare" => Len(m.readings) = m.at - 1
    /\ m.stage = "third" => /\ Len(m.readings) = m.at /\ m.call.op = "warn"
                            /\ m.readings[m.at].row.advNum = 2
    /\ m.stage \in {"idle", "check"} => m.readings = <<>> /\ m.todo = {}
    /\ ReadingsSound(m)
    /\ TodoSound(m)

DesksInv == /\ desk \in [Desks -> MassRequest]
            /\ snapshots \in Seq(RoleNames)
            /\ submitted \in Nat
            /\ \A d \in Desks : DeskSound(desk[d])

MassInv == IInv /\ DesksInv
-----------------------------------------------------------------------------
LEMMA ClearSound ==
    /\ Clear \in MassRequest /\ DeskSound(Clear)
    /\ Clear.readings = <<>> /\ Clear.todo = {} /\ Clear.at = 1
<1>1. (CHOOSE c \in Lists : TRUE) \in MassCall
  BY MassAssumption
<1>2. DOMAIN Clear.readings = {} /\ Clear.todo = {} /\ Clear.stage = "idle"
      /\ Clear.readings = <<>> /\ Clear.at = 1
  BY DEF Clear
<1>3. Clear \in MassRequest
  BY <1>1 DEF Clear, MassRequest
<1> QED
  BY <1>2, <1>3 DEF DeskSound, ReadingsSound, TodoSound

LEMMA DeskChange ==
    ASSUME DesksInv, NEW d \in Desks, NEW m \in MassRequest, DeskSound(m),
           desk' = [desk EXCEPT ![d] = m], submitted' \in Nat,
           snapshots' \in Seq(RoleNames)
    PROVE  DesksInv'
<1>1. desk' \in [Desks -> MassRequest]
  BY DEF DesksInv
<1>2. \A e \in Desks : desk'[e] = IF e = d THEN m ELSE desk[e]
  BY DEF DesksInv
<1> QED
  BY <1>1, <1>2 DEF DesksInv, DeskSound, NicksFound, ReadingsSound, TodoSound

(* The writes of a list change the tables and nothing a request holds.     *)
LEMMA TablesChange ==
    ASSUME IInv, UNCHANGED <<now, req, issued>>,
           user' \in [Users -> UserRow],
           \A u \in Users : OnTrack(u, user'[u].roleName),
           perms' \subseteq UserPermission, depts' \subseteq Users,
           log' \in Seq(LogRow)
    PROVE  IInv'
BY DEF IInv, TypeOK, StaysOnTrack

LEMMA MassPlanType ==
    ASSUME NEW op, NEW t
    PROVE  MassPlan(op, t) \subseteq MassWrites
BY DEF MassPlan, MassDismissal, MassChange, MassWarning, MassWrites, Writes

LEMMA MassRoleSound ==
    ASSUME NEW op \in MassOps, NEW t \in UserRow, NEW u \in Users,
           OnTrack(u, t.roleName), ~ Throws(op, t),
           op = "warn" => t.advNum = 2
    PROVE  MassRole(op, t) \in RoleNames /\ OnTrack(u, MassRole(op, t))
<1>1. CASE op = "fire"
  BY <1>1, RolesAssumption DEF MassRole, OnTrack
<1>2. CASE op # "fire"
  <2>1. NextDown(t.roleName) # NoRole
    BY <1>2 DEF Throws, NeedsRoleBelow, MassOps
  <2>2. /\ NextDown(t.roleName) \in RoleNames
        /\ KindOf(NextDown(t.roleName)) = KindOf(t.roleName)
        /\ t.roleName # "Recruta"
    BY <2>1, RungOnLadder DEF NextDown, UserRow
  <2> QED BY <1>2, <2>2 DEF MassRole, OnTrack
<1> QED BY <1>1, <1>2

(* The row an update of a list leaves behind.                              *)
LEMMA MassUpdatedSound ==
    ASSUME NEW op \in MassOps, NEW t \in UserRow, NEW u \in Users,
           OnTrack(u, t.roleName), ~ Throws(op, t),
           NEW row \in UserRow, OnTrack(u, row.roleName), NEW stamp \in Nat
    PROVE  LET new == MassUpdated(op, t, row, stamp)
           IN  new \in UserRow /\ OnTrack(u, new.roleName)
<1> DEFINE new == MassUpdated(op, t, row, stamp)
           ranked == Ranked(row, MassRole(op, t), stamp)
<1> SUFFICES new \in UserRow /\ OnTrack(u, new.roleName)
  OBVIOUS
<1>1. CASE op = "warn" /\ t.advNum # 2
  <2>1. new = Warned(row, t)
    BY <1>1 DEF MassUpdated
  <2> QED
    <3> HIDE DEF new
    <3> QED BY <1>1, <2>1, WarnedRow
<1>2. CASE op = "warn" /\ t.advNum = 2
  <2>1. MassRole(op, t) \in RoleNames /\ OnTrack(u, MassRole(op, t))
    BY <1>2, MassRoleSound
  <2>2. ranked \in UserRow /\ ranked.roleName = MassRole(op, t)
    BY <2>1, RankedRow
  <2>3. new = [ranked EXCEPT !.advNum = 0]
    BY <1>2 DEF MassUpdated
  <2>4. new \in UserRow /\ new.roleName = ranked.roleName
    <3> HIDE DEF ranked, new
    <3> QED BY <2>2, <2>3 DEF UserRow, AdvNums
  <2> QED BY <2>1, <2>2, <2>4
<1>3. CASE op # "warn"
  <2>1. MassRole(op, t) \in RoleNames /\ OnTrack(u, MassRole(op, t))
    BY <1>3, MassRoleSound
  <2>2. new = ranked
    BY <1>3 DEF MassUpdated
  <2> QED BY <2>1, <2>2, RankedRow
<1> QED BY <1>1, <1>2, <1>3
-----------------------------------------------------------------------------
LEMMA MassInitInv == MassInit => MassInv
<1> SUFFICES ASSUME MassInit PROVE MassInv
  OBVIOUS
<1>1. IInv
  BY InitInv DEF MassInit
<1>2. desk = [d \in Desks |-> Clear] /\ snapshots = <<>> /\ submitted = 0
  BY DEF MassInit
<1> QED
  BY <1>1, <1>2, ClearSound DEF MassInv, DesksInv

(***************************************************************************)
(* The second walk: one more member read, whose writes can be prepared.    *)
(***************************************************************************)
LEMMA PreparedSound ==
    ASSUME NEW m \in MassRequest, NicksFound(m), m.at \in 1..Len(m.call.nicks),
           NEW readings \in Seq(Reading), Len(readings) = m.at,
           \A i \in 1..Len(readings) :
               OnTrack(m.call.nicks[i], readings[i].row.roleName),
           ~ Throws(m.call.op, readings[m.at].row),
           \A x \in m.todo : /\ x[1] \in DOMAIN readings
                             /\ ~ Throws(m.call.op, readings[x[1]].row),
           NEW w, w \subseteq MassWrites
    PROVE  /\ Prepared(m, readings, w) \in MassRequest
           /\ DeskSound(Prepared(m, readings, w))
<1> DEFINE last  == m.at = Len(m.call.nicks)
           todo  == m.todo \cup ({m.at} \X w)
           stage == IF last THEN "writes" ELSE "prepare"
           at    == IF last THEN m.at ELSE m.at + 1
           new   == [m EXCEPT !.readings = readings, !.todo = todo,
                              !.stage = stage, !.at = at]
<1>1. /\ m.call \in MassCall /\ m.call.nicks \in Seq(Nicks)
      /\ Len(m.call.nicks) \in Nat /\ m.at \in Nat \ {0}
      /\ m.todo \in SUBSET (Nat \X MassWrites)
  BY DEF MassRequest, MassCall
<1>2. todo \in SUBSET (Nat \X MassWrites)
  BY <1>1
<1>3. at \in Nat \ {0} /\ stage \in {"writes", "prepare"}
  BY <1>1
<1>4. Prepared(m, readings, w) = new
  BY DEF Prepared
<1>5. new \in MassRequest
  <2> HIDE DEF todo, at, stage
  <2> QED BY <1>2, <1>3 DEF MassRequest
<1>6. /\ new.readings = readings /\ new.todo = todo /\ new.stage = stage
      /\ new.at = at /\ new.call = m.call
  <2> HIDE DEF todo, at, stage
  <2> QED BY DEF MassRequest
<1>7. DOMAIN readings = 1..m.at
  BY <1>1
<1>8. stage = "prepare" =>
          at \in 1..Len(m.call.nicks) /\ Len(readings) = at - 1
  BY <1>1
<1>9. NicksFound(new)
  <2> HIDE DEF new
  <2> QED BY <1>6 DEF NicksFound
<1>10. ReadingsSound(new)
  <2>1. \A i \in DOMAIN readings : i \in 1..Len(m.call.nicks)
    BY <1>1, <1>7
  <2> HIDE DEF new
  <2> QED BY <1>6, <1>7, <2>1 DEF ReadingsSound
<1>11. TodoSound(new)
  <2>1. \A x \in todo : x \in m.todo \/ x[1] = m.at
    OBVIOUS
  <2>2. m.at \in DOMAIN readings
    BY <1>1, <1>7
  <2>3. \A x \in todo : /\ x[1] \in DOMAIN readings
                        /\ ~ Throws(m.call.op, readings[x[1]].row)
    <3> HIDE DEF todo
    <3> QED BY <2>1, <2>2
  <2> HIDE DEF new, todo
  <2> QED BY <1>6, <2>3 DEF TodoSound
<1> QED
  <2> HIDE DEF new, at
  <2> QED BY <1>3, <1>4, <1>5, <1>6, <1>8, <1>9, <1>10, <1>11 DEF DeskSound

(* A step of a list that leaves the tables alone.                          *)
LEMMA OnlyDesk ==
    ASSUME MassInv, NEW d \in Desks, NEW m \in MassRequest, DeskSound(m),
           desk' = [desk EXCEPT ![d] = m], UNCHANGED vars,
           UNCHANGED snapshots, submitted' \in Nat
    PROVE  MassInv'
<1>1. IInv'
  BY NextInv DEF MassInv
<1>2. DesksInv'
  BY DeskChange DEF MassInv, DesksInv
<1> QED BY <1>1, <1>2 DEF MassInv

LEMMA SubmitListInv ==
    ASSUME MassInv, NEW d \in Desks, NEW c \in Lists, SubmitList(d, c)
    PROVE  MassInv'
<1> DEFINE m == [Clear EXCEPT !.stage = "check", !.call = c]
<1>1. /\ desk' = [desk EXCEPT ![d] = m] /\ UNCHANGED vars
      /\ UNCHANGED snapshots /\ submitted' \in Nat
  BY DEF SubmitList, MassInv, DesksInv
<1>2. c \in MassCall /\ c.nicks # <<>> /\ c.nicks \in Seq(Nicks)
  BY MassAssumption DEF MassCall
<1>3. m \in MassRequest
  BY <1>2, ClearSound DEF MassRequest
<1>4. /\ m.stage = "check" /\ m.call = c /\ m.at = 1
      /\ m.readings = <<>> /\ m.todo = {}
  BY ClearSound DEF MassRequest
<1>5. 1 \in 1..Len(c.nicks)
  BY <1>2
<1>6. DeskSound(m)
  <2>1. DOMAIN m.readings = {}
    BY <1>4
  <2> HIDE DEF m
  <2> QED BY <1>4, <1>5, <2>1 DEF DeskSound, ReadingsSound, TodoSound
<1> QED
  <2> HIDE DEF m
  <2> QED BY <1>1, <1>3, <1>6, OnlyDesk

LEMMA CheckNickInv ==
    ASSUME MassInv, NEW d \in Desks, CheckNick(d)
    PROVE  MassInv'
<1> DEFINE m == desk[d]
           walked == [m EXCEPT !.stage = "prepare", !.at = 1]
           onward == [m EXCEPT !.at = @ + 1]
<1>1. /\ m \in MassRequest /\ DeskSound(m) /\ m.stage = "check"
      /\ m.call.nicks[m.at] \in Users
      /\ desk' = [desk EXCEPT ![d] = IF LastNick(d) THEN walked ELSE onward]
      /\ UNCHANGED vars /\ UNCHANGED snapshots /\ submitted' \in Nat
  BY DEF CheckNick, NickListable, NickAt, MassInv, DesksInv
<1>2. /\ m.at \in 1..Len(m.call.nicks) /\ Len(m.call.nicks) \in Nat
      /\ \A i \in 1..(m.at - 1) : m.call.nicks[i] \in Users
      /\ m.readings = <<>> /\ m.todo = {} /\ m.at \in Nat \ {0}
  BY <1>1 DEF DeskSound, MassRequest, MassCall
<1>3. \A i \in 1..m.at : m.call.nicks[i] \in Users
  <2>1. \A i \in 1..m.at : i = m.at \/ i \in 1..(m.at - 1)
    BY <1>2
  <2> QED BY <1>1, <1>2, <2>1
<1>4. DOMAIN m.readings = {} /\ Len(m.readings) = 0
  BY <1>2
<1>5. CASE LastNick(d)
  <2>1. walked \in MassRequest
    <3>1. m \in MassRequest /\ 1 \in Nat \ {0}
      BY <1>1
    <3> HIDE DEF m
    <3> QED BY <3>1 DEF MassRequest
  <2>2. /\ walked.stage = "prepare" /\ walked.at = 1 /\ walked.call = m.call
        /\ walked.readings = m.readings /\ walked.todo = m.todo
    BY <1>1 DEF MassRequest
  <2>3. m.at = Len(m.call.nicks)
    BY <1>5 DEF LastNick
  <2>4. DeskSound(walked)
    <3> HIDE DEF walked
    <3> QED BY <1>2, <1>3, <1>4, <2>2, <2>3
            DEF DeskSound, NicksFound, ReadingsSound, TodoSound
  <2> QED
    <3> HIDE DEF walked
    <3> QED BY <1>1, <1>5, <2>1, <2>4, OnlyDesk
<1>6. CASE ~ LastNick(d)
  <2>1. onward \in MassRequest
    BY <1>1, <1>2 DEF MassRequest
  <2>2. /\ onward.stage = "check" /\ onward.at = m.at + 1 /\ onward.call = m.call
        /\ onward.readings = m.readings /\ onward.todo = m.todo
    BY <1>1 DEF MassRequest
  <2>3. m.at + 1 \in 1..Len(m.call.nicks) /\ (m.at + 1) - 1 = m.at
    BY <1>2, <1>6 DEF LastNick
  <2>4. DeskSound(onward)
    <3> HIDE DEF onward
    <3> QED BY <1>2, <1>3, <1>4, <2>2, <2>3
            DEF DeskSound, ReadingsSound, TodoSound
  <2> QED
    <3> HIDE DEF onward
    <3> QED BY <1>1, <1>6, <2>1, <2>4, OnlyDesk
<1> QED BY <1>5, <1>6

LEMMA ClearInv ==
    ASSUME MassInv, NEW d \in Desks, desk' = [desk EXCEPT ![d] = Clear],
           UNCHANGED <<vars, snapshots, submitted>>
    PROVE  MassInv'
<1>1. submitted' \in Nat
  BY DEF MassInv, DesksInv
<1> QED BY <1>1, ClearSound, OnlyDesk

LEMMA PrepareNickInv ==
    ASSUME MassInv, NEW d \in Desks, PrepareNick(d)
    PROVE  MassInv'
<1> DEFINE m == desk[d]
           t == user[m.call.nicks[m.at]]
           new == [row |-> t, stamp |-> now]
           readings == Append(m.readings, new)
           waits == [m EXCEPT !.stage = "third", !.readings = readings]
           op == m.call.op
<1>1. /\ m \in MassRequest /\ DeskSound(m) /\ m.stage = "prepare"
      /\ user \in [Users -> UserRow] /\ now \in Nat
      /\ \A u \in Users : OnTrack(u, user[u].roleName)
      /\ UNCHANGED <<vars, snapshots, submitted>> /\ submitted' \in Nat
  BY DEF PrepareNick, MassInv, DesksInv, IInv, TypeOK, StaysOnTrack
<1>2. /\ NicksFound(m) /\ m.at \in 1..Len(m.call.nicks)
      /\ Len(m.readings) = m.at - 1 /\ ReadingsSound(m) /\ TodoSound(m)
      /\ m.readings \in Seq(Reading) /\ m.call.nicks[m.at] \in Users
      /\ op \in MassOps
  BY <1>1 DEF DeskSound, NicksFound, MassRequest, MassCall
<1>3. t \in UserRow /\ OnTrack(m.call.nicks[m.at], t.roleName)
  BY <1>1, <1>2
<1>4. new \in Reading /\ new.row = t
  BY <1>1, <1>3 DEF Reading
<1>5. /\ readings \in Seq(Reading) /\ Len(readings) = m.at
      /\ readings[m.at] = new /\ m.at \in Nat
      /\ \A i \in 1..(m.at - 1) : readings[i] = m.readings[i]
      /\ DOMAIN readings = 1..m.at /\ DOMAIN m.readings = 1..(m.at - 1)
  <2> HIDE DEF new
  <2> QED BY <1>2, <1>4
<1>6. \A i \in 1..m.at : /\ i \in 1..Len(m.call.nicks)
                         /\ OnTrack(m.call.nicks[i], readings[i].row.roleName)
  <2>1. \A i \in 1..m.at : i = m.at \/ i \in 1..(m.at - 1)
    BY <1>5
  <2>2. \A i \in 1..m.at : i \in 1..Len(m.call.nicks)
    BY <1>2, <1>5
  <2>3. \A i \in 1..(m.at - 1) :
            OnTrack(m.call.nicks[i], m.readings[i].row.roleName)
    BY <1>2, <1>5 DEF ReadingsSound
  <2> HIDE DEF readings, t, new
  <2> QED BY <1>3, <1>4, <1>5, <2>1, <2>2, <2>3
<1>7. \A x \in m.todo : /\ x[1] \in DOMAIN readings
                        /\ ~ Throws(op, readings[x[1]].row)
  <2>1. \A x \in m.todo : /\ x[1] \in 1..(m.at - 1)
                          /\ ~ Throws(op, m.readings[x[1]].row)
    BY <1>2, <1>5 DEF TodoSound
  <2>2. \A i \in 1..(m.at - 1) : i \in 1..m.at
    BY <1>5
  <2> HIDE DEF readings
  <2> QED BY <1>5, <2>1, <2>2
<1>8. CASE op = "warn" /\ t.advNum = 2
  <2>1. desk' = [desk EXCEPT ![d] = waits]
    BY <1>8 DEF PrepareNick, NickAt
  <2>2. waits \in MassRequest
    <3> HIDE DEF readings, m
    <3> QED BY <1>1, <1>5 DEF MassRequest
  <2>3. /\ waits.stage = "third" /\ waits.readings = readings
        /\ waits.call = m.call /\ waits.todo = m.todo /\ waits.at = m.at
    <3> HIDE DEF readings, m
    <3> QED BY <1>1 DEF MassRequest
  <2>4. DeskSound(waits)
    <3>1. readings[m.at].row.advNum = 2
      BY <1>4, <1>5, <1>8
    <3>2. NicksFound(waits) /\ ReadingsSound(waits) /\ TodoSound(waits)
      <4> HIDE DEF waits, readings, m
      <4> QED BY <1>2, <1>5, <1>6, <1>7, <2>3
              DEF NicksFound, ReadingsSound, TodoSound
    <3> HIDE DEF waits, readings, m
    <3> QED BY <1>2, <1>5, <1>8, <2>3, <3>1, <3>2 DEF DeskSound
  <2> QED
    <3> HIDE DEF waits
    <3> QED BY <1>1, <2>1, <2>2, <2>4, OnlyDesk
<1>9. CASE ~ (op = "warn" /\ t.advNum = 2) /\ Throws(op, t)
  <2>1. desk' = [desk EXCEPT ![d] = Clear]
    BY <1>9 DEF PrepareNick, NickAt
  <2> QED BY <1>1, <2>1, ClearInv
<1>10. CASE ~ (op = "warn" /\ t.advNum = 2) /\ ~ Throws(op, t)
  <2> DEFINE ready == Prepared(m, readings, MassPlan(op, t))
  <2>1. desk' = [desk EXCEPT ![d] = ready]
    BY <1>10 DEF PrepareNick, NickAt
  <2>2. MassPlan(op, t) \subseteq MassWrites
    BY MassPlanType
  <2>3. ~ Throws(op, readings[m.at].row)
    BY <1>4, <1>5, <1>10
  <2>4. ready \in MassRequest /\ DeskSound(ready)
    <3> HIDE DEF readings, m
    <3> QED BY <1>1, <1>2, <1>5, <1>6, <1>7, <2>2, <2>3, PreparedSound
  <2> QED
    <3> HIDE DEF ready
    <3> QED BY <1>1, <2>1, <2>4, OnlyDesk
<1> QED BY <1>8, <1>9, <1>10

(* A later date leaves the rows as they were read.                         *)
LEMMA RedatedSame ==
    ASSUME NEW m \in MassRequest, m.at \in DOMAIN m.readings, now \in Nat,
           NEW new, new = Redated(m)
    PROVE  /\ new \in Seq(Reading) /\ Len(new) = Len(m.readings)
           /\ DOMAIN new = DOMAIN m.readings
           /\ \A i \in DOMAIN m.readings : /\ new[i].row = m.readings[i].row
                                           /\ i # m.at => new[i] = m.readings[i]
<1> DEFINE old == m.readings
<1>1. old \in Seq(Reading) /\ DOMAIN old = 1..Len(old) /\ Len(old) \in Nat
  BY LenProperties DEF MassRequest
<1>2. PICK r : r = [old[m.at] EXCEPT !.stamp = now]
  OBVIOUS
<1>3. old[m.at] \in Reading
  BY <1>1
<1>4. r \in Reading /\ r.row = old[m.at].row
  BY <1>2, <1>3 DEF Reading
<1>5. new = [old EXCEPT ![m.at] = r]
  BY <1>2 DEF Redated
<1> HIDE DEF old
<1>6. new \in Seq(Reading) /\ Len(new) = Len(old) /\ DOMAIN new = DOMAIN old
  BY <1>1, <1>4, <1>5, ExceptSeq DEF old
<1> QED BY <1>4, <1>5, <1>6 DEF old

LEMMA LogThirdInv ==
    ASSUME MassInv, NEW d \in Desks, LogThird(d)
    PROVE  MassInv'
<1> DEFINE m == desk[d]
           t == m.readings[m.at].row
           u == m.call.nicks[m.at]
           readings == Redated(m)
           ready == Prepared(m, readings, MassPlan("warn", t))
<1>1. /\ m \in MassRequest /\ DeskSound(m) /\ m.stage = "third" /\ IInv
      /\ DesksInv
      /\ UNCHANGED <<user, perms, depts, now, req, issued, snapshots, submitted>>
      /\ log' = Append(log, WarningRow(u))
      /\ desk' = [desk EXCEPT ![d] = IF Throws("warn", t) THEN Clear ELSE ready]
  BY DEF LogThird, MassInv, DesksInv, RowAt, NickAt
<1>2. /\ NicksFound(m) /\ m.at \in 1..Len(m.call.nicks)
      /\ Len(m.readings) = m.at /\ ReadingsSound(m) /\ TodoSound(m)
      /\ m.readings \in Seq(Reading) /\ u \in Users /\ m.call.op = "warn"
  BY <1>1 DEF DeskSound, NicksFound, MassRequest
<1>a. /\ readings \in Seq(Reading) /\ Len(readings) = m.at /\ DOMAIN readings = 1..m.at
      /\ DOMAIN m.readings = 1..m.at
      /\ \A i \in 1..m.at : readings[i].row = m.readings[i].row
  <2>1. DOMAIN m.readings = 1..m.at
    BY <1>2, LenProperties
  <2>2. m.at \in DOMAIN m.readings /\ now \in Nat
    BY <1>1, <1>2, <2>1 DEF IInv, TypeOK
  <2> HIDE DEF m
  <2> QED BY <1>1, <1>2, <2>1, <2>2, RedatedSame
<1>3. IInv'
  <2>1. WarningRow(u) \in LogRow
    BY <1>2 DEF WarningRow, LogRow
  <2>2. /\ log \in Seq(LogRow) /\ user \in [Users -> UserRow]
        /\ perms \subseteq UserPermission /\ depts \subseteq Users
        /\ \A v \in Users : OnTrack(v, user[v].roleName)
    BY <1>1 DEF IInv, TypeOK, StaysOnTrack
  <2>3. log' \in Seq(LogRow)
    BY <1>1, <2>1, <2>2
  <2>4. /\ user' \in [Users -> UserRow] /\ perms' \subseteq UserPermission
        /\ depts' \subseteq Users
        /\ \A v \in Users : OnTrack(v, user'[v].roleName)
    BY <1>1, <2>2
  <2>5. UNCHANGED <<now, req, issued>>
    BY <1>1
  <2> QED BY <1>1, <2>3, <2>4, <2>5, TablesChange
<1>4. MassPlan("warn", t) \subseteq MassWrites
  BY MassPlanType
<1>5. submitted' \in Nat /\ snapshots' \in Seq(RoleNames)
  BY <1>1 DEF DesksInv
<1>6. DesksInv'
  <2>1. CASE Throws("warn", t)
    <3>1. desk' = [desk EXCEPT ![d] = Clear]
      BY <1>1, <2>1
    <3> QED BY <1>1, <1>5, <3>1, ClearSound, DeskChange
  <2>2. CASE ~ Throws("warn", t)
    <3> HIDE DEF readings
    <3>1. m.at \in 1..m.at /\ readings[m.at].row = t
      BY <1>2, <1>a
    <3>2. \A i \in 1..Len(readings) :
              OnTrack(m.call.nicks[i], readings[i].row.roleName)
      BY <1>2, <1>a DEF ReadingsSound
    <3>3. \A x \in m.todo : /\ x[1] \in DOMAIN readings
                            /\ ~ Throws(m.call.op, readings[x[1]].row)
      BY <1>2, <1>a DEF TodoSound
    <3>4. ready \in MassRequest /\ DeskSound(ready)
      <4> HIDE DEF m
      <4> QED BY <1>1, <1>2, <1>4, <1>a, <2>2, <3>1, <3>2, <3>3, PreparedSound
    <3>5. desk' = [desk EXCEPT ![d] = ready]
      BY <1>1, <2>2
    <3> HIDE DEF ready
    <3> QED BY <1>1, <1>5, <3>4, <3>5, DeskChange
  <2> QED BY <2>1, <2>2
<1> QED BY <1>3, <1>6 DEF MassInv
-----------------------------------------------------------------------------
(* What a write that is settled leaves to its list, and what it knows of   *)
(* the member it is about.                                                 *)
LEMMA MassLandedSound ==
    ASSUME MassInv, NEW d \in Desks, NEW i, NEW w, MassLanded(d, i, w)
    PROVE  /\ snapshots' \in Seq(RoleNames) => DesksInv'
           /\ UNCHANGED <<now, req, issued>>
           /\ NickAt(d, i) \in Users /\ RowAt(d, i) \in UserRow
           /\ desk[d].readings[i] \in Reading /\ desk[d].call.op \in MassOps
           /\ OnTrack(NickAt(d, i), RowAt(d, i).roleName)
           /\ ~ Throws(desk[d].call.op, RowAt(d, i))
<1> DEFINE m == desk[d]
           rest == m.todo \ {<<i, w>>}
           left == [m EXCEPT !.todo = rest]
<1>1. /\ m \in MassRequest /\ DeskSound(m) /\ m.stage = "writes"
      /\ <<i, w>> \in m.todo /\ DesksInv
      /\ desk' = [desk EXCEPT ![d] = IF m.todo = {<<i, w>>} THEN Clear ELSE left]
      /\ UNCHANGED <<now, req, issued, submitted>> /\ submitted' \in Nat
  BY DEF MassLanded, AfterMassWrite, MassInv, DesksInv
<1>2. NicksFound(m) /\ ReadingsSound(m) /\ TodoSound(m)
  BY <1>1 DEF DeskSound
<1>3. /\ i \in DOMAIN m.readings /\ ~ Throws(m.call.op, m.readings[i].row)
      /\ i \in 1..Len(m.call.nicks)
      /\ OnTrack(m.call.nicks[i], m.readings[i].row.roleName)
      /\ m.call.nicks[i] \in Users
  <2>1. /\ i \in DOMAIN m.readings /\ ~ Throws(m.call.op, m.readings[i].row)
    <3>1. <<i, w>>[1] = i
      OBVIOUS
    <3> QED BY <1>1, <1>2, <3>1 DEF TodoSound
  <2> QED BY <1>2, <2>1 DEF ReadingsSound, NicksFound
<1>4. m.readings[i] \in Reading /\ m.readings[i].row \in UserRow
  <2>1. m.readings \in Seq(Reading)
    BY <1>1 DEF MassRequest
  <2>2. m.readings[i] \in Reading
    <3> HIDE DEF m
    <3> QED BY <1>3, <2>1
  <2> QED BY <2>2 DEF Reading
<1>5. left \in MassRequest
  <2>1. rest \in SUBSET (Nat \X MassWrites)
    BY <1>1 DEF MassRequest
  <2> HIDE DEF rest, m
  <2> QED BY <1>1, <2>1 DEF MassRequest
<1>6. DeskSound(left)
  <2>1. /\ left.stage = m.stage /\ left.call = m.call /\ left.at = m.at
        /\ left.readings = m.readings /\ left.todo = rest
    <3> HIDE DEF rest, m
    <3> QED BY <1>1 DEF MassRequest
  <2>2. NicksFound(left) /\ ReadingsSound(left) /\ TodoSound(left)
    <3> HIDE DEF left, m
    <3> QED BY <1>2, <2>1 DEF NicksFound, ReadingsSound, TodoSound
  <2> HIDE DEF left, m
  <2> QED BY <1>1, <2>1, <2>2 DEF DeskSound
<1>7. ASSUME snapshots' \in Seq(RoleNames) PROVE DesksInv'
  <2>1. CASE m.todo = {<<i, w>>}
    <3>1. desk' = [desk EXCEPT ![d] = Clear]
      BY <1>1, <2>1
    <3> QED BY <1>1, <1>7, <3>1, ClearSound, DeskChange
  <2>2. CASE m.todo # {<<i, w>>}
    <3>1. desk' = [desk EXCEPT ![d] = left]
      <4> HIDE DEF left
      <4> QED BY <1>1, <2>2
    <3> HIDE DEF left
    <3> QED BY <1>1, <1>5, <1>6, <1>7, <3>1, DeskChange
  <2> QED BY <2>1, <2>2
<1>8. m.call.op \in MassOps
  BY <1>1 DEF MassRequest, MassCall
<1> QED
  BY <1>1, <1>3, <1>4, <1>7, <1>8 DEF NickAt, RowAt

LEMMA MassWriteInv ==
    ASSUME MassInv, NEW d \in Desks, MassWrite(d)
    PROVE  MassInv'
<1>0. /\ user \in [Users -> UserRow] /\ perms \subseteq UserPermission
      /\ depts \subseteq Users /\ log \in Seq(LogRow)
      /\ \A u \in Users : OnTrack(u, user[u].roleName)
      /\ snapshots \in Seq(RoleNames) /\ IInv
  BY DEF MassInv, DesksInv, IInv, TypeOK, StaysOnTrack
<1> SUFFICES ASSUME NEW i \in DOMAIN desk[d].readings,
                    \/ MassUpdateUser(d, i) \/ MassRegister(d, i)
                    \/ MassLogWarning(d, i) \/ MassRetireWarnings(d, i)
                    \/ MassDeleteRoles(d, i) \/ TakeSnapshot(d, i)
                    \/ \E w \in {"deleteCourses", "deletePermissions"} :
                          MassDeletePermissions(d, i, w)
             PROVE  MassInv'
  BY DEF MassWrite
<1> DEFINE u  == NickAt(d, i)
           t  == RowAt(d, i)
           op == desk[d].call.op
<1>1. CASE MassUpdateUser(d, i)
  <2> DEFINE new == MassUpdated(op, t, user[u], desk[d].readings[i].stamp)
  <2>1. /\ MassLanded(d, i, "update") /\ user' = [user EXCEPT ![u] = new]
        /\ UNCHANGED <<perms, depts, log, snapshots>>
    BY <1>1 DEF MassUpdateUser
  <2>2. /\ DesksInv' /\ UNCHANGED <<now, req, issued>> /\ u \in Users
        /\ t \in UserRow /\ op \in MassOps /\ OnTrack(u, t.roleName)
        /\ ~ Throws(op, t) /\ desk[d].readings[i].stamp \in Nat
    BY <1>0, <2>1, MassLandedSound DEF Reading
  <2>3. new \in UserRow /\ OnTrack(u, new.roleName)
    BY <1>0, <2>2, MassUpdatedSound
  <2>4. /\ user' \in [Users -> UserRow]
        /\ \A v \in Users : OnTrack(v, user'[v].roleName)
    <3> HIDE DEF new, u
    <3> QED BY <1>0, <2>1, <2>2, <2>3
  <2>5. perms' \subseteq UserPermission /\ depts' \subseteq Users
        /\ log' \in Seq(LogRow)
    BY <1>0, <2>1
  <2> QED BY <1>0, <2>2, <2>4, <2>5, TablesChange DEF MassInv
<1>2. CASE MassRegister(d, i)
  <2>1. /\ MassLanded(d, i, "register") /\ log' = Append(log, MassRow(op, t, u))
        /\ UNCHANGED <<user, perms, depts, snapshots>>
    BY <1>2 DEF MassRegister
  <2>2. /\ DesksInv' /\ UNCHANGED <<now, req, issued>> /\ u \in Users
        /\ t \in UserRow
    BY <1>0, <2>1, MassLandedSound
  <2>3. MassRole(op, t) \in RoleNames \cup {NoRole}
    BY RoleAtType, RolesAssumption DEF MassRole, NextDown
  <2>4. (op = "warn") \in BOOLEAN
        /\ (IF op = "fire" THEN "FIRE" ELSE "DEMOTION") \in {"FIRE", "DEMOTION"}
    OBVIOUS
  <2>5. MassRow(op, t, u) \in LogRow
    <3> HIDE DEF op, t, u
    <3> QED BY <2>2, <2>3, <2>4 DEF MassRow, LogRow
  <2>6. log' \in Seq(LogRow)
    <3> HIDE DEF op, t, u
    <3> QED BY <1>0, <2>1, <2>5
  <2>7. /\ user' \in [Users -> UserRow] /\ perms' \subseteq UserPermission
        /\ depts' \subseteq Users
        /\ \A v \in Users : OnTrack(v, user'[v].roleName)
    BY <1>0, <2>1
  <2> QED BY <1>0, <2>2, <2>6, <2>7, TablesChange DEF MassInv
<1>3. CASE MassLogWarning(d, i)
  <2>1. /\ MassLanded(d, i, "warning") /\ log' = Append(log, WarningRow(u))
        /\ UNCHANGED <<user, perms, depts, snapshots>>
    BY <1>3 DEF MassLogWarning
  <2>2. /\ DesksInv' /\ UNCHANGED <<now, req, issued>> /\ u \in Users
    BY <1>0, <2>1, MassLandedSound
  <2>3. WarningRow(u) \in LogRow
    <3> HIDE DEF u
    <3> QED BY <2>2 DEF WarningRow, LogRow
  <2>4. log' \in Seq(LogRow)
    BY <1>0, <2>1, <2>3
  <2>5. /\ user' \in [Users -> UserRow] /\ perms' \subseteq UserPermission
        /\ depts' \subseteq Users
        /\ \A v \in Users : OnTrack(v, user'[v].roleName)
    BY <1>0, <2>1
  <2> QED BY <1>0, <2>2, <2>4, <2>5, TablesChange DEF MassInv
<1>4. CASE MassRetireWarnings(d, i)
  <2> DEFINE row(k) == IF log[k].type = "WARNING" /\ log[k].target = u
                       THEN [log[k] EXCEPT !.isActive = FALSE] ELSE log[k]
  <2>1. /\ MassLanded(d, i, "retireWarnings")
        /\ log' = [k \in DOMAIN log |-> row(k)]
        /\ UNCHANGED <<user, perms, depts, snapshots>>
    BY <1>4 DEF MassRetireWarnings
  <2>2. /\ DesksInv' /\ UNCHANGED <<now, req, issued>>
    BY <1>0, <2>1, MassLandedSound
  <2>3. DOMAIN log = 1..Len(log) /\ Len(log) \in Nat
    BY <1>0
  <2>4. ASSUME NEW k \in 1..Len(log) PROVE row(k) \in LogRow
    <3>1. log[k] \in LogRow
      BY <1>0
    <3>2. [log[k] EXCEPT !.isActive = FALSE] \in LogRow
      BY <3>1 DEF LogRow
    <3> QED BY <3>1, <3>2
  <2>5. log' \in Seq(LogRow)
    <3> HIDE DEF row
    <3>1. log' \in [1..Len(log) -> LogRow]
      BY <2>1, <2>3, <2>4
    <3> QED BY <2>3, <3>1, SeqDef
  <2>6. /\ user' \in [Users -> UserRow] /\ perms' \subseteq UserPermission
        /\ depts' \subseteq Users
        /\ \A v \in Users : OnTrack(v, user'[v].roleName)
    BY <1>0, <2>1
  <2> QED BY <1>0, <2>2, <2>5, <2>6, TablesChange DEF MassInv
<1>5. CASE MassDeleteRoles(d, i)
  <2>1. /\ MassLanded(d, i, "deleteRoles") /\ depts' \subseteq depts
        /\ UNCHANGED <<user, perms, log, snapshots>>
    BY <1>5 DEF MassDeleteRoles
  <2>2. /\ DesksInv' /\ UNCHANGED <<now, req, issued>>
    BY <1>0, <2>1, MassLandedSound
  <2>3. /\ user' \in [Users -> UserRow] /\ perms' \subseteq UserPermission
        /\ depts' \subseteq Users /\ log' \in Seq(LogRow)
        /\ \A v \in Users : OnTrack(v, user'[v].roleName)
    BY <1>0, <2>1
  <2> QED BY <1>0, <2>2, <2>3, TablesChange DEF MassInv
<1>6. CASE TakeSnapshot(d, i)
  <2>1. /\ MassLanded(d, i, "snapshot")
        /\ snapshots' = Append(snapshots, t.roleName)
        /\ UNCHANGED <<user, perms, depts, log>>
    BY <1>6 DEF TakeSnapshot, db
  <2>2. t.roleName \in RoleNames
    BY <2>1, MassLandedSound DEF UserRow
  <2>3. snapshots' \in Seq(RoleNames)
    <3> HIDE DEF t
    <3> QED BY <1>0, <2>1, <2>2
  <2>4. /\ DesksInv' /\ UNCHANGED <<now, req, issued>>
    BY <2>1, <2>3, MassLandedSound
  <2>5. /\ user' \in [Users -> UserRow] /\ perms' \subseteq UserPermission
        /\ depts' \subseteq Users /\ log' \in Seq(LogRow)
        /\ \A v \in Users : OnTrack(v, user'[v].roleName)
    BY <1>0, <2>1
  <2> QED BY <1>0, <2>4, <2>5, TablesChange DEF MassInv
<1>7. ASSUME NEW w \in {"deleteCourses", "deletePermissions"},
             MassDeletePermissions(d, i, w)
      PROVE  MassInv'
  <2>1. /\ MassLanded(d, i, w) /\ perms' \subseteq perms
        /\ UNCHANGED <<user, depts, log, snapshots>>
    BY <1>7 DEF MassDeletePermissions
  <2>2. /\ DesksInv' /\ UNCHANGED <<now, req, issued>>
    BY <1>0, <2>1, MassLandedSound
  <2>3. /\ user' \in [Users -> UserRow] /\ perms' \subseteq UserPermission
        /\ depts' \subseteq Users /\ log' \in Seq(LogRow)
        /\ \A v \in Users : OnTrack(v, user'[v].roleName)
    BY <1>0, <2>1
  <2> QED BY <1>0, <2>2, <2>3, TablesChange DEF MassInv
<1> QED
  BY <1>1, <1>2, <1>3, <1>4, <1>5, <1>6, <1>7

LEMMA MassFailInv ==
    ASSUME MassInv, NEW d \in Desks, MassFail(d)
    PROVE  MassInv'
<1>1. CASE desk' = [desk EXCEPT ![d] = Clear] /\ UNCHANGED <<vars, snapshots, submitted>>
  BY <1>1, ClearInv
<1>2. ASSUME NEW x, MassLanded(d, x[1], x[2]), UNCHANGED <<db, snapshots>>
      PROVE  MassInv'
  <2>1. snapshots' \in Seq(RoleNames)
    BY <1>2 DEF MassInv, DesksInv
  <2>2. DesksInv' /\ UNCHANGED <<now, req, issued>>
    BY <1>2, <2>1, MassLandedSound
  <2>3. UNCHANGED <<user, perms, depts, log>>
    BY <1>2 DEF db
  <2>4. IInv'
    BY <2>2, <2>3, TablesChange DEF MassInv, IInv, TypeOK, StaysOnTrack
  <2> QED BY <2>2, <2>4 DEF MassInv
<1> QED
  BY <1>1, <1>2 DEF MassFail

LEMMA MassNextInv == MassInv /\ [MassNext]_allVars => MassInv'
<1> SUFFICES ASSUME MassInv, [MassNext]_allVars PROVE MassInv'
  OBVIOUS
<1>1. CASE [Next]_vars /\ UNCHANGED massVars
  <2>1. IInv'
    BY <1>1, NextInv DEF MassInv
  <2>2. DesksInv'
    BY <1>1 DEF MassInv, DesksInv, massVars
  <2> QED BY <2>1, <2>2 DEF MassInv
<1>2. ASSUME NEW d \in Desks, MassStep(d) PROVE MassInv'
  <2>1. CASE RefuseList(d)
    BY <2>1, ClearInv DEF RefuseList
  <2> QED
    BY <1>2, <2>1, CheckNickInv, PrepareNickInv, LogThirdInv, MassWriteInv
       DEF MassStep
<1> QED
  BY <1>1, <1>2, SubmitListInv, MassFailInv DEF MassNext, allVars, vars, massVars
-----------------------------------------------------------------------------
LEMMA MassInvariance == MassSpec => []MassInv
<1>1. MassInit => MassInv
  BY MassInitInv
<1>2. MassInv /\ [MassNext]_allVars => MassInv'
  BY MassNextInv
<1> QED
  BY <1>1, <1>2, PTL DEF MassSpec

(***************************************************************************)
(* Tables, snapshots and lists in flight keep their shape, and advNum      *)
(* stays within 0..2, although a list counts warnings from a row it read   *)
(* before any of its writes were sent, for a nick given twice as well.     *)
(***************************************************************************)
THEOREM MassTypeCorrect == MassSpec => []MassTypeOK
<1>1. MassInv => MassTypeOK
  BY DEF MassInv, IInv, DesksInv, MassTypeOK
<1> QED
  BY <1>1, MassInvariance, PTL

(***************************************************************************)
(* No interleaving of lists with each other and with the handlers for one  *)
(* member moves a member to the other ladder.                              *)
(***************************************************************************)
THEOREM ListsNeverChangeLadder == MassSpec => []StaysOnTrack
<1>1. MassInv => StaysOnTrack
  BY DEF MassInv, IInv
<1> QED
  BY <1>1, MassInvariance, PTL
=============================================================================
