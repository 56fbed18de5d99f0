------------------------- MODULE BonificationProofs -------------------------
(***************************************************************************)
(* Proofs about Bonification, for any number of members and of requests in *)
(* flight, every interleaving and every failure of a query.                *)
(***************************************************************************)
EXTENDS Bonification, FiniteSetTheorems, SequenceTheorems, TLAPS

InFlight == Cardinality(Procs)

(***************************************************************************)
(* The invariant behind QuotaUnderRaces.  A request that counts rows looks *)
(* back at least to the dawn of the day that is running, even when it      *)
(* fixed `today' on an earlier day; so it sees every row of the day, and   *)
(* while the day runs the rows written and the rows on their way are,      *)
(* together, two that were seen and one per request.                       *)
(***************************************************************************)
LooksBack(r) ==
    r.stage = "count" =>
        \A day \in Nat : now < DayEnds(day) => r.today <= DayBegins(day)

DayWithin(u, day) ==
    /\ Cardinality(RowsOfDay(u, day)) <= 2 + InFlight
    /\ now < DayEnds(day) =>
          Cardinality(RowsOfDay(u, day)) + Cardinality(Unsettled(u, "record"))
              <= 2 + InFlight

IInv == /\ TypeOK
        /\ \A i \in DOMAIN bonifications : bonifications[i].createdAt <= now
        /\ \A p \in Procs : LooksBack(req[p])
        /\ \A u \in Users, day \in Nat : DayWithin(u, day)
-----------------------------------------------------------------------------
(* Multiplication by a length of the day keeps the order.                  *)
LEMMA TimesMonotone ==
    ASSUME NEW a \in Nat, NEW b \in Nat, NEW d \in Nat, a <= b
    PROVE  a * d <= b * d
<1>1. PICK k \in Nat : b = a + k
  BY b - a \in Nat
<1>2. b * d = a * d + k * d
  BY <1>1
<1>3. k * d \in Nat /\ a * d \in Nat
  OBVIOUS
<1> QED BY <1>2, <1>3

LEMMA DayBounds ==
    ASSUME NEW day \in Nat
    PROVE  /\ DayBegins(day) \in Nat /\ DayEnds(day) \in Nat
           /\ DayBegins(day) <= DayEnds(day)
<1>1. day * DayLen \in Nat /\ (day + 1) * DayLen = day * DayLen + DayLen
  BY BonificationAssumption
<1> QED BY <1>1, BonificationAssumption DEF DayBegins, DayEnds

(* The midnight of a moment is not after that of any day not yet over.     *)
LEMMA StartOfTodayIsEarly ==
    ASSUME NEW time \in Nat
    PROVE  /\ StartOfToday(time) \in Nat
           /\ \A day \in Nat : time < DayEnds(day) =>
                 StartOfToday(time) <= DayBegins(day)
<1> DEFINE q == time \div DayLen
<1>1. q \in Nat /\ q * DayLen <= time /\ q * DayLen \in Nat
  BY BonificationAssumption
<1>2. StartOfToday(time) = q * DayLen + Dawn
  BY DEF StartOfToday, Midnight
<1> HIDE DEF q
<1>3. ASSUME NEW day \in Nat, time < DayEnds(day)
      PROVE  q * DayLen <= day * DayLen
  <2>1. q <= day
    <3>1. SUFFICES ASSUME day + 1 <= q PROVE FALSE
      BY <1>1
    <3>2. (day + 1) * DayLen <= q * DayLen
      BY <1>1, <3>1, TimesMonotone, BonificationAssumption
    <3>3. (day + 1) * DayLen \in Nat
      BY BonificationAssumption
    <3> QED BY <1>1, <1>3, <3>2, <3>3 DEF DayEnds
  <2> QED BY <1>1, <2>1, TimesMonotone, BonificationAssumption
<1>4. \A day \in Nat : day * DayLen \in Nat
  BY BonificationAssumption
<1> QED BY <1>1, <1>2, <1>3, <1>4, BonificationAssumption DEF DayBegins
-----------------------------------------------------------------------------
(***************************************************************************)
(* Types.                                                                  *)
(***************************************************************************)
LEMMA IdleIsRequest == Idle \in Request
<1>1. (CHOOSE c \in Calls : TRUE) \in Call
  BY BonificationAssumption
<1> QED BY <1>1 DEF Idle, Request, Writes

LEMMA AfterWriteType ==
    ASSUME NEW r \in Request, NEW w
    PROVE  AfterWrite(r, w) \in Request
BY IdleIsRequest DEF AfterWrite, Request

LEMMA TypeStep == TypeOK /\ [Next]_vars => TypeOK'
<1> SUFFICES ASSUME TypeOK, [Next]_vars PROVE TypeOK'
  OBVIOUS
<1> USE DEF TypeOK
<1>1. ASSUME NEW p \in Procs, NEW c \in Calls, Submit(p, c) PROVE TypeOK'
  <2>1. [Idle EXCEPT !.stage = "target", !.call = c] \in Request
    BY IdleIsRequest, BonificationAssumption DEF Request
  <2> QED BY <1>1, <2>1 DEF Submit
<1>2. ASSUME NEW p \in Procs, ReadTarget(p) PROVE TypeOK'
  <2>1. [req[p] EXCEPT !.stage = "count", !.today = StartOfToday(now)] \in Request
    BY StartOfTodayIsEarly DEF Request
  <2> QED BY <1>2, <2>1 DEF ReadTarget
<1>3. ASSUME NEW p \in Procs, CountRows(p) PROVE TypeOK'
  <2> DEFINE n == Cardinality(RowsSince(req[p].call.target, req[p].today))
  <2>1. DOMAIN bonifications = 1..Len(bonifications) /\ Len(bonifications) \in Nat
    BY LenProperties
  <2>2. IsFiniteSet(DOMAIN bonifications)
    BY <2>1, FS_Interval
  <2>3. n \in Nat
    BY <2>2, FS_Subset, FS_CardinalityType DEF RowsSince
  <2> HIDE DEF n
  <2>4. [req[p] EXCEPT !.stage = "writes", !.todo = Writes, !.seen = n] \in Request
    BY <2>3 DEF Request
  <2>5. req' = [req EXCEPT ![p] = [req[p] EXCEPT !.stage = "writes",
                                       !.todo = Writes, !.seen = n]]
    BY <1>3 DEF CountRows, n
  <2> QED BY <1>3, <2>4, <2>5 DEF CountRows
<1>4. ASSUME NEW p \in Procs, NEW w, Settled(p, w) PROVE req' \in [Procs -> Request]
  BY <1>4, AfterWriteType DEF Settled
<1>5. ASSUME NEW p \in Procs, Refuse(p) PROVE TypeOK'
  BY <1>5, IdleIsRequest DEF Refuse
<1>6. ASSUME NEW p \in Procs, CreditMember(p) PROVE TypeOK'
  <2>1. total' \in [Users -> Nat]
    <3> DEFINE u == req[p].call.target
    <3>1. u \in Users
      BY DEF Request, Call
    <3>2. total' = [total EXCEPT ![u] = total[u] + 5]
      BY <1>6 DEF CreditMember, Credited
    <3>3. total[u] + 5 \in Nat
      BY <3>1
    <3> HIDE DEF u
    <3> QED BY <3>2, <3>3
  <2> QED BY <1>4, <1>6, <2>1 DEF CreditMember
<1>7. ASSUME NEW p \in Procs, RecordBonification(p) PROVE TypeOK'
  <2>1. NewRow(req[p].call) \in BonificationRow
    BY DEF NewRow, BonificationRow, Request, Call
  <2> QED BY <1>4, <1>7, <2>1, AppendProperties DEF RecordBonification
<1>8. ASSUME NEW p \in Procs, Fail(p) PROVE TypeOK'
  BY <1>4, <1>8, IdleIsRequest DEF Fail
<1>9. CASE Tick
  BY <1>9 DEF Tick
<1>10. CASE UNCHANGED vars
  BY <1>10 DEF vars
<1> QED
  BY <1>1, <1>2, <1>3, <1>5, <1>6, <1>7, <1>8, <1>9, <1>10 DEF Next, Step

LEMMA TypeInit == Init => TypeOK
BY IdleIsRequest, EmptySeq DEF Init, TypeOK

(* The tables and the requests keep the shape of the schema; today' is a   *)
(* moment and never before the clock begins.                               *)
THEOREM TypeCorrect == Spec => []TypeOK
BY TypeInit, TypeStep, PTL DEF Spec
-----------------------------------------------------------------------------
(***************************************************************************)
(* The daily limit under races.                                            *)
(***************************************************************************)
LEMMA RowTimes ==
    ASSUME TypeOK, NEW i \in DOMAIN bonifications
    PROVE  bonifications[i].createdAt \in Nat
<1>1. bonifications[i] \in BonificationRow
  BY ElementOfSeq, LenProperties DEF TypeOK
<1> QED BY <1>1 DEF BonificationRow

LEMMA Finite ==
    ASSUME TypeOK, NEW u, NEW day, NEW start
    PROVE  /\ IsFiniteSet(RowsOfDay(u, day))
           /\ Cardinality(RowsOfDay(u, day)) \in Nat
           /\ IsFiniteSet(RowsSince(u, start))
           /\ IsFiniteSet(Unsettled(u, "record"))
           /\ Cardinality(Unsettled(u, "record")) \in Nat
           /\ InFlight \in Nat
<1>1. DOMAIN bonifications = 1..Len(bonifications) /\ Len(bonifications) \in Nat
  BY LenProperties DEF TypeOK
<1>2. IsFiniteSet(DOMAIN bonifications)
  BY <1>1, FS_Interval
<1>3. IsFiniteSet(RowsOfDay(u, day)) /\ IsFiniteSet(RowsSince(u, start))
  BY <1>2, FS_Subset DEF RowsOfDay, RowsSince
<1>4. IsFiniteSet(Unsettled(u, "record"))
  BY BonificationAssumption, FS_Subset DEF Unsettled
<1> QED
  BY <1>3, <1>4, FS_CardinalityType, BonificationAssumption DEF InFlight

(* Rows and clock alone: time passes, or requests lose writes.             *)
LEMMA Unrecorded ==
    ASSUME IInv, TypeOK', bonifications' = bonifications, now' \in {now, now + 1},
           \A u \in Users : Unsettled(u, "record")' \subseteq Unsettled(u, "record")
    PROVE  /\ \A i \in DOMAIN bonifications' : bonifications'[i].createdAt <= now'
           /\ \A u \in Users, day \in Nat : DayWithin(u, day)'
<1> USE DEF IInv
<1>1. now \in Nat /\ bonifications \in Seq(BonificationRow)
  BY DEF TypeOK
<1>2. \A i \in DOMAIN bonifications' : bonifications'[i].createdAt <= now'
  <2>1. \A i \in DOMAIN bonifications : bonifications[i].createdAt \in Nat
    BY RowTimes
  <2> QED BY <1>1, <2>1
<1>3. ASSUME NEW u \in Users, NEW day \in Nat PROVE DayWithin(u, day)'
  <2>1. RowsOfDay(u, day)' = RowsOfDay(u, day)
    BY DEF RowsOfDay
  <2>2. now' < DayEnds(day) => now < DayEnds(day)
    <3>1. DayEnds(day) \in Nat
      BY DayBounds
    <3>2. CASE now' = now
      BY <3>2
    <3>3. CASE now' = now + 1
      BY <1>1, <3>1, <3>3
    <3> QED BY <3>2, <3>3
  <2>3. Cardinality(Unsettled(u, "record")') <= Cardinality(Unsettled(u, "record"))
    BY Finite, FS_Subset
  <2>4. Cardinality(Unsettled(u, "record")') \in Nat
    BY Finite, FS_Subset, FS_CardinalityType
  <2>5. DayWithin(u, day)
    OBVIOUS
  <2>6. Cardinality(RowsOfDay(u, day)) \in Nat /\ InFlight \in Nat
        /\ Cardinality(Unsettled(u, "record")) \in Nat
    BY Finite
  <2>7. DayEnds(day)' = DayEnds(day) /\ InFlight' = InFlight
    BY DEF DayEnds, InFlight
  <2> QED BY <2>1, <2>2, <2>3, <2>4, <2>5, <2>6, <2>7 DEF DayWithin
<1> QED BY <1>2, <1>3

(* A request that counts sees all the rows of a day not yet over.          *)
LEMMA SeesTheDay ==
    ASSUME IInv, NEW p \in Procs, req[p].stage = "count", NEW day \in Nat,
           now < DayEnds(day), NEW u
    PROVE  RowsOfDay(u, day) \subseteq RowsSince(u, req[p].today)
<1>1. req[p].today <= DayBegins(day)
  BY DEF IInv, LooksBack
<1>2. SUFFICES ASSUME NEW i \in RowsOfDay(u, day)
               PROVE  bonifications[i].createdAt >= req[p].today
  BY DEF RowsOfDay, RowsSince
<1>3. bonifications[i].createdAt \in Nat /\ req[p].today \in Nat
  BY RowTimes DEF IInv, TypeOK, Request, RowsOfDay
<1> QED
  BY <1>1, <1>3, DayBounds DEF RowsOfDay

LEMMA CountedWithin ==
    ASSUME IInv, NEW p \in Procs, CountRows(p), NEW day \in Nat,
           now < DayEnds(day)
    PROVE  Cardinality(RowsOfDay(req[p].call.target, day)) <= 2
<1> DEFINE u     == req[p].call.target
           today == req[p].today
<1>1. RowsOfDay(u, day) \subseteq RowsSince(u, today)
  BY SeesTheDay DEF CountRows
<1>2. IsFiniteSet(RowsSince(u, today)) /\ Cardinality(RowsOfDay(u, day)) \in Nat
  BY Finite DEF IInv
<1>3. Cardinality(RowsSince(u, today)) < 3 /\ Cardinality(RowsSince(u, today)) \in Nat
  BY <1>2, FS_CardinalityType DEF CountRows, WithinDailyLimit
<1>4. Cardinality(RowsOfDay(u, day)) <= Cardinality(RowsSince(u, today))
  BY <1>1, <1>2, FS_Subset
<1> QED
  BY <1>2, <1>3, <1>4

(* A request that is counting has fixed its `today' already; it stays in   *)
(* force while the clock goes on.                                          *)
LEMMA StillLooksBack ==
    ASSUME IInv, now' \in {now, now + 1},
           \A q \in Procs : req'[q].stage = "count" => req'[q] = req[q]
    PROVE  \A q \in Procs : LooksBack(req[q])'
<1>1. ASSUME NEW q \in Procs, req'[q].stage = "count",
             NEW day \in Nat, now' < DayEnds(day)
      PROVE  req'[q].today <= DayBegins(day)
  <2>1. now \in Nat /\ DayEnds(day) \in Nat
    BY DayBounds DEF IInv, TypeOK
  <2>2. now < DayEnds(day)
    <3>1. CASE now' = now
      BY <1>1, <3>1
    <3>2. CASE now' = now + 1
      BY <1>1, <2>1, <3>2
    <3> QED BY <3>1, <3>2
  <2> QED BY <1>1, <2>2 DEF IInv, LooksBack
<1> QED BY <1>1 DEF LooksBack, DayEnds, DayBegins

(* Sending the writes: the limit was checked on all the rows of the day.   *)
LEMMA CountStep ==
    ASSUME IInv, TypeOK', NEW p \in Procs, CountRows(p)
    PROVE  IInv'
<1>1. now' = now /\ bonifications' = bonifications
  BY DEF CountRows
<1>2. /\ \A q \in Procs \ {p} : req'[q] = req[q]
      /\ req'[p].stage = "writes" /\ req'[p].call = req[p].call
  BY DEF CountRows, IInv, TypeOK, Request
<1>3. \A q \in Procs : LooksBack(req[q])'
  BY <1>1, <1>2, StillLooksBack
<1>4. ASSUME NEW u \in Users, NEW day \in Nat PROVE DayWithin(u, day)'
  <2>1. RowsOfDay(u, day)' = RowsOfDay(u, day)
    BY <1>1 DEF RowsOfDay
  <2>2. DayEnds(day)' = DayEnds(day) /\ InFlight' = InFlight
    BY DEF DayEnds, InFlight
  <2>3. DayWithin(u, day)
    BY DEF IInv
  <2>4. /\ Cardinality(RowsOfDay(u, day)) \in Nat /\ InFlight \in Nat
        /\ Cardinality(Unsettled(u, "record")) \in Nat
    BY Finite DEF IInv
  <2>5. CASE u # req[p].call.target
    <3>1. Unsettled(u, "record")' = Unsettled(u, "record")
      BY <1>2, <2>5 DEF Unsettled
    <3> QED BY <1>1, <2>1, <2>2, <2>3, <3>1 DEF DayWithin
  <2>6. CASE u = req[p].call.target
    <3>1. now < DayEnds(day) => Cardinality(RowsOfDay(u, day)) <= 2
      BY <2>6, CountedWithin
    <3>2. /\ Cardinality(Unsettled(u, "record")') <= InFlight
          /\ Cardinality(Unsettled(u, "record")') \in Nat
      BY BonificationAssumption, FS_Subset, FS_CardinalityType
         DEF Unsettled, InFlight
    <3> QED BY <1>1, <2>1, <2>2, <2>3, <2>4, <3>1, <3>2 DEF DayWithin
  <2> QED BY <2>5, <2>6
<1>5. \A i \in DOMAIN bonifications' : bonifications'[i].createdAt <= now'
  BY <1>1 DEF IInv
<1> QED BY <1>3, <1>4, <1>5 DEF IInv

(* A row written was on its way before: their sum stays what it was.       *)
LEMMA RecordStep ==
    ASSUME IInv, TypeOK', NEW p \in Procs, RecordBonification(p)
    PROVE  IInv'
<1> DEFINE n  == Len(bonifications) + 1
           u0 == req[p].call.target
<1>1. /\ now' = now /\ req[p].stage = "writes" /\ "record" \in req[p].todo
      /\ req' = [req EXCEPT ![p] = AfterWrite(req[p], "record")]
      /\ bonifications' = Append(bonifications, NewRow(req[p].call))
  BY DEF RecordBonification, Settled
<1>2. /\ \A q \in Procs \ {p} : req'[q] = req[q]
      /\ req'[p].stage # "count" /\ "record" \notin req'[p].todo
  <2>1. req'[p] = AfterWrite(req[p], "record")
    BY <1>1 DEF IInv, TypeOK
  <2>2. /\ AfterWrite(req[p], "record").stage # "count"
        /\ "record" \notin AfterWrite(req[p], "record").todo
    BY <1>1 DEF AfterWrite, Idle, IInv, TypeOK, Request
  <2> QED BY <1>1, <2>1, <2>2 DEF IInv, TypeOK
<1>3. \A q \in Procs : LooksBack(req[q])'
  BY <1>1, <1>2, StillLooksBack
<1>4. /\ bonifications \in Seq(BonificationRow) /\ NewRow(req[p].call) \in BonificationRow
      /\ now \in Nat
  BY DEF NewRow, BonificationRow, IInv, TypeOK, Request, Call
<1>5. /\ DOMAIN bonifications = 1..Len(bonifications) /\ Len(bonifications) \in Nat
      /\ DOMAIN bonifications' = 1..n
      /\ \A i \in DOMAIN bonifications : bonifications'[i] = bonifications[i]
      /\ bonifications'[n] = NewRow(req[p].call)
  <2>1. Append(bonifications, NewRow(req[p].call)) \in Seq(BonificationRow)
    BY <1>4, AppendProperties
  <2> QED BY <1>1, <1>4, <2>1, AppendProperties, LenProperties
<1>6. DOMAIN bonifications' = DOMAIN bonifications \cup {n} /\ n \notin DOMAIN bonifications
  BY <1>5
<1>7. \A i \in DOMAIN bonifications' : bonifications'[i].createdAt <= now'
  <2>1. NewRow(req[p].call).createdAt = now
    BY DEF NewRow
  <2> QED BY <1>1, <1>4, <1>5, <1>6, <2>1 DEF IInv
<1> HIDE DEF n
<1>8. ASSUME NEW u \in Users, NEW day \in Nat PROVE DayWithin(u, day)'
  <2>1. DayEnds(day)' = DayEnds(day) /\ InFlight' = InFlight
    BY DEF DayEnds, InFlight
  <2>2. DayWithin(u, day)
    BY DEF IInv
  <2>3. /\ Cardinality(RowsOfDay(u, day)) \in Nat /\ InFlight \in Nat
        /\ Cardinality(Unsettled(u, "record")) \in Nat
        /\ IsFiniteSet(RowsOfDay(u, day)) /\ IsFiniteSet(Unsettled(u, "record"))
    BY Finite DEF IInv
  <2>4. /\ RowsOfDay(u, day)' \subseteq RowsOfDay(u, day) \cup {n}
        /\ RowsOfDay(u, day) \subseteq RowsOfDay(u, day)'
        /\ n \in RowsOfDay(u, day)' => u = u0 /\ now < DayEnds(day)
        /\ n \notin RowsOfDay(u, day)
    <3>1. /\ NewRow(req[p].call).target = u0
          /\ NewRow(req[p].call).createdAt = now
      BY DEF NewRow
    <3>2. \A i \in DOMAIN bonifications :
             i \in RowsOfDay(u, day)' <=> i \in RowsOfDay(u, day)
      BY <1>5, <1>6 DEF RowsOfDay, DayBegins, DayEnds
    <3>3. n \in RowsOfDay(u, day)' => u = u0 /\ now < DayEnds(day)
      BY <1>5, <3>1, <2>1 DEF RowsOfDay
    <3> QED BY <1>6, <3>2, <3>3 DEF RowsOfDay
  <2>5. CASE n \in RowsOfDay(u, day)'
    <3>1. RowsOfDay(u, day)' = RowsOfDay(u, day) \cup {n}
      BY <2>4, <2>5
    <3>2. Cardinality(RowsOfDay(u, day)') = Cardinality(RowsOfDay(u, day)) + 1
      BY <2>3, <2>4, <3>1, FS_AddElement
    <3>3. /\ Unsettled(u, "record")' = Unsettled(u, "record") \ {p}
          /\ p \in Unsettled(u, "record")
      BY <1>1, <1>2, <2>4, <2>5 DEF Unsettled
    <3>4. Cardinality(Unsettled(u, "record")') = Cardinality(Unsettled(u, "record")) - 1
      BY <2>3, <3>3, FS_RemoveElement
    <3>5. Cardinality(Unsettled(u, "record")) >= 1
      BY <2>3, <3>3, FS_EmptySet
    <3> QED BY <1>1, <2>1, <2>2, <2>3, <2>4, <2>5, <3>2, <3>4, <3>5 DEF DayWithin
  <2>6. CASE n \notin RowsOfDay(u, day)'
    <3>1. RowsOfDay(u, day)' = RowsOfDay(u, day)
      BY <2>4, <2>6
    <3>2. Unsettled(u, "record")' \subseteq Unsettled(u, "record")
      BY <1>2 DEF Unsettled
    <3>3. /\ Cardinality(Unsettled(u, "record")') <= Cardinality(Unsettled(u, "record"))
          /\ Cardinality(Unsettled(u, "record")') \in Nat
      BY <2>3, <3>2, FS_Subset, FS_CardinalityType
    <3> QED BY <1>1, <2>1, <2>2, <2>3, <3>1, <3>3 DEF DayWithin
  <2> QED BY <2>5, <2>6
<1> QED BY <1>3, <1>7, <1>8 DEF IInv

(* Every other step only moves the clock or takes writes away.             *)
LEMMA OtherStep ==
    ASSUME IInv, TypeOK', bonifications' = bonifications,
           now' \in {now, now + 1},
           \A q \in Procs : \/ req'[q] = req[q]
                            \/ /\ req'[q].stage # "count"
                               /\ \/ req'[q].todo = {}
                                  \/ /\ req'[q].call = req[q].call
                                     /\ req'[q].todo \subseteq req[q].todo
    PROVE  IInv'
<1>1. \A u \in Users : Unsettled(u, "record")' \subseteq Unsettled(u, "record")
  BY DEF Unsettled
<1>2. \A q \in Procs : req'[q].stage = "count" => req'[q] = req[q]
  OBVIOUS
<1> QED BY <1>1, <1>2, Unrecorded, StillLooksBack DEF IInv

LEMMA InvariantInit == Init => IInv
<1> SUFFICES ASSUME Init PROVE IInv
  OBVIOUS
<1>1. TypeOK
  BY TypeInit
<1>2. ASSUME NEW u \in Users, NEW day \in Nat PROVE DayWithin(u, day)
  <2>1. RowsOfDay(u, day) = {}
    BY DEF RowsOfDay, Init
  <2>2. Unsettled(u, "record") = {}
    BY DEF Unsettled, Init, Idle
  <2>3. InFlight \in Nat
    BY <1>1, Finite
  <2> QED BY <2>1, <2>2, <2>3, FS_EmptySet DEF DayWithin
<1> QED BY <1>1, <1>2 DEF IInv, LooksBack, Init, Idle

LEMMA InvariantStep == IInv /\ [Next]_vars => IInv'
<1> SUFFICES ASSUME IInv, [Next]_vars PROVE IInv'
  OBVIOUS
<1>1. TypeOK /\ TypeOK'
  BY TypeStep DEF IInv
<1>2. ASSUME NEW p \in Procs, NEW c \in Calls, Submit(p, c) PROVE IInv'
  BY <1>1, <1>2, OtherStep DEF Submit, Idle, TypeOK
<1>3. ASSUME NEW p \in Procs, ReadTarget(p) PROVE IInv'
  <2>1. /\ now' = now /\ bonifications' = bonifications
        /\ \A q \in Procs \ {p} : req'[q] = req[q]
        /\ req'[p].today = StartOfToday(now)
        /\ req'[p].call = req[p].call /\ req'[p].todo = req[p].todo
    BY <1>1, <1>3 DEF ReadTarget, TypeOK, Request
  <2>2. \A u \in Users : Unsettled(u, "record")' \subseteq Unsettled(u, "record")
    BY <2>1 DEF Unsettled
  <2>3. LooksBack(req[p])'
    BY <1>1, <2>1, StartOfTodayIsEarly DEF LooksBack, TypeOK, DayEnds, DayBegins
  <2>4. \A q \in Procs \ {p} : LooksBack(req[q])'
    BY <2>1 DEF LooksBack, IInv, DayEnds, DayBegins
  <2> QED BY <1>1, <2>1, <2>2, <2>3, <2>4, Unrecorded DEF IInv
<1>4. ASSUME NEW p \in Procs, CountRows(p) PROVE IInv'
  BY <1>1, <1>4, CountStep
<1>5. ASSUME NEW p \in Procs, RecordBonification(p) PROVE IInv'
  BY <1>1, <1>5, RecordStep
<1>6. ASSUME NEW p \in Procs, req' = [req EXCEPT ![p] = Idle],
             bonifications' = bonifications, now' = now
      PROVE  IInv'
  BY <1>1, <1>6, OtherStep DEF Idle, TypeOK
<1>7. ASSUME NEW p \in Procs, NEW w, Settled(p, w),
             bonifications' = bonifications, now' = now
      PROVE  IInv'
  <2>1. CASE req[p].todo = {w}
    BY <1>6, <1>7, <2>1 DEF Settled, AfterWrite
  <2>2. CASE req[p].todo # {w}
    <3>1. /\ AfterWrite(req[p], w).stage # "count"
          /\ AfterWrite(req[p], w).call = req[p].call
          /\ AfterWrite(req[p], w).todo \subseteq req[p].todo
      BY <1>1, <1>7, <2>2 DEF AfterWrite, Settled, TypeOK, Request
    <3>2. req' = [req EXCEPT ![p] = AfterWrite(req[p], w)]
      BY <1>7 DEF Settled
    <3> QED BY <1>1, <1>7, <3>1, <3>2, OtherStep DEF TypeOK
  <2> QED BY <2>1, <2>2
<1>8. ASSUME NEW p \in Procs, Refuse(p) PROVE IInv'
  BY <1>6, <1>8 DEF Refuse
<1>9. ASSUME NEW p \in Procs, CreditMember(p) PROVE IInv'
  BY <1>7, <1>9 DEF CreditMember
<1>10. ASSUME NEW p \in Procs, Fail(p) PROVE IInv'
  BY <1>6, <1>7, <1>10 DEF Fail
<1>11. CASE Tick
  BY <1>1, <1>11, OtherStep DEF Tick
<1>12. CASE UNCHANGED vars
  BY <1>1, <1>12, OtherStep DEF vars
<1> QED
  BY <1>2, <1>3, <1>4, <1>5, <1>8, <1>9, <1>10, <1>11, <1>12 DEF Next, Step

(* No day sees more than two bonuses and one per request in flight, for    *)
(* any number of requests: the checks of bonifyUser, made on rows read     *)
(* earlier, bound the bonuses of a member even though they do not lock.    *)
THEOREM QuotaBounded == Spec => []QuotaUnderRaces
<1>1. IInv => QuotaUnderRaces
  <2>1. Days \subseteq Nat
    BY DEF Days
  <2> QED BY <2>1 DEF IInv, DayWithin, QuotaUnderRaces, InFlight
<1> QED BY <1>1, InvariantInit, InvariantStep, PTL DEF Spec
-----------------------------------------------------------------------------
(***************************************************************************)
(* Requests and the writes they have on their way.                         *)
(***************************************************************************)
OneAtATime == \A p, q \in Procs : p # q /\ Busy(p) /\ Busy(q) =>
                  req[p].call.target # req[q].call.target

Orderly == /\ setting.exclusive => OneAtATime
           /\ \A p \in Procs : req[p].todo # {} => req[p].stage = "writes"

(* A write is settled: the request has the others left, or has answered.   *)
LEMMA WriteSettled ==
    ASSUME TypeOK, NEW p \in Procs, NEW w, Settled(p, w)
    PROVE  /\ \A q \in Procs \ {p} : req'[q] = req[q]
           /\ req[p].stage = "writes" /\ w \in req[p].todo
           /\ req'[p].todo = req[p].todo \ {w}
           /\ \/ req'[p] = Idle
              \/ req'[p].call = req[p].call /\ req'[p].stage = "writes"
<1>1. req'[p] = AfterWrite(req[p], w) /\ \A q \in Procs \ {p} : req'[q] = req[q]
  BY DEF Settled, TypeOK
<1>2. req[p] \in Request /\ req[p].stage = "writes" /\ w \in req[p].todo
  BY DEF Settled, TypeOK
<1>3. AfterWrite(req[p], w).todo = req[p].todo \ {w}
  BY <1>2 DEF AfterWrite, Idle, Request
<1>4. \/ AfterWrite(req[p], w) = Idle
      \/ /\ AfterWrite(req[p], w).call = req[p].call
         /\ AfterWrite(req[p], w).stage = "writes"
  BY <1>2 DEF AfterWrite, Request
<1> QED
  BY <1>1, <1>2, <1>3, <1>4

LEMMA UnsettledAfter ==
    ASSUME TypeOK, NEW p \in Procs, NEW w, Settled(p, w), NEW u, NEW v
    PROVE  /\ Unsettled(u, v)' = IF u = req[p].call.target /\ v = w
                                 THEN Unsettled(u, v) \ {p} ELSE Unsettled(u, v)
           /\ p \in Unsettled(req[p].call.target, w)
<1>1. /\ \A q \in Procs \ {p} : req'[q] = req[q]
      /\ req[p].stage = "writes" /\ w \in req[p].todo
      /\ req'[p].todo = req[p].todo \ {w}
      /\ req'[p].todo # {} => req'[p].call = req[p].call
  <2>1. Idle.todo = {}
    BY DEF Idle
  <2>2. /\ \A q \in Procs \ {p} : req'[q] = req[q]
        /\ req[p].stage = "writes" /\ w \in req[p].todo
        /\ req'[p].todo = req[p].todo \ {w}
        /\ req'[p] = Idle \/ req'[p].call = req[p].call
    BY WriteSettled
  <2> QED BY <2>1, <2>2
<1>2. p \in Unsettled(u, v)' <=>
          /\ req[p].call.target = u /\ v \in req[p].todo /\ v # w
  BY <1>1 DEF Unsettled
<1>3. \A q \in Procs \ {p} : q \in Unsettled(u, v)' <=> q \in Unsettled(u, v)
  BY <1>1 DEF Unsettled
<1> QED
  BY <1>1, <1>2, <1>3 DEF Unsettled

LEMMA OrderlyStep == TypeOK /\ Orderly /\ [Next]_vars => Orderly'
<1> SUFFICES ASSUME TypeOK, Orderly, [Next]_vars PROVE Orderly'
  OBVIOUS
<1>1. ASSUME NEW p \in Procs, \A q \in Procs \ {p} : req'[q] = req[q],
             setting' = setting,
             \/ req'[p] = Idle
             \/ req'[p].call = req[p].call /\ Busy(p),
             req'[p].todo # {} => req'[p].stage = "writes"
      PROVE  Orderly'
  <2>1. ~ Busy(p)' \/ (req'[p].call = req[p].call /\ Busy(p))
    BY <1>1 DEF Busy, Idle
  <2> QED BY <1>1, <2>1 DEF Orderly, OneAtATime, Busy
<1>2. ASSUME NEW p \in Procs, NEW c \in Calls, Submit(p, c) PROVE Orderly'
  <2>1. /\ \A q \in Procs \ {p} : req'[q] = req[q]
        /\ req'[p].call = c /\ req'[p].todo = {} /\ setting' = setting
        /\ setting.exclusive => \A q \in Procs : Busy(q) => req[q].call.target # c.target
    BY <1>2 DEF Submit, Idle, TypeOK
  <2> QED BY <2>1 DEF Orderly, OneAtATime, Busy
<1>3. ASSUME NEW p \in Procs, ReadTarget(p) \/ CountRows(p) PROVE Orderly'
  <2>1. /\ \A q \in Procs \ {p} : req'[q] = req[q]
        /\ req'[p].call = req[p].call /\ Busy(p) /\ setting' = setting
        /\ req'[p].todo # {} => req'[p].stage = "writes"
    BY <1>3 DEF ReadTarget, CountRows, TypeOK, Request, Busy, Orderly
  <2> QED BY <1>1, <2>1
<1>4. ASSUME NEW p \in Procs, req' = [req EXCEPT ![p] = Idle], setting' = setting
      PROVE  Orderly'
  <2>1. req'[p] = Idle /\ (\A q \in Procs \ {p} : req'[q] = req[q]) /\ Idle.todo = {}
    BY <1>4 DEF TypeOK, Idle
  <2> QED BY <1>1, <1>4, <2>1
<1>5. ASSUME NEW p \in Procs, NEW w, Settled(p, w), setting' = setting PROVE Orderly'
  <2>1. /\ \A q \in Procs \ {p} : req'[q] = req[q]
        /\ req[p].stage = "writes"
        /\ \/ req'[p] = Idle
           \/ req'[p].call = req[p].call /\ req'[p].stage = "writes"
    BY <1>5, WriteSettled
  <2>2. Busy(p) /\ Idle.todo = {}
    BY <2>1 DEF Busy, Idle
  <2> QED BY <1>1, <1>5, <2>1, <2>2
<1>6. ASSUME NEW p \in Procs, Refuse(p) PROVE Orderly'
  BY <1>4, <1>6 DEF Refuse
<1>7. ASSUME NEW p \in Procs, CreditMember(p) \/ RecordBonification(p) PROVE Orderly'
  BY <1>5, <1>7 DEF CreditMember, RecordBonification
<1>8. ASSUME NEW p \in Procs, Fail(p) PROVE Orderly'
  BY <1>4, <1>5, <1>8 DEF Fail
<1>9. ASSUME UNCHANGED <<req, setting>> PROVE Orderly'
  BY <1>9 DEF Orderly, OneAtATime, Busy
<1>10. CASE Tick
  BY <1>9, <1>10 DEF Tick
<1>11. CASE UNCHANGED vars
  BY <1>9, <1>11 DEF vars
<1> QED
  BY <1>2, <1>3, <1>6, <1>7, <1>8, <1>10, <1>11 DEF Next, Step

LEMMA OrderlyInit == Init => Orderly
BY DEF Init, Orderly, OneAtATime, Busy, Idle
-----------------------------------------------------------------------------
(***************************************************************************)
(* The balance: each request adds to both sides, or to neither.            *)
(***************************************************************************)
Balance(u) ==
    total[u] + 5 * Cardinality(Unsettled(u, "credit"))
        = 5 * (Cardinality(RowsOf(u)) + Cardinality(Unsettled(u, "record")))

BInv == TypeOK /\ Orderly /\ (~ setting.faults => \A u \in Users : Balance(u))

LEMMA Counted ==
    ASSUME TypeOK, NEW u \in Users
    PROVE  /\ total[u] \in Nat
           /\ IsFiniteSet(RowsOf(u)) /\ Cardinality(RowsOf(u)) \in Nat
           /\ \A w : /\ IsFiniteSet(Unsettled(u, w))
                     /\ Cardinality(Unsettled(u, w)) \in Nat
<1>1. DOMAIN bonifications = 1..Len(bonifications) /\ Len(bonifications) \in Nat
  BY LenProperties DEF TypeOK
<1>2. IsFiniteSet(DOMAIN bonifications)
  BY <1>1, FS_Interval
<1>3. IsFiniteSet(RowsOf(u))
  BY <1>2, FS_Subset DEF RowsOf
<1>4. ASSUME NEW w PROVE IsFiniteSet(Unsettled(u, w))
  BY BonificationAssumption, FS_Subset DEF Unsettled
<1> QED
  BY <1>3, <1>4, FS_CardinalityType DEF TypeOK

(* The row a request writes is the last, and it is one of its member's.    *)
LEMMA RowRecorded ==
    ASSUME TypeOK, NEW p \in Procs, RecordBonification(p)
    PROVE  LET n == Len(bonifications) + 1
           IN  /\ DOMAIN bonifications' = DOMAIN bonifications \cup {n}
               /\ \A i \in DOMAIN bonifications :
                     i \in Nat /\ i < n /\ bonifications'[i] = bonifications[i]
               /\ bonifications'[n] = NewRow(req[p].call)
               /\ n \notin DOMAIN bonifications /\ n \in Nat
<1> DEFINE row == NewRow(req[p].call)
           n   == Len(bonifications) + 1
<1>1. /\ bonifications \in Seq(BonificationRow) /\ row \in BonificationRow
      /\ bonifications' = Append(bonifications, row)
  BY DEF NewRow, BonificationRow, TypeOK, Request, Call, RecordBonification
<1>2. /\ DOMAIN bonifications = 1..Len(bonifications) /\ Len(bonifications) \in Nat
      /\ DOMAIN bonifications' = 1..n
      /\ \A i \in DOMAIN bonifications : bonifications'[i] = bonifications[i]
      /\ bonifications'[n] = row
  <2>1. Append(bonifications, row) \in Seq(BonificationRow)
    BY <1>1, AppendProperties
  <2> QED BY <1>1, <2>1, AppendProperties, LenProperties
<1> HIDE DEF row
<1> QED
  BY <1>2 DEF row

LEMMA BalanceStep == BInv /\ [Next]_vars => BInv'
<1> SUFFICES ASSUME BInv, [Next]_vars PROVE BInv'
  OBVIOUS
<1>0. TypeOK /\ TypeOK' /\ Orderly /\ Orderly'
  BY TypeStep, OrderlyStep DEF BInv
<1>1. ASSUME setting.faults, setting' = setting PROVE BInv'
  BY <1>0, <1>1 DEF BInv
<1>2. ASSUME setting' = setting, total' = total, bonifications' = bonifications,
             \A u \in Users : /\ Unsettled(u, "credit")' = Unsettled(u, "credit")
                              /\ Unsettled(u, "record")' = Unsettled(u, "record")
      PROVE  BInv'
  BY <1>0, <1>2 DEF BInv, Balance, RowsOf
<1>3. ASSUME NEW p \in Procs, UNCHANGED <<total, bonifications, setting>>,
             \A q \in Procs \ {p} : req'[q] = req[q],
             req[p].todo = {}, req'[p].todo = {}
      PROVE  BInv'
  BY <1>2, <1>3 DEF Unsettled
<1>4. ASSUME NEW p \in Procs, NEW c \in Calls, Submit(p, c) PROVE BInv'
  BY <1>0, <1>3, <1>4 DEF Submit, Idle, TypeOK, Orderly, Busy
<1>5. ASSUME NEW p \in Procs, ReadTarget(p) \/ Refuse(p) PROVE BInv'
  <2>1. UNCHANGED <<total, bonifications, setting>> /\ req[p].todo = {}
    BY <1>0, <1>5 DEF ReadTarget, Refuse, Orderly
  <2>2. CASE ReadTarget(p)
    BY <1>0, <1>3, <2>1, <2>2 DEF ReadTarget, TypeOK, Request
  <2>3. CASE Refuse(p)
    BY <1>0, <1>3, <2>1, <2>3 DEF Refuse, TypeOK, Idle
  <2> QED BY <1>5, <2>2, <2>3
<1>6. ASSUME NEW p \in Procs, CountRows(p) PROVE BInv'
  <2>1. /\ UNCHANGED <<total, bonifications, setting>>
        /\ \A q \in Procs \ {p} : req'[q] = req[q]
        /\ req[p].todo = {} /\ req'[p].todo = Writes /\ req'[p].call = req[p].call
    BY <1>0, <1>6 DEF CountRows, TypeOK, Request, Orderly
  <2>2. ASSUME NEW u \in Users, Balance(u) PROVE Balance(u)'
    <3>1. CASE u # req[p].call.target
      <4>1. \A w : Unsettled(u, w)' = Unsettled(u, w)
        BY <2>1, <3>1 DEF Unsettled
      <4> QED BY <2>1, <2>2, <4>1 DEF Balance, RowsOf
    <3>2. CASE u = req[p].call.target
      <4>1. \A w \in Writes : /\ Unsettled(u, w)' = Unsettled(u, w) \cup {p}
                              /\ p \notin Unsettled(u, w)
        BY <2>1, <3>2 DEF Unsettled
      <4>2. \A w \in Writes :
                Cardinality(Unsettled(u, w)') = Cardinality(Unsettled(u, w)) + 1
        BY <1>0, <4>1, Counted, FS_AddElement
      <4>3. RowsOf(u)' = RowsOf(u) /\ total'[u] = total[u]
        BY <2>1 DEF RowsOf
      <4>4. /\ Cardinality(Unsettled(u, "credit")') = Cardinality(Unsettled(u, "credit")) + 1
            /\ Cardinality(Unsettled(u, "record")') = Cardinality(Unsettled(u, "record")) + 1
        BY <4>2 DEF Writes
      <4> QED BY <1>0, <2>2, <4>3, <4>4, Counted DEF Balance
    <3> QED BY <3>1, <3>2
  <2> QED BY <1>0, <2>1, <2>2 DEF BInv
<1>7. ASSUME NEW p \in Procs, CreditMember(p) PROVE BInv'
  <2>1. /\ Settled(p, "credit") /\ setting' = setting
        /\ bonifications' = bonifications
        /\ total' = [total EXCEPT ![req[p].call.target] = @ + 5]
    BY <1>7 DEF CreditMember, Credited
  <2>2. ASSUME NEW u \in Users, Balance(u) PROVE Balance(u)'
    <3>1. Unsettled(u, "record")' = Unsettled(u, "record") /\ RowsOf(u)' = RowsOf(u)
      BY <1>0, <2>1, UnsettledAfter DEF RowsOf
    <3>2. CASE u # req[p].call.target
      <4>1. Unsettled(u, "credit")' = Unsettled(u, "credit") /\ total'[u] = total[u]
        BY <1>0, <2>1, <3>2, UnsettledAfter DEF TypeOK
      <4> QED BY <2>2, <3>1, <4>1 DEF Balance
    <3>3. CASE u = req[p].call.target
      <4>1. /\ Unsettled(u, "credit")' = Unsettled(u, "credit") \ {p}
            /\ p \in Unsettled(u, "credit")
            /\ total'[u] = total[u] + 5
        BY <1>0, <2>1, <3>3, UnsettledAfter DEF TypeOK
      <4>2. Cardinality(Unsettled(u, "credit")') = Cardinality(Unsettled(u, "credit")) - 1
        BY <1>0, <4>1, Counted, FS_RemoveElement
      <4> QED BY <1>0, <2>2, <3>1, <4>1, <4>2, Counted DEF Balance
    <3> QED BY <3>2, <3>3
  <2> QED BY <1>0, <2>1, <2>2 DEF BInv
<1>8. ASSUME NEW p \in Procs, RecordBonification(p) PROVE BInv'
  <2> DEFINE n == Len(bonifications) + 1
  <2>1. /\ Settled(p, "record") /\ setting' = setting /\ total' = total
        /\ NewRow(req[p].call).target = req[p].call.target
    BY <1>8 DEF RecordBonification, NewRow
  <2>2. /\ DOMAIN bonifications' = DOMAIN bonifications \cup {n}
        /\ \A i \in DOMAIN bonifications : bonifications'[i] = bonifications[i]
        /\ bonifications'[n] = NewRow(req[p].call)
        /\ n \notin DOMAIN bonifications
    BY <1>0, <1>8, RowRecorded
  <2> HIDE DEF n
  <2>3. ASSUME NEW u \in Users, Balance(u) PROVE Balance(u)'
    <3>1. Unsettled(u, "credit")' = Unsettled(u, "credit")
      BY <1>0, <2>1, UnsettledAfter
    <3>2. CASE u # req[p].call.target
      <4>1. Unsettled(u, "record")' = Unsettled(u, "record")
        BY <1>0, <2>1, <3>2, UnsettledAfter
      <4>2. RowsOf(u)' = RowsOf(u)
        BY <2>1, <2>2, <3>2 DEF RowsOf
      <4> QED BY <2>1, <2>3, <3>1, <4>1, <4>2 DEF Balance
    <3>3. CASE u = req[p].call.target
      <4>1. /\ Unsettled(u, "record")' = Unsettled(u, "record") \ {p}
            /\ p \in Unsettled(u, "record")
        BY <1>0, <2>1, <3>3, UnsettledAfter
      <4>2. Cardinality(Unsettled(u, "record")') = Cardinality(Unsettled(u, "record")) - 1
        BY <1>0, <4>1, Counted, FS_RemoveElement
      <4>3. RowsOf(u)' = RowsOf(u) \cup {n} /\ n \notin RowsOf(u)
        BY <2>1, <2>2, <3>3 DEF RowsOf
      <4>4. Cardinality(RowsOf(u)') = Cardinality(RowsOf(u)) + 1
        BY <1>0, <4>3, Counted, FS_AddElement
      <4> QED BY <1>0, <2>1, <2>3, <3>1, <4>2, <4>4, Counted DEF Balance
    <3> QED BY <3>2, <3>3
  <2> QED BY <1>0, <2>1, <2>3 DEF BInv
<1>9. ASSUME NEW p \in Procs, Fail(p) PROVE BInv'
  BY <1>1, <1>9 DEF Fail
<1>10. CASE Tick
  BY <1>2, <1>10 DEF Tick, Unsettled
<1>11. CASE UNCHANGED vars
  BY <1>2, <1>11 DEF vars, Unsettled
<1> QED
  BY <1>4, <1>5, <1>6, <1>7, <1>8, <1>9, <1>10, <1>11 DEF Next, Step

(***************************************************************************)
(* No bonus is lost or counted twice: as long as no query fails, the       *)
(* balance of a member and the rows of the table agree up to the writes on *)
(* their way, however many requests credit the member at once.             *)
(***************************************************************************)
THEOREM BonusesAddUp == Spec => []LedgerBalances
<1>1. Init => BInv
  <2> SUFFICES ASSUME Init PROVE BInv
    OBVIOUS
  <2>1. ASSUME NEW u \in Users PROVE Balance(u)
    <3>1. RowsOf(u) = {} /\ total[u] = 0
      BY DEF RowsOf, Init
    <3>2. \A w : Unsettled(u, w) = {}
      BY DEF Unsettled, Init, Idle
    <3> QED BY <3>1, <3>2, FS_EmptySet DEF Balance
  <2> QED BY <2>1, TypeInit, OrderlyInit DEF BInv
<1>2. BInv => LedgerBalances
  BY DEF BInv, LedgerBalances, Balance
<1> QED
  BY <1>1, <1>2, BalanceStep, PTL DEF Spec
-----------------------------------------------------------------------------
(***************************************************************************)
(* A member left to one request at a time.  The request that counts finds  *)
(* nobody else about to write, so what it has checked still holds when its *)
(* row is written; only the clock has moved, towards the right side.       *)
(***************************************************************************)
Ordinary(i) == bonifications[i].reason # "Recrutamento"

DayAlone(u, day) ==
    /\ Cardinality(RowsOfDay(u, day)) <= 3
    /\ now < DayEnds(day) =>
          Cardinality(RowsOfDay(u, day)) + Cardinality(Unsettled(u, "record")) <= 3

Spaced(u, day) ==
    \A i, j \in RowsOfDay(u, day) :
        i < j /\ Ordinary(i) /\ Ordinary(j) =>
            bonifications[j].createdAt - bonifications[i].createdAt >= Cooldown

CooledFor(r) ==
    "record" \in r.todo /\ r.call.reason # "Recrutamento" =>
        \A day \in Nat : now < DayEnds(day) =>
            \A i \in RowsOfDay(r.call.target, day) :
                Ordinary(i) => now - bonifications[i].createdAt >= Cooldown

AloneInv == /\ \A u \in Users, day \in Nat : DayAlone(u, day) /\ Spaced(u, day)
            /\ \A p \in Procs : CooledFor(req[p])

SInv == IInv /\ Orderly /\ (setting.exclusive => AloneInv)

(* Time passes, requests come and go, writes are lost: no row is added and *)
(* no write is sent.                                                       *)
LEMMA AloneQuietly ==
    ASSUME IInv, TypeOK', AloneInv, bonifications' = bonifications,
           now' \in {now, now + 1},
           \A q \in Procs : \/ req'[q].todo = {}
                            \/ /\ req'[q].call = req[q].call
                               /\ req'[q].todo \subseteq req[q].todo
    PROVE  AloneInv'
<1>1. now \in Nat /\ TypeOK
  BY DEF IInv, TypeOK
<1>2. ASSUME NEW day \in Nat
      PROVE  /\ DayEnds(day)' = DayEnds(day)
             /\ now' < DayEnds(day) => now < DayEnds(day)
             /\ \A u : RowsOfDay(u, day)' = RowsOfDay(u, day)
  <2>1. DayEnds(day)' = DayEnds(day) /\ \A u : RowsOfDay(u, day)' = RowsOfDay(u, day)
    BY DEF DayEnds, RowsOfDay, DayBegins
  <2>2. DayEnds(day) \in Nat
    BY DayBounds
  <2> QED BY <1>1, <2>1, <2>2
<1>3. ASSUME NEW u \in Users, NEW day \in Nat PROVE DayAlone(u, day)'
  <2>1. Unsettled(u, "record")' \subseteq Unsettled(u, "record")
    BY DEF Unsettled
  <2>2. /\ Cardinality(Unsettled(u, "record")') <= Cardinality(Unsettled(u, "record"))
        /\ Cardinality(Unsettled(u, "record")') \in Nat
        /\ Cardinality(Unsettled(u, "record")) \in Nat
        /\ Cardinality(RowsOfDay(u, day)) \in Nat
    BY <1>1, <2>1, Finite, FS_Subset, FS_CardinalityType
  <2> QED BY <1>2, <2>2 DEF DayAlone, AloneInv
<1>4. ASSUME NEW u \in Users, NEW day \in Nat PROVE Spaced(u, day)'
  BY <1>2 DEF Spaced, AloneInv, Ordinary
<1>5. ASSUME NEW q \in Procs PROVE CooledFor(req[q])'
  <2>1. SUFFICES ASSUME "record" \in req'[q].todo, req'[q].call.reason # "Recrutamento",
                        NEW day \in Nat, now' < DayEnds(day),
                        NEW i \in RowsOfDay(req'[q].call.target, day), Ordinary(i)
                 PROVE  now' - bonifications[i].createdAt >= Cooldown
    BY <1>2 DEF CooledFor, Ordinary
  <2>2. req'[q].call = req[q].call /\ "record" \in req[q].todo
    BY <2>1
  <2>3. now - bonifications[i].createdAt >= Cooldown
    BY <1>2, <2>1, <2>2 DEF AloneInv, CooledFor
  <2>4. bonifications[i].createdAt \in Nat
    BY <1>1, RowTimes DEF RowsOfDay
  <2> QED BY <1>1, <2>3, <2>4, BonificationAssumption
<1> QED
  BY <1>3, <1>4, <1>5 DEF AloneInv

(* Nobody else is about to write for the member of a request.              *)
LEMMA NobodyElse ==
    ASSUME Orderly, setting.exclusive, NEW p \in Procs, Busy(p)
    PROVE  \A w : Unsettled(req[p].call.target, w) \subseteq {p}
<1>1. ASSUME NEW w, NEW q \in Unsettled(req[p].call.target, w) PROVE q = p
  <2>1. Busy(q) /\ q \in Procs /\ req[q].call.target = req[p].call.target
    BY DEF Unsettled, Orderly, Busy
  <2> QED BY <2>1 DEF Orderly, OneAtATime
<1> QED
  BY <1>1

LEMMA AloneCounts ==
    ASSUME IInv, TypeOK', Orderly, setting.exclusive, AloneInv,
           NEW p \in Procs, CountRows(p)
    PROVE  AloneInv'
<1> DEFINE c == req[p].call
<1>1. /\ now' = now /\ bonifications' = bonifications /\ req[p].stage = "count"
      /\ \A q \in Procs \ {p} : req'[q] = req[q]
      /\ req'[p].call = c /\ req[p].todo = {} /\ TypeOK /\ now \in Nat
      /\ c.target \in Users
  BY DEF CountRows, IInv, TypeOK, Request, Orderly, Call
<1>2. \A u, day : /\ RowsOfDay(u, day)' = RowsOfDay(u, day)
                  /\ DayEnds(day)' = DayEnds(day)
  BY <1>1 DEF RowsOfDay, DayBegins, DayEnds
<1>3. ASSUME NEW u \in Users, NEW day \in Nat PROVE DayAlone(u, day)'
  <2>1. CASE u # c.target
    <3>1. Unsettled(u, "record")' = Unsettled(u, "record")
      BY <1>1, <2>1 DEF Unsettled
    <3> QED BY <1>1, <1>2, <3>1 DEF DayAlone, AloneInv
  <2>2. CASE u = c.target
    <3>1. Unsettled(u, "record")' \subseteq {p}
      <4>1. Unsettled(u, "record") \subseteq {p}
        BY <1>1, <2>2, NobodyElse DEF Busy
      <4> QED BY <1>1, <4>1 DEF Unsettled
    <3>2. /\ Cardinality(Unsettled(u, "record")') <= 1
          /\ Cardinality(Unsettled(u, "record")') \in Nat
      <4>1. IsFiniteSet({p}) /\ Cardinality({p}) = 1
        BY FS_Singleton
      <4> QED BY <3>1, <4>1, FS_Subset, FS_CardinalityType
    <3>3. now < DayEnds(day) => Cardinality(RowsOfDay(u, day)) <= 2
      BY <2>2, CountedWithin
    <3>4. Cardinality(RowsOfDay(u, day)) \in Nat /\ DayAlone(u, day)
      BY <1>1, Finite DEF AloneInv
    <3> QED BY <1>1, <1>2, <3>2, <3>3, <3>4 DEF DayAlone
  <2> QED BY <2>1, <2>2
<1>4. ASSUME NEW u \in Users, NEW day \in Nat PROVE Spaced(u, day)'
  BY <1>1, <1>2 DEF Spaced, AloneInv, Ordinary
<1>5. CooledFor(req[p])'
  <2>1. SUFFICES ASSUME c.reason # "Recrutamento",
                        NEW day \in Nat, now < DayEnds(day),
                        NEW i \in RowsOfDay(c.target, day), Ordinary(i)
                 PROVE  now - bonifications[i].createdAt >= Cooldown
    BY <1>1, <1>2 DEF CooledFor, Ordinary
  <2>2. i \in Cooling(c.target, req[p].today)
    BY <1>1, <2>1, SeesTheDay DEF Cooling, Ordinary
  <2> QED BY <2>1, <2>2 DEF CountRows, Cooled
<1>6. ASSUME NEW q \in Procs \ {p} PROVE CooledFor(req[q])'
  <2>1. CooledFor(req[q]) /\ req'[q] = req[q]
    BY <1>1 DEF AloneInv
  <2> QED BY <1>1, <1>2, <2>1 DEF CooledFor, Ordinary
<1> QED
  BY <1>3, <1>4, <1>5, <1>6 DEF AloneInv

LEMMA AloneRecords ==
    ASSUME IInv, TypeOK', Orderly, setting.exclusive, AloneInv,
           NEW p \in Procs, RecordBonification(p)
    PROVE  AloneInv'
<1> DEFINE n   == Len(bonifications) + 1
           c   == req[p].call
           row == NewRow(c)
<1>1. /\ Settled(p, "record") /\ now' = now /\ TypeOK /\ now \in Nat
      /\ row.target = c.target /\ row.reason = c.reason /\ row.createdAt = now
  BY DEF RecordBonification, NewRow, IInv, TypeOK
<1>2. /\ DOMAIN bonifications' = DOMAIN bonifications \cup {n}
      /\ \A i \in DOMAIN bonifications :
            i \in Nat /\ i < n /\ bonifications'[i] = bonifications[i]
      /\ bonifications'[n] = row
      /\ n \notin DOMAIN bonifications /\ n \in Nat
  BY <1>1, RowRecorded
<1> HIDE DEF n, row
<1>3. \A u : /\ Unsettled(u, "record")' = IF u = c.target
                                          THEN Unsettled(u, "record") \ {p}
                                          ELSE Unsettled(u, "record")
             /\ p \in Unsettled(c.target, "record")
  BY <1>1, UnsettledAfter
<1>4. ASSUME NEW u \in Users, NEW day \in Nat
      PROVE  /\ RowsOfDay(u, day)' = RowsOfDay(u, day) \cup
                    (IF u = c.target /\ now >= DayBegins(day) /\ now < DayEnds(day)
                     THEN {n} ELSE {})
             /\ n \notin RowsOfDay(u, day)
  BY <1>1, <1>2 DEF RowsOfDay, DayBegins, DayEnds
<1>5. ASSUME NEW u \in Users, NEW day \in Nat PROVE DayAlone(u, day)'
  <2>1. DayAlone(u, day) /\ DayEnds(day)' = DayEnds(day)
    BY DEF AloneInv, DayEnds
  <2>2. /\ Cardinality(RowsOfDay(u, day)) \in Nat /\ IsFiniteSet(RowsOfDay(u, day))
        /\ Cardinality(Unsettled(u, "record")) \in Nat
        /\ IsFiniteSet(Unsettled(u, "record"))
    BY <1>1, Finite
  <2>3. CASE u # c.target
    BY <1>1, <1>3, <1>4, <2>1, <2>3 DEF DayAlone
  <2>4. CASE u = c.target
    <3>1. Cardinality(Unsettled(u, "record")') = Cardinality(Unsettled(u, "record")) - 1
      BY <1>3, <2>2, <2>4, FS_RemoveElement
    <3>2. /\ Cardinality(RowsOfDay(u, day)') \in
                 {Cardinality(RowsOfDay(u, day)), Cardinality(RowsOfDay(u, day)) + 1}
          /\ Cardinality(RowsOfDay(u, day)') # Cardinality(RowsOfDay(u, day)) =>
                 now < DayEnds(day)
      <4>1. CASE now >= DayBegins(day) /\ now < DayEnds(day)
        <5>1. /\ RowsOfDay(u, day)' = RowsOfDay(u, day) \cup {n}
              /\ n \notin RowsOfDay(u, day)
          BY <1>4, <2>4, <4>1
        <5>2. Cardinality(RowsOfDay(u, day)') = Cardinality(RowsOfDay(u, day)) + 1
          BY <2>2, <5>1, FS_AddElement
        <5> QED BY <4>1, <5>2
      <4>2. CASE ~ (now >= DayBegins(day) /\ now < DayEnds(day))
        BY <1>4, <2>4, <4>2
      <4> QED BY <4>1, <4>2
    <3>3. Cardinality(Unsettled(u, "record")) >= 1
      BY <1>3, <2>2, <2>4, FS_EmptySet
    <3> QED BY <1>1, <2>1, <2>2, <3>1, <3>2, <3>3 DEF DayAlone
  <2> QED BY <2>3, <2>4
<1>6. ASSUME NEW u \in Users, NEW day \in Nat PROVE Spaced(u, day)'
  <2>1. SUFFICES ASSUME NEW i \in RowsOfDay(u, day)', NEW j \in RowsOfDay(u, day)', i < j,
                        bonifications'[i].reason # "Recrutamento",
                        bonifications'[j].reason # "Recrutamento"
                 PROVE  bonifications'[j].createdAt - bonifications'[i].createdAt >= Cooldown
    BY DEF Spaced, Ordinary
  <2>2. i \in DOMAIN bonifications' /\ j \in DOMAIN bonifications'
    BY DEF RowsOfDay
  <2>3. i # n
    BY <1>2, <2>1, <2>2
  <2>4. i \in RowsOfDay(u, day) /\ bonifications'[i] = bonifications[i] /\ Ordinary(i)
    BY <1>2, <1>4, <2>1, <2>2, <2>3 DEF Ordinary
  <2>5. CASE j # n
    <3>1. j \in RowsOfDay(u, day) /\ bonifications'[j] = bonifications[j] /\ Ordinary(j)
      BY <1>2, <1>4, <2>1, <2>2, <2>5 DEF Ordinary
    <3> QED BY <2>1, <2>4, <3>1 DEF AloneInv, Spaced
  <2>6. CASE j = n
    <3>1. u = c.target /\ now < DayEnds(day) /\ c.reason # "Recrutamento"
      BY <1>1, <1>2, <1>4, <2>1, <2>6
    <3>2. "record" \in req[p].todo
      BY <1>1 DEF Settled
    <3>3. now - bonifications[i].createdAt >= Cooldown
      BY <2>4, <3>1, <3>2 DEF AloneInv, CooledFor
    <3> QED BY <1>1, <1>2, <2>4, <2>6, <3>3
  <2> QED BY <2>5, <2>6
<1>7. ASSUME NEW q \in Procs PROVE CooledFor(req[q])'
  <2>1. CASE q = p
    BY <1>1, <2>1, WriteSettled DEF CooledFor
  <2>2. CASE q # p
    <3>1. req'[q] = req[q] /\ CooledFor(req[q])
      BY <1>1, <2>2, WriteSettled DEF AloneInv
    <3>2. SUFFICES ASSUME "record" \in req[q].todo, req[q].call.reason # "Recrutamento",
                          NEW day \in Nat, now < DayEnds(day),
                          NEW v, v = req[q].call.target, NEW i \in RowsOfDay(v, day)',
                          bonifications'[i].reason # "Recrutamento"
                   PROVE  now - bonifications'[i].createdAt >= Cooldown
      BY <1>1, <3>1 DEF CooledFor, Ordinary, DayEnds
    <3>3. v # c.target /\ v \in Users
      BY <1>1, <2>2, <3>2 DEF Orderly, OneAtATime, Busy, Settled, TypeOK, Request, Call
    <3>4. i \in RowsOfDay(v, day) /\ bonifications'[i] = bonifications[i]
      BY <1>2, <1>4, <3>2, <3>3 DEF RowsOfDay
    <3> QED BY <3>1, <3>2, <3>4 DEF CooledFor, Ordinary
  <2> QED BY <2>1, <2>2
<1> QED
  BY <1>5, <1>6, <1>7 DEF AloneInv

LEMMA AloneStep == SInv /\ [Next]_vars => SInv'
<1> SUFFICES ASSUME SInv, [Next]_vars PROVE SInv'
  OBVIOUS
<1>0. IInv /\ IInv' /\ TypeOK /\ TypeOK' /\ Orderly /\ Orderly'
  BY InvariantStep, TypeStep, OrderlyStep DEF SInv, IInv
<1>1. setting' = setting
  BY DEF Next, Step, Submit, ReadTarget, CountRows, Refuse, CreditMember,
         RecordBonification, Fail, Tick, vars
<1>2. SUFFICES ASSUME setting.exclusive PROVE AloneInv'
  BY <1>0, <1>1 DEF SInv
<1>3. AloneInv
  BY <1>2 DEF SInv
<1>4. ASSUME NEW p \in Procs, \A q \in Procs \ {p} : req'[q] = req[q],
             UNCHANGED <<bonifications, now>>,
             \/ req'[p].todo = {}
             \/ req'[p].call = req[p].call /\ req'[p].todo \subseteq req[p].todo
      PROVE  AloneInv'
  BY <1>0, <1>3, <1>4, AloneQuietly
<1>5. ASSUME NEW p \in Procs, NEW c \in Calls, Submit(p, c) PROVE AloneInv'
  BY <1>0, <1>4, <1>5 DEF Submit, Idle, TypeOK
<1>6. ASSUME NEW p \in Procs, ReadTarget(p) PROVE AloneInv'
  BY <1>0, <1>4, <1>6 DEF ReadTarget, TypeOK, Request
<1>7. ASSUME NEW p \in Procs, req' = [req EXCEPT ![p] = Idle],
             UNCHANGED <<bonifications, now>>
      PROVE  AloneInv'
  BY <1>0, <1>4, <1>7 DEF Idle, TypeOK
<1>8. ASSUME NEW p \in Procs, NEW w, Settled(p, w), UNCHANGED <<bonifications, now>>
      PROVE  AloneInv'
  <2>1. Idle.todo = {}
    BY DEF Idle
  <2>2. /\ \A q \in Procs \ {p} : req'[q] = req[q]
        /\ req'[p].todo = req[p].todo \ {w}
        /\ req'[p] = Idle \/ req'[p].call = req[p].call
    BY <1>0, <1>8, WriteSettled
  <2> QED BY <1>4, <1>8, <2>1, <2>2
<1>9. ASSUME NEW p \in Procs, CountRows(p) PROVE AloneInv'
  BY <1>0, <1>2, <1>3, <1>9, AloneCounts
<1>10. ASSUME NEW p \in Procs, RecordBonification(p) PROVE AloneInv'
  BY <1>0, <1>2, <1>3, <1>10, AloneRecords
<1>11. ASSUME NEW p \in Procs, Refuse(p) PROVE AloneInv'
  BY <1>7, <1>11 DEF Refuse
<1>12. ASSUME NEW p \in Procs, CreditMember(p) PROVE AloneInv'
  BY <1>8, <1>12 DEF CreditMember
<1>13. ASSUME NEW p \in Procs, Fail(p) PROVE AloneInv'
  BY <1>7, <1>8, <1>13 DEF Fail
<1>14. CASE Tick
  BY <1>0, <1>3, <1>14, AloneQuietly DEF Tick
<1>15. CASE UNCHANGED vars
  BY <1>0, <1>3, <1>15, AloneQuietly DEF vars
<1> QED
  BY <1>5, <1>6, <1>9, <1>10, <1>11, <1>12, <1>13, <1>14, <1>15 DEF Next, Step

LEMMA AloneInit == Init => SInv
<1> SUFFICES ASSUME Init PROVE SInv
  OBVIOUS
<1>1. ASSUME NEW u \in Users, NEW day \in Nat PROVE DayAlone(u, day) /\ Spaced(u, day)
  <2>1. RowsOfDay(u, day) = {}
    BY DEF RowsOfDay, Init
  <2>2. Unsettled(u, "record") = {}
    BY DEF Unsettled, Init, Idle
  <2> QED BY <2>1, <2>2, FS_EmptySet DEF DayAlone, Spaced
<1>2. \A p \in Procs : CooledFor(req[p])
  BY DEF Init, Idle, CooledFor
<1> QED
  BY <1>1, <1>2, InvariantInit, OrderlyInit DEF SInv, AloneInv

(***************************************************************************)
(* A member left to one request at a time is given at most three bonuses   *)
(* between a dawn and the midnight after it, even if queries fail.         *)
(***************************************************************************)
THEOREM ThreePerDayAlone == Spec => []AtMostThreePerDay
<1>1. SInv => AtMostThreePerDay
  <2>1. Days \subseteq Nat
    BY DEF Days
  <2> QED BY <2>1 DEF SInv, AloneInv, DayAlone, AtMostThreePerDay, AtMostThreeInAnyCase
<1> QED
  BY <1>1, AloneInit, AloneStep, PTL DEF Spec

(***************************************************************************)
(* And two of them that are not recruitments are half an hour apart.       *)
(***************************************************************************)
THEOREM BonusesHalfHourApart == Spec => []HalfHourApart
<1>1. SInv => HalfHourApart
  <2>1. Days \subseteq Nat
    BY DEF Days
  <2> QED BY <2>1 DEF SInv, AloneInv, Spaced, Ordinary, HalfHourApart
<1> QED
  BY <1>1, AloneInit, AloneStep, PTL DEF Spec
=============================================================================
