---------------------- MODULE BackofficeHistoryProofs ----------------------
(***************************************************************************)
(* Proofs about the history of the back office: that it keeps its shape    *)
(* when a deletion takes rows from its middle, that a change of nick loses *)
(* none of it, that no handler which has begun to write stops half way,    *)
(* and that the courses of a member are those the history tells of.        *)
(***************************************************************************)
EXTENDS BackofficeProofs

(***************************************************************************)
(* The history.  What is left of it when the rows about a member are       *)
(* deleted: as many rows as there are about others, every one of them      *)
(* taken from the history.                                                 *)
(***************************************************************************)
KeptIn(rows, id) == {i \in DOMAIN rows : rows[i].target # id}

LEMMA KeptFinite ==
    ASSUME NEW S, NEW rows \in Seq(S), NEW id
    PROVE  /\ Len(rows) \in Nat /\ DOMAIN rows = 1..Len(rows)
           /\ IsFiniteSet(KeptIn(rows, id)) /\ Cardinality(KeptIn(rows, id)) \in Nat
           /\ IsFiniteSet(DOMAIN rows) /\ Cardinality(DOMAIN rows) = Len(rows)
           /\ Cardinality(KeptIn(rows, id)) <= Len(rows)
<1>1. Len(rows) \in Nat /\ DOMAIN rows = 1..Len(rows)
  BY LenProperties
<1>2. /\ IsFiniteSet(1..Len(rows))
      /\ Cardinality(1..Len(rows)) = IF 1 > Len(rows) THEN 0 ELSE Len(rows) - 1 + 1
  BY <1>1, FS_Interval
<1>3. IsFiniteSet(DOMAIN rows) /\ Cardinality(DOMAIN rows) = Len(rows)
  BY <1>1, <1>2
<1>4. KeptIn(rows, id) \in SUBSET DOMAIN rows
  BY DEF KeptIn
<1>5. /\ IsFiniteSet(KeptIn(rows, id))
      /\ Cardinality(KeptIn(rows, id)) <= Cardinality(DOMAIN rows)
  BY <1>3, <1>4, FS_Subset
<1> QED BY <1>1, <1>3, <1>5, FS_CardinalityType

(* The places up to one of the places of a finite set of numbers.          *)
UpTo(K, i) == {j \in K : j <= i}

LEMMA RankOnto ==
    ASSUME NEW K \in SUBSET Nat, IsFiniteSet(K), NEW k \in 1..Cardinality(K)
    PROVE  \E i \in K : Cardinality(UpTo(K, i)) = k
<1> DEFINE n == Cardinality(K)
           T == 1..n
           rank == [i \in K |-> Cardinality(UpTo(K, i))]
<1>1. n \in Nat
  BY FS_CardinalityType
<1>2. \A i \in K : UpTo(K, i) \in SUBSET K /\ i \in UpTo(K, i)
  BY DEF UpTo
<1>3. ASSUME NEW i \in K
      PROVE  IsFiniteSet(UpTo(K, i)) /\ Cardinality(UpTo(K, i)) \in T
  <2>1. IsFiniteSet(UpTo(K, i)) /\ Cardinality(UpTo(K, i)) <= n
    BY <1>2, FS_Subset
  <2>2. Cardinality(UpTo(K, i)) \in Nat
    BY <2>1, FS_CardinalityType
  <2>3. Cardinality(UpTo(K, i)) # 0
    BY <1>2, <2>1, FS_EmptySet
  <2> QED BY <1>1, <2>1, <2>2, <2>3
<1>4. ASSUME NEW i \in K, NEW j \in K, i < j
      PROVE  Cardinality(UpTo(K, i)) # Cardinality(UpTo(K, j))
  <2>1. i \in Nat /\ j \in Nat
    OBVIOUS
  <2>2. (\A x \in K : x <= i => x <= j) /\ j <= j /\ ~ j <= i
    BY <1>4, <2>1
  <2>3. UpTo(K, i) \in SUBSET UpTo(K, j) /\ j \in UpTo(K, j) /\ j \notin UpTo(K, i)
    BY <2>2 DEF UpTo
  <2> QED BY <1>3, <2>3, FS_Subset
<1>5. \A i, j \in K : Cardinality(UpTo(K, i)) = Cardinality(UpTo(K, j)) => i = j
  <2>1. \A i, j \in K : i < j \/ j < i \/ i = j
    OBVIOUS
  <2> QED BY <1>4, <2>1
<1>6. rank \in [K -> T] /\ \A i \in K : rank[i] = Cardinality(UpTo(K, i))
  BY <1>3
<1> HIDE DEF rank
<1>7. rank \in Injection(K, T)
  BY <1>5, <1>6 DEF Injection, IsInjective
<1>8. IsFiniteSet(T) /\ Cardinality(T) = n
  <2>1. IsFiniteSet(1..n) /\ Cardinality(1..n) = IF 1 > n THEN 0 ELSE n - 1 + 1
    BY <1>1, FS_Interval
  <2> QED BY <1>1, <2>1
<1>9. Cardinality(K) = Cardinality(T)
  BY <1>8 DEF n
<1> HIDE DEF n, T
<1>10. rank \in Surjection(K, T)
  BY <1>7, <1>8, <1>9, FS_Injection
<1>11. k \in T
  BY DEF T, n
<1> QED BY <1>6, <1>10, <1>11 DEF Surjection

LEMMA WithoutRows ==
    ASSUME NEW S, NEW rows \in Seq(S), NEW id
    PROVE  /\ Without(rows, id) \in Seq(S)
           /\ Len(Without(rows, id)) = Cardinality(KeptIn(rows, id))
           /\ \A k \in DOMAIN Without(rows, id) :
                 \E i \in DOMAIN rows :
                    rows[i].target # id /\ Without(rows, id)[k] = rows[i]
<1> DEFINE K == KeptIn(rows, id)
           n == Cardinality(K)
           pick(k) == CHOOSE i \in K : Cardinality(UpTo(K, i)) = k
<1>1. /\ DOMAIN rows = 1..Len(rows) /\ IsFiniteSet(K) /\ n \in Nat /\ Len(rows) \in Nat
      /\ \A i \in DOMAIN rows : rows[i] \in S
  BY KeptFinite, ElementOfSeq
<1>2. Without(rows, id) = [k \in 1..n |-> rows[pick(k)]]
  BY DEF Without, KeptIn, UpTo
<1>3. K \in SUBSET Nat
  BY <1>1 DEF KeptIn
<1>4. ASSUME NEW k \in 1..n PROVE pick(k) \in K
  <2>1. \E i \in K : Cardinality(UpTo(K, i)) = k
    BY <1>1, <1>3, RankOnto
  <2> QED BY <2>1
<1>5. \A i \in K : i \in DOMAIN rows /\ rows[i].target # id
  BY DEF KeptIn
<1> HIDE DEF K, n, pick
<1>6. \A k \in 1..n : rows[pick(k)] \in S
  BY <1>1, <1>4, <1>5
<1>7. Without(rows, id) \in Seq(S)
  BY <1>1, <1>2, <1>6
<1>8. DOMAIN Without(rows, id) = 1..n /\ Len(Without(rows, id)) = n
  BY <1>1, <1>2, <1>7, LenProperties
<1> QED BY <1>2, <1>4, <1>5, <1>7, <1>8 DEF n, K

(* Nothing is deleted where there is nothing to delete.                    *)
LEMMA WithoutNone ==
    ASSUME NEW S, NEW rows \in Seq(S), NEW id, \A i \in DOMAIN rows : rows[i].target # id
    PROVE  Without(rows, id) = rows
<1> DEFINE K == KeptIn(rows, id)
           n == Cardinality(K)
           pick(k) == CHOOSE i \in K : Cardinality(UpTo(K, i)) = k
<1>1. /\ Len(rows) \in Nat /\ DOMAIN rows = 1..Len(rows)
      /\ Cardinality(DOMAIN rows) = Len(rows)
  BY KeptFinite
<1>2. Without(rows, id) = [k \in 1..n |-> rows[pick(k)]]
  BY DEF Without, KeptIn, UpTo
<1>3. K = 1..Len(rows) /\ n = Len(rows)
  <2>1. K = DOMAIN rows
    BY DEF KeptIn
  <2> QED BY <1>1, <2>1
<1> HIDE DEF K, n
<1>4. ASSUME NEW i \in K PROVE Cardinality(UpTo(K, i)) = i
  <2>1. i \in Nat /\ i \in Int /\ ~ 1 > i
    BY <1>1, <1>3
  <2>2. UpTo(K, i) = 1..i
    BY <1>1, <1>3, <2>1 DEF UpTo
  <2>3. Cardinality(1..i) = IF 1 > i THEN 0 ELSE i - 1 + 1
    BY <2>1, FS_Interval
  <2> QED BY <2>1, <2>2, <2>3
<1>5. ASSUME NEW k \in 1..n PROVE pick(k) = k
  <2>1. k \in K /\ Cardinality(UpTo(K, k)) = k
    BY <1>3, <1>4
  <2>2. pick(k) \in K /\ Cardinality(UpTo(K, pick(k))) = k
    BY <2>1
  <2> QED BY <1>4, <2>2
<1> HIDE DEF pick
<1>6. rows = [k \in 1..n |-> rows[k]]
  BY <1>1, <1>3
<1> QED BY <1>2, <1>5, <1>6

(* The steps that write the history.                                       *)
LEMMA HistoryWriters ==
    ASSUME IInv, NEW p \in Procs, Step(p)
    PROVE  \/ UNCHANGED history
           \/ LogDismissal(p) \/ LogContract(p) \/ LogRename(p) \/ LogApproved(p)
           \/ MoveHistory(p) \/ DeleteMember(p) \/ LogRank(p)
<1> USE DEF tables, people
<1>1. CASE DepartamentStep(p)
  BY <1>1
     DEF DepartamentStep, FindForRole, ClearRoles, FindForRemoval, RemoveRole,
         CheckApproved, FindToEnlist, Enlist, CollectApproved, LogApproved, RecordClass,
         CreateRole, GiveCourses
<1>2. CASE AccountStep(p)
  BY <1>2
     DEF AccountStep, FindToFire, Dismiss, LogDismissal, TakePermissions, TakePosts,
         FindToContract, ContractWrite, LogContract, FindPrevious, FindNew, MoveHistory,
         DeleteMember, Rename, LogRename, CreateSession, FindToUnlock, ReadSession, Unlock
<1>3. CASE CapeStep(p)
  BY <1>3 DEF CapeStep, FindCape, PutPicture, CreateCape, FindToGive, GiveCape, WearCape
<1>4. CASE CareerStep(p)
  BY <1>4, RankEffects
<1> QED BY <1>1, <1>2, <1>3, <1>4 DEF Step

LEMMA HistoryQuiet ==
    ASSUME [Next]_vars
    PROVE  UNCHANGED history \/ \E p \in Procs : Step(p)
<1>1. ASSUME NEW p \in Procs, Submit(p) PROVE UNCHANGED history
  BY <1>1, SubmitBegins DEF Begin, tables, people
<1>2. ASSUME NEW p \in Procs, FailQuery(p) \/ LoseWrite(p) PROVE UNCHANGED history
  BY <1>2 DEF FailQuery, LoseWrite, tables, people
<1> QED BY <1>1, <1>2 DEF Next, Tick, vars, tables, people

(* A log of some rows more, about members and of the columns' types.       *)
Rows(ids, about) == [i \in DOMAIN ids |-> LogRow("APPROVATION", ids[i], about)]

HistoryInv ==
    /\ history \in Seq(HistoryRow)
    /\ \A i \in DOMAIN history : history[i].target \in DOMAIN member

LEMMA LogRowType ==
    ASSUME NEW type \in {"CONTRACTING", "FIRE", "APPROVATION", "CHANGE", "PROMOTION",
                         "DEMOTION"},
           NEW id \in Nat,
           NEW about \in RoleNames \cup CourseNames \cup {NoRole}
    PROVE  /\ LogRow(type, id, about) \in HistoryRow
           /\ LogRow(type, id, about).target = id
BY DEF LogRow, HistoryRow

LEMMA LoggedKeeps ==
    ASSUME HistoryInv, NEW id \in Nat,
           NEW type \in {"CONTRACTING", "FIRE", "CHANGE", "PROMOTION", "DEMOTION"},
           NEW about \in RoleNames \cup CourseNames \cup {NoRole},
           history' = Logged(type, id, about), UNCHANGED member
    PROVE  HistoryInv'
<1>1. CASE id \notin DOMAIN member
  BY <1>1 DEF Logged, HistoryInv
<1>2. CASE id \in DOMAIN member
  <2>1. PICK row : row = LogRow(type, id, about)
    OBVIOUS
  <2>2. row \in HistoryRow /\ row.target = id
    BY <2>1, LogRowType
  <2>3. history \in Seq(HistoryRow) /\ history' = Append(history, row)
    BY <1>2, <2>1 DEF Logged, HistoryInv
  <2>4. /\ history' \in Seq(HistoryRow) /\ Len(history') = Len(history) + 1
        /\ \A i \in 1..Len(history) : history'[i] = history[i]
        /\ history'[Len(history) + 1] = row
    BY <2>2, <2>3, AppendProperties
  <2>5. DOMAIN history' = 1..(Len(history) + 1) /\ DOMAIN history = 1..Len(history)
        /\ Len(history) \in Nat
    BY <2>3, <2>4, LenProperties
  <2>6. \A i \in DOMAIN history' : i \in DOMAIN history \/ i = Len(history) + 1
    BY <2>5
  <2> QED BY <1>2, <2>2, <2>4, <2>5, <2>6 DEF HistoryInv
<1> QED BY <1>1, <1>2

LEMMA MovedRows ==
    ASSUME HistoryInv, NEW from, NEW to \in Nat
    PROVE  /\ Moved(from, to) \in Seq(HistoryRow)
           /\ Len(Moved(from, to)) = Len(history)
           /\ DOMAIN Moved(from, to) = DOMAIN history
           /\ \A i \in DOMAIN history :
                 /\ Moved(from, to)[i].type = history[i].type
                 /\ Moved(from, to)[i].about = history[i].about
                 /\ Moved(from, to)[i].target =
                       IF history[i].target = from THEN to ELSE history[i].target
<1>1. /\ DOMAIN history = 1..Len(history) /\ Len(history) \in Nat
      /\ \A i \in DOMAIN history : history[i] \in HistoryRow
  BY LenProperties, ElementOfSeq DEF HistoryInv
<1>2. ASSUME NEW i \in DOMAIN history
      PROVE  /\ Moved(from, to)[i] \in HistoryRow
             /\ Moved(from, to)[i].type = history[i].type
             /\ Moved(from, to)[i].about = history[i].about
             /\ Moved(from, to)[i].target =
                   IF history[i].target = from THEN to ELSE history[i].target
  <2>1. Moved(from, to)[i] =
           IF history[i].target = from THEN [history[i] EXCEPT !.target = to] ELSE history[i]
    BY DEF Moved
  <2>2. history[i] \in HistoryRow
    BY <1>1
  <2> QED BY <2>1, <2>2 DEF HistoryRow
<1>3. DOMAIN Moved(from, to) = 1..Len(history)
  BY <1>1 DEF Moved
<1>4. Moved(from, to) \in [1..Len(history) -> HistoryRow]
  BY <1>1, <1>2, <1>3 DEF Moved
<1>5. Moved(from, to) \in Seq(HistoryRow)
  BY <1>1, <1>4
<1>6. Len(Moved(from, to)) = Len(history)
  BY <1>1, <1>3, <1>5, LenProperties
<1> QED BY <1>1, <1>2, <1>3, <1>5, <1>6

LEMMA ApprovedRows ==
    ASSUME HistoryInv, NEW ids \in Seq(Nat), NEW about \in CourseNames
    PROVE  /\ history \o Rows(ids, about) \in Seq(HistoryRow)
           /\ Len(history \o Rows(ids, about)) = Len(history) + Len(ids)
           /\ \A i \in 1..Len(history) : (history \o Rows(ids, about))[i] = history[i]
           /\ \A k \in 1..Len(ids) :
                 (history \o Rows(ids, about))[Len(history) + k]
                    = LogRow("APPROVATION", ids[k], about)
           /\ \A i \in 1..(Len(history) + Len(ids)) :
                 i \in 1..Len(history) \/ \E k \in 1..Len(ids) : i = Len(history) + k
           /\ DOMAIN ids = 1..Len(ids) /\ Len(ids) \in Nat /\ Len(history) \in Nat
           /\ DOMAIN history = 1..Len(history)
<1> DEFINE new == Rows(ids, about)
<1>1. /\ DOMAIN ids = 1..Len(ids) /\ Len(ids) \in Nat
      /\ \A k \in DOMAIN ids : ids[k] \in Nat
  BY LenProperties, ElementOfSeq
<1>2. \A k \in DOMAIN ids : /\ new[k] = LogRow("APPROVATION", ids[k], about)
                            /\ LogRow("APPROVATION", ids[k], about) \in HistoryRow
  BY <1>1, LogRowType DEF Rows
<1>3. new \in [1..Len(ids) -> HistoryRow]
  BY <1>1, <1>2 DEF Rows
<1> HIDE DEF new
<1>4. new \in Seq(HistoryRow) /\ Len(new) = Len(ids)
  BY <1>1, <1>3
<1>5. history \in Seq(HistoryRow) /\ DOMAIN history = 1..Len(history) /\ Len(history) \in Nat
  BY LenProperties DEF HistoryInv
<1>6. /\ history \o new \in Seq(HistoryRow)
      /\ Len(history \o new) = Len(history) + Len(ids)
      /\ \A i \in 1..(Len(history) + Len(ids)) :
            (history \o new)[i] = IF i <= Len(history) THEN history[i]
                                                       ELSE new[i - Len(history)]
  <2>1. /\ history \o new \in Seq(HistoryRow)
        /\ Len(history \o new) = Len(history) + Len(new)
        /\ \A i \in 1..(Len(history) + Len(new)) :
              (history \o new)[i] = IF i <= Len(history) THEN history[i]
                                                         ELSE new[i - Len(history)]
    BY <1>4, <1>5, ConcatProperties, Zenon
  <2> QED BY <1>4, <2>1, Zenon
<1>7. \A i \in 1..Len(history) : (history \o new)[i] = history[i]
  BY <1>1, <1>5, <1>6
<1>8. ASSUME NEW k \in 1..Len(ids)
      PROVE  (history \o new)[Len(history) + k] = LogRow("APPROVATION", ids[k], about)
  <2>1. /\ Len(history) + k \in 1..(Len(history) + Len(ids))
        /\ ~ Len(history) + k <= Len(history) /\ Len(history) + k - Len(history) = k
    BY <1>1, <1>5, <1>8
  <2> QED BY <1>1, <1>2, <1>6, <2>1
<1>9. ASSUME NEW i \in 1..(Len(history) + Len(ids)), i \notin 1..Len(history)
      PROVE  \E k \in 1..Len(ids) : i = Len(history) + k
  <2>1. /\ i - Len(history) \in 1..Len(ids)
        /\ i = Len(history) + (i - Len(history))
    BY <1>1, <1>5, <1>9
  <2> QED BY <2>1
<1> QED BY <1>1, <1>5, <1>6, <1>7, <1>8, <1>9 DEF new

LEMMA MembersStay ==
    ASSUME IInv, NEW p \in Procs, Step(p), ~ DeleteMember(p)
    PROVE  DOMAIN member \subseteq DOMAIN member'
<1>1. UNCHANGED member => DOMAIN member \subseteq DOMAIN member'
  OBVIOUS
<1>2. \A id : Rewrites(id) => DOMAIN member \subseteq DOMAIN member'
  BY DEF Rewrites
<1>3. \A nick : Joins(nick) => DOMAIN member \subseteq DOMAIN member'
  BY DEF Joins
<1>4. \A id, nick : Renames(id, nick) => DOMAIN member \subseteq DOMAIN member'
  BY DEF Renames
<1> QED BY <1>1, <1>2, <1>3, <1>4, AccountRows, OtherRows, RankEffects DEF Step

LEMMA HistoryInvNext ==
    ASSUME IInv, HistoryInv, [Next]_vars
    PROVE  HistoryInv'
<1>1. CASE UNCHANGED history /\ DOMAIN member \subseteq DOMAIN member'
  BY <1>1 DEF HistoryInv
<1>2. ASSUME NEW p \in Procs, Step(p) PROVE HistoryInv'
  <2>0. /\ req[p] \in Request /\ RequestSound(req[p])
        /\ req[p].target \in Nat /\ req[p].other \in Nat
    BY DEF IInv, TablesTyped, RequestsSound, Request
  <2>1. CASE LogDismissal(p)
    <3>1. "Recruta" \in RoleNames
      BY RolesAssumption
    <3> QED BY <2>0, <2>1, <3>1, LoggedKeeps DEF LogDismissal
  <2>2. CASE LogContract(p)
    <3>1. Role(p) \in RoleNames
      BY <2>0, <2>2 DEF LogContract, At, RequestSound, HireStages, Role
    <3> QED BY <2>0, <2>2, <3>1, LoggedKeeps DEF LogContract
  <2>3. CASE LogRename(p)
    BY <2>0, <2>3, LoggedKeeps DEF LogRename
  <2>4. CASE LogApproved(p)
    <3> DEFINE ids == req[p].ids
    <3>1. ids \in Seq(Nat) /\ About(p) \in CourseNames
      <4>1. req[p].stage \in ClassStages
        BY <2>4 DEF LogApproved, At, ClassStages
      <4> QED BY <4>1, ClassRequest DEF Request
    <3>2. UNCHANGED member
      BY <2>4 DEF LogApproved
    <3>3. CASE UNCHANGED history
      BY <1>1, <3>2, <3>3
    <3>4. CASE /\ Range(ids) \subseteq DOMAIN member
               /\ history' = history \o Rows(ids, About(p))
      <4>1. PICK new : new = history \o Rows(ids, About(p))
        OBVIOUS
      <4>2. /\ new \in Seq(HistoryRow) /\ Len(new) = Len(history) + Len(ids)
            /\ \A i \in 1..Len(history) : new[i] = history[i]
            /\ \A k \in 1..Len(ids) :
                  new[Len(history) + k] = LogRow("APPROVATION", ids[k], About(p))
            /\ \A i \in 1..(Len(history) + Len(ids)) :
                  i \in 1..Len(history) \/ \E k \in 1..Len(ids) : i = Len(history) + k
            /\ DOMAIN ids = 1..Len(ids) /\ DOMAIN history = 1..Len(history)
        BY <3>1, <4>1, ApprovedRows
      <4>3. DOMAIN new = 1..(Len(history) + Len(ids))
        BY <4>2, LenProperties
      <4>4. ASSUME NEW i \in DOMAIN new
            PROVE  \/ i \in DOMAIN history /\ new[i] = history[i]
                   \/ \E k \in DOMAIN ids : new[i] = LogRow("APPROVATION", ids[k], About(p))
        <5>1. CASE i \in 1..Len(history)
          BY <4>2, <5>1
        <5>2. ASSUME NEW k \in 1..Len(ids), i = Len(history) + k
              PROVE  k \in DOMAIN ids /\ new[i] = LogRow("APPROVATION", ids[k], About(p))
          BY <4>2, <5>2
        <5> QED BY <4>2, <4>3, <5>1, <5>2
      <4>5. history' = new
        BY <3>4, <4>1
      <4>6. /\ history' \in Seq(HistoryRow)
            /\ \A i \in DOMAIN history' :
                  \/ i \in DOMAIN history /\ history'[i] = history[i]
                  \/ \E k \in DOMAIN ids :
                        history'[i] = LogRow("APPROVATION", ids[k], About(p))
        <5> HIDE DEF ids
        <5> QED BY <4>2, <4>4, <4>5
      <4>7. \A k \in DOMAIN ids : ids[k] \in DOMAIN member
        BY <3>4 DEF Range
      <4>8. \A k \in DOMAIN ids : LogRow("APPROVATION", ids[k], About(p)).target = ids[k]
        BY DEF LogRow
      <4> QED BY <3>2, <4>6, <4>7, <4>8 DEF HistoryInv
    <3> QED BY <2>4, <3>3, <3>4 DEF LogApproved, Rows
  <2>5. CASE MoveHistory(p)
    <3>1. CASE UNCHANGED history
      BY <1>1, <2>5, <3>1 DEF MoveHistory
    <3>2. CASE /\ history' = Moved(req[p].other, req[p].target)
               /\ \/ req[p].target \in DOMAIN member
                  \/ ~ \E i \in DOMAIN history : history[i].target = req[p].other
      <4>1. /\ history' \in Seq(HistoryRow) /\ DOMAIN history' = DOMAIN history
            /\ \A i \in DOMAIN history :
                  history'[i].target = IF history[i].target = req[p].other
                                       THEN req[p].target ELSE history[i].target
        BY <2>0, <3>2, MovedRows
      <4>2. \A i \in DOMAIN history' : history'[i].target \in DOMAIN member
        BY <3>2, <4>1 DEF HistoryInv
      <4> QED BY <2>5, <4>1, <4>2 DEF MoveHistory, HistoryInv
    <3> QED BY <2>5, <3>1, <3>2 DEF MoveHistory
  <2>6. CASE DeleteMember(p)
    <3>1. CASE UNCHANGED <<member, history>>
      BY <1>1, <3>1
    <3>2. CASE /\ member' = Restrict(member, DOMAIN member \ {req[p].other})
               /\ history' = Without(history, req[p].other)
      <4>1. /\ history' \in Seq(HistoryRow)
            /\ \A k \in DOMAIN history' :
                  \E i \in DOMAIN history :
                     history[i].target # req[p].other /\ history'[k] = history[i]
        BY <3>2, WithoutRows DEF HistoryInv
      <4>2. DOMAIN member' = DOMAIN member \ {req[p].other}
        BY <3>2 DEF Restrict
      <4> QED BY <4>1, <4>2 DEF HistoryInv
    <3> QED BY <2>6, <3>1, <3>2 DEF DeleteMember
  <2>7. CASE LogRank(p)
    <3>1. Role(p) \in RoleNames
      BY <2>0, <2>7 DEF LogRank, At, RequestSound, Role
    <3> QED BY <2>0, <2>7, <3>1, LoggedKeeps DEF LogRank
  <2>8. CASE UNCHANGED history /\ ~ DeleteMember(p)
    BY <1>1, <1>2, <2>8, MembersStay
  <2> QED BY <1>2, <2>1, <2>2, <2>3, <2>4, <2>5, <2>6, <2>7, <2>8, HistoryWriters
<1>3. CASE ~ \E p \in Procs : Step(p)
  <2>1. UNCHANGED member
    BY <1>3, QuietRows DEF Next, Tick, vars, tables, people
  <2> QED BY <1>1, <1>3, <2>1, HistoryQuiet
<1> QED BY <1>2, <1>3

LEMMA HistoryInvInit == Init => HistoryInv
<1> SUFFICES ASSUME Init PROVE HistoryInv
  OBVIOUS
<1>1. PICK s \in Scenarios : s = scenario
  BY DEF Init
<1>2. /\ s.history \in Seq(HistoryRow)
      /\ \A i \in DOMAIN s.history : s.history[i].target \in DOMAIN s.members
  BY MembersAssumption
<1> QED BY <1>1, <1>2 DEF Init, HistoryInv

(***************************************************************************)
(* Every table keeps its shape, the history too, whatever races and        *)
(* whatever fails: the rows that a change of nick moves, and those that    *)
(* are left when a member is deleted, are rows of the log.                 *)
(***************************************************************************)
THEOREM TablesAndHistoryTyped == Spec => []TypeOK
<1>1. IInv /\ HistoryInv => TypeOK
  BY DEF IInv, HistoryInv, TypeOK
<1>2. IInv /\ HistoryInv /\ [Next]_vars => IInv' /\ HistoryInv'
  BY NextInv, HistoryInvNext
<1> QED
  BY <1>1, <1>2, InitInv, HistoryInvInit, PTL DEF Spec
-----------------------------------------------------------------------------
(***************************************************************************)
(* Who is in a class.  From the walk that looks them up until the last     *)
(* write, the members of the class have rows, and the ids the request has  *)
(* collected are theirs, place by place.                                   *)
(***************************************************************************)
Present(n) == Find(n) # NoId

Enrolled(r) ==
    /\ \/ r.stage \in {"class.enrol", "class.enlist"}
       \/ r.stage = "class.check" /\ r.call.about # "CFPM"
       => \A i \in DOMAIN r.call.nicks : i < r.at => Present(Place(r, i))
    /\ r.stage \in {"class.check", "class.enrol", "class.enlist"} => r.ids = <<>>
    /\ r.stage \in {"class.collect", "class.settle"} =>
          /\ \A i \in DOMAIN r.call.nicks : Present(Place(r, i))
          /\ \A k \in DOMAIN r.ids : r.ids[k] = Find(Place(r, k))
          /\ Len(r.ids) = IF r.stage = "class.settle" THEN Len(r.call.nicks) ELSE r.at - 1

LEMMA EnrolledStays ==
    ASSUME NEW r, Enrolled(r), DOMAIN r.ids \subseteq DOMAIN r.call.nicks,
           \A i \in DOMAIN r.call.nicks : SameUnder(Place(r, i))
    PROVE  Enrolled(r)'
<1>1. ASSUME NEW i \in DOMAIN r.call.nicks
      PROVE  /\ Present(Place(r, i)) => Present(Place(r, i))'
             /\ Find(Place(r, i))' = Find(Place(r, i))
  <2>1. PICK n : n = Place(r, i)
    OBVIOUS
  <2>2. Find(n)' = Find(n)
    BY <2>1 DEF SameUnder
  <2> QED BY <2>1, <2>2 DEF Place, Present
<1> QED BY <1>1 DEF Enrolled

(* No more ids than nicks.                                                 *)
LEMMA IdsInPlace ==
    ASSUME IInv, NEW p \in Procs, NEW r, r = req[p], Enrolled(r), r.stage \in ClassStages
    PROVE  DOMAIN r.ids \subseteq DOMAIN r.call.nicks
<1>1. /\ r.call.nicks \in Seq(Typed) /\ r.at \in Nat
      /\ DOMAIN r.call.nicks = 1..Len(r.call.nicks) /\ Len(r.call.nicks) \in Nat
      /\ r.at \in DOMAIN r.call.nicks
  BY WalkPlaces
<1>2. r.ids \in Seq(Nat)
  BY ClassRequest DEF Request
<1>3. Len(r.ids) \in Nat /\ DOMAIN r.ids = 1..Len(r.ids)
  BY <1>2, LenProperties
<1>4. CASE r.stage \in {"class.collect", "class.settle"}
  <2>1. Len(r.ids) = Len(r.call.nicks) \/ Len(r.ids) = r.at - 1
    BY <1>4 DEF Enrolled
  <2> QED BY <1>1, <1>3, <2>1
<1>5. CASE r.stage \in {"class.check", "class.enrol", "class.enlist"}
  <2>1. r.ids = <<>>
    BY <1>5 DEF Enrolled
  <2> QED BY <2>1
<1> QED BY <1>4, <1>5 DEF ClassStages

LEMMA JustEnrolled ==
    ASSUME IInv, CalmInv, NEW p \in Procs,
           NEW s, s = req'[p], Step(p) \/ FailQuery(p) \/ LoseWrite(p),
           NEW r, r = req[p], Enrolled(r)
    PROVE  Enrolled(s)'
<1>1. CASE s.stage \notin ClassStages
  BY <1>1 DEF Enrolled, ClassStages
<1>2. CASE s.stage \in ClassStages
  <2> DEFINE c == r.call
  <2>1. s.call = c /\ r.stage \in ClassStages
    BY <1>2, WalkTo DEF ClassStages
  <2>2. /\ c.nicks \in Seq(Typed) /\ r.at \in Nat
        /\ DOMAIN c.nicks = 1..Len(c.nicks) /\ Len(c.nicks) \in Nat /\ r.at \in DOMAIN c.nicks
        /\ Reached(p) = c.nicks[r.at] /\ About(p) = c.about
    BY <2>1, WalkPlaces
  <2>3. \A i : Place(s, i) = Place(r, i)
    BY <2>1 DEF Place
  <2>4. UNCHANGED member => \A n : (Present(n) => Present(n)') /\ Find(n)' = Find(n)
    BY SameWhenQuiet DEF SameUnder, Present
  <2>a. <<>> \in Seq(Nat) /\ Len(<<>>) = 0 /\ DOMAIN <<>> = {}
    BY EmptySeq
  <2>5. CASE /\ r.stage = "class.check" /\ s.ids = r.ids /\ UNCHANGED member
             /\ MayPass(Reached(p), About(p))
             /\ Ahead(r, s, "class.check", AfterCheck(About(p)))
    <3>1. c.about # "CFPM" => Present(Place(r, r.at))
      <4>1. c.about # "CFPM" => Find(Reached(p)) # NoId
        BY <2>2, <2>5 DEF MayPass
      <4>2. Find(Reached(p)) # NoId => Canon[Reached(p)] = Reached(p)
        BY NickOfMember
      <4> QED BY <2>2, <4>1, <4>2 DEF Place, Present
    <3>2. c.about # "CFPM" =>
             \A i \in DOMAIN c.nicks : i <= r.at => Present(Place(r, i))
      <4>1. \A i \in DOMAIN c.nicks : i <= r.at => i < r.at \/ i = r.at
        BY <2>2
      <4> QED BY <2>5, <3>1, <4>1 DEF Enrolled
    <3>3. c.about # "CFPM" =>
             \A i \in DOMAIN c.nicks : i <= r.at => Present(Place(s, i))'
      BY <2>1, <2>3, <2>4, <2>5, <3>2 DEF Place
    <3>4. s.ids = <<>> /\ DOMAIN s.ids = {} /\ Len(s.ids) = 0
      BY <2>5, <2>a DEF Enrolled
    <3>5. CASE r.at = Len(c.nicks) /\ s.stage = AfterCheck(c.about) /\ s.at = 1
      <4>1. \A i \in DOMAIN c.nicks : i <= r.at /\ ~ i < s.at
        BY <2>2, <3>5
      <4> QED BY <2>1, <3>3, <3>4, <3>5, <4>1 DEF Enrolled, AfterCheck
    <3>6. CASE r.at # Len(c.nicks) /\ s.stage = "class.check" /\ s.at = r.at + 1
      <4>1. \A i \in DOMAIN c.nicks : i < s.at => i <= r.at
        BY <2>2, <3>6
      <4> QED BY <2>1, <3>3, <3>4, <3>6, <4>1 DEF Enrolled
    <3> QED BY <2>2, <2>5, <3>5, <3>6 DEF Ahead
  <2>6. CASE /\ r.stage = "class.enrol" /\ s.stage = "class.enlist"
             /\ s.ids = r.ids /\ s.at = r.at /\ UNCHANGED member
    <3>1. \A i \in DOMAIN c.nicks : i < r.at => Present(Place(r, i))
      BY <2>6 DEF Enrolled
    <3>2. \A i \in DOMAIN c.nicks : i < r.at => Present(Place(s, i))'
      BY <2>1, <2>3, <2>4, <2>6, <3>1 DEF Place
    <3>3. s.ids = <<>>
      BY <2>6 DEF Enrolled
    <3> QED BY <2>1, <2>6, <3>2, <3>3 DEF Enrolled
  <2>7. CASE /\ r.stage = "class.enlist" /\ s.ids = r.ids /\ Enlist(p)
             /\ (r.target = NoId) = (Find(Canon[Reached(p)]) = NoId)
             /\ Ahead(r, s, "class.enrol", "class.collect")
    <3>1. ASSUME NEW i \in DOMAIN c.nicks, i <= r.at PROVE Present(Place(s, i))'
      <4>1. PICK n : n = Place(r, i)
        OBVIOUS
      <4>2. CASE n = Canon[Reached(p)]
        <5>1. Serving(n)'
          BY <2>7, <4>2, EnlistedServes DEF CalmInv
        <5> QED BY <2>3, <3>1, <4>1, <5>1 DEF Place, Serving, Present
      <4>3. CASE n # Canon[Reached(p)]
        <5>1. i < r.at
          BY <2>2, <3>1, <4>1, <4>3 DEF Place
        <5>2. Present(n)
          BY <2>7, <3>1, <4>1, <5>1 DEF Enrolled
        <5>3. Present(n)'
          BY <2>7, <4>3, <5>2, SameBesideEnlisted DEF CalmInv, SameUnder, Present
        <5> QED BY <2>3, <3>1, <4>1, <5>3 DEF Place
      <4> QED BY <4>2, <4>3
    <3>2. s.ids = <<>> /\ DOMAIN s.ids = {} /\ Len(s.ids) = 0
      BY <2>7, <2>a DEF Enrolled
    <3>3. CASE r.at = Len(c.nicks) /\ s.stage = "class.collect" /\ s.at = 1
      <4>1. \A i \in DOMAIN c.nicks : i <= r.at
        BY <2>2, <3>3
      <4> QED BY <2>1, <3>1, <3>2, <3>3, <4>1 DEF Enrolled
    <3>4. CASE s.stage = "class.enrol" /\ s.at = r.at + 1
      <4>1. \A i \in DOMAIN c.nicks : i < s.at => i <= r.at
        BY <2>2, <3>4
      <4> QED BY <2>1, <3>1, <3>2, <3>4, <4>1 DEF Enrolled
    <3> QED BY <2>7, <3>3, <3>4 DEF Ahead
  <2>8. CASE /\ r.stage \in {"class.collect", "class.settle"} /\ UNCHANGED member
             /\ s.stage \in {"class.collect", "class.settle"}
             /\ \A k \in DOMAIN s.ids : s.ids[k] = Find(Place(r, k))
             /\ DOMAIN s.ids \subseteq DOMAIN c.nicks
             /\ Len(s.ids) = IF s.stage = "class.settle" THEN Len(c.nicks) ELSE s.at - 1
    <3>1. \A i \in DOMAIN c.nicks : Present(Place(r, i))
      BY <2>8 DEF Enrolled
    <3>2. ASSUME NEW i \in DOMAIN c.nicks
          PROVE  Present(Place(s, i))' /\ Find(Place(s, i))' = Find(Place(r, i))
      <4>1. PICK n : n = Place(r, i)
        OBVIOUS
      <4>2. Present(n)' /\ Find(n)' = Find(n)
        BY <2>4, <2>8, <3>1, <3>2, <4>1
      <4> QED BY <2>3, <3>2, <4>1, <4>2 DEF Place
    <3> QED BY <2>1, <2>8, <3>1, <3>2 DEF Enrolled
  <2>9. CASE /\ r.stage = "class.collect" /\ UNCHANGED member
             /\ s.ids = Append(r.ids, Find(Canon[Reached(p)]))
             /\ Ahead(r, s, "class.collect", "class.settle")
    <3>1. r.ids \in Seq(Nat) /\ Find(Canon[Reached(p)]) \in Nat
      BY ClassRequest, FindType, <2>1 DEF Request
    <3>2. Find(Canon[Reached(p)]) = Find(Place(r, r.at))
      BY <2>2 DEF Place
    <3>3. Len(r.ids) = r.at - 1 /\ \A k \in DOMAIN r.ids : r.ids[k] = Find(Place(r, k))
      BY <2>9 DEF Enrolled
    <3>4. PICK id : id = Find(Canon[Reached(p)])
      OBVIOUS
    <3>5. /\ s.ids \in Seq(Nat) /\ Len(s.ids) = Len(r.ids) + 1
          /\ \A k \in 1..Len(r.ids) : s.ids[k] = r.ids[k]
          /\ s.ids[Len(r.ids) + 1] = id
      BY <2>9, <3>1, <3>4, AppendProperties
    <3>6. DOMAIN r.ids = 1..Len(r.ids) /\ DOMAIN s.ids = 1..Len(s.ids) /\ Len(r.ids) \in Nat
      BY <3>1, <3>5, LenProperties
    <3>7. Len(r.ids) + 1 = r.at /\ Len(s.ids) = r.at
      BY <2>2, <3>3, <3>5, <3>6
    <3>8. \A k \in DOMAIN s.ids : k \in DOMAIN r.ids \/ k = r.at
      BY <3>6, <3>7
    <3>9. \A k \in DOMAIN s.ids : s.ids[k] = Find(Place(r, k))
      BY <3>2, <3>3, <3>4, <3>5, <3>6, <3>7, <3>8
    <3>10. DOMAIN s.ids \subseteq DOMAIN c.nicks
      BY <2>2, <3>6, <3>7
    <3>11. CASE r.at = Len(c.nicks) /\ s.stage = "class.settle"
      BY <2>8, <2>9, <3>7, <3>9, <3>10, <3>11
    <3>12. CASE s.stage = "class.collect" /\ s.at = r.at + 1
      <4>1. Len(s.ids) = s.at - 1
        BY <2>2, <3>7, <3>12
      <4> QED BY <2>8, <2>9, <3>9, <3>10, <3>12, <4>1
    <3> QED BY <2>9, <3>11, <3>12 DEF Ahead
  <2>10. CASE /\ r.stage = "class.settle" /\ s.stage = "class.settle"
              /\ s.ids = r.ids /\ UNCHANGED member
    <3>1. DOMAIN s.ids \subseteq DOMAIN c.nicks
      BY <2>1, <2>10, IdsInPlace
    <3>2. /\ \A k \in DOMAIN s.ids : s.ids[k] = Find(Place(r, k))
          /\ Len(s.ids) = Len(c.nicks)
      BY <2>10 DEF Enrolled
    <3> QED BY <2>8, <2>10, <3>1, <3>2
  <2> QED BY <1>2, <2>5, <2>6, <2>7, <2>9, <2>10, WalkTo
<1> QED BY <1>1, <1>2

(* Whom the last write of a contract, and of a change of nick, is about:   *)
(* the member with the nick of the call.                                   *)
Logging(r) ==
    /\ r.stage = "contract.log" =>
          r.target # NoId /\ Find(Canon[r.call.nicks[1]]) = r.target
    /\ r.stage = "nick.log" =>
          r.target # NoId /\ Find(Canon[r.call.nicks[2]]) = r.target

Renaming(r) == r.stage \in NickStages => r.call \in CallsOf("changeUserNick")

LEMMA LogFollowsContract ==
    ASSUME IInv, NEW p \in Procs, Step(p) \/ FailQuery(p) \/ LoseWrite(p),
           req'[p].stage = "contract.log"
    PROVE  ContractWrite(p)
<1>0. req \in [Procs -> Request]
  BY DEF IInv, TablesTyped
<1>1. ~ Answer(p)
  BY <1>0 DEF Answer, Idle
<1>2. \A stage : Goto(p, stage) => stage = "contract.log"
  BY <1>0 DEF Goto, Request
<1>3. \A stage, id : req' = [req EXCEPT ![p].stage = stage, ![p].target = id]
                     => stage = "contract.log"
  BY <1>0 DEF Request
<1>4. \A w : Settle(p, w) => req[p].stage = "contract.log"
  BY <1>1, SettlesOn
<1>5. "contract.log" \notin ClassStages
  BY DEF ClassStages
<1>6. CASE CheckApproved(p) \/ FindToEnlist(p) \/ Enlist(p) \/ CollectApproved(p)
  <2>1. req[p].stage \in ClassStages
    BY <1>6 DEF CheckApproved, FindToEnlist, Enlist, CollectApproved, At, ClassStages
  <2>2. ~ FindToEnlist(p)
    BY <1>3 DEF FindToEnlist
  <2>3. PICK o : /\ req' = [req EXCEPT ![p] = o]
                 /\ o.stage \in {"class.check", "class.enrol", "class.collect", "class.settle"}
    <3>1. CASE CheckApproved(p)
      <4>1. req' = [req EXCEPT ![p] = Onward(p, "class.check", AfterCheck(About(p)))]
        BY <1>1, <3>1 DEF CheckApproved
      <4>2. Onward(p, "class.check", AfterCheck(About(p))).stage
              \in {"class.check", "class.enrol", "class.collect"}
        BY <1>0 DEF Onward, AfterCheck, Request
      <4> QED BY <4>1, <4>2
    <3>2. CASE Enlist(p)
      <4> DEFINE o == [Onward(p, "class.enrol", "class.collect") EXCEPT !.target = NoId]
      <4>1. req' = [req EXCEPT ![p] = o]
        BY <1>1, <3>2 DEF Enlist
      <4>2. o.stage \in {"class.enrol", "class.collect"}
        BY <1>0 DEF Onward, Request
      <4> QED BY <4>1, <4>2
    <3>3. CASE CollectApproved(p)
      <4> DEFINE o == [Onward(p, "class.collect", "class.settle") EXCEPT
                         !.ids  = Append(@, Find(Canon[Reached(p)])),
                         !.todo = {"permissions", "log", "class"}]
      <4>1. req' = [req EXCEPT ![p] = o]
        BY <1>1, <3>3 DEF CollectApproved
      <4>2. o.stage \in {"class.collect", "class.settle"}
        BY <1>0 DEF Onward, Request
      <4> QED BY <4>1, <4>2
    <3> QED BY <1>6, <2>2, <3>1, <3>2, <3>3
  <2> QED BY <1>0, <2>3
<1>7. CASE GiveCourses(p) \/ LogApproved(p) \/ RecordClass(p) \/ Dismiss(p)
           \/ LogDismissal(p) \/ TakePermissions(p) \/ TakePosts(p) \/ LoseWrite(p)
  BY <1>4, <1>7 DEF GiveCourses, LogApproved, RecordClass, Dismiss, LogDismissal,
                    TakePermissions, TakePosts, LoseWrite, At, Settling
<1>8. ~ FailQuery(p)
  BY <1>1 DEF FailQuery
<1>9. CASE FindForRole(p)
  <2>1. \E id : req' = [req EXCEPT ![p].stage = "role.clear", ![p].target = id]
    BY <1>1, <1>9 DEF FindForRole
  <2> QED BY <1>3, <2>1
<1>10. CASE FindForRemoval(p)
  <2>1. \E r : req' = [req EXCEPT ![p].stage = "drop.delete", ![p].target = r.user,
                                  ![p].call.about = r.role]
    BY <1>1, <1>10 DEF FindForRemoval
  <2> QED BY <1>0, <2>1 DEF Request
<1>11. CASE FindToFire(p)
  <2>1. \E id : req' = [req EXCEPT ![p].stage = "fire.settle", ![p].target = id,
                                   ![p].todo = FireWrites]
    BY <1>1, <1>11 DEF FindToFire
  <2> QED BY <1>0, <2>1 DEF Request
<1>12. CASE FindNew(p)
  <2>1. \/ Goto(p, "nick.update")
        \/ \E id : req' = [req EXCEPT ![p].stage = "nick.move", ![p].other = id]
    BY <1>1, <1>12 DEF FindNew
  <2> QED BY <1>0, <1>2, <2>1 DEF Request
<1>13. CASE FindToContract(p) \/ FindPrevious(p) \/ FindToUnlock(p) \/ FindToGive(p)
  <2>1. CASE FindToContract(p)
    <3>1. \E id : req' = [req EXCEPT ![p].stage = "contract.write", ![p].target = id]
      BY <1>1, <2>1 DEF FindToContract
    <3> QED BY <1>3, <3>1
  <2>2. CASE FindPrevious(p)
    <3>1. \E id : req' = [req EXCEPT ![p].stage = "nick.new", ![p].target = id]
      BY <1>1, <2>2 DEF FindPrevious
    <3> QED BY <1>3, <3>1
  <2>3. CASE FindToUnlock(p)
    <3>1. \E id : req' = [req EXCEPT ![p].stage = "code.session", ![p].target = id]
      BY <1>1, <2>3 DEF FindToUnlock
    <3> QED BY <1>3, <3>1
  <2>4. CASE FindToGive(p)
    <3>1. \E id : req' = [req EXCEPT ![p].stage = "give.create", ![p].target = id]
      BY <1>1, <2>4 DEF FindToGive
    <3> QED BY <1>3, <3>1
  <2> QED BY <1>13, <2>1, <2>2, <2>3, <2>4
<1>14. CASE \/ ClearRoles(p) \/ CreateRole(p) \/ RemoveRole(p) \/ LogContract(p)
            \/ MoveHistory(p) \/ DeleteMember(p) \/ Rename(p) \/ LogRename(p)
            \/ CreateSession(p) \/ ReadSession(p) \/ Unlock(p) \/ FindCape(p)
            \/ PutPicture(p) \/ CreateCape(p) \/ GiveCape(p) \/ WearCape(p)
  <2>1. \/ Goto(p, "role.create") \/ Goto(p, "nick.delete") \/ Goto(p, "nick.update")
        \/ Goto(p, "nick.log") \/ Goto(p, "code.update") \/ Goto(p, "cape.put")
        \/ Goto(p, "cape.create")
    BY <1>1, <1>14
       DEF ClearRoles, CreateRole, RemoveRole, LogContract, MoveHistory, DeleteMember, Rename,
           LogRename, CreateSession, ReadSession, Unlock, FindCape, PutPicture, CreateCape,
           GiveCape, WearCape
  <2> QED BY <1>2, <2>1
<1>15. CASE CareerStep(p)
  BY <1>1, <1>15, RankGoesOn
<1> QED
  BY <1>6, <1>7, <1>8, <1>9, <1>10, <1>11, <1>12, <1>13, <1>14, <1>15
     DEF Step, DepartamentStep, AccountStep, CapeStep

(* Who joins is found under the nick, and who is renamed under the new one. *)
LEMMA JoinsIsFound ==
    ASSUME IInv, NicksUnique, NEW n, Joins(n)
    PROVE  Find(n)' = created + 1 /\ created + 1 # NoId
<1>1. WithNick(n) = {}
  BY FindIs DEF Joins
<1>2. WithNick(n)' = {created + 1}
  BY <1>1 DEF Joins, WithNick
<1>3. Find(n)' = created + 1
  BY <1>2 DEF Find
<1> QED BY <1>3 DEF IInv, TablesTyped, NoId

LEMMA RenamedIsFound ==
    ASSUME NEW id, NEW n, Renames(id, n)
    PROVE  Find(n)' = id
<1>1. WithNick(n)' = {id}
  BY DEF Renames, WithNick
<1> QED BY <1>1 DEF Find

LEMMA LoggingStays ==
    ASSUME NEW r, Logging(r),
           r.stage = "contract.log" => SameUnder(Canon[r.call.nicks[1]]),
           r.stage = "nick.log" => SameUnder(Canon[r.call.nicks[2]])
    PROVE  Logging(r)'
<1>1. PICK n : n = Canon[r.call.nicks[1]]
  OBVIOUS
<1>2. PICK m : m = Canon[r.call.nicks[2]]
  OBVIOUS
<1>3. r.stage = "contract.log" => Find(n)' = Find(n)
  BY <1>1 DEF SameUnder
<1>4. r.stage = "nick.log" => Find(m)' = Find(m)
  BY <1>2 DEF SameUnder
<1> QED BY <1>1, <1>2, <1>3, <1>4 DEF Logging

LEMMA JustLogging ==
    ASSUME IInv, CalmInv, scenario.exclusive, NEW p \in Procs,
           NEW s, s = req'[p], Step(p) \/ FailQuery(p) \/ LoseWrite(p)
    PROVE  Logging(s)'
<1>0. PICK r : r = req[p]
  OBVIOUS
<1>1. /\ StillRead(r) /\ req \in [Procs -> Request] /\ NicksUnique
      /\ \A i \in DOMAIN member : i # NoId
  BY <1>0 DEF CalmInv, Calm, IInv, TablesTyped, NoId
<1>2. CASE s.stage = "contract.log"
  <2>1. ContractWrite(p)
    BY <1>2, LogFollowsContract
  <2>2. PICK n : n = NickIn(p, 1)
    OBVIOUS
  <2>3. r.stage = "contract.write" /\ ~ Answer(p)
    BY <1>0, <1>1, <1>2, <2>1 DEF ContractWrite, At, Answer, Idle
  <2>4. CASE /\ req[p].target = NoId /\ Find(n) = NoId
             /\ member' = Joined(NewRow(n, Role(p)))
             /\ req' = [req EXCEPT ![p].stage = "contract.log", ![p].target = created + 1]
    <3>1. NewRow(n, Role(p)).nick = n
      BY DEF NewRow
    <3>2. Joins(n)
      BY <2>4, <3>1, JoinedJoins
    <3>3. s.target = created + 1 /\ s.call = r.call
      BY <1>0, <1>1, <2>4 DEF Request
    <3>4. Find(n)' = s.target /\ s.target # NoId
      BY <1>1, <3>2, <3>3, JoinsIsFound
    <3> QED BY <1>0, <1>2, <2>2, <3>3, <3>4 DEF Logging, NickIn
  <2>5. CASE /\ req[p].target # NoId /\ req[p].target \in DOMAIN member
             /\ member' = [member EXCEPT ![req[p].target].roleName = Role(p)]
             /\ Goto(p, "contract.log")
    <3>1. s.target = r.target /\ s.call = r.call
      BY <1>0, <1>1, <2>5 DEF Goto, Request
    <3>2. Find(n) = r.target
      BY <1>0, <1>1, <2>2, <2>3, <2>5 DEF StillRead, NickIn
    <3>3. \E id : Rewrites(id)
      <4>1. AccountStep(p)
        BY <2>1 DEF AccountStep
      <4>2. PICK id : id = req[p].target
        OBVIOUS
      <4>3. member[id] \in MemberRow
        BY <2>5, <4>2 DEF IInv, TablesTyped
      <4> QED BY <2>5, <4>2, <4>3 DEF Rewrites, MemberRow
    <3>4. Find(n)' = Find(n)
      BY <3>3, RewritesNicks, SameFind
    <3> QED BY <1>0, <1>2, <2>2, <2>5, <3>1, <3>2, <3>4 DEF Logging, NickIn
  <2> QED BY <2>1, <2>2, <2>3, <2>4, <2>5 DEF ContractWrite
<1>3. CASE s.stage = "nick.log"
  <2>1. ~ Off(p)
    BY <1>3 DEF Off, Watched, NickStages
  <2>2. Leading(p)
    BY <1>3, <2>1, StepLeads DEF Reranks
  <2>3. Rename(p) /\ s.call = r.call /\ r.stage = "nick.update"
    BY <1>0, <1>3, <2>1, <2>2, LeadingTo DEF Leading, Dismissing, At
  <2>4. PICK n : n = NickIn(p, 2)
    OBVIOUS
  <2>5. PICK id : id = Find(NickIn(p, 1))
    OBVIOUS
  <2>6. ~ Answer(p)
    BY <1>1, <1>3 DEF Answer, Idle
  <2>7. /\ id # NoId /\ WithNick(n) \subseteq {id}
        /\ member' = [member EXCEPT ![id].nick = n] /\ Goto(p, "nick.log")
    BY <2>3, <2>4, <2>5, <2>6 DEF Rename, ToRename
  <2>8. id \in DOMAIN member /\ member[id] \in MemberRow
    BY <2>5, <2>7, FindType DEF IInv, TablesTyped
  <2>9. Renames(id, n)
    BY <2>7, <2>8 DEF Renames, MemberRow
  <2>10. s.target = r.target /\ r.target = id
    BY <1>0, <1>1, <2>3, <2>5, <2>7 DEF Goto, Request, StillRead, NickIn
  <2>11. Find(n)' = id
    BY <2>9, RenamedIsFound
  <2> QED BY <1>0, <1>3, <2>3, <2>4, <2>7, <2>10, <2>11 DEF Logging, NickIn
<1>4. CASE s.stage \notin {"contract.log", "nick.log"}
  BY <1>4 DEF Logging
<1> QED BY <1>2, <1>3, <1>4

Sure(r) == Enrolled(r) /\ Logging(r) /\ Renaming(r)

AllSure == \A q \in Procs : Sure(req[q])

LEMMA JustRenaming ==
    ASSUME IInv, NEW p \in Procs, NEW s, s = req'[p], Step(p) \/ FailQuery(p) \/ LoseWrite(p),
           NEW r, r = req[p], Renaming(r)
    PROVE  Renaming(s)
<1>1. CASE s.stage \notin NickStages
  BY <1>1 DEF Renaming
<1>2. CASE s.stage \in NickStages
  <2>1. ~ Off(p)
    BY <1>2 DEF Off, Watched
  <2>2. Leading(p)
    BY <1>2, <2>1, StepLeads DEF Reranks, NickStages
  <2>3. s.call = r.call /\ r.stage \in NickStages
    BY <1>2, <2>1, <2>2, LeadingTo DEF Leading, Dismissing, At, NickStages
  <2> QED BY <2>3 DEF Renaming
<1> QED BY <1>1, <1>2

LEMMA BegunSure ==
    ASSUME IInv, [Next]_vars, NEW p \in Procs, NEW s, s = req'[p], Submit(p)
    PROVE  Sure(s)
<1>1. ASSUME NEW call, NEW stage, NEW who, Begin(p, call, stage, who)
      PROVE  s.stage = stage /\ s.call = call
  BY <1>1 DEF Begin, Idle, IInv, TablesTyped
<1>2. Renaming(s) /\ s.stage \notin {"contract.log", "nick.log"}
  <2>1. CASE SubmitChangeUserNick(p)
    <3>1. PICK call \in CallsOf("changeUserNick") :
             Begin(p, call, "nick.prev", Guarded(call.actor))
      BY <2>1 DEF SubmitChangeUserNick
    <3> QED BY <1>1, <3>1 DEF Renaming
  <2>2. CASE ~ SubmitChangeUserNick(p)
    <3>1. PICK stage \in {"role.find", "drop.find", "contract.find", "fire.find",
                          "class.check", "session.create", "code.user", "cape.find",
                          "give.find", "wear.update", "rank.find"} :
             \E call, who : Begin(p, call, stage, who)
      BY <2>2 DEF Submit, DepartamentSubmit, AccountSubmit, CapeSubmit, SubmitSetUserRole,
         SubmitDeleteUserRole, SubmitContractUser, SubmitFireUser, SubmitPostClass,
         SubmitSession, SubmitCode, SubmitCreateCape, SubmitAtributeCape, SubmitChangeUserCape,
         SubmitRankCall
    <3>2. s.stage = stage
      BY <1>1, <3>1
    <3> QED BY <3>1, <3>2 DEF Renaming, NickStages
  <2> QED BY <2>1, <2>2
<1>3. Enrolled(s)
  <2>1. CASE s.stage \notin ClassStages
    BY <2>1 DEF Enrolled, ClassStages
  <2>2. CASE s.stage \in ClassStages
    <3>1. s.stage = "class.check" /\ s.at = 1 /\ s.ids = <<>>
      BY <2>2, BegunTeaching
    <3>2. s \in Request
      BY NextInv DEF IInv, TablesTyped
    <3>3. s.call.nicks \in Seq(Typed)
      BY <3>2 DEF Request, Call
    <3>4. \A i \in DOMAIN s.call.nicks : ~ i < s.at
      BY <3>1, <3>3, LenProperties
    <3> QED BY <3>1, <3>4 DEF Enrolled
  <2> QED BY <2>1, <2>2
<1> QED BY <1>2, <1>3 DEF Sure, Logging

LEMMA SureStays ==
    ASSUME IInv, NEW q \in Procs, NEW r, r = req[q], Sure(r), scenario' = scenario,
           \A n \in Named(r.call) : SameUnder(n)
    PROVE  Sure(r)'
<1>1. RequestSound(r)
  BY DEF IInv, RequestsSound
<1>2. Renaming(r)'
  BY DEF Sure, Renaming, CallsOf
<1>3. Logging(r)'
  <2>1. r.stage = "contract.log" => Canon[r.call.nicks[1]] \in Named(r.call)
    BY <1>1, NamedIn DEF RequestSound, HireStages, Known
  <2>2. r.stage = "nick.log" => Canon[r.call.nicks[2]] \in Named(r.call)
    BY <1>1, NamedIn DEF RequestSound, NickStages, Known
  <2>3. PICK n : n = Canon[r.call.nicks[1]]
    OBVIOUS
  <2>4. PICK m : m = Canon[r.call.nicks[2]]
    OBVIOUS
  <2>5. /\ r.stage = "contract.log" => SameUnder(n)
        /\ r.stage = "nick.log" => SameUnder(m)
    BY <2>1, <2>2, <2>3, <2>4
  <2> QED BY <2>3, <2>4, <2>5, LoggingStays DEF Sure, SameUnder
<1>4. Enrolled(r)'
  <2>1. CASE r.stage \notin ClassStages
    BY <2>1 DEF Enrolled, ClassStages
  <2>2. CASE r.stage \in ClassStages
    <3>1. DOMAIN r.ids \subseteq DOMAIN r.call.nicks
      BY <2>2, IdsInPlace DEF Sure
    <3>2. \A i \in DOMAIN r.call.nicks : Place(r, i) \in Named(r.call)
      BY NamedIn DEF Place
    <3>3. \A i \in DOMAIN r.call.nicks : SameUnder(Place(r, i))
      BY <3>2 DEF Place
    <3> QED BY <3>1, <3>3, EnrolledStays DEF Sure
  <2> QED BY <2>1, <2>2
<1> QED BY <1>2, <1>3, <1>4 DEF Sure

LEMMA SureNext ==
    ASSUME IInv, CalmInv, scenario.exclusive, AllSure, [Next]_vars
    PROVE  AllSure'
<1>1. scenario' = scenario
  BY ScenarioStays
<1>2. ASSUME NEW q \in Procs, NEW s, s = req'[q]
      PROVE  Sure(s)'
  <2>0. PICK r : r = req[q]
    OBVIOUS
  <2>1. Sure(r)
    BY <2>0 DEF AllSure
  <2>2. CASE s = r /\ UNCHANGED member
    BY <1>1, <2>0, <2>1, <2>2, SameWhenQuiet, SureStays
  <2>3. ASSUME NEW p \in Procs, Submit(p)
        PROVE  Sure(s)'
    <3>1. CASE p = q
      <4>1. Sure(s) /\ UNCHANGED member
        BY <1>2, <2>3, <3>1, BegunSure, QuietRows
      <4>2. \A n : Find(n)' = Find(n)
        BY <4>1, SameWhenQuiet DEF SameUnder
      <4>3. \A i : Find(Place(s, i))' = Find(Place(s, i))
        <5> TAKE i
        <5>1. PICK n : n = Place(s, i)
          OBVIOUS
        <5> QED BY <4>2, <5>1 DEF Place
      <4>4. Enrolled(s)'
        BY <4>1, <4>3 DEF Sure, Enrolled, Present
      <4>5. Renaming(s)' /\ Logging(s)'
        BY <1>1, <4>1, <4>2 DEF Sure, Renaming, Logging, CallsOf
      <4> QED BY <4>4, <4>5 DEF Sure
    <3>2. CASE p # q
      BY <1>2, <2>0, <2>2, <2>3, <3>2, SubmitOthers, QuietRows
    <3> QED BY <3>1, <3>2
  <2>4. ASSUME NEW p \in Procs, Step(p) \/ FailQuery(p) \/ LoseWrite(p)
        PROVE  Sure(s)'
    <3>1. CASE p = q
      <4>1. Renaming(s)
        BY <1>2, <2>0, <2>1, <2>4, <3>1, JustRenaming DEF Sure
      <4>2. Renaming(s)'
        BY <1>1, <4>1 DEF Renaming, CallsOf
      <4>3. Logging(s)'
        BY <1>2, <2>4, <3>1, JustLogging
      <4>4. Enrolled(s)'
        BY <1>2, <2>0, <2>1, <2>4, <3>1, JustEnrolled DEF Sure
      <4> QED BY <4>2, <4>3, <4>4 DEF Sure
    <3>2. CASE p # q
      <4>1. ~ At(p, "idle") /\ s = r
        BY <1>2, <2>0, <2>4, <3>2, StepKeeps DEF Keeps
      <4>2. CASE r.stage = "idle"
        BY <4>1, <4>2 DEF Sure, Enrolled, Logging, Renaming, NickStages
      <4>3. CASE r.stage # "idle"
        <5>1. Named(r.call) \cap Named(req[p].call) = {}
          BY <2>0, <3>2, <4>1, <4>3 DEF CalmInv, TurnsApart, At
        <5>2. CASE Step(p)
          <6>1. \A n \in Named(r.call) : SameUnder(n)
            BY <5>1, <5>2, SameElsewhere
          <6> QED BY <1>1, <2>0, <2>1, <4>1, <6>1, SureStays
        <5>3. CASE FailQuery(p) \/ LoseWrite(p)
          BY <2>2, <4>1, <5>3, QuietRows
        <5> QED BY <2>4, <5>2, <5>3
      <4> QED BY <4>2, <4>3
    <3> QED BY <3>1, <3>2
  <2> QED BY <1>2, <2>0, <2>2, <2>3, <2>4 DEF Next, Tick, vars, tables, people
<1>3. ASSUME NEW q \in Procs PROVE Sure(req[q])'
  <2>1. PICK s : s = req'[q]
    OBVIOUS
  <2>2. Sure(s)'
    BY <1>2, <2>1
  <2>3. Enrolled(s)' => Enrolled(req[q])'
    BY <2>1 DEF Enrolled, Present, Place
  <2>4. Logging(s)' => Logging(req[q])'
    BY <2>1 DEF Logging
  <2>5. Renaming(s)' => Renaming(req[q])'
    BY <2>1 DEF Renaming
  <2> QED BY <2>2, <2>3, <2>4, <2>5 DEF Sure
<1> QED BY <1>3 DEF AllSure

LEMMA SureInit == Init => AllSure
BY DEF Init, AllSure, Sure, Enrolled, Logging, Renaming, NickStages, Idle
-----------------------------------------------------------------------------
(***************************************************************************)
(* The history only grows.  Rows are added about members a call in flight  *)
(* names; so nothing is written about the Recruta who gives way between    *)
(* the move of the history and the deletion.                               *)
(***************************************************************************)
Grown(more) ==
    /\ Len(history') >= Len(history)
    /\ \A i \in DOMAIN history' :
          \/ \E j \in DOMAIN history : history'[i].target = history[j].target
          \/ history'[i].target \in more

LEMMA LoggedGrows ==
    ASSUME HistoryInv, NEW id \in Nat,
           NEW type \in {"CONTRACTING", "FIRE", "CHANGE", "PROMOTION", "DEMOTION"},
           NEW about \in RoleNames \cup CourseNames \cup {NoRole},
           history' = Logged(type, id, about)
    PROVE  Grown({id})
<1>0. DOMAIN history = 1..Len(history) /\ Len(history) \in Nat
  BY LenProperties DEF HistoryInv
<1>1. CASE id \notin DOMAIN member
  <2>1. history' = history
    BY <1>1 DEF Logged
  <2> QED BY <1>0, <2>1 DEF Grown
<1>2. CASE id \in DOMAIN member
  <2>1. PICK row : row = LogRow(type, id, about)
    OBVIOUS
  <2>2. row \in HistoryRow /\ row.target = id
    BY <2>1, LogRowType
  <2>3. history \in Seq(HistoryRow) /\ history' = Append(history, row)
    BY <1>2, <2>1 DEF Logged, HistoryInv
  <2>4. /\ history' \in Seq(HistoryRow) /\ Len(history') = Len(history) + 1
        /\ \A i \in 1..Len(history) : history'[i] = history[i]
        /\ history'[Len(history) + 1] = row
    BY <2>2, <2>3, AppendProperties
  <2>5. DOMAIN history' = 1..(Len(history) + 1)
    BY <2>4, LenProperties
  <2>6. \A i \in DOMAIN history' : i \in DOMAIN history \/ i = Len(history) + 1
    BY <1>0, <2>5
  <2> QED BY <1>0, <2>2, <2>4, <2>6 DEF Grown
<1> QED BY <1>1, <1>2

Theirs(p) == {Find(n) : n \in {m \in Named(req[p].call) : Find(m) # NoId}}

LEMMA GrownMore ==
    ASSUME NEW S, Grown(S), NEW T, S \subseteq T
    PROVE  Grown(T)
BY DEF Grown

LEMMA HistoryGrows ==
    ASSUME IInv, CalmInv, HistoryInv, scenario.exclusive, AllSure, NEW p \in Procs, Step(p),
           At(p, "nick.delete") =>
              \A i \in DOMAIN history : history[i].target # req[p].other
    PROVE  Grown(Theirs(p))
<1>0. PICK r : r = req[p]
  OBVIOUS
<1>1. /\ r \in Request /\ RequestSound(r) /\ StillRead(r) /\ Sure(r) /\ Addressed(r)
      /\ r.target \in Nat /\ r.other \in Nat
  BY <1>0 DEF IInv, TablesTyped, RequestsSound, CalmInv, Calm, AllSure, AllAddressed, Request
<1>2. DOMAIN history = 1..Len(history) /\ Len(history) \in Nat
  BY LenProperties DEF HistoryInv
<1>3. \A n \in Named(r.call) : Find(n) # NoId => Find(n) \in Theirs(p)
  BY <1>0 DEF Theirs
<1>4. CASE UNCHANGED history
  BY <1>2, <1>4 DEF Grown
<1>5. ASSUME r.target \in Theirs(p),
             NEW type \in {"CONTRACTING", "FIRE", "CHANGE", "PROMOTION", "DEMOTION"},
             NEW about \in RoleNames \cup CourseNames \cup {NoRole},
             history' = Logged(type, r.target, about)
      PROVE  Grown(Theirs(p))
  BY <1>1, <1>5, LoggedGrows, GrownMore
<1>6. CASE LogDismissal(p)
  <2>1. r.stage = "fire.settle" /\ history' = Logged("FIRE", r.target, "Recruta")
    BY <1>0, <1>6 DEF LogDismissal, At
  <2>2. r.target # NoId /\ Find(Canon[r.call.nicks[1]]) = r.target
    BY <1>1, <2>1 DEF StillRead, AboutStages
  <2>3. Canon[r.call.nicks[1]] \in Named(r.call)
    BY <1>1, <2>1, NamedIn DEF Addressed, FireStages
  <2>4. "Recruta" \in RoleNames
    BY RolesAssumption
  <2> QED BY <1>3, <1>5, <2>1, <2>2, <2>3, <2>4
<1>7. CASE LogContract(p)
  <2>1. r.stage = "contract.log" /\ history' = Logged("CONTRACTING", r.target, Role(p))
    BY <1>0, <1>7 DEF LogContract, At
  <2>2. r.target # NoId /\ Find(Canon[r.call.nicks[1]]) = r.target
    BY <1>1, <2>1 DEF Sure, Logging
  <2>3. Canon[r.call.nicks[1]] \in Named(r.call) /\ Role(p) \in RoleNames
    BY <1>0, <1>1, <2>1, NamedIn DEF RequestSound, HireStages, Known, Role
  <2> QED BY <1>3, <1>5, <2>1, <2>2, <2>3
<1>8. CASE LogRename(p)
  <2>1. r.stage = "nick.log" /\ history' = Logged("CHANGE", r.target, NoRole)
    BY <1>0, <1>8 DEF LogRename, At
  <2>2. r.target # NoId /\ Find(Canon[r.call.nicks[2]]) = r.target
    BY <1>1, <2>1 DEF Sure, Logging
  <2>3. Canon[r.call.nicks[2]] \in Named(r.call)
    BY <1>1, <2>1, NamedIn DEF RequestSound, NickStages, Known
  <2> QED BY <1>3, <1>5, <2>1, <2>2, <2>3
<1>9. CASE LogApproved(p)
  <2> DEFINE ids == r.ids
  <2>1. r.stage = "class.settle" /\ r.stage \in ClassStages
    BY <1>0, <1>9 DEF LogApproved, At, ClassStages
  <2>2. ids \in Seq(Nat) /\ About(p) \in CourseNames
    BY <1>0, <2>1, ClassRequest DEF Request
  <2>3. \A k \in DOMAIN ids : ids[k] \in Theirs(p)
    <3>1. DOMAIN ids \subseteq DOMAIN r.call.nicks
      BY <1>0, <1>1, <2>1, IdsInPlace DEF Sure
    <3>2. \A k \in DOMAIN ids : Present(Place(r, k)) /\ ids[k] = Find(Place(r, k))
      BY <1>1, <2>1, <3>1 DEF Sure, Enrolled
    <3>3. \A k \in DOMAIN r.call.nicks : Place(r, k) \in Named(r.call)
      BY NamedIn DEF Place
    <3> QED BY <1>3, <3>1, <3>2, <3>3 DEF Present
  <2>4. CASE history' = history \o Rows(ids, About(p))
    <3>1. PICK new : new = history \o Rows(ids, About(p))
      OBVIOUS
    <3>2. /\ new \in Seq(HistoryRow) /\ Len(new) = Len(history) + Len(ids)
          /\ \A i \in 1..Len(history) : new[i] = history[i]
          /\ \A k \in 1..Len(ids) :
                new[Len(history) + k] = LogRow("APPROVATION", ids[k], About(p))
          /\ \A i \in 1..(Len(history) + Len(ids)) :
                i \in 1..Len(history) \/ \E k \in 1..Len(ids) : i = Len(history) + k
          /\ DOMAIN ids = 1..Len(ids) /\ DOMAIN history = 1..Len(history) /\ Len(ids) \in Nat
      BY <2>2, <3>1, ApprovedRows
    <3>3. DOMAIN new = 1..(Len(history) + Len(ids)) /\ Len(new) >= Len(history)
      BY <1>2, <3>2, LenProperties
    <3>4. \A k \in DOMAIN ids : LogRow("APPROVATION", ids[k], About(p)).target = ids[k]
      BY DEF LogRow
    <3> HIDE DEF ids
    <3>5. ASSUME NEW i \in DOMAIN new
          PROVE  \/ \E j \in DOMAIN history : new[i].target = history[j].target
                 \/ new[i].target \in Theirs(p)
      <4>1. CASE i \in 1..Len(history)
        BY <3>2, <4>1
      <4>2. ASSUME NEW k \in 1..Len(ids), i = Len(history) + k
            PROVE  new[i].target \in Theirs(p)
        <5>1. k \in DOMAIN ids /\ new[i] = LogRow("APPROVATION", ids[k], About(p))
          BY <3>2, <4>2
        <5> QED BY <2>3, <3>4, <5>1
      <4> QED BY <3>2, <3>3, <4>1, <4>2
    <3> QED BY <2>4, <3>1, <3>3, <3>5 DEF Grown, ids
  <2> QED BY <1>0, <1>4, <1>9, <2>4 DEF LogApproved, Rows
<1>10. CASE MoveHistory(p)
  <2>1. r.stage = "nick.move" /\ (history' = Moved(r.other, r.target) \/ UNCHANGED history)
    BY <1>0, <1>10 DEF MoveHistory, At
  <2>2. r.target # NoId /\ Find(Canon[r.call.nicks[1]]) = r.target
    BY <1>1, <2>1 DEF StillRead, AboutStages
  <2>3. Canon[r.call.nicks[1]] \in Named(r.call)
    BY <1>1, <2>1, NamedIn DEF RequestSound, NickStages, Known
  <2>4. r.target \in Theirs(p)
    BY <1>3, <2>2, <2>3
  <2>5. CASE history' = Moved(r.other, r.target)
    <3>1. /\ Len(history') = Len(history) /\ DOMAIN history' = DOMAIN history
          /\ \A i \in DOMAIN history :
                history'[i].target = IF history[i].target = r.other
                                     THEN r.target ELSE history[i].target
      BY <1>1, <2>5, MovedRows
    <3> QED BY <1>2, <2>4, <3>1 DEF Grown
  <2> QED BY <1>4, <2>1, <2>5
<1>11. CASE DeleteMember(p)
  <2>1. At(p, "nick.delete") /\ (UNCHANGED history \/ history' = Without(history, r.other))
    BY <1>0, <1>11 DEF DeleteMember
  <2>2. Without(history, r.other) = history
    BY <1>0, <2>1, WithoutNone DEF HistoryInv
  <2> QED BY <1>4, <2>1, <2>2
<1>12. CASE LogRank(p)
  <2>1. /\ r.stage = "rank.settle"
        /\ \E type \in {"PROMOTION", "DEMOTION"} : history' = Logged(type, r.target, Role(p))
    BY <1>0, <1>12 DEF LogRank, At
  <2>2. r.target # NoId /\ Find(Canon[r.call.nicks[1]]) = r.target
    BY <1>1, <2>1 DEF StillRead, AboutStages
  <2>3. Canon[r.call.nicks[1]] \in Named(r.call)
    BY <1>1, <2>1, NamedIn DEF Addressed, RankStages
  <2>4. Role(p) \in RoleNames
    BY <1>0, <1>1, <2>1 DEF RequestSound, Role
  <2> QED BY <1>3, <1>5, <2>1, <2>2, <2>3, <2>4
<1> QED
  BY <1>4, <1>6, <1>7, <1>8, <1>9, <1>10, <1>11, <1>12, HistoryWriters

(* From the move of the history on nothing is about who is to be deleted.  *)
NoneAbout(r) == r.stage = "nick.delete" =>
                   \A i \in DOMAIN history : history[i].target # r.other

NoneLeft == \A p \in Procs : NoneAbout(req[p])

LEMMA FoundOnce ==
    ASSUME IInv, NicksUnique, NEW n, NEW m, Find(n) = Find(m), Find(n) # NoId
    PROVE  n = m
<1>1. PICK id : id = Find(n)
  OBVIOUS
<1> QED BY <1>1, FindIs

LEMMA JustNoneLeft ==
    ASSUME IInv, CalmInv, HistoryInv, scenario.exclusive, RenamesApart, AllSure,
           NEW p \in Procs, NEW s, s = req'[p], Step(p) \/ FailQuery(p) \/ LoseWrite(p)
    PROVE  NoneAbout(s)'
<1>0. PICK r : r = req[p]
  OBVIOUS
<1>1. CASE s.stage # "nick.delete"
  BY <1>1 DEF NoneAbout
<1>2. CASE s.stage = "nick.delete"
  <2>1. ~ Off(p) /\ ~ Answer(p)
    BY <1>2 DEF Off, Watched, NickStages, Answer, Idle, IInv, TablesTyped
  <2>2. Leading(p)
    BY <1>2, <2>1, StepLeads DEF Reranks
  <2>3. /\ MoveHistory(p) /\ r.stage = "nick.move"
        /\ s.other = r.other
    BY <1>0, <1>2, <2>1, <2>2, LeadingTo DEF Leading, Dismissing, At
  <2>4. history' = Moved(r.other, r.target)
    BY <1>0, <2>1, <2>3 DEF MoveHistory
  <2>5. r.other \in Nat /\ r.target \in Nat
    BY <1>0 DEF IInv, TablesTyped, Request
  <2>6. /\ r.target # NoId /\ Find(Canon[r.call.nicks[1]]) = r.target
        /\ r.other # NoId /\ Find(Canon[r.call.nicks[2]]) = r.other
    BY <1>0, <2>3 DEF CalmInv, Calm, StillRead, StillThere, AboutStages
  <2>7. Canon[r.call.nicks[1]] # Canon[r.call.nicks[2]]
    BY <1>0, <2>3 DEF AllSure, Sure, Renaming, NickStages, RenamesApart
  <2>8. r.target # r.other
    BY <2>6, <2>7, FoundOnce DEF CalmInv
  <2>9. /\ DOMAIN history' = DOMAIN history
        /\ \A i \in DOMAIN history :
              history'[i].target = IF history[i].target = r.other
                                   THEN r.target ELSE history[i].target
    BY <2>4, <2>5, MovedRows
  <2> QED BY <2>3, <2>8, <2>9 DEF NoneAbout
<1> QED BY <1>1, <1>2

LEMMA NoneLeftNext ==
    ASSUME IInv, CalmInv, HistoryInv, scenario.exclusive, RenamesApart, AllSure, NoneLeft,
           [Next]_vars
    PROVE  NoneLeft' /\ Len(history') >= Len(history)
<1>0. Len(history) \in Nat
  BY LenProperties DEF HistoryInv
<1>1. ASSUME NEW p \in Procs, Step(p) PROVE Grown(Theirs(p))
  BY <1>1, HistoryGrows DEF NoneLeft, NoneAbout, At
<1>2. Len(history') >= Len(history)
  BY <1>0, <1>1, HistoryQuiet DEF Grown
<1>3. ASSUME NEW q \in Procs, NEW s, s = req'[q]
      PROVE  NoneAbout(s)'
  <2>0. PICK r : r = req[q]
    OBVIOUS
  <2>1. NoneAbout(r)
    BY <2>0 DEF NoneLeft
  <2>2. CASE s = r /\ UNCHANGED history
    BY <2>1, <2>2 DEF NoneAbout
  <2>3. ASSUME NEW p \in Procs, Submit(p) PROVE NoneAbout(s)'
    <3>1. UNCHANGED history
      BY <2>3, SubmitBegins DEF Begin, tables, people
    <3>2. CASE p = q
      <4>1. Addressed(s) /\ StillRead(s)
        BY <1>3, <2>3, <3>2, BegunAddressed, BegunRead
      <4>2. PICK call, stage, who : Begin(p, call, stage, who)
        BY <2>3, SubmitBegins
      <4>3. s.target = NoId
        BY <1>3, <3>2, <4>2 DEF Begin, Idle, IInv, TablesTyped
      <4> QED BY <4>1, <4>3 DEF StillRead, AboutStages, NoneAbout
    <3>3. CASE p # q
      BY <1>3, <2>0, <2>2, <2>3, <3>1, <3>3, SubmitOthers
    <3> QED BY <3>2, <3>3
  <2>4. ASSUME NEW p \in Procs, Step(p) \/ FailQuery(p) \/ LoseWrite(p)
        PROVE  NoneAbout(s)'
    <3>1. CASE p = q
      BY <1>3, <2>4, <3>1, JustNoneLeft
    <3>2. CASE p # q
      <4>1. ~ At(p, "idle") /\ s = r
        BY <1>3, <2>0, <2>4, <3>2, StepKeeps DEF Keeps
      <4>2. CASE FailQuery(p) \/ LoseWrite(p)
        <5>1. UNCHANGED history
          BY <4>2 DEF FailQuery, LoseWrite, tables, people
        <5> QED BY <2>2, <4>1, <5>1
      <4>3. CASE Step(p) /\ r.stage = "nick.delete"
        <5>1. PICK two : two = Canon[r.call.nicks[2]]
          OBVIOUS
        <5>2. r.other # NoId /\ Find(two) = r.other
          BY <2>0, <4>3, <5>1 DEF CalmInv, StillThere
        <5>3. two \in Named(r.call)
          BY <2>0, <4>3, <5>1, NamedIn DEF IInv, RequestsSound, RequestSound, NickStages, Known
        <5>4. two \notin Named(req[p].call)
          BY <2>0, <3>2, <4>1, <4>3, <5>3 DEF CalmInv, TurnsApart, At
        <5>5. r.other \notin Theirs(p)
          BY <5>2, <5>4, FoundOnce DEF Theirs, CalmInv
        <5>6. \A i \in DOMAIN history : history[i].target # r.other
          BY <2>1, <4>3 DEF NoneAbout
        <5>7. \A i \in DOMAIN history' : history'[i].target # r.other
          BY <1>1, <4>3, <5>5, <5>6 DEF Grown
        <5> QED BY <4>1, <5>7 DEF NoneAbout
      <4>4. CASE r.stage # "nick.delete"
        BY <4>1, <4>4 DEF NoneAbout
      <4> QED BY <2>4, <4>2, <4>3, <4>4
    <3> QED BY <3>1, <3>2
  <2> QED BY <1>3, <2>0, <2>2, <2>3, <2>4 DEF Next, Tick, vars, tables, people
<1>4. ASSUME NEW q \in Procs PROVE NoneAbout(req[q])'
  <2>1. PICK s : s = req'[q]
    OBVIOUS
  <2>2. NoneAbout(s)'
    BY <1>3, <2>1
  <2> QED BY <2>1, <2>2 DEF NoneAbout
<1> QED BY <1>2, <1>4 DEF NoneLeft

LEMMA NoneLeftInit == Init => NoneLeft
BY DEF Init, NoneLeft, NoneAbout, Idle

(***************************************************************************)
(* When clients take turns and nobody is renamed to the nick they have,    *)
(* changeUserNick loses no row of the history, whichever queries fail: the *)
(* deletion takes along what is about the deleted, and from the move on    *)
(* nothing is.                                                             *)
(***************************************************************************)
THEOREM RenamesKeepTheHistory == Spec => HistoryOutlivesRename
<1> DEFINE Turns == scenario.exclusive /\ RenamesApart
           J == IInv /\ CalmInv /\ HistoryInv /\ (Turns => AllSure /\ NoneLeft)
<1>1. Init => J
  BY InitInv, CalmInvInit, HistoryInvInit, SureInit, NoneLeftInit
<1>2. J /\ [Next]_vars => J'
  <2> SUFFICES ASSUME J, [Next]_vars PROVE J'
    OBVIOUS
  <2>1. scenario' = scenario
    BY ScenarioStays
  <2>2. Turns' = Turns
    BY <2>1 DEF RenamesApart, CallsOf
  <2>3. IInv' /\ CalmInv' /\ HistoryInv'
    BY NextInv, CalmInvNext, HistoryInvNext
  <2>4. Turns => AllSure' /\ NoneLeft'
    BY SureNext, NoneLeftNext
  <2> QED BY <2>2, <2>3, <2>4
<1>3. J /\ [Next]_vars => (Turns => Len(history') >= Len(history))
  BY NoneLeftNext
<1> HIDE DEF J
<1>4. J /\ [Next]_vars => [scenario.exclusive /\ RenamesApart =>
                             Len(history') >= Len(history)]_vars
  BY <1>3
<1> QED
  BY <1>1, <1>2, <1>4, PTL DEF Spec, HistoryOutlivesRename
-----------------------------------------------------------------------------
(***************************************************************************)
(* What members hold.  The rows are of members that exist, whose deletion  *)
(* takes them along.                                                       *)
(***************************************************************************)
HeldInv == \A h \in held : h.user \in DOMAIN member

LEMMA HeldWriters ==
    ASSUME IInv, NEW p \in Procs, Step(p)
    PROVE  \/ UNCHANGED held \/ GiveCourses(p) \/ TakePermissions(p) \/ DeleteMember(p)
           \/ CareerStep(p) /\ held' \subseteq held
<1> USE DEF tables, people
<1>1. CASE DepartamentStep(p)
  BY <1>1
     DEF DepartamentStep, FindForRole, ClearRoles, FindForRemoval, RemoveRole,
         CheckApproved, FindToEnlist, Enlist, CollectApproved, LogApproved, RecordClass,
         CreateRole
<1>2. CASE AccountStep(p)
  BY <1>2
     DEF AccountStep, FindToFire, Dismiss, LogDismissal, TakePosts, FindToContract,
         ContractWrite, LogContract, FindPrevious, FindNew, MoveHistory,
         Rename, LogRename, CreateSession, FindToUnlock, ReadSession, Unlock
<1>3. CASE CapeStep(p)
  BY <1>3 DEF CapeStep, FindCape, PutPicture, CreateCape, FindToGive, GiveCape, WearCape
<1>4. CASE CareerStep(p)
  BY <1>4, RankEffects
<1> QED BY <1>1, <1>2, <1>3, <1>4 DEF Step

LEMMA GivenIs ==
    ASSUME NEW ids, NEW course, NEW h \in GivenRows(ids, course)
    PROVE  /\ h.user \in Range(ids) /\ h.name = course /\ h.type \in {"COURSE", "OTHER"}
           /\ h = [user |-> h.user, name |-> course, type |-> h.type]
<1>1. PICK i \in Range(ids), g \in Given(course) :
         h = [user |-> i, name |-> g.name, type |-> g.type]
  BY DEF GivenRows
<1>2. g.name = course /\ g.type \in {"COURSE", "OTHER"}
  BY DEF Given
<1> QED BY <1>1, <1>2

LEMMA HeldInvNext ==
    ASSUME IInv, HeldInv, [Next]_vars
    PROVE  HeldInv'
<1>1. CASE UNCHANGED held /\ DOMAIN member \subseteq DOMAIN member'
  BY <1>1 DEF HeldInv
<1>2. ASSUME NEW p \in Procs, Step(p) PROVE HeldInv'
  <2>1. CASE GiveCourses(p)
    <3>1. UNCHANGED member
      BY <2>1 DEF GiveCourses
    <3>2. CASE UNCHANGED held
      BY <1>1, <3>1, <3>2
    <3>3. CASE PermissionsFit(p) /\ held' = held \cup GivenRows(req[p].ids, About(p))
      <4>1. \A h \in GivenRows(req[p].ids, About(p)) : h.user \in DOMAIN member
        BY <3>3, GivenIs DEF PermissionsFit
      <4> QED BY <3>1, <3>3, <4>1 DEF HeldInv
    <3> QED BY <2>1, <3>2, <3>3 DEF GiveCourses
  <2>2. ASSUME NEW id, held' = held \ RowsOf(held, id),
               DOMAIN member \ {id} \subseteq DOMAIN member'
        PROVE  HeldInv'
    <3>1. \A h \in held' : h \in held /\ h.user # id
      BY <2>2 DEF RowsOf
    <3> QED BY <2>2, <3>1 DEF HeldInv
  <2>3. CASE TakePermissions(p)
    <3>1. UNCHANGED member /\ held' = held \ RowsOf(held, req[p].target)
      BY <2>3 DEF TakePermissions
    <3> QED BY <2>2, <3>1
  <2>4. CASE DeleteMember(p)
    <3>1. \/ UNCHANGED <<member, held>>
          \/ /\ member' = Restrict(member, DOMAIN member \ {req[p].other})
             /\ held' = held \ RowsOf(held, req[p].other)
      BY <2>4 DEF DeleteMember
    <3>2. CASE UNCHANGED <<member, held>>
      BY <1>1, <3>2
    <3>3. CASE /\ member' = Restrict(member, DOMAIN member \ {req[p].other})
               /\ held' = held \ RowsOf(held, req[p].other)
      <4>1. DOMAIN member' = DOMAIN member \ {req[p].other}
        BY <3>3 DEF Restrict
      <4> QED BY <2>2, <3>3, <4>1
    <3> QED BY <3>1, <3>2, <3>3
  <2>5. CASE UNCHANGED held /\ ~ DeleteMember(p)
    BY <1>1, <1>2, <2>5, MembersStay
  <2>6. CASE CareerStep(p)
    BY <2>6, RankEffects DEF HeldInv
  <2> QED BY <1>2, <2>1, <2>3, <2>4, <2>5, <2>6, HeldWriters
<1>3. CASE ~ \E p \in Procs : Step(p)
  <2>1. UNCHANGED member
    BY <1>3, QuietRows DEF Next, Tick, vars, tables, people
  <2>2. UNCHANGED held
    <3>1. ASSUME NEW p \in Procs, Submit(p) PROVE UNCHANGED held
      BY <3>1, SubmitBegins DEF Begin, tables, people
    <3>2. ASSUME NEW p \in Procs, FailQuery(p) \/ LoseWrite(p) PROVE UNCHANGED held
      BY <3>2 DEF FailQuery, LoseWrite, tables, people
    <3> QED BY <1>3, <3>1, <3>2 DEF Next, Tick, vars, tables, people
  <2> QED BY <1>1, <2>1, <2>2
<1> QED BY <1>2, <1>3

LEMMA HeldInvInit == Init => HeldInv
<1> SUFFICES ASSUME Init PROVE HeldInv
  OBVIOUS
<1>1. PICK s \in Scenarios : s = scenario
  BY DEF Init
<1>2. \A r \in s.posts \cup s.held : r.user \in DOMAIN s.members
  BY MembersAssumption
<1> QED BY <1>1, <1>2 DEF Init, HeldInv

(* What a request has looked up holds when it writes: a nick without a     *)
(* member is still without one, and who is approved lacks the course until *)
(* the permissions are written.                                            *)
Ready(r) ==
    /\ r.stage = "class.enlist" /\ r.target = NoId => ~ Present(Place(r, r.at))
    /\ r.stage = "nick.update" => Present(Place(r, 1)) /\ ~ Present(Place(r, 2))

Lacks(n, course) ==
    \A h \in held : h.name = course /\ h.type = "COURSE" => h.user # Find(n)

Untaught(r) ==
    r.stage \in ClassStages =>
        \A i \in DOMAIN r.call.nicks :
            /\ r.stage = "class.check" => i < r.at
            /\ r.stage = "class.settle" => "permissions" \in r.todo
            => Lacks(Place(r, i), r.call.about)

LEMMA ReadyStays ==
    ASSUME IInv, NEW q \in Procs, NEW r, r = req[q], Ready(r),
           \A n \in Named(r.call) : SameUnder(n)
    PROVE  Ready(r)'
<1>1. RequestSound(r)
  BY DEF IInv, RequestsSound
<1>2. \A n \in Named(r.call) : Present(n)' = Present(n)
  BY DEF SameUnder, Present
<1>3. CASE r.stage = "class.enlist"
  <2>1. r.at \in DOMAIN r.call.nicks
    BY <1>3, WalkPlaces DEF ClassStages
  <2>2. PICK n : n = Place(r, r.at)
    OBVIOUS
  <2>3. n \in Named(r.call)
    BY <2>1, <2>2, NamedIn DEF Place
  <2> QED BY <1>2, <1>3, <2>2, <2>3 DEF Ready, Place
<1>4. CASE r.stage = "nick.update"
  <2>1. PICK n, m : n = Place(r, 1) /\ m = Place(r, 2)
    OBVIOUS
  <2>2. n \in Named(r.call) /\ m \in Named(r.call)
    BY <1>1, <1>4, <2>1, NamedIn DEF Place, RequestSound, NickStages, Known
  <2> QED BY <1>2, <1>4, <2>1, <2>2 DEF Ready, Place
<1> QED BY <1>3, <1>4 DEF Ready

LEMMA JustReady ==
    ASSUME IInv, CalmInv, scenario.exclusive, RenamesApart, AllSure, NEW p \in Procs,
           NEW s, s = req'[p], Step(p) \/ FailQuery(p) \/ LoseWrite(p)
    PROVE  Ready(s)'
<1>0. PICK r : r = req[p]
  OBVIOUS
<1>1. CASE s.stage \notin {"class.enlist", "nick.update"}
  BY <1>1 DEF Ready
<1>2. CASE s.stage \in {"class.enlist", "nick.update"}
  <2>1. ~ Off(p) /\ ~ Answer(p)
    BY <1>2 DEF Off, Watched, NickStages, Answer, Idle, IInv, TablesTyped
  <2>2. Leading(p)
    BY <1>2, <2>1, StepLeads DEF Reranks
  <2>3. s.call = r.call /\ s.at = r.at
    BY <1>0, <2>1, <2>2, LeadingTo
  <2>4. \A i : Place(s, i) = Place(r, i)
    BY <2>3 DEF Place
  <2>5. UNCHANGED member => \A n : Present(n)' = Present(n)
    BY SameWhenQuiet DEF SameUnder, Present
  <2>6. CASE s.stage = "class.enlist"
    <3>1. FindToEnlist(p)
      BY <2>1, <2>2, <2>6, LeadingTo DEF Leading, Dismissing, At
    <3>2. /\ s.target = Find(Canon[Reached(p)]) /\ UNCHANGED member
          /\ r.stage = "class.enrol"
      BY <1>0, <2>1, <2>2, <3>1, LeadingTo DEF At
    <3>3. PICK n : n = Place(r, r.at)
      OBVIOUS
    <3>4. n = Canon[Reached(p)]
      BY <1>0, <3>3 DEF Place, Reached
    <3>5. s.target = NoId => ~ Present(n)'
      BY <2>5, <3>2, <3>4 DEF Present
    <3> QED BY <2>3, <2>6, <3>3, <3>5 DEF Ready, Place
  <2>7. CASE s.stage = "nick.update"
    <3>1. FindNew(p) \/ DeleteMember(p)
      BY <2>1, <2>2, <2>7, LeadingTo DEF Leading, Dismissing, At
    <3>2. PICK n, m : n = Place(r, 1) /\ m = Place(r, 2)
      OBVIOUS
    <3>3. CASE FindNew(p)
      <4>1. r.stage = "nick.new" /\ UNCHANGED member
        BY <1>0, <3>3 DEF FindNew, At, tables, people
      <4>2. Present(n)
        BY <1>0, <3>2, <4>1 DEF CalmInv, Calm, StillRead, AboutStages, Place, Present
      <4>3. \A id : req' # [req EXCEPT ![p].stage = "nick.move", ![p].other = id]
        BY <2>7 DEF IInv, TablesTyped, Request
      <4>4. Find(NickIn(p, 2)) = NoId
        BY <2>1, <3>3, <4>3 DEF FindNew
      <4>5. ~ Present(m)
        BY <1>0, <3>2, <4>4 DEF NickIn, Place, Present
      <4> QED BY <2>3, <2>5, <2>7, <3>2, <4>1, <4>2, <4>5 DEF Ready, Place
    <3>4. CASE DeleteMember(p)
      <4>1. r.stage = "nick.delete" /\ Leaves(r.other)
        BY <1>0, <2>1, <2>2, <3>4, LeadingTo DEF At
      <4>2. /\ Find(n) # NoId
            /\ Find(m) = r.other /\ r.other # NoId
        BY <1>0, <3>2, <4>1 DEF CalmInv, Calm, StillRead, StillThere, AboutStages, Place
      <4>3. n # m
        BY <1>0, <3>2, <4>1 DEF AllSure, Sure, Renaming, NickStages, RenamesApart, Place
      <4>4. WithNick(m) \subseteq {r.other} /\ r.other \notin WithNick(n)
        <5>1. \A id \in WithNick(m) : id = r.other
          BY <4>2, FindIs DEF CalmInv
        <5>2. r.other \in WithNick(m)
          BY <4>2, FindIs DEF CalmInv
        <5> QED BY <4>3, <5>1, <5>2 DEF WithNick
      <4>5. WithNick(m)' = {} /\ WithNick(n)' = WithNick(n)
        BY <4>1, <4>4 DEF Leaves, WithNick
      <4>6. Find(n)' = Find(n) /\ Find(m)' = NoId
        BY <4>5, SameFind DEF Find
      <4>7. Present(n)' /\ ~ Present(m)'
        BY <4>2, <4>6 DEF Present
      <4> QED BY <2>3, <2>7, <3>2, <4>7 DEF Ready, Place
    <3> QED BY <3>1, <3>3, <3>4
  <2> QED BY <1>2, <2>6, <2>7
<1> QED BY <1>1, <1>2

(* Whom a class gives its course: members its call names.                  *)
LEMMA GivesToTheirs ==
    ASSUME IInv, CalmInv, AllSure, NEW p \in Procs, Step(p), NEW h \in held' \ held
    PROVE  GiveCourses(p) /\ h.user \in Theirs(p)
<1>0. PICK r : r = req[p]
  OBVIOUS
<1>1. GiveCourses(p)
  BY HeldWriters DEF TakePermissions, DeleteMember
<1>2. r.stage = "class.settle" /\ r.stage \in ClassStages
  BY <1>0, <1>1 DEF GiveCourses, At, ClassStages
<1>3. h \in GivenRows(r.ids, About(p))
  BY <1>0, <1>1 DEF GiveCourses
<1>4. PICK k \in DOMAIN r.ids : h.user = r.ids[k]
  BY <1>3, GivenIs DEF Range
<1>5. k \in DOMAIN r.call.nicks
  BY <1>0, <1>2, <1>4, IdsInPlace DEF AllSure, Sure
<1>6. Present(Place(r, k)) /\ r.ids[k] = Find(Place(r, k))
  BY <1>0, <1>2, <1>4, <1>5 DEF AllSure, Sure, Enrolled
<1>7. Place(r, k) \in Named(r.call)
  BY <1>5, NamedIn DEF Place
<1> QED BY <1>0, <1>1, <1>4, <1>6, <1>7 DEF Theirs, Present

LEMMA LacksStays ==
    ASSUME NEW n, NEW course, Lacks(n, course), Find(n)' = Find(n),
           \A h \in held' \ held : h.user # Find(n)
    PROVE  Lacks(n, course)'
BY DEF Lacks

LEMMA UntaughtStays ==
    ASSUME NEW r, Untaught(r), \A n \in Named(r.call) : SameUnder(n),
           \A h \in held' \ held : \A n \in Named(r.call) : h.user # Find(n)
    PROVE  Untaught(r)'
<1>1. ASSUME NEW i \in DOMAIN r.call.nicks, Lacks(Place(r, i), r.call.about)
      PROVE  Lacks(Place(r, i), r.call.about)'
  <2>1. PICK n : n = Place(r, i)
    OBVIOUS
  <2>2. n \in Named(r.call)
    BY <2>1, NamedIn DEF Place
  <2>3. Lacks(n, r.call.about)'
    BY <1>1, <2>1, <2>2, LacksStays DEF SameUnder
  <2> QED BY <2>1, <2>3 DEF Place, Lacks
<1> QED BY <1>1 DEF Untaught

LEMMA SettlesClass ==
    ASSUME IInv, NEW p \in Procs, Step(p) \/ FailQuery(p) \/ LoseWrite(p),
           req[p].stage = "class.settle"
    PROVE  /\ GiveCourses(p) \/ LogApproved(p) \/ RecordClass(p) \/ LoseWrite(p)
           /\ "permissions" \in req'[p].todo => "permissions" \in req[p].todo /\ UNCHANGED held
<1>1. Step(p) => GiveCourses(p) \/ LogApproved(p) \/ RecordClass(p)
  <2>0. ~ CareerStep(p)
    BY RankGoesOn DEF RankStages
  <2>1. ~ AccountStep(p)
    BY DEF AccountStep, FindToFire, Dismiss, LogDismissal, TakePermissions, TakePosts,
       FindToContract, ContractWrite, LogContract, FindPrevious, FindNew, MoveHistory,
       DeleteMember, Rename, LogRename, CreateSession, FindToUnlock, ReadSession, Unlock, At
  <2>2. ~ CapeStep(p)
    BY DEF CapeStep, FindCape, PutPicture, CreateCape, FindToGive, GiveCape, WearCape, At
  <2>3. DepartamentStep(p) => GiveCourses(p) \/ LogApproved(p) \/ RecordClass(p)
    BY DEF DepartamentStep, FindForRole, ClearRoles, CreateRole, FindForRemoval, RemoveRole,
       CheckApproved, FindToEnlist, Enlist, CollectApproved, At
  <2> QED BY <2>0, <2>1, <2>2, <2>3 DEF Step
<1>2. ~ FailQuery(p)
  BY DEF FailQuery, Settling
<1>3. GiveCourses(p) \/ LogApproved(p) \/ RecordClass(p) \/ LoseWrite(p)
  BY <1>1, <1>2
<1>4. \A w : Settle(p, w) => req'[p].todo \subseteq req[p].todo \ {w}
  <2> SUFFICES ASSUME NEW w, Settle(p, w) PROVE req'[p].todo \subseteq req[p].todo \ {w}
    OBVIOUS
  <2>1. CASE Answer(p)
    BY <2>1 DEF Answer, Idle, IInv, TablesTyped
  <2>2. CASE req' = [req EXCEPT ![p].todo = @ \ {w}]
    BY <2>2 DEF IInv, TablesTyped, Request
  <2> QED BY <2>1, <2>2 DEF Settle
<1>5. CASE GiveCourses(p)
  <2>1. "permissions" \notin req'[p].todo
    BY <1>4, <1>5 DEF GiveCourses
  <2> QED BY <1>5, <2>1
<1>6. CASE LogApproved(p) \/ RecordClass(p) \/ LoseWrite(p)
  <2>1. UNCHANGED held /\ \E w : Settle(p, w)
    BY <1>6 DEF LogApproved, RecordClass, LoseWrite, tables, people
  <2> QED BY <1>3, <1>4, <2>1
<1> QED BY <1>3, <1>5, <1>6

LEMMA PassedLacks ==
    ASSUME IInv, HeldInv, NEW nick, Canon[nick] = nick, NEW course, MayPass(nick, course)
    PROVE  Lacks(nick, course)
<1>1. CASE Find(nick) = NoId
  BY <1>1 DEF HeldInv, Lacks, IInv, TablesTyped, NoId
<1>2. CASE Find(nick) # NoId
  <2>1. ~ HoldsCourse(Find(nick), course)
    BY <1>2 DEF MayPass
  <2>2. held \subseteq HeldRow
    BY DEF IInv, TablesTyped
  <2> QED BY <2>1, <2>2 DEF Lacks, HoldsCourse, HeldRow
<1> QED BY <1>1, <1>2

LEMMA LacksEnlisted ==
    ASSUME IInv, CalmInv, HeldInv, NEW p \in Procs, Enlist(p), NEW n, NEW course,
           Lacks(n, course)
    PROVE  Lacks(n, course)'
<1>1. UNCHANGED held /\ DepartamentStep(p)
  BY DEF Enlist, DepartamentStep
<1>2. CASE n # Canon[Reached(p)]
  <2>1. SameUnder(n)
    BY <1>2, SameBesideEnlisted DEF CalmInv
  <2> QED BY <1>1, <2>1, LacksStays DEF SameUnder
<1>3. CASE n = Canon[Reached(p)]
  <2>1. ~ WearCape(p)
    BY DEF WearCape, Enlist, At
  <2>2. UNCHANGED member \/ Rewrites(Find(n)) \/ Joins(n)
    BY <1>1, <1>3, <2>1, OtherRows
  <2>3. CASE UNCHANGED member \/ Rewrites(Find(n))
    <3>1. WithNick(n)' = WithNick(n)
      BY <2>3, RewritesNicks DEF WithNick
    <3> QED BY <1>1, <3>1, SameFind, LacksStays
  <2>4. CASE Joins(n)
    <3>1. Find(n)' = created + 1
      BY <2>4, JoinsIsFound DEF CalmInv
    <3>2. \A h \in held : h.user # created + 1
      BY <2>4 DEF HeldInv, Joins
    <3> QED BY <1>1, <3>1, <3>2 DEF Lacks
  <2> QED BY <2>2, <2>3, <2>4
<1> QED BY <1>2, <1>3

LEMMA JustUntaught ==
    ASSUME IInv, CalmInv, HeldInv, ClassesAreClean, AllTeaching, NEW p \in Procs,
           NEW s, s = req'[p], Step(p) \/ FailQuery(p) \/ LoseWrite(p),
           NEW r, r = req[p], Untaught(r)
    PROVE  Untaught(s)'
<1>1. CASE s.stage \notin ClassStages
  BY <1>1 DEF Untaught
<1>2. CASE s.stage \in ClassStages
  <2> DEFINE c == r.call
  <2>1. s.call = c /\ r.stage \in ClassStages
    BY <1>2, WalkTo DEF ClassStages
  <2>2. /\ c.nicks \in Seq(Typed) /\ r.at \in Nat
        /\ DOMAIN c.nicks = 1..Len(c.nicks) /\ Len(c.nicks) \in Nat /\ r.at \in DOMAIN c.nicks
        /\ Reached(p) = c.nicks[r.at] /\ About(p) = c.about
    BY <2>1, WalkPlaces
  <2>3. UNCHANGED member /\ UNCHANGED held =>
           \A n : Lacks(n, c.about) => Lacks(n, c.about)'
    BY SameWhenQuiet, LacksStays DEF SameUnder
  <2>4. r.stage # "class.settle" => UNCHANGED held
    <3>1. ~ CareerStep(p)
      BY <2>1, RankGoesOn DEF RankStages, ClassStages
    <3>2. Step(p) /\ r.stage # "class.settle" => UNCHANGED held
      BY <2>1, <3>1, HeldWriters DEF GiveCourses, TakePermissions, DeleteMember, At, ClassStages
    <3> QED BY <3>2 DEF FailQuery, LoseWrite, tables, people
  <2>5. ASSUME NEW i \in DOMAIN c.nicks, Lacks(Place(r, i), c.about)'
        PROVE  Lacks(Place(s, i), s.call.about)'
    BY <2>1, <2>5 DEF Place, Lacks
  <2>6. CASE /\ r.stage = "class.check" /\ UNCHANGED member
             /\ MayPass(Reached(p), About(p))
             /\ Ahead(r, s, "class.check", AfterCheck(About(p)))
    <3>1. Canon[Reached(p)] = Reached(p)
      <4>1. r.call \in CallsOf("postClass")
        BY <2>1 DEF AllTeaching, Teaching
      <4> QED BY <2>2, <4>1, TaughtCleanly
    <3>2. Lacks(Reached(p), About(p))
      BY <2>6, <3>1, PassedLacks
    <3>3. ASSUME NEW i \in DOMAIN c.nicks, i <= r.at PROVE Lacks(Place(r, i), c.about)'
      <4>1. PICK n : n = Place(r, i)
        OBVIOUS
      <4>2. Lacks(n, c.about)
        <5>1. CASE i = r.at
          BY <2>2, <3>1, <3>2, <4>1, <5>1 DEF Place
        <5>2. CASE i < r.at
          BY <2>1, <2>6, <4>1, <5>2 DEF Untaught
        <5> QED BY <2>2, <3>3, <5>1, <5>2
      <4>3. Lacks(n, c.about)'
        BY <2>3, <2>4, <2>6, <4>2
      <4> QED BY <4>1, <4>3 DEF Lacks, Place
    <3>4. ASSUME NEW i \in DOMAIN c.nicks, s.stage = "class.check" => i < s.at
          PROVE  Lacks(Place(s, i), s.call.about)'
      <4>1. i <= r.at
        BY <2>2, <2>6, <3>4 DEF Ahead
      <4> QED BY <2>5, <3>3, <4>1
    <3> QED BY <2>1, <3>4 DEF Untaught
  <2>7. CASE /\ r.stage \in {"class.enrol", "class.enlist", "class.collect"}
             /\ UNCHANGED member \/ Enlist(p)
    <3>1. ASSUME NEW i \in DOMAIN c.nicks
          PROVE  Lacks(Place(s, i), s.call.about)'
      <4>1. PICK n : n = Place(r, i)
        OBVIOUS
      <4>2. Lacks(n, c.about)
        BY <2>1, <2>7, <4>1 DEF Untaught
      <4>3. Lacks(n, c.about)'
        BY <2>3, <2>4, <2>7, <4>2, LacksEnlisted
      <4>4. Lacks(Place(r, i), c.about)'
        BY <4>1, <4>3 DEF Lacks, Place
      <4> QED BY <2>5, <4>4
    <3> QED BY <2>1, <3>1 DEF Untaught
  <2>8. CASE r.stage = "class.settle" /\ s.stage = "class.settle" /\ UNCHANGED member
    <3>1. "permissions" \in s.todo => "permissions" \in r.todo /\ UNCHANGED held
      BY <2>8, SettlesClass
    <3>2. ASSUME NEW i \in DOMAIN c.nicks, "permissions" \in s.todo
          PROVE  Lacks(Place(s, i), s.call.about)'
      <4>1. PICK n : n = Place(r, i)
        OBVIOUS
      <4>2. Lacks(n, c.about)
        BY <2>1, <2>8, <3>1, <3>2, <4>1 DEF Untaught
      <4>3. Lacks(n, c.about)'
        BY <2>3, <2>8, <3>1, <3>2, <4>2
      <4>4. Lacks(Place(r, i), c.about)'
        BY <4>1, <4>3 DEF Lacks, Place
      <4> QED BY <2>5, <4>4
    <3> QED BY <2>1, <2>8, <3>2 DEF Untaught
  <2> QED BY <1>2, <2>6, <2>7, <2>8, WalkTo
<1> QED BY <1>1, <1>2

Poised(r) == Ready(r) /\ Untaught(r)

AllPoised == \A q \in Procs : Poised(req[q])

LEMMA PoisedNext ==
    ASSUME IInv, CalmInv, HeldInv, scenario.exclusive, ClassesAreClean, RenamesApart,
           AllTeaching, AllSure, AllPoised, [Next]_vars
    PROVE  AllPoised'
<1>1. ASSUME NEW q \in Procs, NEW s, s = req'[q]
      PROVE  Poised(s)'
  <2>0. PICK r : r = req[q]
    OBVIOUS
  <2>1. Poised(r)
    BY <2>0 DEF AllPoised
  <2>2. CASE s = r /\ UNCHANGED <<member, held>>
    <3>1. Ready(r)' /\ Untaught(r)'
      BY <2>0, <2>1, <2>2, SameWhenQuiet, ReadyStays, UntaughtStays DEF Poised
    <3> QED BY <2>2, <3>1 DEF Poised
  <2>3. ASSUME NEW p \in Procs, Submit(p) PROVE Poised(s)'
    <3>1. UNCHANGED <<member, held>>
      BY <2>3, NoneFires
    <3>2. CASE p = q
      <4>1. s.stage \in ClassStages => s.stage = "class.check" /\ s.at = 1
        BY <1>1, <2>3, <3>2, BegunTeaching
      <4>2. s \in Request /\ StillRead(s)
        BY <1>1, <2>3, <3>2, NextInv, BegunRead DEF IInv, TablesTyped
      <4>3. s.stage \in ClassStages => \A i \in DOMAIN s.call.nicks : ~ i < s.at
        <5>1. s.call.nicks \in Seq(Typed)
          BY <4>2 DEF Request, Call
        <5> QED BY <4>1, <5>1, LenProperties
      <4>4. PICK call, stage, who : Begin(p, call, stage, who)
        BY <2>3, SubmitBegins
      <4>5. s.target = NoId
        BY <1>1, <3>2, <4>4 DEF Begin, Idle, IInv, TablesTyped
      <4>6. s.stage # "nick.update"
        BY <4>2, <4>5 DEF StillRead
      <4>7. s.stage # "class.enlist"
        BY <4>1 DEF ClassStages
      <4> QED BY <4>1, <4>3, <4>6, <4>7 DEF Poised, Ready, Untaught
    <3>3. CASE p # q
      BY <1>1, <2>0, <2>2, <2>3, <3>1, <3>3, SubmitOthers
    <3> QED BY <3>2, <3>3
  <2>4. ASSUME NEW p \in Procs, Step(p) \/ FailQuery(p) \/ LoseWrite(p) PROVE Poised(s)'
    <3>1. CASE p = q
      BY <1>1, <2>0, <2>1, <2>4, <3>1, JustReady, JustUntaught DEF Poised
    <3>2. CASE p # q
      <4>1. ~ At(p, "idle") /\ s = r
        BY <1>1, <2>0, <2>4, <3>2, StepKeeps DEF Keeps
      <4>2. CASE FailQuery(p) \/ LoseWrite(p)
        <5>1. UNCHANGED <<member, held>>
          BY <4>2 DEF FailQuery, LoseWrite, tables, people
        <5> QED BY <2>2, <4>1, <5>1
      <4>3. CASE r.stage = "idle"
        BY <4>1, <4>3 DEF Poised, Ready, Untaught, ClassStages
      <4>4. CASE r.stage # "idle" /\ Step(p)
        <5>1. Named(r.call) \cap Named(req[p].call) = {}
          BY <2>0, <3>2, <4>1, <4>4 DEF CalmInv, TurnsApart, At
        <5>2. \A n \in Named(r.call) : SameUnder(n)
          BY <4>4, <5>1, SameElsewhere
        <5>3. \A h \in held' \ held : \A n \in Named(r.call) : h.user # Find(n)
          <6> SUFFICES ASSUME NEW h \in held' \ held, NEW n \in Named(r.call),
                              h.user = Find(n)
                       PROVE  FALSE
            OBVIOUS
          <6>1. PICK m \in Named(req[p].call) : Find(m) # NoId /\ h.user = Find(m)
            BY <4>4, GivesToTheirs DEF Theirs
          <6>2. n = m
            BY <6>1, FoundOnce DEF CalmInv
          <6> QED BY <5>1, <6>1, <6>2
        <5>4. Ready(r)' /\ Untaught(r)'
          BY <2>0, <2>1, <5>2, <5>3, ReadyStays, UntaughtStays DEF Poised
        <5> QED BY <4>1, <5>4 DEF Poised
      <4> QED BY <2>4, <4>2, <4>3, <4>4
    <3> QED BY <3>1, <3>2
  <2> QED BY <1>1, <2>0, <2>2, <2>3, <2>4 DEF Next, Tick, vars, tables, people
<1>2. ASSUME NEW q \in Procs PROVE Poised(req[q])'
  <2>1. PICK s : s = req'[q]
    OBVIOUS
  <2>2. Poised(s)'
    BY <1>1, <2>1
  <2>3. Ready(s)' => Ready(req[q])'
    BY <2>1 DEF Ready, Present, Place
  <2>4. Untaught(s)' => Untaught(req[q])'
    BY <2>1 DEF Untaught, Lacks, Place
  <2> QED BY <2>2, <2>3, <2>4 DEF Poised
<1> QED BY <1>2 DEF AllPoised

LEMMA PoisedInit == Init => AllPoised
BY DEF Init, AllPoised, Poised, Ready, Untaught, ClassStages, Idle

(* No query of a handler that has begun to write goes wrong.               *)
LEMMA ClassGoesOn ==
    ASSUME IInv, CalmInv, scenario.exclusive, AllSure, AllPoised, NEW p \in Procs, Step(p),
           req[p].stage \in {"class.enlist", "class.collect"}
    PROVE  req'[p].stage # "idle"
<1>0. PICK r : r = req[p]
  OBVIOUS
<1>a. r.stage \in ClassStages /\ r \in Request
  BY <1>0 DEF ClassStages, IInv, TablesTyped
<1>b. r.at \in DOMAIN r.call.nicks /\ Reached(p) = r.call.nicks[r.at]
  BY <1>0, <1>a, WalkPlaces
<1>c. ~ CareerStep(p)
  BY RankGoesOn DEF RankStages
<1>1. CASE r.stage = "class.enlist"
  <2> DEFINE o == [Onward(p, "class.enrol", "class.collect") EXCEPT !.target = NoId]
  <2>1. Enlist(p)
    BY <1>0, <1>1, <1>c
       DEF Step, DepartamentStep, AccountStep, CapeStep, FindForRole, ClearRoles, CreateRole,
           FindForRemoval, RemoveRole, CheckApproved, FindToEnlist, CollectApproved,
           GiveCourses, LogApproved, RecordClass, FindToFire, Dismiss, LogDismissal,
           TakePermissions, TakePosts, FindToContract, ContractWrite, LogContract,
           FindPrevious, FindNew, MoveHistory, DeleteMember, Rename, LogRename,
           CreateSession, FindToUnlock, ReadSession, Unlock, FindCape, PutPicture,
           CreateCape, FindToGive, GiveCape, WearCape, At
  <2>2. (r.target = NoId) = (Find(Canon[Reached(p)]) = NoId)
    <3>1. StillRead(r) /\ Ready(r)
      BY <1>0 DEF CalmInv, Calm, AllPoised, Poised
    <3> QED BY <1>1, <1>b, <3>1 DEF StillRead, Ready, Place, Present
  <2>3. req' = [req EXCEPT ![p] = o]
    BY <1>0, <2>1, <2>2 DEF Enlist
  <2>4. o.stage \in {"class.enrol", "class.collect"}
    BY <1>0, <1>a DEF Onward, Request
  <2> HIDE DEF o
  <2>5. req'[p] = o
    BY <2>3 DEF IInv, TablesTyped
  <2> QED BY <2>4, <2>5
<1>2. CASE r.stage = "class.collect"
  <2> DEFINE id == Find(Canon[Reached(p)])
             o == [Onward(p, "class.collect", "class.settle") EXCEPT
                     !.ids  = Append(@, id), !.todo = {"permissions", "log", "class"}]
  <2>1. CollectApproved(p)
    BY <1>0, <1>2, <1>c
       DEF Step, DepartamentStep, AccountStep, CapeStep, FindForRole, ClearRoles, CreateRole,
           FindForRemoval, RemoveRole, CheckApproved, FindToEnlist, Enlist,
           GiveCourses, LogApproved, RecordClass, FindToFire, Dismiss, LogDismissal,
           TakePermissions, TakePosts, FindToContract, ContractWrite, LogContract,
           FindPrevious, FindNew, MoveHistory, DeleteMember, Rename, LogRename,
           CreateSession, FindToUnlock, ReadSession, Unlock, FindCape, PutPicture,
           CreateCape, FindToGive, GiveCape, WearCape, At
  <2>2. id # NoId
    <3>1. Present(Place(r, r.at))
      BY <1>0, <1>2, <1>b DEF AllSure, Sure, Enrolled
    <3> QED BY <1>b, <3>1 DEF Place, Present
  <2>3. req' = [req EXCEPT ![p] = o]
    BY <1>0, <2>1, <2>2 DEF CollectApproved
  <2>4. o.stage \in {"class.collect", "class.settle"}
    BY <1>0, <1>a DEF Onward, Request
  <2> HIDE DEF o
  <2>5. req'[p] = o
    BY <2>3 DEF IInv, TablesTyped
  <2> QED BY <2>4, <2>5
<1> QED BY <1>0, <1>1, <1>2

LEMMA RenameGoesOn ==
    ASSUME IInv, CalmInv, scenario.exclusive, scenario.bonified = {}, AllPoised,
           NEW p \in Procs, Step(p), req[p].stage \in {"nick.delete", "nick.update"}
    PROVE  req'[p].stage # "idle"
<1>0. PICK r : r = req[p]
  OBVIOUS
<1>1. \A stage : Goto(p, stage) => req'[p].stage = stage
  BY DEF Goto, IInv, TablesTyped, Request
<1>2. DeleteMember(p) \/ Rename(p)
  <2>0. ~ CareerStep(p)
    BY RankGoesOn DEF RankStages
  <2>1. ~ DepartamentStep(p) /\ ~ CapeStep(p)
    BY DEF DepartamentStep, CapeStep, FindForRole, ClearRoles, CreateRole,
           FindForRemoval, RemoveRole, CheckApproved, FindToEnlist, Enlist, CollectApproved,
           GiveCourses, LogApproved, RecordClass, FindCape, PutPicture,
           CreateCape, FindToGive, GiveCape, WearCape, At
  <2>2. AccountStep(p) => DeleteMember(p) \/ Rename(p)
    BY DEF AccountStep, FindToFire, Dismiss, LogDismissal,
           TakePermissions, TakePosts, FindToContract, ContractWrite, LogContract,
           FindPrevious, FindNew, MoveHistory, LogRename,
           CreateSession, FindToUnlock, ReadSession, Unlock, At
  <2> QED BY <2>0, <2>1, <2>2 DEF Step
<1>3. CASE DeleteMember(p)
  <2>1. r.stage = "nick.delete" /\ StillThere(r)
    BY <1>0, <1>3 DEF DeleteMember, At, CalmInv
  <2>2. r.other \in DOMAIN member
    BY <2>1, FindIs DEF StillThere, CalmInv
  <2>3. Goto(p, "nick.update")
    BY <1>0, <1>3, <2>2 DEF DeleteMember
  <2> QED BY <1>1, <2>3
<1>4. CASE Rename(p)
  <2>1. r.stage = "nick.update" /\ Ready(r)
    BY <1>0, <1>4 DEF Rename, At, AllPoised, Poised
  <2>2. Find(NickIn(p, 1)) # NoId /\ Find(NickIn(p, 2)) = NoId
    BY <1>0, <2>1 DEF Ready, Place, Present, NickIn
  <2>3. WithNick(NickIn(p, 2)) = {}
    BY <2>2, FindIs DEF CalmInv
  <2>4. Goto(p, "nick.log")
    BY <1>4, <2>2, <2>3 DEF Rename, ToRename
  <2> QED BY <1>1, <2>4
<1> QED BY <1>2, <1>3, <1>4

LEMMA RoleIsCreated ==
    ASSUME IInv, CalmInv, scenario.exclusive, OneInv, NEW p \in Procs, Step(p),
           At(p, "role.create")
    PROVE  posts' # posts
<1> DEFINE row == [user |-> req[p].target, role |-> About(p)]
<1>0. ~ CareerStep(p)
  BY RankGoesOn DEF RankStages, At
<1>1. CreateRole(p)
  BY <1>0 DEF Step, DepartamentStep, AccountStep, CapeStep, FindForRole, ClearRoles,
         FindForRemoval, RemoveRole, CheckApproved, FindToEnlist, Enlist, CollectApproved,
         GiveCourses, LogApproved, RecordClass, FindToFire, Dismiss, LogDismissal,
         TakePermissions, TakePosts, FindToContract, ContractWrite, LogContract,
         FindPrevious, FindNew, MoveHistory, DeleteMember, Rename, LogRename,
         CreateSession, FindToUnlock, ReadSession, Unlock, FindCape, PutPicture,
         CreateCape, FindToGive, GiveCape, WearCape, At
<1>2. req[p].target \in DOMAIN member
  <2>1. StillRead(req[p])
    BY DEF CalmInv, Calm
  <2> QED BY <2>1, FindIs DEF StillRead, AboutStages, At, CalmInv
<1>3. row.user = req[p].target /\ row.role = About(p)
  OBVIOUS
<1>4. row \in posts'
  BY <1>1, <1>2 DEF CreateRole
<1>5. row \notin posts
  BY <1>3 DEF OneInv, Rivals
<1> QED BY <1>4, <1>5

(* A class: as many ids as members, each of them once.                     *)
LEMMA IdsOnce ==
    ASSUME IInv, CalmInv, AllTeaching, AllSure, ClassesAreClean, NEW p \in Procs,
           req[p].stage = "class.settle"
    PROVE  /\ ~ Repeats(req[p].ids) /\ Range(req[p].ids) \subseteq DOMAIN member
           /\ 1 \in DOMAIN req[p].ids
           /\ \A k \in DOMAIN req[p].ids :
                 /\ k \in DOMAIN req[p].call.nicks
                 /\ req[p].ids[k] = Find(Place(req[p], k))
<1>0. PICK r : r = req[p]
  OBVIOUS
<1> DEFINE ids == r.ids
           c == r.call
<1>1. r.stage = "class.settle" /\ r.stage \in ClassStages
  BY <1>0 DEF ClassStages
<1>2. /\ c \in CallsOf("postClass") /\ c.nicks \in Seq(Typed) /\ r.at \in DOMAIN c.nicks
      /\ DOMAIN c.nicks = 1..Len(c.nicks) /\ Len(c.nicks) \in Nat
  BY <1>0, <1>1, WalkPlaces DEF AllTeaching, Teaching
<1>3. ids \in Seq(Nat)
  BY <1>0 DEF IInv, TablesTyped, Request
<1>4. /\ Len(ids) = Len(c.nicks)
      /\ \A i \in DOMAIN c.nicks : Present(Place(r, i))
      /\ \A k \in DOMAIN ids : ids[k] = Find(Place(r, k))
  BY <1>0, <1>1 DEF AllSure, Sure, Enrolled
<1>5. DOMAIN ids = 1..Len(ids) /\ Len(ids) \in Nat /\ DOMAIN ids = DOMAIN c.nicks
  BY <1>2, <1>3, <1>4, LenProperties
<1>6. ASSUME NEW i \in DOMAIN ids, NEW j \in DOMAIN ids, ids[i] = ids[j]
      PROVE  i = j
  <2>1. i \in DOMAIN c.nicks /\ j \in DOMAIN c.nicks
    BY <1>5
  <2>2. PICK n, m : n = Place(r, i) /\ m = Place(r, j)
    OBVIOUS
  <2>3. Find(n) = Find(m) /\ Find(n) # NoId
    BY <1>4, <1>6, <2>1, <2>2 DEF Present
  <2>4. n = m
    BY <2>3, FoundOnce DEF CalmInv
  <2>5. Canon[c.nicks[i]] = c.nicks[i] /\ Canon[c.nicks[j]] = c.nicks[j]
    BY <1>2, <2>1, TaughtCleanly
  <2>6. c.nicks[i] = c.nicks[j]
    BY <2>2, <2>4, <2>5 DEF Place
  <2> QED BY <1>2, <2>1, <2>6, TaughtCleanly
<1>7. Range(ids) \subseteq DOMAIN member
  <2>1. ASSUME NEW k \in DOMAIN ids PROVE ids[k] \in DOMAIN member
    <3>1. PICK n : n = Place(r, k)
      OBVIOUS
    <3>2. Find(n) # NoId /\ ids[k] = Find(n)
      BY <1>4, <1>5, <3>1 DEF Present
    <3> QED BY <3>2, FindType
  <2> QED BY <2>1 DEF Range
<1>8. Cardinality(Range(ids)) = Len(ids)
  <2> DEFINE D == 1..Len(ids)
             R == Range(ids)
  <2>1. IsFiniteSet(D) /\ Cardinality(D) = Len(ids)
    <3>1. 1 \in Int /\ Len(ids) \in Int
      BY <1>5
    <3>2. /\ IsFiniteSet(D)
          /\ Cardinality(D) = IF 1 > Len(ids) THEN 0 ELSE Len(ids) - 1 + 1
      BY <3>1, FS_Interval
    <3> QED BY <1>5, <3>2
  <2>2. DOMAIN ids = D
    BY <1>5
  <2>3. ids \in [D -> R] /\ \A t \in R : \E k \in D : ids[k] = t
    BY <1>3, <2>2 DEF Range
  <2>4. \A i, j \in D : ids[i] = ids[j] => i = j
    BY <1>6, <2>2
  <2> HIDE DEF D, R
  <2>5. ids \in Bijection(D, R)
    <3> HIDE DEF ids
    <3> QED BY <2>3, <2>4 DEF Bijection, Injection, Surjection, IsInjective
  <2>6. Cardinality(R) = Cardinality(D)
    <3> HIDE DEF ids
    <3> QED BY <2>1, <2>5, FS_Bijection DEF ExistsBijection
  <2> QED BY <2>1, <2>6 DEF R
<1>9. 1 \in DOMAIN ids
  BY <1>2, <1>5
<1> QED BY <1>0, <1>4, <1>5, <1>7, <1>8, <1>9 DEF Repeats

LEMMA CoursesAreGiven ==
    ASSUME IInv, CalmInv, AllTeaching, AllSure, AllPoised, ClassesAreClean, NEW p \in Procs,
           GiveCourses(p), ~ KeptFromEarlier(p)
    PROVE  held' # held
<1>0. PICK r : r = req[p]
  OBVIOUS
<1> DEFINE rows == GivenRows(r.ids, About(p))
<1>1. r.stage = "class.settle" /\ "permissions" \in r.todo /\ r.stage \in ClassStages
  BY <1>0 DEF GiveCourses, At, ClassStages
<1>2. rows \cap held = {}
  <2> SUFFICES ASSUME NEW h \in rows, h \in held PROVE FALSE
    OBVIOUS
  <2>1. /\ h.user \in Range(r.ids) /\ h.name = About(p)
        /\ h = [user |-> h.user, name |-> About(p), type |-> h.type]
        /\ h.type \in {"COURSE", "OTHER"}
    BY GivenIs
  <2>2. PICK k \in DOMAIN r.ids : h.user = r.ids[k]
    BY <2>1 DEF Range
  <2>3. k \in DOMAIN r.call.nicks /\ h.user = Find(Place(r, k))
    BY <1>0, <1>1, <2>2, IdsOnce
  <2>4. Lacks(Place(r, k), r.call.about)
    BY <1>0, <1>1, <2>3 DEF AllPoised, Poised, Untaught
  <2>5. h.type = "OTHER"
    BY <1>0, <2>1, <2>3, <2>4 DEF Lacks, About
  <2>6. [user |-> h.user, name |-> About(p), type |-> "OTHER"] \in held
    BY <2>1, <2>5
  <2> QED BY <1>0, <2>1, <2>6 DEF KeptFromEarlier
<1>3. PermissionsFit(p)
  BY <1>0, <1>1, <1>2, IdsOnce DEF PermissionsFit
<1>4. \E h : h \in rows
  <2>1. PICK g : g = [name |-> About(p), type |-> "COURSE"]
    OBVIOUS
  <2>2. g \in Given(About(p))
    BY <2>1 DEF Given
  <2>3. r.ids[1] \in Range(r.ids)
    BY <1>0, <1>1, IdsOnce DEF Range
  <2>4. PICK h : h = [user |-> r.ids[1], name |-> g.name, type |-> g.type]
    OBVIOUS
  <2>5. h \in rows
    BY <2>2, <2>3, <2>4 DEF GivenRows
  <2> QED BY <2>5
<1>5. held' = held \cup rows
  BY <1>0, <1>3 DEF GiveCourses
<1> QED BY <1>2, <1>4, <1>5

BegunGoesOn(p) ==
    /\ req[p].stage \in {"class.enlist", "class.collect", "nick.delete", "nick.update"} =>
          req'[p].stage # "idle"
    /\ At(p, "role.create") /\ req'[p] # req[p] => posts' # posts
    /\ At(p, "class.settle") /\ "permissions" \in req[p].todo \ req'[p].todo =>
          held' # held \/ KeptFromEarlier(p)

LEMMA OrderlyGoesOn ==
    ASSUME IInv, CalmInv, HeldInv, AllTeaching, OneInv, AllSure, AllPoised, Orderly,
           [Next]_vars, NEW p \in Procs
    PROVE  BegunGoesOn(p)
<1>1. CASE req'[p] = req[p]
  BY <1>1 DEF BegunGoesOn
<1>2. CASE At(p, "idle")
  BY <1>2 DEF BegunGoesOn, At
<1>3. CASE ~ At(p, "idle") /\ req'[p] # req[p]
  <2>1. Step(p)
    BY <1>3, OwnStep DEF FailQuery, LoseWrite, Orderly
  <2>2. req[p].stage \in {"class.enlist", "class.collect"} => req'[p].stage # "idle"
    BY <2>1, ClassGoesOn DEF Orderly
  <2>3. req[p].stage \in {"nick.delete", "nick.update"} => req'[p].stage # "idle"
    BY <2>1, RenameGoesOn DEF Orderly
  <2>4. At(p, "role.create") => posts' # posts
    BY <2>1, RoleIsCreated DEF Orderly
  <2>5. ASSUME At(p, "class.settle"), "permissions" \in req[p].todo \ req'[p].todo
        PROVE  held' # held \/ KeptFromEarlier(p)
    <3>1. GiveCourses(p) \/ LogApproved(p) \/ RecordClass(p)
      BY <2>1, <2>5, SettlesClass DEF At, LoseWrite, Orderly
    <3>2. ASSUME NEW w, w # "permissions", Settle(p, w) PROVE FALSE
      <4>1. req[p].todo # {w}
        BY <2>5, <3>2
      <4>2. req' = [req EXCEPT ![p].todo = @ \ {w}]
        BY <3>2, <4>1 DEF Settle
      <4>3. req'[p].todo = req[p].todo \ {w}
        BY <4>2 DEF IInv, TablesTyped, Request
      <4> QED BY <2>5, <3>2, <4>3
    <3>3. GiveCourses(p)
      BY <3>1, <3>2 DEF LogApproved, RecordClass
    <3> QED BY <3>3, CoursesAreGiven DEF Orderly
  <2> QED BY <2>2, <2>3, <2>4, <2>5 DEF BegunGoesOn
<1> QED BY <1>1, <1>2, <1>3

(***************************************************************************)
(* In orderly calls a handler that has begun to write reaches its last     *)
(* write: between the first write of a class, of a change of nick or of a  *)
(* departament role and the last one no query finds a row gone, a nick     *)
(* taken or a row there already, whatever the other requests do meanwhile, *)
(* and from whatever permissions they start.  Only the permissions of a    *)
(* class are not written where one of the approved has kept what the       *)
(* course gives besides the course.                                        *)
(***************************************************************************)
THEOREM BegunReachesTheEnd == Spec => BegunIsFinished
<1> DEFINE Turns == scenario.exclusive /\ RenamesApart
           Clean == Turns /\ ClassesAreClean
           J == /\ IInv /\ CalmInv /\ HeldInv /\ AllTeaching
                /\ scenario.exclusive => OneInv
                /\ Turns => AllSure
                /\ Clean => AllPoised
<1>1. Init => J
  BY InitInv, CalmInvInit, HeldInvInit, TeachingInit, OneInvInit, SureInit, PoisedInit
<1>2. J /\ [Next]_vars => J'
  <2> SUFFICES ASSUME J, [Next]_vars PROVE J'
    OBVIOUS
  <2>1. scenario' = scenario
    BY ScenarioStays
  <2>2. Turns' = Turns /\ Clean' = Clean /\ scenario.exclusive' = scenario.exclusive
    BY <2>1 DEF RenamesApart, ClassesAreClean, CallsOf
  <2>3. IInv' /\ CalmInv' /\ HeldInv' /\ AllTeaching'
    BY NextInv, CalmInvNext, HeldInvNext, TeachingNext
  <2>4. scenario.exclusive => OneInv'
    BY OneInvNext
  <2>5. Turns => AllSure'
    BY SureNext
  <2>6. Clean => AllPoised'
    BY PoisedNext
  <2> QED BY <2>2, <2>3, <2>4, <2>5, <2>6
<1>3. J /\ [Next]_vars => (Orderly => \A p \in Procs : BegunGoesOn(p))
  <2> SUFFICES ASSUME J, [Next]_vars, Orderly, NEW p \in Procs PROVE BegunGoesOn(p)
    OBVIOUS
  <2>1. OneInv /\ AllSure /\ AllPoised
    BY DEF Orderly
  <2> QED BY <2>1, OrderlyGoesOn
<1> HIDE DEF J
<1>4. J /\ [Next]_vars => [Orderly => \A p \in Procs :
            /\ req[p].stage \in {"class.enlist", "class.collect", "nick.delete", "nick.update"} =>
                  req'[p].stage # "idle"
            /\ At(p, "role.create") /\ req'[p] # req[p] => posts' # posts
            /\ At(p, "class.settle") /\ "permissions" \in req[p].todo \ req'[p].todo =>
                  held' # held \/ KeptFromEarlier(p)]_vars
  BY <1>3 DEF BegunGoesOn
<1> QED
  BY <1>1, <1>2, <1>4, PTL DEF Spec, BegunIsFinished
-----------------------------------------------------------------------------
(***************************************************************************)
(* Courses and history.  What members hold and what the history shows of   *)
(* them differ while a class, a dismissal or a change of rank has written  *)
(* the one and not the other; what is compared is what will be held and    *)
(* what will be shown when every request in flight has done its writes.    *)
(***************************************************************************)
Holds(table, id, c) == [user |-> id, name |-> c, type |-> "COURSE"] \in table

Shown(rows, id, c) ==
    \E i \in DOMAIN rows :
        /\ rows[i].target = id /\ rows[i].type = "APPROVATION" /\ rows[i].about = c
        /\ \A j \in DOMAIN rows : j >= i /\ rows[j].target = id => ~ Takes(rows[j])

LEMMA ShownAppended ==
    ASSUME NEW rows \in Seq(HistoryRow), NEW row \in HistoryRow,
           NEW new, new = Append(rows, row), NEW id, NEW c
    PROVE  /\ Shown(rows, id, c) /\ ~ (row.target = id /\ Takes(row)) => Shown(new, id, c)
           /\ Renamed(rows, id) => Renamed(new, id)
           /\ row.target = id /\ row.type = "CHANGE" => Renamed(new, id)
<1> DEFINE n == Len(rows)
<1>1. n \in Nat /\ DOMAIN rows = 1..n
  BY LenProperties
<1>2. /\ new \in Seq(HistoryRow) /\ Len(new) = n + 1
      /\ \A i \in 1..n : new[i] = rows[i]
      /\ new[n + 1] = row
  BY AppendProperties
<1>3. DOMAIN new = 1..(n + 1)
  BY <1>2, LenProperties
<1> HIDE DEF n
<1>4. /\ \A i \in DOMAIN rows : i \in DOMAIN new /\ new[i] = rows[i]
      /\ n + 1 \in DOMAIN new
      /\ \A i \in DOMAIN new : i \in DOMAIN rows \/ i = n + 1
  BY <1>1, <1>2, <1>3
<1>5. new[n + 1] = row
  BY <1>2
<1>6. /\ Renamed(rows, id) => Renamed(new, id)
      /\ row.target = id /\ row.type = "CHANGE" => Renamed(new, id)
  BY <1>4, <1>5 DEF Renamed
<1>7. ASSUME Shown(rows, id, c), ~ (row.target = id /\ Takes(row))
      PROVE  Shown(new, id, c)
  <2>1. PICK i \in DOMAIN rows :
           /\ rows[i].target = id /\ rows[i].type = "APPROVATION" /\ rows[i].about = c
           /\ \A j \in DOMAIN rows : j >= i /\ rows[j].target = id => ~ Takes(rows[j])
    BY <1>7 DEF Shown
  <2>2. i \in DOMAIN new /\ new[i] = rows[i]
    BY <1>4
  <2>3. \A j \in DOMAIN new : j >= i /\ new[j].target = id => ~ Takes(new[j])
    BY <1>4, <1>5, <1>7, <2>1
  <2> QED BY <2>1, <2>2, <2>3 DEF Shown
<1> QED BY <1>6, <1>7

LEMMA ShownLogged ==
    ASSUME HistoryInv, NEW who \in Nat,
           NEW type \in {"CONTRACTING", "FIRE", "CHANGE", "PROMOTION", "DEMOTION"},
           NEW about \in RoleNames \cup CourseNames \cup {NoRole},
           NEW row, row = LogRow(type, who, about),
           NEW new, new = Logged(type, who, about), NEW id, NEW c
    PROVE  /\ Shown(history, id, c) /\ ~ (id = who /\ Takes(row)) => Shown(new, id, c)
           /\ Renamed(history, id) => Renamed(new, id)
           /\ type = "CHANGE" /\ id = who /\ who \in DOMAIN member => Renamed(new, id)
<1>1. CASE who \notin DOMAIN member
  BY <1>1 DEF Logged
<1>2. CASE who \in DOMAIN member
  <2>1. row \in HistoryRow /\ row.target = who /\ row.type = type
    BY LogRowType DEF LogRow
  <2>2. history \in Seq(HistoryRow) /\ new = Append(history, row)
    BY <1>2 DEF Logged, HistoryInv
  <2>3. /\ Shown(history, id, c) /\ ~ (row.target = id /\ Takes(row)) => Shown(new, id, c)
        /\ Renamed(history, id) => Renamed(new, id)
        /\ row.target = id /\ row.type = "CHANGE" => Renamed(new, id)
    BY <2>1, <2>2, ShownAppended
  <2> QED BY <2>1, <2>3
<1> QED BY <1>1, <1>2

(* The rows of a class approve whom it names.                              *)
LEMMA ShownApproved ==
    ASSUME HistoryInv, NEW ids \in Seq(Nat), NEW about \in CourseNames,
           NEW new, new = history \o Rows(ids, about), NEW id, NEW c
    PROVE  /\ Shown(history, id, c) => Shown(new, id, c)
           /\ id \in Range(ids) /\ c = about => Shown(new, id, c)
           /\ Renamed(history, id) => Renamed(new, id)
<1> DEFINE n == Len(history)
<1>1. /\ new \in Seq(HistoryRow) /\ Len(new) = n + Len(ids)
      /\ \A i \in 1..n : new[i] = history[i]
      /\ \A k \in 1..Len(ids) : new[n + k] = LogRow("APPROVATION", ids[k], about)
      /\ \A i \in 1..(n + Len(ids)) : i \in 1..n \/ \E k \in 1..Len(ids) : i = n + k
      /\ DOMAIN ids = 1..Len(ids) /\ Len(ids) \in Nat /\ n \in Nat
      /\ DOMAIN history = 1..n
  BY ApprovedRows
<1>2. DOMAIN new = 1..(n + Len(ids))
  BY <1>1, LenProperties
<1>3. \A k \in DOMAIN ids : /\ new[n + k].target = ids[k]
                            /\ new[n + k].type = "APPROVATION" /\ new[n + k].about = about
                            /\ n + k \in DOMAIN new
  <2>1. \A k \in DOMAIN ids : /\ LogRow("APPROVATION", ids[k], about).target = ids[k]
                              /\ LogRow("APPROVATION", ids[k], about).type = "APPROVATION"
                              /\ LogRow("APPROVATION", ids[k], about).about = about
    BY DEF LogRow
  <2>2. \A k \in DOMAIN ids : n + k \in DOMAIN new
    BY <1>1, <1>2
  <2>3. \A k \in DOMAIN ids : new[n + k] = LogRow("APPROVATION", ids[k], about)
    BY <1>1
  <2> QED BY <2>1, <2>2, <2>3
<1>4. \A i \in DOMAIN history : i \in DOMAIN new /\ new[i] = history[i]
  BY <1>1, <1>2
<1>5. \A i \in DOMAIN new : i \in DOMAIN history \/ \E k \in DOMAIN ids : i = n + k
  BY <1>1, <1>2
<1>6. \A k \in DOMAIN ids : \A j \in DOMAIN history : ~ j >= n + k
  BY <1>1
<1> HIDE DEF n
<1>7. \A i \in DOMAIN new : Takes(new[i]) => i \in DOMAIN history /\ new[i] = history[i]
  BY <1>3, <1>4, <1>5 DEF Takes
<1>8. Renamed(history, id) => Renamed(new, id)
  BY <1>4 DEF Renamed
<1>9. ASSUME Shown(history, id, c) PROVE Shown(new, id, c)
  <2>1. PICK i \in DOMAIN history :
           /\ history[i].target = id /\ history[i].type = "APPROVATION"
           /\ history[i].about = c
           /\ \A j \in DOMAIN history :
                 j >= i /\ history[j].target = id => ~ Takes(history[j])
    BY <1>9 DEF Shown
  <2>2. i \in DOMAIN new /\ new[i] = history[i]
    BY <1>4
  <2>3. \A j \in DOMAIN new : j >= i /\ new[j].target = id => ~ Takes(new[j])
    BY <1>7, <2>1
  <2> QED BY <2>1, <2>2, <2>3 DEF Shown
<1>10. ASSUME NEW k \in DOMAIN ids, id = ids[k], c = about PROVE Shown(new, id, c)
  <2>1. \A j \in DOMAIN new : j >= n + k => ~ Takes(new[j])
    BY <1>6, <1>7
  <2> QED BY <1>3, <1>10, <2>1 DEF Shown
<1> QED BY <1>8, <1>9, <1>10 DEF Range

LEMMA ShownMoved ==
    ASSUME HistoryInv, NEW from, NEW to \in Nat, NEW new, new = Moved(from, to),
           NEW id, id \notin {from, to}, NEW c
    PROVE  /\ Shown(history, id, c) => Shown(new, id, c)
           /\ Renamed(history, id) => Renamed(new, id)
<1>1. /\ DOMAIN new = DOMAIN history
      /\ \A i \in DOMAIN history :
            /\ new[i].type = history[i].type /\ new[i].about = history[i].about
            /\ new[i].target = id <=> history[i].target = id
  BY MovedRows
<1>2. \A i \in DOMAIN history : Takes(new[i]) <=> Takes(history[i])
  BY <1>1 DEF Takes
<1> QED BY <1>1, <1>2 DEF Shown, Renamed

LEMMA GivenHeld ==
    ASSUME NEW table, NEW ids, NEW course, NEW new, new \subseteq table \cup GivenRows(ids, course),
           NEW id, NEW c, Holds(new, id, c)
    PROVE  Holds(table, id, c) \/ (id \in Range(ids) /\ c = course)
<1>1. PICK h : h = [user |-> id, name |-> c, type |-> "COURSE"]
  OBVIOUS
<1>2. h.user = id /\ h.name = c
  BY <1>1
<1>3. h \in GivenRows(ids, course) => id \in Range(ids) /\ c = course
  BY <1>2, GivenIs
<1> QED BY <1>1, <1>3 DEF Holds

LEMMA TakenHeld ==
    ASSUME NEW table, NEW who, NEW id, NEW c
    PROVE  Holds(table \ RowsOf(table, who), id, c) => Holds(table, id, c) /\ id # who
<1>1. PICK h : h = [user |-> id, name |-> c, type |-> "COURSE"]
  OBVIOUS
<1>2. h.user = id
  BY <1>1
<1> QED BY <1>1, <1>2 DEF Holds, RowsOf

(* What a request is going to write: the course and the approval of a      *)
(* class, the end of somebody's courses; and whose history a change of     *)
(* nick is moving.                                                         *)
Owes(r, w, id, c) ==
    r.stage = "class.settle" /\ w \in r.todo /\ id \in Range(r.ids) /\ r.call.about = c

Revokes(r, w, id) ==
    /\ \/ r.stage = "fire.settle"
       \/ /\ r.stage \in {"rank.cfo", "rank.settle"}
          /\ ~ (r.call.op = "promoteUser" /\ r.call.about = "Sargento")
    /\ w \in r.todo /\ r.target = id

Moves(r, id) == \/ r.stage = "nick.delete" /\ id \in {r.target, r.other}
                \/ r.stage \in {"nick.update", "nick.log"} /\ id = r.target

Will(w, yet, rs, id, c) ==
    \/ \E p \in Procs : Owes(rs[p], w, id, c)
    \/ yet /\ \A p \in Procs : ~ Revokes(rs[p], w, id)

WillHold(id, c) == Will("permissions", Holds(held, id, c), req, id, c)
WillShow(id, c) == Will("log", Shown(history, id, c), req, id, c)

Even(id) == \A c : WillHold(id, c) => WillShow(id, c)

EvenOrRenamed(id) ==
    Renamed(history, id) \/ (\E p \in Procs : Moves(req[p], id)) \/ Even(id)

CourseInv == \A id \in DOMAIN member : StartedEarned(id) => EvenOrRenamed(id)

\* The stages in which a request owes or revokes something.
PayStages == {"fire.settle", "class.settle", "rank.cfo", "rank.settle"}

LEMMA NothingDue ==
    ASSUME NEW r, r.stage \notin PayStages
    PROVE  \A w, id : ~ Revokes(r, w, id) /\ \A c : ~ Owes(r, w, id, c)
BY DEF Owes, Revokes, PayStages

LEMMA SettleLeaves ==
    ASSUME IInv, NEW p \in Procs, NEW w, Settle(p, w), NEW r, r = req[p], NEW s, s = req'[p],
           r.stage \in Settling, NEW id, NEW c, NEW v
    PROVE  /\ Owes(s, v, id, c) <=> Owes(r, v, id, c) /\ v # w
           /\ Revokes(s, v, id) <=> Revokes(r, v, id) /\ v # w
<1>1. CASE r.todo = {w}
  <2>1. s = Idle
    BY <1>1 DEF Settle, Answer, IInv, TablesTyped
  <2>2. s.stage = "idle"
    BY <2>1 DEF Idle
  <2> QED BY <1>1, <2>2 DEF Owes, Revokes
<1>2. CASE r.todo # {w}
  <2>1. req' = [req EXCEPT ![p].todo = @ \ {w}]
    BY <1>2 DEF Settle
  <2>2. /\ s.stage = r.stage /\ s.ids = r.ids /\ s.call = r.call /\ s.target = r.target
        /\ s.todo = r.todo \ {w}
    BY <2>1 DEF IInv, TablesTyped, Request
  <2> QED BY <2>2 DEF Owes, Revokes
<1> QED BY <1>1, <1>2

LEMMA TheirsMembers ==
    ASSUME IInv, NEW p \in Procs
    PROVE  Theirs(p) \subseteq DOMAIN member
BY FindType DEF Theirs

LEMMA OwesTheirs ==
    ASSUME IInv, AllSure, NEW p \in Procs, NEW w, NEW id, NEW c, Owes(req[p], w, id, c)
    PROVE  id \in Theirs(p) /\ ~ At(p, "idle")
<1>0. PICK r : r = req[p]
  OBVIOUS
<1>1. r.stage = "class.settle" /\ r.stage \in ClassStages
  BY <1>0 DEF Owes, ClassStages
<1>2. PICK k \in DOMAIN r.ids : id = r.ids[k]
  BY <1>0 DEF Owes, Range
<1>3. k \in DOMAIN r.call.nicks
  BY <1>0, <1>1, IdsInPlace DEF AllSure, Sure
<1>4. Present(Place(r, k)) /\ r.ids[k] = Find(Place(r, k))
  BY <1>0, <1>1, <1>3 DEF AllSure, Sure, Enrolled
<1>5. Place(r, k) \in Named(r.call)
  BY <1>3, NamedIn DEF Place
<1> QED BY <1>0, <1>1, <1>2, <1>4, <1>5 DEF Theirs, Present, At

LEMMA RevokesTheirs ==
    ASSUME IInv, CalmInv, scenario.exclusive, NEW p \in Procs, NEW w, NEW id,
           Revokes(req[p], w, id)
    PROVE  id \in Theirs(p) /\ ~ At(p, "idle")
<1>0. PICK r : r = req[p]
  OBVIOUS
<1>1. r.stage \in {"fire.settle", "rank.cfo", "rank.settle"} /\ r.target = id
  BY <1>0 DEF Revokes
<1>2. r.target # NoId /\ Find(Canon[r.call.nicks[1]]) = r.target
  BY <1>0, <1>1 DEF CalmInv, Calm, StillRead, AboutStages
<1>3. Canon[r.call.nicks[1]] \in Named(r.call)
  BY <1>0, <1>1, NamedIn DEF CalmInv, AllAddressed, Addressed, FireStages, RankStages
<1> QED BY <1>0, <1>1, <1>2, <1>3 DEF Theirs, At

LEMMA TheirsApart ==
    ASSUME IInv, CalmInv, scenario.exclusive, NEW p \in Procs, NEW q \in Procs, p # q,
           ~ At(p, "idle"), ~ At(q, "idle"), NEW id \in Theirs(p)
    PROVE  id \notin Theirs(q)
<1>1. Named(req[p].call) \cap Named(req[q].call) = {}
  BY DEF CalmInv, TurnsApart
<1>2. PICK n \in Named(req[p].call) : Find(n) # NoId /\ id = Find(n)
  BY DEF Theirs
<1> SUFFICES ASSUME id \in Theirs(q) PROVE FALSE
  OBVIOUS
<1>3. PICK m \in Named(req[q].call) : Find(m) # NoId /\ id = Find(m)
  BY DEF Theirs
<1>4. n = m
  BY <1>2, <1>3, FoundOnce DEF CalmInv
<1> QED BY <1>1, <1>4

(* Nothing due is gained by a step that adds nothing but what its request  *)
(* owed, and drops no end of somebody's courses but by carrying it out;    *)
(* nothing due is lost by a step that drops nothing owed but by writing it.*)
LEMMA WillLess ==
    ASSUME NEW p \in Procs, NEW rs, NEW qs, \A q \in Procs \ {p} : qs[q] = rs[q],
           NEW w, NEW id, NEW c, NEW A \in BOOLEAN, NEW B \in BOOLEAN,
           Owes(qs[p], w, id, c) => Owes(rs[p], w, id, c),
           B => A \/ Owes(rs[p], w, id, c),
           Revokes(rs[p], w, id) => Revokes(qs[p], w, id) \/ ~ B
    PROVE  Will(w, B, qs, id, c) => Will(w, A, rs, id, c)
<1>1. ASSUME NEW q \in Procs
      PROVE  /\ Owes(qs[q], w, id, c) => Owes(rs[q], w, id, c)
             /\ Revokes(rs[q], w, id) => Revokes(qs[q], w, id) \/ ~ B
  <2>1. CASE q = p
    BY <2>1
  <2>2. CASE q # p
    BY <2>2
  <2> QED BY <2>1, <2>2
<1> QED BY <1>1 DEF Will

LEMMA WillMore ==
    ASSUME NEW p \in Procs, NEW rs, NEW qs, \A q \in Procs \ {p} : qs[q] = rs[q],
           NEW w, NEW id, NEW c, NEW A \in BOOLEAN, NEW B \in BOOLEAN,
           \/ Owes(rs[p], w, id, c) => Owes(qs[p], w, id, c)
           \/ B /\ \A q \in Procs : ~ Revokes(qs[q], w, id),
           A => B \/ Revokes(rs[p], w, id),
           Revokes(qs[p], w, id) => Revokes(rs[p], w, id)
    PROVE  Will(w, A, rs, id, c) => Will(w, B, qs, id, c)
<1>1. CASE B /\ \A q \in Procs : ~ Revokes(qs[q], w, id)
  BY <1>1 DEF Will
<1>2. CASE Owes(rs[p], w, id, c) => Owes(qs[p], w, id, c)
  <2>1. ASSUME NEW q \in Procs
        PROVE  /\ Owes(rs[q], w, id, c) => Owes(qs[q], w, id, c)
               /\ Revokes(qs[q], w, id) => Revokes(rs[q], w, id)
    <3>1. CASE q = p
      BY <1>2, <3>1
    <3>2. CASE q # p
      BY <3>2
    <3> QED BY <3>1, <3>2
  <2> QED BY <2>1 DEF Will
<1> QED BY <1>1, <1>2

LEMMA EvenOn ==
    ASSUME NEW p \in Procs, \A q \in Procs \ {p} : req'[q] = req[q], NEW id, Even(id),
           \A c : /\ Owes(req'[p], "permissions", id, c) => Owes(req[p], "permissions", id, c)
                  /\ Holds(held', id, c) =>
                        Holds(held, id, c) \/ Owes(req[p], "permissions", id, c)
                  /\ Revokes(req[p], "permissions", id) =>
                        Revokes(req'[p], "permissions", id) \/ ~ Holds(held', id, c),
           \A c : /\ \/ Owes(req[p], "log", id, c) => Owes(req'[p], "log", id, c)
                     \/ /\ Shown(history', id, c)
                        /\ \A q \in Procs : ~ Revokes(req'[q], "log", id)
                  /\ Shown(history, id, c) =>
                        Shown(history', id, c) \/ Revokes(req[p], "log", id),
           Revokes(req'[p], "log", id) => Revokes(req[p], "log", id)
    PROVE  Even(id)'
<1>1. ASSUME NEW c PROVE (WillHold(id, c) => WillShow(id, c))'
  <2> DEFINE A == Holds(held, id, c)
             B == Holds(held', id, c)
             C == Shown(history, id, c)
             D == Shown(history', id, c)
  <2>1. A \in BOOLEAN /\ B \in BOOLEAN /\ C \in BOOLEAN /\ D \in BOOLEAN
    BY DEF Holds, Shown
  <2>2. Will("permissions", A, req, id, c) => Will("log", C, req, id, c)
    BY DEF Even, WillHold, WillShow
  <2>3. /\ Owes(req'[p], "permissions", id, c) => Owes(req[p], "permissions", id, c)
        /\ B => A \/ Owes(req[p], "permissions", id, c)
        /\ Revokes(req[p], "permissions", id) => Revokes(req'[p], "permissions", id) \/ ~ B
    OBVIOUS
  <2>4. /\ \/ Owes(req[p], "log", id, c) => Owes(req'[p], "log", id, c)
           \/ D /\ \A q \in Procs : ~ Revokes(req'[q], "log", id)
        /\ C => D \/ Revokes(req[p], "log", id)
        /\ Revokes(req'[p], "log", id) => Revokes(req[p], "log", id)
    OBVIOUS
  <2>5. WillHold(id, c)' <=> Will("permissions", B, req', id, c)
    BY DEF WillHold, Will, Holds
  <2>6. WillShow(id, c)' <=> Will("log", D, req', id, c)
    BY DEF WillShow, Will
  <2> HIDE DEF A, B, C, D
  <2>7. Will("permissions", B, req', id, c) => Will("permissions", A, req, id, c)
    BY <2>1, <2>3, WillLess
  <2>8. Will("log", C, req, id, c) => Will("log", D, req', id, c)
    BY <2>1, <2>4, WillMore
  <2> QED BY <2>2, <2>5, <2>6, <2>7, <2>8
<1> QED BY <1>1 DEF Even

(* What a step need not settle: it leaves the member even.                 *)
LEMMA EvenAfter ==
    ASSUME NEW p \in Procs, \A q \in Procs \ {p} : req'[q] = req[q], NEW id,
           Renamed(history, id) => Renamed(history', id),
           Moves(req[p], id) => Moves(req'[p], id) \/ Renamed(history', id),
           EvenOrRenamed(id),
           Even(id) => Even(id)'
    PROVE  EvenOrRenamed(id)'
<1>1. CASE Renamed(history, id)
  BY <1>1 DEF EvenOrRenamed
<1>2. ASSUME NEW q \in Procs, Moves(req[q], id)
      PROVE  Renamed(history', id) \/ \E x \in Procs : Moves(req'[x], id)
  <2>1. CASE q = p
    BY <1>2, <2>1
  <2>2. CASE q # p
    BY <1>2, <2>2
  <2> QED BY <2>1, <2>2
<1>3. (Renamed(history', id) \/ \E x \in Procs : Moves(req'[x], id)) => EvenOrRenamed(id)'
  BY DEF EvenOrRenamed
<1>4. CASE Even(id)
  BY <1>4 DEF EvenOrRenamed
<1> QED BY <1>1, <1>2, <1>3, <1>4 DEF EvenOrRenamed

(* A step that owes nothing and revokes nothing, before and after.         *)
LEMMA EvenSame ==
    ASSUME NEW p \in Procs, \A q \in Procs \ {p} : req'[q] = req[q], NEW id, Even(id),
           \A c : Holds(held', id, c) => Holds(held, id, c),
           \A c : Shown(history, id, c) => Shown(history', id, c),
           req[p].stage \notin PayStages, req'[p].stage \notin PayStages
    PROVE  Even(id)'
<1>1. PICK r, s : r = req[p] /\ s = req'[p]
  OBVIOUS
<1>2. \A w : /\ ~ Revokes(r, w, id) /\ ~ Revokes(s, w, id)
             /\ \A c : ~ Owes(r, w, id, c) /\ ~ Owes(s, w, id, c)
  BY <1>1, NothingDue
<1> QED BY <1>1, <1>2, EvenOn

(* The writes of a class.                                                  *)
LEMMA EvenSettled ==
    ASSUME IInv, CalmInv, Orderly, AllTeaching, AllSure, HistoryInv, NEW p \in Procs, Step(p),
           req[p].stage = "class.settle", NEW id
    PROVE  /\ Renamed(history, id) => Renamed(history', id)
           /\ Even(id) => Even(id)'
<1>0. PICK r, s : r = req[p] /\ s = req'[p]
  OBVIOUS
<1>1. /\ \A q \in Procs \ {p} : req'[q] = req[q]
      /\ GiveCourses(p) \/ LogApproved(p) \/ RecordClass(p)
  BY SettlesClass, StepKeeps DEF Keeps, LoseWrite, Orderly
<1>2. /\ r.stage = "class.settle" /\ r.stage \in ClassStages /\ r.stage \in Settling
      /\ About(p) = r.call.about /\ r.ids \in Seq(Nat) /\ About(p) \in CourseNames
  BY <1>0, ClassRequest DEF ClassStages, Settling, About, Request
<1>3. PICK w \in r.todo :
         /\ Settle(p, w)
         /\ \/ UNCHANGED held
            \/ w = "permissions" /\ held' \subseteq held \cup GivenRows(r.ids, About(p))
         /\ \/ UNCHANGED history /\ w # "log"
            \/ w = "log" /\ history' = history \o Rows(r.ids, About(p))
  <2>1. CASE RecordClass(p)
    BY <1>0, <2>1 DEF RecordClass
  <2>2. CASE GiveCourses(p)
    BY <1>0, <2>2 DEF GiveCourses
  <2>3. CASE LogApproved(p)
    <3>1. Range(r.ids) \subseteq DOMAIN member
      BY <1>0, <1>2, IdsOnce DEF Orderly
    <3> QED BY <1>0, <2>3, <3>1 DEF LogApproved, Rows
  <2> QED BY <1>1, <2>1, <2>2, <2>3
<1>4. ASSUME NEW c, NEW v
      PROVE  /\ Owes(s, v, id, c) <=> Owes(r, v, id, c) /\ v # w
             /\ ~ Revokes(s, v, id) /\ ~ Revokes(r, v, id)
  <2>1. /\ Owes(s, v, id, c) <=> Owes(r, v, id, c) /\ v # w
        /\ Revokes(s, v, id) <=> Revokes(r, v, id) /\ v # w
    BY <1>0, <1>2, <1>3, SettleLeaves
  <2>2. ~ Revokes(r, v, id)
    BY <1>2 DEF Revokes
  <2> QED BY <2>1, <2>2
<1>5. ASSUME NEW c, Holds(held', id, c)
      PROVE  Holds(held, id, c) \/ Owes(r, "permissions", id, c)
  <2>1. CASE UNCHANGED held
    BY <1>5, <2>1
  <2>2. CASE w = "permissions" /\ held' \subseteq held \cup GivenRows(r.ids, About(p))
    <3>1. Holds(held, id, c) \/ (id \in Range(r.ids) /\ c = About(p))
      BY <1>5, <2>2, GivenHeld
    <3> QED BY <1>2, <1>3, <2>2, <3>1 DEF Owes
  <2> QED BY <1>3, <2>1, <2>2
<1>6. ASSUME NEW c
      PROVE  /\ Shown(history, id, c) => Shown(history', id, c)
             /\ Renamed(history, id) => Renamed(history', id)
             /\ w = "log" /\ Owes(r, "log", id, c) => Shown(history', id, c)
  <2>1. CASE UNCHANGED history /\ w # "log"
    BY <2>1
  <2>2. CASE w = "log" /\ history' = history \o Rows(r.ids, About(p))
    <3>1. PICK ids \in Seq(Nat), about \in CourseNames : ids = r.ids /\ about = About(p)
      BY <1>2
    <3>2. PICK new : new = history \o Rows(ids, about)
      OBVIOUS
    <3>3. /\ Shown(history, id, c) => Shown(new, id, c)
          /\ id \in Range(ids) /\ c = about => Shown(new, id, c)
          /\ Renamed(history, id) => Renamed(new, id)
      BY <3>2, ShownApproved
    <3>4. Owes(r, "log", id, c) => id \in Range(ids) /\ c = about
      BY <1>2, <3>1 DEF Owes
    <3> QED BY <2>2, <3>1, <3>2, <3>3, <3>4
  <2> QED BY <1>3, <2>1, <2>2
<1>7. ASSUME NEW c, w = "log", Owes(r, "log", id, c), NEW q \in Procs
      PROVE  ~ Revokes(req'[q], "log", id)
  <2>1. CASE q = p
    BY <1>0, <1>4, <2>1
  <2>2. ASSUME q # p, Revokes(req[q], "log", id) PROVE FALSE
    <3>1. id \in Theirs(p) /\ ~ At(p, "idle")
      BY <1>0, <1>7, OwesTheirs
    <3>2. id \in Theirs(q) /\ ~ At(q, "idle")
      BY <2>2, RevokesTheirs DEF Orderly
    <3> QED BY <2>2, <3>1, <3>2, TheirsApart DEF Orderly
  <2> QED BY <1>1, <2>1, <2>2
<1>8. ASSUME Even(id) PROVE Even(id)'
  <2>1. \A c : /\ Owes(req'[p], "permissions", id, c) => Owes(req[p], "permissions", id, c)
               /\ Holds(held', id, c) =>
                     Holds(held, id, c) \/ Owes(req[p], "permissions", id, c)
               /\ ~ Revokes(req[p], "permissions", id)
    BY <1>0, <1>4, <1>5
  <2>2. ASSUME NEW c
        PROVE  /\ \/ Owes(req[p], "log", id, c) => Owes(req'[p], "log", id, c)
                  \/ /\ Shown(history', id, c)
                     /\ \A q \in Procs : ~ Revokes(req'[q], "log", id)
               /\ Shown(history, id, c) => Shown(history', id, c)
    BY <1>0, <1>4, <1>6, <1>7
  <2>3. ~ Revokes(req'[p], "log", id)
    BY <1>0, <1>4
  <2> QED BY <1>1, <1>8, <2>1, <2>2, <2>3, EvenOn
<1> QED BY <1>6, <1>8

(* The writes of a dismissal and of a change of rank.                      *)
LEMMA EvenTaken ==
    ASSUME IInv, NEW p \in Procs, \A q \in Procs \ {p} : req'[q] = req[q],
           req[p].stage \in {"fire.settle", "rank.settle"}, NEW w, Settle(p, w), NEW id,
           Even(id),
           \A c : Holds(held', id, c) =>
                     /\ Holds(held, id, c)
                     /\ w = "permissions" => ~ Revokes(req[p], "permissions", id),
           \A c : /\ Shown(history, id, c)
                  /\ w = "log" => ~ Revokes(req[p], "log", id)
                  => Shown(history', id, c)
    PROVE  Even(id)'
<1>1. PICK r, s : r = req[p] /\ s = req'[p]
  OBVIOUS
<1>2. ASSUME NEW c, NEW v
      PROVE  /\ ~ Owes(s, v, id, c) /\ ~ Owes(r, v, id, c)
             /\ Revokes(s, v, id) <=> Revokes(r, v, id) /\ v # w
  <2>1. /\ Owes(s, v, id, c) <=> Owes(r, v, id, c) /\ v # w
        /\ Revokes(s, v, id) <=> Revokes(r, v, id) /\ v # w
    BY <1>1, SettleLeaves DEF Settling
  <2>2. ~ Owes(r, v, id, c)
    BY <1>1 DEF Owes
  <2> QED BY <2>1, <2>2
<1>3. \A c : /\ ~ Owes(req'[p], "permissions", id, c) /\ ~ Owes(req[p], "log", id, c)
             /\ Revokes(req[p], "permissions", id) =>
                   Revokes(req'[p], "permissions", id) \/ ~ Holds(held', id, c)
             /\ Shown(history, id, c) => Shown(history', id, c) \/ Revokes(req[p], "log", id)
  BY <1>1, <1>2
<1>4. Revokes(req'[p], "log", id) => Revokes(req[p], "log", id)
  BY <1>1, <1>2
<1> QED BY <1>3, <1>4, EvenOn

LEMMA EvenFired ==
    ASSUME IInv, HistoryInv, NEW p \in Procs, Step(p), req[p].stage = "fire.settle", NEW id
    PROVE  /\ Renamed(history, id) => Renamed(history', id)
           /\ Even(id) => Even(id)'
<1>0. PICK r : r = req[p]
  OBVIOUS
<1>1. /\ \A q \in Procs \ {p} : req'[q] = req[q]
      /\ Dismiss(p) \/ LogDismissal(p) \/ TakePermissions(p) \/ TakePosts(p)
  BY FireGoesOn, StepKeeps DEF Keeps
<1>2. /\ r.target \in Nat
      /\ \A w : Revokes(r, w, id) <=> w \in r.todo /\ r.target = id
  BY <1>0 DEF Revokes, IInv, TablesTyped, Request
<1>3. PICK w \in r.todo :
         /\ Settle(p, w)
         /\ \/ UNCHANGED held /\ w # "permissions"
            \/ w = "permissions" /\ held' = held \ RowsOf(held, r.target)
         /\ \/ UNCHANGED history /\ w # "log"
            \/ w = "log" /\ history' = Logged("FIRE", r.target, "Recruta")
  BY <1>0, <1>1 DEF Dismiss, LogDismissal, TakePermissions, TakePosts
<1>4. ASSUME NEW c, Holds(held', id, c)
      PROVE  /\ Holds(held, id, c)
             /\ w = "permissions" => ~ Revokes(r, "permissions", id)
  BY <1>2, <1>3, <1>4, TakenHeld
<1>5. ASSUME NEW c
      PROVE  /\ Renamed(history, id) => Renamed(history', id)
             /\ /\ Shown(history, id, c)
                /\ w = "log" => ~ Revokes(r, "log", id)
                => Shown(history', id, c)
  <2>1. PICK row, new : /\ row = LogRow("FIRE", r.target, "Recruta")
                        /\ new = Logged("FIRE", r.target, "Recruta")
    OBVIOUS
  <2>2. /\ Shown(history, id, c) /\ ~ (id = r.target /\ Takes(row)) => Shown(new, id, c)
        /\ Renamed(history, id) => Renamed(new, id)
    BY <1>2, <2>1, ShownLogged, RolesAssumption
  <2>3. w = "log" /\ ~ Revokes(r, "log", id) => id # r.target
    BY <1>2, <1>3
  <2> QED BY <1>3, <2>1, <2>2, <2>3
<1>6. ASSUME Even(id) PROVE Even(id)'
  BY <1>0, <1>1, <1>3, <1>4, <1>5, <1>6, EvenTaken
<1> QED BY <1>5, <1>6

LEMMA StepRanks ==
    ASSUME NEW p \in Procs, Step(p), Orderly, req[p].stage \in RankStages
    PROVE  CareerStep(p)
BY StepOfRank DEF FailQuery, LoseWrite, Orderly

LEMMA EvenRanked ==
    ASSUME IInv, HistoryInv, Orderly, NEW p \in Procs, Step(p),
           req[p].stage = "rank.settle", NEW id
    PROVE  /\ Renamed(history, id) => Renamed(history', id)
           /\ Even(id) => Even(id)'
<1>0. PICK r : r = req[p]
  OBVIOUS
<1>1. /\ \A q \in Procs \ {p} : req'[q] = req[q]
      /\ Rerank(p) \/ LogRank(p) \/ TakeCourses(p)
  BY StepRanks, StepKeeps DEF Keeps, RankStages, CareerStep, FindToRank, RevokeCfo, At
<1> DEFINE op == r.call.op
           role == r.call.about
           type == IF op = "promoteUser" THEN "PROMOTION" ELSE "DEMOTION"
<1>2. /\ r.target \in Nat /\ role \in RoleNames /\ Role(p) = role
      /\ \A w : Revokes(r, w, id) <=> /\ w \in r.todo /\ r.target = id
                                      /\ ~ (op = "promoteUser" /\ role = "Sargento")
  BY <1>0 DEF Revokes, IInv, TablesTyped, Request, RequestsSound, RequestSound, Role
<1>3. PICK w \in r.todo :
         /\ Settle(p, w)
         /\ \/ UNCHANGED held /\ w # "permissions"
            \/ /\ w = "permissions"
               /\ held' = {h \in held : ~ (h.user = r.target /\ Revoked(h, op, role))}
         /\ \/ UNCHANGED history /\ w # "log"
            \/ w = "log" /\ history' = Logged(type, r.target, role)
  BY <1>0, <1>1, <1>2 DEF Rerank, LogRank, TakeCourses
<1>4. ASSUME NEW c, Holds(held', id, c)
      PROVE  /\ Holds(held, id, c)
             /\ w = "permissions" => ~ Revokes(r, "permissions", id)
  <2>1. CASE UNCHANGED held /\ w # "permissions"
    BY <1>4, <2>1
  <2>2. CASE held' = {h \in held : ~ (h.user = r.target /\ Revoked(h, op, role))}
    <3>1. PICK h : h = [user |-> id, name |-> c, type |-> "COURSE"]
      OBVIOUS
    <3>2. h \in held' /\ h.user = id /\ h.type = "COURSE"
      BY <1>4, <3>1 DEF Holds
    <3>3. h \in held /\ ~ (h.user = r.target /\ Revoked(h, op, role))
      BY <2>2, <3>2
    <3>4. id = r.target => op = "promoteUser" /\ role = "Sargento"
      BY <3>2, <3>3 DEF Revoked
    <3> QED BY <1>2, <3>1, <3>3, <3>4 DEF Holds
  <2> QED BY <1>3, <2>1, <2>2
<1>5. ASSUME NEW c
      PROVE  /\ Renamed(history, id) => Renamed(history', id)
             /\ /\ Shown(history, id, c)
                /\ w = "log" => ~ Revokes(r, "log", id)
                => Shown(history', id, c)
  <2>1. PICK row, new : row = LogRow(type, r.target, role) /\ new = Logged(type, r.target, role)
    OBVIOUS
  <2>2. type \in {"PROMOTION", "DEMOTION"}
    OBVIOUS
  <2>3. Takes(row) => ~ (op = "promoteUser" /\ role = "Sargento")
    BY <2>1 DEF Takes, LogRow
  <2> HIDE DEF type
  <2>4. /\ Shown(history, id, c) /\ ~ (id = r.target /\ Takes(row)) => Shown(new, id, c)
        /\ Renamed(history, id) => Renamed(new, id)
    <3>1. PICK who \in Nat, about \in RoleNames, way \in {"PROMOTION", "DEMOTION"} :
             who = r.target /\ about = role /\ way = type
      BY <1>2, <2>2
    <3>2. row = LogRow(way, who, about) /\ new = Logged(way, who, about)
      BY <2>1, <3>1
    <3>3. /\ Shown(history, id, c) /\ ~ (id = who /\ Takes(row)) => Shown(new, id, c)
          /\ Renamed(history, id) => Renamed(new, id)
      BY <3>2, ShownLogged
    <3> QED BY <3>1, <3>3
  <2>5. w = "log" /\ ~ Revokes(r, "log", id) => ~ (id = r.target /\ Takes(row))
    BY <1>2, <1>3, <2>3
  <2> QED BY <1>3, <2>1, <2>4, <2>5
<1>6. ASSUME Even(id) PROVE Even(id)'
  BY <1>0, <1>1, <1>3, <1>4, <1>5, <1>6, EvenTaken
<1> QED BY <1>5, <1>6

LEMMA EvenCfo ==
    ASSUME IInv, Orderly, NEW p \in Procs, Step(p), req[p].stage = "rank.cfo", NEW id
    PROVE  /\ Renamed(history, id) => Renamed(history', id)
           /\ Even(id) => Even(id)'
<1>0. PICK r, s : r = req[p] /\ s = req'[p]
  OBVIOUS
<1>1. RevokeCfo(p)
  BY StepRanks DEF RankStages, CareerStep, FindToRank, Rerank, LogRank, TakeCourses, At
<1>2. /\ \A q \in Procs \ {p} : req'[q] = req[q]
      /\ held' \subseteq held /\ UNCHANGED history
      /\ s.stage = "rank.settle" /\ s.call = r.call /\ s.target = r.target /\ s.todo = r.todo
  BY <1>0, <1>1 DEF RevokeCfo, Goto, IInv, TablesTyped, Request
<1>3. \A w : /\ Revokes(s, w, id) <=> Revokes(r, w, id)
             /\ \A c : ~ Owes(s, w, id, c) /\ ~ Owes(r, w, id, c)
  BY <1>0, <1>2 DEF Revokes, Owes
<1>4. \A c : Holds(held', id, c) => Holds(held, id, c)
  BY <1>2 DEF Holds
<1> QED BY <1>0, <1>2, <1>3, <1>4, EvenOn

(* The lookups that lead to those writes: the member is one the call names *)
(* and no class in flight gives it a course.                               *)
LEMMA EvenBegins ==
    ASSUME IInv, CalmInv, scenario.exclusive, AllSure, NEW p \in Procs, ~ At(p, "idle"),
           \A q \in Procs \ {p} : req'[q] = req[q], UNCHANGED <<held, history>>,
           req[p].stage \notin PayStages,
           req'[p].stage \in {"fire.settle", "rank.cfo", "rank.settle"},
           req'[p].target \in Theirs(p), {"permissions", "log"} \subseteq req'[p].todo, NEW id
    PROVE  /\ Renamed(history, id) => Renamed(history', id)
           /\ Even(id) => Even(id)'
<1>0. PICK r, s : r = req[p] /\ s = req'[p]
  OBVIOUS
<1>1. /\ \A w, c : ~ Owes(s, w, id, c) /\ ~ Owes(r, w, id, c) /\ ~ Revokes(r, w, id)
      /\ Revokes(s, "permissions", id) <=> Revokes(s, "log", id)
      /\ Revokes(s, "permissions", id) => id = s.target
  BY <1>0, NothingDue DEF Owes, Revokes
<1>2. CASE Revokes(s, "permissions", id)
  <2>1. ASSUME NEW q \in Procs, NEW c PROVE ~ Owes(req'[q], "permissions", id, c)
    <3>1. CASE q = p
      BY <1>0, <1>1, <3>1
    <3>2. CASE q # p
      <4>1. ASSUME Owes(req[q], "permissions", id, c) PROVE FALSE
        <5>1. id \in Theirs(q) /\ ~ At(q, "idle")
          BY <4>1, OwesTheirs
        <5>2. id \in Theirs(p)
          BY <1>0, <1>1, <1>2
        <5> QED BY <3>2, <5>1, <5>2, TheirsApart
      <4> QED BY <3>2, <4>1
    <3> QED BY <3>1, <3>2
  <2>2. Revokes(req'[p], "permissions", id)
    BY <1>0, <1>2
  <2>3. \A c : ~ WillHold(id, c)'
    BY <2>1, <2>2 DEF WillHold, Will
  <2> QED BY <2>3 DEF Even
<1>3. CASE ~ Revokes(s, "permissions", id)
  <2>1. \A w \in {"permissions", "log"} : ~ Revokes(req'[p], w, id) /\ ~ Revokes(req[p], w, id)
    BY <1>0, <1>1, <1>3
  <2>2. \A w, c : ~ Owes(req'[p], w, id, c) /\ ~ Owes(req[p], w, id, c)
    BY <1>0, <1>1
  <2> QED BY <2>1, <2>2, EvenOn
<1> QED BY <1>2, <1>3

LEMMA FoundIsTheirs ==
    ASSUME IInv, CalmInv, NEW p \in Procs, req[p].stage \in {"fire.find", "rank.find"},
           NEW id \in DOMAIN member, id = Find(Spelled(req[p].call.nicks[1]))
    PROVE  id \in Theirs(p)
<1>1. PICK n : n = Spelled(req[p].call.nicks[1])
  OBVIOUS
<1>2. Find(n) # NoId
  BY <1>1 DEF IInv, TablesTyped, NoId
<1>3. n = Canon[req[p].call.nicks[1]]
  BY <1>1, <1>2, NickOfMember DEF Spelled
<1>4. n \in Named(req[p].call)
  BY <1>3, NamedIn DEF CalmInv, AllAddressed, Addressed, FireStages, RankStages
<1> QED BY <1>1, <1>2, <1>4 DEF Theirs

LEMMA EvenFireBegins ==
    ASSUME IInv, CalmInv, Orderly, AllSure, NEW p \in Procs, Step(p),
           req[p].stage # "fire.settle", req'[p].stage = "fire.settle", NEW id
    PROVE  /\ Renamed(history, id) => Renamed(history', id)
           /\ Even(id) => Even(id)'
<1>1. Leading(p) /\ ~ Off(p)
  BY StepLeads DEF Off, Watched, FireStages, Reranks
<1>2. FindToFire(p)
  BY <1>1, LeadingTo DEF Leading, Dismissing, At
<1>3. /\ req[p].stage = "fire.find" /\ req'[p].target = Find(Spelled(req[p].call.nicks[1]))
      /\ req'[p].target \in DOMAIN member /\ req'[p].todo = FireWrites
  BY <1>1, <1>2, LeadingTo DEF At
<1>4. req'[p].target \in Theirs(p)
  BY <1>3, FoundIsTheirs
<1>5. UNCHANGED <<held, history>>
  BY <1>2 DEF FindToFire, tables, people
<1>6. \A q \in Procs \ {p} : req'[q] = req[q]
  BY StepKeeps DEF Keeps
<1>7. /\ req[p].stage \notin PayStages /\ ~ At(p, "idle")
      /\ {"permissions", "log"} \subseteq req'[p].todo
  BY <1>3 DEF PayStages, FireWrites, At
<1> QED BY <1>4, <1>5, <1>6, <1>7, EvenBegins DEF Orderly

LEMMA EvenRankBegins ==
    ASSUME IInv, CalmInv, Orderly, AllSure, NEW p \in Procs, Step(p),
           req[p].stage \notin {"rank.cfo", "rank.settle"},
           req'[p].stage \in {"rank.cfo", "rank.settle"}, NEW id
    PROVE  /\ Renamed(history, id) => Renamed(history', id)
           /\ Even(id) => Even(id)'
<1>1. Reranks(p)
  <2>1. ~ Off(p)
    BY DEF Off, Watched
  <2>2. ~ Leading(p)
    BY <2>1, LeadingTo DEF Leading, Dismissing, NickStages, CodeStages
  <2> QED BY <2>1, <2>2, StepLeads
<1>2. /\ req[p].stage = "rank.find" /\ req'[p].target = Find(Spelled(req[p].call.nicks[1]))
      /\ req'[p].target \in DOMAIN member
  BY <1>1 DEF Reranks
<1>3. FindToRank(p)
  BY <1>2, StepRanks DEF RankStages, CareerStep, RevokeCfo, Rerank, LogRank, TakeCourses, At
<1>4. req'[p].todo = RankWrites
  <2>1. ~ Answer(p)
    BY DEF Answer, Idle, IInv, TablesTyped
  <2>2. PICK stage, who, role : Ranking(p, stage, who, role)
    BY <1>3, <2>1, RankFound
  <2> QED BY <2>2 DEF Ranking, IInv, TablesTyped, Request
<1>5. req'[p].target \in Theirs(p)
  BY <1>2, FoundIsTheirs
<1>6. UNCHANGED <<held, history>>
  BY <1>3 DEF FindToRank, tables, people
<1>7. \A q \in Procs \ {p} : req'[q] = req[q]
  BY StepKeeps DEF Keeps
<1>8. /\ req[p].stage \notin PayStages /\ ~ At(p, "idle")
      /\ {"permissions", "log"} \subseteq req'[p].todo
  BY <1>2, <1>4 DEF PayStages, RankWrites, At
<1> QED BY <1>5, <1>6, <1>7, <1>8, EvenBegins DEF Orderly

LEMMA ClassBegins ==
    ASSUME IInv, NEW p \in Procs, Step(p), req[p].stage # "class.settle",
           req'[p].stage = "class.settle"
    PROVE  /\ {"permissions", "log"} \subseteq req'[p].todo /\ req[p].stage = "class.collect"
           /\ UNCHANGED <<held, history>>
<1>1. req[p].stage = "class.collect"
  <2>1. req'[p].stage \in ClassStages
    BY DEF ClassStages
  <2> QED BY <2>1, WalkTo DEF Ahead, AfterCheck
<1>2. CollectApproved(p)
  <2>1. ~ CareerStep(p)
    BY <1>1, RankGoesOn DEF RankStages
  <2> QED BY <1>1, <2>1 DEF Step, DepartamentStep, AccountStep, CapeStep, FindForRole, ClearRoles,
       CreateRole, FindForRemoval, RemoveRole, CheckApproved, FindToEnlist, Enlist,
       GiveCourses, LogApproved, RecordClass, FindToFire, Dismiss, LogDismissal,
       TakePermissions, TakePosts, FindToContract, ContractWrite, LogContract,
       FindPrevious, FindNew, MoveHistory, DeleteMember, Rename, LogRename,
       CreateSession, FindToUnlock, ReadSession, Unlock, FindCape, PutPicture,
       CreateCape, FindToGive, GiveCape, WearCape, At
<1> DEFINE id == Find(Canon[Reached(p)])
           o == [Onward(p, "class.collect", "class.settle") EXCEPT
                   !.ids  = Append(@, id), !.todo = {"permissions", "log", "class"}]
<1>3. ~ Answer(p)
  BY DEF Answer, Idle, IInv, TablesTyped
<1>4. req' = [req EXCEPT ![p] = o] /\ UNCHANGED <<held, history>>
  BY <1>2, <1>3 DEF CollectApproved, tables, people
<1>5. o.todo = {"permissions", "log", "class"}
  BY DEF Onward, IInv, TablesTyped, Request
<1> HIDE DEF o
<1>6. req'[p] = o
  BY <1>4 DEF IInv, TablesTyped
<1> QED BY <1>1, <1>4, <1>5, <1>6

LEMMA EvenClassBegins ==
    ASSUME IInv, NEW p \in Procs, Step(p), req[p].stage # "class.settle",
           req'[p].stage = "class.settle", NEW id
    PROVE  /\ Renamed(history, id) => Renamed(history', id)
           /\ Even(id) => Even(id)'
<1>0. PICK r, s : r = req[p] /\ s = req'[p]
  OBVIOUS
<1>1. /\ {"permissions", "log"} \subseteq s.todo /\ UNCHANGED <<held, history>>
      /\ r.stage = "class.collect" /\ s.stage = "class.settle"
  BY <1>0, ClassBegins
<1>2. \A q \in Procs \ {p} : req'[q] = req[q]
  BY StepKeeps DEF Keeps
<1>3. /\ \A c : Owes(s, "permissions", id, c) <=> Owes(s, "log", id, c)
      /\ \A w : ~ Revokes(s, w, id) /\ ~ Revokes(r, w, id) /\ \A c : ~ Owes(r, w, id, c)
  BY <1>1 DEF Owes, Revokes
<1>4. ASSUME Even(id), NEW c PROVE (WillHold(id, c) => WillShow(id, c))'
  <2> DEFINE A == Holds(held, id, c)
             C == Shown(history, id, c)
  <2>1. A \in BOOLEAN /\ C \in BOOLEAN
    BY DEF Holds, Shown
  <2>2. Will("permissions", A, req, id, c) => Will("log", C, req, id, c)
    BY <1>4 DEF Even, WillHold, WillShow
  <2>3. /\ WillHold(id, c)' <=> Will("permissions", A, req', id, c)
        /\ WillShow(id, c)' <=> Will("log", C, req', id, c)
    BY <1>1 DEF WillHold, WillShow, Will
  <2> HIDE DEF A, C
  <2>4. CASE Owes(s, "log", id, c)
    <3>1. Will("log", C, req', id, c)
      BY <1>0, <2>4 DEF Will
    <3> QED BY <2>3, <3>1
  <2>5. CASE ~ Owes(s, "log", id, c)
    <3>1. \A w \in {"permissions", "log"} :
             /\ ~ Owes(req'[p], w, id, c) /\ ~ Owes(req[p], w, id, c)
             /\ ~ Revokes(req'[p], w, id) /\ ~ Revokes(req[p], w, id)
      BY <1>0, <1>3, <2>5
    <3>2. Will("permissions", A, req', id, c) => Will("permissions", A, req, id, c)
      BY <1>2, <2>1, <3>1, WillLess
    <3>3. Will("log", C, req, id, c) => Will("log", C, req', id, c)
      BY <1>2, <2>1, <3>1, WillMore
    <3> QED BY <2>2, <2>3, <3>2, <3>3
  <2> QED BY <2>4, <2>5
<1> QED BY <1>1, <1>4 DEF Even

(* A change of nick between its move and its row of the log.               *)
LEMMA RenameSteps ==
    ASSUME IInv, NEW p \in Procs, Step(p),
           req[p].stage \in {"nick.delete", "nick.update", "nick.log"}
    PROVE  DeleteMember(p) \/ Rename(p) \/ LogRename(p)
<1>0. ~ CareerStep(p)
  BY RankGoesOn DEF RankStages
<1>1. ~ DepartamentStep(p) /\ ~ CapeStep(p)
  BY DEF DepartamentStep, CapeStep, FindForRole, ClearRoles, CreateRole,
         FindForRemoval, RemoveRole, CheckApproved, FindToEnlist, Enlist, CollectApproved,
         GiveCourses, LogApproved, RecordClass, FindCape, PutPicture,
         CreateCape, FindToGive, GiveCape, WearCape, At
<1>2. AccountStep(p) => DeleteMember(p) \/ Rename(p) \/ LogRename(p)
  BY DEF AccountStep, FindToFire, Dismiss, LogDismissal,
         TakePermissions, TakePosts, FindToContract, ContractWrite, LogContract,
         FindPrevious, FindNew, MoveHistory,
         CreateSession, FindToUnlock, ReadSession, Unlock, At
<1> QED BY <1>0, <1>1, <1>2 DEF Step

LEMMA RenameMoves ==
    ASSUME IInv, CalmInv, HistoryInv, scenario.exclusive, scenario.bonified = {}, AllSure,
           AllPoised, NEW p \in Procs, Step(p), NEW id \in DOMAIN member',
           Moves(req[p], id)
    PROVE  Moves(req'[p], id) \/ Renamed(history', id)
<1>0. PICK r, s : r = req[p] /\ s = req'[p]
  OBVIOUS
<1>1. /\ r.stage \in {"nick.delete", "nick.update", "nick.log"}
      /\ DeleteMember(p) \/ Rename(p) \/ LogRename(p)
      /\ r.target \in Nat /\ r.other \in Nat
  BY <1>0, RenameSteps DEF Moves, IInv, TablesTyped, Request
<1>2. \A stage : Goto(p, stage) => s.stage = stage /\ s.target = r.target
  BY <1>0 DEF Goto, IInv, TablesTyped, Request
<1>3. Answer(p) => s.stage = "idle"
  BY <1>0 DEF Answer, Idle, IInv, TablesTyped
<1>4. CASE DeleteMember(p)
  <2>1. r.stage = "nick.delete" /\ ~ Answer(p)
    BY <1>0, <1>3, <1>4, RenameGoesOn DEF DeleteMember, At
  <2>2. /\ Goto(p, "nick.update")
        /\ member' = Restrict(member, DOMAIN member \ {r.other})
    BY <1>0, <1>4, <2>1 DEF DeleteMember
  <2>3. DOMAIN member' = DOMAIN member \ {r.other}
    BY <2>2 DEF Restrict
  <2> QED BY <1>0, <1>2, <2>1, <2>2, <2>3 DEF Moves
<1>5. CASE Rename(p)
  <2>1. r.stage = "nick.update" /\ ~ Answer(p)
    BY <1>0, <1>3, <1>5, RenameGoesOn DEF Rename, At
  <2>2. Goto(p, "nick.log")
    BY <1>5, <2>1 DEF Rename
  <2> QED BY <1>0, <1>2, <2>1, <2>2 DEF Moves
<1>6. CASE LogRename(p)
  <2>1. r.stage = "nick.log" /\ history' = Logged("CHANGE", r.target, NoRole)
    BY <1>0, <1>6 DEF LogRename, At
  <2>2. r.target \in DOMAIN member /\ id = r.target
    <3>1. r.target # NoId /\ Find(Canon[r.call.nicks[2]]) = r.target
      BY <1>0, <2>1 DEF AllSure, Sure, Logging
    <3> QED BY <1>0, <2>1, <3>1, FindType DEF Moves
  <2>3. PICK new : new = Logged("CHANGE", r.target, NoRole)
    OBVIOUS
  <2>4. Renamed(new, id)
    BY <1>1, <2>2, <2>3, ShownLogged
  <2> QED BY <2>1, <2>3, <2>4
<1> QED BY <1>1, <1>4, <1>5, <1>6

(* What the other steps do to the two tables.                              *)
LEMMA HeldElse ==
    ASSUME IInv, NEW p \in Procs, Step(p), req[p].stage \notin PayStages,
           NEW id \in DOMAIN member', NEW c
    PROVE  Holds(held', id, c) => Holds(held, id, c)
<1>1. ~ GiveCourses(p)
  BY DEF GiveCourses, At, PayStages
<1>2. held' \subseteq held
  BY <1>1, HeldWriters DEF TakePermissions, DeleteMember
<1> QED BY <1>2 DEF Holds

LEMMA HistoryElse ==
    ASSUME IInv, CalmInv, HistoryInv, AllSure, NoneLeft, NEW p \in Procs, Step(p),
           req[p].stage \notin PayStages, NEW id
    PROVE  \/ Moves(req'[p], id)
           \/ /\ \A c : Shown(history, id, c) => Shown(history', id, c)
              /\ Renamed(history, id) => Renamed(history', id)
<1>0. PICK r, s : r = req[p] /\ s = req'[p]
  OBVIOUS
<1>1. r.target \in Nat /\ r.other \in Nat /\ RequestSound(r)
  BY <1>0 DEF IInv, TablesTyped, RequestsSound, Request
<1>2. ~ LogDismissal(p) /\ ~ LogApproved(p) /\ ~ LogRank(p)
  BY DEF LogDismissal, LogApproved, LogRank, At, PayStages
<1>3. CASE UNCHANGED history
  BY <1>3
<1>4. ASSUME NEW type \in {"CONTRACTING", "CHANGE"},
             NEW about \in RoleNames \cup CourseNames \cup {NoRole},
             history' = Logged(type, r.target, about)
      PROVE  /\ \A c : Shown(history, id, c) => Shown(history', id, c)
             /\ Renamed(history, id) => Renamed(history', id)
  <2>1. PICK row, new : row = LogRow(type, r.target, about) /\ new = Logged(type, r.target, about)
    OBVIOUS
  <2>2. ~ Takes(row)
    BY <2>1 DEF Takes, LogRow
  <2>3. ASSUME NEW c
        PROVE  /\ Shown(history, id, c) => Shown(new, id, c)
               /\ Renamed(history, id) => Renamed(new, id)
    BY <1>1, <2>1, <2>2, ShownLogged
  <2> QED BY <1>4, <2>1, <2>3
<1>5. CASE LogContract(p)
  <2>1. r.stage = "contract.log" /\ history' = Logged("CONTRACTING", r.target, Role(p))
    BY <1>0, <1>5 DEF LogContract, At
  <2>2. Role(p) \in RoleNames
    BY <1>0, <1>1, <2>1 DEF RequestSound, HireStages, Role
  <2> QED BY <1>4, <2>1, <2>2
<1>6. CASE LogRename(p)
  BY <1>0, <1>4, <1>6 DEF LogRename
<1>7. CASE MoveHistory(p) /\ history' # history
  <2>1. /\ r.stage = "nick.move" /\ history' = Moved(r.other, r.target)
        /\ Goto(p, "nick.delete")
    BY <1>0, <1>7 DEF MoveHistory, At
  <2>2. s.stage = "nick.delete" /\ s.target = r.target /\ s.other = r.other
    BY <1>0, <2>1 DEF Goto, IInv, TablesTyped, Request
  <2>3. CASE id \in {r.target, r.other}
    BY <1>0, <2>2, <2>3 DEF Moves
  <2>4. CASE id \notin {r.target, r.other}
    <3>1. PICK new : new = Moved(r.other, r.target)
      OBVIOUS
    <3>2. ASSUME NEW c
          PROVE  /\ Shown(history, id, c) => Shown(new, id, c)
                 /\ Renamed(history, id) => Renamed(new, id)
      BY <1>1, <2>4, <3>1, ShownMoved
    <3> QED BY <2>1, <3>1, <3>2
  <2> QED BY <2>3, <2>4
<1>8. CASE DeleteMember(p)
  <2>1. r.stage = "nick.delete" /\ (UNCHANGED history \/ history' = Without(history, r.other))
    BY <1>0, <1>8 DEF DeleteMember, At
  <2>2. Without(history, r.other) = history
    BY <1>0, <2>1, WithoutNone DEF HistoryInv, NoneLeft, NoneAbout
  <2> QED BY <1>3, <2>1, <2>2
<1> QED BY <1>2, <1>3, <1>5, <1>6, <1>7, <1>8, HistoryWriters

LEMMA EvenElse ==
    ASSUME IInv, CalmInv, HistoryInv, AllSure, NoneLeft, NEW p \in Procs, Step(p),
           req[p].stage \notin PayStages, req'[p].stage \notin PayStages,
           NEW id \in DOMAIN member',
           Moves(req[p], id) => Moves(req'[p], id) \/ Renamed(history', id),
           EvenOrRenamed(id)
    PROVE  EvenOrRenamed(id)'
<1>1. CASE Moves(req'[p], id)
  BY <1>1 DEF EvenOrRenamed
<1>2. CASE ~ Moves(req'[p], id)
  <2>1. /\ \A c : Shown(history, id, c) => Shown(history', id, c)
        /\ Renamed(history, id) => Renamed(history', id)
    BY <1>2, HistoryElse
  <2>2. \A c : Holds(held', id, c) => Holds(held, id, c)
    BY HeldElse
  <2>3. \A q \in Procs \ {p} : req'[q] = req[q]
    BY StepKeeps DEF Keeps
  <2>4. ASSUME Even(id) PROVE Even(id)'
    BY <2>1, <2>2, <2>3, <2>4, EvenSame
  <2> QED BY <1>2, <2>1, <2>3, <2>4, EvenAfter
<1> QED BY <1>1, <1>2

LEMMA EvenStep ==
    ASSUME IInv, CalmInv, HistoryInv, AllTeaching, AllSure, AllPoised, NoneLeft, Orderly,
           NEW p \in Procs, Step(p), NEW id \in DOMAIN member, id \in DOMAIN member',
           EvenOrRenamed(id)
    PROVE  EvenOrRenamed(id)'
<1>1. Moves(req[p], id) => Moves(req'[p], id) \/ Renamed(history', id)
  BY RenameMoves DEF Orderly
<1>2. \A q \in Procs \ {p} : req'[q] = req[q]
  BY StepKeeps DEF Keeps
<1> DEFINE Fine == /\ Renamed(history, id) => Renamed(history', id)
                   /\ Even(id) => Even(id)'
<1>3. CASE req[p].stage \notin PayStages /\ req'[p].stage \notin PayStages
  BY <1>1, <1>3, EvenElse
<1>4. req[p].stage = "class.settle" => Fine
  BY EvenSettled
<1>5. req[p].stage = "fire.settle" => Fine
  BY EvenFired
<1>6. req[p].stage = "rank.settle" => Fine
  BY EvenRanked
<1>7. req[p].stage = "rank.cfo" => Fine
  BY EvenCfo
<1>8. req[p].stage # "fire.settle" /\ req'[p].stage = "fire.settle" => Fine
  BY EvenFireBegins
<1>9. /\ req[p].stage \notin {"rank.cfo", "rank.settle"}
      /\ req'[p].stage \in {"rank.cfo", "rank.settle"}
      => Fine
  BY EvenRankBegins
<1>10. req[p].stage # "class.settle" /\ req'[p].stage = "class.settle" => Fine
  BY EvenClassBegins
<1>11. Fine => EvenOrRenamed(id)'
  BY <1>1, <1>2, EvenAfter
<1> HIDE DEF Fine
<1> QED
  BY <1>3, <1>4, <1>5, <1>6, <1>7, <1>8, <1>9, <1>10, <1>11 DEF PayStages

(* Who joins holds nothing, and the history does not know the id yet.      *)
LEMMA EvenJoined ==
    ASSUME IInv, HeldInv, HistoryInv, AllSure, NEW p \in Procs, Step(p),
           NEW id \in DOMAIN member' \ DOMAIN member
    PROVE  Even(id)'
<1>1. ContractWrite(p) \/ Enlist(p)
  <2>1. \A i : ~ Rewrites(i) /\ ~ Leaves(i) /\ \A n : ~ Renames(i, n)
    BY DEF Rewrites, Leaves, Renames
  <2>2. member' # member /\ ~ CareerStep(p)
    BY RankEffects
  <2> QED BY <2>1, <2>2, AccountRows, OtherRows DEF Step
<1>2. UNCHANGED <<held, history>>
  BY <1>1 DEF ContractWrite, Enlist
<1>3. \A c : ~ Holds(held', id, c)
  <2> SUFFICES ASSUME NEW c, Holds(held, id, c) PROVE FALSE
    BY <1>2
  <2>1. PICK h \in held : h = [user |-> id, name |-> c, type |-> "COURSE"]
    BY DEF Holds
  <2>2. h.user = id
    BY <2>1
  <2> QED BY <2>2 DEF HeldInv
<1>4. ASSUME NEW q \in Procs, NEW w, NEW c PROVE ~ Owes(req'[q], w, id, c)
  <2>1. CASE q = p
    <3>1. PICK r, s : r = req[p] /\ s = req'[p]
      OBVIOUS
    <3>2. ASSUME s.stage = "class.settle" PROVE UNCHANGED member
      <4>1. s.stage \in ClassStages
        BY <3>2 DEF ClassStages
      <4>2. ~ Ahead(r, s, "class.enrol", "class.collect")
        BY <3>2 DEF Ahead
      <4> QED BY <3>1, <4>1, <4>2, WalkTo
    <3> QED BY <2>1, <3>1, <3>2 DEF Owes
  <2>2. CASE q # p
    <3>1. req'[q] = req[q]
      BY <2>2, StepKeeps DEF Keeps
    <3>2. ASSUME Owes(req[q], w, id, c) PROVE FALSE
      BY <3>2, OwesTheirs, TheirsMembers
    <3> QED BY <3>1, <3>2
  <2> QED BY <2>1, <2>2
<1>5. \A c : ~ WillHold(id, c)'
  BY <1>3, <1>4 DEF WillHold, Will
<1> QED BY <1>5 DEF Even

LEMMA EvenSubmit ==
    ASSUME IInv, NEW p \in Procs, Submit(p), NEW id, EvenOrRenamed(id)
    PROVE  EvenOrRenamed(id)'
<1>1. UNCHANGED <<held, history>> /\ \A q \in Procs \ {p} : req'[q] = req[q]
  BY SubmitBegins, SubmitOthers DEF Begin, tables, people
<1>2. req[p].stage = "idle" /\ req'[p].stage \notin PayStages
  <2>1. req[p].stage = "idle" /\ req'[p].stage \notin {"fire.settle", "rank.cfo", "rank.settle"}
    BY NoneFires
  <2>2. PICK s : s = req'[p]
    OBVIOUS
  <2>3. s.stage # "class.settle"
    <3>1. s.stage \in ClassStages => s.stage = "class.check"
      BY <2>2, BegunTeaching
    <3> QED BY <3>1 DEF ClassStages
  <2> QED BY <2>1, <2>2, <2>3 DEF PayStages
<1>3. ~ Moves(req[p], id) /\ req[p].stage \notin PayStages
  BY <1>2 DEF Moves, PayStages
<1>4. ASSUME Even(id) PROVE Even(id)'
  BY <1>1, <1>2, <1>3, <1>4, EvenSame
<1> QED BY <1>1, <1>3, <1>4, EvenAfter

LEMMA CourseInvNext ==
    ASSUME IInv, CalmInv, HeldInv, HistoryInv, AllTeaching, AllSure, AllPoised, NoneLeft,
           Orderly, CourseInv, [Next]_vars
    PROVE  CourseInv'
<1>0. \A id : StartedEarned(id)' <=> StartedEarned(id)
  BY ScenarioStays DEF StartedEarned
<1> SUFFICES ASSUME NEW id \in DOMAIN member', StartedEarned(id) PROVE EvenOrRenamed(id)'
  BY <1>0 DEF CourseInv
<1>1. ASSUME NEW p \in Procs, Step(p) PROVE EvenOrRenamed(id)'
  <2>1. CASE id \in DOMAIN member
    BY <1>1, <2>1, EvenStep DEF CourseInv
  <2>2. CASE id \notin DOMAIN member
    <3>1. Even(id)'
      BY <1>1, <2>2, EvenJoined
    <3> QED BY <3>1 DEF EvenOrRenamed
  <2> QED BY <2>1, <2>2
<1>2. ASSUME NEW p \in Procs, Submit(p) PROVE EvenOrRenamed(id)'
  <2>1. id \in DOMAIN member
    BY <1>2, QuietRows
  <2> QED BY <1>2, <2>1, EvenSubmit DEF CourseInv
<1>3. ASSUME UNCHANGED <<member, held, history, req>> PROVE EvenOrRenamed(id)'
  <2>1. EvenOrRenamed(id)
    BY <1>3 DEF CourseInv
  <2> QED BY <1>3, <2>1 DEF EvenOrRenamed, Even, WillHold, WillShow, Will
<1>4. \A p \in Procs : ~ FailQuery(p) /\ ~ LoseWrite(p)
  BY DEF FailQuery, LoseWrite, Orderly
<1> QED BY <1>1, <1>2, <1>3, <1>4 DEF Next, Tick, vars, tables, people

(* Between requests that is what the property says.                        *)
LEMMA ShownIs ==
    ASSUME NEW rows \in Seq(HistoryRow), NEW id, NEW c
    PROVE  Shown(rows, id, c) <=> c \in ApprovedIn(rows, id)
<1>1. DOMAIN rows = 1..Len(rows) /\ Len(rows) \in Nat
  BY LenProperties
<1>2. ASSUME NEW i \in DOMAIN rows
      PROVE  SinceTaken(rows, id, i) <=>
                /\ rows[i].target = id
                /\ \A j \in DOMAIN rows : j >= i /\ rows[j].target = id => ~ Takes(rows[j])
  <2>1. \A j : j \in i..Len(rows) <=> j \in DOMAIN rows /\ j >= i
    BY <1>1
  <2> QED BY <2>1 DEF SinceTaken
<1> QED BY <1>2 DEF Shown, ApprovedIn

LEMMA HoldsIs ==
    ASSUME NEW table, table \subseteq HeldRow, NEW id, NEW c
    PROVE  Holds(table, id, c) <=> c \in CoursesOf(table, id)
<1>1. PICK h : h = [user |-> id, name |-> c, type |-> "COURSE"]
  OBVIOUS
<1>2. h.user = id /\ h.name = c /\ h.type = "COURSE"
  BY <1>1
<1>3. Holds(table, id, c) => c \in CoursesOf(table, id)
  BY <1>1, <1>2 DEF Holds, CoursesOf, RowsOf
<1>4. ASSUME c \in CoursesOf(table, id) PROVE Holds(table, id, c)
  <2>1. PICK r \in table : r.user = id /\ r.type = "COURSE" /\ r.name = c
    BY <1>4 DEF CoursesOf, RowsOf
  <2>2. r \in HeldRow
    BY <2>1
  <2>3. r = [user |-> r.user, name |-> r.name, type |-> r.type]
    BY <2>2 DEF HeldRow
  <2> QED BY <2>1, <2>3 DEF Holds
<1> QED BY <1>3, <1>4

LEMMA EvenWhenQuiet ==
    ASSUME IInv, HistoryInv, Quiet, NEW id
    PROVE  EvenOrRenamed(id) <=> Earned(id, held, history)
<1>1. \A p \in Procs : req[p].stage = "idle"
  BY DEF Quiet, At
<1>2. \A p \in Procs : /\ ~ Moves(req[p], id)
                       /\ \A w : ~ Revokes(req[p], w, id) /\ \A c : ~ Owes(req[p], w, id, c)
  BY <1>1 DEF Moves, Revokes, Owes
<1>3. \A c : /\ WillHold(id, c) <=> Holds(held, id, c)
             /\ WillShow(id, c) <=> Shown(history, id, c)
  BY <1>2 DEF WillHold, WillShow, Will
<1>4. \A c : /\ Holds(held, id, c) <=> c \in CoursesOf(held, id)
             /\ Shown(history, id, c) <=> c \in ApprovedIn(history, id)
  BY ShownIs, HoldsIs DEF IInv, TablesTyped, HistoryInv
<1>5. Even(id) <=> \A c : c \in CoursesOf(held, id) => c \in ApprovedIn(history, id)
  BY <1>3, <1>4 DEF Even
<1> QED BY <1>2, <1>5 DEF EvenOrRenamed, Earned

LEMMA CourseInvInit == Init => CourseInv
<1> SUFFICES ASSUME Init PROVE CourseInv
  OBVIOUS
<1>1. IInv /\ HistoryInv
  BY InitInv, HistoryInvInit
<1>2. Quiet
  BY DEF Init, Quiet, At, Idle
<1>3. /\ member = scenario.members /\ held = scenario.held /\ history = scenario.history
  BY DEF Init
<1>4. \A id \in DOMAIN member : StartedEarned(id) => Earned(id, held, history)
  BY <1>3 DEF StartedEarned
<1> QED BY <1>1, <1>2, <1>4, EvenWhenQuiet DEF CourseInv

(***************************************************************************)
(* In orderly calls every course a member holds between requests is an     *)
(* approval in the history since the last dismissal or change of rank that *)
(* takes courses, if that was so when the behaviour started: the two       *)
(* createMany of a class, and the deletion and the row of a dismissal, a   *)
(* promotion or a demotion, leave the two tables in step whichever comes   *)
(* first and whatever other requests write in between.                     *)
(***************************************************************************)
THEOREM CoursesStayEarned == Spec => []CoursesAreEarned
<1> DEFINE Turns == scenario.exclusive /\ RenamesApart
           Clean == Turns /\ ClassesAreClean
           J == /\ IInv /\ CalmInv /\ HeldInv /\ HistoryInv /\ AllTeaching
                /\ Turns => AllSure /\ NoneLeft
                /\ Clean => AllPoised
                /\ Orderly => CourseInv
<1>1. Init => J
  BY InitInv, CalmInvInit, HeldInvInit, HistoryInvInit, TeachingInit, SureInit, NoneLeftInit,
     PoisedInit, CourseInvInit
<1>2. J /\ [Next]_vars => J'
  <2> SUFFICES ASSUME J, [Next]_vars PROVE J'
    OBVIOUS
  <2>1. scenario' = scenario
    BY ScenarioStays
  <2>2. Turns' = Turns /\ Clean' = Clean /\ Orderly' = Orderly
    BY <2>1 DEF RenamesApart, ClassesAreClean, CallsOf, Orderly
  <2>3. IInv' /\ CalmInv' /\ HeldInv' /\ HistoryInv' /\ AllTeaching'
    BY NextInv, CalmInvNext, HeldInvNext, HistoryInvNext, TeachingNext
  <2>4. Turns => AllSure' /\ NoneLeft'
    BY SureNext, NoneLeftNext
  <2>5. Clean => AllPoised'
    BY PoisedNext
  <2>6. Orderly => CourseInv'
    <3>1. Orderly => Turns /\ Clean
      BY DEF Orderly
    <3> QED BY <3>1, CourseInvNext
  <2> QED BY <2>2, <2>3, <2>4, <2>5, <2>6
<1>3. J => CoursesAreEarned
  BY EvenWhenQuiet DEF CoursesAreEarned, CourseInv
<1> HIDE DEF J
<1> QED BY <1>1, <1>2, <1>3, PTL DEF Spec
=============================================================================
