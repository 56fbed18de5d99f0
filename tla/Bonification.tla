---------------------------- MODULE Bonification ----------------------------
(***************************************************************************)
(* ActionsService.bonifyUser: the bonus an officer gives a member, at most *)
(* three a day and one every half hour.  Both limits are checked on rows   *)
(* of the Bonification table read before the new row is written, and the   *)
(* day they are checked over begins at a `today' computed before that.     *)
(*                                                                         *)
(* Time is counted in ticks of a clock; a day has DayLen of them and the   *)
(* day of the limits begins Dawn ticks after midnight (moment().startOf    *)
(* ("day").add(3, "hours")).  Roles do not change here.                    *)
(***************************************************************************)
EXTENDS Authority, Sequences

CONSTANTS
    Users,      \* the members
    RoleOf,     \* the role each of them holds
    Calls,      \* the calls officers make
    Procs,      \* requests that can be in flight together
    DayLen,     \* ticks in a day
    Dawn,       \* ticks from midnight to the beginning of the day of the limits
    Cooldown,   \* ticks in the half hour between two bonuses
    MaxNow,     \* bound: the last tick of the clock
    MaxCalls,   \* bound: calls made in a behaviour
    Settings    \* the settings behaviours run in, see Setting

\* What surrounds the server in a behaviour: whether officers leave a member
\* alone while a call on that member is in flight, which nothing in the code
\* makes them do, and whether queries may fail.
Setting == [exclusive : BOOLEAN, faults : BOOLEAN]

\* Only the first of the reasons changes what is checked.
Reasons == {"Recrutamento", "Atividade de Interacao", "Outro"}

Call == [actor : Users, target : Users, reason : Reasons]

BonificationRow == [target : Users, reason : Reasons, createdAt : Nat]

ASSUME BonificationAssumption ==
    /\ RoleOf \in [Users -> RoleNames]
    /\ Calls # {} /\ Calls \subseteq Call
    /\ IsFiniteSet(Procs)
    /\ DayLen \in Nat \ {0} /\ Dawn \in 0..DayLen /\ Cooldown \in Nat
    /\ MaxNow \in Nat /\ MaxCalls \in Nat
    /\ Settings \subseteq Setting

VARIABLES
    total,          \* User.totalBonifications, per member
    bonifications,  \* the Bonification table, oldest row first
    now,            \* the clock
    req,            \* the request each process handles
    issued,         \* calls made so far
    setting         \* the setting of this behaviour, which never changes

vars == <<total, bonifications, now, req, issued, setting>>

Writes == {"credit", "record"}

Request == [stage : {"idle", "target", "count", "writes"},
            call  : Call,
            today : Nat,             \* where the day of the limits begins
            seen  : Nat,             \* rows counted since then
            todo  : SUBSET Writes]   \* writes of the Promise.all on their way

Idle == [stage |-> "idle", call |-> CHOOSE c \in Calls : TRUE,
         today |-> 0, seen |-> 0, todo |-> {}]
-----------------------------------------------------------------------------
Midnight(time) == (time \div DayLen) * DayLen

\* Mistake: the hours taken off midnight instead of added to it.
StartOfTodayBefore(time) == Midnight(time) - Dawn

StartOfToday(time) == Midnight(time) + Dawn

\* bonification.findMany: the rows of a member since `start'.
RowsSince(u, start) ==
    {i \in DOMAIN bonifications : /\ bonifications[i].target = u
                                  /\ bonifications[i].createdAt >= start}

MayBonify(c) ==
    \/ PositionOf(RoleOf[c.target]) <= Roles[RoleOf[c.actor]].gratifyUntilRolePosition
    \/ c.reason = "Recrutamento"

\* Mistake: four bonuses a day.
WithinFour(u, start) == Cardinality(RowsSince(u, start)) < 4

WithinDailyLimit(u, start) == Cardinality(RowsSince(u, start)) < 3

\* Rows that start the half hour: a recruitment does not.
Cooling(u, start) ==
    {i \in RowsSince(u, start) : bonifications[i].reason # "Recrutamento"}

\* Mistake: the half hour counted from the first bonus of the day.
CooledSinceFirst(c, start) ==
    c.reason = "Recrutamento" \/
    \A i \in Cooling(c.target, start) :
        (\A j \in Cooling(c.target, start) : i <= j) =>
            now - bonifications[i].createdAt >= Cooldown

\* The latest such row is old enough: all of them are.
Cooled(c, start) ==
    c.reason = "Recrutamento" \/
    \A i \in Cooling(c.target, start) :
        now - bonifications[i].createdAt >= Cooldown
-----------------------------------------------------------------------------
Init == /\ total = [u \in Users |-> 0]
        /\ bonifications = <<>>
        /\ now = 0
        /\ req = [p \in Procs |-> Idle]
        /\ issued = 0
        /\ setting \in Settings

Busy(p) == req[p].stage # "idle"

\* AuthGuard has read the row of the officer, role included.  Exclusive clients
\* wait until both writes are over, also when one fails and answers them before.
Submit(p, c) ==
    /\ ~ Busy(p) /\ issued < MaxCalls
    /\ setting.exclusive => \A q \in Procs : Busy(q) => req[q].call.target # c.target
    /\ req' = [req EXCEPT ![p] = [Idle EXCEPT !.stage = "target", !.call = c]]
    /\ issued' = issued + 1
    /\ UNCHANGED <<total, bonifications, now, setting>>

\* user.findUnique has answered: the handler checks the rank of the member
\* and computes `today'.
ReadTarget(p) ==
    /\ req[p].stage = "target"
    /\ MayBonify(req[p].call)
    /\ req' = [req EXCEPT ![p] = [@ EXCEPT !.stage = "count",
                                           !.today = StartOfToday(now)]]
    /\ UNCHANGED <<total, bonifications, now, issued, setting>>

\* bonification.findMany has answered: the handler checks both limits and
\* sends its two writes.
CountRows(p) ==
    LET c == req[p].call IN
    /\ req[p].stage = "count"
    /\ WithinDailyLimit(c.target, req[p].today)
    /\ Cooled(c, req[p].today)
    /\ req' = [req EXCEPT ![p] =
                 [@ EXCEPT !.stage = "writes", !.todo = Writes,
                           !.seen = Cardinality(RowsSince(c.target, req[p].today))]]
    /\ UNCHANGED <<total, bonifications, now, issued, setting>>

Refuse(p) ==
    LET c == req[p].call IN
    /\ \/ req[p].stage = "target" /\ ~ MayBonify(c)
       \/ /\ req[p].stage = "count"
          /\ \/ ~ WithinDailyLimit(c.target, req[p].today)
             \/ ~ Cooled(c, req[p].today)
    /\ req' = [req EXCEPT ![p] = Idle]
    /\ UNCHANGED <<total, bonifications, now, issued, setting>>

\* One of the two writes has been settled; with the last the handler answers.
AfterWrite(r, w) ==
    IF r.todo = {w} THEN Idle ELSE [r EXCEPT !.todo = @ \ {w}]

Settled(p, w) ==
    /\ req[p].stage = "writes" /\ w \in req[p].todo
    /\ req' = [req EXCEPT ![p] = AfterWrite(@, w)]

\* Mistake: the new total computed from the rows the handler has seen.
CreditedFromSeen(amount, seen) == 5 * (seen + 1)

\* The database increments the columns, whatever the handler has seen.
Credited(amount, seen) == amount + 5

CreditMember(p) ==
    /\ Settled(p, "credit")
    /\ total' = [total EXCEPT ![req[p].call.target] = Credited(@, req[p].seen)]
    /\ UNCHANGED <<bonifications, now, issued, setting>>

NewRow(c) == [target |-> c.target, reason |-> c.reason, createdAt |-> now]

RecordBonification(p) ==
    /\ Settled(p, "record")
    /\ bonifications' = Append(bonifications, NewRow(req[p].call))
    /\ UNCHANGED <<total, now, issued, setting>>

\* A read that fails makes the handler throw; a write that fails is not made.
Fail(p) ==
    /\ setting.faults
    /\ \/ /\ req[p].stage \in {"target", "count"}
          /\ req' = [req EXCEPT ![p] = Idle]
       \/ \E w \in Writes : Settled(p, w)
    /\ UNCHANGED <<total, bonifications, now, issued, setting>>

Tick ==
    /\ now < MaxNow
    /\ now' = now + 1
    /\ UNCHANGED <<total, bonifications, req, issued, setting>>

Step(p) == \/ ReadTarget(p) \/ CountRows(p) \/ Refuse(p)
           \/ CreditMember(p) \/ RecordBonification(p)

Next == \/ \E p \in Procs : \/ \E c \in Calls : Submit(p, c)
                            \/ Step(p)
                            \/ Fail(p)
        \/ Tick

Spec == Init /\ [][Next]_vars
-----------------------------------------------------------------------------
(***************************************************************************)
(* Properties.                                                             *)
(***************************************************************************)
TypeOK ==
    /\ total \in [Users -> Nat]
    /\ bonifications \in Seq(BonificationRow)
    /\ now \in Nat
    /\ req \in [Procs -> Request]
    /\ issued \in Nat

DayBegins(day) == day * DayLen + Dawn
DayEnds(day)   == (day + 1) * DayLen

\* The rows of a member between the dawn and the end of a day.
RowsOfDay(u, day) ==
    {i \in DOMAIN bonifications :
        /\ bonifications[i].target = u
        /\ bonifications[i].createdAt >= DayBegins(day)
        /\ bonifications[i].createdAt < DayEnds(day)}

Days == 0..(MaxNow \div DayLen)

(***************************************************************************)
(* How far the daily limit can be exceeded: every request in flight may    *)
(* have counted two rows before any of the others wrote its own, so a day  *)
(* sees at most two bonuses and one per request served together.           *)
(***************************************************************************)
QuotaUnderRaces ==
    \A u \in Users, day \in Days :
        Cardinality(RowsOfDay(u, day)) <= 2 + Cardinality(Procs)

RowsOf(u) == {i \in DOMAIN bonifications : bonifications[i].target = u}

Unsettled(u, w) == {p \in Procs : req[p].call.target = u /\ w \in req[p].todo}

(***************************************************************************)
(* Between queries that do not fail, the balance of a member and the rows  *)
(* of the table agree up to the writes on their way: no bonus is lost or   *)
(* counted twice when several requests credit the member at once.          *)
(***************************************************************************)
LedgerBalances ==
    ~ setting.faults =>
        \A u \in Users :
            total[u] + 5 * Cardinality(Unsettled(u, "credit"))
                = 5 * (Cardinality(RowsOf(u)) + Cardinality(Unsettled(u, "record")))

(***************************************************************************)
(* "O policial já foi bonificado 3x hoje" (actions.service.ts:441): from   *)
(* dawn to midnight nobody is given a fourth bonus.                        *)
(***************************************************************************)
AtMostThreeInAnyCase ==
    \A u \in Users, day \in Days : Cardinality(RowsOfDay(u, day)) <= 3

(***************************************************************************)
(* That holds, and half an hour separates any bonus that is not a          *)
(* recruitment from the next, as long as a member is left to one request   *)
(* at a time, even if queries fail.                                        *)
(***************************************************************************)
AtMostThreePerDay == setting.exclusive => AtMostThreeInAnyCase

HalfHourApart ==
    setting.exclusive =>
        \A u \in Users, day \in Days : \A i, j \in RowsOfDay(u, day) :
            /\ i < j
            /\ bonifications[i].reason # "Recrutamento"
            /\ bonifications[j].reason # "Recrutamento"
            => bonifications[j].createdAt - bonifications[i].createdAt >= Cooldown

(***************************************************************************)
(* The same message, read of the calendar day: nobody has more than three  *)
(* bonuses dated in one day.  Before dawn `today' is still to come and no  *)
(* row is counted.                                                         *)
(***************************************************************************)
ThreeADayAtMost ==
    \A u \in Users, day \in Days :
        Cardinality({i \in RowsOf(u) :
                        bonifications[i].createdAt \div DayLen = day}) <= 3
=============================================================================
